\* Two starts, two callbacks, one person known to two providers.
SPECIFICATION Spec
CONSTANTS
  s1 = s1
  s2 = s2
  c1 = c1
  c2 = c2
  google = google
  entra = entra
  core = core
  other = other
  annAtGoogle = annAtGoogle
  annAtEntra = annAtEntra
  bobAtGoogle = bobAtGoogle
  ann = ann
  eve = eve
  eveLocal = eveLocal
  None = None
  Starts = {s1, s2}
  Callbacks = {c1, c2}
  Providers = {google, entra}
  Workspaces = {core, other}
  DefaultWorkspace = core
  Profiles = {annAtGoogle, annAtEntra, bobAtGoogle}
  ProviderOf <- KnownTo
  EmailOf <- Addresses
  Emails = {ann, eve}
  LocalUsers <- EveOnly
  StateTTL = 1
  MaxTime = 1
SYMMETRY Symmetric
INVARIANTS TypeOK LoginIsBound LinkedUsersExist KnownPersonKeepsAccount LateStateRejected
CHECK_DEADLOCK FALSE
