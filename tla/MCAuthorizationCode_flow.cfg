\* One session, one authorization, two redemptions, a logout and a use.
SPECIFICATION Spec
CONSTANTS
  s1 = s1
  a1 = a1
  t1 = t1
  t2 = t2
  l1 = l1
  b1 = b1
  web = web
  cli = cli
  webUri = webUri
  cliUri = cliUri
  openid = openid
  x = x
  y = y
  alice = alice
  bob = bob
  None = None
  Sessions = {s1}
  Authorizations = {a1}
  Redemptions = {t1, t2}
  Logouts = {l1}
  Uses = {b1}
  Clients = {web, cli}
  Redirects = {webUri, cliUri}
  Scopes = {openid}
  Secrets = {x, y}
  Subjects = {alice, bob}
  DevSubjects = {bob}
  SubjectOf <- OwnerOf
  AllowedRedirects <- UrisOf
  AllowedScopes <- ScopesOf
  CodeTTL = 1
  AccessTTL = 1
  RefreshTTL = 2
  SessionTTL = 1
  MaxTime = 1
SYMMETRY Symmetric
INVARIANTS TypeOK GrantsTrace LateReplayRejected EndedMeansRefused
CHECK_DEADLOCK FALSE
