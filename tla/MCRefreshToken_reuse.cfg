\* A retired token comes back while its rotation is under way.
SPECIFICATION Spec
CONSTANTS
  g1 = g1
  g2 = g2
  r1 = r1
  r2 = r2
  r3 = r3
  web = web
  cli = cli
  alice = alice
  bob = bob
  None = None
  Grants = {g1, g2}
  Refreshes = {r1, r2, r3}
  Clients = {web, cli}
  Holders = {alice, bob}
  ClientOf <- IssuedTo
  HolderOf <- HeldBy
  RefreshTTL = 1
  MaxTime = 2
SYMMETRY Symmetric
INVARIANT FamilyRevokedOnReuse
CHECK_DEADLOCK FALSE
