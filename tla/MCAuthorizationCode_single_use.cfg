\* Two redemptions of one code: the documented single use.
SPECIFICATION Spec
CONSTANTS
  s1 = s1
  a1 = a1
  t1 = t1
  t2 = t2
  l1 = l1
  b1 = b1
  web = web
  cli = cli
  webUri = webUri
  cliUri = cliUri
  openid = openid
  x = x
  y = y
  alice = alice
  bob = bob
  None = None
  Sessions = {s1}
  Authorizations = {a1}
  Redemptions = {t1, t2}
  Logouts = {}
  Uses = {}
  Clients = {web, cli}
  Redirects = {webUri, cliUri}
  Scopes = {openid}
  Secrets = {x, y}
  Subjects = {alice, bob}
  DevSubjects = {bob}
  SubjectOf <- OwnerOf
  AllowedRedirects <- UrisOf
  AllowedScopes <- ScopesOf
  CodeTTL = 1
  AccessTTL = 1
  RefreshTTL = 2
  SessionTTL = 2
  MaxTime = 2
SYMMETRY Symmetric
INVARIANT CodeExchangedOnce
CHECK_DEADLOCK FALSE
