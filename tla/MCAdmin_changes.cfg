\* Three requests of six kinds by three administrators.
SPECIFICATION Spec
CONSTANTS
  r1 = r1
  r2 = r2
  r3 = r3
  root = root
  owner = owner
  deputy = deputy
  core = core
  beta = beta
  atlas = atlas
  comet = comet
  lead = lead
  Comet = Comet
  comet_ = comet_
  bang = bang
  Lead = Lead
  lead_ = lead_
  super_admin = super_admin
  tenant_admin = tenant_admin
  product_admin = product_admin
  roleSuper = roleSuper
  roleTenant = roleTenant
  roleProduct = roleProduct
  roleLead = roleLead
  None = None
  Requests = {r1, r2, r3}
  Subjects = {root, owner, deputy}
  HomeOf <- Home
  Names = {Comet, comet_, bang, Lead, lead_, super_admin, tenant_admin, product_admin}
  Slugs = {core, beta, atlas, comet, lead}
  SlugOf <- Normalized
  RoleIdOf <- RoleId
  RoleIds = {roleSuper, roleTenant, roleProduct, roleLead}
  Workspaces0 = {core, beta}
  Products0 <- SeededProducts
  Roles0 <- SeededRoles
  Grants0 <- SeededGrants
  SuperAdmin = super_admin
  TenantAdmin = tenant_admin
  ProductAdmin = product_admin
  Sent <- Sends
SYMMETRY Symmetric
INVARIANTS TypeOK ReferencesResolve ActsWithinRights SlugsAreTaken AuditTellsTheTruth
CHECK_DEADLOCK FALSE
