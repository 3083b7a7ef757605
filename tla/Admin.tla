------------------------------- MODULE Admin -------------------------------
(***************************************************************************)
(* The creating requests of the admin API: POST /admin/workspaces,         *)
(* /products, /clients, /route-policies, /roles and /assignments           *)
(* (handleAdminMutation, AdminAccessControlService, FileAdminService).     *)
(*                                                                         *)
(* As in AuthorizationCode, a step is one store call.  Requests are those  *)
(* of an authenticated principal.  Nothing is ever deleted.                *)
(***************************************************************************)
EXTENDS Integers

CONSTANTS Requests,
          Subjects,
          HomeOf,        \* HomeOf[s]: the workspace of the session of s
          Names,         \* what may be sent as a slug or as a role's name
          Slugs,
          SlugOf,        \* normalizeSlug; None for an empty result
          RoleIdOf,      \* the id made of a workspace or None, and a slug
          RoleIds,
          Workspaces0, Products0, Roles0, Grants0, \* the state at the start
          SuperAdmin, TenantAdmin, ProductAdmin,   \* names of roles
          Sent,          \* the commands that are sent
          None

\* An id is made of the slug or, if that is empty, of a random text.
Ids         == Slugs \cup Requests
IdOf(n, r)  == IF SlugOf[n] = None THEN r ELSE SlugOf[n]
RoleIdFor(w, n, r) == IF SlugOf[n] = None THEN r ELSE RoleIdOf[<<w, SlugOf[n]>>]

ProductRecord    == [workspace : Ids, slug : Slugs \cup {None}]
RoleRecord       == [name : Names, workspace : Ids \cup {None}]
AssignmentRecord == [user : Subjects, role : Names, workspace : Ids \cup {None},
                     product : Ids \cup {None}]

ASSUME NamesAssumption ==
  /\ {SuperAdmin, TenantAdmin, ProductAdmin} \subseteq Names
  /\ SlugOf \in [Names -> Slugs \cup {None}]
  /\ RoleIdOf \in [(Ids \cup {None}) \X Slugs -> RoleIds]
  /\ Slugs \cap Requests = {} /\ RoleIds \cap Requests = {}
  /\ None \notin Ids \cup ProductRecord \cup RoleRecord \cup AssignmentRecord

\* A seeded workspace or product has the id its slug gives; the products are
\* in seeded workspaces.
ASSUME SeedAssumption ==
  /\ HomeOf \in [Subjects -> Workspaces0]
  /\ Workspaces0 \subseteq Slugs
  /\ Products0 \in [DOMAIN Products0 -> Workspaces0] /\ DOMAIN Products0 \subseteq Slugs
  /\ Roles0 \in [DOMAIN Roles0 -> RoleRecord] /\ DOMAIN Roles0 \subseteq RoleIds
  /\ Grants0 \subseteq AssignmentRecord

VARIABLES workspaces,    \* workspaces[i]: None, or the record with id i
          products,
          roles,
          clients,       \* clients[r]: None, or the client request r saved
          routePolicies,
          assignments,
          auditEvents,   \* <<request, outcome>>
          pc, asked, local,
          effect         \* history: what request r saved

stores == <<workspaces, products, roles, clients, routePolicies, assignments, auditEvents>>
vars   == <<stores, pc, asked, local, effect>>

Ended == {"created", "rejected", "refused"}

Init == /\ workspaces = [i \in Ids |-> IF i \in Workspaces0 THEN [slug |-> i] ELSE None]
        /\ products = [i \in Ids |-> IF i \in DOMAIN Products0
                                       THEN [workspace |-> Products0[i], slug |-> i] ELSE None]
        /\ roles = [i \in RoleIds \cup Requests |-> IF i \in DOMAIN Roles0
                                                      THEN Roles0[i] ELSE None]
        /\ clients = [r \in Requests |-> None]
        /\ routePolicies = [r \in Requests |-> None]
        /\ assignments = [r \in Requests |-> None]
        /\ auditEvents = {}
        /\ pc = [r \in Requests |-> "idle"]
        /\ asked = [r \in Requests |-> None]
        /\ local = [r \in Requests |-> None]
        /\ effect = [r \in Requests |-> None]

Goto(r, label) == pc' = [pc EXCEPT ![r] = label]

Keep(r, value) == local' = [local EXCEPT ![r] = value]

Existing(table) == {i \in DOMAIN table : table[i] # None}

-----------------------------------------------------------------------------
(* Arrival: the kind of the request and its parameters.  A workspace or      *)
(* product named in it exists or not.  savedBefore is history: the requests  *)
(* that had saved something.                                                 *)

Commands ==
       [kind : {"workspace"}, name : Names]
  \cup [kind : {"product"}, name : Names, workspace : Ids]
  \cup [kind : {"client", "routePolicy"}, product : Ids]
  \cup [kind : {"role"}, name : Names, workspace : Ids \cup {None}]
  \cup [kind : {"assignment"}, name : Names, workspace : Ids \cup {None},
        product : Ids \cup {None}, user : Subjects]

Arrive(r) ==
  /\ pc[r] = "idle"
  /\ \E s \in Subjects, command \in Sent :
       /\ command \in Commands
       /\ asked' = [asked EXCEPT ![r] =
            [actor |-> s, command |-> command,
             savedBefore |-> {q \in Requests : effect[q] # None}]]
       /\ Goto(r, IF command.kind \in {"client", "routePolicy"} THEN "findTarget" ELSE "hasRole")
  /\ UNCHANGED <<stores, local, effect>>

\* The handler of r returns; asked[r] stays when r saved anything.
Return(r, outcome) ==
  /\ Goto(r, outcome)
  /\ Keep(r, None)
  /\ asked' = IF effect[r] = None THEN [asked EXCEPT ![r] = None] ELSE asked

Refuse(r) == Return(r, "refused")

-----------------------------------------------------------------------------
(* authorizeAdminMutation: each look at the actor's grants reads the store.  *)

Assigned == Grants0 \cup {assignments[r] : r \in Existing(assignments)}

Grants(s) == {g \in Assigned : g.user = s}

IsSuper(s) == \E g \in Grants(s) : g.role = SuperAdmin

IsTenantAdmin(s, w) == \E g \in Grants(s) : g.role = TenantAdmin /\ g.workspace = w

\* canManageProductBoundResource, for a product in workspace w.
Manages(s, w, p) ==
  \/ IsTenantAdmin(s, w)
  \/ \E g \in Grants(s) : /\ g.role = ProductAdmin /\ g.workspace = w
                          /\ g.product \in {None, p}

\* The workspace the rights are checked for: of a role or an assignment
\* without one, that of the principal.
Scope(r) == LET command == asked[r].command IN
            IF command.workspace = None THEN HomeOf[asked[r].actor] ELSE command.workspace

\* The first store call of the operation.
Operation(kind) == CASE kind = "workspace" -> "findSlug"
                     [] kind = "product"   -> "listWorkspaces"
                     [] kind \in {"client", "routePolicy"} -> "findProduct"
                     [] kind \in {"role", "assignment"}    -> "listRoles"

Kind(r) == asked[r].command.kind

FindTarget(r) ==
  /\ pc[r] = "findTarget"
  /\ LET product == products[asked[r].command.product] IN
     IF product = None
       THEN Refuse(r)
       ELSE Keep(r, product) /\ Goto(r, "hasRole") /\ UNCHANGED asked
  /\ UNCHANGED <<stores, effect>>

HasRole(r) ==
  /\ pc[r] = "hasRole"
  /\ \/ IsSuper(asked[r].actor) /\ Goto(r, Operation(Kind(r)))
          /\ UNCHANGED <<asked, local>>
     \/ ~IsSuper(asked[r].actor) /\ Kind(r) = "workspace" /\ Refuse(r)
     \/ ~IsSuper(asked[r].actor) /\ Kind(r) # "workspace" /\ Goto(r, "loadGrants")
          /\ UNCHANGED <<asked, local>>
  /\ UNCHANGED <<stores, effect>>

\* Mutant of LoadGrants: rights are checked for the principal's workspace.
LoadGrantsAtHome(r) ==
  /\ pc[r] = "loadGrants"
  /\ IF IsTenantAdmin(asked[r].actor, HomeOf[asked[r].actor])
       THEN Goto(r, Operation(Kind(r))) /\ UNCHANGED <<asked, local>>
       ELSE Refuse(r)
  /\ UNCHANGED <<stores, effect>>

LoadGrants(r) ==
  /\ pc[r] = "loadGrants"
  /\ LET s == asked[r].actor
         allowed == IF Kind(r) \in {"client", "routePolicy"}
                      THEN Manages(s, local[r].workspace, asked[r].command.product)
                      ELSE IsTenantAdmin(s, Scope(r))
         bound   == Kind(r) = "assignment" /\ asked[r].command.product # None
     IN IF allowed
          THEN Goto(r, IF bound THEN "findScope" ELSE Operation(Kind(r)))
               /\ UNCHANGED <<asked, local>>
          ELSE Refuse(r)
  /\ UNCHANGED <<stores, effect>>

\* not_found, invalid_scope.
FindScope(r) ==
  /\ pc[r] = "findScope"
  /\ LET product == products[asked[r].command.product] IN
     IF product # None /\ product.workspace = Scope(r)
       THEN Goto(r, "listRoles") /\ UNCHANGED <<asked, local>>
       ELSE Refuse(r)
  /\ UNCHANGED <<stores, effect>>

-----------------------------------------------------------------------------
(* FileAdminService: one look, or two, and the save. *)

\* Mutant of ListWorkspaces: the workspace of a product is not looked for.
ListWorkspacesNever(r) == /\ pc[r] = "listWorkspaces"
                          /\ Goto(r, "findSlug")
                          /\ UNCHANGED <<stores, asked, local, effect>>

\* createProduct without its workspace fails and is not audited.
ListWorkspaces(r) ==
  /\ pc[r] = "listWorkspaces"
  /\ IF workspaces[asked[r].command.workspace] = None
       THEN Return(r, "rejected") ELSE Goto(r, "findSlug") /\ UNCHANGED <<asked, local>>
  /\ UNCHANGED <<stores, effect>>

\* Mutant of FindSlug: a slug that is taken is not looked for.
FindSlugNever(r) == /\ pc[r] = "findSlug"
                    /\ Goto(r, "save")
                    /\ UNCHANGED <<stores, asked, local, effect>>

FindSlug(r) ==
  /\ pc[r] = "findSlug"
  /\ LET table == IF Kind(r) = "workspace" THEN workspaces ELSE products
         taken == \E i \in Existing(table) : table[i].slug = SlugOf[asked[r].command.name]
     IN Goto(r, IF taken THEN "auditFailure" ELSE "save")
  /\ UNCHANGED <<stores, asked, local, effect>>

\* The operation reads the product again; as nothing is deleted, it is there.
FindProduct(r) ==
  /\ pc[r] = "findProduct"
  /\ LET product == products[asked[r].command.product] IN
     IF product = None THEN Goto(r, "auditFailure") /\ UNCHANGED local
                       ELSE Keep(r, product) /\ Goto(r, "save")
  /\ UNCHANGED <<stores, asked, effect>>

\* createRole refuses a name its workspace has; assignRole takes a role of the
\* workspace or one without a workspace.
ListRoles(r) ==
  /\ pc[r] = "listRoles"
  /\ LET command == asked[r].command
         named(w) == \E i \in Existing(roles) : roles[i] = [name |-> command.name, workspace |-> w]
         ok == IF Kind(r) = "role" THEN ~named(command.workspace)
                                   ELSE named(command.workspace) \/ named(None)
     IN Goto(r, IF ok THEN "save" ELSE "auditFailure")
  /\ UNCHANGED <<stores, asked, local, effect>>

\* Every save goes on to the audit event of its success.
Saved(r, record) == /\ effect' = [effect EXCEPT ![r] = record]
                    /\ Goto(r, "auditSuccess")
                    /\ UNCHANGED <<auditEvents, asked, local>>

SaveWorkspace(r) ==
  /\ pc[r] = "save" /\ Kind(r) = "workspace"
  /\ LET n == asked[r].command.name IN
     /\ workspaces' = [workspaces EXCEPT ![IdOf(n, r)] = [slug |-> SlugOf[n]]]
     /\ Saved(r, [id |-> IdOf(n, r)])
  /\ UNCHANGED <<products, roles, clients, routePolicies, assignments>>

\* Mutant of ProductOf: the slug is saved as it was sent.
ProductOfRaw(command) == [workspace |-> command.workspace, slug |-> command.name]

ProductOf(command) == [workspace |-> command.workspace, slug |-> SlugOf[command.name]]

SaveProduct(r) ==
  /\ pc[r] = "save" /\ Kind(r) = "product"
  /\ LET command == asked[r].command
         id == IdOf(command.name, r) IN
     /\ products' = [products EXCEPT ![id] = ProductOf(command)]
     /\ Saved(r, [id |-> id])
  /\ UNCHANGED <<workspaces, roles, clients, routePolicies, assignments>>

SaveClient(r) ==
  /\ pc[r] = "save" /\ Kind(r) = "client"
  /\ clients' = [clients EXCEPT ![r] = [product |-> asked[r].command.product,
                                        workspace |-> local[r].workspace]]
  /\ Saved(r, [id |-> r])
  /\ UNCHANGED <<workspaces, products, roles, routePolicies, assignments>>

SaveRoutePolicy(r) ==
  /\ pc[r] = "save" /\ Kind(r) = "routePolicy"
  /\ routePolicies' = [routePolicies EXCEPT ![r] = [product |-> asked[r].command.product]]
  /\ Saved(r, [id |-> r])
  /\ UNCHANGED <<workspaces, products, roles, clients, assignments>>

SaveRole(r) ==
  /\ pc[r] = "save" /\ Kind(r) = "role"
  /\ LET command == asked[r].command
         id == RoleIdFor(command.workspace, command.name, r) IN
     /\ roles' = [roles EXCEPT ![id] = [name |-> command.name, workspace |-> command.workspace]]
     /\ Saved(r, [id |-> id])
  /\ UNCHANGED <<workspaces, products, clients, routePolicies, assignments>>

SaveAssignment(r) ==
  /\ pc[r] = "save" /\ Kind(r) = "assignment"
  /\ LET command == asked[r].command IN
     assignments' = [assignments EXCEPT ![r] =
       [user |-> command.user, role |-> command.name,
        workspace |-> command.workspace, product |-> command.product]]
  /\ Saved(r, [id |-> r])
  /\ UNCHANGED <<workspaces, products, roles, clients, routePolicies>>

\* Mutant of AuditSuccess: the event of a product or client is forgotten.
AuditSuccessSometimes(r) ==
  /\ pc[r] = "auditSuccess"
  /\ auditEvents' = IF Kind(r) \in {"product", "client"} THEN auditEvents
                    ELSE auditEvents \cup {<<r, "success">>}
  /\ Return(r, "created")
  /\ UNCHANGED <<workspaces, products, roles, clients, routePolicies, assignments, effect>>

AuditSuccess(r) == /\ pc[r] = "auditSuccess"
                   /\ auditEvents' = auditEvents \cup {<<r, "success">>}
                   /\ Return(r, "created")
                   /\ UNCHANGED <<workspaces, products, roles, clients, routePolicies,
                                  assignments, effect>>

AuditFailure(r) == /\ pc[r] = "auditFailure"
                   /\ auditEvents' = auditEvents \cup {<<r, "failure">>}
                   /\ Return(r, "rejected")
                   /\ UNCHANGED <<workspaces, products, roles, clients, routePolicies,
                                  assignments, effect>>

\* A store call of r rejects, or its process ends: nothing more is done.
Abandon(r) == /\ pc[r] \notin {"idle"} \cup Ended
              /\ Refuse(r)
              /\ UNCHANGED <<stores, effect>>

Next == \E r \in Requests :
  \/ Arrive(r) \/ FindTarget(r) \/ HasRole(r) \/ LoadGrants(r) \/ FindScope(r)
  \/ ListWorkspaces(r) \/ FindSlug(r) \/ FindProduct(r) \/ ListRoles(r)
  \/ SaveWorkspace(r) \/ SaveProduct(r) \/ SaveClient(r) \/ SaveRoutePolicy(r)
  \/ SaveRole(r) \/ SaveAssignment(r)
  \/ AuditSuccess(r) \/ AuditFailure(r) \/ Abandon(r)

Spec == Init /\ [][Next]_vars

-----------------------------------------------------------------------------
WorkspaceRecord == [slug : Slugs \cup {None}]
ClientRecord    == [product : Ids, workspace : Ids]
PolicyRecord    == [product : Ids]
Params          == [actor : Subjects, command : Commands, savedBefore : SUBSET Requests]
Effect          == [id : Ids \cup RoleIds]

ASSUME NoneAssumption ==
  None \notin WorkspaceRecord \cup ClientRecord \cup PolicyRecord \cup Params \cup Effect

\* Every collection holds records of its shape; a slug is a normalized one.
TypeOK ==
  /\ workspaces \in [Ids -> WorkspaceRecord \cup {None}]
  /\ products \in [Ids -> ProductRecord \cup {None}]
  /\ roles \in [RoleIds \cup Requests -> RoleRecord \cup {None}]
  /\ clients \in [Requests -> ClientRecord \cup {None}]
  /\ routePolicies \in [Requests -> PolicyRecord \cup {None}]
  /\ assignments \in [Requests -> AssignmentRecord \cup {None}]
  /\ auditEvents \subseteq Requests \X {"success", "failure"}

\* No overlap of creations leaves a reference to nothing: the workspace of a
\* product and of a client exist, and so does the product of a client and of a
\* route policy (createProduct, createClient, createRoutePolicy).
ReferencesResolve ==
  /\ \A i \in Existing(products) : workspaces[products[i].workspace] # None
  /\ \A r \in Existing(clients) : /\ products[clients[r].product] # None
                                  /\ workspaces[clients[r].workspace] # None
  /\ \A r \in Existing(routePolicies) : products[routePolicies[r].product] # None

\* The requests that saved the workspace or product with this id.
SavedAs(kind, i) == {r \in Requests : effect[r] # None /\ Kind(r) = kind /\ effect[r].id = i}

\* Whoever saved something has the right to, now and ever after, though the
\* rights were read calls before and the target is read again.  A client may
\* land outside only when its product was replaced by another creation.
ActsWithinRights ==
  \A r \in Requests : effect[r] # None =>
    LET s == asked[r].actor
        command == asked[r].command IN
    \/ IsSuper(s)
    \/ /\ Kind(r) \in {"product", "role", "assignment"} /\ IsTenantAdmin(s, Scope(r))
    \/ /\ Kind(r) = "client"
       /\ \/ Manages(s, clients[r].workspace, command.product)
          \/ \E q, t \in SavedAs("product", command.product) : q # t
    \/ /\ Kind(r) = "routePolicy"
       /\ \/ Manages(s, products[command.product].workspace, command.product)
          \/ \E q, t \in SavedAs("product", command.product) : q # t

\* The slug of a workspace or product is taken once it is saved: it is saved
\* again only by a request that had arrived by then, and the seeded ones never
\* (findBySlug, and ids made of slugs).
SlugsAreTaken ==
  \A r \in Requests : effect[r] # None /\ Kind(r) \in {"workspace", "product"} =>
    /\ effect[r].id \notin IF Kind(r) = "workspace" THEN Workspaces0 ELSE DOMAIN Products0
    /\ \A q \in asked[r].savedBefore :
         Kind(q) = Kind(r) => SlugOf[asked[q].command.name] # SlugOf[asked[r].command.name]

\* The audit log tells what happened: a success names what was saved, a
\* failure a request that saved nothing; and a request that was answered as
\* done is in the log (appendAudit after save).
AuditTellsTheTruth ==
  /\ \A r \in Requests : /\ <<r, "success">> \in auditEvents => effect[r] # None
                         /\ <<r, "failure">> \in auditEvents => effect[r] = None
                         /\ pc[r] = "created" => <<r, "success">> \in auditEvents

\* tests/admin-oidc-integration.test.mjs:165: "tenant admin cannot mutate
\* another workspace product": a save of anybody but a super admin moves no
\* product to another workspace (createProduct).
ProductStaysInWorkspace ==
  [][\A r \in Requests : pc[r] = "save" /\ pc'[r] = "auditSuccess" /\ ~IsSuper(asked[r].actor) =>
       \A i \in Existing(products) : products'[i].workspace = products[i].workspace]_vars
=============================================================================
