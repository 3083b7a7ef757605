---------------------------- MODULE AdminProofs ----------------------------
(***************************************************************************)
(* Theorems about Admin for any people, grants, names, seeds and requests. *)
(***************************************************************************)
EXTENDS Admin, TLAPS

Slugged == {"workspace", "product"}
Bound   == {"client", "routePolicy"}
Kinds   == Slugged \cup Bound \cup {"role", "assignment"}

\* The awaits of a request: before its rights are known, after, and after the
\* operation looked.
Deciding == {"hasRole", "loadGrants"}
Allowed  == {"findScope", "listWorkspaces", "findSlug", "findProduct", "listRoles", "save"}
Working  == {"findTarget"} \cup Deciding \cup Allowed \cup {"auditSuccess", "auditFailure"}
Labels   == {"idle"} \cup Working \cup Ended

Typed == /\ TypeOK
         /\ pc \in [Requests -> Labels]
         /\ asked \in [Requests -> Params \cup {None}]
         /\ local \in [Requests -> ProductRecord \cup {None}]
         /\ effect \in [Requests -> Effect \cup {None}]

NameOf(r)    == asked[r].command.name
ProductId(r) == asked[r].command.product

\* Which request is at which await.
Placed(r) ==
  /\ pc[r] \in Working \cup {"created"} => asked[r] # None
  /\ pc[r] \in {"auditSuccess", "created"} => effect[r] # None
  /\ effect[r] # None => asked[r] # None /\ pc[r] \in {"auditSuccess"} \cup Ended
  /\ pc[r] \in {"findTarget", "findProduct"} => Kind(r) \in Bound
  /\ pc[r] = "loadGrants" => Kind(r) # "workspace"
  /\ pc[r] = "listWorkspaces" => Kind(r) = "product"
  /\ pc[r] = "findSlug" => Kind(r) \in Slugged
  /\ pc[r] \in {"findScope", "listRoles"} => Kind(r) \in {"role", "assignment"}
  /\ assignments[r] # None => effect[r] # None
  /\ clients[r] # None => effect[r] # None /\ Kind(r) = "client"
  /\ routePolicies[r] # None => effect[r] # None /\ Kind(r) = "routePolicy"

Logged(r) ==
  /\ <<r, "success">> \in auditEvents => effect[r] # None
  /\ <<r, "failure">> \in auditEvents => effect[r] = None /\ pc[r] \in Ended
  /\ pc[r] = "created" => <<r, "success">> \in auditEvents

-----------------------------------------------------------------------------
(* Ids and slugs. *)

\* The slug in the record with id i.
SlugIn(i) == IF i \in Slugs THEN i ELSE None

Table(kind)  == IF kind = "workspace" THEN workspaces ELSE products
Seeded(kind) == IF kind = "workspace" THEN Workspaces0 ELSE DOMAIN Products0

TablesHold ==
  /\ \A kind \in Slugged : \A i \in Ids :
       Table(kind)[i] # None => Table(kind)[i].slug = SlugIn(i)
  /\ \A kind \in Slugged : \A i \in Seeded(kind) : Table(kind)[i] # None
  /\ \A i \in Ids : products[i] # None =>
       i \in DOMAIN Products0 \/ SavedAs("product", i) # {}

\* What r saved under an id, and that no one had its slug when r came.
Taken(r) ==
  /\ asked[r] # None => \A q \in asked[r].savedBefore : effect[q] # None
  /\ effect[r] # None /\ Kind(r) \in Slugged =>
       effect[r].id = IdOf(NameOf(r), r) /\ Table(Kind(r))[effect[r].id] # None
  /\ (pc[r] = "save" \/ effect[r] # None) /\ Kind(r) \in Slugged =>
       /\ IdOf(NameOf(r), r) \notin Seeded(Kind(r))
       /\ \A q \in asked[r].savedBefore :
            Kind(q) = Kind(r) => SlugOf[NameOf(q)] # SlugOf[NameOf(r)]

-----------------------------------------------------------------------------
(* References and rights. *)

\* Two requests saved the product with id i: the second may have moved it.
Twice(i) == \E q, t \in SavedAs("product", i) : q # t

InWorkspaceOf(workspace, i) == workspace = products[i].workspace \/ Twice(i)

Referenced(r) ==
  /\ pc[r] \in {"findSlug", "save"} /\ Kind(r) = "product" =>
       workspaces[asked[r].command.workspace] # None
  /\ pc[r] \in Deciding \cup Allowed /\ Kind(r) \in Bound =>
       /\ local[r] # None /\ workspaces[local[r].workspace] # None
       /\ InWorkspaceOf(local[r].workspace, ProductId(r))
  /\ (pc[r] \in Deciding \cup Allowed \/ effect[r] # None) /\ Kind(r) \in Bound =>
       products[ProductId(r)] # None
  /\ effect[r] # None /\ Kind(r) = "client" =>
       clients[r] # None /\ InWorkspaceOf(clients[r].workspace, ProductId(r))

Right(r) ==
  \/ IsSuper(asked[r].actor)
  \/ Kind(r) \in {"product", "role", "assignment"} /\ IsTenantAdmin(asked[r].actor, Scope(r))
  \/ /\ Kind(r) \in Bound
     /\ \/ Twice(ProductId(r))
        \/ Manages(asked[r].actor, products[ProductId(r)].workspace, ProductId(r))

Entitled(r) == pc[r] \in Allowed \/ effect[r] # None => Right(r)

HeldByRequest(r) ==
  Placed(r) /\ Logged(r) /\ Taken(r) /\ Referenced(r) /\ Entitled(r)

Held == /\ \A r \in Requests : HeldByRequest(r)
        /\ TablesHold
        /\ ReferencesResolve

LEMMA CommandType ==
  ASSUME NEW command \in Commands
  PROVE  /\ command.kind \in Kinds
         /\ command.kind \notin Bound => command.name \in Names
         /\ command.kind = "product" => command.workspace \in Ids
         /\ command.kind \in Bound => command.product \in Ids
         /\ command.kind \in {"role", "assignment"} => command.workspace \in Ids \cup {None}
         /\ command.kind = "assignment" => /\ command.product \in Ids \cup {None}
                                           /\ command.user \in Subjects
BY DEF Commands, Kinds, Slugged, Bound

\* What a request that is under way came with.
LEMMA AskedType ==
  ASSUME Typed, NEW r \in Requests, asked[r] # None
  PROVE  /\ asked[r] \in Params /\ asked[r].command \in Commands
         /\ asked[r].actor \in Subjects /\ asked[r].savedBefore \subseteq Requests
         /\ Kind(r) \in Kinds
         /\ Kind(r) \notin Bound => NameOf(r) \in Names
         /\ Kind(r) \in Bound => ProductId(r) \in Ids
BY CommandType DEF Typed, Params, Kind, NameOf, ProductId

LEMMA NamesAndIds ==
  ASSUME NEW n \in Names, NEW r \in Requests
  PROVE  /\ IdOf(n, r) \in Ids /\ SlugOf[n] \in Slugs \cup {None}
         /\ SlugIn(IdOf(n, r)) = SlugOf[n]
BY NamesAssumption DEF IdOf, Ids, SlugIn

LEMMA TypedInit == Init => Typed
<1> SUFFICES ASSUME Init PROVE Typed
  OBVIOUS
<1>1. workspaces \in [Ids -> WorkspaceRecord \cup {None}]
  BY SeedAssumption DEF Init, WorkspaceRecord, Ids
<1>2. products \in [Ids -> ProductRecord \cup {None}]
  BY SeedAssumption DEF Init, ProductRecord, Ids
<1>3. roles \in [RoleIds \cup Requests -> RoleRecord \cup {None}]
  BY SeedAssumption DEF Init
<1>4. QED
  BY <1>1, <1>2, <1>3 DEF Init, Typed, TypeOK, Labels

LEMMA HeldInit == Init => Held
<1> SUFFICES ASSUME Init PROVE Held
  OBVIOUS
<1>1. \A r \in Requests : HeldByRequest(r)
  BY DEF Init, HeldByRequest, Placed, Logged, Taken, Referenced, Entitled, Working,
         Deciding, Allowed, Ended
<1>2. ASSUME NEW i \in Ids
      PROVE  /\ i \in Workspaces0 => workspaces[i] = [slug |-> i] /\ workspaces[i].slug = i
             /\ i \notin Workspaces0 => workspaces[i] = None
             /\ i \in DOMAIN Products0 =>
                  products[i] = [workspace |-> Products0[i], slug |-> i] /\ products[i].slug = i
             /\ i \notin DOMAIN Products0 => products[i] = None
  BY DEF Init
<1>3. /\ Workspaces0 \subseteq Slugs /\ DOMAIN Products0 \subseteq Slugs /\ Slugs \subseteq Ids
      /\ \A i \in DOMAIN Products0 : Products0[i] \in Workspaces0
  BY SeedAssumption DEF Ids
<1>4. /\ \A i \in Workspaces0 : workspaces[i] # None
      /\ \A i \in DOMAIN Products0 : products[i] # None
  <2>1. ASSUME NEW i \in Workspaces0 PROVE workspaces[i] # None
    <3>1. [slug |-> i] # None
      BY <1>3, NoneAssumption DEF WorkspaceRecord
    <3>2. workspaces[i] = [slug |-> i]
      BY <1>2, <1>3
    <3>3. QED
      BY <3>1, <3>2
  <2>2. ASSUME NEW i \in DOMAIN Products0 PROVE products[i] # None
    <3>1. [workspace |-> Products0[i], slug |-> i] # None
      BY <1>3, NamesAssumption DEF ProductRecord
    <3>2. products[i] = [workspace |-> Products0[i], slug |-> i]
      BY <1>2, <1>3
    <3>3. QED
      BY <3>1, <3>2
  <2>3. QED
    BY <2>1, <2>2
<1>5. TablesHold
  <2>1. ASSUME NEW kind \in Slugged, NEW i \in Ids, Table(kind)[i] # None
        PROVE  Table(kind)[i].slug = SlugIn(i)
    <3>1. /\ workspaces[i] # None => workspaces[i].slug = i /\ i \in Slugs
          /\ products[i] # None => products[i].slug = i /\ i \in Slugs
      BY <1>2, <1>3
    <3>2. QED
      BY <2>1, <3>1 DEF Table, SlugIn
  <2>2. ASSUME NEW kind \in Slugged, NEW i \in Seeded(kind)
        PROVE  Table(kind)[i] # None
    BY <1>4 DEF Table, Seeded, Slugged
  <2>3. QED
    BY <1>2, <2>1, <2>2 DEF TablesHold
<1>6. ReferencesResolve
  BY <1>2, <1>3, <1>4 DEF Init, ReferencesResolve, Existing
<1>7. QED
  BY <1>1, <1>5, <1>6 DEF Held

-----------------------------------------------------------------------------
(* Types. *)

StepOf(r) == \/ Arrive(r) \/ FindTarget(r) \/ HasRole(r) \/ LoadGrants(r) \/ FindScope(r)
             \/ ListWorkspaces(r) \/ FindSlug(r) \/ FindProduct(r) \/ ListRoles(r)
             \/ SaveWorkspace(r) \/ SaveProduct(r) \/ SaveClient(r) \/ SaveRoutePolicy(r)
             \/ SaveRole(r) \/ SaveAssignment(r)
             \/ AuditSuccess(r) \/ AuditFailure(r) \/ Abandon(r)

LEMMA TypedStep == Typed /\ Held /\ [Next]_vars => Typed'
<1> SUFFICES ASSUME Typed, Held, [Next]_vars PROVE Typed'
  OBVIOUS
<1>1. CASE UNCHANGED vars
  BY <1>1 DEF vars, stores, Typed, TypeOK
<1> SUFFICES ASSUME NEW r \in Requests, StepOf(r) PROVE Typed'
  BY <1>1 DEF Next, StepOf
<1> USE DEF Typed, stores, Goto, Keep, Return, Refuse
<1>2. CASE Arrive(r)
  <2>1. PICK s \in Subjects, command \in Commands :
          /\ asked' = [asked EXCEPT ![r] =
               [actor |-> s, command |-> command,
                savedBefore |-> {q \in Requests : effect[q] # None}]]
          /\ pc' = [pc EXCEPT ![r] = IF command.kind \in {"client", "routePolicy"}
                                       THEN "findTarget" ELSE "hasRole"]
    BY <1>2 DEF Arrive
  <2>2. [actor |-> s, command |-> command,
         savedBefore |-> {q \in Requests : effect[q] # None}] \in Params
    BY DEF Params
  <2>3. QED
    BY <1>2, <2>1, <2>2 DEF Arrive, TypeOK, Labels, Working, Deciding
<1>3. CASE FindTarget(r) \/ FindProduct(r)
  <2>1. ProductId(r) \in Ids
    BY <1>3, AskedType DEF FindTarget, FindProduct, Held, HeldByRequest, Placed, Working, Allowed
  <2>2. products[ProductId(r)] \in ProductRecord \cup {None}
    BY <2>1 DEF TypeOK
  <2>3. QED
    BY <1>3, <2>2
       DEF FindTarget, FindProduct, TypeOK, Labels, Working, Deciding, Allowed, Ended, ProductId
<1>4. CASE HasRole(r) \/ LoadGrants(r)
  <2>1. Kind(r) \in Kinds
    BY <1>4, AskedType DEF HasRole, LoadGrants, Held, HeldByRequest, Placed, Working, Deciding
  <2>2. Operation(Kind(r)) \in Labels
    BY <2>1 DEF Operation, Kinds, Slugged, Bound, Labels, Working, Allowed
  <2>3. "loadGrants" \in Labels /\ "findScope" \in Labels /\ "refused" \in Labels
    BY DEF Labels, Working, Deciding, Allowed, Ended
  <2>4. QED
    BY <1>4, <2>2, <2>3 DEF HasRole, LoadGrants, TypeOK
<1>5. CASE FindScope(r) \/ ListWorkspaces(r) \/ FindSlug(r) \/ ListRoles(r)
  BY <1>5
     DEF FindScope, ListWorkspaces, FindSlug, ListRoles, TypeOK, Labels, Working, Allowed, Ended
<1>6. CASE SaveWorkspace(r) \/ SaveProduct(r)
  <2> DEFINE id == IdOf(NameOf(r), r)
  <2>1. /\ NameOf(r) \in Names /\ asked[r].command \in Commands
        /\ Kind(r) = "product" => asked[r].command.workspace \in Ids
    BY <1>6, AskedType, CommandType
       DEF SaveWorkspace, SaveProduct, Held, HeldByRequest, Placed, Working, Allowed, Bound, Kind
  <2>2. id \in Ids /\ SlugOf[NameOf(r)] \in Slugs \cup {None}
    BY <2>1, NamesAndIds
  <2>3. /\ [slug |-> SlugOf[NameOf(r)]] \in WorkspaceRecord
        /\ Kind(r) = "product" => ProductOf(asked[r].command) \in ProductRecord
        /\ [id |-> id] \in Effect
    BY <2>1, <2>2 DEF WorkspaceRecord, ProductRecord, ProductOf, Effect, NameOf
  <2>4. /\ workspaces' \in [Ids -> WorkspaceRecord \cup {None}]
        /\ products' \in [Ids -> ProductRecord \cup {None}]
        /\ effect' \in [Requests -> Effect \cup {None}]
    <3>1. CASE SaveWorkspace(r)
      BY <2>3, <3>1 DEF SaveWorkspace, Saved, TypeOK, NameOf
    <3>2. CASE SaveProduct(r)
      BY <2>3, <3>2 DEF SaveProduct, Saved, TypeOK, NameOf
    <3>3. QED
      BY <1>6, <3>1, <3>2
  <2>5. QED
    BY <1>6, <2>4 DEF SaveWorkspace, SaveProduct, Saved, TypeOK, Labels, Working
<1>7. CASE SaveClient(r) \/ SaveRoutePolicy(r)
  <2>1. Kind(r) \in Bound /\ ProductId(r) \in Ids
    BY <1>7, AskedType
       DEF SaveClient, SaveRoutePolicy, Held, HeldByRequest, Placed, Working, Allowed, Bound
  <2>2. local[r] \in ProductRecord
    BY <1>7, <2>1
       DEF SaveClient, SaveRoutePolicy, Held, HeldByRequest, Referenced, Allowed
  <2>3. /\ [product |-> ProductId(r), workspace |-> local[r].workspace] \in ClientRecord
        /\ [product |-> ProductId(r)] \in PolicyRecord
        /\ [id |-> r] \in Effect
    BY <2>1, <2>2 DEF ClientRecord, PolicyRecord, ProductRecord, Effect, Ids
  <2>4. QED
    BY <1>7, <2>3
       DEF SaveClient, SaveRoutePolicy, Saved, TypeOK, Labels, Working, ProductId
<1>8. CASE SaveRole(r) \/ SaveAssignment(r)
  <2> DEFINE command == asked[r].command
  <2>1. /\ command \in Commands /\ command.name \in Names
        /\ command.workspace \in Ids \cup {None}
        /\ command.kind = "assignment" => /\ command.product \in Ids \cup {None}
                                          /\ command.user \in Subjects
    BY <1>8, AskedType, CommandType
       DEF SaveRole, SaveAssignment, Held, HeldByRequest, Placed, Working, Allowed, Bound, Kind
  <2>2. RoleIdFor(command.workspace, command.name, r) \in RoleIds \cup Requests
    BY <2>1, NamesAssumption DEF RoleIdFor
  <2>3. /\ [name |-> command.name, workspace |-> command.workspace] \in RoleRecord
        /\ command.kind = "assignment" =>
             [user |-> command.user, role |-> command.name,
              workspace |-> command.workspace, product |-> command.product] \in AssignmentRecord
        /\ [id |-> RoleIdFor(command.workspace, command.name, r)] \in Effect
        /\ [id |-> r] \in Effect
    BY <2>1, <2>2 DEF RoleRecord, AssignmentRecord, Effect, Ids
  <2>4. /\ roles' \in [RoleIds \cup Requests -> RoleRecord \cup {None}]
        /\ assignments' \in [Requests -> AssignmentRecord \cup {None}]
        /\ effect' \in [Requests -> Effect \cup {None}]
    BY <1>8, <2>3 DEF SaveRole, SaveAssignment, Saved, TypeOK, Kind
  <2>5. QED
    BY <1>8, <2>4 DEF SaveRole, SaveAssignment, Saved, TypeOK, Labels, Working
<1>9. CASE AuditSuccess(r) \/ AuditFailure(r) \/ Abandon(r)
  BY <1>9 DEF AuditSuccess, AuditFailure, Abandon, TypeOK, Labels, Ended
<1>10. QED
  BY <1>2, <1>3, <1>4, <1>5, <1>6, <1>7, <1>8, <1>9 DEF StepOf

-----------------------------------------------------------------------------
(* Frames: what a step of one request leaves to the others, and what no    *)
(* step takes back.                                                        *)

Same(q) == /\ pc'[q] = pc[q] /\ asked'[q] = asked[q] /\ local'[q] = local[q]
           /\ effect'[q] = effect[q] /\ clients'[q] = clients[q]
           /\ routePolicies'[q] = routePolicies[q] /\ assignments'[q] = assignments[q]
           /\ \A outcome : <<q, outcome>> \in auditEvents' <=> <<q, outcome>> \in auditEvents

LEMMA OthersKept ==
  ASSUME Typed, [Next]_vars, NEW q \in Requests, ~ StepOf(q)
  PROVE  Same(q)
<1> USE DEF Typed, TypeOK, Same, stores, Goto, Keep, Return, Refuse, Saved
<1>1. CASE UNCHANGED vars
  BY <1>1 DEF vars
<1>2. ASSUME NEW r \in Requests, r # q,
             Arrive(r) \/ FindTarget(r) \/ HasRole(r) \/ LoadGrants(r) \/ FindScope(r)
      PROVE  Same(q)
  BY <1>2 DEF Arrive, FindTarget, HasRole, LoadGrants, FindScope
<1>3. ASSUME NEW r \in Requests, r # q,
             ListWorkspaces(r) \/ FindSlug(r) \/ FindProduct(r) \/ ListRoles(r) \/ Abandon(r)
      PROVE  Same(q)
  BY <1>3 DEF ListWorkspaces, FindSlug, FindProduct, ListRoles, Abandon
<1>4. ASSUME NEW r \in Requests, r # q,
             SaveWorkspace(r) \/ SaveProduct(r) \/ SaveClient(r) \/ SaveRoutePolicy(r)
      PROVE  Same(q)
  BY <1>4 DEF SaveWorkspace, SaveProduct, SaveClient, SaveRoutePolicy
<1>5. ASSUME NEW r \in Requests, r # q,
             SaveRole(r) \/ SaveAssignment(r) \/ AuditSuccess(r) \/ AuditFailure(r)
      PROVE  Same(q)
  BY <1>5 DEF SaveRole, SaveAssignment, AuditSuccess, AuditFailure
<1>6. QED
  BY <1>1, <1>2, <1>3, <1>4, <1>5 DEF Next, StepOf

\* A request that has saved does not save again, and stays known.
LEMMA EffectsStay ==
  ASSUME Typed, Held, [Next]_vars, NEW q \in Requests, effect[q] # None
  PROVE  effect'[q] = effect[q] /\ asked'[q] = asked[q]
<1>1. pc[q] \in {"auditSuccess"} \cup Ended
  BY DEF Held, HeldByRequest, Placed
<1>2. CASE StepOf(q)
  <2>1. AuditSuccess(q) \/ Abandon(q)
    BY <1>1, <1>2
       DEF StepOf, Ended, Arrive, FindTarget, HasRole, LoadGrants, FindScope, ListWorkspaces,
           FindSlug, FindProduct, ListRoles, SaveWorkspace, SaveProduct, SaveClient,
           SaveRoutePolicy, SaveRole, SaveAssignment, AuditFailure
  <2>2. QED
    BY <2>1 DEF AuditSuccess, Abandon, Refuse, Return
<1>3. QED
  BY <1>2, OthersKept DEF Same

LEMMA SavesStay ==
  ASSUME Typed, Held, [Next]_vars, NEW kind, NEW i, NEW q \in SavedAs(kind, i)
  PROVE  q \in SavedAs(kind, i)'
BY EffectsStay DEF SavedAs, Kind

LEMMA TwiceStays ==
  ASSUME Typed, Held, [Next]_vars, NEW i, Twice(i)
  PROVE  Twice(i)'
BY SavesStay DEF Twice

\* What has its place in the store before a save: the slug of the new record
\* is not among the seeds.
LEMMA SavedIds ==
  ASSUME Typed, Held, NEW r \in Requests, pc[r] = "save", Kind(r) \in Slugged
  PROVE  /\ IdOf(NameOf(r), r) \in Ids /\ IdOf(NameOf(r), r) \notin Seeded(Kind(r))
         /\ SlugIn(IdOf(NameOf(r), r)) = SlugOf[NameOf(r)]
         /\ SlugOf[NameOf(r)] \in Slugs \cup {None}
         /\ effect[r] = None /\ asked[r] # None
<1>1. asked[r] # None /\ effect[r] = None
  BY DEF Held, HeldByRequest, Placed, Working, Allowed, Ended
<1>2. NameOf(r) \in Names
  BY <1>1, AskedType DEF Slugged, Bound
<1>3. QED
  BY <1>1, <1>2, NamesAndIds DEF Held, HeldByRequest, Taken

\* The record a save puts under its id.
LEMMA WorkspaceSaved ==
  ASSUME Typed, Held, NEW r \in Requests, SaveWorkspace(r)
  PROVE  \E i \in Ids \ Workspaces0 :
           /\ i = IdOf(NameOf(r), r) /\ products' = products
           /\ workspaces' = [workspaces EXCEPT ![i] = workspaces'[i]]
           /\ workspaces'[i] # None /\ workspaces'[i].slug = SlugIn(i)
           /\ effect[r] = None /\ effect' = [effect EXCEPT ![r] = [id |-> i]]
           /\ asked' = asked
<1> DEFINE record == [slug |-> SlugOf[NameOf(r)]]
<1>1. PICK i \in Ids \ Workspaces0 :
        /\ i = IdOf(NameOf(r), r) /\ SlugIn(i) = SlugOf[NameOf(r)]
        /\ SlugOf[NameOf(r)] \in Slugs \cup {None} /\ effect[r] = None
  BY SavedIds DEF SaveWorkspace, Slugged, Seeded
<1>2. record # None /\ record.slug = SlugIn(i)
  BY <1>1, NoneAssumption DEF WorkspaceRecord
<1>3. /\ workspaces' = [workspaces EXCEPT ![i] = record] /\ products' = products
      /\ effect' = [effect EXCEPT ![r] = [id |-> i]] /\ asked' = asked
  BY <1>1 DEF SaveWorkspace, Saved, NameOf
<1>4. workspaces'[i] = record
  BY <1>3 DEF Typed, TypeOK
<1>5. QED
  BY <1>1, <1>2, <1>3, <1>4

LEMMA ProductSaved ==
  ASSUME Typed, Held, NEW r \in Requests, SaveProduct(r)
  PROVE  \E i \in Ids \ DOMAIN Products0 :
           /\ i = IdOf(NameOf(r), r) /\ workspaces' = workspaces
           /\ products' = [products EXCEPT ![i] = products'[i]]
           /\ products'[i] # None /\ products'[i].slug = SlugIn(i)
           /\ products'[i].workspace = asked[r].command.workspace
           /\ effect[r] = None /\ effect' = [effect EXCEPT ![r] = [id |-> i]]
           /\ asked' = asked /\ r \in SavedAs("product", i)'
<1> DEFINE record == ProductOf(asked[r].command)
<1>1. PICK i \in Ids \ DOMAIN Products0 :
        /\ i = IdOf(NameOf(r), r) /\ SlugIn(i) = SlugOf[NameOf(r)]
        /\ SlugOf[NameOf(r)] \in Slugs \cup {None}
        /\ effect[r] = None /\ asked[r] # None /\ Kind(r) = "product"
  BY SavedIds DEF SaveProduct, Slugged, Seeded
<1>2. asked[r].command.workspace \in Ids
  BY <1>1, AskedType, CommandType DEF Kind
<1>3. record \in ProductRecord /\ record.slug = SlugIn(i)
      /\ record.workspace = asked[r].command.workspace
  BY <1>1, <1>2 DEF ProductRecord, ProductOf, NameOf
<1>4. /\ products' = [products EXCEPT ![i] = record] /\ workspaces' = workspaces
      /\ effect' = [effect EXCEPT ![r] = [id |-> i]] /\ asked' = asked
  BY <1>1 DEF SaveProduct, Saved, NameOf
<1>5. products'[i] = record /\ record # None
  BY <1>3, <1>4, NamesAssumption DEF Typed, TypeOK
<1>6. [id |-> i] # None
  BY NoneAssumption DEF Effect
<1>7. r \in SavedAs("product", i)'
  BY <1>1, <1>4, <1>6 DEF SavedAs, Kind, Typed
<1> HIDE DEF record
<1>8. QED
  BY <1>1, <1>3, <1>4, <1>5, <1>7

LEMMA TablesChange ==
  ASSUME [Next]_vars
  PROVE  \/ workspaces' = workspaces /\ products' = products
         \/ \E r \in Requests : SaveWorkspace(r) \/ SaveProduct(r)
BY DEF Next, vars, stores, Arrive, FindTarget, HasRole, LoadGrants, FindScope, ListWorkspaces,
       FindSlug, FindProduct, ListRoles, SaveClient, SaveRoutePolicy, SaveRole,
       SaveAssignment, AuditSuccess, AuditFailure, Abandon

\* Workspaces and products stay; a product that is saved again was not seeded,
\* so two requests have saved it.
LEMMA WorkspacesStay ==
  ASSUME Typed, Held, [Next]_vars, NEW i \in Ids, workspaces[i] # None
  PROVE  workspaces'[i] # None
<1>1. ASSUME NEW r \in Requests, SaveWorkspace(r) PROVE workspaces'[i] # None
  BY <1>1, WorkspaceSaved DEF Typed, TypeOK
<1>2. ASSUME NEW r \in Requests, SaveProduct(r) PROVE workspaces'[i] # None
  BY <1>2 DEF SaveProduct
<1>3. QED
  BY <1>1, <1>2, TablesChange

LEMMA ProductsStay ==
  ASSUME Typed, Held, [Next]_vars, NEW i \in Ids, products[i] # None
  PROVE  /\ products'[i] # None
         /\ products'[i].workspace = products[i].workspace \/ Twice(i)'
<1>1. ASSUME NEW r \in Requests, SaveProduct(r), r \in SavedAs("product", i)'
      PROVE  products'[i] # None /\ Twice(i)'
  <2>1. PICK j \in Ids \ DOMAIN Products0 :
          /\ j = IdOf(NameOf(r), r)
          /\ products' = [products EXCEPT ![j] = products'[j]] /\ products'[j] # None
          /\ effect[r] = None /\ effect' = [effect EXCEPT ![r] = [id |-> j]]
    BY <1>1, ProductSaved
  <2>2. j = i
    BY <1>1, <2>1 DEF SavedAs, Typed
  <2>3. SavedAs("product", i) # {}
    BY <2>2 DEF Held, TablesHold
  <2>4. PICK q \in SavedAs("product", i) : q # r
    BY <2>1, <2>3 DEF SavedAs
  <2>5. QED
    BY <1>1, <2>1, <2>2, <2>4, SavesStay DEF Twice
<1>2. ASSUME NEW r \in Requests, SaveProduct(r), r \notin SavedAs("product", i)'
      PROVE  products'[i] = products[i]
  <2>1. PICK j \in Ids : /\ products' = [products EXCEPT ![j] = products'[j]]
                         /\ r \in SavedAs("product", j)'
    BY <1>2, ProductSaved
  <2>2. QED
    BY <1>2, <2>1 DEF Typed, TypeOK
<1>3. ASSUME NEW r \in Requests, SaveWorkspace(r) PROVE products'[i] = products[i]
  BY <1>3 DEF SaveWorkspace
<1>4. QED
  BY <1>1, <1>2, <1>3, TablesChange

LEMMA InWorkspaceStays ==
  ASSUME Typed, Held, [Next]_vars, NEW i \in Ids, products[i] # None,
         NEW w, InWorkspaceOf(w, i)
  PROVE  InWorkspaceOf(w, i)'
BY ProductsStay, TwiceStays DEF InWorkspaceOf

LEMMA TablesHoldStep ==
  ASSUME Typed, Held, [Next]_vars
  PROVE  TablesHold'
<1>1. /\ \A i \in Ids : workspaces[i] # None => workspaces[i].slug = SlugIn(i)
      /\ \A i \in Ids : products[i] # None => products[i].slug = SlugIn(i)
      /\ \A i \in Workspaces0 : workspaces[i] # None
      /\ \A i \in DOMAIN Products0 : products[i] # None
  BY DEF Held, TablesHold, Slugged, Table, Seeded
<1>2. Workspaces0 \subseteq Ids /\ DOMAIN Products0 \subseteq Ids
  BY SeedAssumption DEF Ids
<1>3. ASSUME NEW i \in Ids
      PROVE  /\ workspaces'[i] # None => workspaces'[i].slug = SlugIn(i)
             /\ products'[i] # None => products'[i].slug = SlugIn(i)
  <2>1. ASSUME NEW r \in Requests, SaveWorkspace(r)
        PROVE  /\ workspaces'[i] # None => workspaces'[i].slug = SlugIn(i)
               /\ products'[i] = products[i]
    BY <1>1, <2>1, WorkspaceSaved DEF Typed, TypeOK
  <2>2. ASSUME NEW r \in Requests, SaveProduct(r)
        PROVE  /\ products'[i] # None => products'[i].slug = SlugIn(i)
               /\ workspaces'[i] = workspaces[i]
    BY <1>1, <2>2, ProductSaved DEF Typed, TypeOK
  <2>3. QED
    BY <1>1, <2>1, <2>2, TablesChange
<1>4. ASSUME NEW i \in Ids, products'[i] # None
      PROVE  i \in DOMAIN Products0 \/ SavedAs("product", i)' # {}
  <2>1. CASE products[i] # None
    BY <2>1, SavesStay DEF Held, TablesHold
  <2>2. CASE products[i] = None
    <3>1. PICK r \in Requests : SaveProduct(r)
      BY <1>4, <2>2, TablesChange DEF SaveWorkspace
    <3>2. PICK j \in Ids : /\ products' = [products EXCEPT ![j] = products'[j]]
                           /\ r \in SavedAs("product", j)'
      BY <3>1, ProductSaved
    <3>3. j = i
      BY <1>4, <2>2, <3>2 DEF Typed, TypeOK
    <3>4. QED
      BY <3>2, <3>3
  <2>3. QED
    BY <2>1, <2>2
<1>5. /\ \A i \in Workspaces0 : workspaces'[i] # None
      /\ \A i \in DOMAIN Products0 : products'[i] # None
  BY <1>1, <1>2, WorkspacesStay, ProductsStay
<1>6. ASSUME NEW kind \in Slugged
      PROVE  /\ \A i \in Ids : Table(kind)'[i] # None => Table(kind)'[i].slug = SlugIn(i)
             /\ \A i \in Seeded(kind) : Table(kind)'[i] # None
  BY <1>3, <1>5 DEF Slugged, Table, Seeded
<1>7. QED
  BY <1>4, <1>6 DEF TablesHold

\* Nothing takes a right back.
LEMMA AssignedStay ==
  ASSUME Typed, Held, [Next]_vars
  PROVE  Assigned \subseteq Assigned'
<1>1. \A r \in Requests : assignments[r] # None => assignments'[r] = assignments[r]
  <2> SUFFICES ASSUME NEW r \in Requests, assignments[r] # None
               PROVE  assignments'[r] = assignments[r]
    OBVIOUS
  <2>1. pc[r] # "save"
    BY DEF Held, HeldByRequest, Placed, Ended
  <2>2. ASSUME SaveAssignment(r) PROVE FALSE
    BY <2>1, <2>2 DEF SaveAssignment
  <2>3. QED
    BY <2>2, OthersKept
       DEF Same, StepOf, stores, Arrive, FindTarget, HasRole, LoadGrants, FindScope,
           ListWorkspaces, FindSlug, FindProduct, ListRoles, SaveWorkspace, SaveProduct,
           SaveClient, SaveRoutePolicy, SaveRole, AuditSuccess, AuditFailure, Abandon
<1>2. DOMAIN assignments = Requests /\ (DOMAIN assignments)' = Requests
  BY TypedStep DEF Typed, TypeOK
<1>3. QED
  BY <1>1, <1>2 DEF Assigned, Existing

LEMMA RightsStay ==
  ASSUME Typed, Held, [Next]_vars, NEW s, NEW w, NEW p
  PROVE  /\ IsSuper(s) => IsSuper(s)'
         /\ IsTenantAdmin(s, w) => IsTenantAdmin(s, w)'
         /\ Manages(s, w, p) => Manages(s, w, p)'
<1>1. \A g \in Grants(s) : g \in Grants(s)'
  BY AssignedStay DEF Grants
<1>2. QED
  BY <1>1 DEF IsSuper, IsTenantAdmin, Manages

LEMMA RightStays ==
  ASSUME Typed, Held, [Next]_vars, NEW r \in Requests, asked[r] # None, asked'[r] = asked[r],
         Right(r), Kind(r) \in Bound => products[ProductId(r)] # None
  PROVE  Right(r)'
<1>1. PICK s, kind, w, p : /\ s = asked[r].actor /\ kind = Kind(r)
                           /\ w = Scope(r) /\ p = ProductId(r)
  OBVIOUS
<1>2. s = asked'[r].actor /\ kind = Kind(r)' /\ w = Scope(r)' /\ p = ProductId(r)'
  BY <1>1 DEF Kind, Scope, ProductId
<1>3. CASE IsSuper(s)
  BY <1>2, <1>3, RightsStay DEF Right
<1>4. CASE kind \in {"product", "role", "assignment"} /\ IsTenantAdmin(s, w)
  BY <1>2, <1>4, RightsStay DEF Right
<1>5. CASE kind \in Bound /\ Twice(p)
  BY <1>2, <1>5, TwiceStays DEF Right
<1>6. CASE kind \in Bound /\ Manages(s, products[p].workspace, p)
  <2>1. PICK home : home = products[p].workspace
    OBVIOUS
  <2>2. p \in Ids /\ products[p] # None
    BY <1>1, <1>6, AskedType
  <2>3. home = products'[p].workspace \/ Twice(p)'
    BY <2>1, <2>2, ProductsStay
  <2>4. Manages(s, home, p)'
    BY <1>6, <2>1, RightsStay
  <2>5. Manages(s, products[p].workspace, p)' \/ Twice(p)'
    BY <2>3, <2>4 DEF Manages, IsTenantAdmin
  <2>6. QED
    BY <1>2, <1>6, <2>5 DEF Right
<1>7. QED
  BY <1>1, <1>3, <1>4, <1>5, <1>6 DEF Right

\* Requests that had saved when r came are known.
LEMMA SavedBefore ==
  ASSUME Typed, Held, NEW r \in Requests, asked[r] # None, NEW q \in asked[r].savedBefore
  PROVE  q \in Requests /\ effect[q] # None /\ asked[q] # None
BY AskedType DEF Held, HeldByRequest, Taken, Placed

LEMMA HeldByOthers ==
  ASSUME Typed, Held, [Next]_vars, NEW r \in Requests, ~ StepOf(r)
  PROVE  HeldByRequest(r)'
<1>1. Same(r)
  BY OthersKept
<1>2. HeldByRequest(r)
  BY DEF Held
<1>3. Kind(r)' = Kind(r) /\ NameOf(r)' = NameOf(r) /\ ProductId(r)' = ProductId(r)
  BY <1>1 DEF Same, Kind, NameOf, ProductId
<1>4. Placed(r)'
  BY <1>1, <1>2, <1>3 DEF Same, HeldByRequest, Placed
<1>5. Logged(r)'
  BY <1>1, <1>2 DEF Same, HeldByRequest, Logged
<1>6. Taken(r)'
  <2>1. ASSUME asked[r] # None
        PROVE  \A q \in asked[r].savedBefore :
                 /\ effect'[q] # None /\ Kind(q)' = Kind(q) /\ NameOf(q)' = NameOf(q)
    BY <2>1, SavedBefore, EffectsStay DEF Kind, NameOf
  <2>2. ASSUME effect[r] # None, Kind(r) \in Slugged
        PROVE  Table(Kind(r))'[effect[r].id] # None
    <3>1. effect[r].id \in Ids /\ Table(Kind(r))[effect[r].id] # None
      <4>1. NameOf(r) \in Names
        BY <1>2, <2>2, AskedType DEF HeldByRequest, Placed, Slugged, Bound
      <4>2. QED
        BY <1>2, <2>2, <4>1, NamesAndIds DEF HeldByRequest, Taken
    <3>2. QED
      BY <1>3, <2>2, <3>1, WorkspacesStay, ProductsStay DEF Slugged, Table
  <2>3. asked[r] = None => effect[r] = None /\ pc[r] # "save"
    BY <1>2 DEF HeldByRequest, Placed, Working, Allowed
  <2>4. QED
    BY <1>1, <1>2, <1>3, <2>1, <2>2, <2>3 DEF Same, HeldByRequest, Taken
<1>7. Referenced(r)'
  <2>1. pc[r] \in {"findSlug", "save"} /\ Kind(r) = "product" =>
          workspaces'[asked[r].command.workspace] # None
    <3>1. pc[r] \in {"findSlug", "save"} /\ Kind(r) = "product" =>
            asked[r].command.workspace \in Ids
      BY <1>2, AskedType, CommandType DEF HeldByRequest, Placed, Working, Allowed, Kind
    <3>2. QED
      BY <1>2, <3>1, WorkspacesStay DEF HeldByRequest, Referenced
  <2>2. pc[r] \in Deciding \cup Allowed \/ effect[r] # None => asked[r] # None
    BY <1>2 DEF HeldByRequest, Placed, Working
  <2>3. (pc[r] \in Deciding \cup Allowed \/ effect[r] # None) /\ Kind(r) \in Bound =>
          /\ ProductId(r) \in Ids /\ products[ProductId(r)] # None
          /\ products'[ProductId(r)] # None
    BY <1>2, <2>2, AskedType, ProductsStay DEF HeldByRequest, Referenced
  <2>4. pc[r] \in Deciding \cup Allowed /\ Kind(r) \in Bound =>
          /\ workspaces'[local[r].workspace] # None
          /\ InWorkspaceOf(local[r].workspace, ProductId(r))'
    <3>1. pc[r] \in Deciding \cup Allowed /\ Kind(r) \in Bound =>
            local[r].workspace \in Ids
      BY <1>2 DEF HeldByRequest, Referenced, Typed, ProductRecord
    <3>2. PICK w, p : w = local[r].workspace /\ p = ProductId(r)
      OBVIOUS
    <3>3. pc[r] \in Deciding \cup Allowed /\ Kind(r) \in Bound => InWorkspaceOf(w, p)'
      BY <1>2, <2>3, <3>2, InWorkspaceStays DEF HeldByRequest, Referenced
    <3>4. w = local'[r].workspace /\ p = ProductId(r)'
      BY <1>1, <1>3, <3>2 DEF Same
    <3>5. QED
      BY <1>2, <3>1, <3>2, <3>3, <3>4, WorkspacesStay
         DEF HeldByRequest, Referenced, InWorkspaceOf
  <2>5. effect[r] # None /\ Kind(r) = "client" =>
          InWorkspaceOf(clients[r].workspace, ProductId(r))'
    <3>1. PICK w, p : w = clients[r].workspace /\ p = ProductId(r)
      OBVIOUS
    <3>2. effect[r] # None /\ Kind(r) = "client" => InWorkspaceOf(w, p)'
      BY <1>2, <2>3, <3>1, InWorkspaceStays DEF HeldByRequest, Referenced, Bound
    <3>3. w = clients'[r].workspace /\ p = ProductId(r)'
      BY <1>1, <1>3, <3>1 DEF Same
    <3>4. QED
      BY <3>2, <3>3 DEF InWorkspaceOf
  <2>6. QED
    BY <1>1, <1>2, <1>3, <2>1, <2>3, <2>4, <2>5 DEF Same, HeldByRequest, Referenced
<1>8. Entitled(r)'
  <2> SUFFICES ASSUME pc[r] \in Allowed \/ effect[r] # None PROVE Right(r)'
    BY <1>1 DEF Same, Entitled
  <2>1. asked[r] # None /\ Right(r)
    BY <1>2 DEF HeldByRequest, Placed, Entitled, Working
  <2>2. Kind(r) \in Bound => products[ProductId(r)] # None
    BY <1>2 DEF HeldByRequest, Referenced
  <2>3. QED
    BY <1>1, <2>1, <2>2, RightStays DEF Same
<1>9. QED
  BY <1>4, <1>5, <1>6, <1>7, <1>8 DEF HeldByRequest

-----------------------------------------------------------------------------
(* A request's own step. *)

LEMMA Arrival ==
  ASSUME Typed, Held, [Next]_vars, NEW r \in Requests, Arrive(r)
  PROVE  HeldByRequest(r)'
<1>1. PICK s \in Subjects, command \in Commands :
        /\ asked' = [asked EXCEPT ![r] =
             [actor |-> s, command |-> command,
              savedBefore |-> {q \in Requests : effect[q] # None}]]
        /\ pc' = [pc EXCEPT ![r] = IF command.kind \in {"client", "routePolicy"}
                                     THEN "findTarget" ELSE "hasRole"]
  BY DEF Arrive, Goto
<1>2. [actor |-> s, command |-> command,
       savedBefore |-> {q \in Requests : effect[q] # None}] # None
  BY NoneAssumption DEF Params
<1>3. /\ asked'[r] # None /\ Kind(r)' = command.kind
      /\ asked'[r].savedBefore = {q \in Requests : effect[q] # None}
      /\ pc'[r] = IF command.kind \in {"client", "routePolicy"} THEN "findTarget" ELSE "hasRole"
      /\ pc[r] = "idle" /\ UNCHANGED <<stores, local, effect>>
  BY <1>1, <1>2 DEF Arrive, Typed, Kind
<1>4. effect[r] = None
  BY <1>3 DEF Held, HeldByRequest, Placed, Ended
<1>5. Placed(r)'
  BY <1>3, <1>4 DEF Held, HeldByRequest, Placed, stores, Working, Deciding, Allowed, Ended, Bound
<1>6. Logged(r)'
  BY <1>3, <1>4 DEF Held, HeldByRequest, Logged, stores, Ended
<1>7. Taken(r)'
  BY <1>3, <1>4 DEF Taken
<1>8. Referenced(r)' /\ Entitled(r)'
  BY <1>3, <1>4 DEF Referenced, Entitled, Deciding, Allowed, Bound
<1>9. QED
  BY <1>5, <1>6, <1>7, <1>8 DEF HeldByRequest

\* A request under way keeps what it came with, or is over and saved nothing.
LEMMA OwnStep ==
  ASSUME Typed, Held, [Next]_vars, NEW r \in Requests, StepOf(r), ~ Arrive(r)
  PROVE  /\ asked[r] # None /\ pc[r] \in Working
         /\ \/ asked' = asked
            \/ asked'[r] = None /\ effect'[r] = None /\ pc'[r] \in {"rejected", "refused"}
         /\ \A q \in Requests \ {r} : asked'[q] = asked[q]
<1>1. pc[r] \in Working
  BY DEF StepOf, Typed, Labels, FindTarget, HasRole, LoadGrants, FindScope, ListWorkspaces,
         FindSlug, FindProduct, ListRoles, SaveWorkspace, SaveProduct, SaveClient,
         SaveRoutePolicy, SaveRole, SaveAssignment, AuditSuccess, AuditFailure, Abandon,
         Working, Deciding, Allowed
<1>2. asked[r] # None
  BY <1>1 DEF Held, HeldByRequest, Placed
<1>3. pc[r] = "auditSuccess" => effect[r] # None
  BY DEF Held, HeldByRequest, Placed
<1>4. \/ asked' = asked
      \/ asked'[r] = None /\ effect'[r] = None /\ pc'[r] \in {"rejected", "refused"}
  BY <1>1, <1>3
     DEF StepOf, Typed, FindTarget, HasRole, LoadGrants, FindScope, ListWorkspaces,
         FindSlug, FindProduct, ListRoles, SaveWorkspace, SaveProduct, SaveClient,
         SaveRoutePolicy, SaveRole, SaveAssignment, AuditSuccess, AuditFailure, Abandon,
         Goto, Keep, Return, Refuse, Saved
<1>5. \A q \in Requests \ {r} : asked'[q] = asked[q]
  BY DEF StepOf, Typed, FindTarget, HasRole, LoadGrants, FindScope, ListWorkspaces,
         FindSlug, FindProduct, ListRoles, SaveWorkspace, SaveProduct, SaveClient,
         SaveRoutePolicy, SaveRole, SaveAssignment, AuditSuccess, AuditFailure, Abandon,
         Goto, Keep, Return, Refuse, Saved
<1>6. QED
  BY <1>1, <1>2, <1>4, <1>5

LEMMA KindAllows ==
  ASSUME Typed, NEW r \in Requests, asked[r] # None
  PROVE  /\ Operation(Kind(r)) \in Allowed \ {"findScope", "save"}
         /\ Operation(Kind(r)) = "findProduct" => Kind(r) \in Bound
         /\ Operation(Kind(r)) = "listWorkspaces" => Kind(r) = "product"
         /\ Operation(Kind(r)) = "findSlug" => Kind(r) = "workspace"
         /\ Operation(Kind(r)) = "listRoles" => Kind(r) \in {"role", "assignment"}
BY AskedType DEF Operation, Kinds, Slugged, Bound, Allowed

LEMMA PlacedByItself ==
  ASSUME Typed, Held, [Next]_vars, NEW r \in Requests, StepOf(r), ~ Arrive(r)
  PROVE  Placed(r)' /\ Logged(r)'
<1> USE DEF Typed, TypeOK, stores, Goto, Keep, Return, Refuse, Saved, Kind
<1> USE DEF Placed, Logged, Working, Deciding, Allowed, Ended, Slugged, Bound
<1>1. Placed(r) /\ Logged(r) /\ asked[r] # None
  BY OwnStep DEF Held, HeldByRequest
<1>2. CASE FindTarget(r) \/ FindScope(r) \/ ListWorkspaces(r)
  BY <1>1, <1>2 DEF FindTarget, FindScope, ListWorkspaces
<1>3. CASE HasRole(r)
  BY <1>1, <1>3, KindAllows DEF HasRole
<1>4. CASE LoadGrants(r)
  BY <1>1, <1>4, KindAllows DEF LoadGrants
<1>5. CASE FindSlug(r) \/ FindProduct(r) \/ ListRoles(r)
  BY <1>1, <1>5 DEF FindSlug, FindProduct, ListRoles
<1>6. CASE SaveWorkspace(r) \/ SaveProduct(r) \/ SaveRole(r)
  <2>1. effect'[r] # None
    <3>1. CASE SaveRole(r)
      <4>1. /\ asked[r].command.name \in Names
            /\ asked[r].command.workspace \in Ids \cup {None}
        BY <1>1, <3>1, AskedType, CommandType DEF SaveRole
      <4>2. RoleIdFor(asked[r].command.workspace, asked[r].command.name, r) \in RoleIds \cup Requests
        BY <4>1, NamesAssumption DEF RoleIdFor
      <4>3. [id |-> RoleIdFor(asked[r].command.workspace, asked[r].command.name, r)] \in Effect
        BY <4>2 DEF Effect, Ids
      <4>4. QED
        BY <3>1, <4>3, NoneAssumption DEF SaveRole
    <3>2. CASE SaveWorkspace(r) \/ SaveProduct(r)
      <4>1. [id |-> IdOf(NameOf(r), r)] \in Effect
        BY <3>2, <1>1, AskedType, NamesAndIds DEF SaveWorkspace, SaveProduct, Effect
      <4>2. QED
        BY <3>2, <4>1, NoneAssumption DEF SaveWorkspace, SaveProduct, NameOf
    <3>3. QED
      BY <1>6, <3>1, <3>2
  <2>2. QED
    BY <1>1, <1>6, <2>1 DEF SaveWorkspace, SaveProduct, SaveRole
<1>7. CASE SaveClient(r) \/ SaveRoutePolicy(r) \/ SaveAssignment(r)
  <2>1. effect'[r] # None
    <3>1. [id |-> r] # None
      BY NoneAssumption DEF Effect, Ids
    <3>2. QED
      BY <1>7, <3>1 DEF SaveClient, SaveRoutePolicy, SaveAssignment
  <2>2. QED
    BY <1>1, <1>7, <2>1 DEF SaveClient, SaveRoutePolicy, SaveAssignment
<1>8. CASE AuditSuccess(r) \/ AuditFailure(r) \/ Abandon(r)
  BY <1>1, <1>8 DEF AuditSuccess, AuditFailure, Abandon
<1>9. QED
  BY <1>2, <1>3, <1>4, <1>5, <1>6, <1>7, <1>8 DEF StepOf

\* The requests of savedBefore keep their slugs, and r's own step changes
\* neither its name nor its kind.
LEMMA TakenByItself ==
  ASSUME Typed, Held, [Next]_vars, NEW r \in Requests, StepOf(r), ~ Arrive(r)
  PROVE  Taken(r)'
<1>1. HeldByRequest(r) /\ asked[r] # None /\ pc[r] \in Working
  BY OwnStep DEF Held
<1>2. CASE asked'[r] = None
  BY <1>1, <1>2, OwnStep DEF Taken
<1>3. CASE asked' = asked
  <2>1. Kind(r)' = Kind(r) /\ NameOf(r)' = NameOf(r)
    BY <1>3 DEF Kind, NameOf
  <2>2. \A q \in asked[r].savedBefore :
          /\ effect[q] # None /\ effect'[q] # None /\ q \in Requests
          /\ Kind(q)' = Kind(q) /\ NameOf(q)' = NameOf(q)
    BY <1>1, <1>3, SavedBefore, EffectsStay DEF Kind, NameOf
  <2>3. ASSUME Kind(r) \in Slugged, effect[r] # None
        PROVE  /\ effect'[r] = effect[r] /\ effect[r].id = IdOf(NameOf(r), r)
               /\ Table(Kind(r))'[effect[r].id] # None
    <3>1. effect'[r] = effect[r]
      BY <2>3, EffectsStay
    <3>2. /\ effect[r].id = IdOf(NameOf(r), r) /\ effect[r].id \in Ids
          /\ Table(Kind(r))[effect[r].id] # None
      BY <1>1, <2>3, AskedType, NamesAndIds DEF HeldByRequest, Taken, Slugged, Bound
    <3>3. QED
      BY <2>1, <2>3, <3>1, <3>2, WorkspacesStay, ProductsStay DEF Slugged, Table
  <2>4. ASSUME Kind(r) \in Slugged, effect[r] = None, effect'[r] # None
        PROVE  /\ pc[r] = "save"
               /\ effect'[r].id = IdOf(NameOf(r), r) /\ Table(Kind(r))'[effect'[r].id] # None
    <3>1. SaveWorkspace(r) \/ SaveProduct(r)
      BY <2>4
         DEF StepOf, FindTarget, HasRole, LoadGrants, FindScope, ListWorkspaces, FindSlug,
             FindProduct, ListRoles, SaveClient, SaveRoutePolicy, SaveRole, SaveAssignment,
             AuditSuccess, AuditFailure, Abandon, Slugged
    <3>2. CASE SaveWorkspace(r)
      <4>1. Kind(r) = "workspace" /\ Kind(r)' = "workspace" /\ pc[r] = "save"
        BY <2>1, <3>2 DEF SaveWorkspace
      <4>2. QED
        BY <3>2, <4>1, WorkspaceSaved DEF Typed, Table
    <3>3. CASE SaveProduct(r)
      <4>1. Kind(r) = "product" /\ Kind(r)' = "product" /\ pc[r] = "save"
        BY <2>1, <3>3 DEF SaveProduct
      <4>2. QED
        BY <3>3, <4>1, ProductSaved DEF Typed, Table
    <3>4. QED
      BY <3>1, <3>2, <3>3
  <2>5. ASSUME Kind(r) \in Slugged, pc[r] = "save" \/ effect[r] # None
        PROVE  /\ IdOf(NameOf(r), r) \notin Seeded(Kind(r))
               /\ \A q \in asked[r].savedBefore :
                    Kind(q) = Kind(r) => SlugOf[NameOf(q)] # SlugOf[NameOf(r)]
    BY <1>1, <2>5 DEF HeldByRequest, Taken
  <2>6. ASSUME Kind(r) \in Slugged, pc[r] # "save", pc'[r] = "save"
        PROVE  /\ IdOf(NameOf(r), r) \notin Seeded(Kind(r))
               /\ \A q \in asked[r].savedBefore :
                    Kind(q) = Kind(r) => SlugOf[NameOf(q)] # SlugOf[NameOf(r)]
    <3>1. FindSlug(r)
      <4>1. ~ FindProduct(r) /\ ~ ListRoles(r)
        BY <1>1, <2>6 DEF FindProduct, ListRoles, HeldByRequest, Placed, Slugged, Bound
      <4>2. Operation(Kind(r)) # "save"
        BY <1>1, KindAllows
      <4>3. QED
        BY <2>6, <4>1, <4>2
           DEF StepOf, FindTarget, HasRole, LoadGrants, FindScope, ListWorkspaces,
               SaveWorkspace, SaveProduct, SaveClient, SaveRoutePolicy, SaveRole,
               SaveAssignment, AuditSuccess, AuditFailure, Abandon,
               Goto, Refuse, Return, Saved, Typed
    <3>2. \A i \in Ids : Table(Kind(r))[i] # None =>
            /\ Table(Kind(r))[i].slug # SlugOf[NameOf(r)]
            /\ Table(Kind(r))[i].slug = SlugIn(i)
      <4>1. ~ \E i \in Existing(Table(Kind(r))) : Table(Kind(r))[i].slug = SlugOf[NameOf(r)]
        BY <2>6, <3>1 DEF FindSlug, Goto, Typed, Table, NameOf
      <4>2. Ids = DOMAIN Table(Kind(r))
        BY DEF Table, Typed, TypeOK
      <4>3. QED
        BY <2>6, <4>1, <4>2 DEF Existing, Held, TablesHold
    <3>3. IdOf(NameOf(r), r) \in Ids /\ SlugIn(IdOf(NameOf(r), r)) = SlugOf[NameOf(r)]
      BY <1>1, <2>6, AskedType, NamesAndIds DEF Slugged, Bound
    <3>4. IdOf(NameOf(r), r) \notin Seeded(Kind(r))
      BY <2>6, <3>2, <3>3 DEF Held, TablesHold
    <3>5. ASSUME NEW q \in asked[r].savedBefore, Kind(q) = Kind(r)
          PROVE  SlugOf[NameOf(q)] # SlugOf[NameOf(r)]
      <4>1. q \in Requests /\ effect[q] # None /\ asked[q] # None
        BY <1>1, SavedBefore
      <4>2. /\ effect[q].id = IdOf(NameOf(q), q) /\ Table(Kind(r))[effect[q].id] # None
        BY <2>6, <3>5, <4>1 DEF Held, HeldByRequest, Taken
      <4>3. effect[q].id \in Ids /\ SlugIn(effect[q].id) = SlugOf[NameOf(q)]
        BY <2>6, <3>5, <4>1, <4>2, AskedType, NamesAndIds DEF Slugged, Bound
      <4>4. QED
        BY <3>2, <4>2, <4>3
    <3>6. QED
      BY <3>4, <3>5
  <2>7. QED
    BY <1>3, <2>1, <2>2, <2>3, <2>4, <2>5, <2>6 DEF Taken
<1>4. QED
  BY <1>2, <1>3, OwnStep

\* The steps on which r learns of its product, or keeps what it knew.
LEMMA LocalStep ==
  ASSUME Typed, Held, [Next]_vars, NEW r \in Requests, StepOf(r), ~ Arrive(r),
         pc'[r] \in Deciding \cup Allowed
  PROVE  \/ pc[r] \in Deciding \cup Allowed /\ local' = local
         \/ /\ pc[r] \in {"findTarget", "findProduct"}
            /\ local'[r] = products[ProductId(r)] /\ products[ProductId(r)] # None
<1>1. asked[r] # None
  BY OwnStep
<1> USE DEF Typed, Goto, Keep, Return, Refuse, Deciding, Allowed, Ended
<1>2. CASE FindTarget(r) \/ FindProduct(r)
  BY <1>2 DEF FindTarget, FindProduct, ProductId
<1>3. CASE HasRole(r) \/ LoadGrants(r) \/ FindScope(r)
  BY <1>3 DEF HasRole, LoadGrants, FindScope
<1>4. CASE ListWorkspaces(r) \/ FindSlug(r) \/ ListRoles(r)
  BY <1>4 DEF ListWorkspaces, FindSlug, ListRoles
<1>5. CASE \/ SaveWorkspace(r) \/ SaveProduct(r) \/ SaveClient(r) \/ SaveRoutePolicy(r)
           \/ SaveRole(r) \/ SaveAssignment(r)
  BY <1>5 DEF SaveWorkspace, SaveProduct, SaveClient, SaveRoutePolicy, SaveRole,
              SaveAssignment, Saved
<1>6. CASE AuditSuccess(r) \/ AuditFailure(r) \/ Abandon(r)
  BY <1>6 DEF AuditSuccess, AuditFailure, Abandon
<1>7. QED
  BY <1>2, <1>3, <1>4, <1>5, <1>6 DEF StepOf

LEMMA ReferencedByItself ==
  ASSUME Typed, Held, [Next]_vars, NEW r \in Requests, StepOf(r), ~ Arrive(r)
  PROVE  Referenced(r)'
<1>1. HeldByRequest(r) /\ asked[r] # None /\ pc[r] \in Working
  BY OwnStep DEF Held
<1>2. CASE asked'[r] = None
  <2>1. effect'[r] = None /\ pc'[r] \in {"rejected", "refused"}
    BY <1>1, <1>2, OwnStep
  <2>2. QED
    BY <2>1 DEF Referenced, Deciding, Allowed
<1>3. CASE asked' = asked
  <2>1. Kind(r)' = Kind(r) /\ ProductId(r)' = ProductId(r)
    BY <1>3 DEF Kind, ProductId
  <2>2. ASSUME pc'[r] \in {"findSlug", "save"}, Kind(r) = "product"
        PROVE  workspaces'[asked[r].command.workspace] # None
    <3>1. asked[r].command.workspace \in Ids
      BY <1>1, <2>2, AskedType, CommandType DEF Kind
    <3>2. workspaces[asked[r].command.workspace] # None
      <4>1. ~ FindProduct(r) /\ ~ ListRoles(r)
        BY <1>1, <2>2 DEF FindProduct, ListRoles, HeldByRequest, Placed, Bound
      <4>2. Operation(Kind(r)) \notin {"findSlug", "save"}
        BY <1>1, <2>2, KindAllows
      <4>3. ListWorkspaces(r) \/ FindSlug(r)
        BY <2>2, <4>1, <4>2
           DEF StepOf, FindTarget, HasRole, LoadGrants, FindScope, SaveWorkspace, SaveProduct,
               SaveClient, SaveRoutePolicy, SaveRole, SaveAssignment, AuditSuccess,
               AuditFailure, Abandon, Goto, Refuse, Return, Saved, Typed
      <4>4. CASE ListWorkspaces(r)
        BY <2>2, <4>4 DEF ListWorkspaces, Goto, Return, Typed
      <4>5. CASE FindSlug(r)
        BY <1>1, <2>2, <4>5 DEF FindSlug, HeldByRequest, Referenced
      <4>6. QED
        BY <4>3, <4>4, <4>5
    <3>3. QED
      BY <3>1, <3>2, WorkspacesStay
  <2>3. ASSUME Kind(r) \in Bound, pc'[r] \in Deciding \cup Allowed \/ effect'[r] # None
        PROVE  /\ ProductId(r) \in Ids /\ products[ProductId(r)] # None
               /\ products'[ProductId(r)] # None
    <3>1. ProductId(r) \in Ids
      BY <1>1, <2>3, AskedType
    <3>2. products[ProductId(r)] # None
      <4>1. CASE pc'[r] \in Deciding \cup Allowed
        BY <1>1, <2>3, <4>1, LocalStep DEF HeldByRequest, Referenced, Allowed
      <4>2. CASE effect'[r] # None /\ effect[r] # None
        BY <1>1, <2>3, <4>2 DEF HeldByRequest, Referenced
      <4>3. CASE effect'[r] # None /\ effect[r] = None
        <5>1. pc[r] = "save"
          BY <4>3
             DEF StepOf, FindTarget, HasRole, LoadGrants, FindScope, ListWorkspaces, FindSlug,
                 FindProduct, ListRoles, SaveWorkspace, SaveProduct, SaveClient,
                 SaveRoutePolicy, SaveRole, SaveAssignment, AuditSuccess, AuditFailure, Abandon
        <5>2. QED
          BY <1>1, <2>3, <5>1 DEF HeldByRequest, Referenced, Allowed
      <4>4. QED
        BY <2>3, <4>1, <4>2, <4>3
    <3>3. QED
      BY <3>1, <3>2, ProductsStay
  <2>4. ASSUME Kind(r) \in Bound, pc'[r] \in Deciding \cup Allowed
        PROVE  /\ local'[r] # None /\ workspaces'[local'[r].workspace] # None
               /\ InWorkspaceOf(local[r].workspace, ProductId(r))'
    <3>1. PICK record, p : record = local'[r] /\ p = ProductId(r)
      OBVIOUS
    <3>2. p \in Ids /\ products[p] # None
      BY <2>3, <2>4, <3>1
    <3>3. record \in ProductRecord /\ workspaces[record.workspace] # None
          /\ InWorkspaceOf(record.workspace, p)
      <4>1. CASE local' = local /\ pc[r] \in Deciding \cup Allowed
        BY <1>1, <2>4, <3>1, <4>1 DEF HeldByRequest, Referenced, Typed
      <4>2. CASE record = products[p]
        <5>1. record \in ProductRecord
          BY <3>2, <4>2 DEF Typed, TypeOK
        <5>2. workspaces[record.workspace] # None
          BY <3>2, <4>2 DEF Held, ReferencesResolve, Existing, Typed, TypeOK
        <5>3. QED
          BY <4>2, <5>1, <5>2 DEF InWorkspaceOf
      <4>3. QED
        BY <2>4, <3>1, <4>1, <4>2, LocalStep
    <3>4. record.workspace \in Ids /\ record # None
      BY <3>3, NamesAssumption DEF ProductRecord
    <3>5. workspaces'[record.workspace] # None
      BY <3>3, <3>4, WorkspacesStay
    <3>6. PICK w : w = record.workspace
      OBVIOUS
    <3>7. InWorkspaceOf(w, p)'
      BY <3>2, <3>3, <3>6, InWorkspaceStays
    <3>8. w = local'[r].workspace /\ p = ProductId(r)'
      BY <2>1, <3>1, <3>6
    <3>9. QED
      BY <3>1, <3>4, <3>5, <3>7, <3>8 DEF InWorkspaceOf
  <2>5. ASSUME effect'[r] # None, Kind(r) = "client"
        PROVE  clients'[r] # None /\ InWorkspaceOf(clients[r].workspace, ProductId(r))'
    <3>1. ProductId(r) \in Ids /\ products[ProductId(r)] # None
      BY <2>3, <2>5 DEF Bound
    <3>2. clients'[r] # None /\ InWorkspaceOf(clients'[r].workspace, ProductId(r))
      <4>1. CASE effect[r] # None
        <5>1. AuditSuccess(r) \/ Abandon(r)
          BY <1>1, <4>1
             DEF HeldByRequest, Placed, StepOf, Ended, FindTarget, HasRole, LoadGrants,
                 FindScope, ListWorkspaces, FindSlug, FindProduct, ListRoles, SaveWorkspace,
                 SaveProduct, SaveClient, SaveRoutePolicy, SaveRole, SaveAssignment,
                 AuditFailure
        <5>2. clients' = clients
          BY <5>1 DEF AuditSuccess, Abandon, stores
        <5>3. QED
          BY <1>1, <2>5, <4>1, <5>2 DEF HeldByRequest, Referenced, InWorkspaceOf
      <4>2. CASE effect[r] = None
        <5>1. SaveClient(r)
          BY <2>5, <4>2
             DEF StepOf, FindTarget, HasRole, LoadGrants, FindScope, ListWorkspaces, FindSlug,
                 FindProduct, ListRoles, SaveWorkspace, SaveProduct, SaveRoutePolicy, SaveRole,
                 SaveAssignment, AuditSuccess, AuditFailure, Abandon
        <5>2. /\ local[r] \in ProductRecord
              /\ InWorkspaceOf(local[r].workspace, ProductId(r))
          BY <1>1, <2>5, <5>1
             DEF SaveClient, HeldByRequest, Referenced, Allowed, Bound, Typed
        <5>3. clients'[r] = [product |-> ProductId(r), workspace |-> local[r].workspace]
          BY <5>1 DEF SaveClient, Typed, TypeOK, ProductId
        <5>4. clients'[r] \in ClientRecord /\ clients'[r].workspace = local[r].workspace
          BY <3>1, <5>2, <5>3 DEF ClientRecord, ProductRecord
        <5>5. QED
          BY <5>2, <5>4, NoneAssumption DEF InWorkspaceOf
      <4>3. QED
        BY <4>1, <4>2
    <3>3. PICK w, p : w = clients'[r].workspace /\ p = ProductId(r)
      OBVIOUS
    <3>4. InWorkspaceOf(w, p)'
      BY <3>1, <3>2, <3>3, InWorkspaceStays
    <3>5. p = ProductId(r)'
      BY <2>1, <3>3
    <3>6. QED
      BY <3>2, <3>3, <3>4, <3>5 DEF InWorkspaceOf
  <2>6. QED
    BY <1>3, <2>1, <2>2, <2>3, <2>4, <2>5 DEF Referenced
<1>4. QED
  BY <1>2, <1>3, OwnStep

\* A request that was allowed keeps its right; LoadGrants looks at the product
\* as it was read, so at its workspace unless it has been saved twice.
LEMMA EntitledByItself ==
  ASSUME Typed, Held, [Next]_vars, NEW r \in Requests, StepOf(r), ~ Arrive(r)
  PROVE  Entitled(r)'
<1>1. HeldByRequest(r) /\ asked[r] # None /\ pc[r] \in Working
  BY OwnStep DEF Held
<1>2. CASE asked'[r] = None
  BY <1>1, <1>2, OwnStep DEF Entitled, Allowed
<1>3. CASE asked' = asked
  <2> SUFFICES ASSUME pc'[r] \in Allowed \/ effect'[r] # None PROVE Right(r)'
    BY DEF Entitled
  <2>1. CASE pc[r] \in Allowed \/ effect[r] # None
    <3>1. Right(r)
      BY <1>1, <2>1 DEF HeldByRequest, Entitled
    <3>2. Kind(r) \in Bound => products[ProductId(r)] # None
      BY <1>1, <2>1 DEF HeldByRequest, Referenced
    <3>3. QED
      BY <1>1, <1>3, <3>1, <3>2, RightStays
  <2>2. CASE pc[r] \notin Allowed /\ effect[r] = None
    <3>1. HasRole(r) \/ LoadGrants(r)
      BY <2>2
         DEF StepOf, FindTarget, FindScope, ListWorkspaces, FindSlug, FindProduct, ListRoles,
             SaveWorkspace, SaveProduct, SaveClient, SaveRoutePolicy, SaveRole, SaveAssignment,
             AuditSuccess, AuditFailure, Abandon, Goto, Keep, Refuse, Return, Allowed, Ended,
             Typed
    <3>2. pc'[r] \in Allowed
      BY <2>2, <3>1 DEF HasRole, LoadGrants
    <3>3. Kind(r) \in Bound => products[ProductId(r)] # None
      BY <1>1, <3>1 DEF HasRole, LoadGrants, HeldByRequest, Referenced, Deciding
    <3>4. Right(r)
      <4>1. CASE HasRole(r)
        BY <3>2, <4>1 DEF HasRole, Right, Goto, Refuse, Return, Allowed, Typed
      <4>2. CASE LoadGrants(r)
        <5>1. Kind(r) # "workspace" /\ Kind(r) \in Kinds
          BY <1>1, <4>2, AskedType DEF LoadGrants, HeldByRequest, Placed
        <5>2. IF Kind(r) \in Bound THEN Manages(asked[r].actor, local[r].workspace, ProductId(r))
                                   ELSE IsTenantAdmin(asked[r].actor, Scope(r))
          BY <3>2, <4>2 DEF LoadGrants, Refuse, Return, Goto, Allowed, Typed, Bound, ProductId
        <5>3. CASE Kind(r) \in Bound
          <6>1. InWorkspaceOf(local[r].workspace, ProductId(r))
            BY <1>1, <4>2, <5>3 DEF LoadGrants, HeldByRequest, Referenced, Deciding
          <6>2. QED
            BY <5>2, <5>3, <6>1 DEF Right, InWorkspaceOf
        <5>4. CASE Kind(r) \notin Bound
          BY <5>1, <5>2, <5>4 DEF Right, Kinds, Slugged
        <5>5. QED
          BY <5>3, <5>4
      <4>3. QED
        BY <3>1, <4>1, <4>2
    <3>5. QED
      BY <1>1, <1>3, <3>3, <3>4, RightStays
  <2>3. QED
    BY <2>1, <2>2
<1>4. QED
  BY <1>2, <1>3, OwnStep

LEMMA ReferencesResolveStep ==
  ASSUME Typed, Held, [Next]_vars
  PROVE  ReferencesResolve'
<1> USE DEF Typed, TypeOK
<1>1. Typed'
  BY TypedStep
<1>2. ASSUME NEW i \in Ids, products'[i] # None
      PROVE  workspaces'[products'[i].workspace] # None
  <2>1. CASE products'[i] = products[i]
    <3>1. products[i].workspace \in Ids /\ workspaces[products[i].workspace] # None
      BY <1>2, <2>1 DEF Held, ReferencesResolve, Existing, ProductRecord
    <3>2. QED
      BY <2>1, <3>1, WorkspacesStay
  <2>2. CASE products'[i] # products[i]
    <3>1. PICK r \in Requests : SaveProduct(r)
      BY <2>2, TablesChange DEF SaveWorkspace
    <3>2. /\ workspaces' = workspaces
          /\ products'[i].workspace = asked[r].command.workspace
      BY <2>2, <3>1, ProductSaved
    <3>3. workspaces[asked[r].command.workspace] # None
      BY <3>1 DEF SaveProduct, Held, HeldByRequest, Referenced
    <3>4. QED
      BY <3>2, <3>3
  <2>3. QED
    BY <2>1, <2>2
<1>3. ASSUME NEW r \in Requests, clients'[r] # None
      PROVE  products'[clients'[r].product] # None /\ workspaces'[clients'[r].workspace] # None
  <2>1. CASE clients'[r] = clients[r]
    <3>1. /\ clients[r].product \in Ids /\ products[clients[r].product] # None
          /\ clients[r].workspace \in Ids /\ workspaces[clients[r].workspace] # None
      BY <1>3, <2>1 DEF Held, ReferencesResolve, Existing, ClientRecord
    <3>2. QED
      BY <2>1, <3>1, WorkspacesStay, ProductsStay
  <2>2. CASE clients'[r] # clients[r]
    <3>1. StepOf(r)
      BY <2>2, OthersKept DEF Same
    <3>2. SaveClient(r)
      BY <2>2, <3>1
         DEF StepOf, stores, Arrive, FindTarget, HasRole, LoadGrants, FindScope,
             ListWorkspaces, FindSlug, FindProduct, ListRoles, SaveWorkspace, SaveProduct,
             SaveRoutePolicy, SaveRole, SaveAssignment, AuditSuccess, AuditFailure, Abandon
    <3>3. /\ clients'[r].product = ProductId(r) /\ clients'[r].workspace = local[r].workspace
          /\ products' = products /\ workspaces' = workspaces
      BY <3>2 DEF SaveClient, ProductId
    <3>4. QED
      BY <3>2, <3>3 DEF SaveClient, Held, HeldByRequest, Referenced, Allowed, Bound
  <2>3. QED
    BY <2>1, <2>2
<1>4. ASSUME NEW r \in Requests, routePolicies'[r] # None
      PROVE  products'[routePolicies'[r].product] # None
  <2>1. CASE routePolicies'[r] = routePolicies[r]
    <3>1. routePolicies[r].product \in Ids /\ products[routePolicies[r].product] # None
      BY <1>4, <2>1 DEF Held, ReferencesResolve, Existing, PolicyRecord
    <3>2. QED
      BY <2>1, <3>1, ProductsStay
  <2>2. CASE routePolicies'[r] # routePolicies[r]
    <3>1. StepOf(r)
      BY <2>2, OthersKept DEF Same
    <3>2. SaveRoutePolicy(r)
      BY <2>2, <3>1
         DEF StepOf, stores, Arrive, FindTarget, HasRole, LoadGrants, FindScope,
             ListWorkspaces, FindSlug, FindProduct, ListRoles, SaveWorkspace, SaveProduct,
             SaveClient, SaveRole, SaveAssignment, AuditSuccess, AuditFailure, Abandon
    <3>3. routePolicies'[r].product = ProductId(r) /\ products' = products
      BY <3>2 DEF SaveRoutePolicy, ProductId
    <3>4. QED
      BY <3>2, <3>3 DEF SaveRoutePolicy, Held, HeldByRequest, Referenced, Allowed, Bound
  <2>3. QED
    BY <2>1, <2>2
<1>5. /\ (DOMAIN products)' = Ids /\ (DOMAIN clients)' = Requests
      /\ (DOMAIN routePolicies)' = Requests
  BY <1>1
<1>6. QED
  BY <1>2, <1>3, <1>4, <1>5 DEF ReferencesResolve, Existing

LEMMA HeldStep == Typed /\ Held /\ [Next]_vars => Held'
<1> SUFFICES ASSUME Typed, Held, [Next]_vars PROVE Held'
  OBVIOUS
<1>1. ASSUME NEW r \in Requests PROVE HeldByRequest(r)'
  <2>1. CASE StepOf(r) /\ ~ Arrive(r)
    BY <2>1, PlacedByItself, TakenByItself, ReferencedByItself, EntitledByItself
       DEF HeldByRequest
  <2>2. QED
    BY <2>1, Arrival, HeldByOthers DEF StepOf
<1>2. QED
  BY <1>1, TablesHoldStep, ReferencesResolveStep DEF Held

LEMMA HeldAlways == Spec => [](Typed /\ Held)
BY TypedInit, HeldInit, TypedStep, HeldStep, PTL DEF Spec

-----------------------------------------------------------------------------
\* Every collection holds records of its shape, whatever overlaps.
THEOREM TypeCorrect == Spec => []TypeOK
<1>1. Typed => TypeOK
  BY DEF Typed
<1>2. QED
  BY <1>1, HeldAlways, PTL

\* No overlap of creations leaves a product, a client or a route policy that
\* refers to a workspace or a product that does not exist.
THEOREM ReferencesAlwaysResolve == Spec => []ReferencesResolve
<1>1. Held => ReferencesResolve
  BY DEF Held
<1>2. QED
  BY <1>1, HeldAlways, PTL

\* Whoever saved something had the right to, and still has it: rights that
\* were read calls before the save are never rights to something else, but for
\* a product that was saved twice.
THEOREM SavesAreRightful == Spec => []ActsWithinRights
<1>1. Typed /\ Held => ActsWithinRights
  <2> SUFFICES ASSUME Typed, Held, NEW r \in Requests, effect[r] # None
               PROVE  \/ IsSuper(asked[r].actor)
                      \/ /\ Kind(r) \in {"product", "role", "assignment"}
                         /\ IsTenantAdmin(asked[r].actor, Scope(r))
                      \/ /\ Kind(r) = "client"
                         /\ \/ Manages(asked[r].actor, clients[r].workspace, ProductId(r))
                            \/ Twice(ProductId(r))
                      \/ /\ Kind(r) = "routePolicy"
                         /\ \/ Manages(asked[r].actor, products[ProductId(r)].workspace,
                                       ProductId(r))
                            \/ Twice(ProductId(r))
    BY DEF ActsWithinRights, ProductId, Twice
  <2>1. Right(r)
    BY DEF Held, HeldByRequest, Entitled
  <2>2. Kind(r) = "client" => InWorkspaceOf(clients[r].workspace, ProductId(r))
    BY DEF Held, HeldByRequest, Referenced
  <2>3. QED
    BY <2>1, <2>2 DEF Right, Bound, InWorkspaceOf
<1>2. QED
  BY <1>1, HeldAlways, PTL

\* A slug is saved by the requests that were under way together, and by no
\* later one.
THEOREM SlugsStayTaken == Spec => []SlugsAreTaken
<1>1. Typed /\ Held => SlugsAreTaken
  <2> SUFFICES ASSUME Typed, Held, NEW r \in Requests, effect[r] # None, Kind(r) \in Slugged
               PROVE  /\ effect[r].id \notin Seeded(Kind(r))
                      /\ \A q \in asked[r].savedBefore :
                           Kind(q) = Kind(r) => SlugOf[NameOf(q)] # SlugOf[NameOf(r)]
    BY DEF SlugsAreTaken, Slugged, Seeded, NameOf
  <2>1. QED
    BY DEF Held, HeldByRequest, Taken
<1>2. QED
  BY <1>1, HeldAlways, PTL

\* The audit log is true of every request: successes name what was saved,
\* failures what was not, and an answer "created" is in it.
THEOREM LogIsTrue == Spec => []AuditTellsTheTruth
<1>1. Held => AuditTellsTheTruth
  BY DEF Held, HeldByRequest, Logged, AuditTellsTheTruth
<1>2. QED
  BY <1>1, HeldAlways, PTL
=============================================================================
