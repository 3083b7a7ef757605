------------------------------ MODULE MCAdmin ------------------------------
EXTENDS Admin, TLC

CONSTANTS r1, r2, r3, root, owner, deputy, core, beta, atlas, comet, lead,
          Comet, comet_, bang, Lead, lead_, super_admin, tenant_admin, product_admin,
          roleSuper, roleTenant, roleProduct, roleLead

Home == root :> core @@ owner :> core @@ deputy :> beta

\* Two spellings of one slug, and one that normalizes to nothing.
Normalized == [n \in Names |-> CASE n \in {Comet, comet_} -> comet
                                 [] n \in {Lead, lead_} -> lead
                                 [] OTHER -> None]

\* A role of a workspace and one of none may get the same id.
RoleId == [x \in (Ids \cup {None}) \X Slugs |-> IF x[2] = lead THEN roleLead ELSE roleTenant]

SeededProducts == atlas :> core
SeededRoles == roleSuper   :> [name |-> super_admin, workspace |-> None]
            @@ roleTenant  :> [name |-> tenant_admin, workspace |-> core]
            @@ roleProduct :> [name |-> product_admin, workspace |-> core]

Grant(s, role, w, p) == [user |-> s, role |-> role, workspace |-> w, product |-> p]
SeededGrants == {Grant(root, super_admin, None, None), Grant(owner, tenant_admin, core, None),
                 Grant(deputy, tenant_admin, beta, None)}

Sends ==
       [kind : {"workspace"}, name : {Comet}]
  \cup [kind : {"product"}, name : {Comet}, workspace : {core, comet}]
  \cup [kind : {"product"}, name : {comet_}, workspace : {beta}]
  \cup [kind : {"product"}, name : {bang}, workspace : {core}]
  \cup [kind : {"client"}, product : {atlas, comet}]
  \cup [kind : {"routePolicy"}, product : {comet}]
  \cup [kind : {"role"}, name : {Lead}, workspace : {None}]
  \cup [kind : {"assignment"}, name : {tenant_admin}, workspace : {core},
        product : {None}, user : {deputy}]
  \cup [kind : {"assignment"}, name : {product_admin}, workspace : {core},
        product : {atlas}, user : {deputy}]

Symmetric == Permutations(Requests)
=============================================================================
