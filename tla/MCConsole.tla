----------------------------- MODULE MCConsole -----------------------------
EXTENDS Console

CONSTANTS owner, person

MCRole == [p \in People |-> IF p = owner THEN "tenant_admin" ELSE "none"]
MCDemo == {[who |-> owner, mode |-> "admin"]}
MCAsked == {[who |-> p, mode |-> "admin"] : p \in People}
MCLogins == 1..2

\* At most as many calls at a time as a new page makes; and either a change
\* is saved or an overview is broken, or a second sign-in begins.
FewCalls ==
  /\ BagCardinality(calls) <= 3
  /\ asked[2].who # Nobody =>
       /\ changes = 0 /\ ~ page.saving
       /\ \A c \in BagToSet(calls) : c.version # BrokenOverview.version

=============================================================================
