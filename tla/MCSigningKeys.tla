--------------------------- MODULE MCSigningKeys ---------------------------
EXTENDS SigningKeys, FiniteSets, TLC

CONSTANTS api, gateway, gateway2, collections, missing, torn, none

\* Markers that are sets, as file contents are, so that TLC can compare them.
MissingFile == {missing}
TornFile    == {torn}
NoAnswer    == {none}

\* The api, and a gateway that is started twice.
Runs      == {api, gateway, gateway2}
ProgramOf == (api :> "api") @@ (gateway :> "gateway") @@ (gateway2 :> "gateway")

\* Two requests that change the state, which may overlap.
TwoChanges == {"change1", "change2"}

StoreCalls == (Runs \X {"check", "list", "save"})
              \cup ({api} \X ({"redirects"} \cup TwoChanges))
RunOf      == [c \in StoreCalls |-> c[1]]
KindOf     == [c \in StoreCalls |-> IF c[2] \in {"check", "list"} THEN "read" ELSE "update"]

DefaultState == {collections}

\* At most one call is rejected or lost, and the gateway is started again
\* only if no change was made.
FewEvents ==
  /\ Cardinality({c \in Calls : pc[c] \in {"failing", "failed", "lost"}}) <= 1
  /\ \/ run[gateway2] = "off"
     \/ \A step \in Changes : pc[<<api, step>>] = "idle"
=============================================================================
