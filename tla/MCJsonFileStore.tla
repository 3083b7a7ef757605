-------------------------- MODULE MCJsonFileStore --------------------------
EXTENDS JsonFileStore, TLC

CONSTANTS api, u1, u2, r1, w1, collections, missing, torn, none

\* Markers that are sets, as file contents are, so that TLC can compare them.
MissingFile == {missing}
TornFile    == {torn}
NoAnswer    == {none}

\* One process: two updates and a read, the calls the repositories make.
OneProc   == {api}
OneCalls  == {u1, u2, r1, w1}
OneProcOf == [c \in OneCalls |-> api]
OneKind   == (u1 :> "update") @@ (u2 :> "update") @@ (r1 :> "read") @@ (w1 :> "replace")

DefaultState == {collections}
=============================================================================
