---------------------------- MODULE AtomicStore ----------------------------
(***************************************************************************)
(* What a caller of JsonFileStore is promised: a read, update or replace   *)
(* takes effect once, at one instant between its call and its answer, and  *)
(* a call that rejects had no effect.  A crash leaves it open whether the  *)
(* calls under way took effect.                                            *)
(*                                                                         *)
(* The stored state is the set of what is in it: the default collections   *)
(* and, for every update or replace, the mark only that call makes.        *)
(***************************************************************************)
CONSTANTS Calls,    \* the calls made of the store
          Kind,     \* Kind[c]: "read", "update" or "replace"
          Defaults, \* what the default value holds
          NoResult  \* a call that has not answered

VARIABLES value, status, result

vars == <<value, status, result>>

Init == /\ \E old \in SUBSET Defaults : value = Defaults \cup old
        /\ status = [c \in Calls |-> "idle"]
        /\ result = [c \in Calls |-> NoResult]

Invoke(c) == /\ status[c] = "idle"
             /\ status' = [status EXCEPT ![c] = "pending"]
             /\ UNCHANGED <<value, result>>

Outcome(c, current) == CASE Kind[c] = "read"    -> current
                         [] Kind[c] = "update"  -> current \cup {c}
                         [] Kind[c] = "replace" -> Defaults \cup {c}

Effect(c) == /\ status[c] = "pending"
             /\ status' = [status EXCEPT ![c] = "effected"]
             /\ value' = Outcome(c, value)
             /\ result' = [result EXCEPT ![c] = value']

Respond(c) == /\ status[c] = "effected"
              /\ status' = [status EXCEPT ![c] = "done"]
              /\ UNCHANGED <<value, result>>

Reject(c) == /\ status[c] = "pending"
             /\ status' = [status EXCEPT ![c] = "failed"]
             /\ UNCHANGED <<value, result>>

Lose(S) == /\ \A c \in S : status[c] \in {"pending", "effected"}
           /\ status' = [c \in Calls |-> IF c \in S THEN "lost" ELSE status[c]]
           /\ result' = [c \in Calls |-> IF c \in S THEN NoResult ELSE result[c]]
           /\ UNCHANGED value

Next == \/ \E c \in Calls : Invoke(c) \/ Effect(c) \/ Respond(c) \/ Reject(c)
        \/ \E S \in SUBSET Calls : Lose(S)

Spec == Init /\ [][Next]_vars
=============================================================================
