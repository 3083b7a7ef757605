------------------------ MODULE JsonFileStoreProofs ------------------------
(***************************************************************************)
(* Theorems about JsonFileStore for any processes and any calls.           *)
(***************************************************************************)
EXTENDS JsonFileStore, NaturalsInduction, WellFoundedInduction, TLAPS

USE DEF Waiting, Active, InFlight, Settled, Goto, Own

-----------------------------------------------------------------------------
(* Types: the file, the temporary files and what calls hold are states of  *)
(* the store, promises are numbers.                                        *)

LEMMA TypeInit == Init => TypeOK
  BY DEF Init, TypeOK, Contents

LEMMA TypeStep == TypeOK /\ [Next]_vars => TypeOK'
<1> SUFFICES ASSUME TypeOK, [Next]_vars PROVE TypeOK'
  OBVIOUS
<1> USE CallsAssumption, MarkersAssumption DEF TypeOK, Contents
<1>1. ASSUME NEW c \in Calls, Enqueue(c) PROVE TypeOK'
  BY <1>1 DEF Enqueue
<1>2. ASSUME NEW c \in Calls, Begin(c) PROVE TypeOK'
  BY <1>2 DEF Begin
<1>3. ASSUME NEW c \in Calls, Settle(c) PROVE TypeOK'
  BY <1>3 DEF Settle
<1>4. ASSUME NEW c \in Calls, ReadPresent(c) PROVE TypeOK'
  BY <1>4 DEF ReadPresent, MergeWithDefaults, AfterRead
<1>5. ASSUME NEW c \in Calls, ReadMissing(c) PROVE TypeOK'
  BY <1>5 DEF ReadMissing
<1>6. ASSUME NEW c \in Calls, ReadFails(c) PROVE TypeOK'
  BY <1>6 DEF ReadFails
<1>7. ASSUME NEW c \in Calls, ApplyUpdater(c) PROVE TypeOK'
  BY <1>7 DEF ApplyUpdater
<1>8. ASSUME NEW c \in Calls, UpdaterThrows(c) PROVE TypeOK'
  BY <1>8 DEF UpdaterThrows
<1>9. ASSUME NEW c \in Calls, OpenTemp(c) PROVE TypeOK'
  BY <1>9 DEF OpenTemp
<1>10. ASSUME NEW c \in Calls, FillTemp(c) PROVE TypeOK'
  BY <1>10 DEF FillTemp
<1>11. ASSUME NEW c \in Calls, Rename(c) PROVE TypeOK'
  BY <1>11 DEF Rename, AfterRead
<1>12. ASSUME NEW c \in Calls, WriteFails(c) PROVE TypeOK'
  BY <1>12 DEF WriteFails
<1>13. ASSUME NEW p \in Procs, Crash(p) PROVE TypeOK'
  BY <1>13 DEF Crash
<1>14. CASE UNCHANGED vars
  BY <1>14 DEF vars
<1>15. QED
  BY <1>1, <1>2, <1>3, <1>4, <1>5, <1>6, <1>7, <1>8, <1>9, <1>10, <1>11,
     <1>12, <1>13, <1>14 DEF Next, Step

\* Every reachable state is well typed.
THEOREM TypeCorrect == Spec => []TypeOK
  BY TypeInit, TypeStep, PTL DEF Spec

-----------------------------------------------------------------------------
(* The queue.  Promises are resolved in the order they were made; a call   *)
(* in flight owns an unresolved promise nobody else owns; a running call's *)
(* predecessor is resolved.                                                *)
Resolved(p) == \A n \in resolved[p] :
                 n <= queue[p] /\ \A m \in 0..n : m \in resolved[p]

Holds(c) == pc[c] \in InFlight => /\ previous[c] < queue[ProcOf[c]]
                                  /\ Own(c) \notin resolved[ProcOf[c]]

Apart(c, d) == ProcOf[c] = ProcOf[d] /\ c # d
                 /\ pc[c] \in InFlight /\ pc[d] \in InFlight
               => previous[c] # previous[d]

QueueInv == /\ \A p \in Procs : Resolved(p)
            /\ \A c \in Calls : Holds(c)
            /\ \A c, d \in Calls : Apart(c, d)
            /\ \A c \in Calls : pc[c] \in Active => previous[c] \in resolved[ProcOf[c]]

LEMMA QueueInit == Init => QueueInv
  BY CallsAssumption DEF Init, QueueInv, Resolved, Holds, Apart

\* A step inside a task moves its call between active labels and leaves the
\* queue alone.
WithinTask(c) == /\ pc[c] \in Active
                 /\ \E label \in Active : pc' = [pc EXCEPT ![c] = label]
                 /\ UNCHANGED <<queue, resolved, previous>>

LEMMA TaskSteps ==
  ASSUME TypeOK, NEW c \in Calls,
         \/ ReadPresent(c) \/ ReadMissing(c) \/ ReadFails(c)
         \/ ApplyUpdater(c) \/ UpdaterThrows(c)
         \/ OpenTemp(c) \/ FillTemp(c) \/ Rename(c) \/ WriteFails(c)
  PROVE  WithinTask(c)
<1>1. CASE OpenTemp(c) \/ FillTemp(c)
  <2>1. pc' = [pc EXCEPT ![c] = pc[c]]
    BY <1>1 DEF OpenTemp, FillTemp, TypeOK
  <2>2. QED
    BY <1>1, <2>1 DEF OpenTemp, FillTemp, WithinTask
<1>2. CASE ~(OpenTemp(c) \/ FillTemp(c))
  BY <1>2 DEF WithinTask, ReadPresent, ReadMissing, ReadFails, ApplyUpdater,
              UpdaterThrows, Rename, WriteFails, AfterRead
<1>3. QED
  BY <1>1, <1>2

LEMMA QueueStep == TypeOK /\ QueueInv /\ [Next]_vars => QueueInv'
<1> SUFFICES ASSUME TypeOK, QueueInv, [Next]_vars PROVE QueueInv'
  OBVIOUS
<1> USE CallsAssumption DEF TypeOK
<1>1. ASSUME NEW c \in Calls, Enqueue(c) PROVE QueueInv'
  <2> USE <1>1 DEF Enqueue, QueueInv
  <2>1. ASSUME NEW p \in Procs PROVE Resolved(p)'
    BY <2>1 DEF Resolved
  <2>2. ASSUME NEW d \in Calls PROVE Holds(d)'
    BY <2>2 DEF Resolved, Holds
  <2>3. ASSUME NEW d \in Calls, NEW e \in Calls PROVE Apart(d, e)'
    BY <2>3 DEF Holds, Apart
  <2>4. QED
    BY <2>1, <2>2, <2>3
<1>2. ASSUME NEW c \in Calls, Begin(c) PROVE QueueInv'
  BY <1>2 DEF Begin, QueueInv, Resolved, Holds, Apart
<1>3. ASSUME NEW c \in Calls, Settle(c) PROVE QueueInv'
  <2> USE <1>3 DEF Settle, QueueInv
  <2>1. ASSUME NEW p \in Procs PROVE Resolved(p)'
    <3>1. CASE p = ProcOf[c]
      <4>1. Own(c) \in Nat /\ Own(c) <= queue[p] /\ previous[c] \in resolved[p]
        BY <3>1 DEF Holds
      <4>2. \A m \in 0..Own(c) : m \in resolved[p] \cup {Own(c)}
        <5>1. \A m \in 0..previous[c] : m \in resolved[p]
          BY <4>1 DEF Resolved
        <5>2. QED
          BY <4>1, <5>1
      <4>3. resolved'[p] = resolved[p] \cup {Own(c)}
        BY <3>1
      <4>4. QED
        BY <4>1, <4>2, <4>3 DEF Resolved
    <3>2. CASE p # ProcOf[c]
      BY <3>2 DEF Resolved
    <3>3. QED
      BY <3>1, <3>2
  <2>2. ASSUME NEW d \in Calls PROVE Holds(d)'
    BY <2>2 DEF Holds, Apart
  <2>3. ASSUME NEW d \in Calls, NEW e \in Calls PROVE Apart(d, e)'
    BY <2>3 DEF Apart
  <2>4. QED
    BY <2>1, <2>2, <2>3
<1>4. ASSUME NEW c \in Calls, WithinTask(c) PROVE QueueInv'
  BY <1>4 DEF WithinTask, QueueInv, Resolved, Holds, Apart
<1>5. ASSUME NEW p \in Procs, Crash(p) PROVE QueueInv'
  BY <1>5 DEF Crash, QueueInv, Resolved, Holds, Apart
<1>6. CASE UNCHANGED vars
  BY <1>6 DEF vars, QueueInv, Resolved, Holds, Apart
<1>7. QED
  BY <1>1, <1>2, <1>3, <1>4, <1>5, <1>6, TaskSteps DEF Next, Step

LEMMA QueueGivesTurns == TypeOK /\ QueueInv => TurnOrder
<1> SUFFICES ASSUME TypeOK, QueueInv, NEW c \in Calls, NEW d \in Calls,
                    ProcOf[c] = ProcOf[d], c # d,
                    pc[c] \in Active, pc[d] \in InFlight
             PROVE  previous[c] < previous[d]
  BY DEF TurnOrder
<1>1. previous[c] \in Nat /\ previous[d] \in Nat /\ ProcOf[d] \in Procs
  BY CallsAssumption DEF TypeOK
<1>2. previous[c] \in resolved[ProcOf[d]] /\ Own(d) \notin resolved[ProcOf[d]]
  BY DEF QueueInv, Holds
<1>3. ~(Own(d) <= previous[c])
  BY <1>1, <1>2 DEF QueueInv, Resolved
<1>4. previous[c] # previous[d]
  BY DEF QueueInv, Apart
<1>5. QED
  BY <1>1, <1>3, <1>4

\* In every process, whatever fails or restarts, one task runs at a time and
\* in the order of the calls (withLock).
THEOREM TurnsAreKept == Spec => []TurnOrder
<1>1. Init => QueueInv
  BY QueueInit
<1>2. TypeOK /\ QueueInv /\ [Next]_vars => QueueInv'
  BY QueueStep
<1>3. TypeOK /\ QueueInv => TurnOrder
  BY QueueGivesTurns
<1>4. QED
  BY <1>1, <1>2, <1>3, TypeCorrect, PTL DEF Spec

-----------------------------------------------------------------------------
(* Nobody waits for nothing.  A promise that is not resolved is the own    *)
(* promise of a call in flight; the least of them is that of a call whose  *)
(* predecessor is resolved.                                                *)

Owns(c, p, n) == ProcOf[c] = p /\ pc[c] \in InFlight /\ Own(c) = n

Owned(p) == /\ 0 \in resolved[p]
            /\ \A n \in 1..queue[p] : n \notin resolved[p] => \E c \in Calls : Owns(c, p, n)

OwnedInv == \A p \in Procs : Owned(p)

LEMMA OwnedInit == Init => OwnedInv
<1> SUFFICES ASSUME Init, NEW p \in Procs PROVE Owned(p)
  BY DEF OwnedInv
<1>1. resolved[p] = {0} /\ queue[p] = 0
  BY DEF Init
<1>2. QED
  BY <1>1 DEF Owned

LEMMA OwnedStep == TypeOK /\ OwnedInv /\ [Next]_vars => OwnedInv'
<1> SUFFICES ASSUME TypeOK, OwnedInv, [Next]_vars, NEW p \in Procs PROVE Owned(p)'
  BY DEF OwnedInv
<1> USE CallsAssumption DEF TypeOK
<1>0. Owned(p)
  BY DEF OwnedInv
<1>1. ASSUME NEW c \in Calls, Enqueue(c) PROVE Owned(p)'
  <2>1. ASSUME NEW n \in 1..queue'[p], n \notin resolved'[p]
        PROVE  \E d \in Calls : Owns(d, p, n)'
    <3>1. CASE ProcOf[c] = p /\ n = queue[p] + 1
      BY <1>1, <3>1 DEF Enqueue, Owns
    <3>2. CASE ~ (ProcOf[c] = p /\ n = queue[p] + 1)
      <4>1. n \in 1..queue[p] /\ n \notin resolved[p]
        BY <1>1, <2>1, <3>2 DEF Enqueue
      <4>2. PICK d \in Calls : Owns(d, p, n)
        BY <1>0, <4>1 DEF Owned
      <4>3. Owns(d, p, n)'
        BY <1>1, <4>2 DEF Enqueue, Owns
      <4>4. QED
        BY <4>3
    <3>3. QED
      BY <3>1, <3>2
  <2>2. QED
    BY <1>0, <1>1, <2>1 DEF Owned, Enqueue
<1>2. ASSUME NEW c \in Calls, Begin(c) \/ WithinTask(c) PROVE Owned(p)'
  <2>1. UNCHANGED <<queue, resolved, previous>>
    BY <1>2 DEF Begin, WithinTask
  <2>2. \A d \in Calls : pc[d] \in InFlight => pc'[d] \in InFlight
    BY <1>2 DEF Begin, WithinTask
  <2>3. ASSUME NEW n \in 1..queue[p], n \notin resolved[p]
        PROVE  \E d \in Calls : Owns(d, p, n)'
    <3>1. PICK d \in Calls : Owns(d, p, n)
      BY <1>0, <2>3 DEF Owned
    <3>2. Owns(d, p, n)'
      BY <2>1, <2>2, <3>1 DEF Owns
    <3>3. QED
      BY <3>2
  <2>4. QED
    BY <1>0, <2>1, <2>3 DEF Owned
<1>3. ASSUME NEW c \in Calls, Settle(c) PROVE Owned(p)'
  <2>1. ASSUME NEW n \in 1..queue[p], n \notin resolved'[p]
        PROVE  \E d \in Calls : Owns(d, p, n)'
    <3>1. PICK d \in Calls : Owns(d, p, n)
      BY <1>0, <1>3, <2>1 DEF Owned, Settle
    <3>2. d # c
      BY <1>3, <2>1, <3>1 DEF Settle, Owns
    <3>3. Owns(d, p, n)'
      BY <1>3, <3>1, <3>2 DEF Settle, Owns
    <3>4. QED
      BY <3>3
  <2>2. QED
    BY <1>0, <1>3, <2>1 DEF Owned, Settle
<1>4. ASSUME NEW q \in Procs, Crash(q) PROVE Owned(p)'
  <2>1. CASE p = q
    BY <1>4, <2>1 DEF Crash, Owned
  <2>2. CASE p # q
    <3>1. queue'[p] = queue[p] /\ resolved'[p] = resolved[p]
      BY <1>4, <2>2 DEF Crash
    <3>2. \A d \in Calls : ProcOf[d] = p => pc'[d] = pc[d] /\ previous'[d] = previous[d]
      BY <1>4, <2>2 DEF Crash
    <3>3. ASSUME NEW n \in 1..queue[p], n \notin resolved[p]
          PROVE  \E d \in Calls : Owns(d, p, n)'
      <4>1. PICK d \in Calls : Owns(d, p, n)
        BY <1>0, <3>3 DEF Owned
      <4>2. Owns(d, p, n)'
        BY <3>2, <4>1 DEF Owns
      <4>3. QED
        BY <4>2
    <3>4. QED
      BY <1>0, <3>1, <3>3 DEF Owned
  <2>3. QED
    BY <2>1, <2>2
<1>5. CASE UNCHANGED vars
  BY <1>0, <1>5 DEF vars, Owned, Owns
<1>6. QED
  BY <1>1, <1>2, <1>3, <1>4, <1>5, TaskSteps DEF Next, Step

\* The awaits of a running call are of I/O or of the updater, which return
\* by themselves; a waiting call goes on when its predecessor is resolved.
Runnable(c) == \/ pc[c] \in Active
               \/ pc[c] \in Waiting /\ previous[c] \in resolved[ProcOf[c]]

SomeoneCanRun == \A c \in Calls : pc[c] \in InFlight =>
  \E d \in Calls : /\ ProcOf[d] = ProcOf[c] /\ previous[d] <= previous[c]
                   /\ Runnable(d)

LEMMA LeastNumber ==
  ASSUME NEW T \in SUBSET Nat, T # {}
  PROVE  \E m \in T : \A k \in T : m <= k
<1>1. PICK m \in T : \A k \in T : ~ (<<k, m>> \in OpToRel(<, Nat))
  BY NatLessThanWellFounded, WFMin
<1>2. \A k \in T : ~ (k < m)
  BY <1>1 DEF OpToRel
<1>3. QED
  BY <1>2

LEMMA OwnedRun == TypeOK /\ QueueInv /\ OwnedInv => SomeoneCanRun
<1> SUFFICES ASSUME TypeOK, QueueInv, OwnedInv, NEW c \in Calls, pc[c] \in InFlight
             PROVE  \E d \in Calls : /\ ProcOf[d] = ProcOf[c]
                                     /\ previous[d] <= previous[c]
                                     /\ Runnable(d)
  BY DEF SomeoneCanRun
<1> DEFINE p == ProcOf[c]
           T == {n \in 1..queue[p] : n \notin resolved[p]}
<1>1. p \in Procs /\ previous[c] \in Nat /\ queue[p] \in Nat
  BY CallsAssumption DEF TypeOK
<1>2. Own(c) \in T
  BY <1>1 DEF QueueInv, Holds
<1>3. PICK m \in T : \A k \in T : m <= k
  <2>1. T \in SUBSET Nat
    BY <1>1
  <2>2. QED
    BY <1>2, <2>1, LeastNumber
<1>4. PICK d \in Calls : Owns(d, p, m)
  BY <1>1 DEF OwnedInv, Owned
<1>5. previous[d] \in Nat /\ previous[d] = m - 1
  BY <1>4 DEF TypeOK, Owns
<1>6. previous[d] \in resolved[p]
  <2>1. CASE m = 1
    BY <1>1, <1>5, <2>1 DEF OwnedInv, Owned
  <2>2. CASE m # 1
    <3>1. m - 1 \in 1..queue[p] /\ m - 1 \notin T
      BY <1>1, <1>3, <2>2
    <3>2. QED
      BY <1>5, <3>1
  <2>3. QED
    BY <2>1, <2>2
<1>7. previous[d] <= previous[c]
  BY <1>1, <1>2, <1>3, <1>5
<1>8. Runnable(d)
  BY <1>4, <1>6 DEF Runnable, Owns
<1>9. QED
  BY <1>4, <1>7, <1>8 DEF Owns

\* While a call is in flight, it or one before it in the queue of its process
\* can go on: whatever failed, no call awaits a promise that nobody is going
\* to resolve (the finally of withLock).
THEOREM QueueNeverStalls == Spec => []SomeoneCanRun
<1>1. Init => QueueInv /\ OwnedInv
  BY QueueInit, OwnedInit
<1>2. TypeOK /\ QueueInv /\ OwnedInv /\ [Next]_vars => QueueInv' /\ OwnedInv'
  BY QueueStep, OwnedStep
<1>3. TypeOK /\ QueueInv /\ OwnedInv => SomeoneCanRun
  BY OwnedRun
<1>4. QED
  BY <1>1, <1>2, <1>3, TypeCorrect, PTL DEF Spec

(* How many steps a call has left at most.  Only its own steps take from   *)
(* it, and each of them does; nothing adds to it.                          *)

WritesLeft(c) == IF temp[c] = Missing THEN 2 ELSE IF temp[c] = Torn THEN 1 ELSE 0

Left(c) == CASE pc[c] = "waiting"  -> 10
             [] pc[c] = "reading"  -> 9
             [] pc[c] = "seeding"  -> 6 + WritesLeft(c)
             [] pc[c] = "updating" -> 5
             [] pc[c] = "writing"  -> 2 + WritesLeft(c)
             [] pc[c] \in {"settling", "failing"} -> 1
             [] OTHER -> 0

StepTakes(c) == /\ Step(c) => Left(c)' < Left(c)
                /\ ~ Enqueue(c) => Left(c)' <= Left(c)

LEMMA LeftBounds == ASSUME NEW c \in Calls PROVE Left(c) \in 0..10
  BY DEF Left, WritesLeft

LEMMA OwnStepTakes ==
  ASSUME TypeOK, NEW c \in Calls, Step(c)
  PROVE  Left(c)' < Left(c)
<1> USE MarkersAssumption DEF TypeOK, Left, WritesLeft
<1>1. CASE Begin(c)
  BY <1>1 DEF Begin
<1>2. CASE Settle(c)
  BY <1>2 DEF Settle
<1>3. CASE ReadPresent(c)
  BY <1>3 DEF ReadPresent, AfterRead
<1>4. CASE ReadMissing(c) \/ ReadFails(c)
  BY <1>4 DEF ReadMissing, ReadFails
<1>5. CASE ApplyUpdater(c) \/ UpdaterThrows(c)
  BY <1>5 DEF ApplyUpdater, UpdaterThrows
<1>6. CASE OpenTemp(c)
  BY <1>6 DEF OpenTemp
<1>7. CASE FillTemp(c)
  BY <1>7 DEF FillTemp
<1>8. CASE Rename(c)
  BY <1>8 DEF Rename, AfterRead
<1>9. CASE WriteFails(c)
  BY <1>9 DEF WriteFails
<1>10. QED
  BY <1>1, <1>2, <1>3, <1>4, <1>5, <1>6, <1>7, <1>8, <1>9 DEF Step

\* Whoever else runs, the label and the temporary file of c stay, or c is lost.
LEMMA OthersLeave ==
  ASSUME TypeOK, [Next]_vars, NEW c \in Calls, ~ Enqueue(c), ~ Step(c)
  PROVE  Left(c)' <= Left(c)
<1>1. (pc'[c] = pc[c] /\ temp'[c] = temp[c]) \/ pc'[c] = "lost"
  <2> USE DEF TypeOK
  <2>1. ASSUME NEW d \in Calls, d # c, Enqueue(d) \/ Step(d)
        PROVE  pc'[c] = pc[c] /\ temp'[c] = temp[c]
    <3>1. CASE Enqueue(d) \/ Begin(d) \/ Settle(d)
      BY <2>1, <3>1 DEF Enqueue, Begin, Settle
    <3>2. CASE ReadPresent(d) \/ ReadMissing(d) \/ ReadFails(d)
      BY <2>1, <3>2 DEF ReadPresent, ReadMissing, ReadFails
    <3>3. CASE ApplyUpdater(d) \/ UpdaterThrows(d) \/ WriteFails(d)
      BY <2>1, <3>3 DEF ApplyUpdater, UpdaterThrows, WriteFails
    <3>4. CASE OpenTemp(d) \/ FillTemp(d) \/ Rename(d)
      BY <2>1, <3>4 DEF OpenTemp, FillTemp, Rename
    <3>5. QED
      BY <2>1, <3>1, <3>2, <3>3, <3>4 DEF Step
  <2>2. ASSUME NEW p \in Procs, Crash(p)
        PROVE  (pc'[c] = pc[c] /\ temp'[c] = temp[c]) \/ pc'[c] = "lost"
    BY <2>2 DEF Crash
  <2>3. CASE UNCHANGED vars
    BY <2>3 DEF vars
  <2>4. QED
    BY <2>1, <2>2, <2>3 DEF Next
<1>2. CASE pc'[c] = pc[c] /\ temp'[c] = temp[c]
  <2>1. Left(c)' = Left(c)
    BY <1>2 DEF Left, WritesLeft
  <2>2. QED
    BY <2>1, LeftBounds
<1>3. CASE pc'[c] = "lost"
  <2>1. Left(c)' = 0
    BY <1>3 DEF Left
  <2>2. QED
    BY <2>1, LeftBounds
<1>4. QED
  BY <1>1, <1>2, <1>3

\* A call is settled after at most ten steps of its own once it is in the
\* queue, whatever the other calls do between them: with QueueNeverStalls, a
\* call that does not settle has one before it that never takes a step it could.
THEOREM CallsRunOut == Spec => [][\A c \in Calls : StepTakes(c)]_vars
<1>1. ASSUME TypeOK, [Next]_vars, NEW c \in Calls PROVE StepTakes(c)
  <2>1. CASE Step(c)
    <3>1. Left(c)' < Left(c)
      BY <1>1, <2>1, OwnStepTakes
    <3>2. Left(c)' \in 0..10
      BY DEF Left, WritesLeft
    <3>3. QED
      BY <3>1, <3>2, LeftBounds DEF StepTakes
  <2>2. CASE ~ Step(c)
    BY <1>1, <2>2, OthersLeave DEF StepTakes
  <2>3. QED
    BY <2>1, <2>2
<1>2. TypeOK /\ [Next]_vars => [\A c \in Calls : StepTakes(c)]_vars
  BY <1>1
<1>3. QED
  BY <1>2, TypeCorrect, PTL DEF Spec

-----------------------------------------------------------------------------
(* Whole states. *)

WholeInv == /\ file # Torn
            /\ \A c \in Calls :
                 pc[c] \in {"seeding", "updating", "writing", "settling", "done"}
                   => Defaults \subseteq local[c]

LEMMA WholeInit == Init => WholeInv
  BY MarkersAssumption DEF Init, WholeInv, Contents

LEMMA WholeStep == TypeOK /\ WholeInv /\ [Next]_vars => WholeInv'
<1> SUFFICES ASSUME TypeOK, WholeInv, [Next]_vars PROVE WholeInv'
  OBVIOUS
<1> USE DEF TypeOK, WholeInv
<1>1. ASSUME NEW c \in Calls, Enqueue(c) \/ Settle(c) PROVE WholeInv'
  BY <1>1 DEF Enqueue, Settle
<1>2. ASSUME NEW c \in Calls, Begin(c) PROVE WholeInv'
  BY <1>2 DEF Begin
<1>3. ASSUME NEW c \in Calls, ReadPresent(c) \/ ReadMissing(c) \/ ReadFails(c)
      PROVE WholeInv'
  BY <1>3 DEF ReadPresent, ReadMissing, ReadFails, AfterRead, MergeWithDefaults
<1>4. ASSUME NEW c \in Calls, ApplyUpdater(c) \/ UpdaterThrows(c) PROVE WholeInv'
  BY <1>4 DEF ApplyUpdater, UpdaterThrows
<1>5. ASSUME NEW c \in Calls, OpenTemp(c) \/ FillTemp(c) \/ WriteFails(c)
      PROVE WholeInv'
  BY <1>5 DEF OpenTemp, FillTemp, WriteFails
<1>6. ASSUME NEW c \in Calls, Rename(c) PROVE WholeInv'
  BY <1>6 DEF Rename, AfterRead
<1>7. ASSUME NEW p \in Procs, Crash(p) PROVE WholeInv'
  BY <1>7 DEF Crash
<1>8. CASE UNCHANGED vars
  BY <1>8 DEF vars
<1>9. QED
  BY <1>1, <1>2, <1>3, <1>4, <1>5, <1>6, <1>7, <1>8 DEF Next, Step

\* The state file is always absent or a whole state, and what a call works on
\* or returns has every collection (writeUnlocked, mergeWithDefaults).
THEOREM StatesAreWhole == Spec => []WholeStates
<1>1. TypeOK /\ WholeInv => WholeStates
  BY DEF WholeInv, WholeStates
<1>2. QED
  BY <1>1, WholeInit, WholeStep, TypeCorrect, PTL DEF Spec

-----------------------------------------------------------------------------
(* One writing process: JsonFileStore implements AtomicStore. *)

SingleProcess == \A p, q \in Procs : p = q

\* Other processes may read the file, and only read it.
WritersShareProcess ==
  \A c, d \in Calls : Kind[c] # "read" /\ Kind[d] # "read" => ProcOf[c] = ProcOf[d]

\* A read that finds no file writes one: it may, when no other process has
\* the file open.
Present == SingleProcess \/ file # Missing

\* What a running call holds, related to the state it is about to replace.
TaskInv == \A c \in Calls :
  /\ pc[c] \in {"idle", "waiting", "reading", "updating"} => temp[c] = Missing
  /\ pc[c] \in {"reading", "seeding"} => Kind[c] # "replace"
  /\ pc[c] = "seeding"  => file = Missing /\ local[c] = Defaults
  /\ pc[c] = "updating" => Kind[c] = "update" /\ local[c] = AbstractValue
  /\ pc[c] = "writing"  => /\ Kind[c] # "read"
                           /\ local[c] = Atomic!Outcome(c, AbstractValue)
  /\ pc[c] \in {"seeding", "writing"} => temp[c] \in {Missing, Torn, local[c]}

\* A call that depends on the state of the file until it has replaced it.
Replacing(c) == pc[c] \in {"seeding", "updating", "writing"}

\* One call at a time is replacing the file.
LEMMA Alone ==
  ASSUME WritersShareProcess, TypeOK, TurnOrder, Present, TaskInv,
         NEW c \in Calls, NEW d \in Calls, c # d, Replacing(c)
  PROVE  ~ Replacing(d)
<1>1. SUFFICES ASSUME Replacing(d) PROVE FALSE
  OBVIOUS
<1>2. ProcOf[c] = ProcOf[d]
  <2>1. CASE SingleProcess
    BY <2>1, CallsAssumption DEF SingleProcess
  <2>2. CASE file # Missing
    <3>1. Kind[c] # "read" /\ Kind[d] # "read"
      BY <1>1, <2>2 DEF Replacing, TaskInv
    <3>2. QED
      BY <3>1 DEF WritersShareProcess
  <2>3. QED
    BY <2>1, <2>2 DEF Present
<1>3. previous[c] \in Nat /\ previous[d] \in Nat
  BY DEF TypeOK
<1>4. QED
  BY <1>1, <1>2, <1>3 DEF TurnOrder, Replacing

LEMMA TaskInit == Init => TaskInv
  BY DEF Init, TaskInv

LEMMA TaskStep ==
  ASSUME WritersShareProcess, TypeOK, WholeInv, TurnOrder, Present, TaskInv,
         [Next]_vars
  PROVE  TaskInv'
<1> USE CallsAssumption, MarkersAssumption
    DEF TypeOK, WholeInv, TaskInv, AbstractValue, MergeWithDefaults,
        Atomic!Outcome, Contents
<1>1. ASSUME NEW c \in Calls, Enqueue(c) PROVE TaskInv'
  BY <1>1 DEF Enqueue
<1>2. ASSUME NEW c \in Calls, Begin(c) PROVE TaskInv'
  <2>1. CASE Kind[c] = "replace"
    BY <1>2, <2>1 DEF Begin
  <2>2. CASE Kind[c] # "replace"
    BY <1>2, <2>2 DEF Begin
  <2>3. QED
    BY <2>1, <2>2
<1>3. ASSUME NEW c \in Calls, Settle(c) PROVE TaskInv'
  BY <1>3 DEF Settle
<1>4. ASSUME NEW c \in Calls, ReadPresent(c) PROVE TaskInv'
  BY <1>4 DEF ReadPresent, AfterRead
<1>5. ASSUME NEW c \in Calls, ReadMissing(c) PROVE TaskInv'
  BY <1>5 DEF ReadMissing
<1>6. ASSUME NEW c \in Calls, ReadFails(c) PROVE TaskInv'
  BY <1>6 DEF ReadFails
<1>7. ASSUME NEW c \in Calls, ApplyUpdater(c) PROVE TaskInv'
  BY <1>7 DEF ApplyUpdater
<1>8. ASSUME NEW c \in Calls, UpdaterThrows(c) \/ WriteFails(c) PROVE TaskInv'
  <2>1. CASE UpdaterThrows(c)
    BY <2>1 DEF UpdaterThrows
  <2>2. CASE WriteFails(c)
    BY <2>2 DEF WriteFails
  <2>3. QED
    BY <1>8, <2>1, <2>2
<1>9. ASSUME NEW c \in Calls, OpenTemp(c) \/ FillTemp(c) PROVE TaskInv'
  <2>1. CASE OpenTemp(c)
    BY <2>1 DEF OpenTemp
  <2>2. CASE FillTemp(c)
    BY <2>2 DEF FillTemp
  <2>3. QED
    BY <1>9, <2>1, <2>2
<1>10. ASSUME NEW c \in Calls, Rename(c) PROVE TaskInv'
  <2>1. \A d \in Calls : d # c => ~ Replacing(d)
    BY <1>10, Alone DEF Rename, Replacing
  <2>2. QED
    BY <1>10, <2>1 DEF Rename, AfterRead, Replacing
<1>11. ASSUME NEW p \in Procs, Crash(p) PROVE TaskInv'
  BY <1>11 DEF Crash
<1>12. CASE UNCHANGED vars
  BY <1>12 DEF vars
<1>13. QED
  BY <1>1, <1>2, <1>3, <1>4, <1>5, <1>6, <1>7, <1>8, <1>9, <1>10, <1>11, <1>12
     DEF Next, Step

\* The file, once there, stays.
LEMMA PresentStep ==
  ASSUME TypeOK, Present, [Next]_vars
  PROVE  Present'
<1>1. CASE SingleProcess
  BY <1>1 DEF Present, SingleProcess
<1>2. ASSUME NEW c \in Calls, Rename(c) PROVE file' # Missing
  BY <1>2 DEF Rename
<1>3. ASSUME file' # file PROVE \E c \in Calls : Rename(c)
  BY <1>3 DEF vars, Next, Step, Enqueue, Begin, Settle, ReadPresent, ReadMissing,
              ReadFails, ApplyUpdater, UpdaterThrows, OpenTemp, FillTemp,
              WriteFails, Crash
<1>4. QED
  BY <1>1, <1>2, <1>3 DEF Present

LEMMA RefinesInit == Init => Atomic!Init
  BY MarkersAssumption
     DEF Init, Atomic!Init, AbstractValue, AbstractStatus, AbstractResult,
         MergeWithDefaults, Contents

LEMMA RefinesStep ==
  ASSUME TypeOK, WholeInv, TaskInv, [Next]_vars
  PROVE  [Atomic!Next]_(Atomic!vars)
<1> USE CallsAssumption, MarkersAssumption
    DEF TypeOK, WholeInv, AbstractValue, AbstractStatus, AbstractResult,
        MergeWithDefaults, Contents, Atomic!vars
<1>1. ASSUME NEW c \in Calls, Enqueue(c) PROVE Atomic!Invoke(c)
  BY <1>1 DEF Enqueue, Atomic!Invoke
<1>2. ASSUME NEW c \in Calls, Begin(c) PROVE UNCHANGED Atomic!vars
  BY <1>2 DEF Begin
<1>3. ASSUME NEW c \in Calls, Settle(c) PROVE Atomic!Respond(c) \/ Atomic!Reject(c)
  BY <1>3 DEF Settle, Atomic!Respond, Atomic!Reject
<1>4. ASSUME NEW c \in Calls, ReadPresent(c)
      PROVE Atomic!Effect(c) \/ UNCHANGED Atomic!vars
  <2>1. CASE Kind[c] = "update"
    BY <1>4, <2>1 DEF ReadPresent, AfterRead
  <2>2. CASE Kind[c] # "update"
    <3>1. Kind[c] = "read"
      BY <1>4, <2>2 DEF ReadPresent, TaskInv
    <3>2. QED
      BY <1>4, <3>1 DEF ReadPresent, AfterRead, Atomic!Effect, Atomic!Outcome
  <2>3. QED
    BY <2>1, <2>2
<1>5. ASSUME NEW c \in Calls, \/ ReadMissing(c) \/ ReadFails(c) \/ ApplyUpdater(c)
                              \/ UpdaterThrows(c) \/ OpenTemp(c) \/ FillTemp(c)
                              \/ WriteFails(c)
      PROVE UNCHANGED Atomic!vars
  \* A call under way goes on, with no result yet.
  <2>0. ASSUME NEW label \in {"seeding", "writing", "failing"},
               pc[c] \in {"reading", "updating", "seeding", "writing"},
               pc' = [pc EXCEPT ![c] = label], UNCHANGED file,
               \A d \in Calls \ {c} : local'[d] = local[d]
        PROVE  UNCHANGED Atomic!vars
    <3>1. pc'[c] = label /\ \A d \in Calls \ {c} : pc'[d] = pc[d]
      BY <2>0
    <3>2. AbstractStatus' = AbstractStatus
      <4>1. \A d \in Calls : AbstractStatus[d]' = AbstractStatus[d]
        BY <2>0, <3>1 DEF Settled
      <4>2. QED
        BY <4>1
    <3>3. AbstractResult' = AbstractResult
      BY <2>0, <3>1
    <3>4. QED
      BY <2>0, <3>2, <3>3
  <2>1. CASE ReadMissing(c) \/ ReadFails(c)
    <3>1. PICK label \in {"seeding", "failing"} :
            /\ pc[c] = "reading" /\ pc' = [pc EXCEPT ![c] = label] /\ UNCHANGED file
            /\ \A d \in Calls \ {c} : local'[d] = local[d]
      BY <2>1 DEF ReadMissing, ReadFails, Goto
    <3>2. QED
      BY <2>0, <3>1
  <2>2. CASE ApplyUpdater(c) \/ UpdaterThrows(c)
    <3>1. PICK label \in {"writing", "failing"} :
            /\ pc[c] = "updating" /\ pc' = [pc EXCEPT ![c] = label] /\ UNCHANGED file
            /\ \A d \in Calls \ {c} : local'[d] = local[d]
      BY <2>2 DEF ApplyUpdater, UpdaterThrows, Goto
    <3>2. QED
      BY <2>0, <3>1
  <2>3. CASE OpenTemp(c) \/ FillTemp(c)
    <3>1. UNCHANGED <<file, local, pc>>
      BY <2>3 DEF OpenTemp, FillTemp
    <3>2. QED
      BY <3>1
  <2>4. CASE WriteFails(c)
    <3>1. /\ pc[c] \in {"seeding", "writing"} /\ pc' = [pc EXCEPT ![c] = "failing"]
          /\ UNCHANGED <<file, local>>
      BY <2>4 DEF WriteFails, Goto
    <3>2. QED
      BY <2>0, <3>1
  <2>5. QED
    BY <1>5, <2>1, <2>2, <2>3, <2>4
<1>6. ASSUME NEW c \in Calls, Rename(c)
      PROVE Atomic!Effect(c) \/ UNCHANGED Atomic!vars
  <2>1. temp[c] = local[c] /\ Defaults \subseteq local[c] /\ file' = local[c]
    BY <1>6 DEF Rename, TaskInv
  <2>2. AbstractValue' = local[c]
    BY <2>1
  <2>3. CASE pc[c] = "writing"
    <3>1. local[c] = Atomic!Outcome(c, AbstractValue)
      BY <2>3 DEF TaskInv
    <3>2. QED
      BY <1>6, <2>2, <2>3, <3>1 DEF Rename, Atomic!Effect
  <2>4. CASE pc[c] = "seeding"
    <3>1. AbstractValue = Defaults /\ local[c] = Defaults /\ Kind[c] # "replace"
      BY <2>4 DEF TaskInv
    <3>2. CASE Kind[c] = "update"
      BY <1>6, <2>2, <2>4, <3>1, <3>2 DEF Rename, AfterRead
    <3>3. CASE Kind[c] = "read"
      BY <1>6, <2>2, <2>4, <3>1, <3>3
         DEF Rename, AfterRead, Atomic!Effect, Atomic!Outcome
    <3>4. QED
      BY <3>1, <3>2, <3>3
  <2>5. QED
    BY <1>6, <2>3, <2>4 DEF Rename
<1>7. ASSUME NEW p \in Procs, Crash(p) PROVE \E S \in SUBSET Calls : Atomic!Lose(S)
  <2> DEFINE lost == {c \in Calls : ProcOf[c] = p /\ pc[c] \in InFlight}
  <2>1. lost \in SUBSET Calls
    OBVIOUS
  <2>2. Atomic!Lose(lost)
    BY <1>7 DEF Crash, Atomic!Lose
  <2>3. QED
    BY <2>1, <2>2 DEF Atomic!Lose
<1>8. CASE UNCHANGED vars
  BY <1>8 DEF vars
<1>9. QED
  BY <1>1, <1>2, <1>3, <1>4, <1>5, <1>6, <1>7, <1>8 DEF Next, Step, Atomic!Next

\* When one process writes the file, and others only read it once it is
\* there, the store is an atomic store: every call that is answered took
\* effect once, between call and answer, a rejected one never did, and no
\* update is lost (withLock with readUnlocked, the updater and writeUnlocked
\* inside it).
THEOREM StoreIsLinearizable ==
  ASSUME WritersShareProcess
  PROVE  Spec /\ Present => Linearizable
<1>1. Init => TaskInv /\ Atomic!Init
  BY TaskInit, RefinesInit
<1>2. TypeOK /\ WholeInv /\ TurnOrder /\ Present /\ TaskInv /\ [Next]_vars => TaskInv'
  BY TaskStep
<1>3. TypeOK /\ Present /\ [Next]_vars => Present'
  BY PresentStep
<1>4. TypeOK /\ WholeInv /\ TaskInv /\ [Next]_vars => [Atomic!Next]_(Atomic!vars)
  BY RefinesStep
<1>5. QED
  BY <1>1, <1>2, <1>3, <1>4, TypeCorrect, TurnsAreKept, WholeInit, WholeStep, PTL
     DEF Spec, Linearizable, Atomic!Spec

\* So it is when one process alone has the file, present or not.
COROLLARY OneProcessIsLinearizable ==
  ASSUME SingleProcess
  PROVE  Spec => Linearizable
<1>1. WritersShareProcess
  BY CallsAssumption DEF SingleProcess, WritersShareProcess
<1>2. Present
  BY DEF Present
<1>3. QED
  BY <1>1, <1>2, StoreIsLinearizable, PTL

=============================================================================
