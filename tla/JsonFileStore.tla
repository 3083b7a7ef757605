--------------------------- MODULE JsonFileStore ---------------------------
(***************************************************************************)
(* packages/storage/src/json-file-store.ts: the store every repository of  *)
(* the running program is built on.  A process has one JsonFileStore: its  *)
(* promise queue serializes the calls of that process and nothing          *)
(* serializes processes that share the file.  The body of a call is the    *)
(* sequence of its awaits; another call, of this process or of another,    *)
(* may run between any two of them.                                        *)
(***************************************************************************)
EXTENDS Integers

CONSTANTS Procs,    \* processes that have the file open
          Calls,    \* calls of read(), update() and replace()
          ProcOf,   \* ProcOf[c]: the process that makes call c
          Kind,     \* Kind[c]: "read", "update" or "replace"
          Defaults, \* the top-level collections of the default value
          Missing,  \* no file of that name
          Torn,     \* a file whose writing has begun and not ended
          NoResult

ASSUME CallsAssumption == /\ ProcOf \in [Calls -> Procs]
                          /\ Kind \in [Calls -> {"read", "update", "replace"}]
                          /\ Calls \cap Defaults = {}

Contents == SUBSET (Defaults \cup Calls)

ASSUME MarkersAssumption == /\ Missing # Torn
                            /\ Missing \notin Contents
                            /\ Torn \notin Contents
                            /\ NoResult \notin Contents

VARIABLES file,     \* what the state file holds
          temp,     \* temp[c]: what the temporary file of c holds
          queue,    \* queue[p]: the number of the promise in this.queue
          resolved, \* resolved[p]: the numbers of the promises resolved
          previous, \* previous[c]: the promise c awaits
          local,    \* local[c]: current, then next
          pc        \* pc[c]: the await c is at

vars == <<file, temp, queue, resolved, previous, local, pc>>

Waiting  == {"waiting"}
Active   == {"reading", "seeding", "updating", "writing", "settling", "failing"}
InFlight == Waiting \cup Active
Settled  == {"done", "failed", "lost"}

Goto(c, label) == pc' = [pc EXCEPT ![c] = label]

\* { ...defaultValue, ...value }: the collections an older file lacks come
\* from the default.
MergeWithDefaults(v) == Defaults \cup v

Init == /\ file \in {Missing} \cup SUBSET Defaults
        /\ temp = [c \in Calls |-> Missing]
        /\ queue = [p \in Procs |-> 0]
        /\ resolved = [p \in Procs |-> {0}]
        /\ previous = [c \in Calls |-> 0]
        /\ local = [c \in Calls |-> {}]
        /\ pc = [c \in Calls |-> "idle"]

-----------------------------------------------------------------------------
(* withLock *)

\* Mutant of Enqueue: the call awaits the tail but does not become it.
EnqueueNotLinked(c) == /\ pc[c] = "idle"
                       /\ previous' = [previous EXCEPT ![c] = queue[ProcOf[c]]]
                       /\ Goto(c, "waiting")
                       /\ UNCHANGED <<file, temp, queue, resolved, local>>

\* The synchronous head of withLock: takes the tail of the queue as its
\* predecessor and puts a new promise, the next number, in its place.
Enqueue(c) == /\ pc[c] = "idle"
              /\ previous' = [previous EXCEPT ![c] = queue[ProcOf[c]]]
              /\ queue' = [queue EXCEPT ![ProcOf[c]] = @ + 1]
              /\ Goto(c, "waiting")
              /\ UNCHANGED <<file, temp, resolved, local>>

\* Mutant of Own: release() resolves the promise before the one awaited.
OwnBehind(c) == previous[c] - 1

\* The promise c put in the queue, which its release() resolves.
Own(c) == previous[c] + 1

\* Mutant of Begin: the task does not await its predecessor.
BeginAtOnce(c) == /\ pc[c] = "waiting"
                  /\ Goto(c, IF Kind[c] = "replace" THEN "writing" ELSE "reading")
                  /\ local' = [local EXCEPT ![c] = Defaults \cup {c}]
                  /\ UNCHANGED <<file, temp, queue, resolved, previous>>

\* `await previous` returns and the task starts.
Begin(c) == /\ pc[c] = "waiting"
            /\ previous[c] \in resolved[ProcOf[c]]
            /\ IF Kind[c] = "replace"
                 THEN /\ local' = [local EXCEPT ![c] = Defaults \cup {c}]
                      /\ Goto(c, "writing")
                 ELSE /\ Goto(c, "reading")
                      /\ UNCHANGED local
            /\ UNCHANGED <<file, temp, queue, resolved, previous>>

\* Mutant of Settle: release() after the task instead of in a finally.
SettleOnSuccess(c) == /\ pc[c] = "settling"
                      /\ resolved' = [resolved EXCEPT ![ProcOf[c]] = @ \cup {Own(c)}]
                      /\ Goto(c, "done")
                      /\ UNCHANGED <<file, temp, queue, previous, local>>

\* The finally block: the promise is resolved whether the task returned or
\* threw.
Settle(c) == /\ pc[c] \in {"settling", "failing"}
             /\ resolved' = [resolved EXCEPT ![ProcOf[c]] = @ \cup {Own(c)}]
             /\ Goto(c, IF pc[c] = "settling" THEN "done" ELSE "failed")
             /\ UNCHANGED <<file, temp, queue, previous, local>>

-----------------------------------------------------------------------------
(* readUnlocked *)

\* Where a call goes on with the state readUnlocked returned.
AfterRead(c) == IF Kind[c] = "update" THEN "updating" ELSE "settling"

ReadPresent(c) == /\ pc[c] = "reading"
                  /\ file \notin {Missing, Torn}
                  /\ local' = [local EXCEPT ![c] = MergeWithDefaults(file)]
                  /\ Goto(c, AfterRead(c))
                  /\ UNCHANGED <<file, temp, queue, resolved, previous>>

\* ENOENT: the default value is written before it is returned.
ReadMissing(c) == /\ pc[c] = "reading"
                  /\ file = Missing
                  /\ local' = [local EXCEPT ![c] = Defaults]
                  /\ Goto(c, "seeding")
                  /\ UNCHANGED <<file, temp, queue, resolved, previous>>

\* Any other error of readFile, and the SyntaxError of a torn file.
ReadFails(c) == /\ pc[c] = "reading"
                /\ Goto(c, "failing")
                /\ UNCHANGED <<file, temp, queue, resolved, previous, local>>

-----------------------------------------------------------------------------
(* The updater and writeUnlocked *)

ApplyUpdater(c) == /\ pc[c] = "updating"
                   /\ local' = [local EXCEPT ![c] = @ \cup {c}]
                   /\ Goto(c, "writing")
                   /\ UNCHANGED <<file, temp, queue, resolved, previous>>

UpdaterThrows(c) == /\ pc[c] = "updating"
                    /\ Goto(c, "failing")
                    /\ UNCHANGED <<file, temp, queue, resolved, previous, local>>

OpenTemp(c) == /\ pc[c] \in {"seeding", "writing"}
               /\ temp[c] = Missing
               /\ temp' = [temp EXCEPT ![c] = Torn]
               /\ UNCHANGED <<file, queue, resolved, previous, local, pc>>

FillTemp(c) == /\ pc[c] \in {"seeding", "writing"}
               /\ temp[c] = Torn
               /\ temp' = [temp EXCEPT ![c] = local[c]]
               /\ UNCHANGED <<file, queue, resolved, previous, local, pc>>

\* Mutant of Rename: the rename does not await the end of writeFile.
RenameEarly(c) == /\ pc[c] \in {"seeding", "writing"}
                  /\ temp[c] # Missing
                  /\ file' = temp[c]
                  /\ temp' = [temp EXCEPT ![c] = Missing]
                  /\ Goto(c, IF pc[c] = "seeding" THEN AfterRead(c) ELSE "settling")
                  /\ UNCHANGED <<queue, resolved, previous, local>>

Rename(c) == /\ pc[c] \in {"seeding", "writing"}
             /\ temp[c] \notin {Missing, Torn}
             /\ file' = temp[c]
             /\ temp' = [temp EXCEPT ![c] = Missing]
             /\ Goto(c, IF pc[c] = "seeding" THEN AfterRead(c) ELSE "settling")
             /\ UNCHANGED <<queue, resolved, previous, local>>

\* mkdir, writeFile or rename rejects; the temporary file stays behind.
WriteFails(c) == /\ pc[c] \in {"seeding", "writing"}
                 /\ Goto(c, "failing")
                 /\ UNCHANGED <<file, temp, queue, resolved, previous, local>>

-----------------------------------------------------------------------------
\* The process ends and is started again: its calls are lost, the new
\* process has a new store, and the files are as they were.
Crash(p) ==
  LET lost == {c \in Calls : ProcOf[c] = p /\ pc[c] \in InFlight} IN
  /\ pc' = [c \in Calls |-> IF c \in lost THEN "lost" ELSE pc[c]]
  /\ local' = [c \in Calls |-> IF c \in lost THEN {} ELSE local[c]]
  /\ previous' = [c \in Calls |-> IF c \in lost THEN 0 ELSE previous[c]]
  /\ queue' = [queue EXCEPT ![p] = 0]
  /\ resolved' = [resolved EXCEPT ![p] = {0}]
  /\ UNCHANGED <<file, temp>>

Step(c) == \/ Begin(c) \/ Settle(c)
           \/ ReadPresent(c) \/ ReadMissing(c) \/ ReadFails(c)
           \/ ApplyUpdater(c) \/ UpdaterThrows(c)
           \/ OpenTemp(c) \/ FillTemp(c) \/ Rename(c) \/ WriteFails(c)

Next == \/ \E c \in Calls : Enqueue(c) \/ Step(c)
        \/ \E p \in Procs : Crash(p)

\* An await of a settled promise, of an I/O operation or of the updater
\* returns in the end; nobody has to make a call and no process has to crash.
Fairness == \A c \in Calls : WF_vars(Step(c))

Spec == Init /\ [][Next]_vars
FairSpec == Spec /\ Fairness

-----------------------------------------------------------------------------
\* The file holds a state, nothing or a torn write; places are in the queue.
TypeOK == /\ file \in Contents \cup {Missing, Torn}
          /\ temp \in [Calls -> Contents \cup {Missing, Torn}]
          /\ queue \in [Procs -> Nat]
          /\ resolved \in [Procs -> SUBSET Nat]
          /\ previous \in [Calls -> Nat]
          /\ local \in [Calls -> Contents]
          /\ pc \in [Calls -> {"idle"} \cup InFlight \cup Settled]

\* The queue of a process runs one task at a time and in the order of the
\* calls: while c runs, every other call of its process that is not settled
\* was made after c (withLock, through failures of tasks and restarts).
TurnOrder == \A c, d \in Calls :
               /\ ProcOf[c] = ProcOf[d] /\ c # d
               /\ pc[c] \in Active /\ pc[d] \in InFlight
               => previous[c] < previous[d]

\* Whatever crashes or fails and whoever else writes, the state file is
\* absent or a whole state, and what a call works on or returns has every
\* collection (temporary file and rename, mergeWithDefaults).
WholeStates == /\ file # Torn
               /\ \A c \in Calls : pc[c] \in {"updating", "writing", "settling", "done"}
                                     => Defaults \subseteq local[c]

-----------------------------------------------------------------------------
(* The promise to callers, for a file one process has open. *)

AbstractValue  == IF file = Missing THEN Defaults ELSE MergeWithDefaults(file)
AbstractStatus == [c \in Calls |-> IF pc[c] \in {"idle"} \cup Settled THEN pc[c]
                                   ELSE IF pc[c] = "settling" THEN "effected"
                                   ELSE "pending"]
AbstractResult == [c \in Calls |-> IF pc[c] \in {"settling", "done"}
                                     THEN local[c] ELSE NoResult]

Atomic == INSTANCE AtomicStore WITH value  <- AbstractValue,
                                    status <- AbstractStatus,
                                    result <- AbstractResult

\* Every call that is answered took effect at one instant between call and
\* answer, a rejected one never did, and no update is lost.
Linearizable == Atomic!Spec

\* Every call is answered or lost with its process: a task that throws lets
\* the next one start (the finally of withLock).
EveryCallSettles == \A c \in Calls : pc[c] = "waiting" ~> pc[c] \in Settled
=============================================================================
