------------------------- MODULE SigningKeysProofs -------------------------
(***************************************************************************)
(* Theorems about SigningKeys, for any set of runs of the two programs.    *)
(***************************************************************************)
EXTENDS SigningKeys, JsonFileStoreProofs

\* The call a start makes next is one of the run's own.
LEMMA OwnCalls ==
  ASSUME NEW p \in Procs, NEW step \in StartSteps \cup Changes,
         Program[p] = "gateway" => step \in StartSteps \ {"redirects"}
  PROVE  <<p, step>> \in Calls /\ ProcOf[<<p, step>>] = p
<1>1. <<p, step>> \in Calls
  BY RunsAssumption
<1>2. QED
  BY <1>1, RunsAssumption

LEMMA EnqueueIsNext ==
  ASSUME NEW c \in Calls, Enqueue(c)
  PROVE  Next
BY DEF Next

\* Every step of a start, of a serving run or of its end is a step of the
\* store or leaves the store alone.
LEMMA StartStepIsStoreStep == [StartNext]_allVars => [Next]_vars
<1> SUFFICES ASSUME [StartNext]_allVars PROVE [Next]_vars
  OBVIOUS
<1> USE DEF StartSteps
<1>1. ASSUME NEW p \in Procs, Start(p) PROVE Next
  BY <1>1, OwnCalls, EnqueueIsNext DEF Start
<1>2. ASSUME NEW p \in Procs, SeedRedirects(p) PROVE Next
  BY <1>2, OwnCalls, EnqueueIsNext DEF SeedRedirects
<1>3. ASSUME NEW p \in Procs, ListKeys(p) PROVE Next
  BY <1>3, OwnCalls, EnqueueIsNext DEF ListKeys
<1>4. ASSUME NEW p \in Procs, SaveKey(p) PROVE Next
  BY <1>4, OwnCalls, EnqueueIsNext DEF SaveKey
<1>5. ASSUME NEW p \in Procs, Ready(p) \/ StartFails(p) PROVE UNCHANGED vars
  BY <1>5 DEF Ready, StartFails
<1>6. ASSUME NEW p \in Procs, Stop(p) PROVE Next
  BY <1>6 DEF Stop, Next
<1>7. ASSUME NEW p \in Procs, NEW step \in Changes, Change(p, step) PROVE Next
  BY <1>7, OwnCalls, EnqueueIsNext DEF Change
<1>8. ASSUME NEW c \in Calls, StoreStep(c) PROVE Next
  BY <1>8 DEF StoreStep, Next
<1>9. ASSUME UNCHANGED allVars PROVE UNCHANGED vars
  BY <1>9 DEF allVars, vars
<1>10. QED
  BY <1>1, <1>2, <1>3, <1>4, <1>5, <1>6, <1>7, <1>8, <1>9 DEF StartNext

\* The runs of the api and the gateway use the store as JsonFileStore says
\* (main.ts, routes.ts and runtime.ts make no other access to the file).
THEOREM StartsUseTheStore == StartSpec => Spec
<1>1. StartInit => Init
  BY DEF StartInit
<1>2. QED
  BY <1>1, StartStepIsStoreStep, PTL DEF StartSpec, Spec

\* However many runs share the file, each takes its own calls in turn.
THEOREM StartTurnsAreKept == StartSpec => []TurnOrder
  BY StartsUseTheStore, TurnsAreKept, PTL

\* However many runs share the file and wherever they are ended, the file
\* holds a whole state.
THEOREM StartStatesAreWhole == StartSpec => []WholeStates
  BY StartsUseTheStore, StatesAreWhole, PTL

-----------------------------------------------------------------------------
(* Types. *)

LEMMA StartTypeInit == StartInit => StartTypeOK
  BY DEF StartInit, StartTypeOK

\* What a run that gets ready holds are keys that were saved, at least one.
LEMMA KeyStateType ==
  ASSUME NEW p \in Procs
  PROVE  KeyState(p) # {} /\ KeyState(p) \subseteq KeysIn(Calls)
<1>1. <<p, "save">> \in KeysIn(Calls)
  BY OwnCalls DEF StartSteps, KeysIn
<1>2. Found(p) \subseteq KeysIn(Calls)
  BY DEF Found, KeysIn
<1>3. QED
  BY <1>1, <1>2 DEF KeyState

LEMMA StartTypeStep == StartTypeOK /\ [StartNext]_allVars => StartTypeOK'
<1> SUFFICES ASSUME StartTypeOK, [StartNext]_allVars PROVE StartTypeOK'
  OBVIOUS
<1> USE DEF StartTypeOK, KeysIn
<1>1. ASSUME NEW p \in Procs, Start(p) PROVE StartTypeOK'
  BY <1>1 DEF Start, Starting
<1>2. ASSUME NEW p \in Procs, SeedRedirects(p) \/ ListKeys(p) \/ SaveKey(p)
      PROVE  StartTypeOK'
  BY <1>2 DEF SeedRedirects, ListKeys, SaveKey, startVars
<1>3. ASSUME NEW p \in Procs, Ready(p) PROVE StartTypeOK'
  BY <1>3, KeyStateType DEF Ready
<1>4. ASSUME NEW p \in Procs, StartFails(p) PROVE StartTypeOK'
  BY <1>4 DEF StartFails
<1>5. ASSUME NEW p \in Procs, Stop(p) PROVE StartTypeOK'
  BY <1>5 DEF Stop
<1>6. ASSUME NEW p \in Procs, NEW step \in Changes, Change(p, step)
      PROVE  StartTypeOK'
  BY <1>6 DEF Change, startVars
<1>7. ASSUME NEW c \in Calls, StoreStep(c) PROVE StartTypeOK'
  BY <1>7 DEF StoreStep, startVars
<1>8. ASSUME UNCHANGED allVars PROVE StartTypeOK'
  BY <1>8 DEF allVars, startVars
<1>9. QED
  BY <1>1, <1>2, <1>3, <1>4, <1>5, <1>6, <1>7, <1>8 DEF StartNext

\* A run serves exactly while it holds keys, and only keys that some run
\* saved (buildKeyState and the awaits of createSigningKeyService).
THEOREM KeysAreSavedKeys == StartSpec => []StartTypeOK
  BY StartTypeInit, StartTypeStep, PTL DEF StartSpec

-----------------------------------------------------------------------------
(* One start at a time.  A start makes its calls one after the other; as   *)
(* long as no live run was overlapped, at most one call is about to write, *)
(* so the file only grows and holds the keys of whoever serves.            *)

\* The calls of p: made by its start in their order, or later for a request.
InOrder(p) ==
  /\ run[p] = "off" => \A c \in CallsOf(p) : pc[c] = "idle"
  /\ run[p] = "starting" => \A c \in CallsOf(p) : c[2] \in Changes => pc[c] = "idle"
  /\ p \notin Live => \A c \in CallsOf(p) : pc[c] \notin InFlight
  /\ Program[p] = "api" /\ pc[<<p, "redirects">>] # "idle" => Done(p, "check")
  /\ pc[<<p, "list">>] # "idle" =>
       Done(p, IF Program[p] = "api" THEN "redirects" ELSE "check")
  /\ pc[<<p, "save">>] # "idle" => Done(p, "list") /\ Found(p) = {}
  /\ run[p] = "ready" => Usable(p) /\ keys[p] = KeyState(p)

\* Only the two programs are live, and no live run was overlapped or all were.
TwoPrograms ==
  /\ \A p, q \in Live : p # q => Program[p] # Program[q]
  /\ Live \cap overlapped = {} \/ Live \subseteq overlapped
  /\ \A p, q \in Starting : p # q => p \in overlapped
  /\ \A p \in overlapped : run[p] # "off"

Clean == Live \cap overlapped = {}

\* The temporary file of a call is its own.
Filled(c) ==
  /\ pc[c] \in {"idle", "waiting", "reading", "updating"} => temp[c] = Missing
  /\ pc[c] \in {"seeding", "writing"} => temp[c] \in {Missing, Torn, local[c]}
  /\ pc[c] \in {"updating", "writing"} => Kind[c] = "update"

\* What a call under way holds, related to the file it is about to replace.
Current(c) ==
  /\ pc[c] = "seeding"  => file = Missing /\ local[c] = Defaults
  /\ pc[c] = "updating" => file # Missing /\ local[c] = Defaults \cup file
  /\ pc[c] = "writing"  => file # Missing /\ local[c] = Defaults \cup file \cup {c}

\* What a start found is what the file holds, but for the key it saved.
Learned(p) ==
  run[p] = "starting" /\ pc[<<p, "list">>] \in {"settling", "done"} =>
    /\ file # Missing
    /\ KeysIn(file) = IF pc[<<p, "save">>] \in {"settling", "done"}
                        THEN {<<p, "save">>} ELSE Found(p)

KeysHeld(p) == run[p] = "ready" => file # Missing /\ KeysIn(file) = keys[p]

\* A start beside a run that serves saves no key.
Beside(p, q) == run[p] = "starting" /\ run[q] = "ready" => pc[<<p, "save">>] = "idle"

CleanInv == Clean => /\ \A c \in Calls : Current(c)
                     /\ \A p \in Procs : Learned(p) /\ KeysHeld(p)
                     /\ \A p, q \in Procs : Beside(p, q)

Kept == overlapped = {} =>
          \A c \in Calls : Kind[c] = "update" /\ pc[c] \in {"settling", "done"} =>
            file # Missing /\ c \in file

StartInv == /\ \A p \in Procs : InOrder(p)
            /\ TwoPrograms
            /\ \A c \in Calls : Filled(c)
            /\ CleanInv
            /\ Kept

\* What the store and the types give.
Base == TypeOK /\ TurnOrder /\ file # Torn /\ StartTypeOK

LEMMA CallIs ==
  ASSUME NEW c \in Calls
  PROVE  /\ ProcOf[c] \in Procs /\ c = <<ProcOf[c], c[2]>> /\ c \in CallsOf(ProcOf[c])
         /\ c[2] \in StartSteps \cup Changes
         /\ Program[ProcOf[c]] = "gateway" => c[2] \in StartSteps \ {"redirects"}
         /\ Program[ProcOf[c]] \in {"api", "gateway"}
         /\ Kind[c] = IF c[2] \in {"check", "list"} THEN "read" ELSE "update"
BY RunsAssumption DEF CallsOf

\* The calls every run has.
LEMMA StartCalls ==
  ASSUME NEW p \in Procs
  PROVE  /\ <<p, "check">> \in CallsOf(p) /\ <<p, "list">> \in CallsOf(p)
         /\ <<p, "save">> \in CallsOf(p)
         /\ Program[p] = "api" => <<p, "redirects">> \in CallsOf(p)
<1>1. /\ <<p, "check">> \in Calls /\ <<p, "list">> \in Calls /\ <<p, "save">> \in Calls
      /\ Program[p] = "api" => <<p, "redirects">> \in Calls
  BY OwnCalls DEF StartSteps
<1>2. \A c \in Calls : ProcOf[c] = c[1]
  BY RunsAssumption
<1>3. QED
  BY <1>1, <1>2 DEF CallsOf

\* A step of the store moves one call that is in flight.
LEMMA StepMoves ==
  ASSUME TypeOK, NEW c \in Calls, Step(c)
  PROVE  /\ pc[c] \in InFlight /\ pc'[c] \in Active \cup {"done", "failed"}
         /\ pc'[c] = "done" => pc[c] = "settling"
         /\ \A d \in Calls \ {c} : /\ pc'[d] = pc[d] /\ local'[d] = local[d]
                                   /\ temp'[d] = temp[d]
<1> USE DEF TypeOK, Goto, InFlight, Waiting, Active
<1>1. CASE Begin(c) \/ Settle(c)
  BY <1>1 DEF Begin, Settle
<1>2. CASE ReadPresent(c) \/ ReadMissing(c) \/ ReadFails(c)
  BY <1>2 DEF ReadPresent, ReadMissing, ReadFails, AfterRead
<1>3. CASE ApplyUpdater(c) \/ UpdaterThrows(c) \/ WriteFails(c)
  BY <1>3 DEF ApplyUpdater, UpdaterThrows, WriteFails
<1>4. CASE OpenTemp(c) \/ FillTemp(c) \/ Rename(c)
  BY <1>4 DEF OpenTemp, FillTemp, Rename, AfterRead
<1>5. QED
  BY <1>1, <1>2, <1>3, <1>4 DEF Step

LEMMA StartInvInit == StartInit => StartInv
<1> SUFFICES ASSUME StartInit PROVE StartInv
  OBVIOUS
<1> USE DEF StartInit, Init
<1>1. Live = {} /\ Starting = {}
  BY DEF Live, Starting
<1>2. ASSUME NEW p \in Procs PROVE InOrder(p)
  BY <1>1, StartCalls DEF InOrder, InFlight, Waiting, Active, CallsOf
<1>3. TwoPrograms
  BY <1>1 DEF TwoPrograms
<1>4. \A c \in Calls : Filled(c) /\ Current(c)
  BY DEF Filled, Current
<1>5. \A p, q \in Procs : Learned(p) /\ KeysHeld(p) /\ Beside(p, q)
  BY DEF Learned, KeysHeld, Beside
<1>6. QED
  BY <1>2, <1>3, <1>4, <1>5 DEF StartInv, CleanInv, Kept

-----------------------------------------------------------------------------
(* The order of a run's calls. *)

\* What p has done stays done, and what it has not begun is not begun.
Further(p) == \A c \in CallsOf(p) :
                /\ pc[c] = "done" => pc'[c] = "done" /\ local'[c] = local[c]
                /\ pc[c] = "idle" <=> pc'[c] = "idle"

LEMMA OrderStays ==
  ASSUME NEW p \in Procs, InOrder(p), Further(p)
  PROVE  /\ Program[p] = "api" /\ pc'[<<p, "redirects">>] # "idle" => Done(p, "check")'
         /\ pc'[<<p, "list">>] # "idle" =>
              Done(p, IF Program[p] = "api" THEN "redirects" ELSE "check")'
         /\ pc'[<<p, "save">>] # "idle" => Done(p, "list")' /\ Found(p)' = {}
         /\ run[p] = "ready" => Usable(p)' /\ keys[p] = KeyState(p)'
<1>1. /\ Program[p] = "api" /\ pc'[<<p, "redirects">>] # "idle" => Done(p, "check")'
      /\ pc'[<<p, "list">>] # "idle" =>
              Done(p, IF Program[p] = "api" THEN "redirects" ELSE "check")'
  BY StartCalls DEF InOrder, Further, Done
<1>2. Done(p, "list") => Done(p, "list")' /\ Found(p)' = Found(p)
  BY StartCalls DEF Further, Done, Found
<1>3. Done(p, "save") => Done(p, "save")'
  BY StartCalls DEF Further, Done
<1>4. pc'[<<p, "save">>] # "idle" => Done(p, "list")' /\ Found(p)' = {}
  BY <1>2, StartCalls DEF InOrder, Further
<1>5. run[p] = "ready" => Usable(p)' /\ keys[p] = KeyState(p)'
  BY <1>2, <1>3 DEF InOrder, Usable, KeyState
<1>6. QED
  BY <1>1, <1>4, <1>5

\* A call of p that a step of the store moves belongs to a live run.
LEMMA LiveCalls ==
  ASSUME Base, StartInv, NEW c \in Calls, pc[c] \in InFlight
  PROVE  /\ ProcOf[c] \in Live
         /\ run[ProcOf[c]] = "starting" => c[2] \notin Changes
         /\ run[ProcOf[c]] = "ready" => c[2] \in Changes /\ Program[ProcOf[c]] = "api"
<1> DEFINE p == ProcOf[c]
<1>1. p \in Procs /\ InOrder(p) /\ c \in CallsOf(p) /\ c = <<p, c[2]>>
  BY CallIs DEF StartInv
<1>2. p \in Live
  BY <1>1 DEF InOrder
<1>3. run[p] = "starting" => c[2] \notin Changes
  BY <1>1 DEF InOrder, InFlight, Waiting, Active
<1>4. run[p] = "ready" => c[2] \in Changes
  <2> SUFFICES ASSUME run[p] = "ready", c[2] \in StartSteps PROVE FALSE
    BY CallIs
  <2>1. Usable(p) /\ Done(p, "list")
    BY <1>1 DEF InOrder, Usable
  <2>2. pc[<<p, "list">>] # "idle"
    BY <2>1 DEF Done
  <2>3. /\ Done(p, "check")
        /\ Program[p] = "api" => Done(p, "redirects")
    BY <1>1, <2>2 DEF InOrder, Done
  <2>4. pc[<<p, "save">>] \in {"idle", "done"}
    BY <1>1, <2>1 DEF InOrder, Usable, Done
  <2>5. c[2] = "redirects" => Program[p] = "api"
    BY CallIs DEF StartSteps
  <2>6. QED
    BY <1>1, <2>1, <2>3, <2>4, <2>5 DEF Done, StartSteps, InFlight, Waiting, Active
<1>5. c[2] \in Changes => Program[p] = "api"
  BY CallIs, RunsAssumption
<1>6. QED
  BY <1>2, <1>3, <1>4, <1>5

LEMMA OrderStep ==
  ASSUME Base, StartInv, [StartNext]_allVars, NEW p \in Procs
  PROVE  InOrder(p)'
<1> USE DEF Base, StartTypeOK, TypeOK
<1>1. InOrder(p) /\ \A c \in CallsOf(p) : c \in Calls /\ ProcOf[c] = p
  BY DEF StartInv, CallsOf
<1>2. ASSUME NEW q \in Procs \ {p}, NEW c \in CallsOf(q), Enqueue(c)
      PROVE  Further(p)
  BY <1>1, <1>2 DEF Enqueue, Further, CallsOf, Goto
<1>3. ASSUME run' = run, keys' = keys, Further(p),
             \A c \in CallsOf(p) : pc[c] \notin InFlight => pc'[c] \notin InFlight
      PROVE  InOrder(p)'
  BY <1>1, <1>3, OrderStays DEF InOrder, Live, Further
<1>4. ASSUME NEW q \in Procs, Start(q) PROVE InOrder(p)'
  <2>1. CASE q = p
    <3>1. /\ \A c \in CallsOf(p) : pc[c] = "idle" /\ pc'[c] = IF c = <<p, "check">> THEN "waiting" ELSE "idle"
          /\ run'[p] = "starting"
      BY <1>1, <1>4, <2>1 DEF Start, InOrder, Enqueue, Goto
    <3>2. <<p, "check">>[2] \notin Changes
      BY RunsAssumption DEF StartSteps
    <3>3. QED
      BY <3>1, <3>2, StartCalls DEF InOrder, Live
  <2>2. CASE q # p
    <3>1. Further(p) /\ run'[p] = run[p] /\ keys'[p] = keys[p]
          /\ \A c \in CallsOf(p) : pc'[c] = pc[c]
      <4>1. <<q, "check">> \in CallsOf(q) /\ Enqueue(<<q, "check">>)
        BY <1>4, StartCalls DEF Start
      <4>2. Further(p)
        BY <1>2, <2>2, <4>1
      <4>3. \A c \in CallsOf(p) : pc'[c] = pc[c]
        BY <1>1, <2>2, <4>1 DEF Enqueue, Goto, CallsOf
      <4>4. QED
        BY <1>4, <2>2, <4>2, <4>3 DEF Start
    <3>2. QED
      BY <1>1, <3>1, OrderStays DEF InOrder, Live
  <2>3. QED
    BY <2>1, <2>2
<1>5. ASSUME NEW q \in Procs, NEW step \in StartSteps \cup Changes, <<q, step>> \in CallsOf(q),
             Enqueue(<<q, step>>), UNCHANGED startVars, q # p
      PROVE  InOrder(p)'
  <2>1. Further(p) /\ \A c \in CallsOf(p) : pc'[c] = pc[c]
    BY <1>1, <1>5 DEF Enqueue, Goto, Further, CallsOf
  <2>2. QED
    BY <1>3, <1>5, <2>1 DEF startVars
<1>6. ASSUME SeedRedirects(p) \/ ListKeys(p) \/ SaveKey(p) PROVE InOrder(p)'
  <2>1. /\ \A c \in CallsOf(p) : /\ local'[c] = local[c]
                                 /\ c[2] \in Changes => pc'[c] = pc[c]
                                 /\ pc'[c] # pc[c] => pc'[c] = "waiting" /\ pc[c] = "idle"
        /\ run' = run /\ keys' = keys /\ run[p] = "starting"
    <3>1. Changes \cap {"redirects", "list", "save"} = {}
      BY RunsAssumption DEF StartSteps
    <3>2. PICK step \in {"redirects", "list", "save"} : Enqueue(<<p, step>>)
      BY <1>6 DEF SeedRedirects, ListKeys, SaveKey
    <3>3. /\ pc[<<p, step>>] = "idle" /\ local' = local
          /\ pc' = [pc EXCEPT ![<<p, step>>] = "waiting"]
      BY <3>2 DEF Enqueue, Goto
    <3>4. \A c \in CallsOf(p) : c[2] \in Changes => c # <<p, step>>
      BY <3>1
    <3>5. \A c \in CallsOf(p) : /\ c # <<p, step>> => pc'[c] = pc[c]
                               /\ c = <<p, step>> => pc'[c] = "waiting" /\ pc[c] = "idle"
      BY <1>1, <3>3
    <3>6. run' = run /\ keys' = keys /\ run[p] = "starting"
      BY <1>6 DEF SeedRedirects, ListKeys, SaveKey, startVars
    <3>7. QED
      BY <3>3, <3>4, <3>5, <3>6
  <2>2. /\ SeedRedirects(p) => Done(p, "check") /\ Program[p] = "api"
        /\ ListKeys(p) => Done(p, IF Program[p] = "api" THEN "redirects" ELSE "check")
        /\ SaveKey(p) => Done(p, "list") /\ Found(p) = {}
    BY DEF SeedRedirects, ListKeys, SaveKey
  <2>3. /\ pc'[<<p, "check">>] = pc[<<p, "check">>]
        /\ Program[p] = "api" /\ pc'[<<p, "redirects">>] # pc[<<p, "redirects">>] => SeedRedirects(p)
        /\ pc'[<<p, "list">>] # pc[<<p, "list">>] => ListKeys(p)
        /\ pc'[<<p, "save">>] # pc[<<p, "save">>] => SaveKey(p)
    BY <1>1, <1>6, StartCalls DEF SeedRedirects, ListKeys, SaveKey, Enqueue, Goto
  <2>4. /\ Done(p, "check") => Done(p, "check")'
        /\ Program[p] = "api" /\ Done(p, "redirects") => Done(p, "redirects")'
        /\ Done(p, "list") => Done(p, "list")' /\ Found(p)' = Found(p)
    BY <2>1, StartCalls DEF Done, Found, KeysIn
  <2>5. QED
    BY <1>1, <2>1, <2>2, <2>3, <2>4, StartCalls DEF InOrder, Live
<1>7. ASSUME NEW step \in Changes, Change(p, step) PROVE InOrder(p)'
  <2>1. <<p, step>> \in Calls
    BY <1>7, OwnCalls DEF Change
  <2>2. step \notin StartSteps
    BY RunsAssumption
  <2>3. /\ \A c \in CallsOf(p) : /\ local'[c] = local[c]
                                 /\ c[2] \in StartSteps => pc'[c] = pc[c]
        /\ run' = run /\ keys' = keys /\ run[p] = "ready"
    BY <1>1, <1>7, <2>1, <2>2 DEF Change, Enqueue, Goto, startVars
  <2>4. /\ pc'[<<p, "check">>] = pc[<<p, "check">>] /\ pc'[<<p, "list">>] = pc[<<p, "list">>]
        /\ Program[p] = "api" => pc'[<<p, "redirects">>] = pc[<<p, "redirects">>]
        /\ pc'[<<p, "save">>] = pc[<<p, "save">>]
        /\ local'[<<p, "list">>] = local[<<p, "list">>]
    BY <2>3, StartCalls DEF StartSteps
  <2>5. QED
    BY <1>1, <2>3, <2>4 DEF InOrder, Live, Done, Found, KeysIn, Usable, KeyState
<1>8. ASSUME NEW q \in Procs, Ready(q) \/ StartFails(q) PROVE InOrder(p)'
  <2>1. /\ UNCHANGED vars /\ Further(p)
        /\ q # p => run'[p] = run[p] /\ keys'[p] = keys[p]
    BY <1>8 DEF Ready, StartFails, vars, Further
  <2>2. Usable(p)' = Usable(p) /\ KeyState(p)' = KeyState(p)
    BY <2>1 DEF vars, Usable, KeyState, Done, Found, KeysIn
  <2>3. CASE q # p
    BY <1>1, <2>1, <2>3, OrderStays DEF InOrder, Live, vars
  <2>4. CASE Ready(p)
    BY <1>1, <2>1, <2>2, <2>4, OrderStays DEF Ready, InOrder, Live, vars
  <2>5. CASE StartFails(p)
    <3>1. \A c \in CallsOf(p) : pc[c] \notin InFlight
      <4>1. CASE \A c \in CallsOf(p) : pc[c] = IF c[2] = "check" THEN "done" ELSE "idle"
        BY <4>1 DEF InFlight, Waiting, Active
      <4>2. ASSUME NEW d \in CallsOf(p), pc[d] = "failed",
                   NEW c \in CallsOf(p), pc[c] \in InFlight
            PROVE  FALSE
        <5>1. /\ c = <<p, c[2]>> /\ c[2] \in StartSteps
              /\ d = <<p, d[2]>> /\ d[2] \in StartSteps
              /\ c[2] = "redirects" \/ d[2] = "redirects" => Program[p] = "api"
          BY <1>1, <2>5, <4>2, CallIs
             DEF StartFails, InOrder, InFlight, Waiting, Active, StartSteps
        <5>2. c # d
          BY <4>2 DEF InFlight, Waiting, Active
        <5>3. QED
          BY <1>1, <4>2, <5>1, <5>2 DEF InOrder, Done, InFlight, Waiting, Active, StartSteps
      <4>3. QED
        BY <2>5, <4>1, <4>2 DEF StartFails
    <3>2. run'[p] = "over"
      BY <2>5 DEF StartFails
    <3>3. QED
      BY <1>1, <2>1, <3>1, <3>2, OrderStays DEF InOrder, Live, vars
  <2>6. QED
    BY <1>8, <2>3, <2>4, <2>5
<1>9. ASSUME NEW q \in Procs, Stop(q) PROVE InOrder(p)'
  <2>1. Further(p)
    BY <1>1, <1>9 DEF Stop, Crash, Further, InFlight, Waiting, Active
  <2>2. \A c \in CallsOf(p) : IF q = p THEN pc'[c] \notin InFlight ELSE pc'[c] = pc[c]
    BY <1>1, <1>9 DEF Stop, Crash, InFlight, Waiting, Active
  <2>3. IF q = p THEN run'[p] = "over" ELSE run'[p] = run[p] /\ keys'[p] = keys[p]
    BY <1>9 DEF Stop
  <2>4. QED
    BY <1>1, <2>1, <2>2, <2>3, OrderStays DEF InOrder, Live
<1>10. ASSUME NEW c \in Calls, StoreStep(c) PROVE InOrder(p)'
  <2>1. /\ pc[c] \in InFlight /\ pc'[c] \in Active \cup {"done", "failed"}
        /\ \A d \in Calls \ {c} : pc'[d] = pc[d] /\ local'[d] = local[d]
    BY <1>10, StepMoves DEF StoreStep
  <2>2. Further(p)
    BY <1>1, <2>1 DEF Further, InFlight, Waiting, Active
  <2>3. \A d \in CallsOf(p) : pc[d] \notin InFlight => pc'[d] \notin InFlight
    BY <1>1, <2>1
  <2>4. QED
    BY <1>3, <1>10, <2>2, <2>3 DEF StoreStep, startVars
<1>11. ASSUME UNCHANGED allVars PROVE InOrder(p)'
  BY <1>1, <1>3, <1>11 DEF allVars, vars, startVars, Further
<1>12. QED
  <2>1. ASSUME NEW q \in Procs, q # p, SeedRedirects(q) \/ ListKeys(q) \/ SaveKey(q)
        PROVE  InOrder(p)'
    <3>1. PICK step \in StartSteps : Enqueue(<<q, step>>) /\ <<q, step>> \in CallsOf(q)
      BY <2>1, StartCalls DEF SeedRedirects, ListKeys, SaveKey, StartSteps
    <3>2. QED
      BY <1>5, <2>1, <3>1 DEF SeedRedirects, ListKeys, SaveKey
  <2>2. ASSUME NEW q \in Procs, q # p, NEW step \in Changes, Change(q, step)
        PROVE  InOrder(p)'
    <3>1. <<q, step>> \in CallsOf(q)
      BY <2>2, OwnCalls DEF Change, CallsOf
    <3>2. QED
      BY <1>5, <2>2, <3>1 DEF Change
  <2>3. QED
    BY <1>4, <1>6, <1>7, <1>8, <1>9, <1>10, <1>11, <2>1, <2>2 DEF StartNext

-----------------------------------------------------------------------------
(* The two programs, and what calls hold. *)

\* Runs are started and ended by the steps of their programs alone.
LEMMA RunsChange ==
  ASSUME [StartNext]_allVars
  PROVE  \/ run' = run /\ overlapped' = overlapped
         \/ \E p \in Procs : Start(p) \/ Ready(p) \/ StartFails(p) \/ Stop(p)
BY DEF StartNext, allVars, startVars, SeedRedirects, ListKeys, SaveKey, Change, StoreStep

LEMMA TwoProgramsStep ==
  ASSUME Base, StartInv, [StartNext]_allVars
  PROVE  TwoPrograms'
<1> USE DEF Base, StartTypeOK
<1>1. TwoPrograms /\ \A p \in Procs : Program[p] \in {"api", "gateway"}
  BY RunsAssumption DEF StartInv
<1>2. ASSUME NEW p \in Procs, Start(p) PROVE TwoPrograms'
  <2>1. /\ p \notin Live /\ p \notin overlapped /\ \A q \in Live : Program[q] # Program[p]
        /\ Live' = Live \cup {p} /\ Starting' = Starting \cup {p} /\ Starting \subseteq Live
        /\ \A q \in Procs : run[q] # "off" => run'[q] # "off"
    BY <1>1, <1>2 DEF Start, Live, Starting, TwoPrograms
  <2>2. \A q, t \in Live : q = t
    BY <1>1, <2>1 DEF TwoPrograms, Live
  <2>3. CASE Starting = {} /\ Live \cap overlapped = {}
    BY <1>1, <1>2, <2>1, <2>3 DEF Start, TwoPrograms
  <2>4. CASE ~ (Starting = {} /\ Live \cap overlapped = {})
    <3>1. overlapped' = overlapped \cup Starting \cup {p}
      BY <1>2, <2>4 DEF Start
    <3>2. Live' \subseteq overlapped'
      BY <2>1, <2>2, <2>4, <3>1
    <3>3. \A q \in overlapped' : run'[q] # "off"
      BY <1>1, <1>2, <2>1, <3>1 DEF TwoPrograms, Starting, Start
    <3>4. QED
      BY <1>1, <2>1, <3>2, <3>3 DEF TwoPrograms, Live, Starting
  <2>5. QED
    BY <2>3, <2>4
<1>3. ASSUME NEW p \in Procs, Ready(p) \/ StartFails(p) \/ Stop(p) PROVE TwoPrograms'
  <2>1. /\ Live' \subseteq Live /\ Starting' \subseteq Starting /\ overlapped' = overlapped
        /\ \A q \in Procs : run[q] # "off" => run'[q] # "off"
    BY <1>3 DEF Ready, StartFails, Stop, Live, Starting
  <2>2. QED
    BY <1>1, <2>1 DEF TwoPrograms
<1>4. ASSUME run' = run, overlapped' = overlapped PROVE TwoPrograms'
  BY <1>1, <1>4 DEF TwoPrograms, Live, Starting
<1>5. QED
  BY <1>2, <1>3, <1>4, RunsChange

LEMMA FilledStep ==
  ASSUME Base, StartInv, [StartNext]_allVars
  PROVE  \A c \in Calls : Filled(c)'
<1> SUFFICES ASSUME NEW d \in Calls PROVE Filled(d)'
  OBVIOUS
<1> USE DEF Base, TypeOK, Goto, InFlight, Waiting, Active
<1>1. [Next]_vars /\ Filled(d) /\ Kind[d] \in {"read", "update"}
  BY StartStepIsStoreStep, CallIs DEF StartInv
<1>2. ASSUME NEW c \in Calls, Enqueue(c) PROVE Filled(d)'
  BY <1>1, <1>2 DEF Enqueue, Filled
<1>3. ASSUME NEW p \in Procs, Crash(p) PROVE Filled(d)'
  BY <1>1, <1>3 DEF Crash, Filled
<1>4. ASSUME NEW c \in Calls, Step(c) PROVE Filled(d)'
  <2>1. CASE c # d
    BY <1>1, <1>4, <2>1, StepMoves DEF Filled
  <2>2. CASE c = d
    <3>1. CASE Begin(d) \/ Settle(d)
      BY <1>1, <3>1 DEF Begin, Settle, Filled
    <3>2. CASE ReadPresent(d) \/ ReadMissing(d) \/ ReadFails(d)
      BY <1>1, <3>2 DEF ReadPresent, ReadMissing, ReadFails, AfterRead, Filled
    <3>3. CASE ApplyUpdater(d) \/ UpdaterThrows(d) \/ WriteFails(d)
      BY <1>1, <3>3 DEF ApplyUpdater, UpdaterThrows, WriteFails, Filled
    <3>4. CASE OpenTemp(d) \/ FillTemp(d) \/ Rename(d)
      BY <1>1, <3>4 DEF OpenTemp, FillTemp, Rename, AfterRead, Filled
    <3>5. QED
      BY <1>4, <2>2, <3>1, <3>2, <3>3, <3>4 DEF Step
  <2>3. QED
    BY <2>1, <2>2
<1>5. CASE UNCHANGED vars
  BY <1>1, <1>5 DEF vars, Filled
<1>6. QED
  BY <1>1, <1>2, <1>3, <1>4, <1>5 DEF Next

-----------------------------------------------------------------------------
(* One writer. *)

Writing(c) == pc[c] \in {"seeding", "updating", "writing"}

\* A call that is about to write beside a run that serves is a change, or the
\* redirects of a starting api.
LEMMA WriterBeside ==
  ASSUME Base, StartInv, Clean, NEW c \in Calls, Writing(c),
         NEW q \in Procs, run[q] = "ready"
  PROVE  /\ file # Missing /\ pc[c] # "seeding" /\ c[2] \notin {"check", "list", "save"}
         /\ ProcOf[c] # q => ProcOf[c] \in Live /\ Program[ProcOf[c]] = "api"
<1> DEFINE p == ProcOf[c]
<1>1. /\ p \in Procs /\ c = <<p, c[2]>> /\ pc[c] \in InFlight
      /\ Current(c) /\ KeysHeld(q) /\ Beside(p, q) /\ Filled(c)
  BY CallIs DEF Writing, InFlight, Waiting, Active, StartInv, CleanInv
<1>2. file # Missing /\ pc[c] # "seeding"
  BY <1>1 DEF KeysHeld, Current
<1>3. c[2] \notin {"check", "list"}
  BY <1>1, <1>2, CallIs DEF Writing, Filled
<1>4. p \in Live /\ (run[p] = "ready" => c[2] \in Changes /\ Program[p] = "api")
  BY <1>1, LiveCalls
<1>5. c[2] # "save"
  <2>1. "save" \notin Changes
    BY RunsAssumption DEF StartSteps
  <2>2. run[p] = "starting" => pc[<<p, "save">>] = "idle"
    BY <1>1 DEF Beside
  <2>3. QED
    BY <1>1, <1>4, <2>1, <2>2 DEF Live, InFlight, Waiting, Active
<1>6. Program[p] = "api"
  BY <1>3, <1>5, CallIs DEF StartSteps
<1>7. QED
  BY <1>2, <1>3, <1>4, <1>5, <1>6

LEMMA OneWriter ==
  ASSUME Base, StartInv, Clean, NEW c \in Calls, NEW d \in Calls, c # d,
         Writing(c), Writing(d)
  PROVE  FALSE
<1>1. pc[c] \in Active /\ pc[d] \in Active /\ pc[c] \in InFlight /\ pc[d] \in InFlight
  BY DEF Writing, InFlight, Waiting, Active
<1>2. CASE ProcOf[c] = ProcOf[d]
  <2>1. previous[c] < previous[d] /\ previous[d] < previous[c]
    BY <1>1, <1>2 DEF Base, TurnOrder
  <2>2. previous[c] \in Nat /\ previous[d] \in Nat
    BY DEF Base, TypeOK
  <2>3. QED
    BY <2>1, <2>2
<1>3. CASE ProcOf[c] # ProcOf[d]
  <2>1. /\ ProcOf[c] \in Live /\ ProcOf[d] \in Live
        /\ Program[ProcOf[c]] # Program[ProcOf[d]]
    BY <1>1, <1>3, LiveCalls DEF StartInv, TwoPrograms
  <2>2. ~ (ProcOf[c] \in Starting /\ ProcOf[d] \in Starting)
    BY <1>3, <2>1 DEF StartInv, TwoPrograms, Clean
  <2>3. run[ProcOf[c]] = "ready" => Program[ProcOf[d]] = "api" /\ Program[ProcOf[c]] = "api"
    BY <1>1, <1>3, <2>1, WriterBeside, LiveCalls DEF Live
  <2>4. run[ProcOf[d]] = "ready" => Program[ProcOf[c]] = "api" /\ Program[ProcOf[d]] = "api"
    BY <1>1, <1>3, <2>1, WriterBeside, LiveCalls DEF Live
  <2>5. QED
    BY <2>1, <2>2, <2>3, <2>4 DEF Live, Starting
<1>4. QED
  BY <1>2, <1>3

\* What a step of the store does to the file.
LEMMA FileGrows ==
  ASSUME Base, StartInv, Clean, NEW c \in Calls, Step(c)
  PROVE  \/ file' = file /\ (pc'[c] = "settling" => Kind[c] = "read")
         \/ /\ pc[c] = "seeding" /\ file = Missing /\ file' = Defaults
            /\ local'[c] = Defaults /\ (pc'[c] = "settling" => Kind[c] = "read")
         \/ /\ pc[c] = "writing" /\ file # Missing /\ Kind[c] = "update"
            /\ file' = Defaults \cup file \cup {c}
<1> USE DEF Base, TypeOK, Goto
<1>1. Current(c) /\ Filled(c) /\ Kind[c] \in {"read", "update"}
  BY CallIs DEF StartInv, CleanInv
<1>2. CASE Rename(c)
  BY <1>1, <1>2 DEF Rename, Current, Filled, AfterRead
<1>3. CASE ~ Rename(c)
  BY <1>1, <1>3
     DEF Step, Begin, Settle, ReadPresent, ReadMissing, ReadFails, ApplyUpdater, UpdaterThrows,
         OpenTemp, FillTemp, WriteFails, AfterRead
<1>4. QED
  BY <1>2, <1>3

LEMMA CurrentStep ==
  ASSUME Base, StartInv, Clean, NEW c \in Calls, Step(c), NEW d \in Calls
  PROVE  Current(d)'
<1> USE DEF Base, TypeOK, Goto
<1>1. Current(c) /\ Current(d) /\ Filled(c) /\ Kind[c] \in {"read", "update"}
  BY CallIs DEF StartInv, CleanInv
<1>2. CASE c # d
  <2>1. pc'[d] = pc[d] /\ local'[d] = local[d]
    BY <1>2, StepMoves
  <2>2. CASE file' = file
    BY <1>1, <2>1, <2>2 DEF Current
  <2>3. CASE file' # file
    <3>1. Writing(c)
      BY <2>3, FileGrows DEF Writing
    <3>2. ~ Writing(d)
      BY <1>2, <3>1, OneWriter
    <3>3. QED
      BY <2>1, <3>2 DEF Writing, Current
  <2>4. QED
    BY <2>2, <2>3
<1>3. CASE c = d
  <2>1. CASE Begin(d) \/ Settle(d)
    BY <1>1, <1>3, <2>1 DEF Begin, Settle, Current
  <2>2. CASE ReadPresent(d) \/ ReadMissing(d) \/ ReadFails(d)
    BY <1>1, <2>2 DEF ReadPresent, ReadMissing, ReadFails, AfterRead, Current, MergeWithDefaults
  <2>3. CASE ApplyUpdater(d) \/ UpdaterThrows(d) \/ WriteFails(d)
    BY <1>1, <2>3 DEF ApplyUpdater, UpdaterThrows, WriteFails, Current
  <2>4. CASE OpenTemp(d) \/ FillTemp(d)
    BY <1>1, <2>4 DEF OpenTemp, FillTemp, Current
  <2>5. CASE Rename(d)
    <3>1. pc[d] = "seeding" => file' = Defaults /\ local'[d] = Defaults
      BY <1>1, <1>3, <2>5 DEF Rename, Current, Filled
    <3>2. Defaults # Missing
      BY MarkersAssumption DEF Contents
    <3>3. QED
      BY <1>1, <2>5, <3>1, <3>2 DEF Rename, AfterRead, Current
  <2>6. QED
    BY <1>3, <2>1, <2>2, <2>3, <2>4, <2>5 DEF Step
<1>4. QED
  BY <1>2, <1>3

-----------------------------------------------------------------------------
(* The keys of the file. *)

LEMMA KeysOf ==
  ASSUME NEW content
  PROVE  /\ KeysIn(Defaults) = {} /\ KeysIn(Defaults \cup content) = KeysIn(content)
         /\ \A c \in Calls : KeysIn(Defaults \cup content \cup {c}) =
              IF c[2] = "save" THEN KeysIn(content) \cup {c} ELSE KeysIn(content)
BY CallsAssumption DEF KeysIn

\* Beside a run that serves, the keys of the file stay.
LEMMA KeysStay ==
  ASSUME Base, StartInv, Clean, NEW q \in Procs, run[q] = "ready", NEW c \in Calls, Step(c)
  PROVE  file' # Missing /\ KeysIn(file') = KeysIn(file)
<1>1. file # Missing
  BY DEF StartInv, CleanInv, KeysHeld
<1>2. pc[c] # "seeding"
  BY <1>1 DEF StartInv, CleanInv, Current
<1>3. CASE file' = file
  BY <1>1, <1>3
<1>4. CASE pc[c] = "writing" /\ file' = Defaults \cup file \cup {c}
  <2>1. c[2] # "save"
    BY <1>4, WriterBeside DEF Writing
  <2>2. file \in Contents
    BY <1>1 DEF Base, TypeOK
  <2>3. file' \in Contents
    BY <1>4, <2>2 DEF Contents
  <2>4. QED
    BY <1>4, <2>1, <2>3, KeysOf, MarkersAssumption
<1>5. QED
  BY <1>2, <1>3, <1>4, FileGrows

LEMMA KeysHeldByStore ==
  ASSUME Base, StartInv, Clean, NEW c \in Calls, StoreStep(c), NEW p \in Procs
  PROVE  KeysHeld(p)'
<1>1. /\ Step(c) /\ run' = run /\ keys' = keys /\ KeysHeld(p)
  BY DEF StoreStep, startVars, StartInv, CleanInv
<1>2. KeysIn(file)' = KeysIn(file')
  BY DEF KeysIn
<1>3. QED
  BY <1>1, <1>2, KeysStay DEF KeysHeld

\* What a start reads is the file, and only its own save adds a key.
LEMMA LearnedByStore ==
  ASSUME Base, StartInv, Clean, NEW c \in Calls, StoreStep(c), NEW p \in Procs
  PROVE  Learned(p)'
<1> DEFINE list == <<p, "list">>
           save == <<p, "save">>
<1> USE DEF Base, TypeOK, Goto
<1>1. /\ Step(c) /\ run' = run /\ Learned(p) /\ InOrder(p) /\ Current(c) /\ Filled(c)
      /\ pc[c] \in InFlight /\ list \in Calls /\ save \in Calls
      /\ ProcOf[list] = p /\ ProcOf[save] = p /\ Kind[list] = "read" /\ Kind[save] = "update"
  BY StepMoves, StartCalls, RunsAssumption
     DEF StoreStep, startVars, StartInv, CleanInv, CallsOf
<1>2. KeysIn(file)' = KeysIn(file') /\ Found(p)' = KeysIn(local'[list])
      /\ Found(p) = KeysIn(local[list])
  BY DEF KeysIn, Found
<1> SUFFICES ASSUME run[p] = "starting", pc'[list] \in {"settling", "done"}
             PROVE  /\ file' # Missing
                    /\ KeysIn(file') = IF pc'[save] \in {"settling", "done"}
                                          THEN {save} ELSE KeysIn(local'[list])
  BY <1>1, <1>2 DEF Learned
<1>3. Defaults # Missing
  BY MarkersAssumption DEF Contents
<1>4. CASE c = list
  <2>1. pc[save] = "idle" /\ pc'[save] = "idle"
    BY <1>1, <1>4, StepMoves DEF InOrder, Done, InFlight, Waiting, Active
  <2>2. CASE pc[list] = "reading"
    <3>1. ReadPresent(list)
      BY <1>1, <1>4, <2>2
         DEF Step, Begin, Settle, ReadMissing, ReadFails, ApplyUpdater, UpdaterThrows,
             OpenTemp, FillTemp, Rename, WriteFails
    <3>2. file' = file /\ file # Missing /\ local'[list] = Defaults \cup file
      BY <1>1, <3>1 DEF ReadPresent, MergeWithDefaults
    <3>3. QED
      BY <2>1, <3>2, KeysOf
  <2>3. CASE pc[list] = "seeding"
    <3>1. Rename(list) /\ local' = local
      BY <1>1, <1>4, <2>3
         DEF Step, Begin, Settle, ReadPresent, ReadMissing, ReadFails, ApplyUpdater,
             UpdaterThrows, OpenTemp, FillTemp, Rename, WriteFails
    <3>2. file' = Defaults /\ local'[list] = Defaults
      BY <1>1, <1>4, <2>3, <3>1 DEF Rename, Current, Filled
    <3>3. QED
      BY <1>3, <2>1, <3>2, KeysOf
  <2>4. CASE pc[list] = "settling"
    <3>1. file' = file /\ local' = local
      BY <1>1, <1>4, <2>4
         DEF Step, Begin, Settle, ReadPresent, ReadMissing, ReadFails, ApplyUpdater,
             UpdaterThrows, OpenTemp, FillTemp, Rename, WriteFails
    <3>2. QED
      BY <1>1, <1>2, <2>1, <2>4, <3>1 DEF Learned
  <2>5. CASE pc[list] \notin {"reading", "seeding", "settling"}
    BY <1>1, <1>4, <2>5
       DEF Step, Begin, Settle, ReadPresent, ReadMissing, ReadFails, ApplyUpdater,
           UpdaterThrows, OpenTemp, FillTemp, Rename, WriteFails, AfterRead, Filled
  <2>6. QED
    BY <2>2, <2>3, <2>4, <2>5
<1>5. CASE c # list
  <2>1. /\ pc'[list] = pc[list] /\ local'[list] = local[list]
        /\ file # Missing
        /\ KeysIn(file) = IF pc[save] \in {"settling", "done"} THEN {save} ELSE Found(p)
    BY <1>1, <1>5, StepMoves DEF Learned
  <2>2. pc[c] # "seeding"
    BY <1>1, <2>1 DEF Current
  <2>3. CASE c = save
    <3>1. Found(p) = {}
      BY <1>1, <2>3 DEF InOrder, InFlight, Waiting, Active
    <3>2. CASE pc[c] = "writing" /\ file' = Defaults \cup file \cup {c}
      <4>1. KeysIn(file) = {} /\ KeysIn(file') = {save}
        <5>1. KeysIn(file) = {}
          BY <2>1, <2>3, <3>1, <3>2
        <5>2. c \in Calls /\ c[2] = "save"
          BY <2>3
        <5>3. KeysIn(Defaults \cup file \cup {c}) = KeysIn(file) \cup {c}
          BY <5>2, KeysOf
        <5>4. QED
          BY <2>3, <3>2, <5>1, <5>3
      <4>2. file' # Missing
        <5>1. file' \in Contents
          BY <2>1, <3>2 DEF Contents
        <5>2. QED
          BY <5>1, MarkersAssumption
      <4>3. pc'[save] = "settling"
        <5>1. Rename(save)
          <6>1. file' # file
            BY <4>1
          <6>2. QED
            BY <1>1, <2>3, <6>1
               DEF Step, Begin, Settle, ReadPresent, ReadMissing, ReadFails, ApplyUpdater,
                   UpdaterThrows, OpenTemp, FillTemp, WriteFails
        <5>2. QED
          BY <1>1, <2>3, <3>2, <5>1 DEF Rename
      <4>4. QED
        BY <4>1, <4>2, <4>3
    <3>3. CASE file' = file /\ (pc'[c] = "settling" => Kind[c] = "read")
      <4>1. pc'[save] # "settling"
        BY <1>1, <2>3, <3>3
      <4>2. pc'[save] = "done" => pc[save] = "settling"
        BY <1>1, <2>3, StepMoves
      <4>3. pc[save] = "settling" => pc'[save] = "done"
        BY <1>1, <2>3
           DEF Step, Begin, Settle, ReadPresent, ReadMissing, ReadFails, ApplyUpdater,
               UpdaterThrows, OpenTemp, FillTemp, Rename, WriteFails
      <4>4. pc[save] # "done"
        BY <1>1, <2>3 DEF InFlight, Waiting, Active
      <4>5. QED
        BY <1>2, <2>1, <3>3, <4>1, <4>2, <4>3, <4>4
    <3>4. QED
      BY <1>1, <2>2, <3>2, <3>3, FileGrows
  <2>4. CASE c # save
    <3>1. pc'[save] = pc[save]
      BY <1>1, <2>4, StepMoves
    <3>2. CASE file' = file
      BY <1>2, <2>1, <3>1, <3>2
    <3>3. CASE pc[c] = "writing" /\ file' = Defaults \cup file \cup {c}
      <4>1. c[2] # "save"
        <5> SUFFICES ASSUME c[2] = "save" PROVE FALSE
          OBVIOUS
        <5>1. ProcOf[c] # p
          BY <2>4, CallIs
        <5>2. ProcOf[c] \in Live
          BY <1>1, LiveCalls
        <5>3. ~ (ProcOf[c] \in Starting)
          <6>1. p \in Starting /\ p \in Live
            BY DEF Starting, Live
          <6>2. QED
            BY <5>1, <6>1 DEF StartInv, TwoPrograms, Clean
        <5>4. run[ProcOf[c]] = "ready"
          BY <5>2, <5>3 DEF Live, Starting
        <5>5. c[2] \in Changes
          BY <1>1, <5>4, LiveCalls
        <5>6. QED
          BY <5>5, RunsAssumption DEF StartSteps
      <4>2. file' \in Contents
        BY <2>1, <3>3 DEF Contents
      <4>3. KeysIn(file') = KeysIn(file)
        BY <3>3, <4>1, KeysOf
      <4>4. QED
        BY <1>2, <2>1, <3>1, <4>2, <4>3, MarkersAssumption
    <3>4. QED
      BY <1>1, <2>2, <3>2, <3>3, FileGrows
  <2>5. QED
    BY <2>3, <2>4
<1>6. QED
  BY <1>4, <1>5

\* Under one start at a time nothing but the end of the last live run makes
\* the live runs clean again.
LEMMA CleanAgain ==
  ASSUME Base, StartInv, [StartNext]_allVars, ~ Clean, Clean'
  PROVE  Live' = {}
<1> USE DEF Base, StartTypeOK
<1>1. Live \subseteq overlapped /\ \E p \in Live : p \in overlapped
  BY DEF StartInv, TwoPrograms, Clean
<1>2. ASSUME NEW p \in Procs, Start(p) PROVE FALSE
  BY <1>1, <1>2 DEF Start, Clean, Live
<1>3. overlapped' = overlapped /\ Live' \subseteq Live
  BY <1>2, RunsChange DEF Ready, StartFails, Stop, Live
<1>4. QED
  BY <1>1, <1>3 DEF Clean

\* As long as the live runs are clean, a start or an end keeps what is said of
\* the file, which it leaves alone.
LEMMA CleanByRuns ==
  ASSUME Base, StartInv, Clean, Clean', NEW p \in Procs,
         Start(p) \/ Ready(p) \/ StartFails(p) \/ Stop(p)
  PROVE  CleanInv'
<1> USE DEF Base, StartTypeOK, TypeOK
<1>1. /\ \A c \in Calls : Current(c)
      /\ \A q \in Procs : Learned(q) /\ KeysHeld(q)
      /\ \A q, t \in Procs : Beside(q, t)
      /\ \A q \in Procs : InOrder(q)
  BY DEF StartInv, CleanInv
<1>2. KeysIn(file)' = KeysIn(file)
  BY DEF KeysIn, Start, Enqueue, Ready, StartFails, Stop, Crash, vars
<1>3. CASE Start(p)
  <2>1. /\ file' = file /\ local' = local
        /\ \A c \in Calls : pc'[c] # pc[c] => pc'[c] = "waiting" /\ c = <<p, "check">>
        /\ run[p] = "off" /\ run'[p] = "starting" /\ keys' = keys
        /\ \A q \in Procs \ {p} : run'[q] = run[q]
    BY <1>3 DEF Start, Enqueue, Goto
  <2>2. \A c \in Calls : Current(c)'
    BY <1>1, <2>1 DEF Current
  <2>3. pc'[<<p, "list">>] = "idle" /\ pc'[<<p, "save">>] = "idle"
    <3>1. \A c \in CallsOf(p) : c \in Calls /\ pc[c] = "idle"
      BY <1>1, <2>1 DEF InOrder, CallsOf
    <3>2. <<p, "list">> \in CallsOf(p) /\ <<p, "save">> \in CallsOf(p)
      BY StartCalls
    <3>3. QED
      BY <2>1, <3>1, <3>2
  <2>4. ASSUME NEW q \in Procs \ {p}
        PROVE  /\ pc'[<<q, "list">>] = pc[<<q, "list">>]
               /\ pc'[<<q, "save">>] = pc[<<q, "save">>]
    <3>1. /\ <<q, "list">> # <<p, "check">> /\ <<q, "save">> # <<p, "check">>
          /\ <<q, "list">> \in CallsOf(q) /\ <<q, "save">> \in CallsOf(q)
      BY StartCalls
    <3>2. <<q, "list">> \in Calls /\ <<q, "save">> \in Calls
      BY <3>1 DEF CallsOf
    <3>3. QED
      BY <2>1, <3>1, <3>2
  <2>5. \A q \in Procs : Found(q)' = Found(q)
    BY <2>1 DEF Found, KeysIn
  <2>6. \A q \in Procs : Learned(q)'
    BY <1>1, <1>2, <2>1, <2>3, <2>4, <2>5 DEF Learned
  <2>7. ASSUME NEW q \in Procs PROVE KeysHeld(q)'
    <3>1. CASE q = p
      <4>1. run'[q] # "ready"
        BY <2>1, <3>1
      <4>2. QED
        BY <4>1 DEF KeysHeld
    <3>2. CASE q # p
      <4>1. run'[q] = run[q] /\ keys' = keys /\ file' = file
        BY <2>1, <3>2
      <4>2. KeysHeld(q)
        BY <1>1
      <4>3. QED
        BY <1>2, <4>1, <4>2 DEF KeysHeld
    <3>3. QED
      BY <3>1, <3>2
  <2>8. ASSUME NEW q \in Procs, NEW t \in Procs PROVE Beside(q, t)'
    <3>1. CASE q = p
      BY <2>3, <3>1 DEF Beside
    <3>2. CASE q # p
      <4>1. run'[q] = run[q] /\ pc'[<<q, "save">>] = pc[<<q, "save">>]
        BY <2>1, <2>4, <3>2
      <4>2. run'[t] = "ready" => run[t] = "ready"
        BY <2>1
      <4>3. QED
        BY <1>1, <4>1, <4>2 DEF Beside
    <3>3. QED
      BY <3>1, <3>2
  <2>9. QED
    BY <2>2, <2>6, <2>7, <2>8 DEF CleanInv
<1>4. CASE Ready(p) \/ StartFails(p)
  <2>1. /\ UNCHANGED vars
        /\ \A q \in Procs \ {p} : run'[q] = run[q] /\ keys'[q] = keys[q]
        /\ run[p] = "starting" /\ run'[p] \in {"ready", "over"}
        /\ run'[p] = "ready" => Usable(p) /\ keys'[p] = KeyState(p)
    BY <1>4 DEF Ready, StartFails
  <2>2. \A c \in Calls : Current(c)'
    BY <1>1, <2>1 DEF vars, Current
  <2>3. \A q \in Procs : Found(q)' = Found(q)
    BY <2>1 DEF vars, Found, KeysIn
  <2>4. \A q \in Procs : Learned(q)'
    BY <1>1, <1>2, <2>1, <2>3 DEF vars, Learned
  <2>5. run'[p] = "ready" => file # Missing /\ KeysIn(file) = KeyState(p)
    <3>1. ASSUME Usable(p) PROVE file # Missing /\ KeysIn(file) = KeyState(p)
      <4>1. pc[<<p, "list">>] = "done"
        BY <3>1 DEF Usable, Done
      <4>2. Found(p) # {} => pc[<<p, "save">>] = "idle"
        BY <1>1 DEF InOrder
      <4>3. Found(p) = {} => pc[<<p, "save">>] = "done"
        BY <3>1 DEF Usable, Done
      <4>4. QED
        BY <1>1, <2>1, <4>1, <4>2, <4>3 DEF Learned, KeyState
    <3>2. QED
      BY <2>1, <3>1
  <2>6. \A q \in Procs : KeysHeld(q)'
    BY <1>1, <1>2, <2>1, <2>5 DEF vars, KeysHeld
  <2>7. \A q, t \in Procs : Beside(q, t)'
    <3> SUFFICES ASSUME NEW q \in Procs, NEW t \in Procs, run'[q] = "starting", run'[t] = "ready"
                 PROVE  pc'[<<q, "save">>] = "idle"
      BY DEF Beside
    <3>1. q # p /\ run[q] = "starting"
      BY <2>1
    <3>2. t # p
      <4>1. p \in Starting /\ q \in Starting /\ p \in Live
        BY <2>1, <3>1 DEF Starting, Live
      <4>2. QED
        BY <3>1, <4>1 DEF StartInv, TwoPrograms, Clean
    <3>3. QED
      BY <1>1, <2>1, <3>1, <3>2 DEF vars, Beside
  <2>8. QED
    BY <2>2, <2>4, <2>6, <2>7 DEF CleanInv
<1>5. CASE Stop(p)
  <2>1. /\ file' = file
        /\ \A c \in Calls : \/ pc'[c] = pc[c] /\ local'[c] = local[c]
                            \/ pc'[c] = "lost" /\ ProcOf[c] = p
        /\ run'[p] = "over" /\ \A q \in Procs \ {p} : run'[q] = run[q] /\ keys'[q] = keys[q]
    BY <1>5 DEF Stop, Crash
  <2>2. \A c \in Calls : Current(c)'
    BY <1>1, <2>1 DEF Current
  <2>3. ASSUME NEW q \in Procs \ {p}
        PROVE  /\ pc'[<<q, "list">>] = pc[<<q, "list">>] /\ pc'[<<q, "save">>] = pc[<<q, "save">>]
               /\ Found(q)' = Found(q)
    <3>1. <<q, "list">> \in Calls /\ <<q, "save">> \in Calls
          /\ ProcOf[<<q, "list">>] = q /\ ProcOf[<<q, "save">>] = q
      BY StartCalls DEF CallsOf
    <3>2. QED
      BY <2>1, <3>1 DEF Found, KeysIn
  <2>4. \A q \in Procs : Learned(q)'
    BY <1>1, <1>2, <2>1, <2>3 DEF Learned
  <2>5. \A q \in Procs : KeysHeld(q)'
    BY <1>1, <1>2, <2>1 DEF KeysHeld
  <2>6. \A q, t \in Procs : Beside(q, t)'
    <3> SUFFICES ASSUME NEW q \in Procs, NEW t \in Procs, run'[q] = "starting", run'[t] = "ready"
                 PROVE  pc'[<<q, "save">>] = "idle"
      BY DEF Beside
    <3>1. q # p /\ t # p
      BY <2>1
    <3>2. QED
      BY <1>1, <2>1, <2>3, <3>1 DEF Beside
  <2>7. QED
    BY <2>2, <2>4, <2>5, <2>6 DEF CleanInv
<1>6. QED
  BY <1>3, <1>4, <1>5

\* A call that is made only waits; a start beside a run that serves does not
\* save, as what it found is the keys of that run.
LEMMA CleanByCalls ==
  ASSUME Base, StartInv, Clean, NEW p \in Procs,
         NEW step \in (StartSteps \cup Changes) \ {"check"}, <<p, step>> \in Calls,
         Enqueue(<<p, step>>), UNCHANGED startVars,
         step \in StartSteps => run[p] = "starting",
         step = "save" => Done(p, "list") /\ Found(p) = {}
  PROVE  CleanInv'
<1> USE DEF Base, StartTypeOK, TypeOK
<1>1. /\ \A c \in Calls : Current(c)
      /\ \A q \in Procs : Learned(q) /\ KeysHeld(q)
      /\ \A q, t \in Procs : Beside(q, t)
  BY DEF StartInv, CleanInv
<1>2. /\ file' = file /\ local' = local /\ run' = run /\ keys' = keys
      /\ pc[<<p, step>>] = "idle" /\ pc'[<<p, step>>] = "waiting"
      /\ \A c \in Calls : c # <<p, step>> => pc'[c] = pc[c]
  BY DEF Enqueue, Goto, startVars
<1>3. \A c \in Calls : Current(c)'
  BY <1>1, <1>2 DEF Current
<1>4. \A q \in Procs : Found(q)' = Found(q) /\ KeysIn(file)' = KeysIn(file)
  BY <1>2 DEF Found, KeysIn
<1>5. ASSUME NEW q \in Procs
      PROVE  /\ <<q, "list">> \in Calls /\ <<q, "save">> \in Calls
             /\ pc'[<<q, "list">>] \in {pc[<<q, "list">>], "waiting"}
             /\ pc'[<<q, "list">>] = "waiting" \/ pc'[<<q, "list">>] = pc[<<q, "list">>]
             /\ pc'[<<q, "save">>] # pc[<<q, "save">>] =>
                  pc[<<q, "save">>] = "idle" /\ pc'[<<q, "save">>] = "waiting"
                  /\ q = p /\ step = "save"
  <2>1. <<q, "list">> \in Calls /\ <<q, "save">> \in Calls
    BY StartCalls DEF CallsOf
  <2>2. QED
    BY <1>2, <2>1
<1>6. \A q \in Procs : Learned(q)'
  BY <1>1, <1>2, <1>4, <1>5 DEF Learned
<1>7. \A q \in Procs : KeysHeld(q)'
  BY <1>1, <1>2, <1>4 DEF KeysHeld
<1>8. \A q, t \in Procs : Beside(q, t)'
  <2> SUFFICES ASSUME NEW q \in Procs, NEW t \in Procs, run[q] = "starting", run[t] = "ready"
               PROVE  pc'[<<q, "save">>] = "idle"
    BY <1>2 DEF Beside
  <2>1. pc[<<q, "save">>] = "idle"
    BY <1>1 DEF Beside
  <2>2. ~ (q = p /\ step = "save")
    <3> SUFFICES ASSUME q = p, step = "save" PROVE FALSE
      OBVIOUS
    <3>1. KeysIn(file) = {}
      BY <1>1, <2>1 DEF Learned, Done
    <3>2. KeysIn(file) = keys[t] /\ keys[t] # {}
      BY <1>1 DEF KeysHeld
    <3>3. QED
      BY <3>1, <3>2
  <2>3. QED
    BY <1>5, <2>1, <2>2
<1>9. QED
  BY <1>3, <1>6, <1>7, <1>8 DEF CleanInv

LEMMA CleanStep ==
  ASSUME Base, StartInv, Base', [StartNext]_allVars
  PROVE  CleanInv'
<1> SUFFICES ASSUME Clean' PROVE CleanInv'
  BY DEF CleanInv
<1>1. CASE ~ Clean
  <2>1. Live' = {}
    BY <1>1, CleanAgain
  <2>2. \A p \in Procs : InOrder(p)'
    BY OrderStep
  <2>3. \A c \in Calls : pc'[c] \notin InFlight
    <3> SUFFICES ASSUME NEW c \in Calls PROVE pc'[c] \notin InFlight
      OBVIOUS
    <3>1. ProcOf[c] \in Procs /\ c \in CallsOf(ProcOf[c])
      BY CallIs
    <3>2. QED
      BY <2>1, <2>2, <3>1 DEF InOrder
  <2>4. \A c \in Calls : Current(c)'
    BY <2>3 DEF Current, InFlight, Active, Waiting
  <2>5. \A p, q \in Procs : Learned(p)' /\ KeysHeld(p)' /\ Beside(p, q)'
    BY <2>1 DEF Learned, KeysHeld, Beside, Live
  <2>6. QED
    BY <2>4, <2>5 DEF CleanInv
<1>2. CASE Clean
  <2>1. ASSUME NEW p \in Procs, SeedRedirects(p) \/ ListKeys(p) \/ SaveKey(p) PROVE CleanInv'
    <3>1. PICK step \in {"redirects", "list", "save"} :
            /\ Enqueue(<<p, step>>) /\ <<p, step>> \in Calls /\ UNCHANGED startVars
            /\ run[p] = "starting"
            /\ step = "save" => Done(p, "list") /\ Found(p) = {}
      BY <2>1, StartCalls DEF SeedRedirects, ListKeys, SaveKey, CallsOf
    <3>2. step \in (StartSteps \cup Changes) \ {"check"}
      BY <3>1 DEF StartSteps
    <3>3. QED
      BY <1>2, <3>1, <3>2, CleanByCalls
  <2>2. ASSUME NEW p \in Procs, NEW step \in Changes, Change(p, step) PROVE CleanInv'
    <3>1. <<p, step>> \in Calls /\ step \notin StartSteps
      BY <2>2, OwnCalls, RunsAssumption DEF Change
    <3>2. step \in (StartSteps \cup Changes) \ {"check"} /\ step # "save"
      BY <3>1 DEF StartSteps
    <3>3. QED
      BY <1>2, <2>2, <3>1, <3>2, CleanByCalls DEF Change
  <2>3. ASSUME NEW c \in Calls, StoreStep(c) PROVE CleanInv'
    <3>1. \A d \in Calls : Current(d)'
      BY <1>2, <2>3, CurrentStep DEF StoreStep
    <3>2. \A p \in Procs : Learned(p)' /\ KeysHeld(p)'
      BY <1>2, <2>3, LearnedByStore, KeysHeldByStore
    <3>3. \A p, q \in Procs : Beside(p, q)'
      <4> SUFFICES ASSUME NEW p \in Procs, NEW q \in Procs,
                          run[p] = "starting", run[q] = "ready"
                   PROVE  pc'[<<p, "save">>] = "idle"
        BY <2>3 DEF StoreStep, startVars, Beside
      <4>1. <<p, "save">> \in Calls /\ pc[<<p, "save">>] = "idle"
        BY <1>2, StartCalls DEF CallsOf, StartInv, CleanInv, Beside
      <4>2. QED
        BY <2>3, <4>1, StepMoves DEF StoreStep, Base, InFlight, Waiting, Active
    <3>4. QED
      BY <3>1, <3>2, <3>3 DEF CleanInv
  <2>4. CASE UNCHANGED allVars
    BY <1>2, <2>4
       DEF StartInv, CleanInv, Current, Learned, KeysHeld, Beside, Found, KeysIn, allVars,
           startVars, vars
  <2>5. QED
    BY <1>2, <2>1, <2>2, <2>3, <2>4, CleanByRuns DEF StartNext
<1>3. QED
  BY <1>1, <1>2

LEMMA KeptStep ==
  ASSUME Base, StartInv, [StartNext]_allVars
  PROVE  Kept'
<1> USE DEF Base, StartTypeOK, TypeOK
<1> SUFFICES ASSUME overlapped' = {}, NEW d \in Calls, Kind[d] = "update",
                    pc'[d] \in {"settling", "done"}
             PROVE  file' # Missing /\ d \in file'
  BY DEF Kept
<1>1. overlapped = {}
  BY RunsChange DEF Start, Ready, StartFails, Stop
<1>2. Clean /\ (pc[d] \in {"settling", "done"} => file # Missing /\ d \in file)
  BY <1>1 DEF Clean, StartInv, Kept
<1>3. ASSUME NEW c \in Calls, StoreStep(c) PROVE file' # Missing /\ d \in file'
  <2>1. Step(c)
    BY <1>3 DEF StoreStep
  <2>2. CASE pc[d] \in {"settling", "done"}
    <3>1. pc[c] # "seeding"
      BY <1>2, <2>2 DEF StartInv, CleanInv, Current
    <3>2. CASE file' = file
      BY <1>2, <2>2, <3>2
    <3>3. CASE file' = Defaults \cup file \cup {c}
      <4>1. file' \in Contents /\ d \in file'
        BY <1>2, <2>2, <3>3 DEF Contents
      <4>2. QED
        BY <4>1, MarkersAssumption
    <3>4. QED
      BY <1>2, <2>1, <3>1, <3>2, <3>3, FileGrows
  <2>3. CASE pc[d] \notin {"settling", "done"}
    <3>1. c = d /\ pc'[d] = "settling"
      BY <2>1, <2>3, StepMoves
    <3>2. /\ pc[c] = "writing" /\ file # Missing /\ file' = Defaults \cup file \cup {c}
      BY <1>2, <2>1, <3>1, FileGrows
    <3>3. file' \in Contents /\ d \in file'
      BY <3>1, <3>2 DEF Contents
    <3>4. QED
      BY <3>3, MarkersAssumption
  <2>4. QED
    BY <2>2, <2>3
<1>4. ASSUME NEW c \in Calls, Enqueue(c) PROVE file' # Missing /\ d \in file'
  BY <1>2, <1>4 DEF Enqueue, Goto
<1>5. ASSUME NEW p \in Procs, Crash(p) PROVE file' # Missing /\ d \in file'
  BY <1>2, <1>5 DEF Crash
<1>6. ASSUME UNCHANGED vars PROVE file' # Missing /\ d \in file'
  BY <1>2, <1>6 DEF vars
<1>7. QED
  <2>1. ASSUME NEW p \in Procs, Start(p) \/ SeedRedirects(p) \/ ListKeys(p) \/ SaveKey(p)
        PROVE  file' # Missing /\ d \in file'
    <3>1. PICK step \in {"check", "redirects", "list", "save"} :
            <<p, step>> \in Calls /\ Enqueue(<<p, step>>)
      BY <2>1, StartCalls DEF Start, SeedRedirects, ListKeys, SaveKey, CallsOf
    <3>2. QED
      BY <1>4, <3>1
  <2>2. ASSUME NEW p \in Procs, NEW step \in Changes, Change(p, step)
        PROVE  file' # Missing /\ d \in file'
    BY <1>4, <2>2, OwnCalls DEF Change
  <2>3. ASSUME NEW p \in Procs, Ready(p) \/ StartFails(p) \/ Stop(p)
        PROVE  file' # Missing /\ d \in file'
    BY <1>5, <1>6, <2>3 DEF Ready, StartFails, Stop
  <2>4. UNCHANGED allVars => UNCHANGED vars
    BY DEF allVars, vars
  <2>5. QED
    BY <1>3, <1>6, <2>1, <2>2, <2>3, <2>4 DEF StartNext

LEMMA StartInvStep ==
  ASSUME Base, StartInv, Base', [StartNext]_allVars
  PROVE  StartInv'
BY OrderStep, TwoProgramsStep, FilledStep, CleanStep, KeptStep DEF StartInv

LEMMA StartInvAlways == StartSpec => [](Base /\ StartInv)
<1>1. StartSpec => []Base
  <2>1. TypeOK /\ TurnOrder /\ WholeStates /\ StartTypeOK => Base
    BY DEF Base, WholeStates
  <2>2. QED
    BY <2>1, StartsUseTheStore, TypeCorrect, StartTurnsAreKept, StartStatesAreWhole,
       KeysAreSavedKeys, PTL
<1>2. Base /\ StartInv /\ Base' /\ [StartNext]_allVars => StartInv'
  BY StartInvStep
<1>3. QED
  BY <1>1, <1>2, StartInvInit, PTL DEF StartSpec

\* Two serving runs hold the same keys, so each verifies what the other signs:
\* whatever fails, whatever is ended in the middle, and however often the
\* programs were started, unless two starts overlapped.
THEOREM ProgramsAgree == StartSpec => []Agree
<1>1. Base /\ StartInv => Agree
  <2> SUFFICES ASSUME Base, StartInv, NEW p \in Procs, NEW q \in Procs,
                      run[p] = "ready", p \notin overlapped,
                      run[q] = "ready", q \notin overlapped
               PROVE  keys[p] \subseteq keys[q]
    BY DEF Agree
  <2>1. Clean
    BY DEF StartInv, TwoPrograms, Clean, Live
  <2>2. KeysIn(file) = keys[p] /\ KeysIn(file) = keys[q]
    BY <2>1 DEF StartInv, CleanInv, KeysHeld
  <2>3. QED
    BY <2>2
<1>2. QED
  BY <1>1, StartInvAlways, PTL

\* Two processes write one file without a lock, and yet no answered update is
\* lost as long as no two starts overlapped.
THEOREM NoUpdateIsLost == StartSpec => []NothingLost
<1>1. StartInv => NothingLost
  BY DEF StartInv, Kept, NothingLost
<1>2. QED
  BY <1>1, StartInvAlways, PTL
=============================================================================
