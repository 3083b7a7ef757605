---------------------------- MODULE SigningKeys ----------------------------
(***************************************************************************)
(* How the api and the gateway start on one state file and come to their   *)
(* signing keys: apps/api/src/main.ts and buildApiContext, apps/gateway/   *)
(* src/main.ts and buildGatewayProxyRoutes, and createSigningKeyService.   *)
(* The keys are read once, at the start, and kept in memory: nothing in    *)
(* the program calls reload().  The two programs share the file and no     *)
(* lock (JsonFileStore), and docker-compose.yml starts them in any order.  *)
(*                                                                         *)
(* Procs are runs: a program that is started again is another run of it,   *)
(* with a store of its own.  A call of the store is <<run, step>>.  A key  *)
(* is named by the call that saves it.                                     *)
(***************************************************************************)
EXTENDS JsonFileStore

CONSTANTS Program,  \* Program[p]: "api" or "gateway"
          Changes   \* steps of a serving api: updates made for requests

StartSteps == {"check", "redirects", "list", "save"}

ASSUME RunsAssumption ==
  /\ Program \in [Procs -> {"api", "gateway"}]
  /\ Changes \cap StartSteps = {}
  /\ Calls = {c \in Procs \X (StartSteps \cup Changes) :
               Program[c[1]] = "gateway" => c[2] \in StartSteps \ {"redirects"}}
  /\ ProcOf = [c \in Calls |-> c[1]]
  /\ Kind = [c \in Calls |-> IF c[2] \in {"check", "list"} THEN "read" ELSE "update"]

VARIABLES run,       \* run[p]: "off", "starting", "ready" or "over"
          keys,      \* keys[p]: the keys p holds in memory
          overlapped \* history: runs that were starting while another was, and
                     \* those started while such a run lived

startVars == <<run, keys, overlapped>>
allVars   == <<vars, startVars>>

CallsOf(p)    == {c \in Calls : ProcOf[c] = p}
Done(p, step) == pc[<<p, step>>] = "done"
Starting      == {p \in Procs : run[p] = "starting"}
Live          == {p \in Procs : run[p] \in {"starting", "ready"}}

\* The keys among the contents of a state file.
KeysIn(content) == {c \in content \cap Calls : c[2] = "save"}

\* Mutant of Found: the file's keys are not looked at.
FoundNone(p) == {}

\* What listPublicKeys() answered p.
Found(p) == KeysIn(local[<<p, "list">>])

StartInit == /\ Init
             /\ run = [p \in Procs |-> "off"]
             /\ keys = [p \in Procs |-> {}]
             /\ overlapped = {}

-----------------------------------------------------------------------------
\* The program is started, which two runs of one program are not at a time:
\* it opens its store and reads it for the bootstrap account check.
Start(p) == /\ run[p] = "off"
            /\ \A q \in Live : Program[q] # Program[p]
            /\ run' = [run EXCEPT ![p] = "starting"]
            /\ overlapped' = IF Starting = {} /\ Live \cap overlapped = {} THEN overlapped
                             ELSE overlapped \cup Starting \cup {p}
            /\ Enqueue(<<p, "check">>)
            /\ UNCHANGED keys

\* ensureSeededClientRedirectUris, of the api alone: an update that writes
\* the file also when there was nothing to add.
SeedRedirects(p) == /\ run[p] = "starting" /\ Program[p] = "api"
                    /\ Done(p, "check")
                    /\ Enqueue(<<p, "redirects">>)
                    /\ UNCHANGED startVars

\* createSigningKeyService begins.
ListKeys(p) == /\ run[p] = "starting"
               /\ Done(p, IF Program[p] = "api" THEN "redirects" ELSE "check")
               /\ Enqueue(<<p, "list">>)
               /\ UNCHANGED startVars

\* No key was found: one is generated and saved.
SaveKey(p) == /\ run[p] = "starting"
              /\ Done(p, "list") /\ Found(p) = {}
              /\ Enqueue(<<p, "save">>)
              /\ UNCHANGED startVars

\* Mutant of Usable: the key is used before its save is answered.
UsableAtOnce(p) == /\ Done(p, "list")
                   /\ Found(p) # {} \/ pc[<<p, "save">>] # "idle"

\* The awaits of createSigningKeyService have returned.
Usable(p) == Done(p, "list") /\ (Found(p) # {} \/ Done(p, "save"))

\* Mutant of KeyState: the key just generated is not taken over.
KeyStateFound(p) == Found(p)

\* buildKeyState: the keys of the file, or the key just generated.  All are
\* active; the program signs with the first and verifies with any.
KeyState(p) == IF Found(p) = {} THEN {<<p, "save">>} ELSE Found(p)

\* The routes are built and the server listens.
Ready(p) == /\ run[p] = "starting"
            /\ Usable(p)
            /\ run' = [run EXCEPT ![p] = "ready"]
            /\ keys' = [keys EXCEPT ![p] = KeyState(p)]
            /\ UNCHANGED <<vars, overlapped>>

\* A call of the store was rejected or assertBootstrapAccountPolicy throws:
\* the start is given up and the process ends.
StartFails(p) == /\ run[p] = "starting"
                 /\ \/ \E c \in CallsOf(p) : pc[c] = "failed"
                    \/ \A c \in CallsOf(p) :
                          pc[c] = IF c[2] = "check" THEN "done" ELSE "idle"
                 /\ run' = [run EXCEPT ![p] = "over"]
                 /\ UNCHANGED <<vars, keys, overlapped>>

\* The process is ended, in the middle of whatever it does.
Stop(p) == /\ p \in Live
           /\ Crash(p)
           /\ run' = [run EXCEPT ![p] = "over"]
           /\ keys' = [keys EXCEPT ![p] = {}]
           /\ UNCHANGED overlapped

\* A request to the serving api changes the state.  The gateway's requests
\* only read it.
Change(p, step) == /\ run[p] = "ready" /\ Program[p] = "api"
                   /\ Enqueue(<<p, step>>)
                   /\ UNCHANGED startVars

StoreStep(c) == Step(c) /\ UNCHANGED startVars

StartNext == \/ \E p \in Procs :
                  \/ Start(p) \/ SeedRedirects(p) \/ ListKeys(p) \/ SaveKey(p)
                  \/ Ready(p) \/ StartFails(p) \/ Stop(p)
                  \/ \E step \in Changes : Change(p, step)
             \/ \E c \in Calls : StoreStep(c)

StartSpec == StartInit /\ [][StartNext]_allVars

-----------------------------------------------------------------------------
\* Runs hold keys that were saved, exactly while they serve.
StartTypeOK == /\ run \in [Procs -> {"off", "starting", "ready", "over"}]
               /\ keys \in [Procs -> SUBSET KeysIn(Calls)]
               /\ \A p \in Procs : run[p] = "ready" <=> keys[p] # {}
               /\ overlapped \subseteq Procs

\* A token that one program signs, the other verifies (keys in memory, read
\* once), if neither of them was starting while another run was: whichever
\* came first, whatever failed, and however often they were started.  A run
\* started beside an overlapped one is not covered: a change still under way
\* there may write back a state without the new run's key.
Agree == \A p, q \in Procs :
           /\ run[p] = "ready" /\ p \notin overlapped
           /\ run[q] = "ready" /\ q \notin overlapped
           => keys[p] \subseteq keys[q]

\* As long as no two runs were starting together, no answered update is ever
\* lost though two processes write one file: the gateway writes only before
\* it serves, and the api's changes wait for nobody.
NothingLost == overlapped = {} =>
                 \A c \in Calls : pc[c] = "done" /\ Kind[c] = "update" => c \in file
=============================================================================
