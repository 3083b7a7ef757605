--------------------------- MODULE BrokerProofs ---------------------------
(***************************************************************************)
(* Theorems about Broker for any providers, persons, accounts, starts and  *)
(* callbacks.                                                              *)
(***************************************************************************)
EXTENDS Broker, TLAPS

\* The awaits of a callback at which it holds the state record, those after
\* the state was removed, those after the ID token was verified, and those
\* at which it may have saved something.
Holding  == {"removeState", "handleCallback", "findLink", "findLinkedUser", "touchLink",
             "findByEmail", "saveUser", "link", "saveSession", "appendAudit"}
Consumed == Holding \ {"removeState"}
Verified == Consumed \ {"handleCallback"}
Labels   == {"idle", "saveState", "findState"} \cup Holding \cup Ended

Typed == /\ TypeOK
         /\ pc \in [Requests -> Labels]
         /\ \A s \in Starts : pc[s] \in {"idle", "saveState", "answered"}
         /\ asked \in [Requests -> StartParams \cup CallbackParams \cup {None}]

WorkspaceOf(start) == IF start.workspace = None THEN DefaultWorkspace ELSE start.workspace

HeldByStart(s) ==
  /\ pc[s] # "idle" => asked[s] # None
  /\ brokerStates[s] # None => /\ pc[s] = "answered"
                               /\ brokerStates[s].provider = asked[s].provider
                               /\ brokerStates[s].workspace = asked[s].workspace

\* What callback c came with.
Presented(c) ==
  /\ pc[c] = "idle" <=> asked[c] = None
  /\ asked[c] # None => /\ pc[asked[c].state] = "answered"
                        /\ asked[c].provider = ProviderOf[asked[c].profile]

\* What it holds at its awaits.
Carried(c) ==
  /\ pc[c] \in Holding =>
       /\ local[c] # None
       /\ local[c].state.provider = asked[asked[c].state].provider
       /\ local[c].state.workspace = asked[asked[c].state].workspace
  /\ pc[c] \in Consumed => /\ local[c].state.provider = asked[c].provider
                           /\ brokerStates[asked[c].state] = None
  /\ pc[c] \in Verified => asked[c].nonce = asked[c].state
  /\ pc[c] \in {"findLinkedUser", "touchLink", "link", "saveSession"} =>
       local[c].user # None /\ users[local[c].user] # None
  /\ pc[c] \in {"findLinkedUser", "touchLink", "saveSession"} =>
       local[c].user \in LinkedTo(asked[c].profile)

\* What it saved.
Left(c) ==
  /\ sessions[c] # None =>
       /\ pc[c] \in {"appendAudit"} \cup Ended
       /\ asked[c].nonce = asked[c].state
       /\ asked[asked[c].state].provider = ProviderOf[asked[c].profile]
       /\ brokerStates[asked[c].state] = None
       /\ \E u \in LinkedTo(asked[c].profile) :
            /\ users[u].subject = sessions[c].subject
            /\ users[u].workspace = sessions[c].workspace
  /\ users[c] # None =>
       /\ pc[c] \in {"link", "saveSession", "appendAudit"} \cup Ended
       /\ users[c].workspace = WorkspaceOf(asked[asked[c].state])
  /\ \A l \in providerLinks :
       l.id = c => pc[c] \in {"saveSession", "appendAudit"} \cup Ended

HeldByCallback(c) == Presented(c) /\ Carried(c) /\ Left(c)

Held == /\ \A s \in Starts : HeldByStart(s)
        /\ \A c \in Callbacks : HeldByCallback(c)
        /\ LinkedUsersExist

LEMMA TypedInit == Init => Typed
<1> SUFFICES ASSUME Init PROVE Typed
  OBVIOUS
<1>1. users \in [UserIds -> UserRecord \cup {None}]
  BY DataAssumption DEF Init, UserIds
<1>2. QED
  BY <1>1, NoneAssumption, NamesAssumption
     DEF Init, Typed, TypeOK, Requests, Labels, Holding, Ended

LEMMA HeldInit == Init => Held
<1> SUFFICES ASSUME Init PROVE Held
  OBVIOUS
<1>1. \A s \in Starts : HeldByStart(s)
  BY DEF Init, HeldByStart, Requests
<1>2. \A c \in Callbacks : HeldByCallback(c)
  BY NamesAssumption
     DEF Init, HeldByCallback, Presented, Carried, Left, Requests, UserIds,
         Holding, Consumed, Verified
<1>3. LinkedUsersExist
  BY DEF Init, LinkedUsersExist
<1>4. QED
  BY <1>1, <1>2, <1>3 DEF Held

-----------------------------------------------------------------------------
(* Types. *)

\* The start whose state a callback presents.
LEMMA PresentedStart ==
  ASSUME Typed, Held, NEW c \in Callbacks, pc[c] # "idle"
  PROVE  /\ asked[c] \in CallbackParams /\ asked[c].state \in Starts
         /\ asked[c].profile \in Profiles /\ asked[c].provider \in Providers
         /\ asked[asked[c].state] \in StartParams
         /\ pc[asked[c].state] = "answered"
<1>1. asked[c] \in CallbackParams
  BY DEF Typed, TypeOK, Held, HeldByCallback, Presented
<1>2. asked[c].state \in Starts /\ pc[asked[c].state] = "answered"
  BY <1>1, NoneAssumption DEF CallbackParams, Held, HeldByCallback, Presented
<1>3. asked[asked[c].state] \in StartParams
  BY <1>2 DEF Typed, TypeOK, Held, HeldByStart
<1>4. QED
  BY <1>1, <1>2, <1>3 DEF CallbackParams

LEMMA HeldRecord ==
  ASSUME Typed, Held, NEW c \in Callbacks, pc[c] \in Holding
  PROVE  /\ local[c] \in LocalRecord /\ local[c].state \in StateRecord
         /\ \A u \in UserIds : LET held == [local[c] EXCEPT !.user = u] IN
              /\ held \in LocalRecord /\ held # None
              /\ held.user = u /\ held.state = local[c].state
<1>1. local[c] \in LocalRecord
  BY DEF Typed, TypeOK, Held, HeldByCallback, Carried
<1>2. QED
  BY <1>1, NoneAssumption DEF LocalRecord

LEMMA NewUserType ==
  ASSUME NEW p \in Profiles, NEW workspace \in Workspaces \cup {None}
  PROVE  NewUser(p, workspace) \in UserRecord /\ NewUser(p, workspace) # None
<1>1. NewUser(p, workspace) \in UserRecord
  BY DataAssumption DEF NewUser, UserRecord
<1>2. QED
  BY <1>1, NamesAssumption

StepOf(c) == \/ CallbackArrives(c) \/ FindState(c) \/ RemoveState(c) \/ HandleCallback(c)
             \/ FindLink(c) \/ FindLinkedUser(c) \/ TouchLink(c) \/ FindByEmail(c)
             \/ SaveUser(c) \/ Link(c) \/ SaveSession(c) \/ AppendAudit(c) \/ Abandon(c)

\* The parameters of a callback that arrives.
LEMMA Arrived ==
  ASSUME Typed, NEW c \in Callbacks, CallbackArrives(c)
  PROVE  \E s, n \in Starts, p \in Profiles, params \in CallbackParams :
           /\ pc[s] = "answered" /\ params # None
           /\ asked' = [asked EXCEPT ![c] = params]
           /\ params.provider = ProviderOf[p] /\ params.state = s
           /\ params.profile = p /\ params.nonce = n
           /\ params.spentBefore = Spent(s)
           /\ params.linkedBefore = LinkedTo(p)
           /\ params.emailBefore = (EmailOf[p] # None /\ WithEmail(EmailOf[p]) # {})
<1>1. PICK s \in Starts, n \in Starts, p \in Profiles :
        /\ pc[s] = "answered"
        /\ asked' = [asked EXCEPT ![c] =
             [provider |-> ProviderOf[p], state |-> s, profile |-> p, nonce |-> n,
              spentBefore  |-> Spent(s),
              linkedBefore |-> LinkedTo(p),
              emailBefore  |-> EmailOf[p] # None /\ WithEmail(EmailOf[p]) # {}]]
  BY DEF CallbackArrives
<1> DEFINE params == [provider |-> ProviderOf[p], state |-> s, profile |-> p, nonce |-> n,
              spentBefore  |-> Spent(s),
              linkedBefore |-> LinkedTo(p),
              emailBefore  |-> EmailOf[p] # None /\ WithEmail(EmailOf[p]) # {}]
<1>2. Spent(s) \in BOOLEAN /\ LinkedTo(p) \subseteq UserIds
  BY DEF Spent, LinkedTo, Typed, TypeOK
<1>3. params \in CallbackParams
  BY <1>2, DataAssumption DEF CallbackParams
<1>4. params # None
  BY <1>3, NoneAssumption
<1>5. QED
  BY <1>1, <1>3, <1>4

LEMMA TypedStep == Typed /\ Held /\ [Next]_vars => Typed'
<1> SUFFICES ASSUME Typed, Held, [Next]_vars PROVE Typed'
  OBVIOUS
<1> USE NamesAssumption
    DEF Typed, TypeOK, stores, Goto, Return, Refuse, Keep
<1> USE DEF Labels, Holding, Ended, Requests
<1>1. CASE Tick \/ UNCHANGED vars
  BY <1>1 DEF Tick, vars
<1>2. ASSUME NEW s \in Starts, StartArrives(s) PROVE Typed'
  <2>1. PICK p \in Providers, w \in Workspaces \cup {None} :
          asked' = [asked EXCEPT ![s] = [provider |-> p, workspace |-> w]]
    BY <1>2 DEF StartArrives
  <2>2. [provider |-> p, workspace |-> w] \in StartParams
    BY DEF StartParams
  <2>3. QED
    BY <1>2, <2>1, <2>2 DEF StartArrives
<1>3. ASSUME NEW s \in Starts, SaveState(s) PROVE Typed'
  <2>1. asked[s] \in StartParams
    BY <1>3 DEF SaveState, Held, HeldByStart
  <2>2. [provider |-> asked[s].provider, workspace |-> asked[s].workspace,
         expiresAt |-> at[s] + StateTTL] \in StateRecord
    BY <2>1, DataAssumption DEF StateRecord, StartParams
  <2>3. QED
    BY <1>3, <2>2 DEF SaveState
<1>4. ASSUME NEW c \in Callbacks, CallbackArrives(c) PROVE Typed'
  <2>1. PICK params \in CallbackParams : asked' = [asked EXCEPT ![c] = params]
    BY <1>4, Arrived
  <2>2. QED
    BY <1>4, <2>1 DEF CallbackArrives
<1>5. ASSUME NEW c \in Callbacks, FindState(c) PROVE Typed'
  <2>1. asked[c].state \in Starts
    BY <1>5, PresentedStart DEF FindState
  <2>2. brokerStates[asked[c].state] # None =>
          [state |-> brokerStates[asked[c].state], user |-> None] \in LocalRecord
    BY <2>1 DEF LocalRecord
  <2>3. QED
    BY <1>5, <2>2 DEF FindState
<1>6. ASSUME NEW c \in Callbacks,
             RemoveState(c) \/ HandleCallback(c) \/ FindLinkedUser(c) \/ TouchLink(c)
             \/ AppendAudit(c) \/ Abandon(c)
      PROVE  Typed'
  BY <1>6 DEF RemoveState, HandleCallback, FindLinkedUser, TouchLink, AppendAudit, Abandon
<1>7. ASSUME NEW c \in Callbacks, FindLink(c) PROVE Typed'
  <2>1. \A u \in UserIds : [local[c] EXCEPT !.user = u] \in LocalRecord
    BY <1>7, HeldRecord DEF FindLink
  <2>2. LinkedTo(asked[c].profile) \subseteq UserIds
    BY DEF LinkedTo
  <2>3. QED
    BY <1>7, <2>1, <2>2 DEF FindLink
<1>8. ASSUME NEW c \in Callbacks, FindByEmail(c) PROVE Typed'
  <2>1. \A u \in UserIds : [local[c] EXCEPT !.user = u] \in LocalRecord
    BY <1>8, HeldRecord DEF FindByEmail
  <2>2. WithEmail(EmailOf[asked[c].profile]) \subseteq UserIds
    BY DEF WithEmail
  <2>3. QED
    BY <1>8, <2>1, <2>2 DEF FindByEmail
<1>9. ASSUME NEW c \in Callbacks, SaveUser(c) PROVE Typed'
  <2>1. /\ [local[c] EXCEPT !.user = c] \in LocalRecord
        /\ local[c].state.workspace \in Workspaces \cup {None}
    BY <1>9, HeldRecord DEF SaveUser, StateRecord, UserIds
  <2>2. NewUser(asked[c].profile, local[c].state.workspace) \in UserRecord
    BY <1>9, <2>1, PresentedStart, NewUserType DEF SaveUser
  <2>3. QED
    BY <1>9, <2>1, <2>2 DEF SaveUser
<1>10. ASSUME NEW c \in Callbacks, Link(c) PROVE Typed'
  <2>1. local[c].user \in UserIds /\ asked[c].profile \in Profiles
    BY <1>10, PresentedStart, HeldRecord DEF Link, LocalRecord, Held, HeldByCallback, Carried
  <2>2. QED
    BY <1>10, <2>1 DEF Link
<1>11. ASSUME NEW c \in Callbacks, SaveSession(c) PROVE Typed'
  <2>1. users[local[c].user] \in UserRecord
    BY <1>11, HeldRecord DEF SaveSession, LocalRecord, Held, HeldByCallback, Carried
  <2>2. [subject |-> users[local[c].user].subject,
         workspace |-> users[local[c].user].workspace] \in SessionRecord
    BY <2>1 DEF UserRecord, SessionRecord
  <2>3. QED
    BY <1>11, <2>2 DEF SaveSession
<1>12. QED
  BY <1>1, <1>2, <1>3, <1>4, <1>5, <1>6, <1>7, <1>8, <1>9, <1>10, <1>11 DEF Next

-----------------------------------------------------------------------------
(* Frames: what no step takes back, and what a step of one request leaves  *)
(* to the others.                                                          *)

\* An account, once saved, is not saved again: SaveUser makes a new one.
LEMMA AccountsStay ==
  ASSUME Typed, Held, [Next]_vars, NEW u \in UserIds, users[u] # None
  PROVE  users'[u] = users[u]
<1>1. ASSUME NEW c \in Callbacks, SaveUser(c) PROVE users'[u] = users[u]
  <2>1. users[c] = None
    BY <1>1 DEF SaveUser, Held, HeldByCallback, Left, Ended
  <2>2. QED
    BY <1>1, <2>1 DEF SaveUser, Typed, TypeOK
<1>2. QED
  BY <1>1
     DEF Next, vars, stores, Tick, StartArrives, SaveState, CallbackArrives, FindState,
         RemoveState, HandleCallback, FindLink, FindLinkedUser, TouchLink, FindByEmail,
         Link, SaveSession, AppendAudit, Abandon

LEMMA LinksStay ==
  ASSUME [Next]_vars
  PROVE  providerLinks \subseteq providerLinks'
BY DEF Next, vars, stores, Tick, StartArrives, SaveState, CallbackArrives, FindState,
       RemoveState, HandleCallback, FindLink, FindLinkedUser, TouchLink, FindByEmail,
       SaveUser, Link, SaveSession, AppendAudit, Abandon

\* A start that answered is over, and its state is consumed for good.
LEMMA StartsStay ==
  ASSUME Typed, Held, [Next]_vars, NEW s \in Starts, pc[s] = "answered"
  PROVE  /\ pc'[s] = "answered" /\ asked'[s] = asked[s]
         /\ brokerStates[s] = None => brokerStates'[s] = None
<1> USE NamesAssumption DEF Typed, TypeOK, stores, Goto, Return, Refuse, Requests
<1>1. CASE Tick \/ UNCHANGED vars
  BY <1>1 DEF Tick, vars
<1>2. ASSUME NEW q \in Starts, StartArrives(q) \/ SaveState(q)
      PROVE  /\ pc'[s] = "answered" /\ asked'[s] = asked[s]
             /\ brokerStates'[s] = brokerStates[s]
  BY <1>2 DEF StartArrives, SaveState
<1>3. ASSUME NEW c \in Callbacks, StepOf(c)
      PROVE  /\ pc'[s] = "answered" /\ asked'[s] = asked[s]
             /\ brokerStates[s] = None => brokerStates'[s] = None
  <2>1. c # s
    OBVIOUS
  <2>2. CASE CallbackArrives(c) \/ FindState(c) \/ RemoveState(c) \/ HandleCallback(c)
    BY <2>1, <2>2 DEF CallbackArrives, FindState, RemoveState, HandleCallback
  <2>3. CASE FindLink(c) \/ FindLinkedUser(c) \/ TouchLink(c) \/ FindByEmail(c)
    BY <2>1, <2>3 DEF FindLink, FindLinkedUser, TouchLink, FindByEmail
  <2>4. CASE SaveUser(c) \/ Link(c) \/ SaveSession(c) \/ AppendAudit(c) \/ Abandon(c)
    BY <2>1, <2>4 DEF SaveUser, Link, SaveSession, AppendAudit, Abandon
  <2>5. QED
    BY <1>3, <2>2, <2>3, <2>4 DEF StepOf
<1>4. QED
  BY <1>1, <1>2, <1>3 DEF Next, StepOf

Same(c) == /\ pc'[c] = pc[c] /\ asked'[c] = asked[c] /\ local'[c] = local[c]
           /\ sessions'[c] = sessions[c] /\ users'[c] = users[c]
           /\ \A l \in providerLinks' : l.id = c => l \in providerLinks

LEMMA OthersKept ==
  ASSUME Typed, [Next]_vars, NEW c \in Callbacks, ~StepOf(c)
  PROVE  Same(c)
<1> USE NamesAssumption DEF Typed, TypeOK, Same, stores, Goto, Return, Refuse, Keep, Requests
<1> USE DEF UserIds
<1>1. CASE Tick \/ UNCHANGED vars
  BY <1>1 DEF Tick, vars
<1>2. ASSUME NEW s \in Starts, StartArrives(s) \/ SaveState(s) PROVE Same(c)
  BY <1>2 DEF StartArrives, SaveState
<1>3. ASSUME NEW d \in Callbacks, d # c,
             CallbackArrives(d) \/ FindState(d) \/ RemoveState(d) \/ HandleCallback(d)
      PROVE  Same(c)
  BY <1>3 DEF CallbackArrives, FindState, RemoveState, HandleCallback
<1>4. ASSUME NEW d \in Callbacks, d # c,
             FindLink(d) \/ FindLinkedUser(d) \/ TouchLink(d) \/ FindByEmail(d)
      PROVE  Same(c)
  BY <1>4 DEF FindLink, FindLinkedUser, TouchLink, FindByEmail
<1>5. ASSUME NEW d \in Callbacks, d # c,
             SaveUser(d) \/ Link(d) \/ SaveSession(d) \/ AppendAudit(d) \/ Abandon(d)
      PROVE  Same(c)
  BY <1>5 DEF SaveUser, Link, SaveSession, AppendAudit, Abandon
<1>6. QED
  BY <1>1, <1>2, <1>3, <1>4, <1>5 DEF Next, StepOf

-----------------------------------------------------------------------------
(* The invariant holds at every step. *)

\* The link a callback holds and the accounts it names stay.
LEMMA LinkedStays ==
  ASSUME Typed, Held, [Next]_vars, NEW p, NEW u \in LinkedTo(p)
  PROVE  /\ u \in LinkedTo(p)' /\ u \in UserIds
         /\ users[u] # None /\ users'[u] = users[u]
<1>1. u \in UserIds /\ users[u] # None
  BY DEF LinkedTo, Typed, TypeOK, Held, LinkedUsersExist
<1>2. u \in LinkedTo(p)'
  BY LinksStay DEF LinkedTo
<1>3. QED
  BY <1>1, <1>2, AccountsStay

LEMMA HeldByOthers ==
  ASSUME Typed, Held, [Next]_vars, NEW c \in Callbacks, ~StepOf(c)
  PROVE  HeldByCallback(c)'
<1>1. Same(c)
  BY OthersKept
<1>2. HeldByCallback(c)
  BY DEF Held
<1>3. CASE asked[c] = None
  <2>1. pc[c] = "idle" /\ pc'[c] = "idle" /\ asked'[c] = None
    BY <1>1, <1>2, <1>3 DEF Same, HeldByCallback, Presented
  <2>2. /\ sessions'[c] = None /\ users'[c] = None
        /\ \A l \in providerLinks' : l.id # c
    BY <1>1, <1>2, <2>1 DEF Same, HeldByCallback, Left, Ended
  <2>3. QED
    BY <2>1, <2>2 DEF HeldByCallback, Presented, Carried, Left, Holding, Consumed, Verified
<1>4. CASE asked[c] # None
  <2>1. PICK s \in Starts, p \in Profiles : s = asked[c].state /\ p = asked[c].profile
    BY <1>2, <1>4, PresentedStart DEF HeldByCallback, Presented
  <2>2. /\ asked'[c] = asked[c] /\ pc[s] = "answered"
        /\ pc'[s] = "answered" /\ asked'[s] = asked[s]
        /\ brokerStates[s] = None => brokerStates'[s] = None
    BY <1>1, <1>2, <1>4, <2>1, StartsStay DEF HeldByCallback, Presented, Same
  <2>3. \A u \in LinkedTo(p) : u \in LinkedTo(p)' /\ users'[u] = users[u]
    BY LinkedStays
  <2>4. Presented(c)'
    BY <1>1, <1>2, <2>1, <2>2 DEF Same, HeldByCallback, Presented
  <2>5. Carried(c)'
    <3>1. Carried(c) /\ pc'[c] = pc[c] /\ local'[c] = local[c]
      BY <1>1, <1>2 DEF HeldByCallback, Same
    <3>2. pc[c] \in {"findLinkedUser", "touchLink", "link", "saveSession"} =>
            local[c].user # None /\ users'[local[c].user] # None
      <4>1. pc[c] \in {"findLinkedUser", "touchLink", "link", "saveSession"} =>
              local[c].user \in UserIds
        BY <3>1, HeldRecord DEF Holding, LocalRecord, Carried
      <4>2. QED
        BY <3>1, <4>1, AccountsStay DEF Carried
    <3>3. pc[c] \in {"findLinkedUser", "touchLink", "saveSession"} =>
            local[c].user \in LinkedTo(p)'
      BY <2>1, <2>3, <3>1 DEF Carried
    <3>4. QED
      BY <2>1, <2>2, <3>1, <3>2, <3>3 DEF Carried
  <2>6. Left(c)'
    <3>1. Left(c) /\ pc'[c] = pc[c] /\ sessions'[c] = sessions[c] /\ users'[c] = users[c]
      BY <1>1, <1>2 DEF HeldByCallback, Same
    <3>2. sessions[c] # None =>
            \E u \in LinkedTo(p)' : /\ users'[u].subject = sessions[c].subject
                                    /\ users'[u].workspace = sessions[c].workspace
      BY <2>1, <2>3, <3>1 DEF Left
    <3>3. \A l \in providerLinks' :
            l.id = c => pc[c] \in {"saveSession", "appendAudit"} \cup Ended
      BY <1>1, <3>1 DEF Left, Same
    <3>4. QED
      BY <2>1, <2>2, <3>1, <3>2, <3>3 DEF Left, WorkspaceOf
  <2>7. QED
    BY <2>4, <2>5, <2>6 DEF HeldByCallback
<1>5. QED
  BY <1>3, <1>4

LEMMA HeldByItself ==
  ASSUME Typed, Held, [Next]_vars, NEW c \in Callbacks, StepOf(c)
  PROVE  HeldByCallback(c)'
<1> USE NamesAssumption DEF stores, Goto, Return, Refuse, Keep, Requests, UserIds
<1>1. HeldByCallback(c) /\ Typed'
  BY TypedStep DEF Held
<1>2. CASE CallbackArrives(c)
  <2>1. PICK s \in Starts, p \in Profiles, params \in CallbackParams :
          /\ pc[s] = "answered" /\ params # None
          /\ asked' = [asked EXCEPT ![c] = params]
          /\ params.provider = ProviderOf[p] /\ params.state = s /\ params.profile = p
    BY <1>2, Arrived DEF Held
  <2>2. /\ asked'[c].provider = ProviderOf[p] /\ asked'[c].state = s
        /\ asked'[c].profile = p /\ asked'[c] # None
    BY <2>1 DEF Typed
  <2>3. /\ pc[c] = "idle" /\ pc' = [pc EXCEPT ![c] = "findState"]
        /\ UNCHANGED <<stores, local>>
    BY <1>2 DEF CallbackArrives
  <2>4. pc'[c] = "findState" /\ pc'[s] = "answered"
    BY <2>1, <2>3 DEF Typed
  <2>5. sessions'[c] = None /\ users'[c] = None /\ \A l \in providerLinks' : l.id # c
    BY <1>1, <2>3 DEF HeldByCallback, Left, Ended
  <2>6. QED
    BY <2>2, <2>4, <2>5
       DEF HeldByCallback, Presented, Carried, Left, Holding, Consumed, Verified
<1>3. CASE ~CallbackArrives(c)
  <2>1. PICK s \in Starts, p \in Profiles : s = asked[c].state /\ p = asked[c].profile
    BY <1>3, PresentedStart DEF StepOf, FindState, RemoveState, HandleCallback, FindLink,
       FindLinkedUser, TouchLink, FindByEmail, SaveUser, Link, SaveSession, AppendAudit,
       Abandon
  <2>2. /\ pc[c] # "idle" /\ asked[c] \in CallbackParams /\ asked[c] # None
        /\ pc[s] = "answered" /\ pc'[s] = "answered" /\ asked'[s] = asked[s]
        /\ asked[c].provider = ProviderOf[p]
        /\ brokerStates[s] = None => brokerStates'[s] = None
    <3>1. pc[c] # "idle"
      BY <1>3 DEF StepOf, FindState, RemoveState, HandleCallback, FindLink,
         FindLinkedUser, TouchLink, FindByEmail, SaveUser, Link, SaveSession, AppendAudit,
         Abandon
    <3>2. QED
      BY <1>1, <2>1, <3>1, PresentedStart, StartsStay, NoneAssumption
         DEF HeldByCallback, Presented
  <2>3. \A u \in LinkedTo(p) :
          /\ u \in LinkedTo(p)' /\ u \in UserIds
          /\ users[u] # None /\ users'[u] = users[u]
    BY LinkedStays
  <2>4. UNCHANGED asked /\ pc'[c] # "idle"
    BY <1>3 DEF StepOf, Typed, FindState, RemoveState, HandleCallback, FindLink,
       FindLinkedUser, TouchLink, FindByEmail, SaveUser, Link, SaveSession, AppendAudit,
       Abandon
  <2>5. Presented(c)'
    BY <2>1, <2>2, <2>4 DEF Presented
  <2>6. Carried(c)'
    <3> USE <2>1, <2>2, <2>4 DEF Carried, Typed, TypeOK, Holding, Consumed, Verified, Ended
    <3>1. CASE FindState(c)
      <4>1. /\ brokerStates[s] # None => /\ brokerStates[s].provider = asked[s].provider
                                         /\ brokerStates[s].workspace = asked[s].workspace
        BY DEF Held, HeldByStart
      <4>2. CASE pc'[c] = "removeState"
        <5>1. local'[c] = [state |-> brokerStates[s], user |-> None]
              /\ brokerStates[s] # None
          BY <3>1, <4>2 DEF FindState
        <5>2. local'[c] # None
          BY <5>1, NoneAssumption DEF LocalRecord
        <5>3. QED
          BY <4>1, <4>2, <5>1, <5>2
      <4>3. CASE pc'[c] # "removeState"
        BY <3>1, <4>3 DEF FindState
      <4>4. QED
        BY <4>2, <4>3
    <3>2. CASE RemoveState(c)
      BY <1>1, <3>2 DEF RemoveState, HeldByCallback
    <3>3. CASE HandleCallback(c)
      BY <1>1, <3>3 DEF HandleCallback, HeldByCallback
    <3>4. CASE FindLink(c)
      <4>1. CASE \E u \in LinkedTo(p) :
                   /\ local' = [local EXCEPT ![c] = [local[c] EXCEPT !.user = u]]
                   /\ pc' = [pc EXCEPT ![c] = "findLinkedUser"]
        <5>1. PICK u \in LinkedTo(p) :
                /\ local' = [local EXCEPT ![c] = [local[c] EXCEPT !.user = u]]
                /\ pc' = [pc EXCEPT ![c] = "findLinkedUser"]
          BY <4>1
        <5>2. /\ local'[c] # None /\ local'[c].user = u
              /\ local'[c].state = local[c].state /\ u # None
          BY <3>4, <5>1, <2>3, HeldRecord DEF FindLink
        <5>3. u \in LinkedTo(p)' /\ users'[u] # None
          BY <2>3
        <5>4. Verified \subseteq Consumed /\ "findLinkedUser" \in Verified
          OBVIOUS
        <5>5. QED
          BY <1>1, <3>4, <5>1, <5>2, <5>3 DEF FindLink, HeldByCallback
      <4>2. CASE /\ UNCHANGED local
                 /\ pc' = [pc EXCEPT ![c] = IF EmailOf[p] = None THEN "saveUser"
                                            ELSE "findByEmail"]
        BY <1>1, <3>4, <4>2 DEF FindLink, HeldByCallback
      <4>3. QED
        BY <3>4, <4>1, <4>2 DEF FindLink
    <3>5. CASE FindByEmail(c)
      <4>1. CASE \E u \in WithEmail(EmailOf[p]) :
                   /\ local' = [local EXCEPT ![c] = [local[c] EXCEPT !.user = u]]
                   /\ pc' = [pc EXCEPT ![c] = "link"]
        <5>1. PICK u \in WithEmail(EmailOf[p]) :
                /\ local' = [local EXCEPT ![c] = [local[c] EXCEPT !.user = u]]
                /\ pc' = [pc EXCEPT ![c] = "link"]
          BY <4>1
        <5>2. u \in UserIds /\ users[u] # None
          BY DEF WithEmail
        <5>3. /\ local'[c] # None /\ local'[c].user = u
              /\ local'[c].state = local[c].state /\ u # None
          BY <3>5, <5>1, <5>2, HeldRecord DEF FindByEmail
        <5>4. QED
          BY <1>1, <3>5, <5>1, <5>2, <5>3 DEF FindByEmail, HeldByCallback
      <4>2. CASE UNCHANGED local /\ pc' = [pc EXCEPT ![c] = "saveUser"]
        BY <1>1, <3>5, <4>2 DEF FindByEmail, HeldByCallback
      <4>3. QED
        BY <3>5, <4>1, <4>2 DEF FindByEmail
    <3>6. CASE FindLinkedUser(c) \/ TouchLink(c)
      BY <1>1, <2>3, <3>6 DEF FindLinkedUser, TouchLink, HeldByCallback
    <3>7. CASE SaveUser(c) \/ Link(c)
      <4>1. CASE SaveUser(c)
        <5>1. /\ local' = [local EXCEPT ![c] = [local[c] EXCEPT !.user = c]]
              /\ pc' = [pc EXCEPT ![c] = "link"] /\ pc[c] = "saveUser"
              /\ UNCHANGED brokerStates
              /\ users' = [users EXCEPT ![c] = NewUser(p, local[c].state.workspace)]
          BY <4>1 DEF SaveUser
        <5>2. /\ local'[c] # None /\ local'[c].user = c
              /\ local'[c].state = local[c].state /\ c # None
          BY <5>1, HeldRecord
        <5>3. users'[c] # None
          BY <5>1, HeldRecord, NewUserType DEF StateRecord
        <5>4. QED
          BY <1>1, <5>1, <5>2, <5>3 DEF HeldByCallback
      <4>2. CASE Link(c)
        <5>1. local[c].user \in LinkedTo(p)'
          <6>1. [id |-> c, user |-> local[c].user, profile |-> p] \in providerLinks'
            BY <4>2 DEF Link
          <6>2. QED
            BY <6>1 DEF LinkedTo
        <5>2. QED
          BY <1>1, <4>2, <5>1 DEF Link, HeldByCallback
      <4>3. QED
        BY <3>7, <4>1, <4>2
    <3>8. CASE SaveSession(c) \/ AppendAudit(c) \/ Abandon(c)
      BY <1>1, <3>8 DEF SaveSession, AppendAudit, Abandon, HeldByCallback
    <3>9. QED
      BY <1>3, <3>1, <3>2, <3>3, <3>4, <3>5, <3>6, <3>7, <3>8 DEF StepOf
  <2>7. Left(c)'
    <3> USE <2>1, <2>2, <2>4 DEF Left, Ended
    <3>1. CASE SaveSession(c)
      <4>1. /\ local[c] # None /\ local[c].user \in LinkedTo(p)
            /\ asked[c].nonce = s /\ asked[s].provider = ProviderOf[p]
            /\ brokerStates'[s] = None
        BY <1>1, <3>1 DEF SaveSession, HeldByCallback, Carried, Holding, Consumed, Verified
      <4>2. /\ pc'[c] = "appendAudit" /\ users' = users /\ providerLinks' = providerLinks
            /\ sessions'[c] = [subject |-> users[local[c].user].subject,
                               workspace |-> users[local[c].user].workspace]
        BY <3>1 DEF SaveSession, Typed, TypeOK
      <4>3. \E u \in LinkedTo(p)' : /\ users'[u].subject = sessions'[c].subject
                                    /\ users'[u].workspace = sessions'[c].workspace
        BY <2>3, <4>1, <4>2
      <4>4. QED
        BY <1>1, <3>1, <4>1, <4>2, <4>3 DEF SaveSession, HeldByCallback, WorkspaceOf
    <3>2. CASE SaveUser(c)
      <4>1. /\ local[c].state.workspace = asked[s].workspace /\ sessions[c] = None
            /\ \A l \in providerLinks : l.id # c
        BY <1>1, <3>2 DEF SaveUser, HeldByCallback, Carried, Holding
      <4>2. /\ pc'[c] = "link" /\ sessions' = sessions /\ providerLinks' = providerLinks
            /\ users'[c] = NewUser(p, asked[s].workspace)
        BY <3>2, <4>1 DEF SaveUser, Typed, TypeOK
      <4>3. QED
        BY <4>1, <4>2 DEF NewUser, WorkspaceOf
    <3>3. CASE Link(c)
      <4>1. sessions[c] = None /\ sessions' = sessions /\ users' = users
            /\ pc[c] = "link" /\ pc'[c] = "saveSession"
        BY <1>1, <3>3 DEF Link, HeldByCallback, Typed
      <4>2. QED
        BY <1>1, <4>1 DEF HeldByCallback, WorkspaceOf
    <3>4. CASE ~SaveSession(c) /\ ~SaveUser(c) /\ ~Link(c)
      <4>1. /\ UNCHANGED <<sessions, users, providerLinks>>
            /\ pc[c] \in {"link", "saveSession"} =>
                 pc'[c] = "refused"
            /\ pc[c] = "appendAudit" => pc'[c] \in Ended
            /\ pc[c] \notin Ended
        BY <1>3, <3>4
           DEF StepOf, Typed, FindState, RemoveState, HandleCallback, FindLink,
               FindLinkedUser, TouchLink, FindByEmail, AppendAudit, Abandon
      <4>2. QED
        BY <1>1, <4>1 DEF HeldByCallback, WorkspaceOf, LinkedTo
    <3>5. QED
      BY <3>1, <3>2, <3>3, <3>4
  <2>8. QED
    BY <2>5, <2>6, <2>7 DEF HeldByCallback
<1>4. QED
  BY <1>2, <1>3

LEMMA HeldByStarts ==
  ASSUME Typed, Held, [Next]_vars, NEW s \in Starts
  PROVE  HeldByStart(s)'
<1> USE NamesAssumption
    DEF Typed, TypeOK, stores, Goto, Return, Refuse, Requests, Held, HeldByStart
<1>1. CASE Tick \/ UNCHANGED vars
  BY <1>1 DEF Tick, vars
<1>2. ASSUME NEW q \in Starts, StartArrives(q) PROVE HeldByStart(s)'
  <2>1. PICK p \in Providers, w \in Workspaces \cup {None} :
          asked' = [asked EXCEPT ![q] = [provider |-> p, workspace |-> w]]
    BY <1>2 DEF StartArrives
  <2>2. [provider |-> p, workspace |-> w] # None
    BY NoneAssumption DEF StartParams
  <2>3. QED
    BY <1>2, <2>1, <2>2 DEF StartArrives
<1>3. ASSUME NEW q \in Starts, SaveState(q) PROVE HeldByStart(s)'
  BY <1>3 DEF SaveState
<1>4. ASSUME NEW c \in Callbacks, StepOf(c) PROVE HeldByStart(s)'
  <2>1. c # s /\ c \in Requests
    OBVIOUS
  <2>2. CASE CallbackArrives(c) \/ FindState(c)
    <3>1. pc'[s] = pc[s] /\ asked'[s] = asked[s] /\ brokerStates'[s] = brokerStates[s]
      BY <2>1, <2>2 DEF CallbackArrives, FindState
    <3>2. QED
      BY <3>1
  <2>5. CASE RemoveState(c) \/ HandleCallback(c)
    <3>1. pc'[s] = pc[s] /\ asked'[s] = asked[s] /\ brokerStates'[s] \in {brokerStates[s], None}
      BY <2>1, <2>5 DEF RemoveState, HandleCallback
    <3>2. QED
      BY <3>1
  <2>6. CASE FindLink(c) \/ FindLinkedUser(c) \/ TouchLink(c)
    <3>1. pc'[s] = pc[s] /\ asked'[s] = asked[s] /\ brokerStates'[s] = brokerStates[s]
      BY <2>1, <2>6 DEF FindLink, FindLinkedUser, TouchLink
    <3>2. QED
      BY <3>1
  <2>3. CASE \/ FindByEmail(c) \/ SaveUser(c) \/ Link(c) \/ SaveSession(c)
             \/ AppendAudit(c) \/ Abandon(c)
    <3>1. pc'[s] = pc[s] /\ asked'[s] = asked[s] /\ brokerStates'[s] = brokerStates[s]
      BY <2>1, <2>3
         DEF FindByEmail, SaveUser, Link, SaveSession, AppendAudit, Abandon
    <3>2. QED
      BY <3>1
  <2>4. QED
    BY <1>4, <2>2, <2>3, <2>5, <2>6 DEF StepOf
<1>5. QED
  BY <1>1, <1>2, <1>3, <1>4 DEF Next, StepOf

LEMMA LinkedUsersExistStep ==
  ASSUME Typed, Held, [Next]_vars
  PROVE  LinkedUsersExist'
<1> SUFFICES ASSUME NEW l \in providerLinks' PROVE users'[l.user] # None
  BY DEF LinkedUsersExist
<1>1. CASE l \in providerLinks
  BY <1>1, AccountsStay DEF Held, LinkedUsersExist, Typed, TypeOK
<1>2. CASE l \notin providerLinks
  <2>1. PICK c \in Callbacks : Link(c)
    BY <1>2
       DEF Next, vars, stores, Tick, StartArrives, SaveState, CallbackArrives, FindState,
           RemoveState, HandleCallback, FindLink, FindLinkedUser, TouchLink, FindByEmail,
           SaveUser, SaveSession, AppendAudit, Abandon
  <2>2. l.user = local[c].user /\ users' = users
    BY <1>2, <2>1 DEF Link
  <2>3. QED
    BY <2>1, <2>2 DEF Link, Held, HeldByCallback, Carried
<1>3. QED
  BY <1>1, <1>2

LEMMA HeldStep == Typed /\ Held /\ [Next]_vars => Typed' /\ Held'
<1> SUFFICES ASSUME Typed, Held, [Next]_vars PROVE Typed' /\ Held'
  OBVIOUS
<1>1. \A c \in Callbacks : HeldByCallback(c)'
  BY HeldByItself, HeldByOthers
<1>2. QED
  BY <1>1, TypedStep, HeldByStarts, LinkedUsersExistStep DEF Held

LEMMA HeldAlways == Spec => [](Typed /\ Held)
  BY TypedInit, HeldInit, HeldStep, PTL DEF Spec

\* Every reachable state is well typed.
THEOREM TypeCorrect == Spec => []TypeOK
<1>1. Typed => TypeOK
  BY DEF Typed
<1>2. QED
  BY <1>1, HeldAlways, PTL

\* However logins overlap, fail between their saves or reuse each other's
\* states, no link is left without its account (resolveUser saves the account
\* before the link, and nothing removes one).
THEOREM LinksHaveAccounts == Spec => []LinkedUsersExist
<1>1. Held => LinkedUsersExist
  BY DEF Held
<1>2. QED
  BY <1>1, HeldAlways, PTL

\* A session is for an account its profile is linked to, from an ID token
\* verified for the state that was consumed, at the provider that state names,
\* whichever callback consumed it (complete).
THEOREM LoginsAreBound == Spec => []LoginIsBound
<1>1. Typed /\ Held => LoginIsBound
  <2> SUFFICES ASSUME Typed, Held, NEW c \in Callbacks, sessions[c] # None
               PROVE  LET start == asked[asked[c].state] IN
                      /\ asked[c].nonce = asked[c].state
                      /\ start.provider = ProviderOf[asked[c].profile]
                      /\ \E u \in LinkedTo(asked[c].profile) :
                           <<users[u].subject, users[u].workspace>>
                             = <<sessions[c].subject, sessions[c].workspace>>
                      /\ users[c] # None => users[c].workspace = WorkspaceOf(start)
    BY DEF LoginIsBound, WorkspaceOf
  <2>1. QED
    BY DEF Held, HeldByCallback, Left
<1>2. QED
  BY <1>1, HeldAlways, PTL

-----------------------------------------------------------------------------
(* What a callback sees on arrival and what it may do then. *)

\* Its profile was linked: no account is created, nothing is linked.
Linked(c) ==
  asked[c] # None /\ asked[c].linkedBefore # {} =>
    /\ LinkedTo(asked[c].profile) # {}
    /\ pc[c] \notin {"findByEmail", "saveUser", "link"}
    /\ users[c] = None /\ \A l \in providerLinks : l.id # c

\* An account had its email: none is created.
Mailed(c) ==
  asked[c] # None /\ asked[c].emailBefore =>
    /\ EmailOf[asked[c].profile] # None /\ WithEmail(EmailOf[asked[c].profile]) # {}
    /\ pc[c] # "saveUser" /\ users[c] = None

\* Its state was spent: nothing happens.
Late(c) ==
  asked[c] # None /\ asked[c].spentBefore =>
    /\ brokerStates[asked[c].state] = None
    /\ pc[c] \in {"findState", "refused"}
    /\ sessions[c] = None /\ users[c] = None /\ \A l \in providerLinks : l.id # c

Seen(c) == Linked(c) /\ Mailed(c) /\ Late(c)

\* A callback that has not arrived, at its arrival.
LEMMA SeenOnArrival ==
  ASSUME Typed, Held, [Next]_vars, NEW c \in Callbacks, CallbackArrives(c)
  PROVE  Seen(c)'
<1>1. PICK s, n \in Starts, p \in Profiles, params \in CallbackParams :
        /\ pc[s] = "answered" /\ params # None
        /\ asked' = [asked EXCEPT ![c] = params]
        /\ params.provider = ProviderOf[p] /\ params.state = s
        /\ params.profile = p /\ params.nonce = n
        /\ params.spentBefore = Spent(s)
        /\ params.linkedBefore = LinkedTo(p)
        /\ params.emailBefore = (EmailOf[p] # None /\ WithEmail(EmailOf[p]) # {})
  BY Arrived
<1>2. pc[c] = "idle" /\ pc'[c] = "findState" /\ UNCHANGED stores
  <2>1. /\ pc[c] = "idle" /\ pc' = [pc EXCEPT ![c] = "findState"] /\ UNCHANGED stores
    BY DEF CallbackArrives, Goto
  <2>2. pc \in [Requests -> Labels] /\ c \in Requests
    BY DEF Typed, Requests
  <2>3. QED
    BY <2>1, <2>2
<1>3. sessions[c] = None /\ users[c] = None /\ \A l \in providerLinks : l.id # c
  BY <1>2 DEF Held, HeldByCallback, Left, Ended
<1>4. asked'[c] = params
  BY <1>1 DEF Typed, Requests
<1>5. Spent(s) => brokerStates[s] = None
  BY DEF Spent, Held, HeldByCallback, Left
<1>6. LinkedTo(p)' = LinkedTo(p)
  BY <1>2 DEF LinkedTo, stores
<1>7. WithEmail(EmailOf[p])' = WithEmail(EmailOf[p])
  BY <1>2 DEF WithEmail, stores
<1>8. Linked(c)'
  BY <1>1, <1>2, <1>3, <1>4, <1>6 DEF Linked, stores
<1>9. Mailed(c)'
  BY <1>1, <1>2, <1>3, <1>4, <1>7 DEF Mailed, stores
<1>10. Late(c)'
  BY <1>1, <1>2, <1>3, <1>4, <1>5 DEF Late, stores
<1>11. QED
  BY <1>8, <1>9, <1>10 DEF Seen

LEMMA SeenAfterArrival ==
  ASSUME Typed, Held, [Next]_vars, NEW c \in Callbacks, asked[c] # None, Seen(c)
  PROVE  Seen(c)'
<1> USE DEF stores, Goto, Return, Refuse, Keep
<1>1. PICK s \in Starts, p \in Profiles : s = asked[c].state /\ p = asked[c].profile
  BY PresentedStart DEF Held, HeldByCallback, Presented
<1>2. pc[c] # "idle" /\ ~CallbackArrives(c)
  BY DEF Held, HeldByCallback, Presented, CallbackArrives
<1>3. asked'[c] = asked[c]
  <2>1. CASE StepOf(c)
    BY <1>2, <2>1 DEF StepOf, FindState, RemoveState, HandleCallback, FindLink,
       FindLinkedUser, TouchLink, FindByEmail, SaveUser, Link, SaveSession, AppendAudit,
       Abandon
  <2>2. QED
    BY <2>1, OthersKept DEF Same
<1>4. brokerStates[s] = None => brokerStates'[s] = None
  BY <1>1, <1>2, PresentedStart, StartsStay
<1>5. \A u \in LinkedTo(p) : u \in LinkedTo(p)'
  BY LinkedStays
<1>6. \A u \in WithEmail(EmailOf[p]) : u \in WithEmail(EmailOf[p])'
  BY AccountsStay DEF WithEmail
<1>7. ASSUME asked[c].linkedBefore # {} PROVE Linked(c)'
  <2>1. /\ LinkedTo(p) # {} /\ users[c] = None /\ \A l \in providerLinks : l.id # c
        /\ pc[c] \notin {"findByEmail", "saveUser", "link"}
    BY <1>1, <1>7 DEF Seen, Linked
  <2>2. /\ users'[c] = None /\ \A l \in providerLinks' : l.id # c
        /\ pc'[c] \notin {"findByEmail", "saveUser", "link"}
    <3>1. CASE StepOf(c)
      BY <1>1, <1>2, <2>1, <3>1
         DEF StepOf, Typed, Requests, FindState, RemoveState, HandleCallback, FindLink,
             FindLinkedUser, TouchLink, FindByEmail, SaveUser, Link, SaveSession,
             AppendAudit, Abandon
    <3>2. CASE ~StepOf(c)
      BY <2>1, <3>2, OthersKept DEF Same
    <3>3. QED
      BY <3>1, <3>2
  <2>3. QED
    BY <1>1, <1>3, <1>5, <2>1, <2>2 DEF Linked
<1>8. ASSUME asked[c].emailBefore PROVE Mailed(c)'
  <2>1. /\ EmailOf[p] # None /\ WithEmail(EmailOf[p]) # {}
        /\ users[c] = None /\ pc[c] # "saveUser"
    BY <1>1, <1>8 DEF Seen, Mailed
  <2>2. users'[c] = None /\ pc'[c] # "saveUser"
    <3>1. CASE StepOf(c)
      BY <1>1, <1>2, <2>1, <3>1
         DEF StepOf, Typed, Requests, FindState, RemoveState, HandleCallback, FindLink,
             FindLinkedUser, TouchLink, FindByEmail, SaveUser, Link, SaveSession,
             AppendAudit, Abandon
    <3>2. CASE ~StepOf(c)
      BY <2>1, <3>2, OthersKept DEF Same
    <3>3. QED
      BY <3>1, <3>2
  <2>3. QED
    BY <1>1, <1>3, <1>6, <2>1, <2>2 DEF Mailed
<1>9. ASSUME asked[c].spentBefore PROVE Late(c)'
  <2>1. /\ brokerStates[s] = None /\ pc[c] \in {"findState", "refused"}
        /\ sessions[c] = None /\ users[c] = None /\ \A l \in providerLinks : l.id # c
    BY <1>1, <1>9 DEF Seen, Late
  <2>2. /\ pc'[c] \in {"findState", "refused"}
        /\ sessions'[c] = None /\ users'[c] = None /\ \A l \in providerLinks' : l.id # c
    <3>1. CASE StepOf(c)
      BY <1>1, <1>2, <2>1, <3>1
         DEF StepOf, Typed, Requests, FindState, RemoveState, HandleCallback, FindLink,
             FindLinkedUser, TouchLink, FindByEmail, SaveUser, Link, SaveSession,
             AppendAudit, Abandon
    <3>2. CASE ~StepOf(c)
      BY <2>1, <3>2, OthersKept DEF Same
    <3>3. QED
      BY <3>1, <3>2
  <2>3. QED
    BY <1>1, <1>3, <1>4, <2>1, <2>2 DEF Late
<1>10. QED
  BY <1>3, <1>7, <1>8, <1>9 DEF Seen, Linked, Mailed, Late

LEMMA SeenAlways == Spec => [](\A c \in Callbacks : Seen(c))
<1> DEFINE SeenByAll == \A c \in Callbacks : Seen(c)
<1>1. Init => SeenByAll
  BY DEF Init, Requests, Seen, Linked, Mailed, Late
<1>2. Typed /\ Held /\ SeenByAll /\ [Next]_vars => SeenByAll'
  <2> SUFFICES ASSUME Typed, Held, SeenByAll, [Next]_vars, NEW c \in Callbacks
               PROVE  Seen(c)'
    OBVIOUS
  <2>1. CASE CallbackArrives(c)
    BY <2>1, SeenOnArrival
  <2>2. CASE asked[c] # None
    BY <2>2, SeenAfterArrival
  <2>3. CASE ~CallbackArrives(c) /\ asked[c] = None
    <3>1. pc[c] = "idle"
      BY <2>3 DEF Held, HeldByCallback, Presented
    <3>2. ~StepOf(c)
      BY <2>3, <3>1 DEF StepOf, FindState, RemoveState, HandleCallback, FindLink,
         FindLinkedUser, TouchLink, FindByEmail, SaveUser, Link, SaveSession, AppendAudit,
         Abandon
    <3>3. asked'[c] = None
      BY <2>3, <3>2, OthersKept DEF Same
    <3>4. QED
      BY <3>3 DEF Seen, Linked, Mailed, Late
  <2>4. QED
    BY <2>1, <2>2, <2>3
<1>3. QED
  BY <1>1, <1>2, HeldAlways, PTL DEF Spec

\* A person whose profile was linked when the callback arrived gets no new
\* account and no other link, and one whose email an account had gets no new
\* account, whatever other logins do meanwhile (links and emails stay).
THEOREM KnownPersonsKeepAccounts == Spec => []KnownPersonKeepsAccount
<1>1. (\A c \in Callbacks : Seen(c)) => KnownPersonKeepsAccount
  BY DEF Seen, Linked, Mailed, KnownPersonKeepsAccount
<1>2. QED
  BY <1>1, SeenAlways, PTL

\* A callback that arrives after its state was spent saves no session, no
\* account and no link (consume removes the state before the login goes on,
\* and no save brings it back).
THEOREM LateStatesAreRejected == Spec => []LateStateRejected
<1>1. (\A c \in Callbacks : Seen(c)) => LateStateRejected
  BY DEF Seen, Late, LateStateRejected
<1>2. QED
  BY <1>1, SeenAlways, PTL
=============================================================================
