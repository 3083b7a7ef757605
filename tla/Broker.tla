------------------------------ MODULE Broker ------------------------------
(***************************************************************************)
(* Login through an external identity provider: GET /auth/broker/p/start   *)
(* and /auth/broker/p/callback (BrokerAuthenticationService,               *)
(* BrokerStateService, BrokerAccountLinkingService).                       *)
(*                                                                         *)
(* As in AuthorizationCode, a step is one store call, or here the exchange *)
(* with the provider, and at[r] is the time request r last ran.            *)
(***************************************************************************)
EXTENDS Integers

CONSTANTS Starts,     \* start requests: the state and the nonce of each are new
          Callbacks,  \* callback requests
          Providers,
          Workspaces,
          DefaultWorkspace,
          Profiles,   \* persons, as one provider knows them
          ProviderOf, \* ProviderOf[p]: the provider that knows p
          EmailOf,    \* EmailOf[p]: the email in p's claims, or None
          Emails,
          LocalUsers, \* LocalUsers[u]: the account of a user who is not external
          StateTTL,
          MaxTime,    \* bound on the clock, for TLC
          None

Requests == Starts \cup Callbacks

\* The ids of accounts: callback c creates account c.
UserIds  == DOMAIN LocalUsers \cup Callbacks

UserRecord == [subject   : Profiles \cup DOMAIN LocalUsers,
               email     : Emails \cup Profiles,
               workspace : Workspaces]

ASSUME DataAssumption ==
  /\ ProviderOf \in [Profiles -> Providers]
  /\ EmailOf \in [Profiles -> Emails \cup {None}]
  /\ LocalUsers \in [DOMAIN LocalUsers -> UserRecord]
  /\ DefaultWorkspace \in Workspaces
  /\ StateTTL \in Nat /\ MaxTime \in Nat

ASSUME NamesAssumption ==
  /\ Starts \cap Callbacks = {}
  /\ Callbacks \cap DOMAIN LocalUsers = {}
  /\ None \notin UserIds \cup Workspaces \cup Emails \cup UserRecord

VARIABLES now,
          brokerStates,  \* brokerStates[s]: the state start s saved, until consumed
          users,         \* users[u]: None, or the account
          providerLinks, \* which account a profile is linked to
          sessions,      \* sessions[c]: None, or the session callback c saved
          auditEvents,   \* callbacks whose login is in the audit log
          pc, at, asked, local

stores == <<brokerStates, users, providerLinks, sessions, auditEvents>>
vars   == <<now, stores, pc, at, asked, local>>

Ended == {"answered", "refused"}

Init == /\ now = 0
        /\ brokerStates = [s \in Starts |-> None]
        /\ users = [u \in UserIds |-> IF u \in Callbacks THEN None ELSE LocalUsers[u]]
        /\ providerLinks = {}
        /\ sessions = [c \in Callbacks |-> None]
        /\ auditEvents = {}
        /\ pc = [r \in Requests |-> "idle"]
        /\ at = [r \in Requests |-> 0]
        /\ asked = [r \in Requests |-> None]
        /\ local = [c \in Callbacks |-> None]

Tick == /\ now < MaxTime
        /\ now' = now + 1
        /\ UNCHANGED <<stores, pc, at, asked, local>>

\* The handler of r goes on to the call named `label`.
Goto(r, label) == /\ pc' = [pc EXCEPT ![r] = label]
                  /\ at' = [at EXCEPT ![r] = now]
                  /\ UNCHANGED now

Return(r, outcome) == /\ pc' = [pc EXCEPT ![r] = outcome]
                      /\ at' = [at EXCEPT ![r] = 0]
                      /\ UNCHANGED now

Keep(c, value) == local' = [local EXCEPT ![c] = value]

Refuse(c) == Return(c, "refused") /\ Keep(c, None) /\ UNCHANGED asked

-----------------------------------------------------------------------------
(* GET /auth/broker/<provider>/start *)

StartArrives(s) == /\ pc[s] = "idle"
                   /\ \E p \in Providers, w \in Workspaces \cup {None} :
                        asked' = [asked EXCEPT ![s] = [provider |-> p, workspace |-> w]]
                   /\ Goto(s, "saveState")
                   /\ UNCHANGED <<stores, local>>

SaveState(s) ==
  /\ pc[s] = "saveState"
  /\ brokerStates' = [brokerStates EXCEPT ![s] =
       [provider |-> asked[s].provider, workspace |-> asked[s].workspace,
        expiresAt |-> at[s] + StateTTL]]
  /\ Return(s, "answered")
  /\ UNCHANGED <<users, providerLinks, sessions, auditEvents, asked, local>>

-----------------------------------------------------------------------------
(* GET /auth/broker/<provider>/callback.  The code in it buys an ID token   *)
(* of that provider for a profile, with the nonce of the start it was       *)
(* obtained for.  The history fields record, on arrival, whether the state  *)
(* is spent, the accounts linked to the profile, and whether an account has *)
(* its email.                                                               *)

LinkedTo(p) == {l.user : l \in {k \in providerLinks : k.profile = p}}

\* The state of start s is removed, or a callback with it has signed in.
Spent(s) == \/ brokerStates[s] = None
            \/ \E d \in Callbacks : sessions[d] # None /\ asked[d].state = s

WithEmail(e) == {u \in UserIds : users[u] # None /\ users[u].email = e}

CallbackArrives(c) ==
  /\ pc[c] = "idle"
  /\ \E s, n \in {r \in Starts : pc[r] = "answered"}, p \in Profiles :
       asked' = [asked EXCEPT ![c] =
         [provider |-> ProviderOf[p], state |-> s, profile |-> p, nonce |-> n,
          spentBefore  |-> Spent(s),
          linkedBefore |-> LinkedTo(p),
          emailBefore  |-> EmailOf[p] # None /\ WithEmail(EmailOf[p]) # {}]]
  /\ Goto(c, "findState")
  /\ UNCHANGED <<stores, local>>

\* The first half of consume().
FindState(c) ==
  /\ pc[c] = "findState"
  /\ LET record == brokerStates[asked[c].state] IN
     IF record # None /\ record.expiresAt > at[c]
       THEN Keep(c, [state |-> record, user |-> None]) /\ Goto(c, "removeState")
            /\ UNCHANGED asked
       ELSE Refuse(c)
  /\ UNCHANGED stores

\* Mutant of RemoveState: the state stays until it expires.
RemoveStateNever(c) ==
  /\ pc[c] = "removeState"
  /\ IF local[c].state.provider = asked[c].provider
       THEN Goto(c, "handleCallback") /\ UNCHANGED <<asked, local>>
       ELSE Refuse(c)
  /\ UNCHANGED stores

\* The second half of consume(), and the check of the provider after it.
RemoveState(c) ==
  /\ pc[c] = "removeState"
  /\ brokerStates' = [brokerStates EXCEPT ![asked[c].state] = None]
  /\ IF local[c].state.provider = asked[c].provider
       THEN Goto(c, "handleCallback") /\ UNCHANGED <<asked, local>>
       ELSE Refuse(c)
  /\ UNCHANGED <<users, providerLinks, sessions, auditEvents>>

\* Mutant of HandleCallback: the nonce is not compared.
HandleCallbackAnyNonce(c) ==
  /\ pc[c] = "handleCallback"
  /\ Goto(c, "findLink")
  /\ UNCHANGED <<stores, asked, local>>

\* Discovery, token exchange, verification of the ID token against the nonce
\* of the state record, and the provider's user info.
HandleCallback(c) ==
  /\ pc[c] = "handleCallback"
  /\ IF asked[c].nonce = asked[c].state
       THEN Goto(c, "findLink") /\ UNCHANGED <<asked, local>>
       ELSE Refuse(c)
  /\ UNCHANGED stores

-----------------------------------------------------------------------------
(* resolveUser *)

\* find() takes the first link of the profile; which one is first is open.
FindLink(c) ==
  /\ pc[c] = "findLink"
  /\ LET p == asked[c].profile IN
     \/ \E u \in LinkedTo(p) :
          Keep(c, [local[c] EXCEPT !.user = u]) /\ Goto(c, "findLinkedUser")
     \/ /\ LinkedTo(p) = {}
        /\ Goto(c, IF EmailOf[p] = None THEN "saveUser" ELSE "findByEmail")
        /\ UNCHANGED local
  /\ UNCHANGED <<stores, asked>>

\* linked_user_missing, or the existing link is saved again.
FindLinkedUser(c) ==
  /\ pc[c] = "findLinkedUser"
  /\ IF users[local[c].user] = None
       THEN Refuse(c)
       ELSE Goto(c, "touchLink") /\ UNCHANGED <<asked, local>>
  /\ UNCHANGED stores

\* providerLinks.save of the link found, with a new lastLoginAt.
TouchLink(c) ==
  /\ pc[c] = "touchLink"
  /\ Goto(c, "saveSession")
  /\ UNCHANGED <<stores, asked, local>>

\* Mutant of FindByEmail: accounts with the email are not looked for.
FindByEmailNever(c) ==
  /\ pc[c] = "findByEmail"
  /\ Goto(c, "saveUser")
  /\ UNCHANGED <<stores, asked, local>>

FindByEmail(c) ==
  /\ pc[c] = "findByEmail"
  /\ LET found == WithEmail(EmailOf[asked[c].profile]) IN
     \/ \E u \in found : Keep(c, [local[c] EXCEPT !.user = u]) /\ Goto(c, "link")
     \/ found = {} /\ Goto(c, "saveUser") /\ UNCHANGED local
  /\ UNCHANGED <<stores, asked>>

\* Mutant of NewUser: subject and workspace swapped.
NewUserSwapped(p, workspace) ==
  [subject   |-> IF workspace = None THEN DefaultWorkspace ELSE workspace,
   email     |-> IF EmailOf[p] = None THEN p ELSE EmailOf[p],
   workspace |-> p]

\* An external account; without an email it gets one made of the profile.
NewUser(p, workspace) ==
  [subject   |-> p,
   email     |-> IF EmailOf[p] = None THEN p ELSE EmailOf[p],
   workspace |-> IF workspace = None THEN DefaultWorkspace ELSE workspace]

\* Mutant of SaveUser: the account is linked and never saved.
SaveUserNever(c) ==
  /\ pc[c] = "saveUser"
  /\ Keep(c, [local[c] EXCEPT !.user = c])
  /\ Goto(c, "link")
  /\ UNCHANGED <<stores, asked>>

SaveUser(c) ==
  /\ pc[c] = "saveUser"
  /\ users' = [users EXCEPT ![c] = NewUser(asked[c].profile, local[c].state.workspace)]
  /\ Keep(c, [local[c] EXCEPT !.user = c])
  /\ Goto(c, "link")
  /\ UNCHANGED <<brokerStates, providerLinks, sessions, auditEvents, asked>>

Link(c) ==
  /\ pc[c] = "link"
  /\ providerLinks' = providerLinks \cup
       {[id |-> c, user |-> local[c].user, profile |-> asked[c].profile]}
  /\ Goto(c, "saveSession")
  /\ UNCHANGED <<brokerStates, users, sessions, auditEvents, asked, local>>

-----------------------------------------------------------------------------
(* createSession.  The account is the copy resolveUser returned; no save of  *)
(* an account changes its subject or its workspace.                         *)

SaveSession(c) ==
  /\ pc[c] = "saveSession"
  /\ sessions' = [sessions EXCEPT ![c] =
       [subject |-> users[local[c].user].subject,
        workspace |-> users[local[c].user].workspace]]
  /\ Goto(c, "appendAudit")
  /\ UNCHANGED <<brokerStates, users, providerLinks, auditEvents, asked, local>>

AppendAudit(c) ==
  /\ pc[c] = "appendAudit"
  /\ auditEvents' = auditEvents \cup {c}
  /\ Return(c, "answered") /\ Keep(c, None)
  /\ UNCHANGED <<brokerStates, users, providerLinks, sessions, asked>>

\* A call of c rejects, or its process ends: nothing more is done.
Abandon(c) == /\ pc[c] \notin {"idle"} \cup Ended
              /\ Refuse(c)
              /\ UNCHANGED stores

Next == \/ Tick
        \/ \E s \in Starts : StartArrives(s) \/ SaveState(s)
        \/ \E c \in Callbacks :
             \/ CallbackArrives(c) \/ FindState(c) \/ RemoveState(c) \/ HandleCallback(c)
             \/ FindLink(c) \/ FindLinkedUser(c) \/ TouchLink(c) \/ FindByEmail(c)
             \/ SaveUser(c) \/ Link(c) \/ SaveSession(c) \/ AppendAudit(c) \/ Abandon(c)

Spec == Init /\ [][Next]_vars

-----------------------------------------------------------------------------
StateRecord   == [provider : Providers, workspace : Workspaces \cup {None}, expiresAt : Nat]
StartParams   == [provider : Providers, workspace : Workspaces \cup {None}]
CallbackParams == [provider : Providers, state : Starts, profile : Profiles, nonce : Starts,
                   spentBefore : BOOLEAN, linkedBefore : SUBSET UserIds,
                   emailBefore : BOOLEAN]
SessionRecord == [subject : Profiles \cup DOMAIN LocalUsers, workspace : Workspaces]
LocalRecord   == [state : StateRecord, user : UserIds \cup {None}]

ASSUME NoneAssumption == /\ None \notin StateRecord \cup StartParams \cup CallbackParams
                         /\ None \notin SessionRecord \cup LocalRecord

\* Every record has its shape; times, profiles and nonces are not mixed up.
TypeOK ==
  /\ now \in Nat
  /\ brokerStates \in [Starts -> StateRecord \cup {None}]
  /\ users \in [UserIds -> UserRecord \cup {None}]
  /\ providerLinks \subseteq [id : Callbacks, user : UserIds, profile : Profiles]
  /\ sessions \in [Callbacks -> SessionRecord \cup {None}]
  /\ auditEvents \subseteq Callbacks
  /\ at \in [Requests -> Nat]
  /\ \A s \in Starts : asked[s] \in StartParams \cup {None}
  /\ \A c \in Callbacks : asked[c] \in CallbackParams \cup {None}
  /\ local \in [Callbacks -> LocalRecord \cup {None}]

\* A session of a broker login is for an account its profile is linked to,
\* from an ID token with the nonce of the state it consumed, at the provider
\* that state was issued for; and an account it created is in the workspace
\* that state names (complete, verify, resolveUser).
LoginIsBound ==
  \A c \in Callbacks : sessions[c] # None =>
    LET start == asked[asked[c].state] IN
    /\ asked[c].nonce = asked[c].state
    /\ start.provider = ProviderOf[asked[c].profile]
    /\ \E u \in LinkedTo(asked[c].profile) :
         <<users[u].subject, users[u].workspace>> = <<sessions[c].subject, sessions[c].workspace>>
    /\ users[c] # None => users[c].workspace = IF start.workspace = None THEN DefaultWorkspace
                                               ELSE start.workspace

\* Whatever call of a login fails, no link is left without its account: the
\* next login of the profile does not end in linked_user_missing.
LinkedUsersExist ==
  \A l \in providerLinks : users[l.user] # None

\* A person who comes back keeps the account: a callback that arrives when
\* its profile is linked creates no account and links the profile to no
\* other, and one that arrives when an account has its email creates none.
KnownPersonKeepsAccount ==
  \A c \in Callbacks : asked[c] # None =>
    /\ asked[c].linkedBefore # {} =>
         /\ users[c] = None
         /\ \A l \in providerLinks : l.id = c => l.user \in asked[c].linkedBefore
    /\ asked[c].emailBefore => users[c] = None

\* A callback that arrives after its state was spent has no effect.
LateStateRejected ==
  \A c \in Callbacks : asked[c] # None /\ asked[c].spentBefore =>
    /\ sessions[c] = None /\ users[c] = None
    /\ \A l \in providerLinks : l.id # c
=============================================================================
