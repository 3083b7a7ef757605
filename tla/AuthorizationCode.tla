------------------------- MODULE AuthorizationCode -------------------------
(***************************************************************************)
(* The authorization code flow of the api: GET /oauth2/authorize           *)
(* (handleAuthorize, DefaultAuthorizationService), POST /oauth2/token with *)
(* grant_type authorization_code (DevTokenIssuer), login, logout, and the  *)
(* two places that accept the access token, UserInfo and the gateway.      *)
(*                                                                         *)
(* A request is served by a chain of store calls.  Each call is one step,  *)
(* atomic because JsonFileStore is (theorem StoreIsLinearizable); requests *)
(* interleave between steps.  The code reads the clock when it makes a     *)
(* call and the call may be carried out later: at[r] is the time request r *)
(* last ran.                                                               *)
(***************************************************************************)
EXTENDS Integers

CONSTANTS Sessions, Authorizations, Redemptions, Logouts, Uses, \* requests
          Clients, Redirects, Scopes, Secrets, Subjects,
          SubjectOf,        \* SubjectOf[s]: whose session s is
          AllowedRedirects, \* AllowedRedirects[c], AllowedScopes[c]: how the
          AllowedScopes,    \* client is registered
          DevSubjects,      \* subjects the development header may name: {}
                            \* outside the local environment
          CodeTTL, AccessTTL, RefreshTTL, SessionTTL,
          MaxTime,          \* bound on the clock, for TLC
          None              \* an absent record or optional field

Requests == Authorizations \cup Redemptions \cup Logouts \cup Uses

ASSUME DataAssumption ==
  /\ SubjectOf \in [Sessions -> Subjects]
  /\ AllowedRedirects \in [Clients -> SUBSET Redirects]
  /\ AllowedScopes \in [Clients -> SUBSET Scopes]
  /\ DevSubjects \subseteq Subjects
  /\ None \notin Sessions \cup Redirects \cup Subjects

ASSUME RequestsAssumption ==
  /\ Logouts \cap Authorizations = {} /\ Logouts \cap Redemptions = {}
  /\ Logouts \cap Uses = {} /\ Authorizations \cap Redemptions = {}
  /\ Authorizations \cap Uses = {} /\ Redemptions \cap Uses = {}

ASSUME TimeAssumption == /\ CodeTTL \in Nat /\ AccessTTL \in Nat
                         /\ RefreshTTL \in Nat /\ SessionTTL \in Nat /\ MaxTime \in Nat

VARIABLES now,
          sessions,      \* sessions[s]: None, or when it expires and if revoked
          codes,         \* codes[a]: the code authorization a saved
          accessTokens,  \* accessTokens[t]: the access token redemption t saved
          refreshTokens, \* refreshTokens[t]: the refresh token of its new family
          pc,            \* pc[r]: the call request r has made
          at,            \* at[r]: when it made it
          asked,         \* asked[r]: what the request carries
          local          \* local[r]: what its handler has read

stores == <<sessions, codes, accessTokens, refreshTokens>>
vars   == <<now, stores, pc, at, asked, local>>

Ended == {"answered", "refused"}

SessionLive(s, time) == /\ sessions[s] # None
                        /\ ~sessions[s].revoked
                        /\ sessions[s].expiresAt > time

\* Sessions that have been and are over.
EndedSessions == {s \in Sessions : sessions[s] # None /\ ~SessionLive(s, now)}

\* Session cookies that have been handed out.
Cookies == {s \in Sessions : sessions[s] # None}

Init == /\ now = 0
        /\ sessions = [s \in Sessions |-> None]
        /\ codes = [a \in Authorizations |-> None]
        /\ accessTokens = [t \in Redemptions |-> None]
        /\ refreshTokens = [t \in Redemptions |-> None]
        /\ pc = [r \in Requests |-> "idle"]
        /\ at = [r \in Requests |-> 0]
        /\ asked = [r \in Requests |-> None]
        /\ local = [r \in Requests |-> None]

Tick == /\ now < MaxTime
        /\ now' = now + 1
        /\ UNCHANGED <<stores, pc, at, asked, local>>

\* The handler of r goes on to the store call named `label`.
Goto(r, label) == /\ pc' = [pc EXCEPT ![r] = label]
                  /\ at' = [at EXCEPT ![r] = now]
                  /\ UNCHANGED now

\* The handler of r returns.
Return(r, outcome) == /\ pc' = [pc EXCEPT ![r] = outcome]
                      /\ at' = [at EXCEPT ![r] = 0]
                      /\ local' = [local EXCEPT ![r] = None]
                      /\ UNCHANGED now

Arrive(r, label, params) == /\ pc[r] = "idle"
                            /\ asked' = [asked EXCEPT ![r] = params]
                            /\ Goto(r, label)
                            /\ UNCHANGED <<stores, local>>

Keep(r, value) == local' = [local EXCEPT ![r] = value]

\* The request of r leaves nothing that names it.
Forget(r) == asked' = [asked EXCEPT ![r] = None]

Refuse(r) == Return(r, "refused") /\ Forget(r)

\* A store call of r rejects, or its process ends: nothing more is done.  A
\* redemption may have saved its access token already.
Abandon(r) == /\ pc[r] \notin {"idle"} \cup Ended
              /\ Return(r, "refused")
              /\ IF pc[r] = "saveRefreshToken" THEN UNCHANGED asked ELSE Forget(r)
              /\ UNCHANGED stores

-----------------------------------------------------------------------------
(* Sessions *)

\* The sessions.save of a login, local or brokered.
Login(s) == /\ sessions[s] = None
            /\ sessions' = [sessions EXCEPT ![s] = [expiresAt |-> now + SessionTTL,
                                                    revoked   |-> FALSE]]
            /\ UNCHANGED <<now, codes, accessTokens, refreshTokens, pc, at, asked, local>>

\* CompositeSessionAuthenticator: the session cookie, then in the local
\* environment the development header.  `None` when neither gives a principal.
Principal(r) == LET s == asked[r].cookie IN
                IF s # None /\ SessionLive(s, now)
                  THEN [subject |-> SubjectOf[s], session |-> s]
                ELSE IF asked[r].header # None
                  THEN [subject |-> asked[r].header, session |-> None]
                ELSE None

\* handleLogout answers a principal without a session, and nobody, at once.
LogoutArrives(l) ==
  \E s \in Cookies \cup {None}, d \in DevSubjects \cup {None} :
    Arrive(l, "authenticate", [cookie |-> s, header |-> d])

AuthenticateLogout(l) ==
  /\ pc[l] = "authenticate"
  /\ IF Principal(l) # None /\ Principal(l).session # None
       THEN Keep(l, Principal(l)) /\ Goto(l, "revoke") /\ UNCHANGED asked
       ELSE Return(l, "answered") /\ Forget(l)
  /\ UNCHANGED stores

Revoke(l) == /\ pc[l] = "revoke"
             /\ sessions' = [sessions EXCEPT ![local[l].session].revoked = TRUE]
             /\ Return(l, "answered") /\ Forget(l)
             /\ UNCHANGED <<codes, accessTokens, refreshTokens>>

-----------------------------------------------------------------------------
(* GET /oauth2/authorize *)

AuthorizeArrives(a) ==
  \E c \in Clients, u \in Redirects, scope \in Scopes, challenge \in Secrets,
     s \in Cookies \cup {None}, d \in DevSubjects \cup {None} :
    Arrive(a, "authenticate", [client |-> c, redirect |-> u, scope |-> scope,
                               challenge |-> challenge, cookie |-> s, header |-> d,
                               endedBefore |-> EndedSessions])

AuthenticateAuthorize(a) ==
  /\ pc[a] = "authenticate"
  /\ IF Principal(a) = None
       THEN Refuse(a)
       ELSE Keep(a, Principal(a)) /\ Goto(a, "checkClient") /\ UNCHANGED asked
  /\ UNCHANGED stores

CheckClient(a) ==
  /\ pc[a] = "checkClient"
  /\ LET ok == /\ asked[a].redirect \in AllowedRedirects[asked[a].client]
               /\ asked[a].scope \in AllowedScopes[asked[a].client]
     IN IF ok THEN Goto(a, "saveCode") /\ UNCHANGED <<asked, local>>
              ELSE Refuse(a)
  /\ UNCHANGED stores

SaveCode(a) ==
  /\ pc[a] = "saveCode"
  /\ codes' = [codes EXCEPT ![a] =
       [client |-> asked[a].client, redirect |-> asked[a].redirect,
        scope |-> asked[a].scope, challenge |-> asked[a].challenge,
        subject |-> local[a].subject, session |-> local[a].session,
        expiresAt |-> at[a] + CodeTTL, used |-> FALSE]]
  /\ Return(a, "answered")
  /\ UNCHANGED <<sessions, accessTokens, refreshTokens, asked>>

-----------------------------------------------------------------------------
(* POST /oauth2/token, grant_type=authorization_code.  The verifier is the  *)
(* secret whose S256 hash is the challenge: equal secrets, equal hashes.    *)

\* A code can be presented once the authorization that saved it is answered.
RedemptionArrives(t) ==
  \E c \in Clients, a \in Authorizations, u \in Redirects \cup {None}, v \in Secrets :
    /\ pc[a] = "answered"
    /\ Arrive(t, "requireClient", [client |-> c, code |-> a, redirect |-> u,
                                   verifier |-> v, usedBefore |-> codes[a].used])

\* The client is registered and authenticates.
RequireClient(t) == /\ pc[t] = "requireClient"
                    /\ Goto(t, "findUsable")
                    /\ UNCHANGED <<stores, asked, local>>

\* Mutant of Usable: a used code is found until it expires.
UsableUnlessExpired(code, time) == code.expiresAt > time

Usable(code, time) == ~code.used /\ code.expiresAt > time

\* Mutant of Matches: the code's client is not compared.
MatchesAnyClient(t, code) == /\ asked[t].redirect \in {None, code.redirect}
                             /\ code.challenge = asked[t].verifier

\* The three checks of issueAuthorizationCodeToken on the code it found.
Matches(t, code) == /\ code.client = asked[t].client
                    /\ asked[t].redirect \in {None, code.redirect}
                    /\ code.challenge = asked[t].verifier

FindUsable(t) ==
  /\ pc[t] = "findUsable"
  /\ LET code == codes[asked[t].code] IN
     IF Usable(code, at[t]) /\ Matches(t, code)
       THEN Keep(t, code) /\ Goto(t, "markUsed") /\ UNCHANGED asked
       ELSE Refuse(t)
  /\ UNCHANGED stores

MarkUsed(t) ==
  /\ pc[t] = "markUsed"
  /\ codes' = [codes EXCEPT ![asked[t].code].used = TRUE]
  /\ Goto(t, "resolveClaims")
  /\ UNCHANGED <<sessions, accessTokens, refreshTokens, asked, local>>

\* issueTokens awaits the claims of the subject before it signs.
ResolveClaims(t) == /\ pc[t] = "resolveClaims"
                    /\ Goto(t, "saveAccessToken")
                    /\ UNCHANGED <<stores, asked, local>>

\* Mutant of TokenOf: client and subject swapped.
TokenOfClient(t, lifetime) ==
  [client |-> local[t].subject, subject |-> asked[t].client,
   session |-> local[t].session, scope |-> local[t].scope,
   expiresAt |-> at[t] + lifetime]

TokenOf(t, lifetime) ==
  [client |-> asked[t].client, subject |-> local[t].subject,
   session |-> local[t].session, scope |-> local[t].scope,
   expiresAt |-> at[t] + lifetime]

SaveAccessToken(t) ==
  /\ pc[t] = "saveAccessToken"
  /\ accessTokens' = [accessTokens EXCEPT ![t] = TokenOf(t, AccessTTL)]
  /\ Goto(t, "saveRefreshToken")
  /\ UNCHANGED <<sessions, codes, refreshTokens, asked, local>>

SaveRefreshToken(t) ==
  /\ pc[t] = "saveRefreshToken"
  /\ refreshTokens' = [refreshTokens EXCEPT ![t] = TokenOf(t, RefreshTTL)]
  /\ Return(t, "answered")
  /\ UNCHANGED <<sessions, codes, accessTokens, asked>>

-----------------------------------------------------------------------------
(* The uses of an access token.  UserInfo reads the token, then the session *)
(* in a second store call; the gateway finds both in one read.              *)

UseArrives(b) ==
  \E t \in Redemptions, where \in {"userinfo", "gateway"} :
    /\ pc[t] = "answered"
    /\ Arrive(b, where, [token |-> t, endedBefore |-> EndedSessions,
                         expiredBefore |-> accessTokens[t].expiresAt <= now])

Accept(b) == Return(b, "answered") /\ UNCHANGED asked

\* Mutant of FindToken: getUserInfo answers without reading the session.
FindTokenOnly(b) ==
  /\ pc[b] = "userinfo"
  /\ IF accessTokens[asked[b].token].expiresAt <= at[b] THEN Refuse(b) ELSE Accept(b)
  /\ UNCHANGED stores

FindToken(b) ==
  /\ pc[b] = "userinfo"
  /\ LET token == accessTokens[asked[b].token] IN
     \/ /\ token.expiresAt <= at[b]
        /\ Refuse(b)
     \/ /\ token.expiresAt > at[b] /\ token.session # None
        /\ Keep(b, token) /\ Goto(b, "findSession") /\ UNCHANGED asked
     \/ /\ token.expiresAt > at[b] /\ token.session = None
        /\ Accept(b)
  /\ UNCHANGED stores

FindSession(b) ==
  /\ pc[b] = "findSession"
  /\ IF SessionLive(local[b].session, now) THEN Accept(b) ELSE Refuse(b)
  /\ UNCHANGED stores

VerifyBearer(b) ==
  /\ pc[b] = "gateway"
  /\ LET token == accessTokens[asked[b].token] IN
     IF /\ token.expiresAt > now
        /\ token.session # None => SessionLive(token.session, now)
       THEN Accept(b) ELSE Refuse(b)
  /\ UNCHANGED stores

-----------------------------------------------------------------------------
Next == \/ Tick
        \/ \E s \in Sessions : Login(s)
        \/ \E r \in Requests : Abandon(r)
        \/ \E l \in Logouts : LogoutArrives(l) \/ AuthenticateLogout(l) \/ Revoke(l)
        \/ \E a \in Authorizations : \/ AuthorizeArrives(a) \/ AuthenticateAuthorize(a)
                                     \/ CheckClient(a) \/ SaveCode(a)
        \/ \E t \in Redemptions : \/ RedemptionArrives(t) \/ RequireClient(t)
                                  \/ FindUsable(t) \/ MarkUsed(t) \/ ResolveClaims(t)
                                  \/ SaveAccessToken(t) \/ SaveRefreshToken(t)
        \/ \E b \in Uses : \/ UseArrives(b) \/ FindToken(b) \/ FindSession(b)
                           \/ VerifyBearer(b)

Spec == Init /\ [][Next]_vars

-----------------------------------------------------------------------------
SessionRecord == [expiresAt : Nat, revoked : BOOLEAN]
Principals    == [subject : Subjects, session : Sessions \cup {None}]
CodeRecord    == [client : Clients, redirect : Redirects, scope : Scopes,
                  challenge : Secrets, subject : Subjects,
                  session : Sessions \cup {None}, expiresAt : Nat, used : BOOLEAN]
TokenRecord   == [client : Clients, subject : Subjects,
                  session : Sessions \cup {None}, scope : Scopes, expiresAt : Nat]

LogoutParams    == [cookie : Sessions \cup {None}, header : DevSubjects \cup {None}]
AuthorizeParams == [client : Clients, redirect : Redirects, scope : Scopes,
                    challenge : Secrets, cookie : Sessions \cup {None},
                    header : DevSubjects \cup {None}, endedBefore : SUBSET Sessions]
RedeemParams    == [client : Clients, code : Authorizations,
                    redirect : Redirects \cup {None}, verifier : Secrets,
                    usedBefore : BOOLEAN]
UseParams       == [token : Redemptions, endedBefore : SUBSET Sessions,
                    expiredBefore : BOOLEAN]

ASSUME NoneAssumption == /\ None \notin SessionRecord \cup Principals \cup CodeRecord
                         /\ None \notin TokenRecord \cup LogoutParams
                         /\ None \notin AuthorizeParams \cup RedeemParams \cup UseParams

Labels == {"idle"} \cup Ended \cup
          {"authenticate", "revoke", "checkClient", "saveCode",
           "requireClient", "findUsable", "markUsed", "resolveClaims",
           "saveAccessToken", "saveRefreshToken", "userinfo", "findSession", "gateway"}

\* Every record has its shape and every handler stands at a known store call.
TypeOK ==
  /\ now \in Nat
  /\ sessions \in [Sessions -> SessionRecord \cup {None}]
  /\ codes \in [Authorizations -> CodeRecord \cup {None}]
  /\ accessTokens \in [Redemptions -> TokenRecord \cup {None}]
  /\ refreshTokens \in [Redemptions -> TokenRecord \cup {None}]
  /\ pc \in [Requests -> Labels]
  /\ at \in [Requests -> Nat]
  /\ asked \in [Requests -> LogoutParams \cup AuthorizeParams \cup RedeemParams
                              \cup UseParams \cup {None}]
  /\ local \in [Requests -> Principals \cup CodeRecord \cup TokenRecord \cup {None}]
  /\ \A l \in Logouts : asked[l] \in LogoutParams \cup {None}
  /\ \A a \in Authorizations : asked[a] \in AuthorizeParams \cup {None}
  /\ \A t \in Redemptions : asked[t] \in RedeemParams \cup {None}
  /\ \A b \in Uses : asked[b] \in UseParams \cup {None}
  /\ \A r \in Logouts \cup Authorizations : local[r] \in Principals \cup {None}
  /\ \A t \in Redemptions : local[t] \in CodeRecord \cup {None}
  /\ \A b \in Uses : local[b] \in TokenRecord \cup {None}

\* Whatever requests interleave or are abandoned, a token in the store was
\* redeemed against a saved code that is now marked used, by the code's
\* client with the code's verifier and redirect URI, and speaks for the
\* subject, session and scope of that code; the code's client was registered
\* with its redirect URI and scope and its session is its subject's
\* (issueAuthorizationCodeToken, issueTokens, DefaultAuthorizationService).
GrantsTrace ==
  \A t \in Redemptions : \A token \in {accessTokens[t], refreshTokens[t]} \ {None} :
    LET code == codes[asked[t].code] IN
    /\ code # None /\ code.used /\ Matches(t, code)
    /\ <<token.client, token.subject, token.session, token.scope>>
         = <<code.client, code.subject, code.session, code.scope>>
    /\ code.redirect \in AllowedRedirects[code.client]
    /\ code.scope \in AllowedScopes[code.client]
    /\ IF code.session = None THEN code.subject \in DevSubjects
                              ELSE code.subject = SubjectOf[code.session]

\* A redemption that arrives after its code was marked used saves no token,
\* whatever became of the redemption that marked it (findUsable, markUsed).
LateReplayRejected ==
  \A t \in Redemptions : asked[t] # None /\ asked[t].usedBefore =>
    accessTokens[t] = None /\ refreshTokens[t] = None

\* Once a session is revoked or expired no request that arrives later gets
\* anything by it: no authorization saves a code for it, and UserInfo and the
\* gateway refuse its tokens, those issued after its end too.  Nor is a token
\* accepted that had expired (CookieSessionAuthenticator, getUserInfo,
\* verifyBearer).
EndedMeansRefused ==
  /\ \A a \in Authorizations :
       codes[a] # None => codes[a].session \notin asked[a].endedBefore
  /\ \A b \in Uses : pc[b] = "answered" =>
       /\ accessTokens[asked[b].token].session \notin asked[b].endedBefore
       /\ ~asked[b].expiredBefore

\* docs/oidc-provider.md: an authorization code is single use.
CodeExchangedOnce ==
  \A t, u \in Redemptions :
    t # u /\ accessTokens[t] # None /\ accessTokens[u] # None
      => asked[t].code # asked[u].code
=============================================================================
