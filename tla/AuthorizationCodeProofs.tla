---------------------- MODULE AuthorizationCodeProofs ----------------------
(***************************************************************************)
(* Theorems about AuthorizationCode for any clients, sessions and requests.*)
(***************************************************************************)
EXTENDS AuthorizationCode, TLAPS

-----------------------------------------------------------------------------
(* What a handler holds at each of its awaits, and that what it refers to  *)
(* is in the store: TypeOK is inductive only with it.                      *)

Redeeming == {"markUsed", "resolveClaims", "saveAccessToken", "saveRefreshToken"}

HeldByLogout(l) ==
  /\ pc[l] = "authenticate" => asked[l] # None
  /\ pc[l] = "revoke" => /\ local[l] # None /\ local[l].session # None
                         /\ sessions[local[l].session] # None

HeldByAuthorization(a) ==
  /\ pc[a] \in {"authenticate", "checkClient", "saveCode"} => asked[a] # None
  /\ pc[a] \in {"checkClient", "saveCode"} => local[a] # None
  /\ pc[a] = "answered" <=> codes[a] # None
  /\ codes[a] # None => asked[a] # None

HeldByRedemption(t) ==
  /\ pc[t] \in {"requireClient", "findUsable"} \cup Redeeming => asked[t] # None
  /\ pc[t] \in Redeeming => local[t] # None
  /\ asked[t] # None => pc[asked[t].code] = "answered"
  /\ pc[t] \in {"answered", "saveRefreshToken"} => accessTokens[t] # None
  /\ accessTokens[t] # None \/ refreshTokens[t] # None
       => asked[t] # None /\ pc[t] \in {"saveRefreshToken"} \cup Ended

HeldByUse(b) ==
  /\ pc[b] \in {"userinfo", "gateway", "findSession", "answered"} => asked[b] # None
  /\ pc[b] = "findSession" => local[b] # None /\ local[b].session # None
  /\ asked[b] # None => pc[asked[b].token] = "answered"

Held == /\ \A l \in Logouts : HeldByLogout(l)
        /\ \A a \in Authorizations : HeldByAuthorization(a)
        /\ \A t \in Redemptions : HeldByRedemption(t)
        /\ \A b \in Uses : HeldByUse(b)

LEMMA HeldInit == Init => TypeOK /\ Held
  BY DEF Init, TypeOK, Requests, Labels, Ended, Redeeming, Held, HeldByLogout,
         HeldByAuthorization, HeldByRedemption, HeldByUse

LEMMA PrincipalType ==
  ASSUME TypeOK, NEW r \in Logouts \cup Authorizations, asked[r] # None
  PROVE  /\ Principal(r) \in Principals \cup {None}
         /\ Principal(r) # None /\ Principal(r).session # None
              => sessions[Principal(r).session] # None
<1>1. asked[r].cookie \in Sessions \cup {None} /\ asked[r].header \in DevSubjects \cup {None}
  BY DEF TypeOK, LogoutParams, AuthorizeParams
<1>2. QED
  BY <1>1, DataAssumption DEF Principal, Principals, SessionLive

LEMMA HeldStep == TypeOK /\ Held /\ [Next]_vars => TypeOK' /\ Held'
<1> SUFFICES ASSUME TypeOK, Held, [Next]_vars PROVE TypeOK' /\ Held'
  OBVIOUS
<1> USE RequestsAssumption, TimeAssumption, NoneAssumption
    DEF TypeOK, Requests, Labels, Ended, Redeeming, stores, Goto, Return, Keep,
        Forget, Refuse, Arrive,
        Held, HeldByLogout, HeldByAuthorization, HeldByRedemption, HeldByUse
<1>1. ASSUME Tick \/ UNCHANGED vars PROVE TypeOK' /\ Held'
  BY <1>1 DEF Tick, vars
<1>2. ASSUME NEW s \in Sessions, Login(s) PROVE TypeOK' /\ Held'
  BY <1>2 DEF Login, SessionRecord
<1>3. ASSUME NEW r \in Requests, Abandon(r) PROVE TypeOK' /\ Held'
  BY <1>3 DEF Abandon
\* A request that is refused leaves what an abandoned one leaves.
<1>23. ASSUME NEW r \in Requests, pc[r] \notin {"idle", "saveRefreshToken"} \cup Ended,
              Refuse(r), UNCHANGED stores
       PROVE  TypeOK' /\ Held'
  <2>1. Abandon(r)
    BY <1>23 DEF Abandon
  <2>2. QED
    BY <2>1, <1>3
<1>24. ASSUME NEW b \in Uses, pc[b] \in {"userinfo", "gateway", "findSession"},
              Accept(b), UNCHANGED stores
       PROVE  TypeOK' /\ Held'
  <2>1. TypeOK'
    BY <1>24 DEF Accept
  <2>2. Held'
    BY <1>24 DEF Accept
  <2>3. QED
    BY <2>1, <2>2
<1>4. ASSUME NEW l \in Logouts, LogoutArrives(l) PROVE TypeOK' /\ Held'
  BY <1>4 DEF LogoutArrives, LogoutParams, Cookies
<1>5. ASSUME NEW l \in Logouts, AuthenticateLogout(l) PROVE TypeOK' /\ Held'
  <2> DEFINE p == Principal(l)
  <2>1. asked[l] # None /\ asked[l] \in LogoutParams
    BY <1>5 DEF AuthenticateLogout
  <2>2. p \in Principals \cup {None} /\ (p # None /\ p.session # None => sessions[p.session] # None)
    BY <2>1, PrincipalType
  <2> HIDE DEF p
  <2>3. CASE p # None /\ p.session # None
    <3>1. Keep(l, p) /\ Goto(l, "revoke") /\ UNCHANGED asked /\ UNCHANGED stores
      BY <1>5, <2>3 DEF AuthenticateLogout, p
    <3>2. TypeOK'
      BY <3>1, <2>2, <2>3
    <3>3. Held'
      BY <3>1, <2>2, <2>3, <1>5 DEF AuthenticateLogout
    <3>4. QED
      BY <3>2, <3>3
  <2>4. CASE ~(p # None /\ p.session # None)
    <3>1. Return(l, "answered") /\ Forget(l) /\ UNCHANGED stores
      BY <1>5, <2>4 DEF AuthenticateLogout, p
    <3>2. TypeOK'
      BY <3>1
    <3>3. Held'
      BY <3>1, <1>5 DEF AuthenticateLogout
    <3>4. QED
      BY <3>2, <3>3
  <2>5. QED
    BY <2>3, <2>4
<1>6. ASSUME NEW l \in Logouts, Revoke(l) PROVE TypeOK' /\ Held'
  <2>1. local[l] \in Principals /\ local[l].session \in Sessions
        /\ sessions[local[l].session] \in SessionRecord
    BY <1>6 DEF Revoke, Principals
  <2>2. sessions' \in [Sessions -> SessionRecord \cup {None}]
        /\ \A s \in Sessions : sessions'[s] = None <=> sessions[s] = None
    <3> DEFINE k == local[l].session
               rec == [sessions[k] EXCEPT !.revoked = TRUE]
    <3>1. rec \in SessionRecord /\ rec # None /\ k \in Sessions
      <4>1. rec \in SessionRecord
        BY <2>1 DEF SessionRecord
      <4> HIDE DEF rec
      <4>2. QED
        BY <4>1, <2>1
    <3>2. sessions' = [sessions EXCEPT ![k] = rec] /\ sessions[k] # None
      BY <1>6 DEF Revoke
    <3> HIDE DEF k, rec
    <3>3. sessions' \in [Sessions -> SessionRecord \cup {None}]
      BY <3>1, <3>2 DEF TypeOK
    <3>4. QED
      BY <3>1, <3>2, <3>3 DEF TypeOK
  <2>3. TypeOK'
    BY <1>6, <2>2 DEF Revoke
  <2>4. Held'
    <3>1. /\ pc' = [pc EXCEPT ![l] = "answered"] /\ local' = [local EXCEPT ![l] = None]
          /\ asked' = [asked EXCEPT ![l] = None]
          /\ UNCHANGED <<codes, accessTokens, refreshTokens>>
      BY <1>6 DEF Revoke
    <3>2. QED
      BY <2>2, <3>1 DEF Principals
  <2>5. QED
    BY <2>3, <2>4
<1>7. ASSUME NEW a \in Authorizations, AuthorizeArrives(a) PROVE TypeOK' /\ Held'
  BY <1>7 DEF AuthorizeArrives, AuthorizeParams, Cookies, EndedSessions
<1>8. ASSUME NEW a \in Authorizations, AuthenticateAuthorize(a) PROVE TypeOK' /\ Held'
  <2> DEFINE p == Principal(a)
  <2>1. asked[a] # None
    BY <1>8 DEF AuthenticateAuthorize
  <2>2. p \in Principals \cup {None}
    BY <2>1, PrincipalType
  <2> HIDE DEF p
  <2>3. CASE p = None
    <3>1. Refuse(a) /\ UNCHANGED stores /\ pc[a] = "authenticate"
      BY <1>8, <2>3 DEF AuthenticateAuthorize, p
    <3>2. QED
      BY <3>1, <1>23
  <2>4. CASE p # None
    <3>1. Keep(a, p) /\ Goto(a, "checkClient") /\ UNCHANGED asked /\ UNCHANGED stores
          /\ pc[a] = "authenticate"
      BY <1>8, <2>4 DEF AuthenticateAuthorize, p
    <3>2. TypeOK'
      BY <3>1, <2>2, <2>4
    <3>3. Held'
      BY <3>1, <2>2, <2>4
    <3>4. QED
      BY <3>2, <3>3
  <2>5. QED
    BY <2>3, <2>4
<1>9. ASSUME NEW a \in Authorizations, CheckClient(a) PROVE TypeOK' /\ Held'
  <2>1. CASE Refuse(a)
    BY <1>9, <2>1, <1>23 DEF CheckClient
  <2>2. CASE Goto(a, "saveCode") /\ UNCHANGED <<asked, local>>
    <3>1. TypeOK'
      BY <1>9, <2>2 DEF CheckClient
    <3>2. Held'
      BY <1>9, <2>2 DEF CheckClient
    <3>3. QED
      BY <3>1, <3>2
  <2>3. QED
    BY <1>9, <2>1, <2>2 DEF CheckClient
<1>10. ASSUME NEW a \in Authorizations, SaveCode(a) PROVE TypeOK' /\ Held'
  <2>1. asked[a] \in AuthorizeParams /\ local[a] \in Principals /\ pc[a] = "saveCode"
    BY <1>10 DEF SaveCode
  <2>2. /\ codes' \in [Authorizations -> CodeRecord \cup {None}]
        /\ codes'[a] # None
        /\ \A c \in Authorizations \ {a} : codes'[c] = codes[c]
    <3>1. codes'[a] \in CodeRecord
      BY <1>10, <2>1 DEF SaveCode, CodeRecord, AuthorizeParams, Principals
    <3>2. QED
      <4> DEFINE rec == codes'[a]
      <4>1. codes' = [codes EXCEPT ![a] = rec]
        BY <1>10 DEF SaveCode
      <4> HIDE DEF rec
      <4>2. rec \in CodeRecord /\ rec # None
        BY <3>1, <4>1
      <4>3. QED
        BY <4>1, <4>2
  <2>3. TypeOK'
    BY <1>10, <2>2 DEF SaveCode
  <2>4. Held'
    BY <1>10, <2>1, <2>2 DEF SaveCode
  <2>5. QED
    BY <2>3, <2>4
<1>11. ASSUME NEW t \in Redemptions, RedemptionArrives(t) PROVE TypeOK' /\ Held'
  <2>1. TypeOK'
    BY <1>11 DEF RedemptionArrives, RedeemParams, CodeRecord
  <2>2. Held'
    BY <1>11 DEF RedemptionArrives, RedeemParams, CodeRecord
  <2>3. QED
    BY <2>1, <2>2
<1>12. ASSUME NEW t \in Redemptions, RequireClient(t) PROVE TypeOK' /\ Held'
  <2>1. TypeOK'
    BY <1>12 DEF RequireClient
  <2>2. Held'
    BY <1>12 DEF RequireClient
  <2>3. QED
    BY <2>1, <2>2
<1>13. ASSUME NEW t \in Redemptions, FindUsable(t) PROVE TypeOK' /\ Held'
  <2>1. CASE Refuse(t)
    BY <1>13, <2>1, <1>23 DEF FindUsable
  <2>2. CASE Keep(t, codes[asked[t].code]) /\ Goto(t, "markUsed") /\ UNCHANGED asked
    <3>1. asked[t] \in RedeemParams /\ asked[t].code \in Authorizations
          /\ pc[asked[t].code] = "answered" /\ pc[t] = "findUsable"
      BY <1>13 DEF FindUsable, RedeemParams
    <3>2. codes[asked[t].code] \in CodeRecord
      BY <3>1
    <3>3. TypeOK'
      BY <1>13, <2>2, <3>2 DEF FindUsable
    <3>4. Held'
      BY <1>13, <2>2, <3>1, <3>2 DEF FindUsable
    <3>5. QED
      BY <3>3, <3>4
  <2>3. QED
    BY <1>13, <2>1, <2>2 DEF FindUsable
<1>14. ASSUME NEW t \in Redemptions, MarkUsed(t) PROVE TypeOK' /\ Held'
  <2>1. asked[t] \in RedeemParams /\ asked[t].code \in Authorizations
        /\ pc[asked[t].code] = "answered" /\ pc[t] = "markUsed"
    BY <1>14 DEF MarkUsed, RedeemParams
  <2>2. codes[asked[t].code] \in CodeRecord
    BY <2>1
  <2>3. codes' \in [Authorizations -> CodeRecord \cup {None}]
        /\ \A a \in Authorizations : codes'[a] = None <=> codes[a] = None
    <3> DEFINE k == asked[t].code
               rec == [codes[k] EXCEPT !.used = TRUE]
    <3>1. rec \in CodeRecord /\ rec # None /\ k \in Authorizations /\ codes[k] # None
      <4>1. rec \in CodeRecord
        BY <2>2 DEF CodeRecord
      <4> HIDE DEF rec
      <4>2. QED
        BY <4>1, <2>1, <2>2
    <3>2. codes' = [codes EXCEPT ![k] = rec]
      BY <1>14 DEF MarkUsed
    <3> HIDE DEF k, rec
    <3>3. codes' \in [Authorizations -> CodeRecord \cup {None}]
      BY <3>1, <3>2
    <3>4. QED
      BY <3>1, <3>2, <3>3
  <2>4. TypeOK'
    BY <1>14, <2>3 DEF MarkUsed
  <2>5. Held'
    <3>1. /\ pc' = [pc EXCEPT ![t] = "resolveClaims"]
          /\ UNCHANGED <<asked, local, sessions, accessTokens, refreshTokens>>
      BY <1>14 DEF MarkUsed
    <3>2. QED
      BY <2>1, <2>3, <3>1
  <2>6. QED
    BY <2>4, <2>5
<1>15. ASSUME NEW t \in Redemptions, ResolveClaims(t) PROVE TypeOK' /\ Held'
  BY <1>15 DEF ResolveClaims
<1>16. ASSUME NEW t \in Redemptions, SaveAccessToken(t) PROVE TypeOK' /\ Held'
  BY <1>16 DEF SaveAccessToken, TokenOf, TokenRecord, CodeRecord, RedeemParams
<1>17. ASSUME NEW t \in Redemptions, SaveRefreshToken(t) PROVE TypeOK' /\ Held'
  <2>1. TokenOf(t, RefreshTTL) \in TokenRecord
    BY <1>17 DEF SaveRefreshToken, TokenOf, TokenRecord, CodeRecord, RedeemParams
  <2>2. TypeOK'
    BY <1>17, <2>1 DEF SaveRefreshToken
  <2>3. Held'
    BY <1>17, <2>1 DEF SaveRefreshToken
  <2>4. QED
    BY <2>2, <2>3
<1>18. ASSUME NEW b \in Uses, UseArrives(b) PROVE TypeOK' /\ Held'
  <2>1. PICK t \in Redemptions, where \in {"userinfo", "gateway"} :
          /\ pc[t] = "answered"
          /\ Arrive(b, where, [token |-> t, endedBefore |-> EndedSessions,
                               expiredBefore |-> accessTokens[t].expiresAt <= now])
    BY <1>18 DEF UseArrives
  <2>2. asked'[b] \in UseParams /\ asked'[b].token = t
    BY <2>1 DEF UseParams, EndedSessions, TokenRecord
  <2>3. TypeOK'
    BY <2>1, <2>2
  <2>4. Held'
    BY <2>1, <2>2
  <2>5. QED
    BY <2>3, <2>4
<1>19. ASSUME NEW b \in Uses, FindToken(b) PROVE TypeOK' /\ Held'
  <2> DEFINE token == accessTokens[asked[b].token]
  <2>1. asked[b] \in UseParams /\ token \in TokenRecord /\ pc[b] = "userinfo"
    BY <1>19 DEF FindToken, UseParams
  <2>2. CASE Refuse(b)
    BY <1>19, <2>2, <1>23 DEF FindToken
  <2>3. CASE Accept(b)
    BY <1>19, <2>3, <1>24 DEF FindToken
  <2>4. CASE token.session # None /\ Keep(b, token) /\ Goto(b, "findSession") /\ UNCHANGED asked
    <3> HIDE DEF token
    <3>1. /\ local' = [local EXCEPT ![b] = token] /\ pc' = [pc EXCEPT ![b] = "findSession"]
          /\ at' = [at EXCEPT ![b] = now] /\ UNCHANGED <<now, asked, stores>>
      BY <1>19, <2>4 DEF FindToken
    <3>2. TypeOK'
      BY <2>1, <3>1
    <3>3. Held'
      BY <2>1, <2>4, <3>1
    <3>4. QED
      BY <3>2, <3>3
  <2>5. QED
    BY <1>19, <2>2, <2>3, <2>4 DEF FindToken
<1>20. ASSUME NEW b \in Uses, FindSession(b) PROVE TypeOK' /\ Held'
  BY <1>20, <1>23, <1>24 DEF FindSession
<1>21. ASSUME NEW b \in Uses, VerifyBearer(b) PROVE TypeOK' /\ Held'
  BY <1>21, <1>23, <1>24 DEF VerifyBearer
<1>22. QED
  BY <1>1, <1>2, <1>3, <1>4, <1>5, <1>6, <1>7, <1>8, <1>9, <1>10, <1>11, <1>12,
     <1>13, <1>14, <1>15, <1>16, <1>17, <1>18, <1>19, <1>20, <1>21 DEF Next

\* Every reachable state is well typed.
THEOREM TypeCorrect == Spec => []TypeOK
  BY HeldInit, HeldStep, PTL DEF Spec

-----------------------------------------------------------------------------
(* What no step takes back.                                                *)

SameCode(c, d) == /\ c.client = d.client /\ c.redirect = d.redirect
                  /\ c.scope = d.scope /\ c.challenge = d.challenge
                  /\ c.subject = d.subject /\ c.session = d.session

\* The steps of request r, and what they leave to another request.
StepOf(r) ==
  \/ Abandon(r)
  \/ r \in Logouts /\ (LogoutArrives(r) \/ AuthenticateLogout(r) \/ Revoke(r))
  \/ r \in Authorizations /\ (\/ AuthorizeArrives(r) \/ AuthenticateAuthorize(r)
                              \/ CheckClient(r) \/ SaveCode(r))
  \/ r \in Redemptions /\ (\/ RedemptionArrives(r) \/ RequireClient(r) \/ FindUsable(r)
                           \/ MarkUsed(r) \/ ResolveClaims(r) \/ SaveAccessToken(r)
                           \/ SaveRefreshToken(r))
  \/ r \in Uses /\ (UseArrives(r) \/ FindToken(r) \/ FindSession(r) \/ VerifyBearer(r))

Same(q) == pc'[q] = pc[q] /\ asked'[q] = asked[q] /\ local'[q] = local[q] /\ at'[q] = at[q]

LEMMA OthersKept ==
  ASSUME TypeOK, NEW r \in Requests, StepOf(r), NEW q \in Requests, q # r
  PROVE  Same(q)
<1> USE DEF TypeOK, Same, stores, Arrive, Goto, Return, Keep, Forget, Refuse, Accept
<1>1. CASE Abandon(r)
  BY <1>1 DEF Abandon
<1>2. CASE LogoutArrives(r) \/ AuthenticateLogout(r) \/ Revoke(r)
  BY <1>2 DEF LogoutArrives, AuthenticateLogout, Revoke
<1>3. CASE AuthorizeArrives(r) \/ AuthenticateAuthorize(r) \/ CheckClient(r) \/ SaveCode(r)
  BY <1>3 DEF AuthorizeArrives, AuthenticateAuthorize, CheckClient, SaveCode
<1>4. CASE \/ RedemptionArrives(r) \/ RequireClient(r) \/ FindUsable(r) \/ MarkUsed(r)
           \/ ResolveClaims(r) \/ SaveAccessToken(r) \/ SaveRefreshToken(r)
  BY <1>4 DEF RedemptionArrives, RequireClient, FindUsable, MarkUsed, ResolveClaims,
              SaveAccessToken, SaveRefreshToken
<1>5. CASE UseArrives(r) \/ FindToken(r) \/ FindSession(r) \/ VerifyBearer(r)
  BY <1>5 DEF UseArrives, FindToken, FindSession, VerifyBearer
<1>6. QED
  BY <1>1, <1>2, <1>3, <1>4, <1>5 DEF StepOf

LEMMA CodesSavedBySaveCode ==
  ASSUME TypeOK, Held, [Next]_vars, NEW a \in Authorizations, ~SaveCode(a), codes[a] = None
  PROVE  codes'[a] = None
<1>1. ASSUME NEW t \in Redemptions, MarkUsed(t) PROVE codes'[a] = codes[a]
  <2>1. asked[t].code # a
    BY <1>1 DEF MarkUsed, Held, HeldByRedemption, HeldByAuthorization, Redeeming
  <2>2. QED
    BY <1>1, <2>1 DEF MarkUsed, TypeOK
<1>2. ASSUME NEW c \in Authorizations, SaveCode(c) PROVE codes'[a] = codes[a]
  BY <1>2 DEF SaveCode, TypeOK
<1>3. QED
  BY <1>1, <1>2
     DEF Next, vars, stores, Tick, Login, Abandon, Arrive, LogoutArrives,
         AuthenticateLogout, Revoke, AuthorizeArrives, AuthenticateAuthorize,
         CheckClient, RedemptionArrives, RequireClient, FindUsable, ResolveClaims,
         SaveAccessToken, SaveRefreshToken, UseArrives, FindToken, FindSession,
         VerifyBearer

LEMMA TokensSavedByOwner ==
  ASSUME TypeOK, [Next]_vars, NEW t \in Redemptions, ~SaveAccessToken(t), ~SaveRefreshToken(t)
  PROVE  accessTokens'[t] = accessTokens[t] /\ refreshTokens'[t] = refreshTokens[t]
BY DEF TypeOK, Next, vars, stores, Tick, Login, Abandon, Arrive, LogoutArrives,
       AuthenticateLogout, Revoke, AuthorizeArrives, AuthenticateAuthorize,
       CheckClient, SaveCode, RedemptionArrives, RequireClient, FindUsable, MarkUsed,
       ResolveClaims, SaveAccessToken, SaveRefreshToken, UseArrives, FindToken,
       FindSession, VerifyBearer

LEMMA SavedCodesStay ==
  ASSUME TypeOK, Held, [Next]_vars, NEW a \in Authorizations, codes[a] # None
  PROVE  codes'[a] # None /\ SameCode(codes'[a], codes[a]) /\ (codes[a].used => codes'[a].used)
<1>1. ASSUME NEW c \in Authorizations, SaveCode(c) PROVE codes'[a] = codes[a]
  <2>1. a # c
    BY <1>1 DEF SaveCode, Held, HeldByAuthorization
  <2>2. QED
    BY <1>1, <2>1 DEF SaveCode, TypeOK
<1>2. ASSUME NEW t \in Redemptions, MarkUsed(t)
      PROVE  codes'[a] = codes[a] \/ codes'[a] = [codes[a] EXCEPT !.used = TRUE]
  BY <1>2 DEF MarkUsed, TypeOK
<1>3. codes'[a] = codes[a] \/ codes'[a] = [codes[a] EXCEPT !.used = TRUE]
  BY <1>1, <1>2
     DEF Next, vars, stores, Tick, Login, Abandon, Arrive, LogoutArrives,
         AuthenticateLogout, Revoke, AuthorizeArrives, AuthenticateAuthorize,
         CheckClient, RedemptionArrives, RequireClient, FindUsable, ResolveClaims,
         SaveAccessToken, SaveRefreshToken, UseArrives, FindToken, FindSession,
         VerifyBearer
<1>4. codes[a] \in CodeRecord
  BY DEF TypeOK
<1>5. codes'[a] \in CodeRecord
  BY <1>3, <1>4 DEF CodeRecord
<1>6. codes'[a] # None
  BY <1>5, NoneAssumption
<1>7. QED
  BY <1>3, <1>4, <1>6 DEF CodeRecord, SameCode

-----------------------------------------------------------------------------
(* What has been checked by the time a request makes each of its calls.     *)

Registered(x) == /\ x.redirect \in AllowedRedirects[x.client]
                 /\ x.scope \in AllowedScopes[x.client]

Vouched(x) == IF x.session = None THEN x.subject \in DevSubjects
                                  ELSE x.subject = SubjectOf[x.session]

SoundAuthorization(a) ==
  /\ pc[a] \in {"checkClient", "saveCode"} => Vouched(local[a])
  /\ pc[a] = "saveCode" => Registered(asked[a])
  /\ codes[a] # None => Registered(codes[a]) /\ Vouched(codes[a])

Traced(t, token) ==
  LET code == codes[asked[t].code] IN
  /\ code.used /\ Matches(t, code)
  /\ token.client = code.client /\ token.subject = code.subject
  /\ token.session = code.session /\ token.scope = code.scope

SoundRedemption(t) ==
  /\ pc[t] \in Redeeming => /\ SameCode(local[t], codes[asked[t].code])
                            /\ Matches(t, local[t])
  /\ pc[t] \in Redeeming \ {"markUsed"} => codes[asked[t].code].used
  /\ accessTokens[t] # None => Traced(t, accessTokens[t])
  /\ refreshTokens[t] # None => Traced(t, refreshTokens[t])

Sound == /\ \A a \in Authorizations : SoundAuthorization(a)
         /\ \A t \in Redemptions : SoundRedemption(t)

\* The token made of a code that t was entitled to traces back to it.
LEMMA TokenIsTraced ==
  ASSUME NEW t, NEW lifetime, codes[asked[t].code].used,
         SameCode(local[t], codes[asked[t].code]), Matches(t, local[t])
  PROVE  Traced(t, TokenOf(t, lifetime))
BY DEF Traced, TokenOf, SameCode, Matches

LEMMA SoundImpliesGrantsTrace == TypeOK /\ Held /\ Sound => GrantsTrace
<1> SUFFICES ASSUME TypeOK, Held, Sound, NEW t \in Redemptions,
                    NEW token \in {accessTokens[t], refreshTokens[t]} \ {None}
             PROVE  LET code == codes[asked[t].code] IN
                    /\ code # None /\ code.used /\ Matches(t, code)
                    /\ <<token.client, token.subject, token.session, token.scope>>
                         = <<code.client, code.subject, code.session, code.scope>>
                    /\ Registered(code) /\ Vouched(code)
  BY DEF GrantsTrace, Registered, Vouched
<1>1. asked[t] \in RedeemParams /\ pc[asked[t].code] = "answered"
  BY DEF Held, HeldByRedemption, TypeOK
<1>2. asked[t].code \in Authorizations /\ codes[asked[t].code] # None
  BY <1>1 DEF RedeemParams, Held, HeldByAuthorization
<1>3. QED
  BY <1>2 DEF Sound, SoundAuthorization, SoundRedemption, Traced

LEMMA AuthorizationKept ==
  ASSUME TypeOK, Held, [Next]_vars, NEW a \in Authorizations, SoundAuthorization(a),
         pc'[a] = pc[a], asked'[a] = asked[a], local'[a] = local[a],
         codes[a] = None => codes'[a] = None
  PROVE  SoundAuthorization(a)'
  BY SavedCodesStay DEF SoundAuthorization, Registered, Vouched, SameCode

LEMMA RedemptionKept ==
  ASSUME TypeOK, Held, [Next]_vars, NEW t \in Redemptions, SoundRedemption(t),
         pc'[t] = pc[t], asked'[t] = asked[t], local'[t] = local[t],
         accessTokens'[t] = accessTokens[t], refreshTokens'[t] = refreshTokens[t]
  PROVE  SoundRedemption(t)'
<1>1. CASE asked[t] = None
  BY <1>1 DEF Held, HeldByRedemption, SoundRedemption
<1>2. CASE asked[t] # None
  <2> DEFINE a == asked[t].code
  <2>1. a \in Authorizations /\ codes[a] # None
    BY <1>2 DEF TypeOK, RedeemParams, Held, HeldByRedemption, HeldByAuthorization
  <2>2. codes'[a] # None /\ SameCode(codes'[a], codes[a]) /\ (codes[a].used => codes'[a].used)
    BY <2>1, SavedCodesStay
  <2>3. QED
    BY <2>2 DEF SoundRedemption, Traced, Matches, SameCode
<1>3. QED
  BY <1>1, <1>2

LEMMA SoundInit == Init => Sound
  BY DEF Init, Requests, Sound, SoundAuthorization, SoundRedemption, Redeeming

LEMMA SoundStep == TypeOK /\ Held /\ Sound /\ [Next]_vars => Sound'
<1> SUFFICES ASSUME TypeOK, Held, Sound, [Next]_vars PROVE Sound'
  OBVIOUS
<1> USE RequestsAssumption DEF Requests, Ended, Redeeming
<1>1. ASSUME NEW a \in Authorizations PROVE SoundAuthorization(a)'
  <2>1. CASE AuthorizeArrives(a)
    BY <2>1, <1>1 DEF AuthorizeArrives, Arrive, Goto, stores, TypeOK, Sound,
                      SoundAuthorization
  <2>2. CASE AuthenticateAuthorize(a)
    <3>1. asked[a] \in AuthorizeParams
      BY <2>2 DEF AuthenticateAuthorize, TypeOK, Held, HeldByAuthorization
    <3>2. Principal(a) # None => Vouched(Principal(a))
      BY <3>1, DataAssumption DEF Principal, Vouched, AuthorizeParams
    <3> DEFINE p == Principal(a)
    <3> HIDE DEF p
    <3>3. codes' = codes /\ (pc'[a] \in {"checkClient", "saveCode"} =>
            pc'[a] = "checkClient" /\ local'[a] = p /\ p # None)
      BY <2>2 DEF AuthenticateAuthorize, Refuse, Return, Keep, Goto, stores, TypeOK, p
    <3>4. QED
      BY <3>2, <3>3 DEF Sound, SoundAuthorization, Registered, Vouched, p
  <2>3. CASE CheckClient(a)
    BY <2>3 DEF CheckClient, Refuse, Return, Goto, stores, TypeOK, Sound,
                SoundAuthorization, Registered, Vouched
  <2>4. CASE SaveCode(a)
    <3>1. /\ pc'[a] = "answered" /\ codes'[a].redirect = asked[a].redirect
          /\ codes'[a].client = asked[a].client /\ codes'[a].scope = asked[a].scope
          /\ codes'[a].subject = local[a].subject /\ codes'[a].session = local[a].session
      BY <2>4 DEF SaveCode, Return, TypeOK
    <3>2. Registered(asked[a]) /\ Vouched(local[a])
      BY <2>4 DEF SaveCode, Sound, SoundAuthorization
    <3>3. QED
      BY <3>1, <3>2 DEF SoundAuthorization, Registered, Vouched
  <2>5. CASE Abandon(a)
    BY <2>5 DEF Abandon, Return, stores, TypeOK, Sound, SoundAuthorization,
                Registered, Vouched
  <2>6. CASE ~(\/ AuthorizeArrives(a) \/ AuthenticateAuthorize(a) \/ CheckClient(a)
               \/ SaveCode(a) \/ Abandon(a))
    <3>1. Same(a) \/ \E r \in Requests : r # a /\ StepOf(r)
      BY <2>6 DEF Next, vars, stores, Tick, Login, Same, StepOf
    <3>2. Same(a)
      BY <3>1, OthersKept
    <3>3. codes[a] = None => codes'[a] = None
      BY <2>6, CodesSavedBySaveCode
    <3>4. QED
      BY <3>2, <3>3, AuthorizationKept DEF Sound, Same
  <2>7. QED
    BY <2>1, <2>2, <2>3, <2>4, <2>5, <2>6
<1>2. ASSUME NEW t \in Redemptions PROVE SoundRedemption(t)'
  <2> DEFINE a == asked[t].code
  <2>1. ASSUME asked[t] # None
        PROVE  a \in Authorizations /\ codes[a] # None /\ codes[a] \in CodeRecord
    BY <2>1 DEF TypeOK, RedeemParams, Held, HeldByRedemption, HeldByAuthorization
  <2>2. CASE RedemptionArrives(t)
    BY <2>2 DEF RedemptionArrives, Arrive, Goto, stores, TypeOK, Held, HeldByRedemption,
                SoundRedemption
  <2>3. CASE RequireClient(t)
    BY <2>3 DEF RequireClient, Goto, stores, TypeOK, Held, HeldByRedemption,
                SoundRedemption
  <2>4. CASE FindUsable(t)
    BY <2>4 DEF FindUsable, Refuse, Return, Keep, Goto, stores, TypeOK, Held,
                HeldByRedemption, SoundRedemption, SameCode, Matches
  <2>5. CASE MarkUsed(t)
    <3>1. /\ asked' = asked /\ local' = local /\ accessTokens' = accessTokens
          /\ refreshTokens' = refreshTokens /\ pc[t] = "markUsed"
          /\ pc'[t] = "resolveClaims" /\ codes'[a] = [codes[a] EXCEPT !.used = TRUE]
      BY <2>5, <2>1 DEF MarkUsed, Goto, TypeOK, Held, HeldByRedemption
    <3>2. codes'[a].used /\ SameCode(codes'[a], codes[a])
      BY <2>5, <2>1, <3>1 DEF MarkUsed, Held, HeldByRedemption, CodeRecord, SameCode
    <3>3. accessTokens[t] = None /\ refreshTokens[t] = None
      BY <3>1 DEF Held, HeldByRedemption
    <3>4. SameCode(local[t], codes[a]) /\ Matches(t, local[t])
      BY <3>1 DEF Sound, SoundRedemption
    <3>5. Matches(t, local[t])'
      BY <3>1, <3>4 DEF Matches
    <3>6. SameCode(local[t], codes'[a])
      BY <3>2, <3>4 DEF SameCode
    <3>7. QED
      BY <3>1, <3>2, <3>3, <3>5, <3>6 DEF SoundRedemption
  <2>6. CASE ResolveClaims(t)
    BY <2>6 DEF ResolveClaims, Goto, stores, TypeOK, Sound, SoundRedemption, Held,
                HeldByRedemption, Matches
  <2>7. CASE SaveAccessToken(t)
    <3>1. /\ codes' = codes /\ asked' = asked /\ local' = local
          /\ refreshTokens' = refreshTokens /\ pc'[t] = "saveRefreshToken"
          /\ accessTokens'[t] = TokenOf(t, AccessTTL) /\ pc[t] = "saveAccessToken"
      BY <2>7 DEF SaveAccessToken, Goto, TypeOK
    <3>2. SoundRedemption(t)
      BY DEF Sound
    <3>3. /\ codes[asked[t].code].used /\ Matches(t, local[t])
          /\ SameCode(local[t], codes[asked[t].code])
      BY <3>1, <3>2 DEF SoundRedemption, Redeeming
    <3>4. PICK token : token = TokenOf(t, AccessTTL)
      OBVIOUS
    <3>5. Traced(t, token) /\ Traced(t, token)'
      BY <3>1, <3>3, <3>4, TokenIsTraced DEF Traced, Matches
    <3>6. Matches(t, local[t])'
      BY <3>1, <3>3 DEF Matches
    <3>7. refreshTokens[t] = None
      BY <3>1 DEF Held, HeldByRedemption
    <3>8. QED
      BY <3>1, <3>3, <3>4, <3>5, <3>6, <3>7 DEF SoundRedemption
  <2>8. CASE SaveRefreshToken(t)
    <3>1. /\ codes' = codes /\ asked' = asked /\ accessTokens' = accessTokens
          /\ pc'[t] = "answered" /\ refreshTokens'[t] = TokenOf(t, RefreshTTL)
          /\ pc[t] = "saveRefreshToken"
      BY <2>8 DEF SaveRefreshToken, Return, TypeOK
    <3>2. SoundRedemption(t)
      BY DEF Sound
    <3>3. /\ codes[asked[t].code].used /\ Matches(t, local[t])
          /\ SameCode(local[t], codes[asked[t].code])
      BY <3>1, <3>2 DEF SoundRedemption, Redeeming
    <3>4. PICK token : token = TokenOf(t, RefreshTTL)
      OBVIOUS
    <3>5. Traced(t, token) /\ Traced(t, token)'
      BY <3>1, <3>3, <3>4, TokenIsTraced DEF Traced, Matches
    <3>6. accessTokens[t] # None => Traced(t, accessTokens[t])'
      BY <3>1, <3>2 DEF SoundRedemption, Traced, Matches
    <3>7. QED
      BY <3>1, <3>4, <3>5, <3>6 DEF SoundRedemption, Redeeming
  <2>9. CASE Abandon(t)
    <3>1. /\ pc'[t] = "refused" /\ UNCHANGED stores
          /\ (accessTokens[t] # None \/ refreshTokens[t] # None => asked' = asked)
      BY <2>9 DEF Abandon, Return, TypeOK, Held, HeldByRedemption
    <3>2. QED
      BY <3>1 DEF Sound, SoundRedemption, Traced, Matches, stores
  <2>10. CASE ~StepOf(t)
    <3>1. Same(t)
      <4>1. Same(t) \/ \E r \in Requests : r # t /\ StepOf(r)
        BY <2>10 DEF Next, vars, stores, Tick, Login, Same, StepOf
      <4>2. QED
        BY <4>1, OthersKept
    <3>2. accessTokens'[t] = accessTokens[t] /\ refreshTokens'[t] = refreshTokens[t]
      BY <2>10, TokensSavedByOwner DEF StepOf
    <3>3. QED
      BY <3>1, <3>2, RedemptionKept DEF Sound, Same
  <2>11. QED
    BY <2>2, <2>3, <2>4, <2>5, <2>6, <2>7, <2>8, <2>9, <2>10 DEF StepOf
<1>3. QED
  BY <1>1, <1>2 DEF Sound

\* A token in the store was issued from a saved code that is marked used, to
\* the code's client, for what its user granted, whatever requests interleave
\* or stop on the way (issueAuthorizationCodeToken, issueTokens).
THEOREM EveryGrantTraces == Spec => []GrantsTrace
<1>1. Init => TypeOK /\ Held /\ Sound
  BY HeldInit, SoundInit
<1>2. TypeOK /\ Held /\ Sound /\ [Next]_vars => (TypeOK /\ Held /\ Sound)'
  BY HeldStep, SoundStep
<1>3. TypeOK /\ Held /\ Sound => GrantsTrace
  BY SoundImpliesGrantsTrace
<1>4. QED
  BY <1>1, <1>2, <1>3, PTL DEF Spec

-----------------------------------------------------------------------------
(* A redemption that arrives after its code was used.                      *)

TooLate(t) == asked[t] # None /\ asked[t].usedBefore =>
                /\ codes[asked[t].code].used
                /\ pc[t] \notin Redeeming
                /\ accessTokens[t] = None /\ refreshTokens[t] = None

LEMMA TooLateStep ==
  ASSUME TypeOK, Held, [Next]_vars, NEW t \in Redemptions, TooLate(t)
  PROVE  TooLate(t)'
<1> USE RequestsAssumption DEF Requests, Ended, Redeeming
<1> SUFFICES ASSUME asked'[t] # None, asked'[t].usedBefore
             PROVE  /\ codes'[asked'[t].code].used
                    /\ pc'[t] \notin Redeeming
                    /\ accessTokens'[t] = None /\ refreshTokens'[t] = None
  BY DEF TooLate
<1>1. CASE RedemptionArrives(t)
  BY <1>1 DEF RedemptionArrives, Arrive, Goto, stores, TypeOK, Held, HeldByRedemption
<1>2. CASE ~RedemptionArrives(t)
  <2>1. asked'[t] = asked[t] /\ asked[t] # None
    <3>1. Same(t) \/ StepOf(t)
      <4>1. Same(t) \/ StepOf(t) \/ \E r \in Requests : r # t /\ StepOf(r)
        BY DEF Next, vars, stores, Tick, Login, Same, StepOf
      <4>2. QED
        BY <4>1, OthersKept
    <3>2. QED
      BY <1>2, <3>1, OthersKept
         DEF Same, StepOf, TypeOK, Abandon, RequireClient, FindUsable, MarkUsed,
             ResolveClaims, SaveAccessToken, SaveRefreshToken, Refuse, Return, Forget
  <2>2. /\ codes[asked[t].code].used /\ pc[t] \notin Redeeming
        /\ accessTokens[t] = None /\ refreshTokens[t] = None
    BY <2>1 DEF TooLate
  <2>3. asked[t].code \in Authorizations /\ codes[asked[t].code] # None
    BY <2>1 DEF TypeOK, RedeemParams, Held, HeldByRedemption, HeldByAuthorization
  <2>4. codes'[asked'[t].code].used
    BY <2>1, <2>2, <2>3, SavedCodesStay
  <2>5. accessTokens'[t] = None /\ refreshTokens'[t] = None
    BY <2>2, TokensSavedByOwner DEF SaveAccessToken, SaveRefreshToken
  <2>6. pc'[t] \notin Redeeming
    <3>1. CASE StepOf(t)
      BY <1>2, <2>1, <2>2, <3>1
         DEF StepOf, TypeOK, Abandon, RequireClient, FindUsable, MarkUsed, Usable,
             ResolveClaims, SaveAccessToken, SaveRefreshToken, Refuse, Return, Goto
    <3>2. CASE ~StepOf(t)
      <4>1. Same(t) \/ \E r \in Requests : r # t /\ StepOf(r)
        BY <3>2 DEF Next, vars, stores, Tick, Login, Same, StepOf
      <4>2. QED
        BY <4>1, <2>2, OthersKept DEF Same
    <3>3. QED
      BY <3>1, <3>2
  <2>7. QED
    BY <2>4, <2>5, <2>6
<1>3. QED
  BY <1>1, <1>2

\* A redemption that arrives after its code was marked used saves no token
\* (findUsable, markUsed), also when the one that marked it stopped halfway.
THEOREM ReplaysAreTooLate == Spec => []LateReplayRejected
<1> DEFINE Late == \A t \in Redemptions : TooLate(t)
<1>1. Init => TypeOK /\ Held /\ Late
  BY HeldInit DEF Init, Requests, TooLate
<1>2. TypeOK /\ Held /\ Late /\ [Next]_vars => (TypeOK /\ Held /\ Late)'
  BY HeldStep, TooLateStep
<1>3. Late => LateReplayRejected
  BY DEF TooLate, LateReplayRejected
<1>4. QED
  BY <1>1, <1>2, <1>3, PTL DEF Spec

-----------------------------------------------------------------------------
(* Sessions that are over, and requests that arrive later.                 *)

Over(s) == sessions[s] # None /\ ~SessionLive(s, now)

LEMMA ClockRuns ==
  ASSUME TypeOK, [Next]_vars
  PROVE  now' \in Nat /\ now' >= now
<1>1. ASSUME NEW r \in Requests, StepOf(r) PROVE now' = now
  <2>1. CASE r \in Logouts \cup Authorizations
    BY <1>1, <2>1, RequestsAssumption
       DEF StepOf, Abandon, Arrive, Return, Goto, LogoutArrives, AuthenticateLogout,
           Revoke, AuthorizeArrives, AuthenticateAuthorize, CheckClient, SaveCode, Refuse
  <2>2. CASE r \in Redemptions \cup Uses
    BY <1>1, <2>2, RequestsAssumption
       DEF StepOf, Abandon, Arrive, Return, Goto, RedemptionArrives, RequireClient,
           FindUsable, MarkUsed, ResolveClaims, SaveAccessToken, SaveRefreshToken,
           UseArrives, FindToken, FindSession, VerifyBearer, Refuse, Accept
  <2>3. QED
    BY <2>1, <2>2 DEF Requests
<1>2. now' = now \/ now' = now + 1
  BY <1>1 DEF Next, vars, Tick, Login, Requests, StepOf
<1>3. QED
  BY <1>2 DEF TypeOK

LEMMA OverForGood ==
  ASSUME TypeOK, Held, [Next]_vars, NEW s \in Sessions, Over(s)
  PROVE  Over(s)'
<1>1. now' \in Nat /\ now' >= now
  BY ClockRuns
<1>2. sessions'[s] = sessions[s] \/ sessions'[s] = [sessions[s] EXCEPT !.revoked = TRUE]
  <2>1. ASSUME NEW l \in Logouts, Revoke(l)
        PROVE  sessions'[s] = sessions[s] \/ sessions'[s] = [sessions[s] EXCEPT !.revoked = TRUE]
    BY <2>1 DEF Revoke, TypeOK
  <2>2. ASSUME NEW r \in Sessions, Login(r) PROVE sessions'[s] = sessions[s]
    BY <2>2 DEF Login, TypeOK, Over
  <2>3. QED
    BY <2>1, <2>2
       DEF Next, vars, stores, Tick, Abandon, Arrive, LogoutArrives,
           AuthenticateLogout, AuthorizeArrives, AuthenticateAuthorize, CheckClient,
           SaveCode, RedemptionArrives, RequireClient, FindUsable, MarkUsed,
           ResolveClaims, SaveAccessToken, SaveRefreshToken, UseArrives, FindToken,
           FindSession, VerifyBearer
<1>3. sessions[s] \in SessionRecord
  BY DEF TypeOK, Over
<1>4. sessions'[s] \in SessionRecord
  BY <1>2, <1>3 DEF SessionRecord
<1>5. sessions'[s] # None
  BY <1>4, NoneAssumption
<1>6. QED
  BY <1>1, <1>2, <1>3, <1>5 DEF Over, SessionLive, SessionRecord, TypeOK

OverBefore(r) == asked[r] # None =>
                   /\ asked[r].endedBefore \subseteq Sessions
                   /\ \A s \in asked[r].endedBefore : Over(s)

AuthorizationInTime(a) ==
  /\ OverBefore(a)
  /\ pc[a] \in {"checkClient", "saveCode"} => local[a].session \notin asked[a].endedBefore
  /\ codes[a] # None => codes[a].session \notin asked[a].endedBefore

UseInTime(b) ==
  LET token == accessTokens[asked[b].token] IN
  /\ OverBefore(b)
  /\ pc[b] = "userinfo" /\ asked[b].expiredBefore => token.expiresAt <= at[b]
  /\ pc[b] = "gateway" /\ asked[b].expiredBefore => token.expiresAt <= now
  /\ pc[b] = "findSession" => local[b].session = token.session /\ ~asked[b].expiredBefore
  /\ pc[b] = "answered" => /\ token.session \notin asked[b].endedBefore
                           /\ ~asked[b].expiredBefore

LEMMA OverBeforeKept ==
  ASSUME TypeOK, Held, [Next]_vars, NEW r \in Requests, OverBefore(r),
         asked'[r] = asked[r] \/ asked'[r] = None
  PROVE  OverBefore(r)'
BY OverForGood DEF OverBefore

LEMMA OverBeforeSeen ==
  ASSUME TypeOK, NEW r \in Requests, asked'[r].endedBefore = EndedSessions,
         UNCHANGED <<now, sessions>>
  PROVE  OverBefore(r)'
BY DEF OverBefore, EndedSessions, Over, SessionLive

LEMMA AuthorizationInTimeStep ==
  ASSUME TypeOK, Held, [Next]_vars, NEW a \in Authorizations, AuthorizationInTime(a)
  PROVE  AuthorizationInTime(a)'
<1> USE RequestsAssumption DEF Requests, Ended
<1>1. CASE AuthorizeArrives(a)
  <2>1. /\ asked'[a].endedBefore = EndedSessions /\ pc'[a] = "authenticate"
        /\ UNCHANGED <<now, sessions, codes>> /\ pc[a] = "idle"
    BY <1>1 DEF AuthorizeArrives, Arrive, Goto, stores, TypeOK
  <2>2. OverBefore(a)'
    BY <2>1, OverBeforeSeen
  <2>3. QED
    BY <2>1, <2>2 DEF AuthorizationInTime, Held, HeldByAuthorization
<1>2. CASE AuthenticateAuthorize(a)
  <2> DEFINE p == Principal(a)
  <2>1. p # None => p.session = None \/ (p.session \in Sessions /\ SessionLive(p.session, now))
    BY <1>2, DataAssumption
       DEF AuthenticateAuthorize, Principal, TypeOK, Held, HeldByAuthorization, AuthorizeParams
  <2> HIDE DEF p
  <2>2. /\ asked'[a] = asked[a] \/ asked'[a] = None
        /\ codes' = codes /\ codes[a] = None
        /\ pc'[a] \in {"checkClient", "saveCode"} =>
             local'[a] = p /\ p # None /\ asked'[a] = asked[a] /\ asked[a] # None
    BY <1>2 DEF AuthenticateAuthorize, Refuse, Forget, Return, Keep, Goto, stores, TypeOK, p,
                Held, HeldByAuthorization
  <2>3. OverBefore(a)'
    BY <2>2, OverBeforeKept DEF AuthorizationInTime
  <2>4. pc'[a] \in {"checkClient", "saveCode"} => p.session \notin asked[a].endedBefore
    BY <2>1, <2>2, DataAssumption DEF AuthorizationInTime, OverBefore, Over
  <2>5. QED
    BY <2>2, <2>3, <2>4 DEF AuthorizationInTime
<1>3. CASE CheckClient(a)
  <2>1. /\ asked'[a] = asked[a] \/ asked'[a] = None
        /\ codes' = codes /\ codes[a] = None /\ pc[a] = "checkClient"
        /\ pc'[a] \in {"checkClient", "saveCode"} =>
             local'[a] = local[a] /\ asked'[a] = asked[a]
    BY <1>3 DEF CheckClient, Refuse, Forget, Return, Goto, stores, TypeOK, Held,
                HeldByAuthorization
  <2>2. OverBefore(a)'
    BY <2>1, OverBeforeKept DEF AuthorizationInTime
  <2>3. QED
    BY <2>1, <2>2 DEF AuthorizationInTime
<1>4. CASE SaveCode(a)
  <2>1. /\ asked'[a] = asked[a] /\ codes'[a].session = local[a].session
        /\ pc'[a] = "answered" /\ pc[a] = "saveCode"
    BY <1>4 DEF SaveCode, Return, TypeOK
  <2>2. OverBefore(a)'
    BY <2>1, OverBeforeKept DEF AuthorizationInTime
  <2>3. QED
    BY <2>1, <2>2 DEF AuthorizationInTime
<1>5. CASE Abandon(a)
  <2>1. /\ asked'[a] = asked[a] \/ asked'[a] = None
        /\ pc'[a] = "refused" /\ codes' = codes /\ codes[a] = None
    BY <1>5 DEF Abandon, Return, Forget, stores, TypeOK, Held, HeldByAuthorization
  <2>2. OverBefore(a)'
    BY <2>1, OverBeforeKept DEF AuthorizationInTime
  <2>3. QED
    BY <2>1, <2>2 DEF AuthorizationInTime
<1>6. CASE ~StepOf(a)
  <2>1. Same(a)
    <3>1. Same(a) \/ \E r \in Requests : r # a /\ StepOf(r)
      BY <1>6 DEF Next, vars, stores, Tick, Login, Same, StepOf
    <3>2. QED
      BY <3>1, OthersKept
  <2>2. OverBefore(a)'
    BY <2>1, OverBeforeKept DEF Same, AuthorizationInTime
  <2>3. codes[a] = None => codes'[a] = None
    BY <1>6, CodesSavedBySaveCode DEF StepOf
  <2>4. codes[a] # None => codes'[a].session = codes[a].session
    BY SavedCodesStay DEF SameCode
  <2>5. QED
    BY <2>1, <2>2, <2>3, <2>4 DEF AuthorizationInTime, Same
<1>7. QED
  BY <1>1, <1>2, <1>3, <1>4, <1>5, <1>6 DEF StepOf

LEMMA AnsweredTokensStay ==
  ASSUME TypeOK, Held, [Next]_vars, NEW t \in Redemptions, pc[t] = "answered"
  PROVE  accessTokens'[t] = accessTokens[t]
BY TokensSavedByOwner DEF SaveAccessToken, SaveRefreshToken

LEMMA UseInTimeStep ==
  ASSUME TypeOK, Held, [Next]_vars, NEW b \in Uses, UseInTime(b)
  PROVE  UseInTime(b)'
<1> USE RequestsAssumption DEF Requests, Ended
<1>1. CASE UseArrives(b)
  <2>1. PICK t \in Redemptions : /\ pc[t] = "answered"
                                 /\ asked'[b] = [token |-> t, endedBefore |-> EndedSessions,
                                      expiredBefore |-> accessTokens[t].expiresAt <= now]
                                 /\ UNCHANGED <<now, sessions, accessTokens>>
                                 /\ pc'[b] \in {"userinfo", "gateway"} /\ at'[b] = now
    BY <1>1 DEF UseArrives, Arrive, Goto, stores, TypeOK
  <2>2. OverBefore(b)'
    BY <2>1, OverBeforeSeen
  <2>3. asked'[b].token = t
    BY <2>1
  <2>4. asked'[b].expiredBefore = (accessTokens[t].expiresAt <= now)
    BY <2>1
  <2>5. QED
    BY <2>1, <2>2, <2>3, <2>4 DEF UseInTime
<1>2. CASE ~UseArrives(b) /\ asked[b] # None
  <2> DEFINE token == accessTokens[asked[b].token]
  <2>1. asked[b].token \in Redemptions /\ pc[asked[b].token] = "answered"
    BY <1>2 DEF TypeOK, UseParams, Held, HeldByUse
  <2>2. accessTokens'[asked[b].token] = token /\ token \in TokenRecord
    BY <2>1, AnsweredTokensStay DEF TypeOK, Held, HeldByRedemption
  <2>3. now <= now' /\ now \in Nat /\ now' \in Nat
    BY ClockRuns DEF TypeOK
  <2>4. CASE FindToken(b)
    <3>1. /\ pc[b] = "userinfo" /\ (asked'[b] = asked[b] \/ asked'[b] = None)
          /\ asked'[b] = None => pc'[b] = "refused"
          /\ pc'[b] \in {"findSession", "answered", "refused"}
          /\ pc'[b] = "findSession" => local'[b] = token /\ token.expiresAt > at[b]
          /\ pc'[b] = "answered" => token.session = None /\ token.expiresAt > at[b]
      BY <2>4, <1>2 DEF FindToken, Refuse, Accept, Return, Forget, Goto, Keep, TypeOK
    <3>2. OverBefore(b)'
      BY <3>1, OverBeforeKept DEF UseInTime
    <3>3. token.expiresAt > at[b] => ~asked[b].expiredBefore
      BY <3>1, <2>2 DEF UseInTime, TypeOK, TokenRecord
    <3>4. None \notin asked[b].endedBefore
      BY <1>2, DataAssumption DEF UseInTime, OverBefore
    <3>5. QED
      BY <3>1, <3>2, <3>3, <3>4, <2>2 DEF UseInTime
  <2>5. CASE FindSession(b)
    <3>1. /\ pc[b] = "findSession" /\ (asked'[b] = asked[b] \/ asked'[b] = None)
          /\ pc'[b] \in {"answered", "refused"}
          /\ pc'[b] = "answered" => SessionLive(local[b].session, now) /\ asked'[b] = asked[b]
      BY <2>5 DEF FindSession, Refuse, Accept, Return, Forget, TypeOK
    <3>2. OverBefore(b)'
      BY <3>1, OverBeforeKept DEF UseInTime
    <3>3. pc'[b] = "answered" => token.session \notin asked[b].endedBefore
      BY <3>1, <1>2 DEF UseInTime, OverBefore, Over
    <3>4. QED
      BY <3>1, <3>2, <3>3, <2>2 DEF UseInTime
  <2>6. CASE VerifyBearer(b)
    <3>1. /\ pc[b] = "gateway" /\ (asked'[b] = asked[b] \/ asked'[b] = None)
          /\ pc'[b] \in {"answered", "refused"}
          /\ pc'[b] = "answered" => /\ token.expiresAt > now
                                    /\ token.session # None => SessionLive(token.session, now)
                                    /\ asked'[b] = asked[b]
      BY <2>6 DEF VerifyBearer, Refuse, Accept, Return, Forget, TypeOK
    <3>2. OverBefore(b)'
      BY <3>1, OverBeforeKept DEF UseInTime
    <3>3. pc'[b] = "answered" => /\ token.session \notin asked[b].endedBefore
                                 /\ ~asked[b].expiredBefore
      BY <3>1, <1>2, <2>2, <2>3, DataAssumption DEF UseInTime, OverBefore, Over, TokenRecord
    <3>4. QED
      BY <3>1, <3>2, <3>3, <2>2 DEF UseInTime
  <2>7. CASE Abandon(b)
    <3>1. (asked'[b] = asked[b] \/ asked'[b] = None) /\ pc'[b] = "refused"
      BY <2>7 DEF Abandon, Return, Forget, TypeOK
    <3>2. OverBefore(b)'
      BY <3>1, OverBeforeKept DEF UseInTime
    <3>3. QED
      BY <3>1, <3>2 DEF UseInTime
  <2>8. CASE ~StepOf(b)
    <3>1. Same(b)
      <4>1. Same(b) \/ \E r \in Requests : r # b /\ StepOf(r)
        BY <2>8 DEF Next, vars, stores, Tick, Login, Same, StepOf
      <4>2. QED
        BY <4>1, OthersKept
    <3>2. OverBefore(b)'
      BY <3>1, OverBeforeKept DEF Same, UseInTime
    <3>3. QED
      BY <3>1, <3>2, <2>2, <2>3 DEF UseInTime, Same, TokenRecord
  <2>9. QED
    BY <1>2, <2>4, <2>5, <2>6, <2>7, <2>8 DEF StepOf
<1>3. CASE ~UseArrives(b) /\ asked[b] = None
  <2>1. pc[b] \notin {"userinfo", "gateway", "findSession", "answered"}
    BY <1>3 DEF Held, HeldByUse
  <2>2. asked'[b] = None /\ (pc'[b] = pc[b] \/ pc'[b] = "refused")
    <3>1. Same(b) \/ Abandon(b) \/ \E r \in Requests : r # b /\ StepOf(r)
      BY <1>3, <2>1 DEF Next, vars, stores, Tick, Login, Same, StepOf, FindToken,
                        FindSession, VerifyBearer
    <3>2. QED
      BY <1>3, <3>1, OthersKept DEF Same, Abandon, Return, Forget, TypeOK
  <2>3. QED
    BY <2>1, <2>2 DEF UseInTime, OverBefore
<1>4. QED
  BY <1>1, <1>2, <1>3

\* Once a session is over no request that arrives later gets anything by it
\* (CookieSessionAuthenticator, getUserInfo, verifyBearer).
THEOREM EndedStaysEnded == Spec => []EndedMeansRefused
<1> DEFINE InTime == /\ \A a \in Authorizations : AuthorizationInTime(a)
                     /\ \A b \in Uses : UseInTime(b)
<1>1. Init => TypeOK /\ Held /\ InTime
  BY HeldInit DEF Init, Requests, AuthorizationInTime, UseInTime, OverBefore
<1>2. TypeOK /\ Held /\ InTime /\ [Next]_vars => (TypeOK /\ Held /\ InTime)'
  BY HeldStep, AuthorizationInTimeStep, UseInTimeStep
<1>3. InTime => EndedMeansRefused
  BY DEF AuthorizationInTime, UseInTime, EndedMeansRefused
<1>4. QED
  BY <1>1, <1>2, <1>3, PTL DEF Spec
=============================================================================
