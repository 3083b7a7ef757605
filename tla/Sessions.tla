------------------------------ MODULE Sessions ------------------------------
(***************************************************************************)
(* What the api answers to the web console: sign-in with a password, the   *)
(* session cookie, sign-out, the profile of the cookie's person, the admin *)
(* overview, one admin change, and the two calls that redeem a code.  The  *)
(* calls travel through the web server (apps/web/src/server.ts), which     *)
(* passes on the cookie of a request and the Set-Cookie of an answer.      *)
(*                                                                         *)
(* Each handler is one step here; what overlapping handlers do to the      *)
(* state file is the subject of AuthorizationCode, Admin and Broker.       *)
(***************************************************************************)
EXTENDS Integers, Bags

CONSTANTS People,
          Role,   \* Role[p]: the role assigned to p, or "none"
          Logins, \* 1..n: sign-ins; also the ids of the sessions they create
          Nobody

ASSUME NobodyAssumption == Nobody \notin People

AdminRoles == {"super_admin", "tenant_admin", "product_admin"}

VARIABLES asked,   \* asked[n]: [who, mode] of sign-in n, who Nobody before it
          session, \* session[n]: "none", "live" or "ended"
          code,    \* code[n]: the session the code of sign-in n is for (0: none)
          used,    \* the codes exchanged
          changes, \* how many admin changes the api has made
          calls    \* the bag of calls between the console and the api

api == <<asked, session, code, used, changes>>

(* Every call has the same fields: the cookie it was sent with, and for a   *)
(* sign-in the number of the login and the code.                           *)
Call(kind, cookie, login, c) ==
  [kind |-> kind, cookie |-> cookie, login |-> login, code |-> c,
   stage |-> "sent", gone |-> FALSE, ok |-> FALSE, who |-> Nobody, version |-> 0]

Own(kind, stage) ==
  {c \in BagToSet(calls) : c.kind = kind /\ c.stage = stage /\ ~ c.gone}

(* The answer keeps what its receiver needs.  Nobody receives the answer   *)
(* to a call of a page that has been left.                                  *)
Reply(c, ok, who, version) ==
  LET answer == [c EXCEPT !.stage = "answered", !.cookie = 0,
                          !.ok = ok, !.who = who, !.version = version]
      rest   == calls (-) SetToBag({c})
  IN calls' = IF c.gone THEN rest ELSE rest (+) SetToBag({answer})

(* CookieSessionAuthenticator: the session of the cookie, unless ended.    *)
Person(cookie) ==
  IF cookie # 0 /\ session[cookie] = "live" THEN asked[cookie].who ELSE Nobody

IsAdmin(p) == p # Nobody /\ Role[p] \in AdminRoles

MayReadOverview(p) == IsAdmin(p) \/ (p # Nobody /\ Role[p] = "viewer")

EmptyOverview  == [who |-> Nobody, version |-> 0]
BrokenOverview == [who |-> Nobody, version |-> -1]

(* handleAdminOverview, and what the web server shows when it is refused.   *)
Overview(p) == IF MayReadOverview(p) THEN [who |-> p, version |-> changes]
               ELSE EmptyOverview

-----------------------------------------------------------------------------

(* login saves a session of its own; it ends none.                         *)
HandleLogin(c) ==
  \/ /\ session' = [session EXCEPT ![c.login] = "live"]
     /\ Reply(c, TRUE, asked[c.login].who, 0)
     /\ UNCHANGED <<asked, code, used, changes>>
  \/ /\ Reply(c, FALSE, Nobody, 0)   \* wrong password, bootstrap account
     /\ UNCHANGED api

\* Mutant: logout takes the cookie away and leaves the session.
RevokedNot(s, cookie) == s

Revoked(s, cookie) ==
  IF cookie # 0 /\ s[cookie] = "live" THEN [s EXCEPT ![cookie] = "ended"] ELSE s

HandleLogout(c) ==
  /\ session' = Revoked(session, c.cookie)
  /\ Reply(c, TRUE, Nobody, 0)
  /\ UNCHANGED <<asked, code, used, changes>>

(* handleSession, behind /auth/session and /me/overview.                   *)
HandleSession(c) ==
  /\ Reply(c, Person(c.cookie) # Nobody, Person(c.cookie), 0)
  /\ UNCHANGED api

(* buildBootstrap: an overview the api refuses is no error, and any other   *)
(* error of the api is passed on as if it were the overview.                *)
HandleBootstrap(c) ==
  /\ \E overview \in {Overview(Person(c.cookie)), BrokenOverview} :
        Reply(c, TRUE, overview.who, overview.version)
  /\ UNCHANGED api

HandleChange(c) ==
  IF IsAdmin(Person(c.cookie))
  THEN /\ changes' = changes + 1
       /\ Reply(c, TRUE, Nobody, changes + 1)
       /\ UNCHANGED <<asked, session, code, used>>
  ELSE /\ Reply(c, FALSE, Nobody, 0)
       /\ UNCHANGED api

\* Mutant: the code verifier is not looked at.
HandleTokenUnproven(c) ==
  IF code[c.code] # 0 /\ c.code \notin used
  THEN /\ used' = used \cup {c.code}
       /\ Reply(c, TRUE, Nobody, 0)
       /\ UNCHANGED <<asked, session, code, changes>>
  ELSE /\ Reply(c, FALSE, Nobody, 0)
       /\ UNCHANGED api

(* The code is exchanged once, with the verifier of its own login.         *)
HandleToken(c) ==
  IF code[c.code] # 0 /\ c.code \notin used /\ c.login = c.code
  THEN /\ used' = used \cup {c.code}
       /\ Reply(c, TRUE, Nobody, 0)
       /\ UNCHANGED <<asked, session, code, changes>>
  ELSE /\ Reply(c, FALSE, Nobody, 0)
       /\ UNCHANGED api

\* Mutant: the session of the token is not looked up.
HandleUserInfoUnchecked(c) ==
  /\ Reply(c, TRUE, Person(code[c.code]), 0)
  /\ UNCHANGED api

(* The token of a session that has ended is worth nothing.                 *)
HandleUserInfo(c) ==
  LET p == Person(code[c.code]) IN
  /\ Reply(c, p # Nobody, p, 0)
  /\ UNCHANGED api

Handle(c) ==
  /\ c \in BagToSet(calls) /\ c.stage = "sent"
  /\ \/ c.kind = "login" /\ HandleLogin(c)
     \/ c.kind = "logout" /\ HandleLogout(c)
     \/ c.kind \in {"session", "profile"} /\ HandleSession(c)
     \/ c.kind \in {"bootstrap", "saved"} /\ HandleBootstrap(c)
     \/ c.kind = "change" /\ HandleChange(c)
     \/ c.kind = "token" /\ HandleToken(c)
     \/ c.kind = "userinfo" /\ HandleUserInfo(c)

(* Eight hours pass, or the person signs out in another browser tab.        *)
SessionEnds(n) ==
  /\ session[n] = "live"
  /\ session' = [session EXCEPT ![n] = "ended"]
  /\ UNCHANGED <<asked, code, used, changes, calls>>

=============================================================================
