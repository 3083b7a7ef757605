------------------------------ MODULE Console ------------------------------
(***************************************************************************)
(* apps/web: one tab of the web console (client/App.tsx) and the cookie    *)
(* jar it shares with the other tabs of the browser, against the api       *)
(* (Sessions).  Calls overlap: they are handled and answered in any order, *)
(* and any of them may be lost; the person may click, reload or open an    *)
(* earlier address meanwhile.  A render of App and its effects follow the  *)
(* state change that causes them in the same step.  Sections, filters,     *)
(* selections and drawers are layout and left out.                         *)
(***************************************************************************)
EXTENDS Sessions

CONSTANTS Asked,     \* [who, mode]: what people fill in on the login screen
          Demo,      \* the ones among them that have a demo button
          MaxChanges \* bound on admin changes

Modes == {"admin", "tenant", "user"}

ASSUME ParamsAssumption ==
  /\ 1 \in Logins /\ Logins \subseteq Nat \ {0}
  /\ Asked \subseteq [who : People, mode : Modes] /\ Demo \subseteq Asked
  /\ MaxChanges \in Nat

VARIABLES jar,    \* the session cookie, 0 if none
          intent, \* the login of the intent in sessionStorage, 0 if none
          nav,    \* the login whose authorize address is being loaded, or 0
          page,   \* the state of App
          mixed,  \* history: sign-ins overlapped, or another tab signed in
          out     \* history: signed out, and no sign-in since

browser == <<jar, intent, nav>>
vars == <<api, calls, browser, page, mixed, out>>

NoAuth == [who |-> Nobody, mode |-> "none", login |-> 0]
Empty  == [ready |-> FALSE, who |-> Nobody, version |-> 0]

(* The query of the page's address: a code and its state, 0 where it has    *)
(* none.  A callback address may have lost its state.                       *)
NoAddress == [code |-> 0, state |-> 0]
Addresses == {NoAddress} \cup {[code |-> n, state |-> n] : n \in Logins}
                         \cup {[code |-> n, state |-> 0] : n \in Logins}

NewPage(url) ==
  [app |-> TRUE, url |-> url, processed |-> FALSE, auth |-> NoAuth,
   mode |-> "admin", busy |-> FALSE, bootstrap |-> Empty, profile |-> Nobody,
   saving |-> FALSE, saved |-> 0]

InBag(c) == SetToBag({c})

Load(cookie) == Call("bootstrap", cookie, 0, 0)

(* The effects of mounting: loadBootstrap twice, restoreSessionAuth once.  *)
Mount == InBag(Load(jar)) (+) InBag(Load(jar)) (+) InBag(Call("session", jar, 0, 0))

(* The browser has no cookie, or that of a session of an earlier day.      *)
Init == /\ \E p \in People \cup {Nobody} :
             asked = [n \in Logins |-> [who |-> IF n = 1 THEN p ELSE Nobody,
                                       mode |-> "none"]]
        /\ jar = IF asked[1].who = Nobody THEN 0 ELSE 1
        /\ session = [n \in Logins |-> IF n = jar THEN "live" ELSE "none"]
        /\ code = [n \in Logins |-> 0]
        /\ used = {}
        /\ changes = 0
        /\ intent = 0 /\ nav = 0
        /\ page = NewPage(NoAddress)
        /\ calls = Mount
        /\ mixed = FALSE /\ out = FALSE

-----------------------------------------------------------------------------
(* The modes of the console. *)

\* Mutant: the roles are not looked at.
LoginModeAsked(wanted, p) == wanted

(* completeLogin: what the person asked for, as far as the roles allow it. *)
LoginMode(wanted, p) == IF wanted \in {"admin", "tenant"} /\ IsAdmin(p)
                        THEN wanted ELSE "user"

(* buildAuthStateFromOverview                                              *)
RestoredMode(p) == CASE Role[p] = "super_admin" -> "admin"
                     [] Role[p] \in AdminRoles \ {"super_admin"} -> "tenant"
                     [] OTHER -> "user"

LoginShown   == page.app /\ page.auth = NoAuth
ConsoleShown == page.app /\ page.auth # NoAuth /\ page.mode # "user"
PortalShown  == page.app /\ page.auth # NoAuth /\ page.mode = "user"

-----------------------------------------------------------------------------
(* The effects of App. *)

(* A page that is gone has no effects.                                      *)
MayRedeem(p) == /\ p.app /\ p.bootstrap.ready /\ p.url.code # 0
                /\ ~ p.busy /\ ~ p.processed

(* completeLogin up to its first call: there is an intent, and a state of   *)
(* the address, if it has one, is the intent's.                             *)
IntentFits(url) == intent # 0 /\ url.state \in {0, intent}

Redeemed(p) ==
  IF ~ MayRedeem(p) THEN p
  ELSE IF IntentFits(p.url) THEN [p EXCEPT !.processed = TRUE, !.busy = TRUE]
  ELSE [p EXCEPT !.processed = TRUE, !.url = NoAddress]

RedeemCalls(p) ==
  IF MayRedeem(p) /\ IntentFits(p.url)
  THEN {Call("token", 0, intent, p.url.code)} ELSE {}

(* The person's profile is read anew whenever auth is set, the bootstrap    *)
(* when its subject or its mode changes.                                    *)
ProfileCalls(p, authSet) ==
  IF p.app /\ authSet /\ p.auth.mode = "user"
  THEN {Call("profile", jar', 0, 0)} ELSE {}

LoadCalls(p) ==
  IF /\ p.app
     /\ <<p.auth.who, p.auth.mode>> # <<page.auth.who, page.auth.mode>>
     /\ p.auth.mode # "user"
  THEN {Load(jar')} ELSE {}

Without(c) == calls (-) InBag(c)

(* The page becomes p when call c has been taken, and its effects run.      *)
Render(p, authSet, c) ==
  LET kept == IF p.auth.mode = "user" THEN p
              ELSE [p EXCEPT !.profile = IF p.auth # page.auth THEN Nobody ELSE @]
  IN /\ page' = Redeemed(kept)
     /\ calls' = Without(c) (+) SetToBag(RedeemCalls(kept) \cup
                                        ProfileCalls(p, authSet) \cup LoadCalls(p))

-----------------------------------------------------------------------------
(* The answers, as the awaiting functions of the page take them.  A call    *)
(* that fails without an answer arrives as one that is not ok.              *)

Failed(c) == [c EXCEPT !.ok = FALSE, !.who = Nobody, !.version = 0]

(* loadBootstrap: a failed load leaves what the page had.  An overview that *)
(* is none makes the effects of App throw, and React takes the page down;   *)
(* the functions that await an answer go on.                                *)
Loaded(p, c) ==
  IF ~ c.ok THEN p
  ELSE IF c.version = BrokenOverview.version THEN [p EXCEPT !.app = FALSE]
  ELSE [p EXCEPT !.bootstrap =
          [ready |-> TRUE, who |-> c.who, version |-> c.version]]

BootstrapArrives(c, a) ==
  /\ UNCHANGED <<browser, mixed, out>>
  /\ Render(Loaded(page, a), FALSE, c)

SessionArrives(c, a) ==
  LET mode == RestoredMode(a.who)
      p == IF a.ok THEN [page EXCEPT !.mode = mode, !.auth =
                            [who |-> a.who, mode |-> mode, login |-> 0]]
           ELSE [page EXCEPT !.auth = NoAuth]
  IN /\ UNCHANGED <<browser, mixed, out>>
     /\ Render(p, a.ok, c)

ProfileArrives(c, a) ==
  /\ page' = IF a.ok THEN [page EXCEPT !.profile = a.who] ELSE page
  /\ calls' = Without(c)
  /\ UNCHANGED <<browser, mixed, out>>

\* Mutant: the web server does not pass Set-Cookie on.
PassedOnNot(cookie) == jar

(* readForwardResponseHeaders: the cookie the browser holds after an answer. *)
PassedOn(cookie) == cookie

(* startLogin: the cookie comes with the answer; then the intent is saved   *)
(* and the authorize address loaded, in place of one still loading.         *)
LoginArrives(c, a) ==
  /\ calls' = Without(c)
  /\ IF a.ok
     THEN /\ jar' = PassedOn(c.login) /\ intent' = c.login /\ nav' = c.login
          /\ UNCHANGED page
     ELSE /\ page' = [page EXCEPT !.busy = FALSE]
          /\ UNCHANGED browser
  /\ UNCHANGED <<mixed, out>>

\* Mutant: the catch branch leaves the page busy.
SignInFailedBusy(p) == [p EXCEPT !.auth = NoAuth, !.url = NoAddress]

SignInFailed(p) == [p EXCEPT !.auth = NoAuth, !.busy = FALSE, !.url = NoAddress]

TokenArrives(c, a) ==
  /\ UNCHANGED <<browser, mixed, out>>
  /\ IF a.ok THEN /\ calls' = Without(c) (+) InBag(Call("userinfo", 0, c.login, c.code))
                  /\ UNCHANGED page
     ELSE Render(SignInFailed(page), FALSE, c)

UserInfoArrives(c, a) ==
  LET mode == LoginMode(asked[c.login].mode, a.who)
      p == [page EXCEPT !.auth = [who |-> a.who, mode |-> mode, login |-> c.login],
                        !.mode = mode, !.busy = FALSE, !.url = NoAddress]
  IN /\ intent' = IF a.ok THEN 0 ELSE intent
     /\ UNCHANGED <<jar, nav, mixed, out>>
     /\ IF a.ok THEN Render(p, TRUE, c)
                ELSE Render(SignInFailed(page), FALSE, c)

(* logout clears the page whether or not the call went through; only an    *)
(* answer takes the cookie away.                                            *)
LogoutArrives(c, a) ==
  LET pending == {d \in BagToSet(calls) : ~ d.gone
                     /\ d.kind \in {"session", "login", "token", "userinfo"}}
  IN /\ jar' = IF a.ok THEN PassedOn(0) ELSE jar
     /\ intent' = 0
     /\ out' = (out \/ (/\ c.stage = "answered" /\ nav = 0
                        /\ pending = {} /\ ~ mixed))
     /\ UNCHANGED <<nav, mixed>>
     /\ Render([page EXCEPT !.auth = NoAuth, !.busy = FALSE,
                            !.mode = "tenant", !.url = NoAddress], FALSE, c)

\* Mutant: the form is done before the load has ended.
AfterChangeAtOnce(p, a) ==
  [p EXCEPT !.saving = FALSE, !.saved = IF a.ok THEN a.version ELSE 0]

(* submit: a change that went through is followed by a load, and the form   *)
(* is busy until that has ended.                                            *)
AfterChange(p, a) == IF a.ok THEN [p EXCEPT !.saved = a.version]
                     ELSE [p EXCEPT !.saving = FALSE]

ChangeArrives(c, a) ==
  /\ page' = AfterChange(page, a)
  /\ calls' = IF a.ok THEN Without(c) (+) InBag(Call("saved", jar, 0, 0))
              ELSE Without(c)
  /\ UNCHANGED <<browser, mixed, out>>

SavedArrives(c, a) ==
  /\ UNCHANGED <<browser, mixed, out>>
  /\ Render([Loaded(page, a) EXCEPT !.saving = FALSE, !.saved = 0], FALSE, c)

Take(c, a) ==
  /\ UNCHANGED api
  /\ \/ c.kind = "bootstrap" /\ BootstrapArrives(c, a)
     \/ c.kind = "session" /\ SessionArrives(c, a)
     \/ c.kind = "profile" /\ ProfileArrives(c, a)
     \/ c.kind = "login" /\ LoginArrives(c, a)
     \/ c.kind = "token" /\ TokenArrives(c, a)
     \/ c.kind = "userinfo" /\ UserInfoArrives(c, a)
     \/ c.kind = "logout" /\ LogoutArrives(c, a)
     \/ c.kind = "change" /\ ChangeArrives(c, a)
     \/ c.kind = "saved" /\ SavedArrives(c, a)

Arrive(c) == /\ c \in BagToSet(calls) /\ c.stage = "answered"
             /\ Take(c, c)

(* The network loses the call, before or after the api has handled it.      *)
Lose(c) == /\ c \in BagToSet(calls) /\ ~ c.gone
           /\ Take(c, Failed(c))

-----------------------------------------------------------------------------
(* The person at the browser. *)

(* The sign-in button is disabled while the page is busy, the demo buttons  *)
(* never are.                                                               *)
Pressable(a) == ~ page.busy \/ a \in Demo

StartLogin(n, a) ==
  /\ LoginShown /\ page.bootstrap.ready /\ Pressable(a)
  /\ asked[n].who = Nobody /\ \A k \in 1..(n - 1) : asked[k].who # Nobody
  /\ asked' = [asked EXCEPT ![n] = a]
  /\ page' = [page EXCEPT !.busy = TRUE]
  /\ calls' = calls (+) InBag(Call("login", jar, n, 0))
  /\ mixed' = (mixed \/ nav # 0 \/ \E s \in {"sent", "answered"} : Own("login", s) # {})
  /\ out' = FALSE
  /\ UNCHANGED <<session, code, used, changes, browser>>

(* One call at a time: pressing again asks for the same.                    *)
SignOut ==
  /\ ConsoleShown \/ PortalShown
  /\ Own("logout", "sent") \cup Own("logout", "answered") = {}
  /\ calls' = calls (+) InBag(Call("logout", jar, 0, 0))
  /\ UNCHANGED <<api, browser, page, mixed, out>>

(* The mode buttons and the palette's commands.                             *)
SwitchMode(m) ==
  /\ ConsoleShown
  /\ page' = [page EXCEPT !.mode = m]
  /\ UNCHANGED <<api, calls, browser, mixed, out>>

(* Bound: not with such a load under way already.                          *)
Refresh ==
  LET kind == IF ConsoleShown THEN "bootstrap" ELSE "profile" IN
  /\ ConsoleShown \/ PortalShown
  /\ Own(kind, "sent") \cup Own(kind, "answered") = {}
  /\ calls' = calls (+) InBag(Call(kind, jar, 0, 0))
  /\ UNCHANGED <<api, browser, page, mixed, out>>

(* Every form of the console is saved by the same submit.                   *)
Save ==
  /\ ConsoleShown /\ page.bootstrap.ready /\ ~ page.saving
  /\ changes < MaxChanges /\ \A c \in BagToSet(calls) : c.kind # "change"
  /\ page' = [page EXCEPT !.saving = TRUE, !.saved = 0]
  /\ calls' = calls (+) InBag(Call("change", jar, 0, 0))
  /\ UNCHANGED <<api, browser, mixed, out>>

(* What becomes of the calls of a page that is left: what it asked to be    *)
(* done may still be done.  A session or a change that the page was not     *)
(* told of makes no difference to what follows, and is left out.            *)
Left == LET acts == {c \in BagToSet(calls) : c.stage = "sent"
                        /\ c.kind \in {"logout", "token"}}
        IN SetToBag({[c EXCEPT !.gone = TRUE] : c \in acts})

Shows(url) == /\ page' = NewPage(url)
              /\ calls' = Left (+) Mount

(* authorize at the api, with the cookie of the moment, and the redirect    *)
(* back; or an error document of the api in place of the console.           *)
Navigate ==
  /\ nav # 0 /\ nav' = 0
  /\ \/ /\ Person(jar) # Nobody
        /\ code' = [code EXCEPT ![nav] = jar]
        /\ Shows([code |-> nav, state |-> nav])
     \/ /\ page' = [NewPage(NoAddress) EXCEPT !.app = FALSE]
        /\ calls' = Left
        /\ UNCHANGED code
  /\ UNCHANGED <<asked, session, used, changes, jar, intent, mixed, out>>

(* A reload, or an earlier callback address opened again, as it was or cut  *)
(* off after the code.                                                      *)
Open(url) ==
  /\ url.code # 0 => code[url.code] # 0
  /\ Shows(url)
  /\ nav' = 0
  /\ UNCHANGED <<api, jar, intent, mixed, out>>

(* Another tab of the browser signs in and replaces the cookie.             *)
OtherTab(n, p) ==
  /\ asked[n].who = Nobody /\ \A k \in 1..(n - 1) : asked[k].who # Nobody
  /\ asked' = [asked EXCEPT ![n] = [who |-> p, mode |-> "none"]]
  /\ session' = [session EXCEPT ![n] = "live"]
  /\ jar' = n /\ mixed' = TRUE /\ out' = FALSE
  /\ UNCHANGED <<code, used, changes, calls, intent, nav, page>>

-----------------------------------------------------------------------------

Answer(kinds) == /\ \E c \in BagToSet(calls) : c.kind \in kinds /\ Handle(c)
                 /\ UNCHANGED <<browser, page, mixed, out>>

Arrival(kinds) == \E c \in BagToSet(calls) : c.kind \in kinds /\ Arrive(c)

Kinds == {"bootstrap", "session", "profile", "login", "token", "userinfo",
          "logout", "change", "saved"}

Next == \/ Answer(Kinds) \/ Arrival(Kinds)
        \/ \E c \in BagToSet(calls) : Lose(c)
        \/ \E n \in Logins, a \in Asked : StartLogin(n, a)
        \/ SignOut \/ Refresh \/ Save \/ Navigate
        \/ \E m \in {"admin", "tenant"} : SwitchMode(m)
        \/ \E url \in Addresses : Open(url)
        \/ \E n \in Logins, p \in People : OtherTab(n, p)
        \/ \E n \in Logins : SessionEnds(n) /\ UNCHANGED <<browser, page, mixed, out>>

(* A browser gives up on a call that gets no answer, and the api is up:     *)
(* every call of a sign-in ends, and so does the load of an address.        *)
Fairness == /\ \A k \in {"login", "token", "userinfo"} :
                 WF_vars(Answer({k})) /\ WF_vars(Arrival({k}))
            /\ WF_vars(Navigate)

Spec == Init /\ [][Next]_vars /\ Fairness

-----------------------------------------------------------------------------
(* Properties. *)

Somebody   == People \cup {Nobody}
Numbers    == {0} \cup Logins
CallRecord == [kind : Kinds, cookie : Numbers, login : Numbers, code : Numbers,
               stage : {"sent", "answered"}, gone : BOOLEAN, ok : BOOLEAN,
               who : Somebody, version : -1..MaxChanges]
PageRecord == [app : BOOLEAN, url : Addresses, processed : BOOLEAN,
               auth : [who : Somebody, mode : Modes \cup {"none"}, login : Numbers],
               mode : Modes, busy : BOOLEAN,
               bootstrap : [ready : BOOLEAN, who : Somebody, version : 0..MaxChanges],
               profile : Somebody, saving : BOOLEAN, saved : 0..MaxChanges]

Exchanges == {c \in BagToSet(calls) : ~ c.gone /\ c.kind \in {"token", "userinfo"}}

(* The page is signed in only as somebody, and a cookie or a code is of a   *)
(* session there has been.                                                  *)
TypeOK ==
  /\ asked \in [Logins -> [who : Somebody, mode : Modes \cup {"none"}]]
  /\ session \in [Logins -> {"none", "live", "ended"}]
  /\ code \in [Logins -> Numbers] /\ used \subseteq Logins
  /\ changes \in 0..MaxChanges
  /\ IsABag(calls) /\ DOMAIN calls \subseteq CallRecord
  /\ {jar, intent, nav} \subseteq Numbers
  /\ page \in PageRecord /\ {mixed, out} \subseteq BOOLEAN
  /\ page.auth.who = Nobody <=> page.auth = NoAuth
  /\ jar # 0 => session[jar] # "none"
  /\ \A n \in Logins : code[n] # 0 => session[code[n]] # "none"

(* A page that a code has signed in shows the person whose session that     *)
(* code was made for, however sign-ins overlap, answers come late and       *)
(* addresses are opened again.  Where the address has a state, the page     *)
(* compares it with the intent (completeLogin); where it has none, the code *)
(* goes out with whatever intent is stored, and the verifier in it keeps    *)
(* the api from accepting the code of another sign-in.  And a page has one  *)
(* exchange under way at most; a reload may send the code again.            *)
CodeIsOfSignIn ==
  /\ LET n == page.auth.login
     IN n # 0 => code[n] # 0 /\ page.auth.who = asked[code[n]].who
  /\ \A c, d \in Exchanges : c = d /\ calls[c] = 1

(* The console, with the admin's sections, is shown only to people with an *)
(* admin role, and everybody else gets the portal: the mode of the page and *)
(* that of the signed-in person do not come apart.                          *)
ScreenFitsPerson ==
  page.auth # NoAuth =>
    /\ (page.mode = "user") = (page.auth.mode = "user")
    /\ page.mode # "user" => IsAdmin(page.auth.who)

(* Unless sign-ins overlap or another tab signs in, the page shows one      *)
(* person: who is signed in is who the password was typed for, and the      *)
(* overview and the profile are theirs.                                     *)
OnePerson ==
  ~ mixed /\ nav = 0 /\ page.auth # NoAuth =>
    /\ page.bootstrap.who \in {Nobody, page.auth.who}
    /\ page.profile \in {Nobody, page.auth.who}
    /\ page.auth.login # 0 => page.auth.who = asked[page.auth.login].who

(* A sign-out the api has handled lasts, over reloads, earlier addresses    *)
(* and a lost answer, until the next sign-in.                               *)
SignedOutStays == out => page.auth = NoAuth

(* When a form is done saving, the overview shown has the change, unless    *)
(* the load after it failed, the page is gone or the person may no longer   *)
(* see it.                                                                  *)
SavedIsShown ==
  [][page.saving /\ ~ page'.saving /\ page'.bootstrap.ready /\ page'.app =>
       \/ \A v \in {page.saved, page'.saved} : page'.bootstrap.version >= v
       \/ page'.bootstrap.who = Nobody
       \/ \E c \in BagToSet(calls) : Lose(c)]_vars

(* A sign-in ends: the page does not stay busy for ever.                    *)
SignInEnds == page.busy ~> ~ page.busy

=============================================================================
