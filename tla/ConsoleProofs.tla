--------------------------- MODULE ConsoleProofs ---------------------------
(***************************************************************************)
(* Theorems about Console with Sessions behind it, for any people, roles,  *)
(* logins, buttons and number of changes, and any number of calls under    *)
(* way.  Each answer is dealt with once (Taken), by what it may do to the  *)
(* calls, to the page and to the browser; the invariants use only that.    *)
(***************************************************************************)
EXTENDS Console, TLAPS

(***************************************************************************)
(* Bags of calls.                                                          *)
(***************************************************************************)

\* B is what A is with the calls of S added, and others perhaps taken away.
Gains(A, B, S) ==
  /\ IsABag(B) /\ DOMAIN B \subseteq DOMAIN A \cup S
  /\ \A d \in DOMAIN B : IF d \in S THEN d \in DOMAIN A \/ B[d] = 1
                                     ELSE B[d] <= A[d]

\* The only copy of c has been taken away.
Spends(A, B, c, S) == A[c] = 1 /\ c \notin S => c \notin DOMAIN B

LEMMA Replaced ==
  ASSUME NEW A, IsABag(A), NEW c \in DOMAIN A, NEW S, NEW B,
         B = (A (-) InBag(c)) (+) SetToBag(S)
  PROVE  Gains(A, B, S) /\ Spends(A, B, c, S)
<1> DEFINE D == A (-) InBag(c)
<1>1. /\ IsABag(D) /\ DOMAIN D \subseteq DOMAIN A
      /\ \A d \in DOMAIN D : D[d] <= A[d]
      /\ A[c] = 1 => c \notin DOMAIN D
  <2>1. /\ DOMAIN D = {d \in DOMAIN A : (IF d = c THEN A[d] - 1 ELSE A[d]) > 0}
        /\ \A d \in DOMAIN D : D[d] = IF d = c THEN A[d] - 1 ELSE A[d]
    BY DEF SetToBag, InBag, (-)
  <2>2. D = [d \in DOMAIN D |-> D[d]]
    BY DEF SetToBag, InBag, (-)
  <2> HIDE DEF D
  <2>3. \A d \in DOMAIN D : D[d] \in {n \in Nat : n > 0}
    BY <2>1 DEF IsABag
  <2>4. QED
    BY <2>1, <2>2, <2>3 DEF IsABag
<1> HIDE DEF D
<1>2. /\ IsABag(B) /\ DOMAIN B = DOMAIN D \cup S
      /\ \A d \in DOMAIN B : B[d] = (IF d \in DOMAIN D THEN D[d] ELSE 0)
                                    + (IF d \in S THEN 1 ELSE 0)
  <2>1. B = D (+) SetToBag(S)
    BY DEF D
  <2>2. /\ B = [d \in DOMAIN B |-> B[d]] /\ DOMAIN B = DOMAIN D \cup S
        /\ \A d \in DOMAIN B : B[d] = (IF d \in DOMAIN D THEN D[d] ELSE 0)
                                      + (IF d \in S THEN 1 ELSE 0)
    BY <2>1 DEF SetToBag, (+)
  <2>3. \A d \in DOMAIN B : B[d] \in {n \in Nat : n > 0}
    BY <1>1, <2>2 DEF IsABag
  <2>4. QED
    BY <2>2, <2>3 DEF IsABag
<1>3. QED
  BY <1>1, <1>2 DEF Gains, Spends, IsABag

LEMMA Removed ==
  ASSUME NEW A, IsABag(A), NEW c \in DOMAIN A, NEW B, B = A (-) InBag(c)
  PROVE  Gains(A, B, {}) /\ Spends(A, B, c, {})
BY DEF Gains, Spends, IsABag, SetToBag, InBag, (-)

LEMMA Joined ==
  ASSUME NEW A, IsABag(A), NEW S, NEW B, B = A (+) SetToBag(S)
  PROVE  Gains(A, B, S)
<1>1. /\ IsABag(B) /\ DOMAIN B = DOMAIN A \cup S
      /\ \A d \in DOMAIN B : B[d] = (IF d \in DOMAIN A THEN A[d] ELSE 0)
                                    + (IF d \in S THEN 1 ELSE 0)
  BY DEF IsABag, SetToBag, (+)
<1>2. QED
  BY <1>1 DEF Gains, IsABag

LEMMA United ==
  ASSUME NEW A, IsABag(A), NEW B, IsABag(B)
  PROVE  IsABag(A (+) B) /\ DOMAIN (A (+) B) = DOMAIN A \cup DOMAIN B
<1> DEFINE C == A (+) B
<1>1. /\ C = [d \in DOMAIN C |-> C[d]] /\ DOMAIN C = DOMAIN A \cup DOMAIN B
      /\ \A d \in DOMAIN C : C[d] = (IF d \in DOMAIN A THEN A[d] ELSE 0)
                                    + (IF d \in DOMAIN B THEN B[d] ELSE 0)
  BY DEF (+)
<1>2. \A d \in DOMAIN C : C[d] \in {n \in Nat : n > 0}
  BY <1>1 DEF IsABag
<1> HIDE DEF C
<1>3. IsABag(C)
  BY <1>1, <1>2 DEF IsABag
<1>4. QED
  BY <1>1, <1>3 DEF C

LEMMA SetIsABag == ASSUME NEW S PROVE IsABag(SetToBag(S)) /\ DOMAIN SetToBag(S) = S
BY DEF IsABag, SetToBag

(***************************************************************************)
(* The invariant: what the calls under way say of the sign-ins they are    *)
(* for, and of the change the page is saving.                              *)
(***************************************************************************)

Mine == {c \in BagToSet(calls) : ~ c.gone}

\* A sign-in has no session before its call is handled; a code that the api
\* has accepted was sent for the login it was asked for; only an overview may
\* be broken; what is followed of a page left behind.
Fits(c) ==
  /\ c.kind = "login" => /\ c.login # 0 /\ asked[c.login].who # Nobody
                         /\ c.stage = "sent" => session[c.login] = "none"
                         /\ c.ok => session[c.login] # "none"
  /\ c.kind \in {"token", "userinfo"} => c.login # 0 /\ c.code # 0
  /\ c.kind = "userinfo" \/ (c.kind = "token" /\ c.ok) => c.code = c.login /\ code[c.code] # 0
  /\ c.version = -1 => c.kind \in {"bootstrap", "saved"}
  /\ c.ok /\ c.kind \in {"session", "userinfo"} => c.who # Nobody
  /\ c.ok => c.stage = "answered"
  /\ c.gone => c.stage = "sent" /\ c.kind \in {"logout", "token"}

LoginsFit ==
  /\ \A c \in BagToSet(calls) : Fits(c)
  /\ \A c, d \in BagToSet(calls) :
       c.kind = "login" /\ d.kind = "login" /\ c.login = d.login => c = d /\ calls[c] = 1
  /\ \A n \in Logins : session[n] # "none" => asked[n].who # Nobody

\* One change at a time, and the load after it sees it.
SaveCall(c) == c.kind \in {"change", "saved"}

SavesFit ==
  /\ \A c, d \in Mine : SaveCall(c) /\ SaveCall(d) => c = d /\ calls[c] = 1
  /\ page.saved <= changes
  /\ \A c \in Mine : SaveCall(c) => page.saving
  /\ \A c \in Mine : c.kind = "change" =>
       /\ page.saved = 0
       /\ IF c.stage = "sent" THEN changes < MaxChanges ELSE c.version <= changes
  /\ \A c \in Mine : c.kind = "saved" /\ c.stage = "answered" =>
       c.ok /\ (c.who = Nobody \/ c.version >= page.saved)

Held == TypeOK /\ LoginsFit /\ SavesFit

(***************************************************************************)
(* What an answer of the api, and the taking of an answer, do.             *)
(***************************************************************************)

LEMMA CallType ==
  ASSUME NEW kind \in Kinds, NEW cookie \in Numbers, NEW login \in Numbers, NEW c \in Numbers
  PROVE  Call(kind, cookie, login, c) \in CallRecord
BY ParamsAssumption DEF Call, CallRecord, Somebody

LEMMA PersonType ==
  ASSUME TypeOK, NEW cookie \in Numbers
  PROVE  /\ Person(cookie) \in Somebody
         /\ Person(cookie) # Nobody => /\ cookie \in Logins /\ session[cookie] = "live"
                                       /\ Person(cookie) = asked[cookie].who
BY DEF Person, TypeOK, Somebody, Numbers

\* d is an answer to c that this step of the api can give.
AnswerTo(c, d) ==
  /\ d = [c EXCEPT !.stage = "answered", !.cookie = 0,
                   !.ok = d.ok, !.who = d.who, !.version = d.version]
  /\ c.kind = "login" => session' = IF d.ok THEN [session EXCEPT ![c.login] = "live"]
                                            ELSE session
  /\ c.kind = "logout" => session' = Revoked(session, c.cookie) /\ d.who = Nobody
  /\ c.kind \notin {"login", "logout"} => session' = session
  /\ c.kind \in {"session", "profile"} => d.who = Person(c.cookie) /\ d.ok = (d.who # Nobody)
  /\ c.kind \in {"bootstrap", "saved"} =>
       d.ok /\ (d.who = Nobody \/ (d.who = Person(c.cookie) /\ d.version = changes))
  /\ c.kind = "change" => d.who = Nobody /\ d.version <= changes'
  /\ c.kind = "token" => d.who = Nobody /\ (d.ok => c.login = c.code /\ code[c.code] # 0)
  /\ c.kind = "userinfo" => d.who = Person(code[c.code]) /\ d.ok = (d.who # Nobody)
  /\ changes' \in {changes, changes + 1} /\ (changes' # changes => c.kind = "change")

Handled(c, d) ==
  /\ d \in CallRecord /\ AnswerTo(c, d)
  /\ d.version = -1 => c.kind \in {"bootstrap", "saved"}
  /\ Gains(calls, calls', IF c.gone THEN {} ELSE {d})
  /\ Spends(calls, calls', c, IF c.gone THEN {} ELSE {d})
  /\ asked' = asked /\ code' = code /\ used' \subseteq Logins
  /\ changes' \in 0..MaxChanges

LEMMA Answered ==
  ASSUME Held, NEW c \in BagToSet(calls), Handle(c)
  PROVE  \E d : Handled(c, d)
<1> c \in CallRecord /\ Fits(c) /\ c.stage = "sent"
  BY DEF Held, TypeOK, LoginsFit, Handle, BagToSet
<1> DEFINE Versions == -1..MaxChanges
<1>2. /\ 0 \in Versions /\ changes \in Versions /\ changes \in 0..MaxChanges
      /\ Nobody \in Somebody /\ 0 # -1
  BY ParamsAssumption DEF Held, TypeOK, Somebody
<1> HIDE DEF Versions
<1>3. ASSUME NEW ok \in BOOLEAN, NEW who \in Somebody, NEW version \in Versions,
             Reply(c, ok, who, version),
             asked' = asked, code' = code, used' \subseteq Logins,
             changes' \in 0..MaxChanges, version = -1 => c.kind \in {"bootstrap", "saved"},
             \A d : d = [c EXCEPT !.stage = "answered", !.cookie = 0, !.ok = ok,
                                  !.who = who, !.version = version]
                    /\ d.ok = ok /\ d.who = who /\ d.version = version => AnswerTo(c, d)
      PROVE  \E d : Handled(c, d)
  <2>1. PICK d : d = [c EXCEPT !.stage = "answered", !.cookie = 0,
                               !.ok = ok, !.who = who, !.version = version]
    OBVIOUS
  <2>2. d \in CallRecord /\ d.ok = ok /\ d.who = who /\ d.version = version
    BY <1>3, <2>1 DEF CallRecord, Numbers, Versions
  <2>3. /\ Gains(calls, calls', IF c.gone THEN {} ELSE {d})
        /\ Spends(calls, calls', c, IF c.gone THEN {} ELSE {d})
    <3>1. calls' = IF c.gone THEN calls (-) InBag(c)
                   ELSE (calls (-) InBag(c)) (+) SetToBag({d})
      BY <1>3, <2>1 DEF Reply, InBag
    <3>2. IsABag(calls) /\ c \in DOMAIN calls
      BY DEF Held, TypeOK, BagToSet
    <3>3. QED
      BY <3>1, <3>2, Removed, Replaced
  <2>4. AnswerTo(c, d)
    BY <1>3, <2>1, <2>2
  <2>5. QED
    BY <1>3, <2>2, <2>3, <2>4 DEF Handled
<1>4. used \subseteq Logins
  BY DEF Held, TypeOK
<1>5. CASE c.kind = "login"
  <2>1. asked[c.login].who \in Somebody
    BY <1>5 DEF Held, TypeOK, Fits, CallRecord, Numbers
  <2>2. CASE session' = [session EXCEPT ![c.login] = "live"]
             /\ Reply(c, TRUE, asked[c.login].who, 0) /\ UNCHANGED <<asked, code, used, changes>>
    BY <1>2, <1>3, <1>4, <1>5, <2>1, <2>2 DEF AnswerTo
  <2>3. CASE Reply(c, FALSE, Nobody, 0) /\ UNCHANGED api
    BY <1>2, <1>3, <1>4, <1>5, <2>3 DEF AnswerTo, api
  <2>4. QED
    BY <1>5, <2>2, <2>3 DEF Handle, HandleLogin
<1>6. CASE c.kind = "logout"
  BY <1>2, <1>3, <1>4, <1>6 DEF Handle, HandleLogout, AnswerTo
<1>7. CASE c.kind \in {"session", "profile"}
  <2>1. Person(c.cookie) \in Somebody /\ (Person(c.cookie) # Nobody) \in BOOLEAN
    BY PersonType DEF Held, CallRecord
  <2>2. Reply(c, Person(c.cookie) # Nobody, Person(c.cookie), 0) /\ UNCHANGED api
    BY <1>7 DEF Handle, HandleSession
  <2>3. QED
    BY <1>2, <1>3, <1>4, <1>7, <2>1, <2>2 DEF AnswerTo, api
<1>8. CASE c.kind \in {"bootstrap", "saved"}
  <2>1. PICK o \in {Overview(Person(c.cookie)), BrokenOverview} :
          Reply(c, TRUE, o.who, o.version) /\ UNCHANGED api
    BY <1>8 DEF Handle, HandleBootstrap
  <2>2. /\ o.who \in Somebody /\ o.version \in Versions
        /\ o.who = Nobody \/ (o.who = Person(c.cookie) /\ o.version = changes)
    <3>1. Person(c.cookie) \in Somebody
      BY PersonType DEF Held, CallRecord
    <3>2. QED
      BY <1>2, <2>1, <3>1, ParamsAssumption DEF Overview, EmptyOverview, BrokenOverview, Versions
  <2>4. /\ asked' = asked /\ code' = code /\ used' = used /\ session' = session
        /\ changes' = changes
    BY <2>1 DEF api
  <2>5. QED
    BY <1>2, <1>3, <1>4, <1>8, <2>1, <2>2, <2>4 DEF AnswerTo
<1>9. CASE c.kind = "change"
  <2>1. c \in Mine
    BY <1>9 DEF Fits, Mine, CallRecord
  <2>2. /\ changes + 1 \in 0..MaxChanges /\ changes + 1 <= changes + 1 /\ 0 <= changes
        /\ changes + 1 \in Versions /\ changes + 1 # -1
    BY <1>2, <1>9, <2>1, ParamsAssumption DEF Held, SavesFit, Versions
  <2>3. CASE changes' = changes + 1 /\ Reply(c, TRUE, Nobody, changes + 1)
             /\ UNCHANGED <<asked, session, code, used>>
    BY <1>2, <1>3, <1>4, <1>9, <2>2, <2>3 DEF AnswerTo
  <2>4. CASE Reply(c, FALSE, Nobody, 0) /\ UNCHANGED api
    <3>1. 0 <= changes /\ changes' = changes /\ 0 <= changes'
      BY <2>2, <2>4 DEF api
    <3>2. QED
      BY <1>2, <1>3, <1>4, <1>9, <2>4, <3>1 DEF AnswerTo, api
  <2>5. QED
    BY <1>9, <2>3, <2>4 DEF Handle, HandleChange
<1>10. CASE c.kind = "token"
  <2>1. CASE /\ used' = used \cup {c.code} /\ Reply(c, TRUE, Nobody, 0)
             /\ UNCHANGED <<asked, session, code, changes>>
             /\ c.login = c.code /\ code[c.code] # 0
    <3>1. c.code \in Logins
      BY <1>10 DEF Fits, CallRecord, Numbers
    <3>2. QED
      BY <1>2, <1>3, <1>4, <1>10, <2>1, <3>1 DEF AnswerTo
  <2>2. CASE Reply(c, FALSE, Nobody, 0) /\ UNCHANGED api
    BY <1>2, <1>3, <1>4, <1>10, <2>2 DEF AnswerTo, api
  <2>3. QED
    BY <1>10, <2>1, <2>2 DEF Handle, HandleToken
<1>11. CASE c.kind = "userinfo"
  <2>1. PICK p : p = Person(code[c.code])
    OBVIOUS
  <2>2. p \in Somebody /\ (p # Nobody) \in BOOLEAN
    BY <1>11, <2>1, PersonType DEF Held, TypeOK, Fits, CallRecord, Numbers
  <2>3. Reply(c, p # Nobody, p, 0) /\ UNCHANGED api
    BY <1>11, <2>1 DEF Handle, HandleUserInfo
  <2>4. QED
    BY <1>2, <1>3, <1>4, <1>11, <2>1, <2>2, <2>3 DEF AnswerTo, api
<1>12. QED
  BY <1>5, <1>6, <1>7, <1>8, <1>9, <1>10, <1>11 DEF Handle

\* The page comes to be q by the effects that follow p, of which d is a call.
Followed(p, q) ==
  /\ q \in PageRecord
  /\ q.auth = p.auth /\ q.mode = p.mode /\ q.bootstrap = p.bootstrap
  /\ q.profile \in {Nobody, p.profile} /\ q.saving = p.saving /\ q.saved = p.saved
  /\ q.app = p.app /\ (p.processed => q.processed)

Effect(d, p) ==
  \/ /\ d = Call("token", 0, intent, p.url.code)
     /\ intent # 0 /\ p.url.code # 0 /\ ~ p.processed /\ page'.processed
  \/ d = Call("profile", jar', 0, 0)
  \/ d = Load(jar')

LEMMA Rendered ==
  ASSUME TypeOK, NEW c \in BagToSet(calls), NEW p \in PageRecord, NEW authSet, Render(p, authSet, c)
  PROVE  /\ Followed(p, page')
         /\ \E S : /\ Gains(calls, calls', S) /\ Spends(calls, calls', c, S)
                  /\ \A d \in S : Effect(d, p)
<1>1. PICK kept : kept = IF p.auth.mode = "user" THEN p
                         ELSE [p EXCEPT !.profile = IF p.auth # page.auth THEN Nobody ELSE @]
  OBVIOUS
<1>2. /\ kept \in PageRecord /\ kept.auth = p.auth /\ kept.mode = p.mode
      /\ kept.bootstrap = p.bootstrap /\ kept.profile \in {Nobody, p.profile}
      /\ kept.saving = p.saving /\ kept.saved = p.saved
      /\ kept.processed = p.processed /\ kept.url = p.url /\ kept.app = p.app
  BY <1>1 DEF PageRecord, Somebody
<1>3. page' = Redeemed(kept)
  BY <1>1 DEF Render
<1>4. Followed(p, page')
  <2>1. CASE page' = kept
    BY <1>2, <2>1 DEF Followed
  <2>2. CASE page' = [kept EXCEPT !.processed = TRUE, !.busy = TRUE]
    BY <1>2, <2>2 DEF Followed, PageRecord
  <2>3. CASE page' = [kept EXCEPT !.processed = TRUE, !.url = NoAddress]
    BY <1>2, <2>3 DEF Followed, PageRecord, Addresses
  <2>4. QED
    BY <1>3, <2>1, <2>2, <2>3 DEF Redeemed
<1>5. PICK S : S = RedeemCalls(kept) \cup ProfileCalls(p, authSet) \cup LoadCalls(p)
  OBVIOUS
<1>6. Gains(calls, calls', S) /\ Spends(calls, calls', c, S)
  <2>1. calls' = (calls (-) InBag(c)) (+) SetToBag(S)
    BY <1>1, <1>5 DEF Render, Without
  <2>2. QED
    BY <2>1, Replaced DEF TypeOK, BagToSet
<1>7. ASSUME NEW d \in S
      PROVE  Effect(d, p)
  <2>1. CASE d \in RedeemCalls(kept)
    <3>1. MayRedeem(kept) /\ IntentFits(kept.url) /\ d = Call("token", 0, intent, kept.url.code)
      BY <2>1 DEF RedeemCalls
    <3>2. page' = [kept EXCEPT !.processed = TRUE, !.busy = TRUE]
      BY <1>3, <3>1 DEF Redeemed
    <3>3. page'.processed
      BY <1>2, <3>2 DEF PageRecord
    <3>4. QED
      BY <1>2, <3>1, <3>3 DEF MayRedeem, IntentFits, Effect
  <2>2. CASE d \in ProfileCalls(p, authSet)
    BY <2>2 DEF ProfileCalls, Effect
  <2>3. CASE d \in LoadCalls(p)
    BY <2>3 DEF LoadCalls, Effect
  <2>4. QED
    BY <1>5, <2>1, <2>2, <2>3
<1>8. QED
  BY <1>4, <1>6, <1>7

\* The page takes call c as a: as it was answered, or as one that failed.
Returned(c, a) == /\ c \in BagToSet(calls) /\ Take(c, a)
                  /\ \/ a = c /\ c.stage = "answered"
                     \/ a = Failed(c) /\ ~ c.gone

\* d is a call made when c is taken as a.
Made(d, c, a) ==
  \/ /\ d = Call("token", 0, intent, page.url.code)
     /\ intent # 0 /\ page.url.code # 0 /\ c.kind # "logout"
     /\ ~ page.processed /\ page'.processed
  \/ d = Call("profile", jar', 0, 0)
  \/ d = Load(jar')
  \/ d = Call("userinfo", 0, c.login, c.code) /\ c.kind = "token" /\ a.ok
  \/ d = Call("saved", jar, 0, 0) /\ c.kind = "change" /\ a.ok

TookCalls(c, a) == \E S : /\ Gains(calls, calls', S) /\ Spends(calls, calls', c, S)
                         /\ \A d \in S : Made(d, c, a)

TookPage(c, a) ==
  /\ page' \in PageRecord /\ (page.processed => page'.processed)
  /\ \/ page'.auth = page.auth /\ page'.mode = page.mode
     \/ page'.auth = NoAuth
     \/ /\ a.ok /\ c.kind \in {"session", "userinfo"}
        /\ page'.auth.who = a.who /\ page'.auth.mode = page'.mode
        /\ (page'.mode # "user" => IsAdmin(a.who))
        /\ page'.auth.login = IF c.kind = "session" THEN 0 ELSE c.login
  /\ c.kind = "logout" => page'.auth = NoAuth
  /\ \/ page'.bootstrap = page.bootstrap /\ (c.kind = "saved" => ~ a.ok \/ ~ page'.app)
     \/ /\ a.ok /\ c.kind \in {"bootstrap", "saved"}
        /\ page'.bootstrap = [ready |-> TRUE, who |-> a.who, version |-> a.version]
  /\ \/ page'.profile \in {Nobody, page.profile}
     \/ a.ok /\ c.kind = "profile" /\ page'.profile = a.who
  /\ IF c.kind = "change"
       THEN IF a.ok THEN page'.saving = page.saving /\ page'.saved = a.version
                    ELSE page'.saving = FALSE /\ page'.saved = page.saved
     ELSE IF c.kind = "saved" THEN page'.saving = FALSE /\ page'.saved = 0
     ELSE page'.saving = page.saving /\ page'.saved = page.saved

TookBrowser(c, a) ==
  /\ mixed' = mixed
  /\ IF c.kind = "login" /\ a.ok
       THEN jar' = c.login /\ intent' = c.login /\ nav' = c.login
     ELSE IF c.kind = "logout" THEN jar' \in {0, jar} /\ intent' = 0 /\ nav' = nav
     ELSE jar' = jar /\ intent' \in {0, intent} /\ nav' = nav
  /\ c.kind # "logout" => out' = out

LEMMA ReturnedType ==
  ASSUME TypeOK, NEW c, NEW a, Returned(c, a)
  PROVE  /\ c \in CallRecord /\ a \in CallRecord /\ c \in BagToSet(calls)
         /\ a.login = c.login /\ a.code = c.code /\ a.kind = c.kind
         /\ (a.ok => a = c) /\ c.kind \in Kinds
<1>1. c \in CallRecord /\ c \in BagToSet(calls)
  BY DEF Returned, TypeOK, BagToSet
<1>2. CASE a = c
  BY <1>1, <1>2 DEF CallRecord
<1>3. CASE a = Failed(c)
  <2>1. 0 \in -1..MaxChanges
    BY ParamsAssumption
  <2>2. QED
    BY <1>1, <1>3, <2>1 DEF Failed, CallRecord, Somebody
<1>4. QED
  BY <1>2, <1>3 DEF Returned

\* What a load may change of the page.
Overwritten(p, a) ==
  /\ p.processed = page.processed /\ p.auth = page.auth /\ p.mode = page.mode
  /\ p.profile = page.profile /\ p.saving = page.saving /\ p.saved = page.saved
  /\ p.url = page.url /\ p.busy = page.busy
  /\ \/ p.bootstrap = page.bootstrap /\ (~ a.ok \/ ~ p.app)
     \/ a.ok /\ p.bootstrap = [ready |-> TRUE, who |-> a.who, version |-> a.version]

LEMMA LoadedPage ==
  ASSUME page \in PageRecord, NEW a \in CallRecord, NEW p, p = Loaded(page, a)
  PROVE  p \in PageRecord /\ Overwritten(p, a)
<1>1. CASE ~ a.ok
  BY <1>1 DEF Loaded, Overwritten
<1>2. CASE a.ok /\ a.version = -1
  <2>1. p = [page EXCEPT !.app = FALSE]
    BY <1>2 DEF Loaded, BrokenOverview
  <2>2. QED
    BY <2>1 DEF PageRecord, Overwritten
<1>3. CASE a.ok /\ a.version # -1
  <2>1. PICK b : b = [ready |-> TRUE, who |-> a.who, version |-> a.version]
    OBVIOUS
  <2>2. p = [page EXCEPT !.bootstrap = b]
    BY <1>3, <2>1 DEF Loaded, BrokenOverview
  <2>3. a.version \in 0..MaxChanges /\ a.who \in Somebody
    BY <1>3, ParamsAssumption DEF CallRecord
  <2>4. b \in [ready : BOOLEAN, who : Somebody, version : 0..MaxChanges]
    BY <2>1, <2>3
  <2>5. p \in PageRecord
    BY <2>2, <2>4 DEF PageRecord
  <2>6. QED
    BY <1>3, <2>1, <2>2, <2>5 DEF PageRecord, Overwritten
<1>4. QED
  BY <1>1, <1>2, <1>3

LEMMA Taken ==
  ASSUME Held, NEW c, NEW a, Returned(c, a)
  PROVE  TookCalls(c, a) /\ TookPage(c, a) /\ TookBrowser(c, a) /\ UNCHANGED api
<1> /\ c \in CallRecord /\ a \in CallRecord /\ c \in BagToSet(calls)
    /\ a.login = c.login /\ a.code = c.code /\ a.kind = c.kind
    /\ (a.ok => a = c) /\ c.kind \in Kinds
  BY ReturnedType DEF Held
<1> TypeOK /\ page \in PageRecord /\ IsABag(calls) /\ c \in DOMAIN calls /\ Fits(c)
  BY DEF Held, TypeOK, BagToSet, LoginsFit
<1>1. UNCHANGED api
  BY DEF Returned, Take
<1>3. ASSUME NEW p \in PageRecord, NEW authSet, Render(p, authSet, c),
             p.processed = page.processed, p.url \in {page.url, NoAddress},
             c.kind = "logout" => p.url = NoAddress
      PROVE  /\ Followed(p, page') /\ TookCalls(c, a)
  <2>1. PICK S : /\ Gains(calls, calls', S) /\ Spends(calls, calls', c, S)
                 /\ \A d \in S : Effect(d, p)
    BY <1>3, Rendered
  <2>2. \A d \in S : Made(d, c, a)
    BY <1>3, <2>1 DEF Effect, Made, NoAddress
  <2>3. QED
    BY <1>3, <2>1, <2>2, Rendered DEF TookCalls
<1>2. ASSUME calls' = Without(c)
      PROVE  TookCalls(c, a)
  <2>1. Gains(calls, calls', {}) /\ Spends(calls, calls', c, {})
    BY <1>2, Removed DEF Without
  <2>2. QED
    BY <2>1 DEF TookCalls
<1>14. ASSUME NEW e, calls' = Without(c) (+) InBag(e), Made(e, c, a)
       PROVE  TookCalls(c, a)
  <2>1. Gains(calls, calls', {e}) /\ Spends(calls, calls', c, {e})
    BY <1>14, Replaced DEF Without, InBag
  <2>2. QED
    BY <1>14, <2>1 DEF TookCalls
<1>4. CASE c.kind = "bootstrap"
  <2>1. BootstrapArrives(c, a)
    BY <1>4 DEF Returned, Take
  <2>2. PICK p : p = Loaded(page, a)
    OBVIOUS
  <2>3. p \in PageRecord /\ Overwritten(p, a)
    BY <2>2, LoadedPage
  <2>4. /\ p.processed = page.processed /\ p.auth = page.auth /\ p.mode = page.mode
        /\ p.profile = page.profile /\ p.saving = page.saving /\ p.saved = page.saved
        /\ p.url = page.url
        /\ \/ p.bootstrap = page.bootstrap
           \/ a.ok /\ p.bootstrap = [ready |-> TRUE, who |-> a.who, version |-> a.version]
    BY <2>3 DEF Overwritten
  <2>5. Render(p, FALSE, c)
    BY <2>1, <2>2 DEF BootstrapArrives
  <2>6. TookCalls(c, a) /\ Followed(p, page')
    BY <1>3, <1>4, <2>3, <2>4, <2>5
  <2>7. TookPage(c, a)
    BY <1>4, <2>3, <2>4, <2>6 DEF TookPage, Followed
  <2>8. TookBrowser(c, a)
    BY <1>4, <2>1 DEF TookBrowser, BootstrapArrives, browser
  <2>9. QED
    BY <1>1, <2>6, <2>7, <2>8
<1>5. CASE c.kind = "session"
  <2>1. SessionArrives(c, a)
    BY <1>5 DEF Returned, Take
  <2>2. PICK mode : mode = RestoredMode(a.who)
    OBVIOUS
  <2>3. mode \in Modes /\ (mode # "user" => Role[a.who] \in AdminRoles)
    BY <2>2 DEF RestoredMode, Modes, AdminRoles
  <2>4. PICK p : p = IF a.ok THEN [page EXCEPT !.mode = mode, !.auth =
                                     [who |-> a.who, mode |-> mode, login |-> 0]]
                     ELSE [page EXCEPT !.auth = NoAuth]
    OBVIOUS
  <2>5. /\ p \in PageRecord
        /\ p.processed = page.processed /\ p.bootstrap = page.bootstrap
        /\ p.profile = page.profile /\ p.saving = page.saving /\ p.saved = page.saved
        /\ p.url = page.url
        /\ IF a.ok THEN p.mode = mode /\ p.auth = [who |-> a.who, mode |-> mode, login |-> 0]
                   ELSE p.auth = NoAuth
    BY <2>3, <2>4 DEF PageRecord, CallRecord, Numbers, NoAuth, Somebody
  <2>6. Render(p, a.ok, c)
    BY <2>1, <2>2, <2>4 DEF SessionArrives
  <2>7. TookCalls(c, a) /\ Followed(p, page')
    BY <1>3, <1>5, <2>5, <2>6
  <2>8. a.ok => a.who # Nobody
    BY <1>5 DEF Fits
  <2>9. TookPage(c, a)
    BY <1>5, <2>3, <2>5, <2>7, <2>8 DEF TookPage, Followed, IsAdmin
  <2>10. TookBrowser(c, a)
    BY <1>5, <2>1 DEF TookBrowser, SessionArrives, browser
  <2>11. QED
    BY <1>1, <2>7, <2>9, <2>10
<1>6. CASE c.kind = "profile"
  <2>1. ProfileArrives(c, a)
    BY <1>6 DEF Returned, Take
  <2>2. TookCalls(c, a)
    BY <1>2, <2>1 DEF ProfileArrives
  <2>3. TookPage(c, a)
    BY <1>6, <2>1 DEF TookPage, ProfileArrives, PageRecord, CallRecord
  <2>4. TookBrowser(c, a)
    BY <1>6, <2>1 DEF TookBrowser, ProfileArrives, browser
  <2>5. QED
    BY <1>1, <2>2, <2>3, <2>4
<1>7. CASE c.kind = "login"
  <2>1. LoginArrives(c, a)
    BY <1>7 DEF Returned, Take
  <2>2. TookCalls(c, a)
    BY <1>2, <2>1 DEF LoginArrives
  <2>3. TookPage(c, a)
    <3>1. \/ page' = page
          \/ page' = [page EXCEPT !.busy = FALSE]
      BY <2>1 DEF LoginArrives
    <3>2. page' \in PageRecord
      BY <3>1 DEF PageRecord
    <3>3. /\ page'.auth = page.auth /\ page'.mode = page.mode
          /\ page'.processed = page.processed /\ page'.bootstrap = page.bootstrap
          /\ page'.profile = page.profile /\ page'.saving = page.saving
          /\ page'.saved = page.saved
      BY <3>1 DEF PageRecord
    <3>4. QED
      BY <1>7, <3>2, <3>3 DEF TookPage
  <2>4. TookBrowser(c, a)
    BY <1>7, <2>1 DEF TookBrowser, LoginArrives, browser, PassedOn
  <2>5. QED
    BY <1>1, <2>2, <2>3, <2>4
<1>15. ASSUME NEW p, p = SignInFailed(page), Render(p, FALSE, c), c.kind \in {"token", "userinfo"},
              ~ a.ok
       PROVE  TookCalls(c, a) /\ TookPage(c, a)
  <2>1. /\ p \in PageRecord /\ p.auth = NoAuth /\ p.url = NoAddress
        /\ p.processed = page.processed /\ p.bootstrap = page.bootstrap
        /\ p.profile = page.profile /\ p.saving = page.saving /\ p.saved = page.saved
    BY <1>15 DEF SignInFailed, PageRecord, Numbers, Addresses, NoAuth, Somebody
  <2>2. TookCalls(c, a) /\ Followed(p, page')
    BY <1>3, <1>15, <2>1
  <2>3. QED
    BY <1>15, <2>1, <2>2 DEF TookPage, Followed
<1>8. CASE c.kind = "token"
  <2>1. TokenArrives(c, a)
    BY <1>8 DEF Returned, Take
  <2>2. TookBrowser(c, a)
    BY <1>8, <2>1 DEF TookBrowser, TokenArrives, browser
  <2>3. CASE a.ok
    <3>1. TookCalls(c, a)
      <4>1. PICK e : e = Call("userinfo", 0, c.login, c.code)
        OBVIOUS
      <4>2. Made(e, c, a) /\ calls' = Without(c) (+) InBag(e)
        BY <1>8, <2>1, <2>3, <4>1 DEF Made, TokenArrives
      <4>3. QED
        BY <1>14, <4>2
    <3>2. TookPage(c, a)
      BY <1>8, <2>1, <2>3 DEF TokenArrives, TookPage
    <3>3. QED
      BY <1>1, <2>2, <3>1, <3>2
  <2>4. CASE ~ a.ok
    <3>1. PICK p : p = SignInFailed(page)
      OBVIOUS
    <3>2. Render(p, FALSE, c)
      BY <2>1, <2>4, <3>1 DEF TokenArrives
    <3>3. QED
      BY <1>1, <1>8, <1>15, <2>2, <2>4, <3>1, <3>2
  <2>5. QED
    BY <2>3, <2>4
<1>9. CASE c.kind = "userinfo"
  <2>1. UserInfoArrives(c, a)
    BY <1>9 DEF Returned, Take
  <2>2. TookBrowser(c, a)
    BY <1>9, <2>1 DEF TookBrowser, UserInfoArrives
  <2>3. CASE a.ok
    <3>1. PICK mode : mode = LoginMode(asked[c.login].mode, a.who)
      OBVIOUS
    <3>2. mode \in Modes /\ (mode # "user" => IsAdmin(a.who))
      BY <3>1 DEF LoginMode, Modes
    <3>3. PICK p : p = [page EXCEPT !.auth = [who |-> a.who, mode |-> mode, login |-> c.login],
                                    !.mode = mode, !.busy = FALSE, !.url = NoAddress]
      OBVIOUS
    <3>4. /\ p \in PageRecord /\ p.url = NoAddress
          /\ p.processed = page.processed /\ p.bootstrap = page.bootstrap
          /\ p.profile = page.profile /\ p.saving = page.saving /\ p.saved = page.saved
          /\ p.mode = mode /\ p.auth = [who |-> a.who, mode |-> mode, login |-> c.login]
      BY <3>2, <3>3 DEF PageRecord, CallRecord, Numbers, Addresses, Somebody
    <3>5. Render(p, TRUE, c)
      BY <2>1, <2>3, <3>1, <3>3 DEF UserInfoArrives
    <3>6. TookCalls(c, a) /\ Followed(p, page')
      BY <1>3, <1>9, <3>4, <3>5
    <3>7. TookPage(c, a)
      BY <1>9, <2>3, <3>2, <3>4, <3>6 DEF TookPage, Followed
    <3>8. QED
      BY <1>1, <2>2, <3>6, <3>7
  <2>4. CASE ~ a.ok
    <3>1. PICK p : p = SignInFailed(page)
      OBVIOUS
    <3>2. Render(p, FALSE, c)
      BY <2>1, <2>4, <3>1 DEF UserInfoArrives
    <3>3. QED
      BY <1>1, <1>9, <1>15, <2>2, <2>4, <3>1, <3>2
  <2>5. QED
    BY <2>3, <2>4
<1>10. CASE c.kind = "logout"
  <2>1. LogoutArrives(c, a)
    BY <1>10 DEF Returned, Take
  <2>2. PICK p : p = [page EXCEPT !.auth = NoAuth, !.busy = FALSE, !.mode = "tenant", !.url = NoAddress]
    OBVIOUS
  <2>3. /\ p \in PageRecord /\ p.auth = NoAuth /\ p.url = NoAddress
        /\ p.processed = page.processed /\ p.bootstrap = page.bootstrap
        /\ p.profile = page.profile /\ p.saving = page.saving /\ p.saved = page.saved
    BY <2>2 DEF PageRecord, Numbers, Addresses, NoAuth, Modes, Somebody
  <2>4. Render(p, FALSE, c)
    BY <2>1, <2>2 DEF LogoutArrives
  <2>5. TookCalls(c, a) /\ Followed(p, page')
    BY <1>3, <2>3, <2>4
  <2>6. TookPage(c, a)
    BY <1>10, <2>3, <2>5 DEF TookPage, Followed
  <2>7. TookBrowser(c, a)
    BY <1>10, <2>1 DEF TookBrowser, LogoutArrives, PassedOn
  <2>8. QED
    BY <1>1, <2>5, <2>6, <2>7
<1>11. CASE c.kind = "change"
  <2>1. ChangeArrives(c, a)
    BY <1>11 DEF Returned, Take
  <2>2. TookCalls(c, a)
    <3>1. CASE a.ok
      <4>1. PICK e : e = Call("saved", jar, 0, 0)
        OBVIOUS
      <4>2. Made(e, c, a) /\ calls' = Without(c) (+) InBag(e)
        BY <1>11, <2>1, <3>1, <4>1 DEF Made, ChangeArrives
      <4>3. QED
        BY <1>14, <4>2
    <3>2. CASE ~ a.ok
      BY <1>2, <2>1, <3>2 DEF ChangeArrives
    <3>3. QED
      BY <3>1, <3>2
  <2>3. TookPage(c, a)
    <3>1. a.ok => a.version \in 0..MaxChanges
      BY <1>11, ParamsAssumption DEF Fits, CallRecord
    <3>2. QED
      BY <1>11, <2>1, <3>1 DEF TookPage, ChangeArrives, AfterChange, PageRecord
  <2>4. TookBrowser(c, a)
    BY <1>11, <2>1 DEF TookBrowser, ChangeArrives, browser
  <2>5. QED
    BY <1>1, <2>2, <2>3, <2>4
<1>12. CASE c.kind = "saved"
  <2>1. SavedArrives(c, a)
    BY <1>12 DEF Returned, Take
  <2>2. PICK p : p = [Loaded(page, a) EXCEPT !.saving = FALSE, !.saved = 0]
    OBVIOUS
  <2>3. /\ p \in PageRecord /\ p.saving = FALSE /\ p.saved = 0
        /\ p.processed = page.processed /\ p.auth = page.auth /\ p.mode = page.mode
        /\ p.profile = page.profile /\ p.url = page.url
        /\ \/ p.bootstrap = page.bootstrap /\ (~ a.ok \/ ~ p.app)
           \/ a.ok /\ p.bootstrap = [ready |-> TRUE, who |-> a.who, version |-> a.version]
    <3>1. PICK l : l = Loaded(page, a)
      OBVIOUS
    <3>2. l \in PageRecord /\ Overwritten(l, a)
      BY <3>1, LoadedPage
    <3>3. p = [l EXCEPT !.saving = FALSE, !.saved = 0]
      BY <2>2, <3>1
    <3>4. 0 \in 0..MaxChanges
      BY ParamsAssumption
    <3>5. /\ p \in PageRecord /\ p.saving = FALSE /\ p.saved = 0
          /\ p.processed = l.processed /\ p.auth = l.auth /\ p.mode = l.mode
          /\ p.profile = l.profile /\ p.url = l.url /\ p.bootstrap = l.bootstrap
          /\ p.app = l.app
      BY <3>2, <3>3, <3>4 DEF PageRecord
    <3>6. QED
      BY <3>2, <3>5 DEF Overwritten
  <2>4. Render(p, FALSE, c)
    BY <2>1, <2>2 DEF SavedArrives
  <2>5. TookCalls(c, a) /\ Followed(p, page')
    BY <1>3, <1>12, <2>3, <2>4
  <2>6. TookPage(c, a)
    BY <1>12, <2>3, <2>5 DEF TookPage, Followed
  <2>7. TookBrowser(c, a)
    BY <1>12, <2>1 DEF TookBrowser, SavedArrives, browser
  <2>8. QED
    BY <1>1, <2>5, <2>6, <2>7
<1>13. QED
  BY <1>4, <1>5, <1>6, <1>7, <1>8, <1>9, <1>10, <1>11, <1>12 DEF Kinds

LEMMA AnswerKeepsHeld ==
  ASSUME Held, NEW c \in BagToSet(calls), Handle(c), UNCHANGED <<browser, page, mixed, out>>
  PROVE  Held'
<1>1. PICK d : Handled(c, d)
  BY Answered
<1> /\ c \in CallRecord /\ c.stage = "sent" /\ Fits(c) /\ d \in CallRecord /\ d.stage = "answered"
    /\ d.kind = c.kind /\ d.login = c.login /\ d.code = c.code /\ d.gone = c.gone
  BY <1>1 DEF Held, TypeOK, LoginsFit, Handle, BagToSet, Handled, AnswerTo, CallRecord
<1> IsABag(calls) /\ IsABag(calls') /\ c \in DOMAIN calls
  BY <1>1 DEF Held, TypeOK, Handled, Gains, BagToSet
<1> DEFINE S == IF c.gone THEN {} ELSE {d}
<1>2. /\ session' \in [Logins -> {"none", "live", "ended"}]
      /\ \A n \in Logins : session[n] # "none" => session'[n] # "none"
      /\ \A n \in Logins : session'[n] # session[n] =>
           session[n] = "live" \/ (c.kind = "login" /\ d.ok /\ n = c.login)
      /\ c.kind = "login" /\ d.ok => session'[c.login] # "none"
  <2>1. session \in [Logins -> {"none", "live", "ended"}]
    BY DEF Held, TypeOK
  <2>2. CASE c.kind = "login"
    <3>1. c.login \in Logins
      BY <2>2 DEF Fits, CallRecord, Numbers
    <3>2. session' = IF d.ok THEN [session EXCEPT ![c.login] = "live"] ELSE session
      BY <1>1, <2>2 DEF Handled, AnswerTo
    <3>3. QED
      BY <2>1, <2>2, <3>1, <3>2
  <2>3. CASE c.kind = "logout"
    <3>1. session' = Revoked(session, c.cookie)
      BY <1>1, <2>3 DEF Handled, AnswerTo
    <3>2. QED
      BY <2>1, <2>3, <3>1 DEF Revoked, CallRecord, Numbers
  <2>4. CASE c.kind \notin {"login", "logout"}
    <3>1. session' = session
      BY <1>1, <2>4 DEF Handled, AnswerTo
    <3>2. QED
      BY <2>1, <2>4, <3>1
  <2>5. QED
    BY <2>2, <2>3, <2>4
<1>3. \A x \in DOMAIN calls' : \/ x \in S /\ x = d /\ ~ c.gone
                               \/ x \in DOMAIN calls /\ (calls[c] = 1 => x # c) /\ x \notin S
  BY <1>1 DEF Handled, Gains, Spends
<1>4. TypeOK'
  <2>1. DOMAIN calls' \subseteq CallRecord
    BY <1>3 DEF Held, TypeOK
  <2>2. /\ asked' = asked /\ code' = code /\ used' \subseteq Logins /\ changes' \in 0..MaxChanges
        /\ UNCHANGED <<jar, intent, nav, page, mixed, out>>
    BY <1>1 DEF Handled, browser
  <2>3. \A n \in Numbers : n # 0 => n \in Logins
    BY DEF Numbers
  <2>4. jar' # 0 => session'[jar'] # "none"
    BY <1>2, <2>2, <2>3 DEF Held, TypeOK
  <2>5. \A n \in Logins : code'[n] # 0 => session'[code'[n]] # "none"
    BY <1>2, <2>2, <2>3 DEF Held, TypeOK
  <2>6. QED
    BY <1>2, <2>1, <2>2, <2>4, <2>5 DEF Held, TypeOK
<1>5. LoginsFit'
  <2>1. asked' = asked /\ code' = code
    BY <1>1 DEF Handled
  <2>2. ASSUME NEW x \in DOMAIN calls'
        PROVE  Fits(x)'
    <3>1. CASE x = d /\ ~ c.gone
      BY <1>1, <1>2, <2>1, <3>1 DEF Fits, Handled, AnswerTo
    <3>2. CASE x \in DOMAIN calls /\ (calls[c] = 1 => x # c)
      <4>1. Fits(x) /\ x \in CallRecord
        BY <3>2 DEF Held, TypeOK, LoginsFit, BagToSet
      <4>2. x.kind = "login" => x.login \in Logins
        BY <4>1 DEF Fits, CallRecord, Numbers
      <4>3. x.kind = "login" /\ x.stage = "sent" => session'[x.login] = session[x.login]
        <5>1. x.kind = "login" /\ c.kind = "login" => x.login # c.login
          BY <3>2 DEF Held, LoginsFit, BagToSet
        <5>2. QED
          BY <1>2, <4>1, <4>2, <5>1 DEF Fits
      <4>4. QED
        BY <1>2, <2>1, <4>1, <4>2, <4>3 DEF Fits
    <3>3. QED
      BY <1>3, <3>1, <3>2
  <2>3. ASSUME NEW x \in DOMAIN calls', NEW y \in DOMAIN calls',
               x.kind = "login", y.kind = "login", x.login = y.login
        PROVE  x = y /\ calls'[x] = 1
    <3>1. \A z, w \in DOMAIN calls : z.kind = "login" /\ w.kind = "login" /\ z.login = w.login
             => z = w /\ calls[z] = 1
      BY DEF Held, LoginsFit, BagToSet
    <3>2. CASE x \in S \/ y \in S
      <4>1. ~ c.gone /\ d \in S /\ c.kind = "login" /\ x.login = c.login /\ y.login = c.login
        BY <1>3, <2>3, <3>2
      <4>2. calls[c] = 1 /\ d \notin DOMAIN calls
        BY <2>3, <3>1, <4>1
      <4>3. x = d /\ y = d
        BY <1>3, <2>3, <3>1, <4>1, <4>2
      <4>4. calls'[d] = 1
        BY <1>1, <2>3, <4>1, <4>2, <4>3 DEF Handled, Gains
      <4>5. QED
        BY <4>3, <4>4
    <3>3. CASE x \notin S /\ y \notin S
      <4>1. x \in DOMAIN calls /\ y \in DOMAIN calls
        BY <1>3, <3>3
      <4>2. x = y /\ calls[x] = 1
        BY <2>3, <3>1, <4>1
      <4>3. calls'[x] <= calls[x]
        BY <1>1, <2>3, <3>3, <4>1 DEF Handled, Gains
      <4>4. calls'[x] \in Nat /\ calls'[x] > 0
        BY <2>3 DEF IsABag
      <4>5. QED
        BY <4>2, <4>3, <4>4
    <3>4. QED
      BY <3>2, <3>3
  <2>4. \A n \in Logins : session'[n] # "none" => asked'[n].who # Nobody
    BY <1>2, <2>1 DEF Held, LoginsFit, Fits
  <2>5. QED
    BY <2>2, <2>3, <2>4 DEF LoginsFit, BagToSet
<1>6. SavesFit'
  <2>1. page' = page /\ page.saved \in 0..MaxChanges /\ changes \in 0..MaxChanges
    BY DEF Held, TypeOK, PageRecord
  <2>2. changes' \in 0..MaxChanges /\ changes <= changes' /\ (changes' # changes => c.kind = "change")
    BY <1>1, <2>1, ParamsAssumption DEF Handled, AnswerTo
  <2>3. \A x \in Mine' : x \in DOMAIN calls' /\ ~ x.gone
    BY DEF Mine, BagToSet
  <2>4. \A x \in Mine : x \in DOMAIN calls /\ ~ x.gone
    BY DEF Mine, BagToSet
  <2>5. \A x \in Mine' : \/ x = d /\ c \in Mine /\ x \in S
                         \/ x \in Mine /\ (calls[c] = 1 => x # c) /\ x \notin S
    BY <1>3, <2>3 DEF Mine, BagToSet
  <2>6. \A x, y \in Mine : SaveCall(x) /\ SaveCall(y) => x = y /\ calls[x] = 1
    BY DEF Held, SavesFit
  <2>7. ASSUME NEW x \in Mine', NEW y \in Mine', SaveCall(x), SaveCall(y)
        PROVE  x = y /\ calls'[x] = 1
    <3>1. CASE x \in S \/ y \in S
      <4>1. d \in S /\ c \in Mine /\ SaveCall(c)
        BY <2>5, <2>7, <3>1 DEF SaveCall
      <4>2. calls[c] = 1 /\ d \notin DOMAIN calls
        BY <2>6, <4>1 DEF SaveCall, Mine, BagToSet
      <4>3. x = d /\ y = d
        BY <2>5, <2>6, <2>7, <4>1, <4>2
      <4>4. calls'[d] = 1
        BY <1>1, <2>3, <2>7, <4>1, <4>2, <4>3 DEF Handled, Gains
      <4>5. QED
        BY <4>3, <4>4
    <3>2. CASE x \notin S /\ y \notin S
      <4>1. x \in Mine /\ y \in Mine
        BY <2>5, <2>7, <3>2
      <4>2. x = y /\ calls[x] = 1
        BY <2>6, <2>7, <4>1
      <4>3. calls'[x] <= calls[x]
        BY <1>1, <2>3, <2>7, <3>2 DEF Handled, Gains
      <4>4. calls'[x] \in Nat /\ calls'[x] > 0
        BY <2>3, <2>7 DEF IsABag
      <4>5. QED
        BY <4>2, <4>3, <4>4
    <3>3. QED
      BY <3>1, <3>2
  <2>8. ASSUME NEW x \in Mine'
        PROVE  /\ SaveCall(x) => page.saving
               /\ x.kind = "change" =>
                    /\ page.saved = 0
                    /\ IF x.stage = "sent" THEN changes' < MaxChanges ELSE x.version <= changes'
               /\ x.kind = "saved" /\ x.stage = "answered" =>
                    x.ok /\ (x.who = Nobody \/ x.version >= page.saved)
    <3>1. CASE x = d /\ c \in Mine
      BY <1>1, <2>1, <2>2, <3>1 DEF Held, SavesFit, SaveCall, Handled, AnswerTo
    <3>2. CASE x \in Mine /\ (calls[c] = 1 => x # c)
      <4>1. x.kind = "change" => changes' = changes
        <5>1. c.kind = "change" => c \in Mine
          BY DEF Fits, Mine, BagToSet, CallRecord
        <5>2. QED
          BY <2>2, <2>6, <3>2, <5>1 DEF SaveCall
      <4>2. x \in CallRecord
        BY <2>4, <3>2 DEF Held, TypeOK
      <4>3. QED
        BY <2>1, <2>2, <3>2, <4>1, <4>2 DEF Held, SavesFit, SaveCall, CallRecord
    <3>3. QED
      BY <2>5, <3>1, <3>2
  <2>9. page.saved <= changes'
    <3>1. page.saved <= changes
      BY DEF Held, SavesFit
    <3>2. QED
      BY <2>1, <2>2, <3>1
  <2>10. QED
    BY <2>1, <2>7, <2>8, <2>9 DEF SavesFit
<1>7. QED
  BY <1>4, <1>5, <1>6 DEF Held

LEMMA TakeKeepsHeld ==
  ASSUME Held, NEW c, NEW a, Returned(c, a)
  PROVE  Held'
<1>1. TookCalls(c, a) /\ TookPage(c, a) /\ TookBrowser(c, a) /\ UNCHANGED api
  BY Taken
<1>2. PICK S : /\ Gains(calls, calls', S) /\ Spends(calls, calls', c, S)
               /\ \A d \in S : Made(d, c, a)
  BY <1>1 DEF TookCalls
<1> /\ c \in CallRecord /\ a \in CallRecord /\ c \in BagToSet(calls)
    /\ a.login = c.login /\ a.code = c.code /\ a.kind = c.kind /\ (a.ok => a = c)
  BY ReturnedType DEF Held
<1> /\ c \in DOMAIN calls /\ Fits(c) /\ ~ c.gone /\ c \in Mine
    /\ IsABag(calls) /\ IsABag(calls')
  BY <1>2 DEF Held, TypeOK, BagToSet, LoginsFit, Returned, Fits, Mine, Gains
<1>3. /\ asked' = asked /\ session' = session /\ code' = code /\ used' = used
      /\ changes' = changes
  BY <1>1 DEF api
<1>4. /\ {jar', intent', nav'} \subseteq Numbers
      /\ jar' # 0 => session[jar'] # "none"
      /\ mixed' = mixed /\ out' \in BOOLEAN
  <2>1. c.kind = "login" /\ a.ok => c.login \in Logins /\ session[c.login] # "none"
    BY DEF Fits, CallRecord, Numbers
  <2>2. {jar, intent, nav} \subseteq Numbers /\ (jar # 0 => session[jar] # "none")
    BY DEF Held, TypeOK
  <2>3. out' \in BOOLEAN
    <3>1. CASE c.kind = "logout"
      BY <3>1 DEF Returned, Take, LogoutArrives
    <3>2. CASE c.kind # "logout"
      BY <1>1, <3>2 DEF TookBrowser, Held, TypeOK
    <3>3. QED
      BY <3>1, <3>2
  <2>4. QED
    BY <1>1, <2>1, <2>2, <2>3 DEF TookBrowser, Numbers
<1>5. \A d \in S : /\ d \in CallRecord /\ Fits(d) /\ Fits(d)'
                   /\ d.kind # "login" /\ d.kind # "change" /\ d.stage = "sent" /\ ~ d.gone
                   /\ d.kind = "saved" => c.kind = "change" /\ a.ok
  <2> TAKE d \in S
  <2>1. Made(d, c, a)
    BY <1>2
  <2>2. {jar, jar', intent, page.url.code, c.login, c.code, 0} \subseteq Numbers
    <3>1. page.url.code \in Numbers
      BY DEF Held, TypeOK, PageRecord, Addresses, NoAddress, Numbers
    <3>2. QED
      BY <1>4, <3>1 DEF Held, TypeOK, CallRecord, Numbers
  <2>3. d.kind = "userinfo" => /\ d.login = c.login /\ d.code = c.code
                               /\ c.login # 0 /\ c.code = c.login /\ code[c.code] # 0
    <3>1. d.kind = "userinfo" => c.kind = "token" /\ d.login = c.login /\ d.code = c.code /\ a.ok
      BY <2>1 DEF Made, Load, Call
    <3>2. QED
      BY <3>1 DEF Fits
  <2>4. d \in CallRecord
    BY <2>1, <2>2, CallType DEF Made, Load, Kinds
  <2>5. QED
    BY <1>3, <2>1, <2>3, <2>4 DEF Made, Load, Call, Fits
<1>6. TypeOK'
  <2>1. DOMAIN calls' \subseteq CallRecord
    BY <1>2, <1>5 DEF Gains, Held, TypeOK
  <2>2. page' \in PageRecord
    BY <1>1 DEF TookPage
  <2>3. page'.auth.who = Nobody <=> page'.auth = NoAuth
    BY <1>1 DEF TookPage, Held, TypeOK, NoAuth, Fits
  <2>4. QED
    BY <1>3, <1>4, <2>1, <2>2, <2>3 DEF Held, TypeOK
<1>7. LoginsFit'
  <2>1. \A x \in DOMAIN calls' : Fits(x)'
    <3>1. \A x \in DOMAIN calls : Fits(x)'
      BY <1>3 DEF Held, LoginsFit, BagToSet, Fits
    <3>2. QED
      BY <1>2, <1>5, <3>1 DEF Gains
  <2>2. \A x, y \in DOMAIN calls' : x.kind = "login" /\ y.kind = "login" /\ x.login = y.login
           => x = y /\ calls'[x] = 1
    <3> TAKE x, y \in DOMAIN calls'
    <3> HAVE x.kind = "login" /\ y.kind = "login" /\ x.login = y.login
    <3>1. x \notin S /\ x \in DOMAIN calls /\ y \in DOMAIN calls
      BY <1>2, <1>5 DEF Gains
    <3>2. x = y /\ calls[x] = 1
      BY <3>1 DEF Held, LoginsFit, BagToSet
    <3>3. calls'[x] <= calls[x] /\ calls'[x] \in Nat /\ calls'[x] > 0
      BY <1>2, <3>1 DEF Gains, IsABag
    <3>4. QED
      BY <3>2, <3>3
  <2>3. QED
    BY <1>3, <2>1, <2>2 DEF Held, LoginsFit, BagToSet
<1>8. SavesFit'
  <2>1. \A x \in Mine' : \/ x \in S
                         \/ x \in Mine /\ x \notin S /\ (calls[c] = 1 => x # c)
    BY <1>2 DEF Mine, BagToSet, Gains, Spends
  <2>2. \A x, y \in Mine : SaveCall(x) /\ SaveCall(y) => x = y /\ calls[x] = 1
    BY DEF Held, SavesFit
  <2>3. ASSUME SaveCall(c), NEW x \in Mine', SaveCall(x)
        PROVE  x \in S /\ c.kind = "change" /\ a.ok /\ x.kind = "saved"
    BY <1>5, <2>1, <2>2, <2>3 DEF SaveCall
  <2>4. ASSUME NEW x \in Mine', NEW y \in Mine', SaveCall(x), SaveCall(y)
        PROVE  x = y /\ calls'[x] = 1
    <3>1. CASE x \in S \/ y \in S
      <4>1. SaveCall(c)
        BY <1>5, <2>4, <3>1 DEF SaveCall
      <4>2. x \in S /\ y \in S /\ x.kind = "saved" /\ y.kind = "saved" /\ c.kind = "change"
        BY <2>3, <2>4, <4>1
      <4>3. x = Call("saved", jar, 0, 0) /\ y = Call("saved", jar, 0, 0)
        BY <1>2, <4>2 DEF Made, Load, Call
      <4>4. x \notin DOMAIN calls
        BY <1>5, <2>2, <4>1, <4>2 DEF SaveCall, Mine, BagToSet
      <4>5. QED
        BY <1>2, <2>4, <4>2, <4>3, <4>4 DEF Gains, Mine, BagToSet
    <3>2. CASE x \notin S /\ y \notin S
      <4>1. x \in Mine /\ y \in Mine
        BY <2>1, <2>4, <3>2
      <4>2. x = y /\ calls[x] = 1
        BY <2>2, <2>4, <4>1
      <4>3. /\ calls'[x] <= calls[x]
            /\ calls'[x] \in Nat /\ calls'[x] > 0
        BY <1>2, <2>4, <3>2 DEF Gains, Mine, BagToSet, IsABag
      <4>4. QED
        BY <4>2, <4>3
    <3>3. QED
      BY <3>1, <3>2
  <2>5. /\ page.saved \in 0..MaxChanges /\ changes \in 0..MaxChanges /\ page.saved <= changes
        /\ (c.kind = "change" => page.saved = 0 /\ (c.stage = "answered" => c.version <= changes))
    BY DEF Held, TypeOK, PageRecord, SavesFit
  <2>6. page'.saved <= changes
    <3>1. c.kind = "change" /\ a.ok => a.version <= changes
      BY <2>5 DEF Fits
    <3>2. 0 <= changes
      BY <2>5
    <3>3. QED
      BY <1>1, <2>5, <3>1, <3>2 DEF TookPage
  <2>7. ASSUME NEW x \in Mine'
        PROVE  /\ SaveCall(x) => page'.saving
               /\ x.kind = "change" =>
                    /\ page'.saved = 0
                    /\ IF x.stage = "sent" THEN changes < MaxChanges ELSE x.version <= changes
               /\ x.kind = "saved" /\ x.stage = "answered" =>
                    x.ok /\ (x.who = Nobody \/ x.version >= page'.saved)
    <3>1. CASE SaveCall(c)
      <4>1. page.saving
        BY <3>1 DEF Held, SavesFit
      <4>2. SaveCall(x) => x \in S /\ c.kind = "change" /\ a.ok /\ x.kind = "saved"
        BY <2>3, <3>1
      <4>3. QED
        BY <1>1, <1>5, <4>1, <4>2 DEF TookPage, SaveCall
    <3>2. CASE ~ SaveCall(c)
      <4>1. page'.saving = page.saving /\ page'.saved = page.saved
        BY <1>1, <3>2 DEF TookPage, SaveCall
      <4>2. SaveCall(x) => x \in Mine
        BY <1>5, <2>1, <3>2 DEF SaveCall
      <4>3. QED
        BY <4>1, <4>2 DEF Held, SavesFit, SaveCall
    <3>3. QED
      BY <3>1, <3>2
  <2>8. QED
    BY <1>3, <2>4, <2>6, <2>7 DEF SavesFit
<1>9. QED
  BY <1>6, <1>7, <1>8 DEF Held

\* A page is left: what is left of its calls, and those of mounting the next.
LeftCall(d) == \E c \in BagToSet(calls) : /\ c.stage = "sent" /\ c.kind \in {"logout", "token"}
                                         /\ d = [c EXCEPT !.gone = TRUE]

PageLeft ==
  /\ IsABag(calls')
  /\ \A d \in DOMAIN calls' : /\ d \in CallRecord /\ Fits(d)
                             /\ d.kind \notin {"login", "change", "saved"}
                             /\ \/ d = Load(jar) \/ d = Call("session", jar, 0, 0)
                                \/ d.gone /\ d.stage = "sent"
  /\ \E url \in Addresses : page' \in {NewPage(url), [NewPage(NoAddress) EXCEPT !.app = FALSE]}

LEMMA MountCalls ==
  IsABag(Mount) /\ DOMAIN Mount = {Load(jar), Call("session", jar, 0, 0)}
<1> DEFINE s == Call("session", jar, 0, 0)
           A == InBag(Load(jar))
           B == InBag(s)
<1>1. IsABag(A) /\ DOMAIN A = {Load(jar)} /\ IsABag(B) /\ DOMAIN B = {s}
  BY SetIsABag DEF InBag
<1>2. Mount = (A (+) A) (+) B
  BY DEF Mount
<1> HIDE DEF s, A, B
<1>3. IsABag(A (+) A) /\ DOMAIN (A (+) A) = {Load(jar)}
  BY <1>1, United
<1>4. IsABag(Mount) /\ DOMAIN Mount = {Load(jar), s}
  BY <1>1, <1>2, <1>3, United
<1>5. QED
  BY <1>4 DEF s

LEMMA PageIsLeft ==
  ASSUME Held, NEW url \in Addresses,
         \/ page' = NewPage(url) /\ calls' = Left (+) Mount
         \/ page' = [NewPage(NoAddress) EXCEPT !.app = FALSE] /\ calls' = Left
  PROVE  PageLeft
<1>1. IsABag(Left) /\ \A d \in DOMAIN Left : LeftCall(d)
  BY SetIsABag DEF Left, LeftCall
<1>2. IsABag(Mount) /\ DOMAIN Mount = {Load(jar), Call("session", jar, 0, 0)}
  BY MountCalls
<1>3. ASSUME NEW d, LeftCall(d)
      PROVE  d \in CallRecord /\ Fits(d) /\ d.gone /\ d.stage = "sent"
             /\ d.kind \notin {"login", "change", "saved"}
  <2>1. PICK c \in BagToSet(calls) : /\ c.stage = "sent" /\ c.kind \in {"logout", "token"}
                                     /\ d = [c EXCEPT !.gone = TRUE]
    BY <1>3 DEF LeftCall
  <2>2. c \in CallRecord /\ Fits(c)
    BY DEF Held, TypeOK, LoginsFit, BagToSet
  <2>3. d \in CallRecord /\ d.gone /\ d.stage = "sent" /\ d.kind = c.kind
        /\ d.login = c.login /\ d.code = c.code /\ d.ok = c.ok
    BY <2>1, <2>2 DEF CallRecord
  <2>4. QED
    BY <2>1, <2>2, <2>3 DEF Fits
<1>4. ASSUME NEW d, d = Load(jar) \/ d = Call("session", jar, 0, 0)
      PROVE  d \in CallRecord /\ Fits(d) /\ d.kind \notin {"login", "change", "saved"}
  <2>1. jar \in Numbers /\ 0 \in Numbers
    BY DEF Held, TypeOK, Numbers
  <2>2. d \in CallRecord
    BY <1>4, <2>1, CallType DEF Load, Kinds
  <2>3. QED
    BY <1>4, <2>2 DEF Load, Call, Fits
<1>5. IsABag(calls') /\ DOMAIN calls' \subseteq DOMAIN Left \cup DOMAIN Mount
  BY <1>1, <1>2, United
<1>6. page' \in {NewPage(url), [NewPage(NoAddress) EXCEPT !.app = FALSE]}
  OBVIOUS
<1>7. QED
  BY <1>1, <1>2, <1>3, <1>4, <1>5, <1>6 DEF PageLeft

\* The steps that take no answer and give none.
LEMMA StepCases ==
  ASSUME Held, [Next]_vars
  PROVE  \/ \E c \in BagToSet(calls) : Handle(c) /\ UNCHANGED <<browser, page, mixed, out>>
         \/ \E c, a : Returned(c, a)
         \/ \E n \in Logins, a \in Asked : StartLogin(n, a)
         \/ SignOut \/ Refresh \/ Save \/ Navigate
         \/ \E m \in {"admin", "tenant"} : SwitchMode(m)
         \/ \E url \in Addresses : Open(url)
         \/ \E n \in Logins, p \in People : OtherTab(n, p)
         \/ \E n \in Logins : SessionEnds(n) /\ UNCHANGED <<browser, page, mixed, out>>
         \/ UNCHANGED vars
<1>1. ASSUME NEW kinds, Answer(kinds)
      PROVE  \E c \in BagToSet(calls) : Handle(c) /\ UNCHANGED <<browser, page, mixed, out>>
  BY <1>1 DEF Answer
<1>2. ASSUME NEW kinds, Arrival(kinds)
      PROVE  \E c, a : Returned(c, a)
  BY <1>2 DEF Arrival, Arrive, Returned
<1>3. ASSUME NEW c, Lose(c)
      PROVE  Returned(c, Failed(c))
  BY <1>3 DEF Lose, Returned
<1>4. CASE Next
  <2>1. CASE Answer(Kinds)
    BY <1>1, <2>1
  <2>2. CASE Arrival(Kinds)
    BY <1>2, <2>2
  <2>3. CASE \E c \in BagToSet(calls) : Lose(c)
    BY <1>3, <2>3
  <2>4. QED
    BY <1>4, <2>1, <2>2, <2>3 DEF Next
<1>5. QED
  BY <1>4

\* A call e of the page is added to those under way.
LEMMA Sent ==
  ASSUME Held, NEW e, calls' = calls (+) InBag(e), e.stage = "sent", ~ e.gone
  PROVE  /\ Gains(calls, calls', {e})
         /\ \A x \in Mine' : x = e \/ (x \in Mine /\ x # e)
         /\ \A x \in DOMAIN calls' : x = e \/ (x \in DOMAIN calls /\ x # e)
         /\ \A x \in DOMAIN calls : x # e /\ calls[x] = 1 /\ x \in DOMAIN calls' => calls'[x] = 1
         /\ e \notin DOMAIN calls /\ e \in DOMAIN calls' => calls'[e] = 1
<1>1. Gains(calls, calls', {e})
  BY Joined DEF Held, TypeOK, InBag
<1>2. ASSUME NEW x \in DOMAIN calls, x # e, calls[x] = 1, x \in DOMAIN calls'
      PROVE  calls'[x] = 1
  <2>1. calls'[x] <= calls[x] /\ calls'[x] \in Nat /\ calls'[x] > 0
    BY <1>1, <1>2 DEF Gains, IsABag
  <2>2. QED
    BY <1>2, <2>1
<1>3. QED
  BY <1>1, <1>2 DEF Gains, Mine, BagToSet

\* Steps that leave the files of the api and the saving of the page alone.
LEMMA CallKeepsHeld ==
  ASSUME Held, NEW e \in CallRecord, calls' = calls (+) InBag(e),
         e.stage = "sent", ~ e.gone, ~ e.ok, e.version = 0,
         e.kind \in {"bootstrap", "profile", "logout"},
         UNCHANGED <<api, browser, page, mixed, out>>
  PROVE  Held'
<1>1. /\ IsABag(calls') /\ \A x \in DOMAIN calls' : x = e \/ (x \in DOMAIN calls /\ x # e)
      /\ \A x \in Mine' : x = e \/ (x \in Mine /\ x # e)
      /\ \A x \in DOMAIN calls : x # e /\ calls[x] = 1 /\ x \in DOMAIN calls' => calls'[x] = 1
  BY Sent DEF Gains
<1>2. /\ UNCHANGED <<asked, session, code, used, changes>>
      /\ UNCHANGED <<jar, intent, nav>> /\ UNCHANGED <<page, mixed, out>>
  BY DEF api, browser
<1>3. TypeOK'
  <2>1. DOMAIN calls' \subseteq CallRecord
    BY <1>1 DEF Held, TypeOK
  <2>2. QED
    BY <1>1, <1>2, <2>1 DEF Held, TypeOK
<1>4. LoginsFit'
  <2>1. 0 # -1
    OBVIOUS
  <2>2. QED
    BY <1>1, <1>2, <2>1 DEF Held, LoginsFit, BagToSet, Fits
<1>5. SavesFit'
  BY <1>1, <1>2 DEF Held, SavesFit, SaveCall, Mine, BagToSet
<1>6. QED
  BY <1>3, <1>4, <1>5 DEF Held

LEMMA SaveKeepsHeld ==
  ASSUME Held, Save
  PROVE  Held'
<1>1. PICK e : e = Call("change", jar, 0, 0)
  OBVIOUS
<1>2. /\ e \in CallRecord /\ e.kind = "change" /\ e.stage = "sent" /\ ~ e.gone /\ ~ e.ok
      /\ e.version # -1
  <2>1. jar \in Numbers /\ 0 \in Numbers
    BY DEF Held, TypeOK, Numbers
  <2>2. QED
    BY <1>1, <2>1, CallType DEF Call, Kinds
<1>3. /\ IsABag(calls') /\ \A x \in DOMAIN calls' : x = e \/ (x \in DOMAIN calls /\ x # e)
      /\ \A x \in Mine' : x = e \/ (x \in Mine /\ x # e)
      /\ \A x \in DOMAIN calls : x # e /\ calls[x] = 1 /\ x \in DOMAIN calls' => calls'[x] = 1
      /\ e \notin DOMAIN calls /\ e \in DOMAIN calls' => calls'[e] = 1
  BY <1>1, <1>2, Sent DEF Gains, Save
<1>4. /\ UNCHANGED <<asked, session, code, used, changes>>
      /\ UNCHANGED <<jar, intent, nav, mixed, out>>
  BY DEF Save, api, browser
<1>5. /\ page' \in PageRecord /\ page'.auth = page.auth /\ page'.saving /\ page'.saved = 0
      /\ ~ page.saving /\ changes < MaxChanges
  <2>1. page \in PageRecord /\ 0 \in 0..MaxChanges
    BY ParamsAssumption DEF Held, TypeOK
  <2>2. QED
    BY <2>1 DEF Save, PageRecord
<1>6. \A x \in Mine : ~ SaveCall(x)
  BY <1>5 DEF Held, SavesFit
<1>7. TypeOK'
  <2>1. DOMAIN calls' \subseteq CallRecord
    BY <1>2, <1>3 DEF Held, TypeOK
  <2>2. QED
    BY <1>3, <1>4, <1>5, <2>1 DEF Held, TypeOK
<1>8. LoginsFit'
  BY <1>2, <1>3, <1>4 DEF Held, LoginsFit, BagToSet, Fits
<1>9. SavesFit'
  <2>1. \A x \in Mine' : SaveCall(x) => x = e
    BY <1>3, <1>6
  <2>2. e \notin DOMAIN calls
    BY <1>2, <1>6 DEF Mine, BagToSet, SaveCall
  <2>3. 0 <= changes
    BY ParamsAssumption DEF Held, TypeOK
  <2>4. QED
    BY <1>2, <1>3, <1>4, <1>5, <2>1, <2>2, <2>3 DEF SavesFit, SaveCall, Mine, BagToSet
<1>10. QED
  BY <1>7, <1>8, <1>9 DEF Held

LEMMA StartKeepsHeld ==
  ASSUME Held, NEW n \in Logins, NEW a \in Asked, StartLogin(n, a)
  PROVE  Held'
<1>1. PICK e : e = Call("login", jar, n, 0)
  OBVIOUS
<1>2. /\ e \in CallRecord /\ e.kind = "login" /\ e.stage = "sent" /\ ~ e.gone /\ ~ e.ok
      /\ e.login = n /\ e.version # -1
  <2>1. jar \in Numbers /\ 0 \in Numbers /\ n \in Numbers
    BY DEF Held, TypeOK, Numbers
  <2>2. QED
    BY <1>1, <2>1, CallType DEF Call, Kinds
<1>3. /\ IsABag(calls') /\ \A x \in DOMAIN calls' : x = e \/ (x \in DOMAIN calls /\ x # e)
      /\ \A x \in Mine' : x = e \/ (x \in Mine /\ x # e)
      /\ \A x \in DOMAIN calls : x # e /\ calls[x] = 1 /\ x \in DOMAIN calls' => calls'[x] = 1
      /\ e \notin DOMAIN calls /\ e \in DOMAIN calls' => calls'[e] = 1
  BY <1>1, <1>2, Sent DEF Gains, StartLogin
<1>4. /\ UNCHANGED <<session, code, used, changes>> /\ UNCHANGED <<jar, intent, nav>>
      /\ asked' = [asked EXCEPT ![n] = a] /\ asked[n].who = Nobody
      /\ page' = [page EXCEPT !.busy = TRUE] /\ {mixed', out'} \subseteq BOOLEAN
  BY DEF StartLogin, browser, Held, TypeOK
<1>5. /\ page' \in PageRecord /\ page'.auth = page.auth /\ page'.saving = page.saving
      /\ page'.saved = page.saved
  BY <1>4 DEF Held, TypeOK, PageRecord
<1>6. /\ a.who \in People /\ a.who # Nobody
      /\ a \in [who : Somebody, mode : Modes \cup {"none"}]
  BY ParamsAssumption, NobodyAssumption DEF Somebody
<1>7. n # 0 /\ session[n] = "none" /\ \A x \in DOMAIN calls : x.kind = "login" => x.login # n
  BY <1>4, ParamsAssumption DEF Held, LoginsFit, BagToSet, Fits
<1>8. /\ asked' \in [Logins -> [who : Somebody, mode : Modes \cup {"none"}]]
      /\ asked'[n].who # Nobody /\ \A m \in Logins : m # n => asked'[m] = asked[m]
  BY <1>4, <1>6 DEF Held, TypeOK
<1>9. TypeOK'
  <2>1. DOMAIN calls' \subseteq CallRecord
    BY <1>2, <1>3 DEF Held, TypeOK
  <2>2. QED
    BY <1>3, <1>4, <1>5, <1>8, <2>1 DEF Held, TypeOK
<1>10. LoginsFit'
  <2>1. ASSUME NEW x \in DOMAIN calls
        PROVE  Fits(x)'
    <3>1. Fits(x) /\ (x.kind = "login" => x.login \in Logins /\ x.login # n)
      BY <1>7 DEF Held, TypeOK, LoginsFit, BagToSet, Fits, CallRecord, Numbers
    <3>2. QED
      BY <1>4, <1>8, <3>1 DEF Fits
  <2>2. Fits(e)'
    BY <1>2, <1>4, <1>7, <1>8 DEF Fits
  <2>3. \A x, y \in DOMAIN calls' : x.kind = "login" /\ y.kind = "login" /\ x.login = y.login
           => x = y /\ calls'[x] = 1
    BY <1>2, <1>3, <1>7 DEF Held, LoginsFit, BagToSet
  <2>4. \A m \in Logins : session'[m] # "none" => asked'[m].who # Nobody
    BY <1>4, <1>8 DEF Held, LoginsFit
  <2>5. QED
    BY <1>3, <2>1, <2>2, <2>3, <2>4 DEF LoginsFit, BagToSet
<1>11. SavesFit'
  BY <1>2, <1>3, <1>4, <1>5 DEF Held, SavesFit, SaveCall, Mine, BagToSet
<1>12. QED
  BY <1>9, <1>10, <1>11 DEF Held

\* What a new page of the console is.
LEMMA NewPageType ==
  ASSUME TypeOK, PageLeft
  PROVE  /\ page' \in PageRecord /\ page'.auth = NoAuth /\ page'.saving = FALSE
         /\ page'.saved = 0 /\ page'.bootstrap = Empty /\ page'.profile = Nobody
<1>1. PICK url \in Addresses : page' \in {NewPage(url), [NewPage(NoAddress) EXCEPT !.app = FALSE]}
  BY DEF PageLeft
<1>2. 0 \in 0..MaxChanges /\ 0 \in Numbers /\ NoAddress \in Addresses
  BY ParamsAssumption DEF Numbers, Addresses
<1>3. Empty \in [ready : BOOLEAN, who : Somebody, version : 0..MaxChanges]
  BY <1>2 DEF Empty, Somebody
<1>4. NoAuth \in [who : Somebody, mode : Modes \cup {"none"}, login : Numbers]
  BY <1>2 DEF NoAuth, Somebody
<1>5. \A u \in Addresses : NewPage(u) \in PageRecord
  BY <1>2, <1>3, <1>4 DEF NewPage, PageRecord, Modes, Somebody
<1>6. PICK shown : /\ shown = NewPage(url) \/ shown = NewPage(NoAddress)
                   /\ page' \in {shown, [shown EXCEPT !.app = FALSE]}
  BY <1>1
<1>7. /\ shown \in PageRecord /\ shown.auth = NoAuth /\ shown.saving = FALSE
      /\ shown.saved = 0 /\ shown.bootstrap = Empty /\ shown.profile = Nobody
  BY <1>2, <1>5, <1>6 DEF NewPage
<1>8. QED
  BY <1>6, <1>7 DEF PageRecord

LEMMA LeavingKeepsHeld ==
  ASSUME Held, PageLeft, UNCHANGED <<asked, session, used, changes, jar, intent, mixed, out>>,
         nav' = 0,
         code' = code \/ (/\ nav # 0 /\ Person(jar) # Nobody
                          /\ code' = [code EXCEPT ![nav] = jar])
  PROVE  Held'
<1>1. /\ page' \in PageRecord /\ page'.auth = NoAuth /\ page'.saving = FALSE
      /\ page'.saved = 0
  BY NewPageType DEF Held
<1>2. /\ code' \in [Logins -> Numbers]
      /\ \A n \in Logins : code'[n] # 0 => session[code'[n]] # "none"
  <2>1. /\ code \in [Logins -> Numbers] /\ jar \in Numbers /\ nav \in Numbers
        /\ \A n \in Logins : code[n] # 0 => session[code[n]] # "none"
    BY DEF Held, TypeOK
  <2>2. nav # 0 => nav \in Logins
    BY <2>1 DEF Numbers
  <2>3. Person(jar) # Nobody => session[jar] # "none"
    BY DEF Person
  <2>4. QED
    BY <2>1, <2>2, <2>3
<1>3. TypeOK'
  <2>1. DOMAIN calls' \subseteq CallRecord /\ IsABag(calls')
    BY DEF PageLeft
  <2>2. 0 \in Numbers /\ NoAuth.who = Nobody
    BY DEF Numbers, NoAuth
  <2>3. QED
    BY <1>1, <1>2, <2>1, <2>2 DEF Held, TypeOK
<1>4. LoginsFit'
  <2>1. ASSUME NEW x \in DOMAIN calls'
        PROVE  Fits(x)'
    <3>1. Fits(x) /\ x.kind \notin {"login", "userinfo"} /\ ~ x.ok
      BY DEF PageLeft, Fits, Load, Call
    <3>2. QED
      BY <3>1 DEF Fits
  <2>2. QED
    BY <2>1 DEF Held, LoginsFit, BagToSet, PageLeft
<1>5. SavesFit'
  <2>1. \A x \in Mine' : ~ SaveCall(x) /\ x.kind # "change" /\ x.kind # "saved"
    BY DEF PageLeft, Mine, BagToSet, SaveCall
  <2>2. 0 <= changes
    BY ParamsAssumption DEF Held, TypeOK
  <2>3. QED
    BY <1>1, <2>1, <2>2 DEF SavesFit
<1>6. QED
  BY <1>3, <1>4, <1>5 DEF Held

LEMMA ShownLeft ==
  ASSUME Held, NEW url \in Addresses, Open(url) \/ Navigate
  PROVE  /\ PageLeft
         /\ UNCHANGED <<asked, session, used, changes, jar, intent, mixed, out>> /\ nav' = 0
         /\ code' = code \/ (/\ nav # 0 /\ Person(jar) # Nobody
                             /\ code' = [code EXCEPT ![nav] = jar])
<1>1. CASE Open(url)
  BY <1>1, PageIsLeft DEF Open, Shows, api
<1>2. CASE Navigate
  <2>1. NoAddress \in Addresses /\ (nav # 0 => [code |-> nav, state |-> nav] \in Addresses)
    BY DEF Held, TypeOK, Numbers, Addresses
  <2>2. \/ /\ nav # 0 /\ page' = NewPage([code |-> nav, state |-> nav])
           /\ calls' = Left (+) Mount
        \/ page' = [NewPage(NoAddress) EXCEPT !.app = FALSE] /\ calls' = Left
    BY <1>2 DEF Navigate, Shows
  <2>3. PageLeft
    BY <2>1, <2>2, PageIsLeft
  <2>4. QED
    BY <1>2, <2>3 DEF Navigate
<1>3. QED
  BY <1>1, <1>2

LEMMA TabKeepsHeld ==
  ASSUME Held, NEW n \in Logins, NEW p \in People, OtherTab(n, p)
  PROVE  Held'
<1>1. /\ asked' = [asked EXCEPT ![n] = [who |-> p, mode |-> "none"]] /\ asked[n].who = Nobody
      /\ session' = [session EXCEPT ![n] = "live"] /\ jar' = n
      /\ mixed' = TRUE /\ out' = FALSE
      /\ UNCHANGED <<code, used, changes, calls, intent, nav, page>>
  BY DEF OtherTab
<1>2. /\ asked' \in [Logins -> [who : Somebody, mode : Modes \cup {"none"}]]
      /\ asked'[n].who # Nobody /\ \A m \in Logins : m # n => asked'[m] = asked[m]
      /\ session' \in [Logins -> {"none", "live", "ended"}]
      /\ session'[n] = "live" /\ \A m \in Logins : m # n => session'[m] = session[m]
      /\ n \in Numbers
  BY <1>1, NobodyAssumption DEF Held, TypeOK, Somebody, Numbers
<1>3. TypeOK'
  <2>1. \A m \in Logins : code[m] # 0 => session'[code[m]] # "none"
    BY <1>2 DEF Held, TypeOK, Numbers
  <2>2. {jar', intent', nav'} \subseteq Numbers /\ session'[jar'] # "none"
    BY <1>1, <1>2 DEF Held, TypeOK
  <2>3. {mixed', out'} \subseteq BOOLEAN
    BY <1>1
  <2>4. QED
    BY <1>1, <1>2, <2>1, <2>2, <2>3 DEF Held, TypeOK
<1>4. LoginsFit'
  <2>1. ASSUME NEW x \in DOMAIN calls
        PROVE  Fits(x)'
    <3>1. Fits(x) /\ (x.kind = "login" => x.login \in Logins /\ x.login # n)
      BY <1>1 DEF Held, TypeOK, LoginsFit, BagToSet, Fits, CallRecord, Numbers
    <3>2. code' = code
      BY <1>1
    <3>3. QED
      BY <1>2, <3>1, <3>2 DEF Fits
  <2>2. QED
    BY <1>1, <1>2, <2>1 DEF Held, LoginsFit, BagToSet
<1>5. SavesFit'
  BY <1>1 DEF Held, SavesFit, SaveCall, Mine, BagToSet
<1>6. QED
  BY <1>3, <1>4, <1>5 DEF Held

LEMMA EndKeepsHeld ==
  ASSUME Held, NEW n \in Logins, SessionEnds(n), UNCHANGED <<browser, page, mixed, out>>
  PROVE  Held'
<1>1. /\ session' = [session EXCEPT ![n] = "ended"] /\ session[n] = "live"
      /\ UNCHANGED <<asked, code, used, changes, calls, jar, intent, nav>>
      /\ UNCHANGED <<page, mixed, out>>
  BY DEF SessionEnds, browser
<1>2. /\ session' \in [Logins -> {"none", "live", "ended"}]
      /\ \A m \in Logins : (session'[m] = "none") = (session[m] = "none")
  BY <1>1 DEF Held, TypeOK
<1>3. TypeOK'
  <2>1. \A m \in Numbers : m # 0 => m \in Logins
    BY DEF Numbers
  <2>2. /\ jar # 0 => session'[jar] # "none"
        /\ \A m \in Logins : code[m] # 0 => session'[code[m]] # "none"
    BY <1>2, <2>1 DEF Held, TypeOK
  <2>3. QED
    BY <1>1, <1>2, <2>2 DEF Held, TypeOK
<1>4. LoginsFit'
  <2>1. ASSUME NEW x \in DOMAIN calls
        PROVE  Fits(x)'
    <3>1. Fits(x) /\ (x.kind = "login" => x.login \in Logins)
      BY DEF Held, TypeOK, LoginsFit, BagToSet, Fits, CallRecord, Numbers
    <3>2. QED
      BY <1>1, <1>2, <3>1 DEF Fits
  <2>2. QED
    BY <1>1, <1>2, <2>1 DEF Held, LoginsFit, BagToSet
<1>5. SavesFit'
  BY <1>1 DEF Held, SavesFit, SaveCall, Mine, BagToSet
<1>6. QED
  BY <1>3, <1>4, <1>5 DEF Held

LEMMA HeldKept == Held /\ [Next]_vars => Held'
<1> SUFFICES ASSUME Held, [Next]_vars
             PROVE  Held'
  OBVIOUS
<1>1. CASE \E c \in BagToSet(calls) : Handle(c) /\ UNCHANGED <<browser, page, mixed, out>>
  BY <1>1, AnswerKeepsHeld
<1>2. CASE \E c, a : Returned(c, a)
  BY <1>2, TakeKeepsHeld
<1>3. CASE \E n \in Logins, a \in Asked : StartLogin(n, a)
  BY <1>3, StartKeepsHeld
<1>4. CASE SignOut \/ Refresh
  <2>1. PICK kind \in {"bootstrap", "profile", "logout"} :
          /\ calls' = calls (+) InBag(Call(kind, jar, 0, 0))
          /\ UNCHANGED <<api, browser, page, mixed, out>>
    BY <1>4 DEF SignOut, Refresh
  <2>2. PICK e : e = Call(kind, jar, 0, 0)
    OBVIOUS
  <2>3. /\ e \in CallRecord /\ e.kind = kind /\ e.stage = "sent" /\ ~ e.gone /\ ~ e.ok
        /\ e.version = 0
    <3>1. jar \in Numbers /\ 0 \in Numbers /\ kind \in Kinds
      BY DEF Held, TypeOK, Numbers, Kinds
    <3>2. QED
      BY <2>2, <3>1, CallType DEF Call
  <2>4. QED
    BY <2>1, <2>2, <2>3, CallKeepsHeld
<1>5. CASE Save
  BY <1>5, SaveKeepsHeld
<1>6. CASE Navigate \/ \E url \in Addresses : Open(url)
  <2>1. NoAddress \in Addresses
    BY DEF Addresses
  <2>2. QED
    BY <1>6, <2>1, ShownLeft, LeavingKeepsHeld
<1>7. CASE \E m \in {"admin", "tenant"} : SwitchMode(m)
  <2>1. PICK m \in {"admin", "tenant"} : SwitchMode(m)
    BY <1>7
  <2>2. /\ UNCHANGED <<asked, session, code, used, changes>> /\ UNCHANGED calls
        /\ UNCHANGED <<jar, intent, nav>> /\ UNCHANGED <<mixed, out>>
        /\ page' \in PageRecord /\ page'.auth = page.auth /\ page'.saving = page.saving
        /\ page'.saved = page.saved
    BY <2>1 DEF SwitchMode, api, browser, Held, TypeOK, PageRecord, Modes
  <2>3. TypeOK'
    BY <2>2 DEF Held, TypeOK
  <2>4. LoginsFit'
    BY <2>2 DEF Held, LoginsFit, Fits
  <2>5. SavesFit'
    BY <2>2 DEF Held, SavesFit, SaveCall, Mine
  <2>6. QED
    BY <2>3, <2>4, <2>5 DEF Held
<1>8. CASE \E n \in Logins, p \in People : OtherTab(n, p)
  BY <1>8, TabKeepsHeld
<1>9. CASE \E n \in Logins : SessionEnds(n) /\ UNCHANGED <<browser, page, mixed, out>>
  BY <1>9, EndKeepsHeld
<1>10. CASE UNCHANGED vars
  <2>1. /\ UNCHANGED <<asked, session, code, used, changes>> /\ UNCHANGED calls
        /\ UNCHANGED <<jar, intent, nav>> /\ UNCHANGED <<page, mixed, out>>
    BY <1>10 DEF vars, api, browser
  <2>2. TypeOK'
    BY <2>1 DEF Held, TypeOK
  <2>3. LoginsFit'
    BY <2>1 DEF Held, LoginsFit, Fits
  <2>4. SavesFit'
    BY <2>1 DEF Held, SavesFit, SaveCall, Mine
  <2>5. QED
    BY <2>2, <2>3, <2>4 DEF Held
<1>11. QED
  BY <1>1, <1>2, <1>3, <1>4, <1>5, <1>6, <1>7, <1>8, <1>9, <1>10, StepCases

LEMMA HeldInit == Init => Held
<1> SUFFICES ASSUME Init PROVE Held
  OBVIOUS
<1>1. PICK p \in Somebody :
        asked = [n \in Logins |-> [who |-> IF n = 1 THEN p ELSE Nobody, mode |-> "none"]]
  BY DEF Init, Somebody
<1>2. /\ 1 \in Logins /\ 0 \notin Logins /\ 0 \in Numbers /\ 1 \in Numbers
      /\ 0 \in 0..MaxChanges /\ Nobody \in Somebody
  BY ParamsAssumption DEF Numbers, Somebody
<1>3. /\ jar = (IF asked[1].who = Nobody THEN 0 ELSE 1)
      /\ session = [n \in Logins |-> IF n = jar THEN "live" ELSE "none"]
      /\ code = [n \in Logins |-> 0] /\ used = {} /\ changes = 0
      /\ intent = 0 /\ nav = 0 /\ page = NewPage(NoAddress) /\ calls = Mount
      /\ mixed = FALSE /\ out = FALSE
  BY DEF Init
<1>4. IsABag(calls) /\ DOMAIN calls = {Load(jar), Call("session", jar, 0, 0)}
  BY <1>3, MountCalls
<1>5. jar \in {0, 1}
  BY <1>3
<1>6. ASSUME NEW d \in DOMAIN calls
      PROVE  d \in CallRecord /\ Fits(d) /\ ~ SaveCall(d) /\ d.kind \notin {"login", "change", "saved"}
  <2>1. d \in CallRecord
    BY <1>2, <1>4, <1>5, CallType DEF Load, Kinds
  <2>2. QED
    BY <1>4, <2>1 DEF Load, Call, Fits, SaveCall
<1>7. page \in PageRecord /\ page.auth = NoAuth /\ page.saved = 0
  <2>1. Empty \in [ready : BOOLEAN, who : Somebody, version : 0..MaxChanges]
    BY <1>2 DEF Empty
  <2>2. NoAuth \in [who : Somebody, mode : Modes \cup {"none"}, login : Numbers]
    BY <1>2 DEF NoAuth
  <2>3. QED
    BY <1>2, <1>3, <2>1, <2>2 DEF NewPage, PageRecord, Addresses, Modes
<1>8. TypeOK
  <2>1. asked \in [Logins -> [who : Somebody, mode : Modes \cup {"none"}]]
    BY <1>1, <1>2
  <2>2. session \in [Logins -> {"none", "live", "ended"}] /\ code \in [Logins -> Numbers]
    BY <1>2, <1>3
  <2>3. jar # 0 => session[jar] # "none"
    BY <1>2, <1>3, <1>5
  <2>4. \A n \in Logins : code[n] = 0
    BY <1>3
  <2>5. NoAuth.who = Nobody
    BY DEF NoAuth
  <2>6. QED
    BY <1>2, <1>3, <1>4, <1>5, <1>6, <1>7, <2>1, <2>2, <2>3, <2>4, <2>5 DEF TypeOK
<1>9. LoginsFit
  <2>1. \A n \in Logins : session[n] # "none" => asked[n].who # Nobody
    BY <1>2, <1>3
  <2>2. QED
    BY <1>6, <2>1 DEF LoginsFit, BagToSet
<1>10. SavesFit
  BY <1>2, <1>3, <1>6, <1>7 DEF SavesFit, Mine, BagToSet
<1>11. QED
  BY <1>8, <1>9, <1>10 DEF Held

LEMMA HeldAlways == Spec => []Held
BY HeldInit, HeldKept, PTL DEF Spec

\* Whatever is answered, lost or done in whatever order, every variable has
\* its type; the page is signed in only as somebody, and a cookie or a code
\* is of a session there has been.
THEOREM TypeCorrect == Spec => []TypeOK
<1>1. Held => TypeOK
  BY DEF Held
<1>2. QED
  BY <1>1, HeldAlways, PTL

(***************************************************************************)
(* The steps, by what they do to the page and to its calls.                *)
(***************************************************************************)

\* Who the page shows stays, and what it has been sent.
PageKept ==
  /\ page'.auth = page.auth /\ page'.bootstrap = page.bootstrap
  /\ page'.profile = page.profile /\ page'.processed = page.processed
  /\ page'.mode = page.mode \/ (page.mode # "user" /\ page'.mode # "user")
  /\ page.saving => page'.saving

\* Call e of the page is sent, with the cookie of the moment.
Sends(e) ==
  /\ calls' = calls (+) InBag(e) /\ e \in CallRecord
  /\ e.stage = "sent" /\ ~ e.gone /\ ~ e.ok /\ e.cookie = jar
  /\ e.kind \in {"login", "bootstrap", "profile", "logout", "change"}
  /\ UNCHANGED <<session, code>> /\ UNCHANGED <<jar, intent, nav>> /\ PageKept
  /\ IF e.kind = "login"
       THEN /\ e.login # 0 /\ asked[e.login].who = Nobody /\ asked'[e.login].who # Nobody
            /\ \A n \in Logins \ {e.login} : asked'[n] = asked[n]
            /\ page.auth = NoAuth /\ page.app /\ ~ out'
            /\ ~ mixed' => /\ ~ mixed /\ nav = 0
                           /\ \A c \in Mine : c.kind # "login"
       ELSE UNCHANGED <<asked, mixed, out>>
  /\ e.kind = "logout" => /\ page.auth # NoAuth
                          /\ \A c \in Mine : c.kind # "logout"

\* No call is sent, handled or taken.
Idle ==
  /\ UNCHANGED <<asked, code, calls>> /\ UNCHANGED <<jar, intent, nav, mixed, out>> /\ PageKept
  /\ session' = session \/ \E n \in Logins : session' = [session EXCEPT ![n] = "ended"]

LEMMA Started ==
  ASSUME Held, NEW n \in Logins, NEW a \in Asked, StartLogin(n, a)
  PROVE  \E e : Sends(e)
<1>1. PICK e : e = Call("login", jar, n, 0)
  OBVIOUS
<1>2. e \in CallRecord
  <2>1. jar \in Numbers /\ n \in Numbers /\ 0 \in Numbers
    BY DEF Held, TypeOK, Numbers
  <2>2. QED
    BY <1>1, <2>1, CallType DEF Kinds
<1>3. /\ e.kind = "login" /\ e.login = n /\ e.cookie = jar /\ e.stage = "sent" /\ ~ e.gone /\ ~ e.ok
  BY <1>1 DEF Call
<1>4. n # 0 /\ a.who # Nobody
  BY ParamsAssumption, NobodyAssumption
<1>5. PageKept
  BY DEF StartLogin, PageKept, Held, TypeOK, PageRecord
<1>6. /\ asked[n].who = Nobody /\ asked'[n].who # Nobody
      /\ \A m \in Logins \ {n} : asked'[m] = asked[m]
  BY <1>4 DEF StartLogin, Held, TypeOK
<1>7. page.auth = NoAuth /\ page.app /\ ~ out'
  BY DEF StartLogin, LoginShown
<1>8. ~ mixed' => ~ mixed /\ nav = 0 /\ \A c \in Mine : c.kind # "login"
  <2>1. mixed' = (mixed \/ nav # 0 \/ \E s \in {"sent", "answered"} : Own("login", s) # {})
    BY DEF StartLogin
  <2>2. \A c \in Mine : c.kind = "login" => c \in Own("login", c.stage) /\ c.stage \in {"sent", "answered"}
    BY DEF Mine, Own, Held, TypeOK, CallRecord, BagToSet
  <2>3. QED
    BY <2>1, <2>2
<1>9. QED
  BY <1>1, <1>2, <1>3, <1>4, <1>5, <1>6, <1>7, <1>8 DEF Sends, StartLogin, browser

LEMMA Steps ==
  ASSUME Held, [Next]_vars
  PROVE  \/ \E c \in BagToSet(calls) : Handle(c) /\ UNCHANGED <<browser, page, mixed, out>>
         \/ \E c, a : Returned(c, a)
         \/ \E e : Sends(e)
         \/ \E url \in Addresses : Open(url) \/ Navigate
         \/ \E n \in Logins, p \in People : OtherTab(n, p)
         \/ Idle
<1>1. CASE \E n \in Logins, a \in Asked : StartLogin(n, a)
  BY <1>1, Started
<1>2. ASSUME NEW kind \in {"bootstrap", "profile", "logout", "change"},
             calls' = calls (+) InBag(Call(kind, jar, 0, 0)), PageKept,
             UNCHANGED <<api, browser, mixed, out>>,
             kind = "logout" => page.auth # NoAuth /\ \A c \in Mine : c.kind # "logout"
      PROVE  \E e : Sends(e)
  <2>1. PICK e : e = Call(kind, jar, 0, 0)
    OBVIOUS
  <2>2. e \in CallRecord
    <3>1. jar \in Numbers /\ 0 \in Numbers /\ kind \in Kinds
      BY DEF Held, TypeOK, Numbers, Kinds
    <3>2. QED
      BY <2>1, <3>1, CallType
  <2>3. QED
    BY <1>2, <2>1, <2>2 DEF Sends, Call, api, browser
<1>3. UNCHANGED page => PageKept
  BY DEF PageKept
<1>4. CASE SignOut
  <2>1. \A c \in Mine : c.kind # "logout"
    <3>1. \A c \in Mine : c.kind = "logout" => c \in Own("logout", "sent") \cup Own("logout", "answered")
      BY DEF Mine, Own, Held, TypeOK, CallRecord, BagToSet
    <3>2. QED
      BY <1>4, <3>1 DEF SignOut
  <2>2. page.auth # NoAuth
    BY <1>4 DEF SignOut, ConsoleShown, PortalShown
  <2>3. QED
    BY <1>2, <1>3, <1>4, <2>1, <2>2 DEF SignOut
<1>5. CASE Refresh
  <2>1. PICK kind \in {"bootstrap", "profile"} : calls' = calls (+) InBag(Call(kind, jar, 0, 0))
    BY <1>5 DEF Refresh
  <2>2. UNCHANGED <<api, browser, page, mixed, out>>
    BY <1>5 DEF Refresh
  <2>3. QED
    BY <1>2, <1>3, <2>1, <2>2
<1>6. CASE Save
  <2>1. PageKept
    BY <1>6 DEF Save, PageKept, Held, TypeOK, PageRecord
  <2>2. QED
    BY <1>2, <1>6, <2>1 DEF Save
<1>7. CASE Navigate
  BY <1>7 DEF Addresses
<1>8. CASE \E m \in {"admin", "tenant"} : SwitchMode(m)
  <2>1. PICK m \in {"admin", "tenant"} : SwitchMode(m)
    BY <1>8
  <2>2. PageKept
    BY <2>1 DEF SwitchMode, PageKept, ConsoleShown, Held, TypeOK, PageRecord
  <2>3. QED
    BY <2>1, <2>2 DEF Idle, SwitchMode, api, browser
<1>9. CASE \E n \in Logins : SessionEnds(n) /\ UNCHANGED <<browser, page, mixed, out>>
  BY <1>3, <1>9 DEF Idle, SessionEnds, browser
<1>10. CASE UNCHANGED vars
  BY <1>3, <1>10 DEF Idle, vars, api, browser
<1>11. QED
  BY <1>1, <1>4, <1>5, <1>6, <1>7, <1>8, <1>9, <1>10, StepCases

(***************************************************************************)
(* The screen fits the person.                                             *)
(***************************************************************************)

LEMMA ScreenKept == Held /\ ScreenFitsPerson /\ [Next]_vars => ScreenFitsPerson'
<1> SUFFICES ASSUME Held, ScreenFitsPerson, [Next]_vars
             PROVE  ScreenFitsPerson'
  OBVIOUS
<1>1. CASE page' = page
  BY <1>1 DEF ScreenFitsPerson
<1>2. CASE PageKept
  BY <1>2 DEF ScreenFitsPerson, PageKept
<1>3. ASSUME NEW c, NEW a, Returned(c, a)
      PROVE  ScreenFitsPerson'
  <2>1. TookPage(c, a)
    BY <1>3, Taken
  <2>2. QED
    BY <2>1 DEF TookPage, ScreenFitsPerson
<1>4. ASSUME NEW url \in Addresses, Open(url) \/ Navigate
      PROVE  ScreenFitsPerson'
  <2>1. page'.auth = NoAuth
    BY <1>4, ShownLeft, NewPageType DEF Held
  <2>2. QED
    BY <2>1 DEF ScreenFitsPerson
<1>5. QED
  BY <1>1, <1>2, <1>3, <1>4, Steps DEF Sends, Idle, OtherTab

\* In every reachable state the console, with the admin's sections, is shown
\* only to people with an admin role and everybody else gets the portal,
\* though mode and auth are set by different handlers and in any order.
THEOREM ScreenFits == Spec => []ScreenFitsPerson
<1>1. Init => ScreenFitsPerson
  BY DEF Init, NewPage, ScreenFitsPerson
<1>2. QED
  BY <1>1, ScreenKept, HeldAlways, PTL DEF Spec

(***************************************************************************)
(* A code signs in the person it is of.                                    *)
(***************************************************************************)

\* c is one of the two calls in which the page exchanges a code.
Exchange(c) == ~ c.gone /\ c.kind \in {"token", "userinfo"}

\* While an exchange is under way, the page knows that it has begun it.
OneExchange ==
  /\ \A c, d \in Exchanges : c = d /\ calls[c] = 1
  /\ Exchanges # {} => page.processed

\* Where call c is taken away and those of S are added, at most one of them
\* an exchange, there is at most one afterwards.
LEMMA ExchangeMoves ==
  ASSUME Held, OneExchange, NEW c, NEW S, NEW e,
         Gains(calls, calls', S), Spends(calls, calls', c, S), c \in BagToSet(calls),
         \A d \in S : Exchange(d) => d = e,
         \/ \A d \in S : ~ Exchange(d)
         \/ Exchanges = {}
         \/ Exchange(c) /\ e # c
  PROVE  \A x, y \in Exchanges' : x = y /\ calls'[x] = 1
<1> IsABag(calls) /\ IsABag(calls')
  BY DEF Held, TypeOK, Gains
<1>1. /\ \A x \in Exchanges : x \in DOMAIN calls /\ Exchange(x)
      /\ \A x \in DOMAIN calls : Exchange(x) => x \in Exchanges
      /\ \A x \in Exchanges' : x \in DOMAIN calls' /\ Exchange(x)
  BY DEF Exchanges, Exchange, BagToSet
<1>2. \A x \in DOMAIN calls' : x \in DOMAIN calls \/ x \in S
  BY DEF Gains
<1>3. CASE \A d \in S : ~ Exchange(d)
  <2>1. \A x \in Exchanges' : x \in Exchanges /\ x \notin S
    BY <1>1, <1>2, <1>3
  <2>2. \A x \in Exchanges' : calls'[x] <= calls[x] /\ calls'[x] \in Nat /\ calls'[x] > 0
    BY <1>1, <2>1 DEF Gains, IsABag
  <2>3. QED
    BY <2>1, <2>2 DEF OneExchange
<1>4. ASSUME e \notin DOMAIN calls, \A x \in Exchanges' : x \in S
      PROVE  \A x, y \in Exchanges' : x = y /\ calls'[x] = 1
  BY <1>1, <1>4 DEF Gains
<1>5. CASE Exchanges = {}
  BY <1>1, <1>2, <1>3, <1>4, <1>5
<1>6. CASE Exchange(c) /\ e # c
  <2>1. c \in Exchanges /\ calls[c] = 1 /\ \A x \in Exchanges : x = c
    BY <1>1, <1>6 DEF OneExchange, BagToSet
  <2>2. c \notin S /\ c \notin DOMAIN calls'
    BY <1>6, <2>1 DEF Spends
  <2>3. \A x \in Exchanges' : x \in S
    BY <1>1, <1>2, <2>1, <2>2
  <2>4. CASE e \in DOMAIN calls
    BY <1>1, <1>3, <1>6, <2>1, <2>4
  <2>5. QED
    BY <1>4, <2>3, <2>4
<1>7. QED
  BY <1>3, <1>5, <1>6

LEMMA OneExchangeKept == Held /\ OneExchange /\ [Next]_vars => OneExchange'
<1> SUFFICES ASSUME Held, OneExchange, [Next]_vars
             PROVE  OneExchange'
  OBVIOUS
<1> IsABag(calls)
  BY DEF Held, TypeOK
<1>1. ASSUME NEW c \in BagToSet(calls), Handle(c), UNCHANGED <<browser, page, mixed, out>>
      PROVE  OneExchange'
  <2>1. PICK d : Handled(c, d)
    BY <1>1, Answered
  <2>2. /\ d.stage = "answered" /\ d.kind = c.kind /\ d.gone = c.gone /\ d # c
    BY <1>1, <2>1 DEF Handled, AnswerTo, Held, TypeOK, CallRecord, BagToSet, Handle
  <2>3. PICK S : /\ S = IF c.gone THEN {} ELSE {d}
                 /\ Gains(calls, calls', S) /\ Spends(calls, calls', c, S)
    BY <2>1 DEF Handled
  <2>4. /\ \A x \in S : Exchange(x) => x = d
        /\ (\A x \in S : ~ Exchange(x)) \/ Exchange(c)
    BY <2>2, <2>3 DEF Exchange
  <2>5. \A x, y \in Exchanges' : x = y /\ calls'[x] = 1
    BY <1>1, <2>2, <2>3, <2>4, ExchangeMoves
  <2>6. Exchanges' # {} => Exchanges # {}
    BY <1>1, <2>2, <2>3 DEF Exchanges, BagToSet, Gains
  <2>7. QED
    BY <1>1, <2>5, <2>6 DEF OneExchange
<1>2. ASSUME NEW c, NEW a, Returned(c, a)
      PROVE  OneExchange'
  <2>1. PICK S : /\ Gains(calls, calls', S) /\ Spends(calls, calls', c, S)
                 /\ \A d \in S : Made(d, c, a)
    BY <1>2, Taken DEF TookCalls
  <2>2. /\ page.processed => page'.processed
        /\ c \in BagToSet(calls) /\ ~ c.gone
    BY <1>2, Taken, ReturnedType DEF TookPage, Held, LoginsFit, Fits, Returned
  <2>3. c.kind = "token" => c \in Exchanges /\ page.processed
    BY <2>2 DEF Exchanges, OneExchange
  <2>4. PICK t : t = Call("token", 0, intent, page.url.code)
    OBVIOUS
  <2>5. PICK u : u = Call("userinfo", 0, c.login, c.code)
    OBVIOUS
  <2>6. \A d \in S : Exchange(d) => \/ d = t /\ ~ page.processed /\ page'.processed
                                    \/ d = u /\ c.kind = "token"
    BY <2>1, <2>4, <2>5 DEF Made, Exchange, Call, Load
  <2>7. CASE c.kind = "token"
    <3>1. /\ u # c /\ Exchange(c)
          /\ \A d \in S : Exchange(d) => d = u
      BY <2>2, <2>3, <2>5, <2>6, <2>7 DEF Call, Exchange
    <3>2. \A x, y \in Exchanges' : x = y /\ calls'[x] = 1
      BY <2>1, <2>2, <3>1, ExchangeMoves
    <3>3. QED
      BY <2>2, <2>3, <2>7, <3>2 DEF OneExchange
  <2>8. CASE c.kind # "token"
    <3>1. /\ \A d \in S : Exchange(d) => d = t
          /\ (\A d \in S : ~ Exchange(d)) \/ Exchanges = {}
      BY <2>6, <2>8 DEF OneExchange
    <3>2. \A x, y \in Exchanges' : x = y /\ calls'[x] = 1
      BY <2>1, <2>2, <3>1, ExchangeMoves
    <3>3. Exchanges' # {} => page'.processed
      <4>1. ASSUME NEW x \in Exchanges'
            PROVE  page'.processed
        <5>1. Exchange(x) /\ (x \in S \/ x \in Exchanges)
          BY <2>1, <4>1 DEF Exchanges, Exchange, BagToSet, Gains
        <5>2. QED
          BY <2>2, <2>6, <2>8, <5>1 DEF OneExchange
      <4>2. QED
        BY <4>1
    <3>4. QED
      BY <3>2, <3>3 DEF OneExchange
  <2>9. QED
    BY <2>7, <2>8
<1>3. ASSUME NEW e, Sends(e)
      PROVE  OneExchange'
  <2>1. Gains(calls, calls', {e}) /\ ~ Exchange(e)
    BY <1>3, Joined DEF Sends, InBag, Exchange
  <2>2. \A x \in Exchanges' : /\ x \in Exchanges /\ calls'[x] <= calls[x]
                              /\ calls'[x] \in Nat /\ calls'[x] > 0
    BY <2>1 DEF Exchanges, Exchange, BagToSet, Gains, IsABag
  <2>3. page'.processed = page.processed
    BY <1>3 DEF Sends, PageKept
  <2>4. QED
    BY <2>2, <2>3 DEF OneExchange
<1>4. ASSUME NEW url \in Addresses, Open(url) \/ Navigate
      PROVE  OneExchange'
  <2>1. PageLeft
    BY <1>4, ShownLeft
  <2>2. Exchanges' = {}
    BY <2>1 DEF PageLeft, Exchanges, BagToSet, Load, Call
  <2>3. QED
    BY <2>2 DEF OneExchange
<1>5. CASE calls' = calls /\ page'.processed = page.processed
  BY <1>5 DEF OneExchange, Exchanges
<1>6. QED
  BY <1>1, <1>2, <1>3, <1>4, <1>5, Steps DEF Idle, PageKept, OtherTab

\* The address that will bring the code of sign-in n is yet to come.
Expected(n) == nav = n \/ \E c \in BagToSet(calls) : c.kind = "login" /\ c.login = n

\* A sign-in gets one code, since its address is loaded once; what UserInfo
\* answers, and the person then shown, is of the session that code is for.
CodesFit ==
  /\ \A n \in Logins : code[n] # 0 => asked[n].who # Nobody /\ ~ Expected(n)
  /\ nav # 0 => /\ asked[nav].who # Nobody
                /\ \A c \in BagToSet(calls) : c.kind = "login" => c.login # nav
  /\ \A c \in BagToSet(calls) : c.kind = "userinfo" /\ c.ok => c.who = asked[code[c.code]].who
  /\ page.auth.login # 0 => /\ code[page.auth.login] # 0
                            /\ page.auth.who = asked[code[page.auth.login]].who

\* Sign-in n begins: it has no code, and no code is for a session of it.
LEMMA CodesOfOthers ==
  ASSUME Held, CodesFit, NEW n \in Logins, asked[n].who = Nobody, code' = code, nav' = nav,
         page'.auth = page.auth, \A m \in Logins \ {n} : asked'[m] = asked[m],
         NEW e, \A x \in BagToSet(calls') : x \in BagToSet(calls) \/ x = e,
         e.kind = "login" => e.login = n, e.kind = "userinfo" => ~ e.ok
  PROVE  CodesFit'
<1>1. /\ code[n] = 0 /\ nav # n
      /\ \A m \in Logins : code[m] # 0 => code[m] \in Logins /\ code[m] # n
  BY ParamsAssumption DEF Held, TypeOK, LoginsFit, CodesFit, Numbers
<1>2. /\ \A m \in Logins : code[m] # 0 => m # n /\ asked'[m].who # Nobody /\ ~ Expected(m)'
      /\ nav # 0 => nav \in Logins /\ asked'[nav].who # Nobody
  BY <1>1 DEF Held, TypeOK, CodesFit, Expected, Numbers
<1>3. ASSUME NEW c \in BagToSet(calls'), c.kind = "userinfo", c.ok
      PROVE  c.who = asked'[code[c.code]].who
  <2>1. c \in BagToSet(calls) /\ Fits(c) /\ c.code \in Logins
    BY <1>3 DEF Held, TypeOK, LoginsFit, Fits, CallRecord, Numbers, BagToSet
  <2>2. QED
    BY <1>1, <1>3, <2>1 DEF CodesFit, Fits
<1>4. ASSUME page.auth.login # 0
      PROVE  /\ code[page.auth.login] # 0
             /\ page.auth.who = asked'[code[page.auth.login]].who
  <2>1. page.auth.login \in Logins
    BY <1>4 DEF Held, TypeOK, PageRecord, Numbers
  <2>2. QED
    BY <1>1, <1>4, <2>1 DEF CodesFit
<1>5. QED
  BY <1>1, <1>2, <1>3, <1>4 DEF CodesFit

LEMMA CodesFitKept == Held /\ CodesFit /\ [Next]_vars => CodesFit'
<1> SUFFICES ASSUME Held, CodesFit, [Next]_vars
             PROVE  CodesFit'
  OBVIOUS
<1> DEFINE Known(c) == c \in CallRecord /\ Fits(c)
<1>1. /\ \A c \in BagToSet(calls) : Known(c)
      /\ code \in [Logins -> Numbers] /\ nav \in Numbers
      /\ \A n \in Numbers : n # 0 => n \in Logins
      /\ 0 \notin Logins
  BY ParamsAssumption DEF Held, TypeOK, LoginsFit, BagToSet, Numbers
<1>2. ASSUME NEW c \in BagToSet(calls), Handle(c), UNCHANGED <<browser, page, mixed, out>>
      PROVE  CodesFit'
  <2>1. PICK d : Handled(c, d)
    BY <1>2, Answered
  <2>2. /\ nav' = nav /\ page' = page /\ asked' = asked /\ code' = code
        /\ \A x \in BagToSet(calls') : x \in BagToSet(calls) \/ x = d
    BY <1>2, <2>1 DEF browser, Handled, Gains, BagToSet
  <2>3. d.kind = c.kind /\ d.login = c.login /\ d.code = c.code /\ AnswerTo(c, d)
    BY <1>1, <2>1 DEF Handled, AnswerTo, CallRecord
  <2>4. ASSUME d.kind = "userinfo", d.ok
        PROVE  d.who = asked[code[d.code]].who
    <3>1. c.code \in Logins
      BY <1>1, <2>3, <2>4 DEF Fits, CallRecord
    <3>2. code[c.code] \in Numbers /\ d.who = Person(code[c.code]) /\ d.who # Nobody
      BY <1>1, <2>3, <2>4, <3>1 DEF AnswerTo
    <3>3. QED
      BY <2>3, <3>2, PersonType DEF Held
  <2>5. \A n \in Logins : ~ Expected(n) => ~ Expected(n)'
    BY <2>2, <2>3 DEF Expected
  <2>6. QED
    BY <2>2, <2>3, <2>4, <2>5 DEF CodesFit
<1>3. ASSUME NEW c, NEW a, Returned(c, a)
      PROVE  CodesFit'
  <2>1. TookPage(c, a) /\ TookBrowser(c, a) /\ asked' = asked /\ code' = code
    BY <1>3, Taken DEF api
  <2>2. PICK S : /\ Gains(calls, calls', S) /\ Spends(calls, calls', c, S)
                 /\ \A d \in S : Made(d, c, a)
    BY <1>3, Taken DEF TookCalls
  <2>3. c \in BagToSet(calls) /\ Known(c) /\ (a.ok => a = c)
    BY <1>1, <1>3, ReturnedType DEF Held
  <2>4. \A d \in S : d.kind # "login" /\ ~ d.ok
    BY <2>2 DEF Made, Call, Load
  <2>5. /\ \A x \in BagToSet(calls') : x \in BagToSet(calls) \/ x \in S
        /\ \A x \in BagToSet(calls') : x.kind = "login" => x \in BagToSet(calls)
    BY <2>2, <2>4 DEF Gains, BagToSet
  <2>6. CASE c.kind = "login" /\ a.ok
    <3>1. nav' = c.login /\ c.login \in Logins /\ asked[c.login].who # Nobody
      BY <1>1, <2>1, <2>3, <2>6 DEF TookBrowser, Fits, CallRecord
    <3>2. code[c.login] = 0
      BY <2>3, <2>6, <3>1 DEF CodesFit, Expected
    <3>3. \A x \in BagToSet(calls') : x.kind = "login" => x.login # c.login
      <4>1. calls[c] = 1 /\ c \notin DOMAIN calls'
        BY <2>2, <2>3, <2>4, <2>6 DEF Held, LoginsFit, Spends
      <4>2. QED
        BY <2>3, <2>5, <2>6, <4>1 DEF Held, LoginsFit, BagToSet
    <3>4. \A n \in Logins : code[n] # 0 => ~ Expected(n)'
      BY <2>5, <3>1, <3>2 DEF CodesFit, Expected
    <3>5. page'.auth = page.auth \/ page'.auth.login = 0
      BY <2>1, <2>6 DEF TookPage, NoAuth
    <3>6. QED
      BY <2>1, <2>4, <2>5, <3>1, <3>3, <3>4, <3>5 DEF CodesFit
  <2>7. CASE ~ (c.kind = "login" /\ a.ok)
    <3>1. nav' = nav
      BY <2>1, <2>7 DEF TookBrowser
    <3>2. \A n \in Logins : ~ Expected(n) => ~ Expected(n)'
      BY <2>5, <3>1 DEF Expected
    <3>3. \/ page'.auth = page.auth \/ page'.auth.login = 0
          \/ /\ a.ok /\ c.kind = "userinfo"
             /\ page'.auth.who = a.who /\ page'.auth.login = c.login
      BY <2>1 DEF TookPage, NoAuth
    <3>4. page'.auth.login # 0 => /\ code[page'.auth.login] # 0
                                  /\ page'.auth.who = asked[code[page'.auth.login]].who
      BY <2>3, <3>3 DEF CodesFit, Fits
    <3>5. QED
      BY <2>1, <2>4, <2>5, <3>1, <3>2, <3>4 DEF CodesFit
  <2>8. QED
    BY <2>6, <2>7
<1>4. ASSUME NEW e, Sends(e)
      PROVE  CodesFit'
  <2>1. /\ code' = code /\ nav' = nav /\ page'.auth = page.auth /\ e \in CallRecord /\ ~ e.ok
        /\ \A x \in BagToSet(calls') : x \in BagToSet(calls) \/ x = e
    BY <1>4, Sent DEF Sends, PageKept, BagToSet
  <2>2. CASE e.kind = "login"
    <3>1. /\ e.login \in Logins /\ asked[e.login].who = Nobody
          /\ \A m \in Logins \ {e.login} : asked'[m] = asked[m]
      BY <1>1, <1>4, <2>1, <2>2 DEF Sends, CallRecord
    <3>2. QED
      BY <2>1, <2>2, <3>1, CodesOfOthers
  <2>3. CASE e.kind # "login"
    <3>1. asked' = asked
      BY <1>4, <2>3 DEF Sends
    <3>2. \A n \in Logins : ~ Expected(n) => ~ Expected(n)'
      BY <2>1, <2>3 DEF Expected
    <3>3. QED
      BY <2>1, <2>3, <3>1, <3>2 DEF CodesFit
  <2>4. QED
    BY <2>2, <2>3
<1>5. ASSUME NEW url \in Addresses, Open(url) \/ Navigate
      PROVE  CodesFit'
  <2>1. /\ PageLeft /\ nav' = 0 /\ asked' = asked
        /\ code' = code \/ (/\ nav # 0 /\ Person(jar) # Nobody
                            /\ code' = [code EXCEPT ![nav] = jar])
    BY <1>5, ShownLeft
  <2>2. page'.auth.login = 0
    BY <2>1, NewPageType DEF Held, NoAuth
  <2>3. \A x \in BagToSet(calls') : x.kind \notin {"login", "userinfo"}
    BY <2>1 DEF PageLeft, BagToSet, Load, Call, Fits
  <2>4. \A n \in Logins : code'[n] # 0 => asked[n].who # Nobody
    BY <1>1, <2>1 DEF CodesFit
  <2>5. QED
    BY <1>1, <2>1, <2>2, <2>3, <2>4 DEF CodesFit, Expected
<1>6. ASSUME NEW n \in Logins, NEW p \in People, OtherTab(n, p)
      PROVE  CodesFit'
  <2>1. /\ asked[n].who = Nobody /\ code' = code /\ nav' = nav /\ page' = page /\ calls' = calls
        /\ \A m \in Logins \ {n} : asked'[m] = asked[m]
    BY <1>6 DEF OtherTab, Held, TypeOK
  <2>2. PICK e : e = Load(0)
    OBVIOUS
  <2>3. e.kind # "login" /\ e.kind # "userinfo"
    BY <2>2 DEF Load, Call
  <2>4. QED
    BY <2>1, <2>3, CodesOfOthers
<1>7. CASE Idle
  BY <1>7 DEF Idle, PageKept, CodesFit, Expected
<1>8. QED
  BY <1>2, <1>3, <1>4, <1>5, <1>6, <1>7, Steps

\* A page signed in by a code shows the person whose session that code was
\* made for, also when the address has lost its state and the code goes out
\* with another intent; and a page has at most one exchange of a code under
\* way (completeLogin, HandleToken).
THEOREM CodesSignInTheirPerson == Spec => []CodeIsOfSignIn
<1>1. OneExchange /\ CodesFit => CodeIsOfSignIn
  BY DEF OneExchange, CodesFit, CodeIsOfSignIn
<1>2. Init => OneExchange /\ CodesFit
  <2> SUFFICES ASSUME Init PROVE OneExchange /\ CodesFit
    OBVIOUS
  <2>1. DOMAIN calls = {Load(jar), Call("session", jar, 0, 0)}
    BY MountCalls DEF Init
  <2>2. /\ Exchanges = {} /\ \A c \in BagToSet(calls) : c.kind # "userinfo"
    BY <2>1 DEF Exchanges, BagToSet, Load, Call
  <2>3. nav = 0 /\ page.auth.login = 0 /\ \A n \in Logins : code[n] = 0
    BY DEF Init, NewPage, NoAuth
  <2>4. QED
    BY <2>2, <2>3 DEF OneExchange, CodesFit
<1>3. QED
  BY <1>1, <1>2, OneExchangeKept, CodesFitKept, HeldAlways, PTL DEF Spec

(***************************************************************************)
(* A change that was saved is shown.                                       *)
(***************************************************************************)

\* The form of the console is done only when the overview shown has the
\* change, unless a call was lost or the person may not see it any more: the
\* load that follows a change sees it (SavesFit), whatever other loads come
\* between, and a page that is left has no form.
THEOREM SavedShown == Spec => SavedIsShown
<1> DEFINE A == page.saving /\ ~ page'.saving /\ page'.bootstrap.ready /\ page'.app =>
                  \/ \A v \in {page.saved, page'.saved} : page'.bootstrap.version >= v
                  \/ page'.bootstrap.who = Nobody
                  \/ \E c \in BagToSet(calls) : Lose(c)
<1>1. Held /\ [Next]_vars => [A]_vars
  <2> SUFFICES ASSUME Held, [Next]_vars
               PROVE  A
    OBVIOUS
  <2>1. ASSUME NEW c, NEW a, Returned(c, a)
        PROVE  A
    <3> SUFFICES ASSUME page.saving, ~ page'.saving, page'.bootstrap.ready, page'.app
                 PROVE  \/ \A v \in {page.saved, page'.saved} : page'.bootstrap.version >= v
                        \/ page'.bootstrap.who = Nobody
                        \/ \E d \in BagToSet(calls) : Lose(d)
      OBVIOUS
    <3>1. CASE a = Failed(c) /\ ~ c.gone
      BY <2>1, <3>1 DEF Returned, Lose
    <3>2. CASE a = c /\ c.stage = "answered"
      <4>1. TookPage(c, c) /\ page' \in PageRecord /\ page \in PageRecord
        BY <2>1, <3>2, Taken DEF TookPage, Held, TypeOK
      <4>2. c \in BagToSet(calls) /\ c \in CallRecord /\ Fits(c)
        BY <2>1, ReturnedType DEF Held, LoginsFit
      <4>3. c \in Mine
        BY <3>2, <4>2 DEF Mine, Fits
      <4>4. SaveCall(c)
        BY <4>1 DEF TookPage, SaveCall
      <4>5. CASE c.kind = "change"
        <5>1. page.saved = 0 /\ page'.saved = 0
          BY <4>1, <4>3, <4>5 DEF TookPage, Held, SavesFit
        <5>2. page'.bootstrap.version >= 0
          BY <4>1, ParamsAssumption DEF PageRecord
        <5>3. QED
          BY <5>1, <5>2
      <4>6. CASE c.kind = "saved"
        <5>1. c.ok /\ (c.who = Nobody \/ c.version >= page.saved)
          BY <3>2, <4>3, <4>6 DEF Held, SavesFit
        <5>2. page'.saved = 0 /\ page'.bootstrap = [ready |-> TRUE, who |-> c.who, version |-> c.version]
          BY <4>1, <4>6, <5>1 DEF TookPage
        <5>3. page'.bootstrap.version >= 0
          BY <4>1, ParamsAssumption DEF PageRecord
        <5>4. QED
          BY <5>1, <5>2, <5>3
      <4>7. QED
        BY <4>4, <4>5, <4>6 DEF SaveCall
    <3>3. QED
      BY <2>1, <3>1, <3>2 DEF Returned
  <2>2. ASSUME NEW url \in Addresses, Open(url) \/ Navigate
        PROVE  A
    <3>1. page'.bootstrap = Empty
      BY <2>2, ShownLeft, NewPageType DEF Held
    <3>2. QED
      BY <3>1 DEF Empty
  <2>3. CASE PageKept \/ page' = page
    BY <2>3 DEF PageKept
  <2>4. QED
    BY <2>1, <2>2, <2>3, Steps DEF Sends, Idle, OtherTab
<1>2. QED
  BY <1>1, HeldAlways, PTL DEF Spec, SavedIsShown

(***************************************************************************)
(* One person.  While no sign-ins overlap, there is one login the page is  *)
(* of, and everything it shows, waits for or sends is of that login.       *)
(***************************************************************************)

Whose(k) == IF k = 0 THEN {Nobody} ELSE {Nobody, asked[k].who}

OfLogin(c, k) ==
  /\ c.kind # "login" => c.cookie \in {0, k}
  /\ c.kind \in {"token", "userinfo"} => c.login = k
  /\ c.kind # "login" /\ c.stage = "answered" => c.who \in Whose(k)

OnePage(k) ==
  /\ {jar, intent, page.auth.login} \subseteq {0, k}
  /\ k # 0 => asked[k].who # Nobody
  /\ {page.bootstrap.who, page.profile, page.auth.who} \subseteq Whose(k)
  /\ \A c \in Mine : OfLogin(c, k)

OneInv ==
  ~ mixed =>
    /\ intent # 0 => jar = intent
    /\ nav # 0 => jar \in {0, nav}
    /\ \A n \in Logins : code[n] \in {0, n}
    /\ nav = 0 => \E k \in Numbers : OnePage(k)

LEMMA OneKept == Held /\ OneInv /\ [Next]_vars => OneInv'
<1> SUFFICES ASSUME Held, OneInv, [Next]_vars, ~ mixed'
             PROVE  /\ intent' # 0 => jar' = intent'
                    /\ nav' # 0 => jar' \in {0, nav'}
                    /\ \A n \in Logins : code'[n] \in {0, n}
                    /\ nav' = 0 => \E k \in Numbers : OnePage(k)'
  BY DEF OneInv
<1> DEFINE P == /\ intent' # 0 => jar' = intent'
                /\ nav' # 0 => jar' \in {0, nav'}
                /\ \A n \in Logins : code'[n] \in {0, n}
           Q == nav' = 0 => \E k \in Numbers : OnePage(k)'
<1>1. ASSUME ~ mixed
      PROVE  /\ intent # 0 => jar = intent
             /\ nav # 0 => jar \in {0, nav}
             /\ \A n \in Logins : code[n] \in {0, n}
             /\ nav = 0 => \E k \in Numbers : OnePage(k)
  BY <1>1 DEF OneInv
<1>2. \A k \in Numbers : k # 0 => k \in Logins
  BY DEF Numbers
<1>3. ASSUME NEW c \in BagToSet(calls), Handle(c), UNCHANGED <<browser, page, mixed, out>>
      PROVE  P /\ Q
  <2>1. PICK d : Handled(c, d)
    BY <1>3, Answered
  <2>2. /\ ~ mixed /\ UNCHANGED <<jar, intent, nav>> /\ page' = page
        /\ asked' = asked /\ code' = code
    BY <1>3, <2>1 DEF Handled, browser
  <2>3. P
    BY <1>1, <2>2
  <2>4. ASSUME nav = 0
        PROVE  \E k \in Numbers : OnePage(k)'
    <3>1. PICK k \in Numbers : OnePage(k)
      BY <1>1, <2>2, <2>4
    <3>2. \A x \in Mine' : (x = d /\ c \in Mine) \/ x \in Mine
      BY <2>1, <1>3 DEF Handled, Gains, Mine, BagToSet
    <3>3. ASSUME c \in Mine
          PROVE  OfLogin(d, k)
      <4>1. OfLogin(c, k) /\ c \in CallRecord /\ Fits(c)
        BY <1>3, <3>1, <3>3 DEF OnePage, Held, TypeOK, LoginsFit, BagToSet
      <4>2. d.kind = c.kind /\ d.login = c.login /\ d.cookie = 0 /\ AnswerTo(c, d)
        BY <2>1, <4>1 DEF Handled, AnswerTo, CallRecord
      <4>3. \A n \in {0, k} : Person(n) \in Whose(k)
        BY DEF Person, Whose
      <4>4. CASE c.kind \in {"session", "profile", "bootstrap", "saved"}
        <5>1. d.who \in {Nobody, Person(c.cookie)} /\ Person(c.cookie) \in Whose(k) /\ Nobody \in Whose(k)
          BY <4>1, <4>2, <4>3, <4>4 DEF OfLogin, AnswerTo, Whose
        <5>2. QED
          BY <4>2, <4>4, <5>1 DEF OfLogin
      <4>5. CASE c.kind = "userinfo"
        <5>1. c.code = k /\ k \in Logins
          BY <1>2, <4>1, <4>5 DEF OfLogin, Fits
        <5>2. code[c.code] \in {0, k}
          BY <1>1, <2>2, <5>1
        <5>3. QED
          BY <4>1, <4>2, <4>3, <4>5, <5>2 DEF OfLogin, AnswerTo
      <4>6. CASE c.kind \in {"change", "token", "logout"}
        BY <4>1, <4>2, <4>6 DEF OfLogin, AnswerTo, Whose
      <4>7. CASE c.kind = "login"
        BY <4>2, <4>7 DEF OfLogin
      <4>8. QED
        BY <4>1, <4>4, <4>5, <4>6, <4>7 DEF CallRecord, Kinds
    <3>4. \A x \in Mine' : OfLogin(x, k)
      BY <3>1, <3>2, <3>3 DEF OnePage
    <3>5. OnePage(k)'
      BY <2>2, <3>1, <3>4 DEF OnePage, OfLogin, Whose
    <3>6. QED
      BY <3>5
  <2>5. QED
    BY <2>2, <2>3, <2>4
<1>4. ASSUME NEW c, NEW a, Returned(c, a)
      PROVE  P /\ Q
  <2>1. TookPage(c, a) /\ TookBrowser(c, a) /\ UNCHANGED api
    BY <1>4, Taken
  <2>2. PICK S : Gains(calls, calls', S) /\ \A d \in S : Made(d, c, a)
    BY <1>4, Taken DEF TookCalls
  <2>3. /\ c \in CallRecord /\ a.login = c.login /\ (a.ok => a = c) /\ Fits(c)
        /\ c \in Mine
    BY <1>4, ReturnedType DEF Held, LoginsFit, Fits, Mine, Returned
  <2>4. ~ mixed /\ asked' = asked /\ code' = code
    BY <2>1 DEF TookBrowser, api
  <2>5. P
    BY <1>1, <2>1, <2>4 DEF TookBrowser
  <2>6. ASSUME nav' = 0
        PROVE  \E k \in Numbers : OnePage(k)'
    <3>1. nav = 0 /\ jar' \in {0, jar} /\ intent' \in {0, intent}
      BY <2>1, <2>3, <2>6 DEF TookBrowser, Fits
    <3>2. PICK k \in Numbers : OnePage(k)
      BY <1>1, <2>4, <3>1
    <3>3. OfLogin(c, k)
      BY <2>3, <3>2 DEF OnePage
    <3>4. a.ok /\ c.kind # "login" => a.who \in Whose(k)
      BY <2>3, <3>3 DEF OfLogin, Fits
    <3>5. {jar', intent', page'.auth.login} \subseteq {0, k}
      BY <2>1, <3>1, <3>2, <3>3 DEF OnePage, TookPage, NoAuth, OfLogin
    <3>6. {page'.bootstrap.who, page'.profile, page'.auth.who} \subseteq Whose(k)
      <4>1. Nobody \in Whose(k)
        BY DEF Whose
      <4>2. page'.auth.who \in Whose(k)
        BY <2>1, <3>2, <3>4, <4>1 DEF OnePage, TookPage, NoAuth
      <4>3. page'.bootstrap.who \in Whose(k)
        BY <2>1, <3>2, <3>4 DEF OnePage, TookPage
      <4>4. page'.profile \in Whose(k)
        BY <2>1, <3>2, <3>4, <4>1 DEF OnePage, TookPage
      <4>5. QED
        BY <4>2, <4>3, <4>4
    <3>7. \A d \in S : OfLogin(d, k)
      <4> TAKE d \in S
      <4>1. Made(d, c, a) /\ {jar, jar', intent} \subseteq {0, k}
        BY <2>2, <3>1, <3>2 DEF OnePage
      <4>2. QED
        BY <3>3, <4>1 DEF Made, Call, Load, OfLogin
    <3>8. \A x \in Mine' : OfLogin(x, k)
      BY <2>2, <3>2, <3>7 DEF Gains, OnePage, Mine, BagToSet
    <3>9. OnePage(k)'
      BY <2>4, <3>2, <3>5, <3>6, <3>8 DEF OnePage, OfLogin, Whose
    <3>10. QED
      BY <3>9
  <2>7. QED
    BY <2>5, <2>6
<1>5. ASSUME NEW e, Sends(e)
      PROVE  P /\ Q
  <2>1. ~ mixed /\ UNCHANGED <<jar, intent, nav>> /\ code' = code
    BY <1>5 DEF Sends
  <2>2. ASSUME nav = 0
        PROVE  \E k \in Numbers : OnePage(k)'
    <3>1. PICK k \in Numbers : OnePage(k)
      BY <1>1, <2>1, <2>2
    <3>2. k # 0 => asked'[k] = asked[k]
      BY <1>2, <1>5, <3>1 DEF Sends, OnePage
    <3>3. \A x \in Mine' : x = e \/ x \in Mine
      BY <1>5, Sent DEF Sends
    <3>4. OfLogin(e, k)
      BY <1>5, <3>1 DEF Sends, OfLogin, OnePage
    <3>5. \A x \in Mine' : OfLogin(x, k)
      BY <3>1, <3>3, <3>4 DEF OnePage
    <3>6. OnePage(k)'
      BY <1>5, <2>1, <3>1, <3>2, <3>5 DEF OnePage, OfLogin, Whose, Sends, PageKept
    <3>7. QED
      BY <3>6
  <2>3. QED
    BY <1>1, <2>1, <2>2
<1>6. ASSUME NEW url \in Addresses, Open(url) \/ Navigate
      PROVE  P /\ Q
  <2>1. /\ PageLeft /\ nav' = 0 /\ UNCHANGED <<asked, session, jar, intent, mixed>>
        /\ code' = code \/ (/\ nav # 0 /\ Person(jar) # Nobody
                            /\ code' = [code EXCEPT ![nav] = jar])
    BY <1>6, ShownLeft
  <2>2. \A n \in Logins : code'[n] \in {0, n}
    <3>1. Person(jar) # Nobody => jar # 0
      BY DEF Person
    <3>2. code \in [Logins -> Numbers]
      BY DEF Held, TypeOK
    <3>3. QED
      BY <1>1, <2>1, <3>1, <3>2
  <2>3. jar \in Numbers /\ (jar # 0 => asked[jar].who # Nobody)
    BY DEF Held, TypeOK, LoginsFit, Numbers
  <2>4. \A x \in Mine' : OfLogin(x, jar)
    BY <2>1 DEF PageLeft, Mine, BagToSet, Load, Call, OfLogin
  <2>5. /\ page'.auth = NoAuth /\ page'.bootstrap = Empty /\ page'.profile = Nobody
    BY <2>1, NewPageType DEF Held
  <2>6. PICK k : k = jar
    OBVIOUS
  <2>7. OnePage(k)'
    BY <1>1, <2>1, <2>3, <2>4, <2>5, <2>6 DEF OnePage, OfLogin, Whose, NoAuth, Empty
  <2>8. QED
    BY <1>1, <2>1, <2>2, <2>3, <2>6, <2>7
<1>7. ASSUME NEW n \in Logins, NEW p \in People, OtherTab(n, p)
      PROVE  P /\ Q
  BY <1>7 DEF OtherTab
<1>8. CASE Idle
  <2>1. ~ mixed /\ UNCHANGED <<jar, intent, nav>> /\ UNCHANGED <<asked, code, calls>> /\ PageKept
    BY <1>8 DEF Idle
  <2>2. \A k \in Numbers : OnePage(k) => OnePage(k)'
    BY <2>1 DEF OnePage, OfLogin, Whose, Mine, PageKept
  <2>3. QED
    BY <1>1, <2>1, <2>2
<1>9. QED
  BY <1>3, <1>4, <1>5, <1>6, <1>7, <1>8, Steps

\* Unless sign-ins overlap or another tab signs in, the page shows one person
\* in every reachable state: who is signed in is who the password was typed
\* for, and the overview and the profile, fetched by calls of their own that
\* are answered in any order, are theirs.
THEOREM OnePersonShown == Spec => []OnePerson
<1>1. Init => OneInv
  <2> SUFFICES ASSUME Init PROVE OneInv
    OBVIOUS
  <2>1. Held /\ DOMAIN calls = {Load(jar), Call("session", jar, 0, 0)}
    BY HeldInit, MountCalls DEF Init
  <2>2. /\ intent = 0 /\ nav = 0 /\ page = NewPage(NoAddress) /\ \A n \in Logins : code[n] = 0
    BY DEF Init
  <2>3. jar \in Numbers /\ (jar # 0 => asked[jar].who # Nobody)
    BY <2>1 DEF Held, TypeOK, LoginsFit, Numbers
  <2>4. \A c \in Mine : OfLogin(c, jar)
    BY <2>1 DEF Mine, BagToSet, Load, Call, OfLogin
  <2>5. OnePage(jar)
    BY <2>2, <2>3, <2>4 DEF OnePage, Whose, NewPage, NoAuth, Empty
  <2>6. QED
    BY <2>2, <2>3, <2>5 DEF OneInv
<1>2. Held /\ OneInv => OnePerson
  <2> SUFFICES ASSUME Held, OneInv, ~ mixed, nav = 0, page.auth # NoAuth
               PROVE  /\ page.bootstrap.who \in {Nobody, page.auth.who}
                      /\ page.profile \in {Nobody, page.auth.who}
                      /\ page.auth.login # 0 => page.auth.who = asked[page.auth.login].who
    BY DEF OnePerson
  <2>1. PICK k \in Numbers : OnePage(k)
    BY DEF OneInv
  <2>2. page.auth.who # Nobody
    BY DEF Held, TypeOK
  <2>3. QED
    BY <2>1, <2>2 DEF OnePage, Whose
<1>3. QED
  BY <1>1, <1>2, OneKept, HeldAlways, PTL DEF Spec

(***************************************************************************)
(* A sign-out lasts.                                                       *)
(***************************************************************************)

Over(n) == n = 0 \/ session[n] = "ended"

\* A sign-out under way is for the session of the cookie, which has ended
\* when the answer is there.
EndsTheCookie(c) ==
  c.kind = "logout" => IF c.stage = "sent" THEN jar \in {0, c.cookie} ELSE Over(jar)

\* No call of a signed-out page can sign it in.
Powerless(c) ==
  /\ c.kind \notin {"login", "token", "userinfo"}
  /\ c.kind = "session" => Over(c.cookie) /\ ~ c.ok

OutInv ==
  /\ ~ mixed /\ nav = 0 => \A c \in Mine : EndsTheCookie(c)
  /\ out => /\ nav = 0 /\ intent = 0 /\ Over(jar) /\ page.auth = NoAuth
            /\ \A c \in Mine : Powerless(c)

LEMMA OutKept == Held /\ OutInv /\ [Next]_vars => OutInv'
<1> SUFFICES ASSUME Held, OutInv, [Next]_vars
             PROVE  OutInv'
  OBVIOUS
<1>1. ASSUME \A n \in Logins : session[n] = "ended" => session'[n] = "ended"
      PROVE  \A n \in Numbers : Over(n) => Over(n)'
  BY <1>1 DEF Over, Numbers
<1>2. jar \in Numbers /\ \A c \in Mine : c \in CallRecord /\ c.cookie \in Numbers /\ Fits(c)
  BY DEF Held, TypeOK, LoginsFit, Mine, BagToSet, CallRecord
<1>3. ASSUME NEW c \in BagToSet(calls), Handle(c), UNCHANGED <<browser, page, mixed, out>>
      PROVE  OutInv'
  <2>1. PICK d : Handled(c, d)
    BY <1>3, Answered
  <2>2. UNCHANGED <<jar, intent, nav>> /\ UNCHANGED <<page, mixed, out>>
    BY <1>3 DEF browser
  <2>3. c \in CallRecord /\ c.stage = "sent" /\ Fits(c)
    BY <1>3 DEF Held, TypeOK, LoginsFit, BagToSet, Handle
  <2>4. /\ d.kind = c.kind /\ d.cookie = 0 /\ d.stage = "answered" /\ AnswerTo(c, d)
        /\ d.gone = c.gone
    BY <2>1, <2>3 DEF Handled, AnswerTo, CallRecord
  <2>5. session \in [Logins -> {"none", "live", "ended"}]
    BY DEF Held, TypeOK
  <2>6. \A n \in Logins : session[n] = "ended" => session'[n] = "ended"
    <3>1. CASE c.kind = "login"
      BY <2>3, <2>4, <2>5, <3>1 DEF Fits, AnswerTo
    <3>2. CASE c.kind = "logout"
      <4>1. session' = Revoked(session, c.cookie)
        BY <2>4, <3>2 DEF AnswerTo
      <4>2. QED
        BY <2>3, <2>5, <4>1 DEF Revoked, CallRecord, Numbers
    <3>3. CASE c.kind \notin {"login", "logout"}
      BY <2>4, <3>3 DEF AnswerTo
    <3>4. QED
      BY <3>1, <3>2, <3>3
  <2>7. \A n \in Numbers : Over(n) => Over(n)'
    BY <1>1, <2>6
  <2>8. \A x \in Mine' : (x = d /\ c \in Mine) \/ x \in Mine
    BY <1>3, <2>1, <2>4 DEF Handled, Gains, Mine, BagToSet
  <2>9. ASSUME ~ mixed, nav = 0, NEW x \in Mine', x.kind = "logout"
        PROVE  EndsTheCookie(x)'
    <3>1. CASE x = d /\ c \in Mine
      <4>1. jar \in {0, c.cookie} /\ session' = Revoked(session, c.cookie)
        BY <2>3, <2>4, <2>9, <3>1 DEF OutInv, EndsTheCookie, AnswerTo
      <4>2. jar # 0 => jar \in Logins /\ session[jar] # "none"
        BY <1>2 DEF Held, TypeOK, Numbers
      <4>3. Over(jar)'
        BY <2>2, <2>5, <4>1, <4>2 DEF Over, Revoked
      <4>4. QED
        BY <2>4, <3>1, <4>3 DEF EndsTheCookie
    <3>2. CASE x \in Mine
      BY <1>2, <2>2, <2>7, <2>9, <3>2 DEF OutInv, EndsTheCookie, Over
    <3>3. QED
      BY <2>8, <3>1, <3>2
  <2>10. ASSUME out, NEW x \in Mine'
         PROVE  Powerless(x)'
    <3>1. CASE x = d /\ c \in Mine
      <4>1. Powerless(c)
        BY <2>10, <3>1 DEF OutInv
      <4>2. c.kind = "session" => Person(c.cookie) = Nobody
        BY <4>1 DEF Powerless, Over, Person
      <4>3. c.kind = "session" => ~ d.ok
        BY <2>4, <4>2 DEF AnswerTo
      <4>4. QED
        BY <2>4, <3>1, <4>1, <4>3 DEF Powerless, Over
    <3>2. CASE x \in Mine
      <4>1. Powerless(x) /\ x.cookie \in Numbers
        BY <1>2, <2>10, <3>2 DEF OutInv
      <4>2. QED
        BY <2>7, <4>1 DEF Powerless
    <3>3. QED
      BY <2>8, <3>1, <3>2
  <2>11. out => Over(jar)'
    BY <1>2, <2>2, <2>7 DEF OutInv, Over
  <2>12. QED
    BY <2>2, <2>9, <2>10, <2>11 DEF OutInv, EndsTheCookie
<1>4. ASSUME NEW c, NEW a, Returned(c, a)
      PROVE  OutInv'
  <2>1. TookPage(c, a) /\ TookBrowser(c, a) /\ UNCHANGED api
    BY <1>4, Taken
  <2>2. PICK S : Gains(calls, calls', S) /\ \A d \in S : Made(d, c, a)
    BY <1>4, Taken DEF TookCalls
  <2>3. /\ c \in CallRecord /\ (a.ok => a = c) /\ Fits(c) /\ c \in Mine
    BY <1>4, ReturnedType DEF Held, LoginsFit, Fits, Mine, Returned
  <2>4. session' = session /\ mixed' = mixed /\ \A n : Over(n) => Over(n)'
    BY <2>1 DEF TookBrowser, api, Over
  <2>5. \A x \in Mine' : x \in Mine \/ x \in S
    BY <2>2 DEF Gains, Mine, BagToSet
  <2>6. \A d \in S : d.kind \in {"token", "profile", "bootstrap", "userinfo", "saved"}
    BY <2>2 DEF Made, Call, Load
  <2>7. ASSUME ~ mixed, nav' = 0, NEW x \in Mine', x.kind = "logout"
        PROVE  EndsTheCookie(x)'
    <3>1. nav = 0 /\ jar' \in {0, jar}
      BY <2>1, <2>3, <2>7 DEF TookBrowser, Fits
    <3>2. x \in Mine
      BY <2>5, <2>6, <2>7
    <3>3. IF x.stage = "sent" THEN jar \in {0, x.cookie} ELSE Over(jar)
      BY <2>7, <3>1, <3>2 DEF OutInv, EndsTheCookie
    <3>4. QED
      BY <2>4, <3>1, <3>3 DEF EndsTheCookie, Over
  <2>8. ASSUME out'
        PROVE  /\ nav' = 0 /\ intent' = 0 /\ Over(jar)' /\ page'.auth = NoAuth
               /\ \A x \in Mine' : Powerless(x)'
    <3>1. CASE c.kind = "logout"
      <4>1. /\ page'.auth = NoAuth /\ jar' \in {0, jar} /\ intent' = 0 /\ nav' = nav
        BY <2>1, <3>1 DEF TookPage, TookBrowser
      <4>2. \A x \in S : Powerless(x)'
        <5> TAKE x \in S
        <5>1. Made(x, c, a)
          BY <2>2
        <5>2. QED
          BY <3>1, <5>1 DEF Made, Call, Load, Powerless
      <4>3. nav = 0 /\ Over(jar) /\ \A x \in Mine : Powerless(x)
        <5>1. CASE out
          BY <5>1 DEF OutInv
        <5>2. CASE ~ out
          <6>1. PICK pending : pending = {d \in BagToSet(calls) : ~ d.gone
                                 /\ d.kind \in {"session", "login", "token", "userinfo"}}
            OBVIOUS
          <6>2. c.stage = "answered" /\ nav = 0 /\ pending = {} /\ ~ mixed
            BY <1>4, <2>8, <3>1, <5>2, <6>1 DEF Returned, Take, LogoutArrives
          <6>3. \A x \in Mine : x.kind \notin {"session", "login", "token", "userinfo"}
            BY <6>1, <6>2 DEF Mine
          <6>4. Over(jar)
            BY <2>3, <3>1, <6>2 DEF OutInv, EndsTheCookie
          <6>5. QED
            BY <6>2, <6>3, <6>4 DEF Powerless
        <5>3. QED
          BY <5>1, <5>2
      <4>4. Over(jar)'
        BY <2>4, <4>1, <4>3 DEF Over
      <4>5. \A x \in Mine' : Powerless(x)'
        BY <2>4, <2>5, <4>2, <4>3 DEF Powerless
      <4>6. QED
        BY <4>1, <4>3, <4>4, <4>5
    <3>2. CASE c.kind # "logout"
      <4>1. out /\ nav = 0 /\ intent = 0 /\ Over(jar) /\ page.auth = NoAuth
            /\ \A x \in Mine : Powerless(x)
        BY <2>1, <2>8, <3>2 DEF TookBrowser, OutInv
      <4>2. Powerless(c)
        BY <2>3, <4>1
      <4>3. nav' = 0 /\ intent' = 0 /\ jar' = jar
        BY <2>1, <3>2, <4>1, <4>2 DEF TookBrowser, Powerless
      <4>4. page'.auth = NoAuth
        BY <2>1, <2>3, <4>1, <4>2 DEF TookPage, Powerless
      <4>5. \A x \in S : Powerless(x)'
        <5> TAKE x \in S
        <5>1. Made(x, c, a)
          BY <2>2
        <5>2. QED
          BY <4>1, <4>2, <5>1 DEF Made, Call, Load, Powerless
      <4>6. Over(jar)'
        BY <2>4, <4>1, <4>3 DEF Over
      <4>7. \A x \in Mine' : Powerless(x)'
        BY <2>4, <2>5, <4>1, <4>5 DEF Powerless
      <4>8. QED
        BY <4>3, <4>4, <4>6, <4>7
    <3>3. QED
      BY <3>1, <3>2
  <2>9. QED
    BY <2>4, <2>7, <2>8 DEF OutInv, EndsTheCookie
<1>5. ASSUME NEW e, Sends(e)
      PROVE  OutInv'
  <2>1. /\ UNCHANGED <<jar, intent, nav>> /\ session' = session /\ page'.auth = page.auth
        /\ e.cookie = jar /\ ~ e.ok /\ e.stage = "sent" /\ (~ mixed' => ~ mixed)
    BY <1>5 DEF Sends, PageKept
  <2>2. \A x \in Mine' : x = e \/ x \in Mine
    BY <1>5, Sent DEF Sends
  <2>3. \A n : Over(n)' = Over(n)
    BY <2>1 DEF Over
  <2>4. ~ mixed' /\ nav' = 0 => \A x \in Mine' : EndsTheCookie(x)'
    BY <2>1, <2>2, <2>3 DEF OutInv, EndsTheCookie, Over
  <2>5. out' => out /\ e.kind \in {"bootstrap", "profile", "change"}
    BY <1>5 DEF Sends, OutInv
  <2>6. ASSUME out'
        PROVE  \A x \in Mine' : Powerless(x)'
    <3>1. Powerless(e)'
      BY <2>5, <2>6 DEF Powerless
    <3>2. \A x \in Mine : Powerless(x)'
      BY <2>3, <2>5, <2>6 DEF OutInv, Powerless
    <3>3. QED
      BY <2>2, <3>1, <3>2
  <2>7. QED
    BY <2>1, <2>3, <2>4, <2>5, <2>6 DEF OutInv, Over
<1>6. ASSUME NEW url \in Addresses, Open(url) \/ Navigate
      PROVE  OutInv'
  <2>1. PageLeft /\ nav' = 0 /\ UNCHANGED <<asked, session, jar, intent, mixed, out>>
    BY <1>6, ShownLeft
  <2>2. page'.auth = NoAuth
    BY <2>1, NewPageType DEF Held
  <2>3. \A x \in Mine' : x.kind \in {"bootstrap", "session"} /\ x.cookie = jar /\ ~ x.ok
    BY <2>1 DEF PageLeft, Mine, BagToSet, Load, Call
  <2>4. QED
    BY <2>1, <2>2, <2>3 DEF OutInv, EndsTheCookie, Powerless, Over
<1>7. ASSUME NEW n \in Logins, NEW p \in People, OtherTab(n, p)
      PROVE  OutInv'
  BY <1>7 DEF OtherTab, OutInv
<1>8. CASE Idle
  <2>1. UNCHANGED <<jar, intent, nav>> /\ UNCHANGED <<mixed, out, calls>> /\ page'.auth = page.auth
    BY <1>8 DEF Idle, PageKept
  <2>2. \A n \in Numbers : Over(n) => Over(n)'
    BY <1>1, <1>8 DEF Idle, Held, TypeOK
  <2>3. Mine' = Mine
    BY <2>1 DEF Mine
  <2>4. ASSUME NEW x \in Mine
        PROVE  /\ EndsTheCookie(x) => EndsTheCookie(x)'
               /\ Powerless(x) => Powerless(x)'
    BY <1>2, <2>1, <2>2 DEF EndsTheCookie, Powerless, Over
  <2>5. Over(jar) => Over(jar)'
    BY <1>2, <2>1, <2>2 DEF Over
  <2>6. QED
    BY <2>1, <2>3, <2>4, <2>5 DEF OutInv
<1>9. QED
  BY <1>3, <1>4, <1>5, <1>6, <1>7, <1>8, Steps

\* A sign-out the api has handled lasts: over reloads, earlier addresses
\* opened again and answers that come late or not at all, nothing but the
\* next sign-in shows a person again.
THEOREM SignOutLasts == Spec => []SignedOutStays
<1>1. Init => OutInv
  <2> SUFFICES ASSUME Init PROVE OutInv
    OBVIOUS
  <2>1. DOMAIN calls = {Load(jar), Call("session", jar, 0, 0)} /\ out = FALSE
    BY MountCalls DEF Init
  <2>2. QED
    BY <2>1 DEF OutInv, EndsTheCookie, Mine, BagToSet, Load, Call
<1>2. OutInv => SignedOutStays
  BY DEF OutInv, SignedOutStays
<1>3. QED
  BY <1>1, <1>2, OutKept, HeldAlways, PTL DEF Spec

(***************************************************************************)
(* A sign-in under way.  While the page is busy it awaits something: the   *)
(* invariant looks at what a step leaves of the calls, where the ones      *)
(* above look at what it adds.                                             *)
(***************************************************************************)

SignInKinds == {"login", "token", "userinfo"}

\* A call of a sign-in whose answer the page awaits.
Awaited == {c \in Mine : c.kind \in SignInKinds}

BusyForReason == page.busy => nav # 0 \/ Awaited # {}

LEMMA OthersRemain ==
  ASSUME NEW A, IsABag(A), NEW c, NEW S
  PROVE  /\ DOMAIN A \ {c} \subseteq DOMAIN (A (-) InBag(c))
         /\ (DOMAIN A \ {c}) \cup S \subseteq DOMAIN ((A (-) InBag(c)) (+) SetToBag(S))
         /\ DOMAIN A \cup S \subseteq DOMAIN (A (+) SetToBag(S))
<1>1. \A d \in DOMAIN A : A[d] \in Nat /\ A[d] > 0
  BY DEF IsABag
<1> DEFINE D == A (-) InBag(c)
<1>2. DOMAIN A \ {c} \subseteq DOMAIN D
  BY <1>1 DEF (-), InBag, SetToBag
<1> HIDE DEF D
<1>3. DOMAIN SetToBag(S) = S
  BY DEF SetToBag
<1>4. \A X : DOMAIN (X (+) SetToBag(S)) = DOMAIN X \cup S
  BY <1>3 DEF (+)
<1>5. DOMAIN (D (+) SetToBag(S)) = DOMAIN D \cup S
  BY <1>4
<1>6. QED
  BY <1>2, <1>4, <1>5 DEF D

\* A render makes the page busy only with a code exchange.
LEMMA RenderedBusy ==
  ASSUME TypeOK, NEW c \in BagToSet(calls), NEW p \in PageRecord, NEW authSet,
         Render(p, authSet, c)
  PROVE  /\ Mine \ {c} \subseteq Mine'
         /\ page'.busy => p.busy \/ Awaited' # {}
<1>1. PICK kept : kept = IF p.auth.mode = "user" THEN p
                         ELSE [p EXCEPT !.profile = IF p.auth # page.auth THEN Nobody ELSE @]
  OBVIOUS
<1>2. kept \in PageRecord /\ kept.busy = p.busy
  BY <1>1 DEF PageRecord, Somebody
<1>3. PICK S : S = RedeemCalls(kept) \cup ProfileCalls(p, authSet) \cup LoadCalls(p)
  OBVIOUS
<1>4. (DOMAIN calls \ {c}) \cup S \subseteq DOMAIN calls'
  <2>1. calls' = (calls (-) InBag(c)) (+) SetToBag(S)
    BY <1>1, <1>3 DEF Render, Without
  <2>2. QED
    BY <2>1, OthersRemain DEF TypeOK
<1>5. Mine \ {c} \subseteq Mine'
  BY <1>4 DEF Mine, BagToSet
<1>6. ASSUME page'.busy, ~ p.busy
      PROVE  Awaited' # {}
  <2>1. page' = Redeemed(kept)
    BY <1>1 DEF Render
  <2>2. MayRedeem(kept) /\ IntentFits(kept.url)
    BY <1>2, <1>6, <2>1 DEF Redeemed, PageRecord
  <2>3. PICK d : d = Call("token", 0, intent, kept.url.code)
    OBVIOUS
  <2>4. d \in DOMAIN calls' /\ ~ d.gone /\ d.kind = "token"
    BY <1>3, <1>4, <2>2, <2>3 DEF RedeemCalls, Call
  <2>5. QED
    BY <2>4 DEF Awaited, Mine, BagToSet, SignInKinds
<1>7. QED
  BY <1>5, <1>6

LEMMA TakenBusy ==
  ASSUME Held, BusyForReason, NEW c, NEW a, Returned(c, a)
  PROVE  BusyForReason'
<1> /\ c \in CallRecord /\ c \in BagToSet(calls) /\ Take(c, a) /\ Fits(c) /\ ~ c.gone
    /\ TypeOK /\ page \in PageRecord /\ IsABag(calls)
  BY ReturnedType DEF Held, TypeOK, Returned, LoginsFit, Fits
\* An answer of no sign-in leaves what the page awaits.
<1>1. ASSUME Mine \ {c} \subseteq Mine', c.kind \notin SignInKinds, nav' = nav,
             page'.busy => page.busy \/ Awaited' # {}
      PROVE  BusyForReason'
  BY <1>1 DEF BusyForReason, Awaited
<1>2. ASSUME NEW p \in PageRecord, NEW authSet, Render(p, authSet, c), ~ p.busy
      PROVE  BusyForReason'
  BY <1>2, RenderedBusy DEF BusyForReason
<1>3. ASSUME NEW p \in PageRecord, NEW authSet, Render(p, authSet, c), p.busy = page.busy,
             c.kind \notin SignInKinds, nav' = nav
      PROVE  BusyForReason'
  BY <1>1, <1>3, RenderedBusy
<1>4. ASSUME calls' = Without(c)
      PROVE  Mine \ {c} \subseteq Mine'
  BY <1>4, OthersRemain DEF Without, Mine, BagToSet
<1>5. CASE c.kind \in {"bootstrap", "saved", "session"}
  <2>1. nav' = nav
    BY <1>5 DEF Take, BootstrapArrives, SavedArrives, SessionArrives, browser
  <2>2. PICK p, authSet : Render(p, authSet, c) /\ p \in PageRecord /\ p.busy = page.busy
    <3>1. a \in CallRecord
      BY ReturnedType DEF Held
    <3>2. CASE c.kind = "bootstrap"
      <4>1. Render(Loaded(page, a), FALSE, c)
        BY <3>2 DEF Take, BootstrapArrives
      <4>2. Loaded(page, a) \in PageRecord /\ Loaded(page, a).busy = page.busy
        BY <3>1, LoadedPage DEF Overwritten
      <4>3. QED
        BY <4>1, <4>2
    <3>3. CASE c.kind = "saved"
      <4>1. PICK p : p = [Loaded(page, a) EXCEPT !.saving = FALSE, !.saved = 0]
        OBVIOUS
      <4>2. Render(p, FALSE, c)
        BY <3>3, <4>1 DEF Take, SavedArrives
      <4>3. 0 \in 0..MaxChanges
        BY ParamsAssumption
      <4>4. Loaded(page, a) \in PageRecord /\ Loaded(page, a).busy = page.busy
        BY <3>1, LoadedPage DEF Overwritten
      <4>5. p \in PageRecord /\ p.busy = page.busy
        BY <4>1, <4>3, <4>4 DEF PageRecord
      <4>6. QED
        BY <4>2, <4>5
    <3>4. CASE c.kind = "session"
      <4>1. PICK mode : mode = RestoredMode(a.who)
        OBVIOUS
      <4>2. mode \in Modes
        BY <4>1 DEF RestoredMode, Modes
      <4>3. PICK p : p = IF a.ok THEN [page EXCEPT !.mode = mode, !.auth =
                                         [who |-> a.who, mode |-> mode, login |-> 0]]
                         ELSE [page EXCEPT !.auth = NoAuth]
        OBVIOUS
      <4>4. Render(p, a.ok, c)
        BY <3>4, <4>1, <4>3 DEF Take, SessionArrives
      <4>5. p \in PageRecord /\ p.busy = page.busy
        BY <3>1, <4>2, <4>3 DEF PageRecord, CallRecord, NoAuth, Numbers, Somebody
      <4>6. QED
        BY <4>4, <4>5
    <3>5. QED
      BY <1>5, <3>2, <3>3, <3>4
  <2>3. QED
    BY <1>3, <1>5, <2>1, <2>2 DEF SignInKinds
<1>6. CASE c.kind = "profile"
  <2>1. /\ page'.busy = page.busy /\ calls' = Without(c) /\ nav' = nav
    BY <1>6 DEF Take, ProfileArrives, PageRecord, browser
  <2>2. QED
    BY <1>1, <1>4, <1>6, <2>1 DEF SignInKinds
<1>7. CASE c.kind = "change"
  <2>1. page'.busy = page.busy /\ nav' = nav
    BY <1>7 DEF Take, ChangeArrives, AfterChange, PageRecord, browser
  <2>2. Mine \ {c} \subseteq Mine'
    <3>1. CASE calls' = Without(c)
      BY <1>4, <3>1
    <3>2. CASE calls' = Without(c) (+) InBag(Call("saved", jar, 0, 0))
      BY <3>2, OthersRemain DEF Without, InBag, Mine, BagToSet
    <3>3. QED
      BY <1>7, <3>1, <3>2 DEF Take, ChangeArrives
  <2>3. QED
    BY <1>1, <1>7, <2>1, <2>2 DEF SignInKinds
<1>8. CASE c.kind = "login"
  <2>1. CASE a.ok
    BY <1>8, <2>1 DEF Take, LoginArrives, Fits, BusyForReason
  <2>2. CASE ~ a.ok
    <3>1. page' = [page EXCEPT !.busy = FALSE]
      BY <1>8, <2>2 DEF Take, LoginArrives
    <3>2. QED
      BY <3>1 DEF BusyForReason, PageRecord
  <2>3. QED
    BY <2>1, <2>2
<1>9. ASSUME Render(SignInFailed(page), FALSE, c)
      PROVE  BusyForReason'
  <2>1. SignInFailed(page) \in PageRecord /\ ~ SignInFailed(page).busy
    BY DEF SignInFailed, PageRecord, NoAuth, Numbers, Addresses, Somebody
  <2>2. QED
    BY <1>2, <1>9, <2>1
<1>10. CASE c.kind = "token"
  <2>1. CASE a.ok
    <3>1. PICK d : d = Call("userinfo", 0, c.login, c.code)
      OBVIOUS
    <3>2. d \in DOMAIN calls' /\ ~ d.gone /\ d.kind = "userinfo"
      <4>1. calls' = (calls (-) InBag(c)) (+) SetToBag({d})
        BY <1>10, <2>1, <3>1 DEF Take, TokenArrives, Without, InBag
      <4>2. QED
        BY <3>1, <4>1, OthersRemain DEF Call
    <3>3. QED
      BY <3>2 DEF BusyForReason, Awaited, Mine, BagToSet, SignInKinds
  <2>2. CASE ~ a.ok
    BY <1>9, <1>10, <2>2 DEF Take, TokenArrives
  <2>3. QED
    BY <2>1, <2>2
<1>11. CASE c.kind = "userinfo"
  <2>1. CASE a.ok
    <3>1. PICK mode : mode = LoginMode(asked[c.login].mode, a.who)
      OBVIOUS
    <3>2. PICK p : p = [page EXCEPT
                          !.auth = [who |-> a.who, mode |-> mode, login |-> c.login],
                          !.mode = mode, !.busy = FALSE, !.url = NoAddress]
      OBVIOUS
    <3>3. Render(p, TRUE, c)
      BY <1>11, <2>1, <3>1, <3>2 DEF Take, UserInfoArrives
    <3>4. p \in PageRecord /\ ~ p.busy
      <4>1. mode \in Modes
        BY <3>1 DEF LoginMode, Modes
      <4>2. a \in CallRecord
        BY ReturnedType DEF Held
      <4>3. QED
        BY <3>2, <4>1, <4>2 DEF PageRecord, CallRecord, Numbers, Addresses
    <3>5. QED
      BY <1>2, <3>3, <3>4
  <2>2. CASE ~ a.ok
    BY <1>9, <1>11, <2>2 DEF Take, UserInfoArrives
  <2>3. QED
    BY <2>1, <2>2
<1>12. CASE c.kind = "logout"
  <2>1. PICK p : p = [page EXCEPT !.auth = NoAuth, !.busy = FALSE,
                                  !.mode = "tenant", !.url = NoAddress]
    OBVIOUS
  <2>2. Render(p, FALSE, c)
    BY <1>12, <2>1 DEF Take, LogoutArrives
  <2>3. p \in PageRecord /\ ~ p.busy
    BY <2>1 DEF PageRecord, NoAuth, Numbers, Addresses, Somebody, Modes
  <2>4. QED
    BY <1>2, <2>2, <2>3
<1>13. QED
  BY <1>5, <1>6, <1>7, <1>8, <1>10, <1>11, <1>12 DEF Take

\* The answer to a call of the page is awaited like the call.
LEMMA AnsweredBusy ==
  ASSUME Held, BusyForReason, NEW c \in BagToSet(calls), Handle(c),
         UNCHANGED <<browser, page, mixed, out>>
  PROVE  BusyForReason'
<1>1. PICK ok, who, version : Reply(c, ok, who, version)
  BY DEF Handle, HandleLogin, HandleLogout, HandleSession, HandleBootstrap,
         HandleChange, HandleToken, HandleUserInfo
<1>2. PICK d : d = [c EXCEPT !.stage = "answered", !.cookie = 0,
                             !.ok = ok, !.who = who, !.version = version]
  OBVIOUS
<1>3. c \in CallRecord /\ d.kind = c.kind /\ d.gone = c.gone
  BY <1>2 DEF Held, TypeOK, BagToSet, CallRecord
<1>4. /\ Mine \ {c} \subseteq Mine' /\ (~ c.gone => d \in Mine')
  <2>1. calls' = IF c.gone THEN calls (-) InBag(c)
                 ELSE (calls (-) InBag(c)) (+) SetToBag({d})
    BY <1>1, <1>2 DEF Reply, InBag
  <2>2. IsABag(calls)
    BY DEF Held, TypeOK
  <2>3. CASE c.gone
    BY <2>1, <2>2, <2>3, OthersRemain DEF Mine, BagToSet
  <2>4. CASE ~ c.gone
    BY <1>3, <2>1, <2>2, <2>4, OthersRemain DEF Mine, BagToSet
  <2>5. QED
    BY <2>3, <2>4
<1>5. Awaited # {} => Awaited' # {}
  BY <1>3, <1>4 DEF Awaited, Mine
<1>6. QED
  BY <1>5 DEF BusyForReason, browser

LEMMA BusyKept == Held /\ BusyForReason /\ [Next]_vars => BusyForReason'
<1> SUFFICES ASSUME Held, BusyForReason, [Next]_vars
             PROVE  BusyForReason'
  OBVIOUS
<1> page \in PageRecord /\ IsABag(calls)
  BY DEF Held, TypeOK
<1>1. CASE \E c \in BagToSet(calls) : Handle(c) /\ UNCHANGED <<browser, page, mixed, out>>
  BY <1>1, AnsweredBusy
<1>2. CASE \E c, a : Returned(c, a)
  BY <1>2, TakenBusy
\* A call is added and nothing else happens to what is awaited.
<1>3. ASSUME NEW e, calls' = calls (+) InBag(e), nav' = nav, page'.busy = page.busy
      PROVE  BusyForReason'
  <2>1. DOMAIN calls \subseteq DOMAIN calls'
    BY <1>3, OthersRemain DEF InBag
  <2>2. QED
    BY <1>3, <2>1 DEF BusyForReason, Awaited, Mine, BagToSet
<1>4. ASSUME NEW n \in Logins, NEW a \in Asked, StartLogin(n, a)
      PROVE  BusyForReason'
  <2>1. PICK d : d = Call("login", jar, n, 0)
    OBVIOUS
  <2>2. d \in DOMAIN calls'
    BY <1>4, <2>1, OthersRemain DEF StartLogin, InBag
  <2>3. QED
    BY <2>1, <2>2 DEF BusyForReason, Awaited, Mine, BagToSet, SignInKinds, Call
<1>5. CASE SignOut \/ Refresh \/ Save
  <2>1. page'.busy = page.busy /\ nav' = nav
    BY <1>5 DEF SignOut, Refresh, Save, browser, PageRecord
  <2>2. PICK e : calls' = calls (+) InBag(e)
    BY <1>5 DEF SignOut, Refresh, Save
  <2>3. QED
    BY <1>3, <2>1, <2>2
<1>6. CASE Navigate \/ \E url \in Addresses : Open(url)
  <2>1. ~ page'.busy
    BY <1>6 DEF Navigate, Open, Shows, NewPage
  <2>2. QED
    BY <2>1 DEF BusyForReason
<1>7. ASSUME UNCHANGED <<calls, nav>>, page'.busy = page.busy
      PROVE  BusyForReason'
  BY <1>7 DEF BusyForReason, Awaited, Mine
<1>8. CASE \E m \in {"admin", "tenant"} : SwitchMode(m)
  BY <1>7, <1>8 DEF SwitchMode, browser, PageRecord
<1>9. CASE \/ \E n \in Logins, p \in People : OtherTab(n, p)
           \/ \E n \in Logins : SessionEnds(n) /\ UNCHANGED <<browser, page, mixed, out>>
           \/ UNCHANGED vars
  BY <1>7, <1>9 DEF OtherTab, SessionEnds, vars, browser
<1>10. QED
  BY <1>1, <1>2, <1>4, <1>5, <1>6, <1>8, <1>9, StepCases

\* The page is never left busy for nothing: there is a call of a sign-in that
\* it will take the answer of, or an address being loaded in its place.  So no
\* way a sign-in fails leaves the button disabled until a reload.
THEOREM NeverBusyForNothing == Spec => []BusyForReason
<1>1. Init => BusyForReason
  BY DEF Init, NewPage, BusyForReason
<1>2. QED
  BY <1>1, BusyKept, HeldAlways, PTL DEF Spec

=============================================================================
