------------------------ MODULE RefreshTokenProofs ------------------------
(***************************************************************************)
(* Theorems about RefreshToken for any grants, clients and refresh         *)
(* requests.                                                               *)
(***************************************************************************)
EXTENDS RefreshToken, TLAPS

\* The awaits at which a handler holds the token it found, and those of them
\* after the parent was saved and after the replacement was.
Carrying == {"revokeFamily", "saveParent", "saveNext", "resolveClaims",
             "saveAccessToken", "saveExtra"}
Issuing  == {"resolveClaims", "saveAccessToken", "saveExtra"}
Labels   == {"idle", "requireClient", "find"} \cup Carrying \cup Ended

Typed == /\ TypeOK
         /\ pc \in [Refreshes -> Labels]
         /\ at \in [Refreshes -> Nat]
         /\ asked \in [Refreshes -> Params \cup {None}]
         /\ local \in [Refreshes -> TokenRecord \cup {None}]

\* What no save of a token changes.
SameToken(a, b) == /\ a.family = b.family /\ a.client = b.client
                   /\ a.holder = b.holder /\ a.parent = b.parent

SameOwner(a, b) == /\ a.family = b.family /\ a.client = b.client
                   /\ a.holder = b.holder

Marked(k) == refreshTokens[k].revoked /\ refreshTokens[k].replacedBy # None

-----------------------------------------------------------------------------
(* Names of tokens. *)

LEMMA NamesOfTokens ==
  ASSUME NEW r \in Refreshes
  PROVE  /\ NextOf(r) \in Tokens /\ Extra(r) \in Tokens
         /\ NextOf(r) # None /\ Extra(r) # None
         /\ \A q \in Refreshes : /\ NextOf(r) # Extra(q)
                                 /\ NextOf(r) = NextOf(q) => r = q
                                 /\ Extra(r) = Extra(q) => r = q
         /\ \A g \in Grants : NextOf(r) # Root(g) /\ Extra(r) # Root(g)
<1>1. NextOf(r) \in Tokens /\ Extra(r) \in Tokens
  BY DEF Tokens
<1>2. \A q \in Refreshes : /\ NextOf(r) # Extra(q)
                           /\ NextOf(r) = NextOf(q) => r = q
                           /\ Extra(r) = Extra(q) => r = q
  BY DEF NextOf, Extra
<1>3. \A g \in Grants : NextOf(r) # Root(g) /\ Extra(r) # Root(g)
  BY DEF NextOf, Extra, Root
<1>4. QED
  BY <1>1, <1>2, <1>3, NamesAssumption

LEMMA NewTokenType ==
  ASSUME NEW family \in Families, NEW client \in Clients, NEW holder \in Holders,
         NEW expiresAt \in Nat, NEW parent \in Tokens \cup {None}
  PROVE  /\ NewToken(family, client, holder, expiresAt, parent) \in TokenRecord
         /\ NewToken(family, client, holder, expiresAt, parent) # None
<1>1. NewToken(family, client, holder, expiresAt, parent) \in TokenRecord
  BY DEF NewToken, TokenRecord
<1>2. QED
  BY <1>1, NoneAssumption

-----------------------------------------------------------------------------
(* What a handler holds at each of its awaits, and what the store holds    *)
(* about it.                                                               *)

HeldByRefresh(r) ==
  /\ pc[r] \in {"requireClient", "find", "answered"} \cup Carrying => asked[r] # None
  /\ asked[r] # None => pc[r] # "idle" /\ asked[r].token \in handed
  /\ pc[r] \in Carrying => /\ local[r] # None
                           /\ SameToken(local[r], refreshTokens[asked[r].token])
  /\ pc[r] \in {"saveNext", "answered"} \cup Issuing => Marked(asked[r].token)
  /\ pc[r] \in {"answered"} \cup Issuing => Saved(NextOf(r))
  /\ Saved(NextOf(r)) =>
       /\ asked[r] # None /\ pc[r] \in Issuing \cup Ended
       /\ refreshTokens[NextOf(r)].parent = asked[r].token
       /\ Marked(asked[r].token)
       /\ SameOwner(refreshTokens[NextOf(r)], refreshTokens[asked[r].token])
  /\ Saved(Extra(r)) => pc[r] = "answered" /\ refreshTokens[Extra(r)].parent = None
  /\ accessTokens[r] # None => pc[r] \in {"saveExtra"} \cup Ended /\ Saved(NextOf(r))

\* Clients are given tokens of the families grants began, and a mark names
\* the replacement of a request that found the marked token.
TokensTell ==
  /\ \A k \in handed : Saved(k) /\ refreshTokens[k].family \in Grants
  /\ \A g \in Grants : Saved(Root(g)) /\ refreshTokens[Root(g)].parent = None
  /\ \A k \in Tokens : Saved(k) /\ refreshTokens[k].family \in Refreshes
                         => k = Extra(refreshTokens[k].family)
  /\ \A k \in Tokens : Saved(k) /\ refreshTokens[k].replacedBy # None =>
       \E r \in Refreshes : /\ refreshTokens[k].replacedBy = NextOf(r)
                            /\ asked[r] # None /\ asked[r].token = k
                            /\ pc[r] \in {"saveNext"} \cup Issuing \cup Ended

Held == (\A r \in Refreshes : HeldByRefresh(r)) /\ TokensTell

LEMMA TypedInit == Init => Typed
<1> SUFFICES ASSUME Init PROVE Typed
  OBVIOUS
<1>1. \A g \in Grants : NewToken(g, ClientOf[g], HolderOf[g], RefreshTTL, None) \in TokenRecord
  BY NewTokenType, GrantsAssumption DEF Families
<1>2. refreshTokens \in [Tokens -> TokenRecord \cup {None}]
  <2>1. ASSUME NEW k \in Tokens, k[2] = "root" PROVE k[1] \in Grants
    BY <2>1 DEF Tokens, Root, NextOf, Extra
  <2>2. QED
    BY <1>1, <2>1 DEF Init
<1>3. handed \subseteq Tokens
  BY DEF Init, Tokens
<1>4. QED
  BY <1>2, <1>3, GrantsAssumption DEF Init, Typed, TypeOK, Labels

LEMMA HeldInit == Init => Held
<1> SUFFICES ASSUME Init PROVE Held
  OBVIOUS
<1> DEFINE New(g) == NewToken(g, ClientOf[g], HolderOf[g], RefreshTTL, None)
<1>1. ASSUME NEW r \in Refreshes
      PROVE  refreshTokens[NextOf(r)] = None /\ refreshTokens[Extra(r)] = None
  BY NamesOfTokens DEF Init, NextOf, Extra
<1>2. ASSUME NEW g \in Grants
      PROVE  /\ Root(g) \in Tokens /\ refreshTokens[Root(g)] = New(g)
             /\ New(g) # None /\ New(g).parent = None /\ New(g).family = g
             /\ New(g).replacedBy = None
  BY NewTokenType, GrantsAssumption DEF Init, Root, Tokens, Families, NewToken
<1>3. \A r \in Refreshes : HeldByRefresh(r)
  BY <1>1 DEF Init, HeldByRefresh, Saved, Carrying, Issuing
<1>4. TokensTell
  <2>1. \A k \in Tokens : Saved(k) => \E g \in Grants : k = Root(g)
    BY <1>1 DEF Tokens, Saved
  <2>2. \A k \in handed : \E g \in Grants : k = Root(g)
    BY DEF Init
  <2>3. QED
    BY <1>2, <2>1, <2>2, NamesAssumption DEF TokensTell, Saved
<1>5. QED
  BY <1>3, <1>4 DEF Held

-----------------------------------------------------------------------------
(* Types. *)

LEMMA RevokedToken ==
  ASSUME NEW t \in TokenRecord
  PROVE  LET u == [t EXCEPT !.revoked = TRUE] IN
         /\ u \in TokenRecord /\ u # None /\ u.revoked
         /\ SameToken(t, u) /\ u.replacedBy = t.replacedBy
<1>1. [t EXCEPT !.revoked = TRUE] \in TokenRecord
  BY DEF TokenRecord
<1>2. QED
  BY <1>1, NoneAssumption DEF TokenRecord, SameToken

LEMMA ReplacedToken ==
  ASSUME NEW t \in TokenRecord, NEW k \in Tokens
  PROVE  LET u == [t EXCEPT !.revoked = TRUE, !.replacedBy = k] IN
         /\ u \in TokenRecord /\ u # None /\ u.revoked
         /\ SameToken(t, u) /\ u.replacedBy = k
<1>1. [t EXCEPT !.revoked = TRUE, !.replacedBy = k] \in TokenRecord
  BY DEF TokenRecord
<1>2. QED
  BY <1>1, NoneAssumption DEF TokenRecord, SameToken

LEMMA TypedStep == Typed /\ Held /\ [Next]_vars => Typed'
<1> SUFFICES ASSUME Typed, Held, [Next]_vars PROVE Typed'
  OBVIOUS
<1> USE DEF Typed, TypeOK, stores, Labels, Carrying, Ended, Goto, Return, Refuse
<1>1. CASE Tick \/ UNCHANGED vars
  BY <1>1, GrantsAssumption DEF Tick, vars
<1>2. ASSUME NEW r \in Refreshes, Arrive(r) PROVE Typed'
  <2>1. PICK k \in handed, c \in Clients :
          asked' = [asked EXCEPT ![r] = [token |-> k, client |-> c, retiredBefore |-> Retired(k)]]
    BY <1>2 DEF Arrive
  <2>2. k \in Tokens /\ Saved(k) /\ Retired(k) \in BOOLEAN
    BY <2>1 DEF Held, TokensTell, Retired, Saved, TokenRecord
  <2>3. [token |-> k, client |-> c, retiredBefore |-> Retired(k)] \in Params
    BY <2>1, <2>2 DEF Params
  <2>4. QED
    BY <1>2, <2>1, <2>3 DEF Arrive
<1>3. ASSUME NEW r \in Refreshes, RequireClient(r) \/ ResolveClaims(r) \/ Abandon(r)
      PROVE  Typed'
  BY <1>3 DEF RequireClient, ResolveClaims, Abandon
<1>4. ASSUME NEW r \in Refreshes, Find(r) PROVE Typed'
  <2>1. asked[r] \in Params /\ asked[r].token \in Tokens
        /\ refreshTokens[asked[r].token] \in TokenRecord
    BY <1>4 DEF Find, Held, HeldByRefresh, TokensTell, Params, Saved
  <2>2. QED
    BY <1>4, <2>1 DEF Find
<1>5. ASSUME NEW r \in Refreshes, RevokeFamily(r) PROVE Typed'
  <2>1. local[r] \in TokenRecord /\ local[r].family \in Families
    BY <1>5 DEF RevokeFamily, Held, HeldByRefresh, TokenRecord
  <2>2. refreshTokens' \in [Tokens -> TokenRecord \cup {None}]
    BY <1>5, RevokedToken DEF RevokeFamily, Saved
  <2>3. QED
    BY <1>5, <2>1, <2>2 DEF RevokeFamily
<1>6. ASSUME NEW r \in Refreshes, SaveParent(r) PROVE Typed'
  <2>1. local[r] \in TokenRecord /\ NextOf(r) \in Tokens
    BY <1>6, NamesOfTokens DEF SaveParent, Held, HeldByRefresh
  <2>2. [local[r] EXCEPT !.revoked = TRUE, !.replacedBy = NextOf(r)] \in TokenRecord
    BY <2>1, ReplacedToken
  <2>3. refreshTokens' \in [Tokens -> TokenRecord \cup {None}]
    BY <1>6, <2>2 DEF SaveParent, SaveToken
  <2>4. QED
    BY <1>6, <2>3 DEF SaveParent
<1>7. ASSUME NEW r \in Refreshes, SaveNext(r) PROVE Typed'
  <2> DEFINE t == NewToken(local[r].family, local[r].client, local[r].holder,
                           at[r] + RefreshTTL, asked[r].token)
  <2>1. /\ local[r] \in TokenRecord /\ asked[r] \in Params
        /\ asked[r].token \in Tokens
    BY <1>7 DEF SaveNext, Held, HeldByRefresh, Params
  <2>2. t \in TokenRecord
    BY <2>1, NewTokenType, GrantsAssumption DEF TokenRecord
  <2>3. refreshTokens' = [refreshTokens EXCEPT ![NextOf(r)] = t]
    BY <1>7 DEF SaveNext, SaveToken
  <2> HIDE DEF t
  <2>4. refreshTokens' \in [Tokens -> TokenRecord \cup {None}]
    BY <2>2, <2>3
  <2>5. QED
    BY <1>7, <2>4 DEF SaveNext
<1>8. ASSUME NEW r \in Refreshes, SaveAccessToken(r) PROVE Typed'
  <2>1. local[r] \in TokenRecord /\ asked[r] \in Params
    BY <1>8 DEF SaveAccessToken, Held, HeldByRefresh
  <2>2. [client |-> asked[r].client, holder |-> local[r].holder] \in AccessToken
    BY <2>1 DEF AccessToken, TokenRecord, Params
  <2>3. QED
    BY <1>8, <2>2 DEF SaveAccessToken
<1>9. ASSUME NEW r \in Refreshes, SaveExtra(r) PROVE Typed'
  <2> DEFINE t == NewToken(r, asked[r].client, local[r].holder, at[r] + RefreshTTL, None)
  <2>1. local[r] \in TokenRecord /\ asked[r] \in Params
    BY <1>9 DEF SaveExtra, Held, HeldByRefresh
  <2>2. /\ asked[r].client \in Clients /\ local[r].holder \in Holders
        /\ at[r] + RefreshTTL \in Nat /\ r \in Families
    BY <2>1, GrantsAssumption DEF TokenRecord, Params, Families
  <2>3. t \in TokenRecord
    BY <2>2, NewTokenType
  <2>4. refreshTokens' = [refreshTokens EXCEPT ![Extra(r)] = t]
    BY <1>9 DEF SaveExtra, SaveToken
  <2> HIDE DEF t
  <2>5. refreshTokens' \in [Tokens -> TokenRecord \cup {None}]
    BY <2>3, <2>4
  <2>6. QED
    BY <1>9, <2>5, NamesOfTokens DEF SaveExtra
<1>10. QED
  BY <1>1, <1>2, <1>3, <1>4, <1>5, <1>6, <1>7, <1>8, <1>9 DEF Next

-----------------------------------------------------------------------------
(* Frames: what a step of one request leaves to the others, and what any   *)
(* step leaves of a saved token.                                           *)

StepOf(r) == \/ Arrive(r) \/ RequireClient(r) \/ Find(r) \/ RevokeFamily(r)
             \/ SaveParent(r) \/ SaveNext(r) \/ ResolveClaims(r)
             \/ SaveAccessToken(r) \/ SaveExtra(r) \/ Abandon(r)

Same(q) == /\ pc'[q] = pc[q] /\ asked'[q] = asked[q] /\ local'[q] = local[q]
           /\ at'[q] = at[q] /\ accessTokens'[q] = accessTokens[q]

LEMMA OthersKept ==
  ASSUME Typed, [Next]_vars, NEW q \in Refreshes, ~StepOf(q)
  PROVE  Same(q)
<1> USE DEF Typed, TypeOK, Same, stores, Goto, Return, Refuse
<1>1. CASE Tick \/ UNCHANGED vars
  BY <1>1 DEF Tick, vars
<1>2. ASSUME NEW r \in Refreshes, r # q, Arrive(r) \/ RequireClient(r) \/ Find(r)
      PROVE  Same(q)
  BY <1>2 DEF Arrive, RequireClient, Find
<1>3. ASSUME NEW r \in Refreshes, r # q,
             RevokeFamily(r) \/ SaveParent(r) \/ SaveNext(r) \/ ResolveClaims(r)
      PROVE  Same(q)
  BY <1>3 DEF RevokeFamily, SaveParent, SaveNext, ResolveClaims
<1>4. ASSUME NEW r \in Refreshes, r # q, SaveAccessToken(r) \/ SaveExtra(r) \/ Abandon(r)
      PROVE  Same(q)
  BY <1>4 DEF SaveAccessToken, SaveExtra, Abandon
<1>5. QED
  BY <1>1, <1>2, <1>3, <1>4 DEF Next, StepOf

\* A saved token stays saved, its family, client, holder and parent stay as
\* they are, and its marks are not taken back.
Kept(k) == /\ refreshTokens'[k] # None
           /\ SameToken(refreshTokens[k], refreshTokens'[k])
           /\ refreshTokens[k].revoked => refreshTokens'[k].revoked
           /\ refreshTokens[k].replacedBy # None => refreshTokens'[k].replacedBy # None

LEMMA TokensKept ==
  ASSUME Typed, Held, [Next]_vars, NEW k \in Tokens, Saved(k)
  PROVE  Kept(k)
<1>1. refreshTokens[k] \in TokenRecord
  BY DEF Typed, TypeOK, Saved
<1>2. ASSUME UNCHANGED refreshTokens PROVE Kept(k)
  BY <1>2 DEF Kept, SameToken, Saved
<1>3. ASSUME NEW r \in Refreshes, RevokeFamily(r) PROVE Kept(k)
  <2>1. refreshTokens'[k] \in {refreshTokens[k], [refreshTokens[k] EXCEPT !.revoked = TRUE]}
    BY <1>3 DEF RevokeFamily
  <2>2. QED
    BY <1>1, <2>1, RevokedToken DEF Kept, Saved, SameToken
<1>4. ASSUME NEW r \in Refreshes, SaveParent(r) PROVE Kept(k)
  <2> DEFINE t == [local[r] EXCEPT !.revoked = TRUE, !.replacedBy = NextOf(r)]
  <2>1. /\ local[r] \in TokenRecord /\ NextOf(r) \in Tokens /\ NextOf(r) # None
        /\ SameToken(local[r], refreshTokens[asked[r].token])
    BY <1>4, NamesOfTokens DEF SaveParent, Held, HeldByRefresh, Carrying, Typed
  <2>2. t # None /\ t.revoked /\ t.replacedBy # None /\ SameToken(local[r], t)
    BY <2>1, ReplacedToken
  <2>3. refreshTokens' = [refreshTokens EXCEPT ![asked[r].token] = t]
    BY <1>4 DEF SaveParent, SaveToken
  <2> HIDE DEF t
  <2>4. QED
    BY <2>1, <2>2, <2>3 DEF Typed, TypeOK, Kept, Saved, SameToken
<1>5. ASSUME NEW r \in Refreshes, SaveNext(r) PROVE Kept(k)
  <2>1. ~Saved(NextOf(r))
    BY <1>5 DEF SaveNext, Held, HeldByRefresh, Issuing, Ended
  <2>2. UNCHANGED refreshTokens[k]
    BY <1>5, <2>1 DEF SaveNext, SaveToken, Typed, TypeOK
  <2>3. QED
    BY <2>2 DEF Kept, SameToken, Saved
<1>6. ASSUME NEW r \in Refreshes, SaveExtra(r) PROVE Kept(k)
  <2>1. ~Saved(Extra(r))
    BY <1>6 DEF SaveExtra, Held, HeldByRefresh
  <2>2. UNCHANGED refreshTokens[k]
    BY <1>6, <2>1 DEF SaveExtra, SaveToken, Typed, TypeOK
  <2>3. QED
    BY <2>2 DEF Kept, SameToken, Saved
<1>7. QED
  BY <1>2, <1>3, <1>4, <1>5, <1>6
     DEF Next, vars, stores, Tick, Arrive, RequireClient, Find, ResolveClaims,
         SaveAccessToken, Abandon

\* A token is saved for the first time only by the request it is named for.
LEMMA TokensSavedByOwner ==
  ASSUME Typed, Held, [Next]_vars, NEW k \in Tokens, ~Saved(k), Saved(k)'
  PROVE  \E r \in Refreshes : \/ k = NextOf(r) /\ SaveNext(r)
                              \/ k = Extra(r) /\ SaveExtra(r)
<1>1. ASSUME NEW r \in Refreshes, RevokeFamily(r) PROVE FALSE
  BY <1>1 DEF RevokeFamily, Saved
<1>2. ASSUME NEW r \in Refreshes, SaveParent(r) PROVE FALSE
  <2>1. Saved(asked[r].token)
    BY <1>2 DEF SaveParent, Held, HeldByRefresh, TokensTell, Carrying
  <2>2. QED
    BY <1>2, <2>1 DEF SaveParent, SaveToken, Saved, Typed, TypeOK
<1>3. ASSUME NEW r \in Refreshes, SaveNext(r) PROVE k = NextOf(r)
  BY <1>3 DEF SaveNext, SaveToken, Saved, Typed, TypeOK
<1>4. ASSUME NEW r \in Refreshes, SaveExtra(r) PROVE k = Extra(r)
  BY <1>4 DEF SaveExtra, SaveToken, Saved, Typed, TypeOK
<1>5. QED
  BY <1>1, <1>2, <1>3, <1>4
     DEF Next, vars, stores, Tick, Arrive, RequireClient, Find, ResolveClaims,
         SaveAccessToken, Abandon, Saved

-----------------------------------------------------------------------------
(* Held is kept. *)

LEMMA HandedGrows ==
  ASSUME [Next]_vars
  PROVE  handed \subseteq handed'
BY DEF Next, vars, stores, Tick, Arrive, RequireClient, Find, RevokeFamily, SaveParent,
       SaveNext, ResolveClaims, SaveAccessToken, SaveExtra, Abandon

\* The token a request came with is saved, and stays so.
LEMMA AskedToken ==
  ASSUME Typed, Held, [Next]_vars, NEW r \in Refreshes, asked[r] # None
  PROVE  /\ asked[r] \in Params /\ asked[r].token \in Tokens
         /\ asked[r].token \in handed /\ asked[r].token \in handed'
         /\ Saved(asked[r].token) /\ Kept(asked[r].token)
<1>1. asked[r] \in Params /\ asked[r].token \in Tokens /\ asked[r].token \in handed
  BY DEF Typed, Params, Held, HeldByRefresh
<1>2. Saved(asked[r].token)
  BY <1>1 DEF Held, TokensTell
<1>3. Kept(asked[r].token)
  BY <1>1, <1>2, TokensKept
<1>4. QED
  BY <1>1, <1>2, <1>3, HandedGrows

LEMMA HeldByOthers ==
  ASSUME Typed, Held, [Next]_vars, NEW r \in Refreshes, ~StepOf(r)
  PROVE  HeldByRefresh(r)'
<1>1. Same(r)
  BY OthersKept
<1>2. NextOf(r) \in Tokens /\ Extra(r) \in Tokens
  BY NamesOfTokens
<1>3. /\ Saved(NextOf(r))' <=> Saved(NextOf(r))
      /\ Saved(Extra(r))' <=> Saved(Extra(r))
  BY <1>2, NamesOfTokens, TokensSavedByOwner, TokensKept DEF StepOf, Kept, Saved
<1>4. /\ Saved(NextOf(r)) => Kept(NextOf(r))
      /\ Saved(Extra(r)) => Kept(Extra(r))
  BY <1>2, TokensKept
<1>5. HeldByRefresh(r)
  BY DEF Held
<1>6. CASE asked[r] = None
  BY <1>1, <1>3, <1>4, <1>5, <1>6 DEF HeldByRefresh, Same, Kept, SameToken, Carrying, Issuing
<1>7. CASE asked[r] # None
  <2>1. asked[r].token \in handed' /\ Kept(asked[r].token)
    BY <1>7, AskedToken
  <2>2. QED
    BY <1>1, <1>3, <1>4, <1>5, <1>7, <2>1
       DEF HeldByRefresh, Same, Kept, SameToken, SameOwner, Marked
<1>8. QED
  BY <1>6, <1>7

LEMMA HeldByItself ==
  ASSUME Typed, Typed', Held, [Next]_vars, NEW r \in Refreshes, StepOf(r)
  PROVE  HeldByRefresh(r)'
<1>1. HeldByRefresh(r)
  BY DEF Held
<1>2. /\ NextOf(r) \in Tokens /\ Extra(r) \in Tokens /\ NextOf(r) # None
      /\ Saved(NextOf(r)) => Kept(NextOf(r))
      /\ Saved(Extra(r)) => Kept(Extra(r))
      /\ ~SaveNext(r) => (Saved(NextOf(r))' <=> Saved(NextOf(r)))
      /\ ~SaveExtra(r) => (Saved(Extra(r))' <=> Saved(Extra(r)))
  BY NamesOfTokens, TokensSavedByOwner, TokensKept DEF Kept, Saved
<1>3. asked[r] # None =>
        /\ asked[r].token \in handed' /\ Kept(asked[r].token) /\ asked[r].token \in Tokens
        /\ refreshTokens[asked[r].token] \in TokenRecord
  BY AskedToken DEF Typed, TypeOK, Saved
<1> USE DEF Goto, Return, Refuse, Carrying, Issuing, Ended, stores
<1>4. CASE Arrive(r)
  <2>1. /\ pc[r] = "idle" /\ pc'[r] = "requireClient" /\ asked'[r] # None
        /\ asked'[r].token \in handed' /\ accessTokens'[r] = accessTokens[r]
        /\ UNCHANGED refreshTokens
    <3>1. asked'[r] # None
      <4>1. PICK k \in handed, c \in Clients :
              asked' = [asked EXCEPT ![r] = [token |-> k, client |-> c,
                                             retiredBefore |-> Retired(k)]]
        BY <1>4 DEF Arrive
      <4>2. k \in Tokens /\ Retired(k) \in BOOLEAN
        BY <4>1 DEF Typed, TypeOK, Held, TokensTell, Retired, Saved, TokenRecord
      <4>3. [token |-> k, client |-> c, retiredBefore |-> Retired(k)] \in Params
        BY <4>1, <4>2 DEF Params
      <4>4. QED
        BY <4>1, <4>3, NoneAssumption DEF Typed
    <3>2. QED
      BY <1>4, <3>1 DEF Arrive, Typed, TypeOK
  <2>2. QED
    BY <1>1, <2>1 DEF HeldByRefresh, Saved
<1>5. CASE RequireClient(r)
  BY <1>1, <1>5 DEF RequireClient, HeldByRefresh, Saved, Typed, TypeOK
<1>6. CASE Find(r)
  <2>1. /\ pc[r] = "find" /\ UNCHANGED <<refreshTokens, accessTokens, handed>>
        /\ \/ pc'[r] = "refused" /\ asked'[r] = None
           \/ /\ pc'[r] \in {"revokeFamily", "saveParent"} /\ asked'[r] = asked[r]
              /\ local'[r] = refreshTokens[asked[r].token]
    BY <1>6 DEF Find, Typed, TypeOK
  <2>2. QED
    BY <1>1, <1>3, <2>1, NoneAssumption DEF HeldByRefresh, Saved, SameToken
<1>7. CASE RevokeFamily(r)
  <2>1. /\ pc[r] = "revokeFamily" /\ pc'[r] = "refused" /\ asked'[r] = None
        /\ accessTokens'[r] = accessTokens[r]
    BY <1>7 DEF RevokeFamily, Typed, TypeOK
  <2>2. QED
    BY <1>1, <1>2, <1>7, <2>1 DEF HeldByRefresh, SaveNext, SaveExtra
<1>8. CASE SaveParent(r)
  <2> DEFINE t == [local[r] EXCEPT !.revoked = TRUE, !.replacedBy = NextOf(r)]
  <2>1. /\ pc[r] = "saveParent" /\ pc'[r] = "saveNext"
        /\ UNCHANGED <<asked, local>> /\ accessTokens'[r] = accessTokens[r]
        /\ refreshTokens' = [refreshTokens EXCEPT ![asked[r].token] = t]
    BY <1>8 DEF SaveParent, SaveToken, Typed, TypeOK
  <2>2. local[r] \in TokenRecord /\ asked[r] # None
    BY <1>1, <2>1 DEF HeldByRefresh, Typed
  <2>3. t.revoked /\ t.replacedBy # None /\ SameToken(local[r], t)
    BY <1>2, <2>2, ReplacedToken
  <2> HIDE DEF t
  <2>4. Marked(asked[r].token)' /\ SameToken(local[r], refreshTokens'[asked[r].token])
    BY <1>3, <2>1, <2>2, <2>3 DEF Marked, Typed, TypeOK
  <2>5. QED
    BY <1>1, <1>2, <1>3, <2>1, <2>2, <2>4 DEF HeldByRefresh, SaveNext, SaveExtra
<1>9. CASE SaveNext(r)
  <2> DEFINE t == NewToken(local[r].family, local[r].client, local[r].holder,
                           at[r] + RefreshTTL, asked[r].token)
  <2>1. /\ pc[r] = "saveNext" /\ pc'[r] = "resolveClaims"
        /\ UNCHANGED <<asked, local>> /\ accessTokens'[r] = accessTokens[r]
        /\ refreshTokens' = [refreshTokens EXCEPT ![NextOf(r)] = t]
    BY <1>9 DEF SaveNext, SaveToken, Typed, TypeOK
  <2>2. local[r] \in TokenRecord /\ asked[r] # None
    BY <1>1, <2>1 DEF HeldByRefresh, Typed
  <2>3. t \in TokenRecord /\ t # None
    <3>1. /\ local[r].family \in Families /\ local[r].client \in Clients
          /\ local[r].holder \in Holders /\ at[r] + RefreshTTL \in Nat
      BY <2>2, GrantsAssumption DEF TokenRecord, Typed
    <3>2. QED
      BY <1>3, <2>2, <3>1, NewTokenType
  <2>4. t.parent = asked[r].token /\ SameOwner(t, local[r])
    BY DEF NewToken, SameOwner
  <2> HIDE DEF t
  <2>5. refreshTokens'[NextOf(r)] = t
    BY <1>2, <2>1 DEF Typed, TypeOK
  <2>6. SameToken(local[r], refreshTokens'[asked[r].token])
    BY <1>1, <1>3, <2>1, <2>2 DEF HeldByRefresh, Kept, SameToken
  <2>7. QED
    BY <1>1, <1>2, <1>3, <2>1, <2>2, <2>3, <2>4, <2>5, <2>6
       DEF HeldByRefresh, Saved, SaveExtra, SameOwner, SameToken, Marked, Kept
<1>10. CASE ResolveClaims(r)
  BY <1>1, <1>3, <1>10 DEF ResolveClaims, HeldByRefresh, Saved, Typed, TypeOK, Marked
<1>11. CASE SaveAccessToken(r)
  BY <1>1, <1>3, <1>11 DEF SaveAccessToken, HeldByRefresh, Saved, Typed, TypeOK, Marked
<1>12. CASE SaveExtra(r)
  <2> DEFINE t == NewToken(r, asked[r].client, local[r].holder, at[r] + RefreshTTL, None)
  <2>1. /\ pc[r] = "saveExtra" /\ pc'[r] = "answered"
        /\ UNCHANGED asked /\ accessTokens'[r] = accessTokens[r]
        /\ refreshTokens' = [refreshTokens EXCEPT ![Extra(r)] = t]
    BY <1>12 DEF SaveExtra, SaveToken, Typed, TypeOK
  <2>2. t.parent = None
    BY DEF NewToken
  <2> HIDE DEF t
  <2>3. refreshTokens'[Extra(r)].parent = None
    BY <1>2, <2>1, <2>2 DEF Typed, TypeOK
  <2>4. QED
    BY <1>1, <1>2, <1>3, <2>1, <2>3
       DEF HeldByRefresh, SaveNext, Kept, SameToken, SameOwner, Marked
<1>13. CASE Abandon(r)
  <2>1. /\ pc[r] \notin {"idle"} \cup Ended /\ pc'[r] = "refused"
        /\ UNCHANGED <<refreshTokens, accessTokens, handed>>
        /\ \/ asked'[r] = asked[r]
           \/ /\ asked'[r] = None
              /\ pc[r] \in {"requireClient", "find", "revokeFamily", "saveParent"}
    BY <1>13 DEF Abandon, Typed, TypeOK
  <2>2. QED
    BY <1>1, <2>1 DEF HeldByRefresh, Saved, Marked, Labels, Typed
<1>14. QED
  BY <1>4, <1>5, <1>6, <1>7, <1>8, <1>9, <1>10, <1>11, <1>12, <1>13 DEF StepOf

\* Once a request has saved anything, what it asked for is not forgotten.
Saving == {"saveNext"} \cup Issuing \cup Ended

LEMMA AskedStays ==
  ASSUME Typed, [Next]_vars, NEW r \in Refreshes, pc[r] \in Saving
  PROVE  asked'[r] = asked[r] /\ pc'[r] \in Saving
<1>1. CASE StepOf(r)
  BY <1>1 DEF StepOf, Saving, Issuing, Ended, Typed, TypeOK, Arrive, RequireClient, Find,
              RevokeFamily, SaveParent, SaveNext, ResolveClaims, SaveAccessToken,
              SaveExtra, Abandon, Goto, Return
<1>2. CASE ~StepOf(r)
  BY <1>2, OthersKept DEF Same
<1>3. QED
  BY <1>1, <1>2

LEMMA HandedBySaveExtra ==
  ASSUME [Next]_vars, NEW k \in handed', k \notin handed
  PROVE  \E r \in Refreshes : SaveExtra(r) /\ k = NextOf(r)
BY DEF Next, vars, stores, Tick, Arrive, RequireClient, Find, RevokeFamily, SaveParent,
       SaveNext, ResolveClaims, SaveAccessToken, SaveExtra, Abandon

\* Only SaveParent changes the mark of a saved token.
LEMMA MarkedBySaveParent ==
  ASSUME Typed, Held, [Next]_vars, NEW k \in Tokens, Saved(k),
         refreshTokens'[k].replacedBy # refreshTokens[k].replacedBy
  PROVE  \E r \in Refreshes : /\ SaveParent(r) /\ asked[r].token = k
                              /\ refreshTokens'[k].replacedBy = NextOf(r)
<1>1. refreshTokens[k] \in TokenRecord
  BY DEF Typed, TypeOK, Saved
<1>2. ASSUME NEW r \in Refreshes, RevokeFamily(r) PROVE FALSE
  <2>1. refreshTokens'[k] \in {refreshTokens[k], [refreshTokens[k] EXCEPT !.revoked = TRUE]}
    BY <1>2 DEF RevokeFamily
  <2>2. QED
    BY <1>1, <2>1, RevokedToken
<1>3. ASSUME NEW r \in Refreshes, SaveParent(r)
      PROVE  asked[r].token = k /\ refreshTokens'[k].replacedBy = NextOf(r)
  <2> DEFINE t == [local[r] EXCEPT !.revoked = TRUE, !.replacedBy = NextOf(r)]
  <2>1. refreshTokens' = [refreshTokens EXCEPT ![asked[r].token] = t]
    BY <1>3 DEF SaveParent, SaveToken
  <2>2. t.replacedBy = NextOf(r)
    <3>1. local[r] \in TokenRecord /\ NextOf(r) \in Tokens
      BY <1>3, NamesOfTokens DEF SaveParent, Held, HeldByRefresh, Carrying, Typed
    <3>2. QED
      BY <3>1, ReplacedToken
  <2> HIDE DEF t
  <2>3. QED
    BY <2>1, <2>2 DEF Typed, TypeOK
<1>4. ASSUME NEW r \in Refreshes, SaveNext(r) PROVE FALSE
  BY <1>4 DEF SaveNext, SaveToken, Held, HeldByRefresh, Issuing, Ended, Typed, TypeOK
<1>5. ASSUME NEW r \in Refreshes, SaveExtra(r) PROVE FALSE
  BY <1>5 DEF SaveExtra, SaveToken, Held, HeldByRefresh, Typed, TypeOK
<1>6. QED
  BY <1>2, <1>3, <1>4, <1>5
     DEF Next, vars, stores, Tick, Arrive, RequireClient, Find, ResolveClaims,
         SaveAccessToken, Abandon

\* What the two saves of new tokens make of them.
LEMMA NextSaved ==
  ASSUME Typed, Held, NEW r \in Refreshes, SaveNext(r)
  PROVE  LET t == refreshTokens'[NextOf(r)] IN
         /\ SameOwner(t, local[r]) /\ t.parent = asked[r].token /\ t.replacedBy = None
         /\ SameToken(local[r], refreshTokens[asked[r].token]) /\ asked[r] # None
<1>1. refreshTokens'[NextOf(r)] = NewToken(local[r].family, local[r].client,
                                    local[r].holder, at[r] + RefreshTTL, asked[r].token)
  BY NamesOfTokens DEF SaveNext, SaveToken, Typed, TypeOK
<1>2. SameToken(local[r], refreshTokens[asked[r].token]) /\ asked[r] # None
  BY DEF SaveNext, Held, HeldByRefresh, Carrying
<1>3. QED
  BY <1>1, <1>2 DEF NewToken, SameOwner

LEMMA ExtraSaved ==
  ASSUME Typed, NEW r \in Refreshes, SaveExtra(r)
  PROVE  LET t == refreshTokens'[Extra(r)] IN
         t.family = r /\ t.parent = None /\ t.replacedBy = None
<1>1. refreshTokens'[Extra(r)] = NewToken(r, asked[r].client, local[r].holder,
                                          at[r] + RefreshTTL, None)
  BY NamesOfTokens DEF SaveExtra, SaveToken, Typed, TypeOK
<1>2. QED
  BY <1>1 DEF NewToken

LEMMA TokensTellStep ==
  ASSUME Typed, Held, [Next]_vars
  PROVE  TokensTell'
<1>1. TokensTell
  BY DEF Held
<1>2. ASSUME NEW k \in handed' PROVE Saved(k)' /\ refreshTokens'[k].family \in Grants
  <2>1. PICK m \in handed : \/ k = m
                            \/ \E r \in Refreshes : /\ k = NextOf(r) /\ Saved(k)
                                                    /\ m = asked[r].token
                                                    /\ SameOwner(refreshTokens[k], refreshTokens[m])
    <3>1. CASE k \in handed
      BY <3>1
    <3>2. CASE k \notin handed
      <4>1. PICK r \in Refreshes : SaveExtra(r) /\ k = NextOf(r)
        BY <3>2, <1>2, HandedBySaveExtra
      <4>2. Saved(NextOf(r)) /\ asked[r].token \in handed
            /\ SameOwner(refreshTokens[NextOf(r)], refreshTokens[asked[r].token])
        BY <4>1 DEF SaveExtra, Held, HeldByRefresh, Issuing
      <4>3. QED
        BY <4>1, <4>2
    <3>3. QED
      BY <3>1, <3>2
  <2>2. k \in Tokens /\ Saved(k) /\ refreshTokens[k].family \in Grants
    BY <1>1, <2>1, NamesOfTokens DEF TokensTell, SameOwner, Typed, TypeOK
  <2>3. Kept(k)
    BY <2>2, TokensKept
  <2>4. QED
    BY <2>2, <2>3 DEF Kept, SameToken, Saved
<1>3. ASSUME NEW g \in Grants PROVE Saved(Root(g))' /\ refreshTokens'[Root(g)].parent = None
  <2>1. Root(g) \in Tokens /\ Saved(Root(g)) /\ refreshTokens[Root(g)].parent = None
    BY <1>1 DEF Tokens, TokensTell
  <2>2. Kept(Root(g))
    BY <2>1, TokensKept
  <2>3. QED
    BY <2>1, <2>2 DEF Kept, SameToken, Saved
<1>4. ASSUME NEW k \in Tokens, Saved(k)', refreshTokens'[k].family \in Refreshes
      PROVE  k = Extra(refreshTokens'[k].family)
  <2>1. CASE Saved(k)
    <3>1. Kept(k)
      BY <2>1, TokensKept
    <3>2. QED
      BY <1>1, <1>4, <2>1, <3>1 DEF TokensTell, Kept, SameToken
  <2>2. CASE ~Saved(k)
    <3>1. PICK r \in Refreshes : \/ k = NextOf(r) /\ SaveNext(r)
                                 \/ k = Extra(r) /\ SaveExtra(r)
      BY <1>4, <2>2, TokensSavedByOwner
    <3>2. CASE SaveNext(r) /\ k = NextOf(r)
      <4>1. asked[r].token \in handed /\ refreshTokens[asked[r].token].family \in Grants
        BY <3>2, <1>1, NextSaved DEF Held, HeldByRefresh, TokensTell
      <4>2. refreshTokens'[k].family = refreshTokens[asked[r].token].family
        BY <3>2, NextSaved DEF SameOwner, SameToken
      <4>3. QED
        BY <1>4, <4>1, <4>2, NamesAssumption
    <3>3. CASE SaveExtra(r) /\ k = Extra(r)
      BY <3>3, ExtraSaved
    <3>4. QED
      BY <3>1, <3>2, <3>3
  <2>3. QED
    BY <2>1, <2>2
<1>5. ASSUME NEW k \in Tokens, Saved(k)', refreshTokens'[k].replacedBy # None
      PROVE  \E r \in Refreshes : /\ refreshTokens'[k].replacedBy = NextOf(r)
                                  /\ asked'[r] # None /\ asked'[r].token = k
                                  /\ pc'[r] \in Saving
  <2>1. Saved(k)
    BY <1>5, TokensSavedByOwner, NextSaved, ExtraSaved
  <2>2. CASE refreshTokens'[k].replacedBy = refreshTokens[k].replacedBy
    <3>1. PICK r \in Refreshes : /\ refreshTokens[k].replacedBy = NextOf(r)
                                 /\ asked[r] # None /\ asked[r].token = k
                                 /\ pc[r] \in Saving
      BY <1>1, <1>5, <2>1, <2>2 DEF TokensTell, Saving
    <3>2. asked'[r] = asked[r] /\ pc'[r] \in Saving
      BY <3>1, AskedStays
    <3>3. QED
      BY <2>2, <3>1, <3>2
  <2>3. CASE refreshTokens'[k].replacedBy # refreshTokens[k].replacedBy
    <3>1. PICK r \in Refreshes : /\ SaveParent(r) /\ asked[r].token = k
                                 /\ refreshTokens'[k].replacedBy = NextOf(r)
      BY <2>1, <2>3, MarkedBySaveParent
    <3>2. asked[r] # None /\ UNCHANGED asked /\ pc'[r] = "saveNext"
      BY <3>1 DEF SaveParent, Goto, Held, HeldByRefresh, Carrying, Typed
    <3>3. QED
      BY <3>1, <3>2 DEF Saving
  <2>4. QED
    BY <2>2, <2>3
<1>6. QED
  BY <1>2, <1>3, <1>4, <1>5 DEF TokensTell, Saving

LEMMA HeldStep == Typed /\ Held /\ [Next]_vars => Typed' /\ Held'
<1> SUFFICES ASSUME Typed, Held, [Next]_vars PROVE Typed' /\ Held'
  OBVIOUS
<1>1. Typed'
  BY TypedStep
<1>2. ASSUME NEW r \in Refreshes PROVE HeldByRefresh(r)'
  BY <1>1, HeldByItself, HeldByOthers
<1>3. TokensTell'
  BY TokensTellStep
<1>4. QED
  BY <1>1, <1>2, <1>3 DEF Held

LEMMA HeldAlways == Spec => [](Typed /\ Held)
  BY TypedInit, HeldInit, HeldStep, PTL DEF Spec

\* Every reachable state is well typed.
THEOREM TypeCorrect == Spec => []TypeOK
<1>1. Typed => TypeOK
  BY DEF Typed
<1>2. QED
  BY <1>1, HeldAlways, PTL

-----------------------------------------------------------------------------
(* Lineage, and revocation for good. *)

LEMMA HeldGivesLineage == Typed /\ Held => Lineage
<1> SUFFICES ASSUME Typed, Held, NEW k \in Tokens, Saved(k)
             PROVE  LET token == refreshTokens[k] IN
                    /\ token.parent # None =>
                         LET parent == refreshTokens[token.parent] IN
                         /\ parent # None /\ parent.revoked /\ parent.replacedBy # None
                         /\ <<token.family, token.client, token.holder>>
                              = <<parent.family, parent.client, parent.holder>>
                    /\ token.replacedBy # None /\ Saved(token.replacedBy)
                         => refreshTokens[token.replacedBy].parent = k
  BY DEF Lineage
<1>1. ASSUME refreshTokens[k].parent # None
      PROVE  LET parent == refreshTokens[refreshTokens[k].parent] IN
             /\ parent # None /\ parent.revoked /\ parent.replacedBy # None
             /\ SameOwner(refreshTokens[k], parent)
  <2>1. PICK r \in Refreshes : k = NextOf(r)
    BY <1>1 DEF Held, HeldByRefresh, TokensTell, Tokens
  <2>2. /\ asked[r] # None /\ refreshTokens[k].parent = asked[r].token
        /\ Marked(asked[r].token)
        /\ SameOwner(refreshTokens[k], refreshTokens[asked[r].token])
    BY <2>1 DEF Held, HeldByRefresh
  <2>3. Saved(asked[r].token)
    BY <2>2 DEF Held, HeldByRefresh, TokensTell
  <2>4. QED
    BY <2>2, <2>3 DEF Marked, Saved
<1>2. ASSUME refreshTokens[k].replacedBy # None, Saved(refreshTokens[k].replacedBy)
      PROVE  refreshTokens[refreshTokens[k].replacedBy].parent = k
  <2>1. PICK r \in Refreshes : /\ refreshTokens[k].replacedBy = NextOf(r)
                               /\ asked[r] # None /\ asked[r].token = k
    BY <1>2 DEF Held, TokensTell
  <2>2. QED
    BY <1>2, <2>1 DEF Held, HeldByRefresh
<1>3. QED
  BY <1>1, <1>2 DEF SameOwner

\* A replacement has its parent's family, client and holder, and its parent is
\* saved, revoked and marked (issueRefreshToken saves the parent first), in
\* whatever order any number of refreshes, failures and revocations run.
THEOREM RotationKeepsLineage == Spec => []Lineage
  BY HeldAlways, HeldGivesLineage, PTL

\* No write of a copy found earlier brings a revoked token back
\* (SaveParent against RevokeFamily and against another SaveParent).
THEOREM RevokedForGood == Spec => RevokedStaysRevoked
<1>1. Typed /\ Held /\ [Next]_vars =>
        [\A k \in Tokens : Saved(k) /\ refreshTokens[k].revoked =>
           Saved(k)' /\ refreshTokens'[k].revoked]_vars
  BY TokensKept DEF Kept, Saved
<1>2. QED
  BY <1>1, HeldAlways, PTL DEF Spec, RevokedStaysRevoked

-----------------------------------------------------------------------------
(* A retired token is of no use to a request that arrives later. *)

TooLate(r) ==
  asked[r] # None /\ asked[r].retiredBefore =>
    /\ Retired(asked[r].token)
    /\ pc[r] \in {"requireClient", "find", "revokeFamily", "refused"}
    /\ accessTokens[r] = None /\ ~Saved(NextOf(r)) /\ ~Saved(Extra(r))

LEMMA TooLateStep ==
  ASSUME Typed, Held, [Next]_vars, NEW r \in Refreshes, TooLate(r)
  PROVE  TooLate(r)'
<1> USE DEF Goto, Return, Refuse, stores
<1>1. /\ NextOf(r) \in Tokens /\ Extra(r) \in Tokens
      /\ ~SaveNext(r) => (Saved(NextOf(r))' => Saved(NextOf(r)))
      /\ ~SaveExtra(r) => (Saved(Extra(r))' => Saved(Extra(r)))
  BY NamesOfTokens, TokensSavedByOwner
<1>2. CASE Arrive(r)
  <2>1. PICK k \in handed, c \in Clients :
          asked' = [asked EXCEPT ![r] = [token |-> k, client |-> c,
                                         retiredBefore |-> Retired(k)]]
    BY <1>2 DEF Arrive
  <2>2. asked'[r].token = k /\ asked'[r].retiredBefore = Retired(k)
    BY <2>1 DEF Typed
  <2>3. /\ pc[r] = "idle" /\ pc'[r] = "requireClient"
        /\ UNCHANGED <<refreshTokens, accessTokens>>
    BY <1>2 DEF Arrive, Typed
  <2>4. accessTokens[r] = None /\ ~Saved(NextOf(r)) /\ ~Saved(Extra(r))
    BY <2>3 DEF Held, HeldByRefresh, Issuing, Ended
  <2>5. Retired(k) => Retired(asked[r].token)'
    BY <2>2, <2>3 DEF Retired
  <2>6. QED
    BY <2>2, <2>3, <2>4, <2>5 DEF TooLate, Saved
<1>3. CASE ~Arrive(r) /\ asked[r] # None /\ asked[r].retiredBefore
  <2>1. /\ Retired(asked[r].token) /\ accessTokens[r] = None
        /\ pc[r] \in {"requireClient", "find", "revokeFamily", "refused"}
        /\ ~Saved(NextOf(r)) /\ ~Saved(Extra(r))
    BY <1>3 DEF TooLate
  <2>2. /\ asked'[r] \in {asked[r], None} /\ accessTokens'[r] = None
        /\ pc'[r] \in {"requireClient", "find", "revokeFamily", "refused"}
    <3>1. CASE StepOf(r)
      BY <1>3, <2>1, <3>1
         DEF StepOf, Typed, TypeOK, RequireClient, Find, RevokeFamily, SaveParent,
             SaveNext, ResolveClaims, SaveAccessToken, SaveExtra, Abandon
    <3>2. CASE ~StepOf(r)
      BY <2>1, <3>2, OthersKept DEF Same
    <3>3. QED
      BY <3>1, <3>2
  <2>3. asked'[r] # None => Retired(asked[r].token)'
    <3>1. Kept(asked[r].token)
      BY <1>3, AskedToken
    <3>2. QED
      BY <2>1, <2>2, <3>1 DEF Kept, Retired
  <2>4. ~SaveNext(r) /\ ~SaveExtra(r)
    BY <2>1 DEF SaveNext, SaveExtra
  <2>5. QED
    BY <1>1, <2>1, <2>2, <2>3, <2>4 DEF TooLate
<1>4. CASE ~Arrive(r) /\ asked[r] # None /\ ~asked[r].retiredBefore
  <2>1. asked'[r] \in {asked[r], None}
    <3>1. CASE StepOf(r)
      BY <1>4, <3>1
         DEF StepOf, Typed, TypeOK, RequireClient, Find, RevokeFamily, SaveParent,
             SaveNext, ResolveClaims, SaveAccessToken, SaveExtra, Abandon
    <3>2. CASE ~StepOf(r)
      BY <3>2, OthersKept DEF Same
    <3>3. QED
      BY <3>1, <3>2
  <2>2. QED
    BY <1>4, <2>1 DEF TooLate
<1>5. CASE ~Arrive(r) /\ asked[r] = None
  <2>1. pc[r] \in {"idle", "refused"}
    BY <1>5 DEF Held, HeldByRefresh, Typed, Labels, Ended
  <2>2. ~StepOf(r)
    BY <1>5, <2>1
       DEF StepOf, RequireClient, Find, RevokeFamily, SaveParent, SaveNext,
           ResolveClaims, SaveAccessToken, SaveExtra, Abandon, Ended
  <2>3. QED
    BY <1>5, <2>2, OthersKept DEF Same, TooLate
<1>6. QED
  BY <1>2, <1>3, <1>4, <1>5

\* A request whose token was retired when it arrived saves neither a
\* replacement nor an access token, whatever runs beside it (Find sees the
\* mark or the revocation, which no other write takes back).
THEOREM LateReuseIsRefused == Spec => []LateReuseGetsNothing
<1> DEFINE Late == \A r \in Refreshes : TooLate(r)
<1>1. Init => Late
  BY DEF Init, TooLate
<1>2. Typed /\ Held /\ Late /\ [Next]_vars => Late'
  BY TooLateStep
<1>3. Late => LateReuseGetsNothing
  BY DEF TooLate, LateReuseGetsNothing
<1>4. QED
  BY <1>1, <1>2, <1>3, HeldAlways, PTL DEF Spec

-----------------------------------------------------------------------------
(* The tokens of a family form a tree.  Unless two requests replaced one   *)
(* token, it is a path: it has one leaf.  A live token is a leaf.          *)

\* No saved token replaced k.
Leaf(k) == \A r \in Refreshes : Saved(NextOf(r)) => asked[r].token # k

\* Two saved tokens of the family replaced one token.
Branched(family) ==
  \E r, q \in Refreshes : /\ r # q /\ Saved(NextOf(r)) /\ Saved(NextOf(q))
                          /\ asked[r].token = asked[q].token
                          /\ refreshTokens[NextOf(r)].family = family

OneLeaf ==
  \A k, m \in Tokens :
    /\ k # m /\ Saved(k) /\ Saved(m) /\ Leaf(k) /\ Leaf(m)
    /\ refreshTokens[k].family = refreshTokens[m].family
    => Branched(refreshTokens[k].family)

LEMMA OneLeafInit == Init => OneLeaf
<1> SUFFICES ASSUME Init, NEW k \in Tokens, NEW m \in Tokens, Saved(k), Saved(m),
                    refreshTokens[k].family = refreshTokens[m].family
             PROVE  k = m
  BY DEF OneLeaf
<1>1. \A n \in Tokens : Saved(n) => \E g \in Grants : n = Root(g) /\ refreshTokens[n].family = g
  <2>1. ASSUME NEW r \in Refreshes
        PROVE  refreshTokens[NextOf(r)] = None /\ refreshTokens[Extra(r)] = None
    BY NamesOfTokens DEF Init, NextOf, Extra
  <2>2. ASSUME NEW g \in Grants PROVE refreshTokens[Root(g)].family = g
    BY GrantsAssumption DEF Init, Root, Tokens, NewToken
  <2>3. QED
    BY <2>1, <2>2 DEF Tokens, Saved
<1>2. QED
  BY <1>1

\* A replacement stays one, and a branched family stays branched.
LEMMA ReplacementsStay ==
  ASSUME Typed, Held, [Next]_vars, NEW r \in Refreshes, Saved(NextOf(r))
  PROVE  /\ Saved(NextOf(r))' /\ asked'[r] = asked[r]
         /\ refreshTokens'[NextOf(r)].family = refreshTokens[NextOf(r)].family
<1>1. NextOf(r) \in Tokens /\ Kept(NextOf(r))
  BY NamesOfTokens, TokensKept
<1>2. pc[r] \in Saving
  BY DEF Held, HeldByRefresh, Saving
<1>3. QED
  BY <1>1, <1>2, AskedStays DEF Kept, SameToken, Saved

LEMMA BranchedStays ==
  ASSUME Typed, Held, [Next]_vars, NEW family, Branched(family)
  PROVE  Branched(family)'
BY ReplacementsStay DEF Branched

\* A leaf of the next state that was saved before was a leaf before.
LEMMA LeavesBefore ==
  ASSUME Typed, Held, [Next]_vars, NEW k \in Tokens, Leaf(k)'
  PROVE  Leaf(k)
BY ReplacementsStay DEF Leaf

\* A step that saves a token beside another leaf of its family: the token
\* replaced one that was a leaf as well, or one that is replaced twice now.
LEMMA NewLeaf ==
  ASSUME Typed, Held, OneLeaf, [Next]_vars, NEW family,
         NEW k \in Tokens, ~Saved(k), Saved(k)', refreshTokens'[k].family = family,
         NEW m \in Tokens, Saved(m)', refreshTokens'[m].family = family, m # k, Leaf(m)'
  PROVE  Branched(family)'
<1>1. TokensTell'
  BY HeldStep DEF Held
<1>2. PICK r \in Refreshes : \/ k = NextOf(r) /\ SaveNext(r)
                             \/ k = Extra(r) /\ SaveExtra(r)
  BY TokensSavedByOwner
<1>3. CASE k = Extra(r) /\ SaveExtra(r)
  <2>1. family = r
    BY <1>3, ExtraSaved
  <2>2. QED
    BY <1>1, <1>3, <2>1 DEF TokensTell
<1>4. CASE k = NextOf(r) /\ SaveNext(r)
  <2> DEFINE parent == asked[r].token
  <2>1. /\ asked'[r] = asked[r] /\ asked[r] # None
        /\ refreshTokens[parent].family = family
        /\ refreshTokens' = [refreshTokens EXCEPT ![k] = refreshTokens'[k]]
    BY <1>4, NextSaved DEF SaveNext, SaveToken, SameOwner, SameToken, Typed, TypeOK
  <2>2. parent \in Tokens /\ Saved(parent)
    BY <2>1, AskedToken
  <2>3. Saved(m) /\ refreshTokens[m].family = family
    BY <2>1 DEF Saved, Typed, TypeOK
  <2>4. m # parent
    BY <1>4, <2>1 DEF Leaf
  <2>5. CASE Leaf(parent)
    <3>1. Branched(family)
      BY <2>1, <2>2, <2>3, <2>4, <2>5, LeavesBefore DEF OneLeaf
    <3>2. QED
      BY <3>1, BranchedStays
  <2>6. CASE ~Leaf(parent)
    <3>1. PICK q \in Refreshes : Saved(NextOf(q)) /\ asked[q].token = parent
      BY <2>6 DEF Leaf
    <3>2. q # r
      BY <1>4, <3>1
    <3>3. Saved(NextOf(q))' /\ asked'[q] = asked[q]
      BY <3>1, ReplacementsStay
    <3>4. QED
      BY <1>4, <2>1, <3>1, <3>2, <3>3 DEF Branched
  <2>7. QED
    BY <2>5, <2>6
<1>5. QED
  BY <1>2, <1>3, <1>4

LEMMA OneLeafStep ==
  ASSUME Typed, Held, OneLeaf, [Next]_vars
  PROVE  OneLeaf'
<1> SUFFICES ASSUME NEW family, NEW k \in Tokens, NEW m \in Tokens, k # m,
                    Saved(k)', Saved(m)', Leaf(k)', Leaf(m)',
                    refreshTokens'[k].family = family, refreshTokens'[m].family = family
             PROVE  Branched(family)'
  BY DEF OneLeaf
<1>1. CASE Saved(k) /\ Saved(m)
  <2>1. refreshTokens[k].family = family /\ refreshTokens[m].family = family
    BY <1>1, TokensKept DEF Kept, SameToken
  <2>2. Branched(family)
    BY <1>1, <2>1, LeavesBefore DEF OneLeaf
  <2>3. QED
    BY <2>2, BranchedStays
<1>2. CASE ~Saved(k)
  BY <1>2, NewLeaf
<1>3. CASE ~Saved(m)
  BY <1>3, NewLeaf
<1>4. QED
  BY <1>1, <1>2, <1>3

LEMMA LiveTokensAreLeaves ==
  ASSUME Typed, Held, NEW k \in Tokens, Saved(k), ~Retired(k)
  PROVE  Leaf(k)
BY DEF Held, HeldByRefresh, Marked, Retired, Leaf

\* A family gets two live tokens in no other way than by two refreshes that
\* replaced one token, each having found it live: no failure of a refresh
\* between its saves leaves a second one (issueRefreshToken retires the parent
\* before it saves the replacement).
THEOREM OnlyOverlapBranches == Spec => []BranchesOnlyByOverlap
<1>1. Typed /\ Held /\ OneLeaf => BranchesOnlyByOverlap
  BY LiveTokensAreLeaves DEF OneLeaf, Branched, BranchesOnlyByOverlap
<1>2. Typed /\ Held /\ OneLeaf /\ [Next]_vars => OneLeaf'
  BY OneLeafStep
<1>3. QED
  BY <1>1, <1>2, OneLeafInit, HeldAlways, PTL DEF Spec
=============================================================================
