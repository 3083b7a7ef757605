--------------------------- MODULE RefreshToken ---------------------------
(***************************************************************************)
(* POST /oauth2/token with grant_type=refresh_token: rotation of refresh   *)
(* tokens and revocation of a family when a retired token comes back       *)
(* (DevTokenIssuer.issueRefreshToken, FileRefreshTokenRepository).         *)
(*                                                                         *)
(* As in AuthorizationCode, a step is one store call, atomic because       *)
(* JsonFileStore is, and at[r] is the time request r last read the clock.  *)
(***************************************************************************)
EXTENDS Integers

CONSTANTS Grants,     \* code exchanges that are done: each began a family
          Refreshes,  \* refresh requests
          Clients,
          Holders,    \* subject, workspace and session of a token, as one
          ClientOf,   \* ClientOf[g], HolderOf[g]: whom g issued its token to
          HolderOf,
          RefreshTTL,
          MaxTime,    \* bound on the clock, for TLC
          None

ASSUME GrantsAssumption == /\ ClientOf \in [Grants -> Clients]
                           /\ HolderOf \in [Grants -> Holders]
                           /\ RefreshTTL \in Nat /\ MaxTime \in Nat

\* randomToken makes every token new: the one of a grant, and the two a
\* refresh request saves, the replacement it hands out and the one issueTokens
\* saves in a family of its own.
Root(g)  == <<g, "root">>
NextOf(r)  == <<r, "next">>
Extra(r) == <<r, "extra">>

Tokens   == {Root(g) : g \in Grants} \cup {NextOf(r) : r \in Refreshes}
              \cup {Extra(r) : r \in Refreshes}
Families == Grants \cup Refreshes

ASSUME NamesAssumption == /\ None \notin Tokens
                          /\ Grants \cap Refreshes = {}

VARIABLES now,
          refreshTokens, \* refreshTokens[k]: None, or the record of token k
          accessTokens,  \* accessTokens[r]: None, or whom r's access token is for
          handed,        \* the tokens clients were given
          compromised,   \* history: the families a request has revoked
          pc, at, asked, local

stores == <<refreshTokens, accessTokens>>
vars   == <<now, stores, handed, compromised, pc, at, asked, local>>

Ended == {"answered", "refused"}

Saved(k)   == refreshTokens[k] # None
Retired(k) == refreshTokens[k].revoked \/ refreshTokens[k].replacedBy # None

\* Mutant of NewToken: family and client swapped.
NewTokenSwapped(family, client, holder, expiresAt, parent) ==
  [family |-> client, client |-> family, holder |-> holder, expiresAt |-> expiresAt,
   revoked |-> FALSE, replacedBy |-> None, parent |-> parent]

NewToken(family, client, holder, expiresAt, parent) ==
  [family |-> family, client |-> client, holder |-> holder, expiresAt |-> expiresAt,
   revoked |-> FALSE, replacedBy |-> None, parent |-> parent]

Init == /\ now = 0
        /\ refreshTokens = [k \in Tokens |->
             IF k[2] = "root"
               THEN NewToken(k[1], ClientOf[k[1]], HolderOf[k[1]], RefreshTTL, None)
               ELSE None]
        /\ accessTokens = [r \in Refreshes |-> None]
        /\ handed = {Root(g) : g \in Grants}
        /\ compromised = {}
        /\ pc = [r \in Refreshes |-> "idle"]
        /\ at = [r \in Refreshes |-> 0]
        /\ asked = [r \in Refreshes |-> None]
        /\ local = [r \in Refreshes |-> None]

Tick == /\ now < MaxTime
        /\ now' = now + 1
        /\ UNCHANGED <<stores, handed, compromised, pc, at, asked, local>>

\* The handler of r goes on to the store call named `label`.
Goto(r, label) == /\ pc' = [pc EXCEPT ![r] = label]
                  /\ at' = [at EXCEPT ![r] = now]
                  /\ UNCHANGED now

\* The handler of r returns; asked[r] stays when r saved anything.
Return(r, outcome) == /\ pc' = [pc EXCEPT ![r] = outcome]
                      /\ at' = [at EXCEPT ![r] = 0]
                      /\ local' = [local EXCEPT ![r] = None]
                      /\ UNCHANGED now

Refuse(r) == /\ Return(r, "refused")
             /\ asked' = [asked EXCEPT ![r] = None]

SaveToken(k, token) == refreshTokens' = [refreshTokens EXCEPT ![k] = token]

-----------------------------------------------------------------------------
\* retiredBefore is history: whether the token was retired on arrival.
Arrive(r) ==
  /\ pc[r] = "idle"
  /\ \E k \in handed, c \in Clients :
       asked' = [asked EXCEPT ![r] = [token |-> k, client |-> c,
                                      retiredBefore |-> Retired(k)]]
  /\ Goto(r, "requireClient")
  /\ UNCHANGED <<stores, handed, compromised, local>>

\* The client is registered and authenticates.
RequireClient(r) == /\ pc[r] = "requireClient"
                    /\ Goto(r, "find")
                    /\ UNCHANGED <<stores, handed, compromised, asked, local>>

\* Mutant of Find: reuse is not looked for.
FindLive(r) ==
  /\ pc[r] = "find"
  /\ LET token == refreshTokens[asked[r].token] IN
     IF token.expiresAt <= at[r] \/ token.client # asked[r].client
       THEN Refuse(r)
       ELSE /\ Goto(r, "saveParent")
            /\ local' = [local EXCEPT ![r] = token]
            /\ UNCHANGED asked
  /\ UNCHANGED <<stores, handed, compromised>>

\* find() tells expiry only; the issuer compares the client and looks for
\* signs of reuse.
Find(r) ==
  /\ pc[r] = "find"
  /\ LET k == asked[r].token
         token == refreshTokens[k] IN
     \/ /\ token.expiresAt <= at[r] \/ token.client # asked[r].client
        /\ Refuse(r)
     \/ /\ token.expiresAt > at[r] /\ token.client = asked[r].client
        /\ Goto(r, IF Retired(k) THEN "revokeFamily" ELSE "saveParent")
        /\ local' = [local EXCEPT ![r] = token]
        /\ UNCHANGED asked
  /\ UNCHANGED <<stores, handed, compromised>>

RevokeFamily(r) ==
  /\ pc[r] = "revokeFamily"
  /\ LET family == local[r].family IN
     /\ refreshTokens' = [k \in Tokens |->
          IF Saved(k) /\ refreshTokens[k].family = family
            THEN [refreshTokens[k] EXCEPT !.revoked = TRUE]
            ELSE refreshTokens[k]]
     /\ compromised' = compromised \cup {family}
  /\ Refuse(r)
  /\ UNCHANGED <<accessTokens, handed>>

\* Mutant of SaveParent: the parent is marked replaced and not revoked.
SaveParentUnrevoked(r) ==
  /\ pc[r] = "saveParent"
  /\ SaveToken(asked[r].token, [local[r] EXCEPT !.replacedBy = NextOf(r)])
  /\ pc' = [pc EXCEPT ![r] = "saveNext"]
  /\ UNCHANGED <<now, at, accessTokens, handed, compromised, asked, local>>

\* Mutant of SaveParent: the replacement is saved and the parent never.
SaveParentSkipped(r) ==
  /\ pc[r] = "saveParent"
  /\ pc' = [pc EXCEPT ![r] = "saveNext"]
  /\ UNCHANGED <<now, at, stores, handed, compromised, asked, local>>

\* The copy find() returned is saved over whatever the store holds by now.
\* The replacement was made before, its expiry included: at[r] stays.
SaveParent(r) ==
  /\ pc[r] = "saveParent"
  /\ SaveToken(asked[r].token, [local[r] EXCEPT !.revoked = TRUE,
                                                !.replacedBy = NextOf(r)])
  /\ pc' = [pc EXCEPT ![r] = "saveNext"]
  /\ UNCHANGED <<now, at, accessTokens, handed, compromised, asked, local>>

SaveNext(r) ==
  /\ pc[r] = "saveNext"
  /\ SaveToken(NextOf(r), NewToken(local[r].family, local[r].client, local[r].holder,
                                 at[r] + RefreshTTL, asked[r].token))
  /\ Goto(r, "resolveClaims")
  /\ UNCHANGED <<accessTokens, handed, compromised, asked, local>>

-----------------------------------------------------------------------------
(* issueTokens *)

ResolveClaims(r) == /\ pc[r] = "resolveClaims"
                    /\ Goto(r, "saveAccessToken")
                    /\ UNCHANGED <<stores, handed, compromised, asked, local>>

SaveAccessToken(r) ==
  /\ pc[r] = "saveAccessToken"
  /\ accessTokens' = [accessTokens EXCEPT ![r] = [client |-> asked[r].client,
                                                  holder |-> local[r].holder]]
  /\ Goto(r, "saveExtra")
  /\ UNCHANGED <<refreshTokens, handed, compromised, asked, local>>

\* issueTokens saves a refresh token of a new family; issueRefreshToken puts
\* the rotated one in its place in the response.
SaveExtra(r) ==
  /\ pc[r] = "saveExtra"
  /\ SaveToken(Extra(r), NewToken(r, asked[r].client, local[r].holder,
                                  at[r] + RefreshTTL, None))
  /\ handed' = handed \cup {NextOf(r)}
  /\ Return(r, "answered")
  /\ UNCHANGED <<accessTokens, compromised, asked>>

\* A store call of r rejects, or its process ends: nothing more is done.
Abandon(r) ==
  /\ pc[r] \notin {"idle"} \cup Ended
  /\ IF pc[r] \in {"requireClient", "find", "revokeFamily", "saveParent"}
       THEN Refuse(r)
       ELSE Return(r, "refused") /\ UNCHANGED asked
  /\ UNCHANGED <<stores, handed, compromised>>

Next == \/ Tick
        \/ \E r \in Refreshes :
             \/ Arrive(r) \/ RequireClient(r) \/ Find(r) \/ RevokeFamily(r)
             \/ SaveParent(r) \/ SaveNext(r) \/ ResolveClaims(r)
             \/ SaveAccessToken(r) \/ SaveExtra(r) \/ Abandon(r)

Spec == Init /\ [][Next]_vars

-----------------------------------------------------------------------------
TokenRecord == [family : Families, client : Clients, holder : Holders,
                expiresAt : Nat, revoked : BOOLEAN,
                replacedBy : Tokens \cup {None}, parent : Tokens \cup {None}]
Params      == [token : Tokens, client : Clients, retiredBefore : BOOLEAN]
AccessToken == [client : Clients, holder : Holders]

ASSUME NoneAssumption == None \notin TokenRecord \cup Params \cup AccessToken

\* Every token has its shape: its times, its parent and its replacement.
TypeOK == /\ now \in 0..MaxTime
          /\ refreshTokens \in [Tokens -> TokenRecord \cup {None}]
          /\ accessTokens \in [Refreshes -> AccessToken \cup {None}]
          /\ handed \subseteq Tokens
          /\ compromised \subseteq Families

\* A token that replaced another belongs to the same family, client and
\* holder; the one it replaced is saved, revoked and marked replaced; and the
\* token a mark names, once saved, has the marked one for its parent
\* (issueRefreshToken: the parent is saved before its replacement).
Lineage ==
  \A k \in Tokens : Saved(k) =>
    LET token == refreshTokens[k] IN
    /\ token.parent # None =>
         LET parent == refreshTokens[token.parent] IN
         /\ parent # None /\ parent.revoked /\ parent.replacedBy # None
         /\ <<token.family, token.client, token.holder>>
              = <<parent.family, parent.client, parent.holder>>
    /\ token.replacedBy # None /\ Saved(token.replacedBy)
         => refreshTokens[token.replacedBy].parent = k

\* No write, of a copy found earlier either, brings a revoked token back
\* (SaveParent against RevokeFamily and against another SaveParent).
RevokedStaysRevoked ==
  [][\A k \in Tokens : Saved(k) /\ refreshTokens[k].revoked =>
       Saved(k)' /\ refreshTokens'[k].revoked]_vars

\* A request whose token was retired when it arrived saves no token: neither
\* a replacement nor an access token.
LateReuseGetsNothing ==
  \A r \in Refreshes : asked[r] # None /\ asked[r].retiredBefore =>
    accessTokens[r] = None /\ ~Saved(NextOf(r)) /\ ~Saved(Extra(r))

\* A family has two live tokens only where two requests rotated one token,
\* each finding it before the other had retired it; a failed request leaves
\* no second live token behind (the order of the two saves).
BranchesOnlyByOverlap ==
  \A k, m \in Tokens :
    /\ k # m /\ Saved(k) /\ Saved(m)
    /\ refreshTokens[k].family = refreshTokens[m].family
    /\ ~Retired(k) /\ ~Retired(m)
    => \E r, q \in Refreshes : /\ r # q
                               /\ Saved(NextOf(r)) /\ Saved(NextOf(q))
                               /\ asked[r].token = asked[q].token
                               /\ refreshTokens[NextOf(r)].family = refreshTokens[k].family

\* tests/oidc-jwt.test.mjs: refresh token rotation revokes the family on
\* replay reuse.
FamilyRevokedOnReuse ==
  \A k \in Tokens : Saved(k) /\ refreshTokens[k].family \in compromised
                      => refreshTokens[k].revoked
=============================================================================
