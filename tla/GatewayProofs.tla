--------------------------- MODULE GatewayProofs ---------------------------
(***************************************************************************)
(* Theorems about Gateway for any policies, users, sessions, tokens and    *)
(* requests.  The first part never expands FindRule: it holds for whatever *)
(* policy that finds.  The second says which paths a pattern matches, the  *)
(* third which of the policies that match is found.                        *)
(***************************************************************************)
EXTENDS Gateway, FiniteSetTheorems, WellFoundedInduction, TLAPS

Typed == /\ TypeOK
         /\ DOMAIN request = Requests /\ DOMAIN forward = Requests
         /\ DOMAIN ended = Requests

\* A credential that is held to be one is a token with a record or a session.
Presented(r) ==
  LET c == Credential(request[r]) IN
  /\ c # Null
  /\ c.kind = "bearer" => tokens[c.token] # Null

HeldByRequest(r) ==
  /\ pc[r] # "idle" => request[r] \in Inputs
  /\ forward[r] # {} => pc[r] \in {"upstream", "answered"}
  /\ pc[r] = "credential" \/ forward[r] # {} => Presented(r)
  /\ \A s \in Sessions : s \in ended[r] => sessions[s] = "ended"
  /\ \A t \in Tokens : t \in ended[r] => tokens[t] # Null /\ ~ tokens[t].live

\* A user was given these roles for the workspace.
Given(roles, user, workspace) ==
  \A role \in roles : \E a \in assignments :
    a.user = user /\ a.role = role /\ a.workspace \in {Null, workspace}

RolesOfTokens ==
  \A t \in Tokens : tokens[t] # Null =>
    Given(tokens[t].roles, Owner[SessionOf[t]].user, Owner[SessionOf[t]].workspace)

Held == (\A r \in Requests : HeldByRequest(r)) /\ RolesOfTokens

-----------------------------------------------------------------------------
(* What the operators of the handler return. *)

LEMMA RolesGiven ==
  ASSUME Typed, NEW user, NEW workspace
  PROVE  /\ ResolveRoles(user, workspace) \subseteq Roles
         /\ Given(ResolveRoles(user, workspace), user, workspace)
BY DEF ResolveRoles, Given, Roles, Typed, TypeOK

LEMMA CredentialType ==
  ASSUME NEW input \in Inputs, Credential(input) # Null
  PROVE  /\ Credential(input) \in CredentialOf
         /\ Credential(input).kind \in {"bearer", "session"}
         /\ Credential(input).kind = "bearer" => Credential(input).token \in Tokens
         /\ Credential(input).kind # "bearer" => Credential(input).token \in Sessions
BY CredentialsAssumption DEF Credential, CredentialOf

\* The session behind a credential.
SessionOfCredential(c) == IF c.kind = "bearer" THEN SessionOf[c.token] ELSE c.token

LEMMA PrincipalTold ==
  ASSUME Typed, RolesOfTokens, NEW c \in CredentialOf, Principal(c) # Null,
         c.kind = "bearer" => tokens[c.token] # Null
  PROVE  /\ Principal(c).user = Owner[SessionOfCredential(c)].user
         /\ Principal(c).workspace = Owner[SessionOfCredential(c)].workspace
         /\ Given(Principal(c).roles, Principal(c).user, Principal(c).workspace)
         /\ SessionOfCredential(c) \in Sessions
         /\ sessions[SessionOfCredential(c)] = "live"
         /\ c.kind = "bearer" => tokens[c.token].live
<1>1. CASE c.kind = "bearer"
  <2>1. c.token \in Tokens /\ SessionOf[c.token] \in Sessions
    BY <1>1, CredentialsAssumption DEF CredentialOf
  <2>2. QED
    BY <1>1, <2>1 DEF Principal, SessionOfCredential, RolesOfTokens, SessionLive
<1>2. CASE c.kind # "bearer"
  <2>1. c.token \in Sessions
    BY <1>2 DEF CredentialOf
  <2>2. QED
    BY <1>2, <2>1, RolesGiven DEF Principal, SessionOfCredential, SessionLive
<1>3. QED
  BY <1>1, <1>2

LEMMA Decisions ==
  ASSUME NEW principal, NEW ps, NEW input
  PROVE  EvaluatePolicy(principal, ps, input)
           \in {"no_matching_rule", "method_not_allowed", "missing_role", "allowed"}
BY DEF EvaluatePolicy

-----------------------------------------------------------------------------
(* Types. *)

LEMMA TypedInit == Init => Typed /\ Held
<1> SUFFICES ASSUME Init PROVE Typed /\ Held
  OBVIOUS
<1>1. policies \in Seq(ToSet(FirstPolicies) \cup NewPolicies)
  BY CredentialsAssumption DEF Init
<1>2. Typed
  BY <1>1, NullAssumption DEF Init, Typed, TypeOK, Answers
<1>3. \A r \in Requests : HeldByRequest(r)
  BY DEF Init, HeldByRequest
<1>4. RolesOfTokens
  BY DEF Init, RolesOfTokens
<1>5. QED
  BY <1>2, <1>3, <1>4 DEF Held

\* A request's own step, and the steps of the api.
StepOf(r) == \/ \E input \in Inputs : Arrive(r, input)
             \/ ReadRules(r) \/ ReadCredential(r) \/ UpstreamAnswers(r)

LEMMA FileTyped ==
  ASSUME Typed, FileChanges
  PROVE  Typed'
<1> USE DEF Typed, TypeOK, process, work
<1>1. ASSUME NEW p \in NewPolicies, CreatePolicy(p) PROVE Typed'
  <2>1. policies' \in Seq(ToSet(FirstPolicies) \cup NewPolicies)
    BY <1>1 DEF CreatePolicy
  <2>2. QED
    BY <1>1, <2>1 DEF CreatePolicy, FileChanges
<1>2. ASSUME NEW a \in NewAssignments, AssignRole(a) PROVE Typed'
  BY <1>2 DEF AssignRole, FileChanges
<1>3. ASSUME NEW s \in Sessions, Login(s) \/ EndSession(s) PROVE Typed'
  BY <1>3 DEF Login, EndSession, FileChanges
<1>4. ASSUME NEW t \in Tokens, IssueToken(t) \/ TokenExpires(t) PROVE Typed'
  <2>1. \A user, workspace : [roles |-> ResolveRoles(user, workspace), live |-> TRUE] \in TokenRecord
    BY RolesGiven DEF TokenRecord
  <2>2. tokens[t] # Null => [tokens[t] EXCEPT !.live = FALSE] \in TokenRecord
    BY DEF TokenRecord
  <2>3. \E record \in TokenRecord : tokens' = [tokens EXCEPT ![t] = record]
    BY <1>4, <2>1, <2>2 DEF IssueToken, TokenExpires
  <2>4. tokens' \in [Tokens -> TokenRecord \cup {Null}]
    BY <2>3
  <2>5. QED
    BY <1>4, <2>4 DEF IssueToken, TokenExpires, FileChanges
<1>5. QED
  BY <1>1, <1>2, <1>3, <1>4 DEF FileChanges

LEMMA RequestTyped ==
  ASSUME Typed, NEW r \in Requests, StepOf(r)
  PROVE  Typed'
<1> USE NullAssumption DEF Typed, TypeOK, file, process, Reply, Answers
<1>1. ASSUME NEW input \in Inputs, Arrive(r, input) PROVE Typed'
  BY <1>1 DEF Arrive
<1>2. CASE ReadRules(r)
  BY <1>2 DEF ReadRules
<1>3. CASE ReadCredential(r)
  <2> DEFINE input    == request[r]
             decision == EvaluatePolicy(Principal(Credential(input)), state[r], input)
  <2>1. decision \in {"no_matching_rule", "method_not_allowed", "missing_role", "allowed"}
    BY Decisions
  <2>2. UNCHANGED <<file, request, ended>> /\ pc[r] = "credential"
    BY <1>3 DEF ReadCredential
  <2>3. CASE Principal(Credential(input)) = Null \/ decision # "allowed"
    <3>1. PICK result \in {"invalid_credential", "no_matching_rule", "method_not_allowed",
                           "missing_role"} : Reply(r, result) /\ UNCHANGED forward
      BY <1>3, <2>1, <2>3 DEF ReadCredential
    <3>2. QED
      BY <2>2, <3>1
  <2>4. CASE Principal(Credential(input)) # Null /\ decision = "allowed"
    <3>1. /\ pc' = [pc EXCEPT ![r] = "upstream"] /\ UNCHANGED answer
          /\ forward'[r] # {} /\ DOMAIN forward' = Requests
          /\ \A q \in Requests \ {r} : forward'[q] = forward[q]
      <4>1. PICK sent : /\ pc' = [pc EXCEPT ![r] = "upstream"] /\ UNCHANGED answer
                        /\ forward' = [forward EXCEPT ![r] = {sent}]
        BY <1>3, <2>4 DEF ReadCredential
      <4>2. QED
        BY <4>1
    <3>2. QED
      BY <2>2, <3>1
  <2>5. QED
    BY <2>3, <2>4
<1>4. CASE UpstreamAnswers(r)
  BY <1>4 DEF UpstreamAnswers
<1>5. QED
  BY <1>1, <1>2, <1>3, <1>4 DEF StepOf

LEMMA TypedStep == Typed /\ [Next]_vars => Typed'
<1>1. Typed /\ UNCHANGED vars => Typed'
  BY DEF Typed, TypeOK, vars, file, process, work
<1>2. QED
  BY <1>1, FileTyped, RequestTyped DEF Next, StepOf

-----------------------------------------------------------------------------
(* Frames: what no step takes back, and what a step leaves to the others.  *)

LEMMA FileKept ==
  ASSUME Typed, [Next]_vars
  PROVE  /\ assignments \subseteq assignments'
         /\ \A s \in Sessions : sessions[s] = "ended" => sessions'[s] = "ended"
         /\ \A t \in Tokens : tokens[t] # Null =>
              /\ tokens'[t] # Null /\ tokens'[t].roles = tokens[t].roles
              /\ ~ tokens[t].live => ~ tokens'[t].live
<1> USE DEF Typed, TypeOK
<1>1. ASSUME UNCHANGED file
      PROVE  assignments' = assignments /\ sessions' = sessions /\ tokens' = tokens
  BY <1>1 DEF file
<1>2. ASSUME NEW p \in NewPolicies, CreatePolicy(p)
      PROVE  assignments' = assignments /\ sessions' = sessions /\ tokens' = tokens
  BY <1>2 DEF CreatePolicy
<1>3. ASSUME NEW a \in NewAssignments, AssignRole(a)
      PROVE  assignments \subseteq assignments' /\ sessions' = sessions /\ tokens' = tokens
  BY <1>3 DEF AssignRole
<1>4. ASSUME NEW s \in Sessions, Login(s) \/ EndSession(s)
      PROVE  /\ assignments' = assignments /\ tokens' = tokens
             /\ \A q \in Sessions : sessions[q] = "ended" => sessions'[q] = "ended"
  BY <1>4 DEF Login, EndSession
<1>5. ASSUME NEW t \in Tokens, IssueToken(t)
      PROVE  /\ assignments' = assignments /\ sessions' = sessions
             /\ \A q \in Tokens : tokens[q] # Null => tokens'[q] = tokens[q]
  BY <1>5 DEF IssueToken
<1>6. ASSUME NEW t \in Tokens, TokenExpires(t)
      PROVE  /\ assignments' = assignments /\ sessions' = sessions
             /\ \A q \in Tokens : tokens[q] # Null =>
                  /\ tokens'[q] # Null /\ tokens'[q].roles = tokens[q].roles
                  /\ ~ tokens[q].live => ~ tokens'[q].live
  <2>1. /\ [tokens[t] EXCEPT !.live = FALSE] \in TokenRecord
        /\ [tokens[t] EXCEPT !.live = FALSE].roles = tokens[t].roles
        /\ ~ [tokens[t] EXCEPT !.live = FALSE].live
    BY <1>6 DEF TokenExpires, TokenRecord
  <2>2. tokens' = [tokens EXCEPT ![t] = [tokens[t] EXCEPT !.live = FALSE]]
    BY <1>6 DEF TokenExpires
  <2>3. \A q \in Tokens : q # t => tokens'[q] = tokens[q]
    BY <2>2
  <2>4. /\ tokens'[t] # Null /\ tokens'[t].roles = tokens[t].roles
        /\ ~ tokens'[t].live
    <3> DEFINE record == [tokens[t] EXCEPT !.live = FALSE]
    <3>1. record # Null
      BY <2>1, NullAssumption
    <3>2. record.roles = tokens[t].roles /\ ~ record.live
      BY <2>1
    <3>3. tokens'[t] = record
      BY <2>2
    <3> HIDE DEF record
    <3>4. QED
      BY <3>1, <3>2, <3>3
  <2>5. assignments' = assignments /\ sessions' = sessions
    BY <1>6 DEF TokenExpires
  <2>6. QED
    BY <2>3, <2>4, <2>5
<1>7. QED
  BY <1>1, <1>2, <1>3, <1>4, <1>5, <1>6
     DEF Next, vars, FileChanges, Arrive, ReadRules, ReadCredential, UpstreamAnswers

LEMMA CredentialsKept ==
  ASSUME [Next]_vars, NEW input
  PROVE  Credential(input)' = Credential(input)
<1>1. UNCHANGED sessionMode
  BY DEF Next, vars, FileChanges, process, Arrive, ReadRules, ReadCredential, UpstreamAnswers
<1>2. QED
  BY <1>1 DEF Credential

Same(r) == /\ pc'[r] = pc[r] /\ request'[r] = request[r]
           /\ forward'[r] = forward[r] /\ ended'[r] = ended[r]

LEMMA OthersKept ==
  ASSUME Typed, [Next]_vars, NEW r \in Requests, ~ StepOf(r)
  PROVE  Same(r)
<1> USE DEF Typed, TypeOK, Same, Reply
<1>1. CASE FileChanges \/ UNCHANGED vars
  BY <1>1 DEF FileChanges, vars, work
<1>2. ASSUME NEW q \in Requests, q # r, NEW input \in Inputs, Arrive(q, input)
      PROVE  Same(r)
  BY <1>2 DEF Arrive
<1>3. ASSUME NEW q \in Requests, q # r, ReadRules(q) \/ UpstreamAnswers(q)
      PROVE  Same(r)
  BY <1>3 DEF ReadRules, UpstreamAnswers
<1>4. ASSUME NEW q \in Requests, q # r, ReadCredential(q)
      PROVE  Same(r)
  BY <1>4 DEF ReadCredential
<1>5. QED
  BY <1>1, <1>2, <1>3, <1>4 DEF Next, StepOf

-----------------------------------------------------------------------------
(* The invariant holds at every step. *)

LEMMA EndedKept ==
  ASSUME Typed, Held, [Next]_vars, NEW r \in Requests
  PROVE  /\ \A s \in Sessions : s \in ended'[r] => sessions'[s] = "ended"
         /\ \A t \in Tokens : t \in ended'[r] => tokens'[t] # Null /\ ~ tokens'[t].live
<1>1. CASE ended'[r] = ended[r]
  BY <1>1, FileKept DEF Held, HeldByRequest
<1>2. CASE ended'[r] # ended[r]
  <2>1. PICK input \in Inputs : Arrive(r, input)
    <3>1. StepOf(r)
      BY <1>2, OthersKept DEF Same
    <3>2. QED
      BY <1>2, <3>1 DEF StepOf, ReadRules, ReadCredential, UpstreamAnswers
  <2>2. /\ UNCHANGED <<sessions, tokens>>
        /\ ended'[r] = {s \in Sessions : sessions[s] = "ended"} \cup
                       {t \in Tokens : tokens[t] # Null /\ ~ tokens[t].live}
    BY <2>1 DEF Arrive, file, Typed
  <2>3. QED
    BY <2>2, CredentialsAssumption
<1>3. QED
  BY <1>1, <1>2

LEMMA HeldByRequestStep ==
  ASSUME Typed, Held, [Next]_vars, NEW r \in Requests
  PROVE  HeldByRequest(r)'
<1> USE DEF Typed, TypeOK, Reply
<1>1. HeldByRequest(r)
  BY DEF Held
<1>2. ASSUME NEW input \in Inputs, request[r] = input, request'[r] = input, Presented(r)
      PROVE  Presented(r)'
  <2>1. /\ Credential(input) # Null
        /\ Credential(input).kind = "bearer" => tokens[Credential(input).token] # Null
    BY <1>2 DEF Presented
  <2>2. Credential(input).kind = "bearer" => tokens'[Credential(input).token] # Null
    BY <2>1, CredentialType, FileKept
  <2>3. QED
    BY <1>2, <2>1, <2>2, CredentialsKept DEF Presented
<1>3. CASE ~ StepOf(r)
  <2>1. Same(r)
    BY <1>3, OthersKept
  <2>2. pc[r] = "credential" \/ forward[r] # {} => Presented(r)'
    BY <1>1, <1>2, <2>1 DEF HeldByRequest, Same
  <2>3. QED
    BY <1>1, <2>1, <2>2, EndedKept DEF HeldByRequest, Same
<1>4. ASSUME NEW input \in Inputs, Arrive(r, input) PROVE HeldByRequest(r)'
  <2>1. request'[r] = input /\ forward'[r] = {} /\ pc'[r] \in {"rules", "answered"}
    BY <1>1, <1>4 DEF Arrive, HeldByRequest
  <2>2. QED
    BY <2>1, EndedKept DEF HeldByRequest
<1>5. CASE ReadRules(r)
  <2>1. PICK input \in Inputs : request[r] = input /\ request'[r] = input
    BY <1>1, <1>5 DEF ReadRules, HeldByRequest
  <2>2. forward'[r] = {} /\ pc'[r] \in {"credential", "answered"}
    BY <1>1, <1>5 DEF ReadRules, HeldByRequest
  <2>3. ASSUME pc'[r] = "credential" PROVE Presented(r)'
    <3>1. /\ Credential(input) # Null
          /\ Credential(input).kind = "bearer" => SignatureHolds(Credential(input).token)
      BY <1>5, <2>1, <2>3 DEF ReadRules
    <3>2. Presented(r)
      BY <2>1, <3>1 DEF Presented, SignatureHolds
    <3>3. QED
      BY <1>2, <2>1, <3>2
  <2>4. QED
    BY <2>1, <2>2, <2>3, EndedKept DEF HeldByRequest
<1>6. CASE ReadCredential(r) \/ UpstreamAnswers(r)
  <2>1. PICK input \in Inputs : request[r] = input /\ request'[r] = input
    BY <1>1, <1>6 DEF ReadCredential, UpstreamAnswers, HeldByRequest
  <2>2. /\ pc'[r] \in {"upstream", "answered"}
        /\ forward'[r] # {} => Presented(r)
    BY <1>1, <1>6 DEF ReadCredential, UpstreamAnswers, HeldByRequest
  <2>3. QED
    BY <1>2, <2>1, <2>2, EndedKept DEF HeldByRequest
<1>7. QED
  BY <1>3, <1>4, <1>5, <1>6 DEF StepOf

LEMMA RolesOfTokensStep ==
  ASSUME Typed, Held, [Next]_vars
  PROVE  RolesOfTokens'
<1> SUFFICES ASSUME NEW t \in Tokens, tokens'[t] # Null,
                    NEW user, user = Owner[SessionOf[t]].user,
                    NEW workspace, workspace = Owner[SessionOf[t]].workspace,
                    NEW role \in tokens'[t].roles
             PROVE  \E a \in assignments' :
                      a.user = user /\ a.role = role /\ a.workspace \in {Null, workspace}
  BY DEF RolesOfTokens, Given
<1>1. CASE tokens[t] # Null
  BY <1>1, FileKept DEF Held, RolesOfTokens, Given
<1>2. CASE tokens[t] = Null
  <2>1. IssueToken(t)
    BY <1>2
       DEF Next, vars, file, FileChanges, CreatePolicy, AssignRole, Login, EndSession,
           IssueToken, TokenExpires, Arrive, ReadRules, ReadCredential, UpstreamAnswers,
           Typed, TypeOK
  <2>2. tokens'[t].roles = ResolveRoles(user, workspace) /\ UNCHANGED assignments
    BY <2>1 DEF IssueToken, Typed, TypeOK
  <2>3. QED
    BY <2>2, RolesGiven DEF Given
<1>3. QED
  BY <1>1, <1>2

LEMMA HeldAlways == Spec => [](Typed /\ Held)
<1>1. Typed /\ Held /\ [Next]_vars => Typed' /\ Held'
  BY TypedStep, HeldByRequestStep, RolesOfTokensStep DEF Held
<1>2. QED
  BY <1>1, TypedInit, PTL DEF Spec

\* Every reachable state is well typed, and a request is answered exactly
\* when it is through.
THEOREM TypeCorrect == Spec => []TypeOK
<1>1. Typed => TypeOK
  BY DEF Typed
<1>2. QED
  BY <1>1, HeldAlways, PTL

-----------------------------------------------------------------------------
(* What is forwarded. *)

\* A request that has been sent keeps what it came with.
LEMMA SentStays ==
  ASSUME Typed, Held, [Next]_vars, NEW r \in Requests, forward[r] # {}
  PROVE  forward'[r] = forward[r] /\ request'[r] = request[r] /\ ended'[r] = ended[r]
<1>1. pc[r] \in {"upstream", "answered"}
  BY DEF Held, HeldByRequest
<1>2. CASE StepOf(r)
  BY <1>1, <1>2 DEF StepOf, Arrive, ReadRules, ReadCredential, UpstreamAnswers
<1>3. QED
  BY <1>2, OthersKept DEF Same

\* What the step that sends a request knew.
LEMMA SentByDecision ==
  ASSUME Typed, Held, [Next]_vars, NEW r \in Requests, forward[r] = {}, forward'[r] # {}
  PROVE  /\ request'[r] = request[r] /\ ended'[r] = ended[r]
         /\ UNCHANGED assignments
         /\ \E input \in Inputs, c \in CredentialOf : \E rule :
              /\ input = request[r] /\ c = Credential(input)
              /\ Principal(c) # Null
              /\ c.kind = "bearer" => tokens[c.token] # Null
              /\ forward'[r] = {TrustedRequest(rule, input, Principal(c))}
<1>1. ReadCredential(r)
  <2>1. StepOf(r)
    BY OthersKept DEF Same
  <2>2. QED
    BY <2>1 DEF StepOf, Arrive, ReadRules, UpstreamAnswers
<1>2. request[r] \in Inputs /\ Presented(r)
  BY <1>1 DEF ReadCredential, Held, HeldByRequest
<1>3. /\ Principal(Credential(request[r])) # Null
      /\ \E rule : forward'[r] =
           {TrustedRequest(rule, request[r], Principal(Credential(request[r])))}
  BY <1>1 DEF ReadCredential, Typed
<1>4. QED
  BY <1>1, <1>2, <1>3, CredentialType DEF ReadCredential, Presented, file

\* The token and the session a request came with, seen by its answer: one that
\* had ended when it came is refused, bearer or cookie, whatever the api saves
\* between the gateway's two reads of the file (verifyBearer, verifySession).
THEOREM EndedCredentialsAreRefused == Spec => []EndedNeverForwarded
<1>1. Init => EndedNeverForwarded
  BY DEF Init, EndedNeverForwarded
<1>2. Typed /\ Held /\ EndedNeverForwarded /\ [Next]_vars => EndedNeverForwarded'
  <2> SUFFICES ASSUME Typed, Held, EndedNeverForwarded, [Next]_vars,
                      NEW r \in Requests, forward'[r] # {}
               PROVE  (LET c == Credential(request[r]) IN
                       /\ c # Null /\ c.token \notin ended[r]
                       /\ c.kind = "bearer" => SessionOf[c.token] \notin ended[r])'
    BY DEF EndedNeverForwarded
  <2>1. CASE forward[r] # {}
    <3>1. PICK input : input = request[r] /\ input = request'[r]
      BY <2>1, SentStays
    <3>2. ended'[r] = ended[r]
      BY <2>1, SentStays
    <3>3. QED
      BY <2>1, <3>1, <3>2, CredentialsKept DEF EndedNeverForwarded
  <2>2. CASE forward[r] = {}
    <3>1. PICK input \in Inputs, c \in CredentialOf :
            /\ input = request[r] /\ input = request'[r] /\ ended'[r] = ended[r]
            /\ c = Credential(input) /\ Principal(c) # Null
            /\ c.kind = "bearer" => tokens[c.token] # Null
      BY <2>2, SentByDecision
    <3>2. /\ SessionOfCredential(c) \notin ended[r]
          /\ c.kind = "bearer" => c.token \notin ended[r]
      <4>1. /\ SessionOfCredential(c) \in Sessions
            /\ sessions[SessionOfCredential(c)] = "live"
            /\ c.kind = "bearer" => tokens[c.token].live
        BY <3>1, PrincipalTold DEF Held
      <4>2. c.kind = "bearer" => c.token \in Tokens
        BY <3>1, CredentialType, NullAssumption
      <4>3. QED
        BY <4>1, <4>2 DEF Held, HeldByRequest
    <3>3. c # Null
      BY NullAssumption
    <3>4. QED
      BY <3>1, <3>2, <3>3, CredentialsKept DEF SessionOfCredential
  <2>3. QED
    BY <2>1, <2>2
<1>3. QED
  BY <1>1, <1>2, HeldAlways, PTL DEF Spec

\* What IdentityIsTrue says of one request sent for credential c.
Truthful(sent, c) ==
  LET owner == Owner[SessionOfCredential(c)]
  IN /\ sent.own \cap PubAuthNames = {}
     /\ sent.principal.user = owner.user
     /\ sent.principal.workspace = owner.workspace
     /\ Given(sent.principal.roles, owner.user, owner.workspace)

LEMMA TruthfulIs ==
  /\ IdentityIsTrue =>
       \A r \in Requests : \A sent \in forward[r] : Truthful(sent, Credential(request[r]))
  /\ (\A r \in Requests : \A sent \in forward[r] : Truthful(sent, Credential(request[r])))
       => IdentityIsTrue
BY DEF IdentityIsTrue, Truthful, Given, SessionOfCredential

\* The roles the upstream is told were all assigned to the owner of the
\* credential for its workspace, whether they were signed into the token or
\* resolved on arrival, and no identity header of the client's is among those
\* sent.
THEOREM UpstreamIsToldTheTruth == Spec => []IdentityIsTrue
<1>1. Init => IdentityIsTrue
  BY DEF Init, IdentityIsTrue
<1>2. Typed /\ Held /\ IdentityIsTrue /\ [Next]_vars => IdentityIsTrue'
  <2> SUFFICES ASSUME Typed, Held, IdentityIsTrue, [Next]_vars,
                      NEW r \in Requests, NEW sent \in forward'[r],
                      NEW c, c = Credential(request[r])'
               PROVE  Truthful(sent, c)'
    <3>1. (\A r \in Requests : \A sent \in forward[r] :
             Truthful(sent, Credential(request[r])))' => IdentityIsTrue'
      BY TruthfulIs, PTL
    <3>2. ASSUME \A r \in Requests : \A sent \in forward'[r] :
                   \A c : c = Credential(request[r])' => Truthful(sent, c)'
          PROVE  IdentityIsTrue'
      <4> SUFFICES ASSUME NEW r \in Requests, NEW sent \in forward'[r]
                   PROVE  Truthful(sent, Credential(request[r]))'
        BY <3>1
      <4>1. PICK c : c = Credential(request[r])'
        OBVIOUS
      <4>2. Truthful(sent, c)'
        BY <3>2, <4>1
      <4>3. QED
        BY <4>1, <4>2 DEF Truthful, Given, SessionOfCredential
    <3>3. QED
      BY <3>2
  <2>1. CASE forward[r] # {}
    <3>1. /\ sent \in forward[r] /\ c = Credential(request[r])
      <4>1. PICK input : input = request[r] /\ input = request'[r]
        BY <2>1, SentStays
      <4>2. QED
        BY <2>1, <4>1, SentStays, CredentialsKept
    <3>2. Truthful(sent, c)
      <4>1. PICK d : d = Credential(request[r])
        OBVIOUS
      <4>2. Truthful(sent, d)
        <5>1. Truthful(sent, Credential(request[r]))
          BY <3>1, TruthfulIs
        <5>2. QED
          BY <4>1, <5>1 DEF Truthful, Given, SessionOfCredential
      <4>3. c = d
        BY <3>1, <4>1
      <4>4. QED
        BY <4>2, <4>3
    <3>3. assignments \subseteq assignments'
      BY FileKept
    <3>4. QED
      <4> DEFINE owner == Owner[SessionOfCredential(c)]
      <4>1. /\ sent.own \cap PubAuthNames = {}
            /\ sent.principal.user = owner.user
            /\ sent.principal.workspace = owner.workspace
        BY <3>2 DEF Truthful
      <4>2. Given(sent.principal.roles, owner.user, owner.workspace)'
        BY <3>2, <3>3 DEF Truthful, Given
      <4>3. QED
        BY <4>1, <4>2 DEF Truthful
  <2>2. CASE forward[r] = {}
    <3> DEFINE owner == Owner[SessionOfCredential(c)]
    <3>0. PICK input \in Inputs, d \in CredentialOf : \E rule :
            /\ input = request[r] /\ input = request'[r]
            /\ d = Credential(input) /\ Principal(d) # Null
            /\ d.kind = "bearer" => tokens[d.token] # Null
            /\ forward'[r] = {TrustedRequest(rule, input, Principal(d))}
      BY <2>2, SentByDecision
    <3>1. PICK rule :
            /\ input = request[r] /\ input = request'[r]
            /\ d = Credential(input) /\ Principal(d) # Null
            /\ d.kind = "bearer" => tokens[d.token] # Null
            /\ forward'[r] = {TrustedRequest(rule, input, Principal(d))}
      BY <3>0
    <3>2. c = d
      BY <3>1, CredentialsKept
    <3>3. /\ sent.own = CleanHeaders(input.headers)
               \ {"x-pubauth-user-id", "x-pubauth-workspace-id", "x-pubauth-roles",
                  "x-pubauth-groups"}
          /\ sent.principal = Principal(d)
      BY <3>1 DEF TrustedRequest
    <3>4. /\ Principal(d).user = owner.user /\ Principal(d).workspace = owner.workspace
          /\ Given(Principal(d).roles, owner.user, owner.workspace)
      <4>1. /\ Principal(d).user = Owner[SessionOfCredential(d)].user
            /\ Principal(d).workspace = Owner[SessionOfCredential(d)].workspace
            /\ Given(Principal(d).roles, Principal(d).user, Principal(d).workspace)
        BY <3>1, PrincipalTold DEF Held
      <4>2. QED
        BY <3>2, <4>1
    <3>5. UNCHANGED assignments
      BY <2>2, SentByDecision
    <3>6. sent.own \cap PubAuthNames = {}
      BY <3>3 DEF CleanHeaders, PubAuthNames
    <3>7. Given(sent.principal.roles, owner.user, owner.workspace)'
      BY <3>3, <3>4, <3>5 DEF Given
    <3>8. QED
      BY <3>3, <3>4, <3>6, <3>7 DEF Truthful, SessionOfCredential, Given
  <2>3. QED
    BY <2>1, <2>2
<1>3. QED
  BY <1>1, <1>2, HeldAlways, PTL DEF Spec

-----------------------------------------------------------------------------
(***************************************************************************)
(* Sorting by counting.  The ranks of n elements are the numbers below n   *)
(* (they differ, since the order is strict and total, and n numbers have   *)
(* no room for more), so every number up to n has an element and every     *)
(* element a number.                                                       *)
(***************************************************************************)
Orders(R, S) ==
  /\ \A i \in S : <<i, i>> \notin R
  /\ \A i, j, k \in S : <<i, j>> \in R /\ <<j, k>> \in R => <<i, k>> \in R
  /\ \A i, j \in S : i # j => <<i, j>> \in R \/ <<j, i>> \in R

Preceding(S, R, i) == {j \in S : <<j, i>> \in R}

\* An earlier element has a smaller rank, and the ranks are below the size.
LEMMA Ranks ==
  ASSUME NEW S, IsFiniteSet(S), NEW R, Orders(R, S), NEW i \in S
  PROVE  /\ Rank(S, R, i) \in Nat
         /\ Rank(S, R, i) < Cardinality(S)
         /\ \A j \in S : <<j, i>> \in R => Rank(S, R, j) < Rank(S, R, i)
<1>0. \A k \in S : /\ Rank(S, R, k) = Cardinality(Preceding(S, R, k))
                   /\ IsFiniteSet(Preceding(S, R, k))
                   /\ Cardinality(Preceding(S, R, k)) \in Nat
                   /\ k \notin Preceding(S, R, k)
  <2> TAKE k \in S
  <2>1. Preceding(S, R, k) \in SUBSET S
    BY DEF Preceding
  <2>2. k \notin Preceding(S, R, k)
    BY DEF Preceding, Orders
  <2>3. Rank(S, R, k) = Cardinality(Preceding(S, R, k))
    BY DEF Rank, Preceding
  <2>4. QED
    BY <2>1, <2>2, <2>3, FS_Subset, FS_CardinalityType
<1>1. Cardinality(Preceding(S, R, i)) < Cardinality(S)
  <2>1. Preceding(S, R, i) \in SUBSET S /\ Preceding(S, R, i) # S
    BY <1>0 DEF Preceding
  <2>2. QED
    BY <2>1, <1>0, FS_Subset, FS_CardinalityType
<1>2. ASSUME NEW j \in S, <<j, i>> \in R
      PROVE  Cardinality(Preceding(S, R, j)) < Cardinality(Preceding(S, R, i))
  <2>1. j \in Preceding(S, R, i)
    BY <1>2 DEF Preceding
  <2>2. Preceding(S, R, j) \in SUBSET Preceding(S, R, i)
    BY <1>2 DEF Preceding, Orders
  <2>3. Preceding(S, R, j) # Preceding(S, R, i)
    BY <2>1, <1>0
  <2>4. QED
    BY <2>2, <2>3, <1>0, FS_Subset
<1>3. QED
  BY <1>0, <1>1, <1>2

LEMMA Places ==
  ASSUME NEW S, IsFiniteSet(S), NEW R, Orders(R, S)
  PROVE  /\ Cardinality(S) \in Nat
         /\ \A n \in 1..Cardinality(S) :
              Nth(S, R, n) \in S /\ Rank(S, R, Nth(S, R, n)) = n - 1
         /\ \A i \in S : /\ Rank(S, R, i) + 1 \in 1..Cardinality(S)
                         /\ Nth(S, R, Rank(S, R, i) + 1) = i
<1> DEFINE size == Cardinality(S)
           f == [i \in S |-> Rank(S, R, i) + 1]
<1>1. size \in Nat
  BY FS_CardinalityType
<1>2. \A i \in S : Rank(S, R, i) \in Nat /\ Rank(S, R, i) < size
  BY Ranks
<1>3. \A i, j \in S : Rank(S, R, i) = Rank(S, R, j) => i = j
  <2> SUFFICES ASSUME NEW i \in S, NEW j \in S, i # j
               PROVE  Rank(S, R, i) # Rank(S, R, j)
    OBVIOUS
  <2>1. <<i, j>> \in R \/ <<j, i>> \in R
    BY DEF Orders
  <2>2. Rank(S, R, i) < Rank(S, R, j) \/ Rank(S, R, j) < Rank(S, R, i)
    BY <2>1, Ranks
  <2>3. QED
    BY <2>2, <1>2
<1> HIDE DEF size
<1>4. f \in Injection(S, 1..size)
  <2>1. f \in [S -> 1..size]
    BY <1>1, <1>2
  <2>2. \A i, j \in S : f[i] = f[j] => i = j
    BY <1>2, <1>3
  <2>3. QED
    BY <2>1, <2>2 DEF Injection, IsInjective
<1>5. f \in Surjection(S, 1..size)
  <2>1. IsFiniteSet(1..size) /\ Cardinality(1..size) = size
    <3>1. /\ IsFiniteSet(1..size)
          /\ Cardinality(1..size) = IF 1 > size THEN 0 ELSE size - 1 + 1
      BY <1>1, FS_Interval
    <3>2. QED
      BY <1>1, <3>1
  <2>2. QED
    BY <2>1, <1>4, FS_Injection DEF size
<1>6. \A n \in 1..size : \E i \in S : Rank(S, R, i) = n - 1
  <2> TAKE n \in 1..size
  <2>1. PICK i \in S : f[i] = n
    BY <1>5 DEF Surjection
  <2>2. Rank(S, R, i) + 1 = n
    BY <2>1
  <2>3. QED
    BY <2>2, <1>1, <1>2
<1>7. \A n \in 1..size : Nth(S, R, n) \in S /\ Rank(S, R, Nth(S, R, n)) = n - 1
  BY <1>6 DEF Nth
<1>8. \A i \in S : Rank(S, R, i) + 1 \in 1..size
  BY <1>1, <1>2
<1>9. \A i \in S : Nth(S, R, Rank(S, R, i) + 1) = i
  <2> TAKE i \in S
  <2>1. /\ Nth(S, R, Rank(S, R, i) + 1) \in S
        /\ Rank(S, R, Nth(S, R, Rank(S, R, i) + 1)) = (Rank(S, R, i) + 1) - 1
    BY <1>7, <1>8
  <2>2. (Rank(S, R, i) + 1) - 1 = Rank(S, R, i)
    BY <1>2
  <2>3. QED
    BY <2>1, <2>2, <1>3
<1>10. QED
  BY <1>1, <1>7, <1>8, <1>9 DEF size

LEMMA LeastPlace ==
  ASSUME NEW T \in SUBSET Nat, T # {}
  PROVE  \E m \in T : \A k \in T : m <= k
<1>1. PICK m \in T : \A k \in T : ~ (<<k, m>> \in OpToRel(<, Nat))
  BY NatLessThanWellFounded, WFMin
<1>2. \A k \in T : ~ (k < m)
  BY <1>1 DEF OpToRel
<1>3. QED
  BY <1>2

-----------------------------------------------------------------------------
(***************************************************************************)
(* What a pattern covers.  The names of a path are numbered by counting    *)
(* its segments, and matchPathPattern compares by number.  A pairing of    *)
(* the two sets of segments that keeps the order and skips nothing pairs   *)
(* equal numbers, since it maps what precedes a segment onto what precedes *)
(* its partner; and pairing equal numbers is such a pairing.               *)
(***************************************************************************)
Paths == Seq(DOMAIN Name)

Size(path)     == Cardinality(Kept(path))
At(path, n)    == Nth(Kept(path), Earlier(Kept(path)), n)
Index(path, i) == Rank(Kept(path), Earlier(Kept(path)), i)

LEMMA KeptSegments ==
  ASSUME NEW path \in Paths
  PROVE  /\ Kept(path) \in SUBSET Nat /\ IsFiniteSet(Kept(path))
         /\ Orders(Earlier(Kept(path)), Kept(path))
<1>1. DOMAIN path = 1..Len(path) /\ Len(path) \in Int
  BY DEF Paths
<1>2. Kept(path) \in SUBSET DOMAIN path
  BY DEF Kept
<1>3. Kept(path) \in SUBSET Nat
  BY <1>1, <1>2
<1>4. IsFiniteSet(Kept(path))
  BY <1>1, <1>2, FS_Interval, FS_Subset
<1>5. \A i, j \in Kept(path) : <<i, j>> \in Earlier(Kept(path)) <=> i < j
  BY DEF Earlier
<1>6. Orders(Earlier(Kept(path)), Kept(path))
  BY <1>3, <1>5 DEF Orders
<1>7. QED
  BY <1>3, <1>4, <1>6

\* Numbering the segments of a path and looking them up are inverse, and keep
\* the order.
LEMMA Numbering ==
  ASSUME NEW path \in Paths
  PROVE  /\ Size(path) \in Nat
         /\ \A n \in 1..Size(path) : At(path, n) \in Kept(path) /\ Index(path, At(path, n)) = n - 1
         /\ \A i \in Kept(path) : /\ Index(path, i) \in Nat
                                 /\ Index(path, i) + 1 \in 1..Size(path)
                                 /\ At(path, Index(path, i) + 1) = i
         /\ \A i, j \in Kept(path) : i < j <=> Index(path, i) < Index(path, j)
<1>1. /\ Kept(path) \in SUBSET Nat /\ IsFiniteSet(Kept(path))
      /\ Orders(Earlier(Kept(path)), Kept(path))
  BY KeptSegments
<1>2. \A i \in Kept(path) : /\ Index(path, i) \in Nat
                            /\ \A j \in Kept(path) : j < i => Index(path, j) < Index(path, i)
  BY <1>1, Ranks DEF Index, Earlier
<1>3. ASSUME NEW i \in Kept(path), NEW j \in Kept(path)
      PROVE  i < j <=> Index(path, i) < Index(path, j)
  <2>1. i \in Nat /\ j \in Nat
    BY <1>1
  <2>2. i < j \/ j < i \/ i = j
    BY <2>1
  <2>3. QED
    BY <1>2, <2>1, <2>2
<1>4. QED
  BY <1>1, <1>2, <1>3, Places DEF Size, At, Index

LEMMA NamesOf ==
  ASSUME NEW path
  PROVE  NormalizePath(path) = [n \in 1..Size(path) |-> Name[path[At(path, n)]]]
BY DEF NormalizePath, Size, At

Pairs(f, pattern, path) ==
  /\ \A i \in Kept(pattern.path) : Name[path[f[i]]] = Name[pattern.path[i]]
  /\ \A i, j \in Kept(pattern.path) : i < j => f[i] < f[j]
  /\ \A n \in Kept(path) : ~ pattern.recursive \/ (\E i \in Kept(pattern.path) : n < f[i])
                          => \E i \in Kept(pattern.path) : f[i] = n

LEMMA CoversIs ==
  ASSUME NEW pattern, NEW path
  PROVE  Covers(pattern, path) <=>
           /\ Normalizes(pattern.path) /\ Normalizes(path)
           /\ \E f \in [Kept(pattern.path) -> Kept(path)] : Pairs(f, pattern, path)
BY DEF Covers, Normalizes, Kept, Pairs

LEMMA MatchedIsCovered ==
  ASSUME NEW pattern, pattern.path \in Paths, NEW path \in Paths,
         MatchPathPattern(pattern, path)
  PROVE  Covers(pattern, path)
<1> DEFINE base == pattern.path
           f    == [i \in Kept(base) |-> At(path, Index(base, i) + 1)]
<1>1. /\ Normalizes(base) /\ Normalizes(path)
      /\ pattern.recursive \/ 1..Size(base) = 1..Size(path)
      /\ \A n \in 1..Size(base) : /\ n \in 1..Size(path)
                                 /\ Name[path[At(path, n)]] = Name[base[At(base, n)]]
  <2>1. /\ DOMAIN NormalizePath(base) = 1..Size(base)
        /\ DOMAIN NormalizePath(path) = 1..Size(path)
        /\ \A n \in 1..Size(base) : NormalizePath(base)[n] = Name[base[At(base, n)]]
        /\ \A n \in 1..Size(path) : NormalizePath(path)[n] = Name[path[At(path, n)]]
    BY NamesOf
  <2>2. QED
    BY <2>1 DEF MatchPathPattern
<1>2. \A i \in Kept(base) : /\ Index(base, i) \in Nat
                            /\ Index(base, i) + 1 \in 1..Size(path)
                            /\ f[i] \in Kept(path) /\ Index(path, f[i]) = Index(base, i)
                            /\ Name[path[f[i]]] = Name[base[i]]
  <2> TAKE i \in Kept(base)
  <2>1. /\ Index(base, i) \in Nat /\ Index(base, i) + 1 \in 1..Size(base)
        /\ At(base, Index(base, i) + 1) = i
    BY Numbering
  <2>2. /\ Index(base, i) + 1 \in 1..Size(path)
        /\ Name[path[At(path, Index(base, i) + 1)]] = Name[base[At(base, Index(base, i) + 1)]]
    BY <1>1, <2>1
  <2>3. /\ At(path, Index(base, i) + 1) \in Kept(path)
        /\ Index(path, At(path, Index(base, i) + 1)) = (Index(base, i) + 1) - 1
    BY <2>2, Numbering
  <2>4. (Index(base, i) + 1) - 1 = Index(base, i)
    BY <2>1
  <2>5. QED
    BY <2>1, <2>2, <2>3, <2>4
<1>3. f \in [Kept(base) -> Kept(path)]
  BY <1>2
<1> HIDE DEF f
<1>4. \A i, j \in Kept(base) : i < j => f[i] < f[j]
  BY <1>2, Numbering
<1>5. ASSUME NEW n \in Kept(path), ~ pattern.recursive \/ \E i \in Kept(base) : n < f[i]
      PROVE  \E i \in Kept(base) : f[i] = n
  <2> DEFINE m == Index(path, n) + 1
  <2>1. m \in 1..Size(path) /\ At(path, m) = n /\ Index(path, n) \in Nat
    BY Numbering
  <2>2. m \in 1..Size(base)
    <3>1. CASE ~ pattern.recursive
      BY <1>1, <2>1, <3>1
    <3>2. CASE \E i \in Kept(base) : n < f[i]
      <4>1. PICK i \in Kept(base) : n < f[i]
        BY <3>2
      <4>2. Index(path, n) < Index(base, i)
        BY <1>2, <4>1, Numbering
      <4>3. Index(base, i) + 1 \in 1..Size(base) /\ Index(base, i) \in Nat /\ Size(base) \in Nat
        BY Numbering
      <4>4. QED
        BY <2>1, <4>2, <4>3
    <3>3. QED
      BY <1>5, <3>1, <3>2
  <2>3. /\ At(base, m) \in Kept(base) /\ Index(base, At(base, m)) = m - 1
    BY <2>2, Numbering
  <2>4. (m - 1) + 1 = m
    BY <2>1
  <2>5. f[At(base, m)] = At(path, m)
    BY <2>3, <2>4 DEF f
  <2>6. QED
    BY <2>1, <2>3, <2>5
<1>6. Pairs(f, pattern, path)
  BY <1>2, <1>4, <1>5 DEF Pairs
<1>7. QED
  BY <1>1, <1>3, <1>6, CoversIs

\* A pairing pairs segments of the same number.
LEMMA PairsKeepIndex ==
  ASSUME NEW pattern, pattern.path \in Paths, NEW path \in Paths,
         NEW f \in [Kept(pattern.path) -> Kept(path)], Pairs(f, pattern, path),
         NEW i \in Kept(pattern.path)
  PROVE  Index(path, f[i]) = Index(pattern.path, i)
<1> DEFINE base == pattern.path
           S    == {j \in Kept(base) : j < i}
           T    == {n \in Kept(path) : n < f[i]}
           g    == [j \in S |-> f[j]]
<1>1. /\ Kept(base) \in SUBSET Nat /\ IsFiniteSet(Kept(base))
      /\ Kept(path) \in SUBSET Nat
  BY KeptSegments
<1>2. Index(base, i) = Cardinality(S) /\ Index(path, f[i]) = Cardinality(T)
  <2>1. S = {j \in Kept(base) : <<j, i>> \in Earlier(Kept(base))}
    BY DEF Earlier
  <2>2. T = {n \in Kept(path) : <<n, f[i]>> \in Earlier(Kept(path))}
    BY DEF Earlier
  <2> HIDE DEF S, T
  <2>3. QED
    BY <2>1, <2>2 DEF Index, Rank
<1>3. \A j \in S : j \in Kept(base) /\ g[j] = f[j] /\ f[j] \in T
  BY DEF Pairs
<1>4. \A j, k \in S : g[j] = g[k] => j = k
  <2> SUFFICES ASSUME NEW j \in S, NEW k \in S, j < k PROVE f[j] < f[k]
    BY <1>1, <1>3
  <2>1. QED
    BY <1>3 DEF Pairs
<1>5. \A n \in T : \E j \in S : g[j] = n
  <2> TAKE n \in T
  <2>1. PICK j \in Kept(base) : f[j] = n
    BY DEF Pairs
  <2>2. f[j] < f[i] /\ (i < j => f[i] < f[j])
    BY <2>1 DEF Pairs
  <2>3. i \in Nat /\ j \in Nat /\ f[i] \in Nat /\ f[j] \in Nat
    BY <1>1
  <2>4. j < i
    BY <2>2, <2>3
  <2>5. QED
    BY <2>1, <2>4, <1>3
<1> HIDE DEF g
<1>6. g \in [S -> T]
  BY <1>3 DEF g
<1> HIDE DEF S, T
<1>7. g \in Bijection(S, T)
  BY <1>4, <1>5, <1>6 DEF Bijection, Injection, IsInjective, Surjection
<1>8. IsFiniteSet(S)
  BY <1>1, FS_Subset DEF S
<1>9. Cardinality(S) = Cardinality(T)
  BY <1>7, <1>8, FS_Bijection DEF ExistsBijection
<1>10. QED
  BY <1>2, <1>9

LEMMA CoveredIsMatched ==
  ASSUME NEW pattern, pattern.path \in Paths, NEW path \in Paths, Covers(pattern, path)
  PROVE  MatchPathPattern(pattern, path)
<1> DEFINE base == pattern.path
<1>1. Normalizes(base) /\ Normalizes(path)
  BY CoversIs
<1>2. PICK f \in [Kept(base) -> Kept(path)] : Pairs(f, pattern, path)
  BY CoversIs
<1>3. \A i \in Kept(base) : Index(path, f[i]) = Index(base, i)
  BY <1>2, PairsKeepIndex
<1>4. ASSUME NEW n \in 1..Size(base)
      PROVE  /\ n \in 1..Size(path)
             /\ Name[path[At(path, n)]] = Name[base[At(base, n)]]
  <2> DEFINE i == At(base, n)
  <2>1. i \in Kept(base) /\ Index(base, i) = n - 1
    BY Numbering
  <2>2. f[i] \in Kept(path) /\ Index(path, f[i]) = n - 1
    BY <1>2, <1>3, <2>1
  <2>3. /\ Index(path, f[i]) + 1 \in 1..Size(path)
        /\ At(path, Index(path, f[i]) + 1) = f[i]
    BY <2>2, Numbering
  <2>4. (n - 1) + 1 = n
    OBVIOUS
  <2>5. n \in 1..Size(path) /\ At(path, n) = f[i]
    BY <2>2, <2>3, <2>4
  <2>6. Name[path[f[i]]] = Name[base[i]]
    BY <1>2, <2>1 DEF Pairs
  <2>7. QED
    BY <2>5, <2>6
<1>5. ASSUME ~ pattern.recursive PROVE Size(base) = Size(path)
  <2>1. Size(base) \in Nat /\ Size(path) \in Nat
    BY Numbering
  <2>2. ASSUME NEW n \in 1..Size(path) PROVE n \in 1..Size(base)
    <3>1. At(path, n) \in Kept(path) /\ Index(path, At(path, n)) = n - 1
      BY Numbering
    <3>2. PICK i \in Kept(base) : f[i] = At(path, n)
      BY <1>2, <1>5, <3>1 DEF Pairs
    <3>3. Index(base, i) + 1 \in 1..Size(base) /\ Index(base, i) = n - 1
      BY <1>3, <3>1, <3>2, Numbering
    <3>4. QED
      BY <3>3
  <2>3. Size(base) <= Size(path)
    BY <1>4, <2>1
  <2>4. Size(path) <= Size(base)
    BY <2>1, <2>2
  <2>5. QED
    BY <2>1, <2>3, <2>4
<1>6. /\ DOMAIN NormalizePath(base) = 1..Size(base)
      /\ DOMAIN NormalizePath(path) = 1..Size(path)
      /\ \A n \in 1..Size(base) : NormalizePath(base)[n] = Name[base[At(base, n)]]
      /\ \A n \in 1..Size(path) : NormalizePath(path)[n] = Name[path[At(path, n)]]
  BY NamesOf
<1>7. QED
  BY <1>1, <1>4, <1>5, <1>6 DEF MatchPathPattern

\* matchPathPattern, which compares segments by index after dropping the empty
\* ones, is true of a path exactly when the pattern covers it, for all patterns
\* and paths: whatever their length, slashes and encoding.
THEOREM MatchIsCovers ==
  ASSUME NEW pattern, pattern.path \in Seq(DOMAIN Name), NEW path \in Seq(DOMAIN Name)
  PROVE  MatchPathPattern(pattern, path) <=> Covers(pattern, path)
BY MatchedIsCovered, CoveredIsMatched DEF Paths

-----------------------------------------------------------------------------
(* The policy that decides. *)

Lists == Seq(ToSet(FirstPolicies) \cup NewPolicies)

Count(ps, i) == Rank(Active(ps), Sorted(ps), i)
Place(ps, n) == Nth(Active(ps), Sorted(ps), n)

LEMMA Priorities ==
  ASSUME NEW ps \in Lists
  PROVE  /\ \A i \in DOMAIN ps : i \in Nat /\ ps[i].priority \in Int
         /\ IsFiniteSet(Active(ps))
         /\ Cardinality(Active(ps)) \in Nat
<1>1. \A i \in DOMAIN ps : i \in Nat /\ ps[i].priority \in Int
  BY PoliciesAssumption DEF Lists
<1>2. IsFiniteSet(DOMAIN ps)
  <2>1. DOMAIN ps = 1..Len(ps) /\ Len(ps) \in Int
    BY DEF Lists
  <2>2. QED
    BY <2>1, FS_Interval
<1>3. Active(ps) \in SUBSET DOMAIN ps
  BY DEF Active
<1>4. QED
  BY <1>1, <1>2, <1>3, FS_Subset, FS_CardinalityType

\* A stable sort by priority is an order of the active policies.
LEMMA SortedOrders ==
  ASSUME NEW ps \in Lists
  PROVE  /\ Orders(Sorted(ps), Active(ps))
         /\ \A i, j \in Active(ps) : <<i, j>> \in Sorted(ps) <=> Before(ps, i, j)
<1>1. \A i, j \in Active(ps) : <<i, j>> \in Sorted(ps) <=> Before(ps, i, j)
  BY DEF Sorted
<1>2. \A i \in Active(ps) : i \in Nat /\ ps[i].priority \in Int
  BY Priorities DEF Active
<1>3. \A i \in Active(ps) : ~ Before(ps, i, i)
  BY <1>2 DEF Before
<1>4. \A i, j, k \in Active(ps) : Before(ps, i, j) /\ Before(ps, j, k) => Before(ps, i, k)
  BY <1>2 DEF Before
<1>5. \A i, j \in Active(ps) : i # j => Before(ps, i, j) \/ Before(ps, j, i)
  BY <1>2 DEF Before
<1>6. Orders(Sorted(ps), Active(ps))
  BY <1>1, <1>3, <1>4, <1>5 DEF Orders
<1>7. QED
  BY <1>1, <1>6

LEMMA RulesAre ==
  ASSUME NEW ps \in Lists
  PROVE  /\ BuildRouteRules(ps) = [n \in 1..Cardinality(Active(ps)) |-> ps[Place(ps, n)]]
         /\ \A n \in 1..Cardinality(Active(ps)) :
              Place(ps, n) \in Active(ps) /\ Count(ps, Place(ps, n)) = n - 1
         /\ \A i \in Active(ps) : /\ Count(ps, i) \in Nat
                                  /\ Count(ps, i) + 1 \in 1..Cardinality(Active(ps))
                                  /\ Place(ps, Count(ps, i) + 1) = i
         /\ \A i, j \in Active(ps) : Before(ps, j, i) => Count(ps, j) < Count(ps, i)
<1>1. IsFiniteSet(Active(ps)) /\ Orders(Sorted(ps), Active(ps))
  BY Priorities, SortedOrders
<1>2. BuildRouteRules(ps) = [n \in 1..Cardinality(Active(ps)) |-> ps[Place(ps, n)]]
  BY DEF BuildRouteRules, Place
<1>3. \A i \in Active(ps) :
        Count(ps, i) \in Nat /\ \A j \in Active(ps) : Before(ps, j, i) => Count(ps, j) < Count(ps, i)
  BY <1>1, Ranks, SortedOrders DEF Count
<1>4. QED
  BY <1>1, <1>2, <1>3, Places DEF Count, Place

LEMMA ListsMatch ==
  ASSUME NEW ps \in Lists, NEW path \in Paths, NEW i \in DOMAIN ps
  PROVE  MatchPathPattern(ps[i].pattern, path) <=> Covers(ps[i].pattern, path)
<1>1. ps[i] \in ToSet(FirstPolicies) \cup NewPolicies
  BY DEF Lists
<1>2. ps[i].pattern.path \in Seq(DOMAIN Name)
  BY <1>1, PathsAssumption
<1>3. QED
  BY <1>2, MatchIsCovers DEF Paths

\* What the first match in the sorted list is: the policy that decides.
LEMMA FoundDecides ==
  ASSUME NEW ps \in Lists, NEW path \in Paths, NEW h \in Active(ps),
         MatchPathPattern(ps[h].pattern, path)
  PROVE  \E i \in DOMAIN ps : Decides(ps, i, path) /\ FindRule(ps, path) = ps[i]
<1> DEFINE rules   == BuildRouteRules(ps)
           matched == {n \in DOMAIN rules : MatchPathPattern(rules[n].pattern, path)}
           first   == CHOOSE n \in matched : \A m \in matched : n <= m
           i       == Place(ps, first)
<1>1. /\ DOMAIN rules = 1..Cardinality(Active(ps))
      /\ \A n \in DOMAIN rules : rules[n] = ps[Place(ps, n)]
  <2>1. rules = [n \in 1..Cardinality(Active(ps)) |-> ps[Place(ps, n)]]
    BY RulesAre
  <2> HIDE DEF rules
  <2>2. QED
    BY <2>1
<1>2. \A j \in Active(ps) : MatchPathPattern(ps[j].pattern, path)
                              => Count(ps, j) + 1 \in matched
  BY <1>1, RulesAre
<1>3. matched \in SUBSET Nat /\ matched # {}
  BY <1>1, <1>2, Priorities
<1>4. FindRule(ps, path) = rules[first]
  BY <1>3 DEF FindRule
<1> HIDE DEF rules, matched
<1>5. first \in matched /\ \A m \in matched : first <= m
  BY <1>3, LeastPlace
<1>6. /\ i \in Active(ps) /\ Count(ps, i) = first - 1
      /\ rules[first] = ps[i] /\ MatchPathPattern(ps[i].pattern, path)
  <2>1. first \in 1..Cardinality(Active(ps)) /\ rules[first] = ps[i]
    BY <1>1, <1>5 DEF matched
  <2>2. MatchPathPattern(rules[first].pattern, path)
    BY <1>5 DEF matched
  <2>3. QED
    BY <2>1, <2>2, RulesAre
<1> HIDE DEF first, i
<1>7. ASSUME NEW j \in Active(ps), MatchPathPattern(ps[j].pattern, path)
      PROVE  \/ ps[j].priority < ps[i].priority
             \/ ps[j].priority = ps[i].priority /\ i <= j
  <2>1. ~ Before(ps, j, i)
    <3>1. first <= Count(ps, j) + 1
      BY <1>2, <1>5, <1>7
    <3>2. Count(ps, j) \in Nat /\ Count(ps, i) \in Nat /\ first \in Nat
      BY <1>3, <1>5, <1>6, RulesAre
    <3>3. ~ (Count(ps, j) < Count(ps, i))
      BY <3>1, <3>2, <1>6
    <3>4. QED
      BY <3>3, <1>6, RulesAre
  <2>2. i \in Nat /\ j \in Nat /\ ps[i].priority \in Int /\ ps[j].priority \in Int
    BY <1>6, Priorities DEF Active
  <2>3. QED
    BY <2>1, <2>2 DEF Before
<1>8. Decides(ps, i, path)
  BY <1>6, <1>7, ListsMatch DEF Decides, Active
<1>9. QED
  BY <1>4, <1>6, <1>8 DEF Active

\* Without a policy that covers the path no rule is found.
LEMMA NothingFound ==
  ASSUME NEW ps \in Lists, NEW path \in Paths,
         {h \in Active(ps) : MatchPathPattern(ps[h].pattern, path)} = {}
  PROVE  FindRule(ps, path) = Null
<1> DEFINE rules == BuildRouteRules(ps)
           matched == {i \in DOMAIN rules : MatchPathPattern(rules[i].pattern, path)}
<1>1. ASSUME NEW n \in matched
      PROVE  FALSE
  <2>1. n \in DOMAIN BuildRouteRules(ps) /\ MatchPathPattern(rules[n].pattern, path)
    OBVIOUS
  <2>2. n \in 1..Cardinality(Active(ps)) /\ rules[n] = ps[Place(ps, n)]
    <3>1. rules = [m \in 1..Cardinality(Active(ps)) |-> ps[Place(ps, m)]]
      BY RulesAre
    <3>2. QED
      BY <2>1, <3>1
  <2>3. Place(ps, n) \in Active(ps)
    BY <2>2, RulesAre
  <2>4. QED
    BY <2>1, <2>2, <2>3
<1>2. matched = {}
  BY <1>1
<1>3. QED
  BY <1>2 DEF FindRule

\* Two policies do not both decide.
LEMMA OneDecides ==
  ASSUME NEW ps \in Lists, NEW path \in Paths, NEW i \in DOMAIN ps, Decides(ps, i, path)
  PROVE  FindRule(ps, path) = ps[i]
<1>1. i \in Active(ps) /\ MatchPathPattern(ps[i].pattern, path)
  BY ListsMatch DEF Decides, Active
<1>2. PICK h \in DOMAIN ps : Decides(ps, h, path) /\ FindRule(ps, path) = ps[h]
  BY <1>1, FoundDecides
<1>3. /\ i \in Nat /\ h \in Nat /\ ps[i].priority \in Int /\ ps[h].priority \in Int
  BY Priorities
<1>4. /\ \/ ps[h].priority < ps[i].priority
         \/ ps[h].priority = ps[i].priority /\ i <= h
      /\ \/ ps[i].priority < ps[h].priority
         \/ ps[i].priority = ps[h].priority /\ h <= i
  BY <1>2 DEF Decides
<1>5. i = h
  BY <1>3, <1>4
<1>6. QED
  BY <1>2, <1>5

\* A rule is the policy that decides, or Null when nothing matches.
LEMMA RuleDecides ==
  ASSUME NEW ps \in Lists, NEW path \in Paths, FindRule(ps, path) # Null
  PROVE  \E i \in DOMAIN ps : Decides(ps, i, path) /\ FindRule(ps, path) = ps[i]
<1>1. PICK n \in DOMAIN BuildRouteRules(ps) :
        MatchPathPattern(BuildRouteRules(ps)[n].pattern, path)
  BY DEF FindRule
<1>2. Place(ps, n) \in Active(ps) /\ MatchPathPattern(ps[Place(ps, n)].pattern, path)
  BY <1>1, RulesAre
<1>3. QED
  BY <1>2, FoundDecides

-----------------------------------------------------------------------------
(* What a request read first is a list of the file. *)

ReadLists == state \in [Requests -> Lists]

LEMMA ReadListsAlways == Spec => [](Typed /\ Held /\ ReadLists)
<1>1. Init => ReadLists
  BY DEF Init, ReadLists, Lists
<1>2. Typed /\ ReadLists /\ [Next]_vars => ReadLists'
  <2> SUFFICES ASSUME Typed, ReadLists, [Next]_vars PROVE ReadLists'
    OBVIOUS
  <2>1. policies \in Lists
    BY DEF Typed, TypeOK, Lists
  <2>2. UNCHANGED state \/ \E q \in Requests : state' = [state EXCEPT ![q] = policies]
    BY DEF Next, FileChanges, Arrive, ReadRules, ReadCredential, UpstreamAnswers, vars, work
  <2>3. QED
    BY <2>1, <2>2 DEF ReadLists
<1>3. QED
  BY <1>1, <1>2, HeldAlways, PTL DEF Spec

\* Wherever the policies of the file have gone since, what reached an upstream
\* did so as one policy of the list the request read says, an active one that
\* covers its path with the highest priority, the oldest of those: its
\* upstream, its methods, its roles (buildRouteRules, resolveGatewayRoute,
\* evaluatePolicy).  However many policies there are and whatever they cover.
THEOREM OneDecidesRequests == Spec => []OnePolicyDecides
<1>1. Init => OnePolicyDecides
  BY DEF Init, OnePolicyDecides
<1>2. Typed /\ Held /\ ReadLists /\ OnePolicyDecides /\ [Next]_vars => OnePolicyDecides'
  <2> SUFFICES ASSUME Typed, Held, ReadLists, OnePolicyDecides, [Next]_vars,
                      NEW r \in Requests, NEW sent \in forward'[r]
               PROVE  \E i \in DOMAIN state'[r] :
                        /\ Decides(state'[r], i, request'[r].path)
                        /\ sent.upstream = state'[r][i].upstream
                        /\ sent.method \in state'[r][i].methods
                        /\ sent.principal.roles \cap state'[r][i].roles # {}
    BY DEF OnePolicyDecides
  <2>1. CASE forward[r] # {}
    <3>1. pc[r] \in {"upstream", "answered"}
      BY <2>1 DEF Held, HeldByRequest
    <3>2. UNCHANGED state \/ \E q \in Requests : /\ pc[q] = "rules"
                                                /\ state' = [state EXCEPT ![q] = policies]
      BY DEF Next, FileChanges, Arrive, ReadRules, ReadCredential, UpstreamAnswers, vars, work
    <3>3. state'[r] = state[r]
      BY <3>1, <3>2 DEF ReadLists
    <3>4. QED
      BY <2>1, <3>3, SentStays DEF OnePolicyDecides
  <2>2. CASE forward[r] = {}
    <3>1. ReadCredential(r)
      <4>1. StepOf(r)
        BY <2>2, OthersKept DEF Same
      <4>2. QED
        BY <2>2, <4>1 DEF StepOf, Arrive, ReadRules, UpstreamAnswers
    <3> DEFINE principal == Principal(Credential(request[r]))
               rule == FindRule(state[r], request[r].path)
    <3>2. /\ EvaluatePolicy(principal, state[r], request[r]) = "allowed"
          /\ sent = TrustedRequest(rule, request[r], principal)
          /\ state'[r] = state[r] /\ request'[r] = request[r]
      BY <2>2, <3>1 DEF ReadCredential, Typed
    <3>3. /\ rule # Null /\ request[r].method \in rule.methods
          /\ rule.roles \cap principal.roles # {}
      BY <3>2 DEF EvaluatePolicy
    <3>4. /\ sent.upstream = rule.upstream /\ sent.method = request[r].method
          /\ sent.principal = principal
      BY <3>2 DEF TrustedRequest
    <3>5. request[r].path \in Paths
      <4>1. request[r] \in Inputs
        BY <3>1 DEF ReadCredential, Held, HeldByRequest
      <4>2. QED
        BY <4>1, PathsAssumption DEF Paths
    <3>6. PICK i \in DOMAIN state[r] :
            Decides(state[r], i, request[r].path) /\ rule = state[r][i]
      BY <3>3, <3>5, RuleDecides DEF ReadLists
    <3>7. QED
      BY <3>2, <3>3, <3>4, <3>6
  <2>3. QED
    BY <2>1, <2>2
<1>3. QED
  BY <1>1, <1>2, ReadListsAlways, PTL DEF Spec

\* A policy the admin service creates changes the rule of no path but those its
\* own pattern covers, and of none that a policy of a higher priority covers:
\* the one that decides a path afterwards is the new one or decided it before
\* (createRoutePolicy, buildRouteRules).
THEOREM PoliciesKeep == Spec => PoliciesKeepToTheirPaths
<1>1. ASSUME NEW ps \in Lists, NEW p, Append(ps, p) \in Lists, NEW path \in Paths,
             FindRule(Append(ps, p), path) # FindRule(ps, path)
      PROVE  /\ Covers(p.pattern, path)
             /\ \A j \in DOMAIN ps : ps[j].active /\ Covers(ps[j].pattern, path)
                                       => ps[j].priority <= p.priority
  <2> DEFINE Matched(list) == {h \in Active(list) : MatchPathPattern(list[h].pattern, path)}
  <2>1. PICK qs \in Lists : qs = Append(ps, p)
    BY <1>1
  <2>2. /\ \A j \in DOMAIN ps : j \in DOMAIN qs /\ qs[j] = ps[j]
        /\ \A j \in DOMAIN qs : j \in DOMAIN ps \/ qs[j] = p
    BY <2>1 DEF Lists
  <2>3. Matched(qs) # {}
    <3>1. SUFFICES ASSUME Matched(qs) = {} PROVE FALSE
      OBVIOUS
    <3>2. Matched(ps) = {}
      BY <2>2, <3>1 DEF Active
    <3>3. FindRule(qs, path) = Null /\ FindRule(ps, path) = Null
      BY <3>1, <3>2, NothingFound
    <3>4. QED
      BY <1>1, <2>1, <3>3
  <2>4. PICK i \in DOMAIN qs : Decides(qs, i, path) /\ FindRule(qs, path) = qs[i]
    BY <2>3, FoundDecides
  <2>5. CASE i \in DOMAIN ps
    <3>1. Decides(ps, i, path)
      BY <2>2, <2>4, <2>5 DEF Decides
    <3>2. FindRule(ps, path) = ps[i]
      BY <2>5, <3>1, OneDecides
    <3>3. QED
      BY <1>1, <2>1, <2>2, <2>4, <2>5, <3>2
  <2>6. CASE i \notin DOMAIN ps
    <3>1. /\ qs[i] = p /\ Covers(p.pattern, path) /\ p.priority \in Int
          /\ \A j \in DOMAIN ps : ps[j].priority \in Int
      BY <2>2, <2>4, <2>6, Priorities DEF Decides
    <3>2. QED
      BY <2>2, <2>4, <3>1 DEF Decides
  <2>7. QED
    BY <2>5, <2>6
<1>2. Typed /\ [Next]_vars =>
        [policies' # policies =>
           \E p \in ToSet(policies') \ ToSet(policies) :
             \A path \in {input.path : input \in Inputs} :
               FindRule(policies', path) # FindRule(policies, path) =>
                 /\ Covers(p.pattern, path)
                 /\ \A i \in DOMAIN policies :
                      policies[i].active /\ Covers(policies[i].pattern, path)
                        => policies[i].priority <= p.priority]_vars
  <2> SUFFICES ASSUME Typed, Next, policies' # policies
               PROVE  \E p \in ToSet(policies') \ ToSet(policies) : \A path \in Paths :
                        FindRule(policies', path) # FindRule(policies, path) =>
                          /\ Covers(p.pattern, path)
                          /\ \A i \in DOMAIN policies :
                               policies[i].active /\ Covers(policies[i].pattern, path)
                                 => policies[i].priority <= p.priority
    BY PathsAssumption DEF vars, file, Paths
  <2>1. PICK p \in NewPolicies : CreatePolicy(p)
    BY DEF Next, FileChanges, AssignRole, Login, EndSession, IssueToken, TokenExpires,
           Arrive, ReadRules, ReadCredential, UpstreamAnswers, file
  <2>2. /\ policies \in Lists /\ policies' = Append(policies, p)
        /\ p \notin ToSet(policies) /\ Append(policies, p) \in Lists
    BY <2>1 DEF CreatePolicy, Typed, TypeOK, Lists
  <2>3. PICK qs : qs = policies'
    OBVIOUS
  <2>4. PICK ps : ps = policies
    OBVIOUS
  <2>5. p \in ToSet(qs)
    BY <2>2, <2>3 DEF Lists, ToSet
  <2>6. \A path \in Paths : FindRule(qs, path) # FindRule(ps, path) =>
          /\ Covers(p.pattern, path)
          /\ \A i \in DOMAIN ps : ps[i].active /\ Covers(ps[i].pattern, path)
                                    => ps[i].priority <= p.priority
    BY <1>1, <2>2, <2>3, <2>4
  <2>7. QED
    BY <2>2, <2>3, <2>4, <2>5, <2>6
<1>3. QED
  BY <1>2, HeldAlways, PTL DEF Spec, PoliciesKeepToTheirPaths

\* Whatever policies the admin service has saved, each is in force for exactly
\* the paths its pattern covers (resolveGatewayRoute, matchPathPattern).
THEOREM PoliciesCover == Spec => []PatternsCover
<1>1. Typed => PatternsCover
  <2> SUFFICES ASSUME Typed, NEW i \in DOMAIN policies, NEW input \in Inputs
               PROVE  MatchPathPattern(policies[i].pattern, input.path)
                        <=> Covers(policies[i].pattern, input.path)
    BY DEF PatternsCover
  <2>1. policies[i] \in NewPolicies \cup ToSet(FirstPolicies)
    BY DEF Typed, TypeOK
  <2>2. policies[i].pattern.path \in Seq(DOMAIN Name) /\ input.path \in Seq(DOMAIN Name)
    BY <2>1, PathsAssumption
  <2>3. QED
    BY <2>2, MatchIsCovers
<1>2. QED
  BY <1>1, HeldAlways, PTL
=============================================================================
