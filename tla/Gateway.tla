------------------------------ MODULE Gateway ------------------------------
(***************************************************************************)
(* packages/gateway/src and packages/rbac/src: one request to the gateway, *)
(* from the router to the upstream.  handleGatewayRequest reads the state  *)
(* file for the route policies, and createCredentialVerifier reads it      *)
(* again for the credential; the api changes the file in between.  What    *)
(* stands between two awaits is one step.                                  *)
(***************************************************************************)
EXTENDS PathPattern, SequencesExt

CONSTANTS Requests,
          Inputs,      \* [path, method, bearer, cookie, headers]: what clients send
          NewPolicies, \* what the admin service saves: active, priority 100
          FirstPolicies, \* the policies of the file the gateway starts on
          NewAssignments, \* [user, role, workspace], workspace Null for all
          Sessions,    \* session cookies
          Owner,       \* Owner[s]: [user, workspace] of session s
          Tokens,      \* bearer tokens
          Use,         \* Use[t]: "access_token" or "id_token"
          SessionOf,   \* SessionOf[t]: the session t was issued in
          Reserved,    \* the first segment of the gateway's own paths
          Null

PubAuthNames == {"x-pubauth-user-id", "x-pubauth-workspace-id",
                 "x-pubauth-roles", "x-pubauth-groups",
                 "x-pubauth-session-id"}

ASSUME PoliciesAssumption ==
  /\ \A p \in NewPolicies : p.priority = 100 /\ p.active
  /\ \A p \in ToSet(FirstPolicies) : p.priority \in Int

ASSUME PathsAssumption ==
  /\ \A p \in NewPolicies \cup ToSet(FirstPolicies) : p.pattern.path \in Seq(DOMAIN Name)
  /\ \A input \in Inputs : input.path \in Seq(DOMAIN Name)

ASSUME CredentialsAssumption ==
  /\ FirstPolicies \in Seq(ToSet(FirstPolicies))
  /\ \A input \in Inputs : /\ input.bearer \in Tokens \cup {Null}
                           /\ input.cookie \in Sessions \cup {Null}
  /\ SessionOf \in [Tokens -> Sessions]
  /\ Sessions \cap Tokens = {}

VARIABLES policies,    \* state.routePolicies
          assignments, \* state.assignments
          sessions,    \* sessions[s]: "none", "live" or "ended"
          tokens,      \* tokens[t]: Null, or [roles, live] of the record
          sessionMode, \* PUBAUTH_GATEWAY_SESSION_MODE
          keyKnown,    \* whether the gateway holds the api's key (SigningKeys)
          pc,          \* pc[r]: "idle", "rules", "credential", "upstream", "answered"
          request,     \* request[r]: the input
          state,       \* state[r]: the policies of the state r read first
          forward,     \* forward[r]: what r sent to an upstream
          answer,      \* answer[r]: the answer, or Null
          ended        \* history: the sessions and tokens ended when r arrived

file == <<policies, assignments, sessions, tokens>>
work == <<pc, request, state, forward, answer, ended>>
process == <<sessionMode, keyKnown>>
vars    == <<file, process, work>>

Init == /\ policies = FirstPolicies
        /\ assignments = {}
        /\ sessions = [s \in Sessions |-> "none"]
        /\ tokens = [t \in Tokens |-> Null]
        /\ sessionMode \in BOOLEAN /\ keyKnown \in BOOLEAN
        /\ pc = [r \in Requests |-> "idle"]
        /\ request = [r \in Requests |-> Null]
        /\ state = [r \in Requests |-> << >>]
        /\ forward = [r \in Requests |-> {}]
        /\ answer = [r \in Requests |-> Null]
        /\ ended = [r \in Requests |-> {}]

-----------------------------------------------------------------------------
(* What the api does to the file meanwhile. *)

\* Mutant of ResolveRoles: of every workspace.
ResolveRolesAnywhere(user, workspace) ==
  {a.role : a \in {b \in assignments : b.user = user}}

\* resolveRoles, and resolveTokenClaims when the token is issued.
ResolveRoles(user, workspace) ==
  {a.role : a \in {b \in assignments :
                     b.user = user /\ b.workspace \in {Null, workspace}}}

\* Mutant of CreatePolicy: the id is made of the priority, so that upsertByKey
\* replaces a policy.
CreatePolicyReplacing(p) ==
  /\ p \notin ToSet(policies)
  /\ policies' = Append(SelectSeq(policies, LAMBDA q : q.priority # p.priority), p)
  /\ UNCHANGED <<assignments, sessions, tokens>>

\* createRoutePolicy: a fresh id, so upsertByKey appends.
CreatePolicy(p) == /\ p \notin ToSet(policies)
                   /\ policies' = Append(policies, p)
                   /\ UNCHANGED <<assignments, sessions, tokens>>

\* assignRole; nothing in the program takes an assignment back.
AssignRole(a) == /\ a \notin assignments
                 /\ assignments' = assignments \cup {a}
                 /\ UNCHANGED <<policies, sessions, tokens>>

Login(s) == /\ sessions[s] = "none"
            /\ sessions' = [sessions EXCEPT ![s] = "live"]
            /\ UNCHANGED <<policies, assignments, tokens>>

\* Logout, or the session's expiresAt is reached.
EndSession(s) == /\ sessions[s] = "live"
                 /\ sessions' = [sessions EXCEPT ![s] = "ended"]
                 /\ UNCHANGED <<policies, assignments, tokens>>

\* issueTokens: the roles of this moment are signed into the token.  Only
\* access tokens get a record.
IssueToken(t) ==
  /\ tokens[t] = Null /\ Use[t] = "access_token"
  /\ sessions[SessionOf[t]] = "live"
  /\ LET who == Owner[SessionOf[t]]
     IN tokens' = [tokens EXCEPT ![t] =
                     [roles |-> ResolveRoles(who.user, who.workspace), live |-> TRUE]]
  /\ UNCHANGED <<policies, assignments, sessions>>

TokenExpires(t) == /\ tokens[t] # Null /\ tokens[t].live
                   /\ tokens' = [tokens EXCEPT ![t].live = FALSE]
                   /\ UNCHANGED <<policies, assignments, sessions>>

FileChanges == /\ \/ \E p \in NewPolicies : CreatePolicy(p)
                  \/ \E a \in NewAssignments : AssignRole(a)
                  \/ \E s \in Sessions : Login(s) \/ EndSession(s)
                  \/ \E t \in Tokens : IssueToken(t) \/ TokenExpires(t)
               /\ UNCHANGED <<process, work>>

-----------------------------------------------------------------------------
(* Routes, credentials and policy. *)

\* The order of a stable sort by falling priority.
Before(ps, i, j) ==
  \/ ps[i].priority > ps[j].priority
  \/ ps[i].priority = ps[j].priority /\ i < j

Active(ps) == {i \in DOMAIN ps : ps[i].active}

Sorted(ps) == {p \in Active(ps) \X Active(ps) : Before(ps, p[1], p[2])}

\* buildRouteRules: the active policies, sorted.
BuildRouteRules(ps) ==
  LET active == Active(ps)
      order  == Sorted(ps)
  IN [n \in 1..Cardinality(active) |-> ps[Nth(active, order, n)]]

\* rules.find(...), in resolveGatewayRoute and again in evaluatePolicy.
FindRule(ps, path) ==
  LET rules   == BuildRouteRules(ps)
      matched == {i \in DOMAIN rules : MatchPathPattern(rules[i].pattern, path)}
  IN IF matched = {} THEN Null
     ELSE rules[CHOOSE i \in matched : \A j \in matched : i <= j]

\* resolveGatewayRoute
Routed(ps, input) ==
  LET rule == FindRule(ps, input.path)
  IN rule # Null /\ input.method \in rule.methods

\* readGatewayCredential: an Authorization header hides the cookie.
Credential(input) ==
  IF input.bearer # Null THEN [kind |-> "bearer", token |-> input.bearer]
  ELSE IF sessionMode /\ input.cookie # Null
       THEN [kind |-> "session", token |-> input.cookie]
       ELSE Null

\* signer.verify: a known key, a token for this use, before its exp.
SignatureHolds(t) == /\ keyKnown /\ Use[t] = "access_token"
                     /\ tokens[t] # Null /\ tokens[t].live

\* Mutant of SessionLive: the session is not looked up.
SessionLiveAlways(s) == TRUE

SessionLive(s) == sessions[s] = "live"

\* What verifyBearer and verifySession make of the state they read.
Principal(credential) ==
  IF credential.kind = "bearer"
    THEN LET t == credential.token
             s == SessionOf[t]
         IN IF tokens[t].live /\ SessionLive(s)
              THEN [user |-> Owner[s].user, workspace |-> Owner[s].workspace,
                    roles |-> tokens[t].roles]
              ELSE Null
    ELSE LET s == credential.token
         IN IF SessionLive(s)
              THEN [user |-> Owner[s].user, workspace |-> Owner[s].workspace,
                    roles |-> ResolveRoles(Owner[s].user, Owner[s].workspace)]
              ELSE Null

\* Mutant of EvaluatePolicy: a rule without roles lets everyone in.
EvaluatePolicyOpen(principal, ps, input) ==
  LET rule == FindRule(ps, input.path)
  IN IF rule = Null THEN "no_matching_rule"
     ELSE IF input.method \notin rule.methods THEN "method_not_allowed"
     ELSE IF rule.roles # {} /\ rule.roles \cap principal.roles = {}
       THEN "missing_role"
     ELSE "allowed"

EvaluatePolicy(principal, ps, input) ==
  LET rule == FindRule(ps, input.path)
  IN IF rule = Null THEN "no_matching_rule"
     ELSE IF input.method \notin rule.methods THEN "method_not_allowed"
     ELSE IF rule.roles \cap principal.roles = {} THEN "missing_role"
     ELSE "allowed"

\* removePubAuthHeaders
CleanHeaders(headers) == headers \ PubAuthNames

\* buildTrustedProxyRequest.  The headers sent are the client's own and,
\* named by the principal they are made of, those the gateway sets.
TrustedRequest(rule, input, principal) ==
  [upstream |-> rule.upstream, method |-> input.method, path |-> input.path,
   own |-> CleanHeaders(input.headers)
             \ {"x-pubauth-user-id", "x-pubauth-workspace-id", "x-pubauth-roles",
                "x-pubauth-groups"},
   principal |-> principal]

-----------------------------------------------------------------------------
(* A request. *)

\* Mutant of Reply: the answer is not written.
ReplyUnwritten(r, result) == /\ pc' = [pc EXCEPT ![r] = "answered"]
                             /\ UNCHANGED answer

Reply(r, result) == /\ answer' = [answer EXCEPT ![r] = result]
                    /\ pc' = [pc EXCEPT ![r] = "answered"]

\* findRoute matches no path that does not normalize, and the gateway's own
\* paths are not forwarded; every other request reads the state.
Arrive(r, input) ==
  /\ pc[r] = "idle"
  /\ request' = [request EXCEPT ![r] = input]
  /\ ended' = [ended EXCEPT ![r] =
                 {s \in Sessions : sessions[s] = "ended"} \cup
                 {t \in Tokens : tokens[t] # Null /\ ~ tokens[t].live}]
  /\ IF \/ ~ Normalizes(input.path)
        \/ Len(input.path) > 1 /\ input.path[1] = Reserved
       THEN Reply(r, "not_found")
       ELSE pc' = [pc EXCEPT ![r] = "rules"] /\ UNCHANGED answer
  /\ UNCHANGED <<file, process, state, forward>>

\* store.read(), and what follows up to the next await: the route, the
\* credential and its signature.
ReadRules(r) ==
  /\ pc[r] = "rules"
  /\ state' = [state EXCEPT ![r] = policies]
  /\ LET input      == request[r]
         credential == Credential(input)
     IN IF ~ Routed(policies, input) THEN Reply(r, "deny_by_default")
        ELSE IF credential = Null THEN Reply(r, "missing_credential")
        ELSE IF credential.kind = "bearer" /\ ~ SignatureHolds(credential.token)
          THEN Reply(r, "invalid_credential")
        ELSE pc' = [pc EXCEPT ![r] = "credential"] /\ UNCHANGED answer
  /\ UNCHANGED <<file, process, request, forward, ended>>

\* The verifier's store.read(), the decision, and the fetch begins.
ReadCredential(r) ==
  /\ pc[r] = "credential"
  /\ LET input     == request[r]
         principal == Principal(Credential(input))
         decision  == EvaluatePolicy(principal, state[r], input)
     IN IF principal = Null
          THEN Reply(r, "invalid_credential") /\ UNCHANGED forward
        ELSE IF decision # "allowed"
          THEN Reply(r, decision) /\ UNCHANGED forward
        ELSE /\ forward' = [forward EXCEPT ![r] =
                  {TrustedRequest(FindRule(state[r], input.path), input, principal)}]
             /\ pc' = [pc EXCEPT ![r] = "upstream"]
             /\ UNCHANGED answer
  /\ UNCHANGED <<file, process, request, state, ended>>

\* The upstream answers, or fetch rejects and the server answers 500.
UpstreamAnswers(r) == /\ pc[r] = "upstream"
                      /\ \E result \in {"upstream_answer", "internal_error"} :
                           Reply(r, result)
                      /\ UNCHANGED <<file, process, request, state, forward, ended>>

Next == \/ FileChanges
        \/ \E r \in Requests : \/ \E input \in Inputs : Arrive(r, input)
                               \/ ReadRules(r) \/ ReadCredential(r)
                               \/ UpstreamAnswers(r)

Spec == Init /\ [][Next]_vars

-----------------------------------------------------------------------------
Roles         == {a.role : a \in NewAssignments}
TokenRecord   == [roles : SUBSET Roles, live : BOOLEAN]
CredentialOf  == [kind : {"bearer"}, token : Tokens] \cup [kind : {"session"}, token : Sessions]
PrincipalOf   == [user      : {Owner[s].user : s \in Sessions},
                  workspace : {Owner[s].workspace : s \in Sessions},
                  roles     : SUBSET Roles]
Answers       == {"not_found", "deny_by_default", "missing_credential", "invalid_credential",
                  "no_matching_rule", "method_not_allowed", "missing_role",
                  "upstream_answer", "internal_error"}

ASSUME NullAssumption ==
  Null \notin TokenRecord \cup CredentialOf \cup PrincipalOf \cup Answers

\* A request goes to an upstream only from the step that decided it, and is
\* answered when and only when it is through.
TypeOK ==
  /\ policies \in Seq(ToSet(FirstPolicies) \cup NewPolicies)
  /\ assignments \subseteq NewAssignments
  /\ sessions \in [Sessions -> {"none", "live", "ended"}]
  /\ tokens \in [Tokens -> TokenRecord \cup {Null}]
  /\ pc \in [Requests -> {"idle", "rules", "credential", "upstream", "answered"}]
  /\ answer \in [Requests -> Answers \cup {Null}]
  /\ \A r \in Requests :
       /\ (answer[r] # Null) <=> (pc[r] = "answered")
       /\ pc[r] = "upstream" => forward[r] # {}
       /\ answer[r] \in {"upstream_answer", "internal_error"} => forward[r] # {}

\* What a pattern covers, said without counting: its segments are paired, in
\* order and name by name, with the first segments of the path, and with all of
\* them unless the pattern is recursive.
Covers(pattern, path) ==
  LET Named(p) == {i \in DOMAIN p : Name[p[i]] # Empty}
      base     == Named(pattern.path)
      names    == Named(path)
  IN /\ \A i \in DOMAIN pattern.path : Name[pattern.path[i]] # Bad
     /\ \A n \in DOMAIN path : Name[path[n]] # Bad
     /\ \E f \in [base -> names] :
          /\ \A i \in base : Name[path[f[i]]] = Name[pattern.path[i]]
          /\ \A i, j \in base : i < j => f[i] < f[j]
          /\ \A n \in names : ~ pattern.recursive \/ (\E i \in base : n < f[i])
                             => \E i \in base : f[i] = n

\* matchPathPattern compares segments by index; a policy is in force for what
\* its pattern covers, with a doubled or last slash, encoded or not.
PatternsCover ==
  \A i \in DOMAIN policies, path \in {input.path : input \in Inputs} :
    MatchPathPattern(policies[i].pattern, path) <=> Covers(policies[i].pattern, path)

\* Whether position i of ps holds the policy that decides path: an active one
\* that covers it, of the highest priority, the oldest of those.
Decides(ps, i, path) ==
  /\ ps[i].active /\ Covers(ps[i].pattern, path)
  /\ \A j \in DOMAIN ps : ps[j].active /\ Covers(ps[j].pattern, path) =>
       \/ ps[j].priority < ps[i].priority
       \/ ps[j].priority = ps[i].priority /\ i <= j

\* A request reaches an upstream only as the one policy that decides its path
\* says: that policy's upstream, method and roles, though the route and the
\* roles are looked up separately, with an await between them
\* (resolveGatewayRoute, evaluatePolicy).
OnePolicyDecides ==
  \A r \in Requests : \A sent \in forward[r] :
    \E i \in DOMAIN state[r] :
      LET p == state[r][i] IN
      /\ Decides(state[r], i, request[r].path)
      /\ sent.upstream = p.upstream
      /\ sent.method \in p.methods
      /\ sent.principal.roles \cap p.roles # {}

\* A request that comes after its token or its session has ended reaches no
\* upstream, whichever of the two credentials it carries and whatever else it
\* sends along (verifyBearer, verifySession).
EndedNeverForwarded ==
  \A r \in Requests : forward[r] # {} =>
    LET c == Credential(request[r]) IN
    /\ c # Null /\ c.token \notin ended[r]
    /\ c.kind = "bearer" => SessionOf[c.token] \notin ended[r]

\* The upstream is told who the credential belongs to and roles that user was
\* given for that workspace, and no identity header of the client's passes
\* (removePubAuthHeaders, buildForwardHeaders).
IdentityIsTrue ==
  \A r \in Requests : \A sent \in forward[r] :
    LET c     == Credential(request[r])
        owner == Owner[IF c.kind = "bearer" THEN SessionOf[c.token] ELSE c.token]
    IN /\ sent.own \cap PubAuthNames = {}
       /\ sent.principal.user = owner.user
       /\ sent.principal.workspace = owner.workspace
       /\ \A role \in sent.principal.roles : \E a \in assignments :
            a.user = owner.user /\ a.role = role
            /\ a.workspace \in {Null, owner.workspace}

\* A policy that the admin service creates keeps to its paths: another rule is
\* found afterwards only for a path its own pattern covers, and only when no
\* policy of a higher priority covers it (createRoutePolicy, buildRouteRules).
PoliciesKeepToTheirPaths ==
  [][policies' # policies =>
       \E p \in ToSet(policies') \ ToSet(policies) :
         \A path \in {input.path : input \in Inputs} :
           FindRule(policies', path) # FindRule(policies, path) =>
             /\ Covers(p.pattern, path)
             /\ \A i \in DOMAIN policies :
                  policies[i].active /\ Covers(policies[i].pattern, path)
                    => policies[i].priority <= p.priority]_vars

\* docs/rbac.md: "If route rule is ambiguous, deny."  A request reaches an
\* upstream only if one policy alone has the highest priority of the active
\* ones that cover its path.  The code does not look for a second one.
AmbiguousRulesDeny ==
  \A r \in Requests : forward[r] # {} =>
    LET ps       == state[r]
        covering == {i \in DOMAIN ps : ps[i].active /\ Covers(ps[i].pattern, request[r].path)}
    IN \A i, j \in covering :
         i # j /\ ps[i].priority = ps[j].priority =>
           \E k \in covering : ps[k].priority > ps[i].priority
=============================================================================
