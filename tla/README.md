# PubAuth in TLA+

PubAuth is an OpenID Connect provider and a gateway, written in TypeScript: the
`api` process serves login, the OIDC endpoints, brokered login and the admin
API; the `gateway` process checks credentials and forwards requests; both keep
their state in one JSON file on a shared volume; the `web` process serves a
console in React and passes its calls on to the api. This directory holds TLA+
modules of the parts that keep state, TLC configurations that check them on
small instances, and proofs that TLAPS checks for every instance.

Paths below are relative to `src/`.

## The system

| component | state it keeps | operations | what makes it correct |
|---|---|---|---|
| JSON file store (`packages/storage/src/json-file-store.ts`) | `state.json`; in each process a queue of promises | `read`, `update`, `replace` | calls of a process are atomic and in order; a crash leaves a whole file; a failed call does not block the next |
| Repositories (`packages/storage/src/repositories.ts`) | collections of the file: users, links, broker states, codes, tokens, sessions, clients, policies, roles, keys, audit | find, list, save, mark, revoke, consume | each call is one store call, except `consume` of a broker state, which is two |
| Authorization code flow (`packages/oidc/src/authorization-service.ts`, `dev-token-issuer.ts`, `file-stores.ts`) | codes, access and refresh tokens | authorize, exchange a code | a token is what a user granted to that client; a code is not redeemed twice |
| Refresh tokens (`dev-token-issuer.ts`, `repositories.ts`) | families of tokens | rotate, revoke a family on reuse | a retired token gets nothing; revocation is final |
| Sessions (`packages/session/src`, `packages/oidc/src/session-authenticator.ts`, `apps/api/src/routes.ts`) | sessions | login, authenticate, logout | an ended session is worth nothing anywhere |
| UserInfo (`packages/oidc/src/dev-userinfo-service.ts`) | none | read token, read session | refuses tokens of ended sessions |
| Broker (`packages/broker/src`) | broker states, provider links, accounts | start, callback | a callback is for its start; one person, one account |
| Gateway (`packages/gateway/src`, `packages/rbac/src`, `packages/http/src/path-pattern.ts`) | none of its own; reads the file | verify bearer or session, match a rule, forward | a request is forwarded only by a rule its principal satisfies |
| Signing keys (`packages/oidc/src/signing-key-service.ts`) | keys in the file; in each process the keys it read | create at startup, sign, verify, reload | a token the api signs is verified by the gateway |
| Admin (`packages/admin/src`) | workspaces, products, clients, policies, roles, assignments, audit | overview and six creating operations | unique slugs and roles; only those with the right; audited |
| Self-service profile (`packages/session/src/self-service-profile-service.ts`) | none | the profile, sessions and events of a person | answers for the person of the session |
| Web console (`apps/web/src/server.ts`, `client/App.tsx`) | in a tab: who is signed in, the overview, the profile, busy flags; a login intent in sessionStorage; the cookie jar of the browser | sign in, restore, sign out, load, change, switch mode | shows the person who signed in and only what fits; a code signs in the person it was made for; sign-out lasts; a sign-in ends |
| Admin UI, worker, jobs, events, config, logging, types | nothing shared | presentation, types | - |

How they meet: a request handler of the api (`apps/api/src/routes.ts`) is a chain
of awaited repository calls. Node runs one handler at a time and switches at
each `await`, so requests interleave between store calls and never inside the
synchronous code between two. There is no transaction over two calls, and a
handler goes on with the copies earlier calls returned: that is where the hard
behaviours are. Others are failures (a store call that rejects, or a process
that ends, leaves the earlier calls done), the clock (compared before the call
that depends on it), and two processes that share the file without sharing a
queue. In the browser the same holds of one tab: handlers of the page run
between `await`s of calls that may be answered in any order, or never, while the
person goes on clicking. `PROJECT.json` lists the hazards one by one, with their lines.

## Modules

| module | models | abstracted |
|---|---|---|
| `AtomicStore` | what a file store promises: a call takes effect at one instant between call and answer, or never | - |
| `JsonFileStore` | `JsonFileStore`: the promise queue of `withLock`, read with defaults, seed of a missing file, updater, temp file and rename, rejections, restarts | a state is the set of updates in it and of the collections it has |
| `JsonFileStoreProofs` | its theorems | |
| `AuthorizationCode` | login, logout, `/oauth2/authorize`, `/oauth2/token` with a code, UserInfo, the gateway's bearer check | one scope per request; PKCE as equality of secrets; client authentication; signatures |
| `AuthorizationCodeProofs` | its theorems | |
| `RefreshToken` | `/oauth2/token` with a refresh token, from code exchanges that are done | subject, workspace and session as one holder |
| `RefreshTokenProofs` | its theorems | |
| `Broker` | `/auth/broker/<provider>/start` and `/callback` | the provider: an ID token for a profile and a nonce; redirect URIs |
| `BrokerProofs` | its theorems | |
| `Admin` | the six `POST /admin/...` operations with their authorization and audit | who is logged in; names as what they normalize to; role ids by a table (`RoleIdOf`); the fields nothing depends on |
| `AdminProofs` | its theorems | |
| `SigningKeys` | how the api and the gateway start: bootstrap check, redirect seeding, listing and saving of keys, serving, ending, being started again; every store call in `JsonFileStore`'s own steps | a key is the call that saves it; key material; what the other updates of the api do |
| `SigningKeysProofs` | its theorems | |
| `PathPattern` | `packages/http/src/path-pattern.ts`, as operators | a raw segment and what it decodes to, by a table |
| `Gateway` | a request to the gateway: routing, the two reads of the file, credentials, `evaluatePolicy`, headers, the upstream; meanwhile policies, assignments, sessions and tokens change | bodies, queries; header values as whose they are; a signature as key, use and expiry |
| `GatewayProofs` | its theorems | |
| `Sessions` | what the api answers the console: login, logout, session and profile, overview, a change, code exchange, UserInfo; each handler one step | what overlapping handlers do to the file, which the modules above model |
| `Console` | one tab of the console with its cookie jar, `Sessions` behind it: effects, calls under way, answers, buttons, reloads, another tab | sections, filters, selections, drawers, search, messages |
| `ConsoleProofs` | theorems of `Console` with `Sessions` | |
| `MC*` | instances of them for TLC | |

`AuthorizationCode`, `RefreshToken`, `Broker` and `Admin` are written over the promise of
`AtomicStore`: a store call is one step. `StoreIsLinearizable` justifies it: when
one process writes the file, which is there, `JsonFileStore` implements `AtomicStore`, also for
the calls of processes that only read. The api is the writer; the gateway writes at startup only (the default state and a first
signing key, when there is none) and reads afterwards, and the other services
do not open the file. What the writes at startup can do is the subject of
`SigningKeys`, which is written over `JsonFileStore` itself: its `Next` is
`JsonFileStore`'s with calls made by the two programs. `Gateway` takes a read of the
file as one step, by the same theorem, and takes from `SigningKeys` only
whether the gateway knows the api's key: `keyKnown` may be either.

State and code correspond as follows. A VARIABLE is a collection of the file
(`codes`, `accessTokens`, `refreshTokens`, `sessions`, `users`, `providerLinks`,
`brokerStates`, `products` ...), indexed by the request that creates the record,
since the code names records by fresh random ids. Workspaces, products and roles
are the exception: their ids are made of their slugs, and so they are in `Admin`. `pc[r]` names the store call request `r` has
made, `local[r]` holds what earlier calls returned to it, `asked[r]` what it
carries, `at[r]` the time it last ran: the code evaluates `new Date()` when it
makes a call, and the call is carried out later. An action is one store call
with the synchronous code after it up to the next call: guards are the code's
checks, and every early return is an outcome of its own. In `Console` a call is a
record that moves from "sent" to "answered" to its handler, `page` holds the
`useState` variables of `App`, and an action is a handler or the code after one
`await`, with the render and the effects it causes. `Abandon` ends a
request at any call: the call rejected or the process ended. Fields with
`Before` in their name are history: what held when the request arrived. No
guard reads them.

A definition introduced by "Mutant of" is a plausible bug in the definition
after it; `PROJECT.json` says which property it breaks. Nothing uses it.

## Runs

| run | instance | asks |
|---|---|---|
| `store_one` | one process, two updates, a read and a replace, failures and restarts anywhere | `TypeOK`; `Linearizable`: refinement of `AtomicStore`; `EveryCallSettles`: liveness |
| `startup` | the api and two runs of the gateway on one file, which exists or not; two changes by the serving api; a rejected or lost call; ends anywhere | `TurnOrder`, `WholeStates` with two writers; `Agree`; `NothingLost` |
| `code_flow` | a session, an authorization, two redemptions, a logout, a use; two clients with different registrations, two subjects, one of whom may use the development header | `GrantsTrace`, `LateReplayRejected`, `EndedMeansRefused` |
| `code_single_use` | the same | expected to fail: `CodeExchangedOnce` |
| `refresh_rotation` | two families, three refresh requests, so that a replay can meet two rotations of one family | `Lineage`, `RevokedStaysRevoked`, `LateReuseGetsNothing`, `BranchesOnlyByOverlap` |
| `refresh_reuse` | the same | expected to fail: `FamilyRevokedOnReuse` |
| `broker_login` | two starts, two callbacks, a person known to both providers with one email and one without an email | `LoginIsBound`, `LinkedUsersExist`, `KnownPersonKeepsAccount`, `LateStateRejected` |
| `admin_changes` | three requests of a super admin and two tenant admins: workspaces, products, clients, policies, roles, assignments; two spellings of one slug and one that normalizes to nothing | `ReferencesResolve`, `ActsWithinRights`, `SlugsAreTaken`, `AuditTellsTheTruth` |
| `admin_product_moves` | the same with two requests | expected to fail: `ProductStaysInWorkspace` |
| `gateway` | one request of five paths (encoded, with an empty segment, refused, reserved), two methods, an access token or an id token, two cookies; three policies at first (a fallback, a disabled one, one nobody satisfies) and two that overlap to come; one user with a role in each of two workspaces | `OnePolicyDecides`, `EndedNeverForwarded`, `IdentityIsTrue`; `PoliciesKeepToTheirPaths`; `PatternsCover`: `matchPathPattern` against what a pattern covers, for five spellings of paths |
| `gateway_ambiguous` | the same | expected to fail: `AmbiguousRulesDeny` |
| `console` | a tab, a tenant admin and a person without roles, two sign-ins or tabs, one change, callback addresses with and without their state; at most three calls under way | `CodeIsOfSignIn`, `ScreenFitsPerson`, `OnePerson`, `SignedOutStays`, `SavedIsShown`; `SignInEnds`: liveness |

Bounds. Calls and requests are finite sets of model values: the hazards listed
take two requests of one kind and one of another, and every run has those. Lost
updates and torn files take two calls and one crash; crashes and failures are
not bounded. `MaxTime` bounds the clock; lifetimes are
one or two ticks, so that a code, a token, a state and a session can each expire
before or after what happens to it. Symmetry permutes only values the instance treats alike, and only
in runs without liveness properties. Deadlock is not checked: in every instance
the requests end and the clock stops.

Three instances have a CONSTRAINT. `FewEvents` (`startup`): one store call is rejected or
lost, and the gateway is started again or the api makes changes, not both. Ends
of a run are not bounded, and the two starts that matter, of the same program and of
the other, are both there. `Ongoing` (`gateway`): what the api does after the request is
answered is not followed; one request is enough, since a request of the gateway
changes no state that another reads. `FewCalls` (`console`): three calls under way,
which is what a page makes when it is mounted, and either a change is saved or an
overview is broken, or a second sign-in begins. One refresh of a kind and one sign-out are under way at
a time; the calls of a page that was left are followed if they are a sign-out or a
code exchange. `SignInEnds` is thus about behaviours with few calls; a sign-in needs
one at a time, and every step of it leaves no more than there were but the last.

Fairness. `FairSpec` (`store_one`) assumes weak
fairness of the steps of a call in flight: an awaited file operation ends, with
success or not, and Node runs what is ready. Nobody has to make a call. `Fairness`
(`console`) assumes that the api is up and handles a call of a sign-in, that the
answer comes to the page or the browser gives the call up, and that the browser
ends the load of an address with some page. The person need do nothing, and the calls of
loads, sign-outs and changes may hang for ever.

## What the runs show

The properties hold, with four exceptions, where the code does not do what a
document or a test's title says:

- `CodeExchangedOnce`. `findUsable` and `markUsed` are two store calls, and
  `markUsed` does not look at the record again. Two redemptions of a code that
  overlap both get tokens; `docs/oidc-provider.md:30` says a code is single use.
  What does hold, and is proved, is `LateReplayRejected`: a redemption that
  arrives after the code was marked gets nothing.
- `FamilyRevokedOnReuse`. A rotation saves the retired token and the new one in
  two calls. When a replay revokes the family in between, the new token is saved
  live afterwards (`tests/oidc-jwt.test.mjs:360`).
- `ProductStaysInWorkspace`. `createProduct` looks for the slug and saves in
  separate calls, and the id is made of the slug: the later of two overlapping
  creations replaces the product of the other workspace
  (`tests/admin-oidc-integration.test.mjs:165`). `SlugsAreTaken` holds: a slug saved
  before the request arrived is refused. `ActsWithinRights` holds except for a
  client or policy of a product so replaced, and says so.
- `AmbiguousRulesDeny`. `buildRouteRules` sorts by priority and leaves rules of one
  priority in the order of the file, and `resolveGatewayRoute` takes the first that
  matches; the admin service gives every policy priority 100. A request whose path two
  such policies cover is forwarded by the older one; `docs/rbac.md:70` says "If route rule is
  ambiguous, deny." What does hold is `OnePolicyDecides`: route and roles, looked up apart, are of
  one policy; and `PoliciesKeepToTheirPaths`: a policy created later takes over no path that its
  pattern does not cover, nor one that a policy of a higher priority does.

What `startup`, `broker_login`, `gateway` and `console` show has conditions, which the properties state:

- `Agree` is about two runs of which neither is in `overlapped`, and `NothingLost` holds
  while that set is empty. A run is in it when it was starting while another was, or was
  started beside a live run that is in it: a change such a run still has under way
  may write back a state without the key the new run saves, and with two runs of each
  program that makes later ones disagree. When the first starts of
  the api and the gateway overlap, both find no key, and each keeps the key it made
  while the file may have either or both: the gateway can refuse the api's tokens until it is
  started again, since nothing calls `reload()`. A start that overlaps a
  change can lose it. `docker-compose.yml` does not order the two.
- `KnownPersonKeepsAccount` is about a person who had a link, or an account with the email, when the
  callback arrived. `resolveUser` looks for an account and creates it in separate calls:
  first logins of a person at two providers that overlap create two accounts of one email, which
  `tests/broker-flow.test.mjs:15` shows linked to one account when they come one after the other.
- `OnePolicyDecides` relates the forwarded request to the policies of the gateway's first
  read; its identity is that of the second. No single state of the file need allow
  it.
- `IdentityIsTrue` says that a role was given for that workspace, not that it was when
  the request came: a token keeps the roles of its issue.
- `OnePerson` holds unless sign-ins overlap or another tab signs in. The demo buttons
  are never disabled, and the cookie and the login intent are one each: overlapping
  sign-ins can leave the page with the intent of one and the cookie of the other.
- `CodeIsOfSignIn` does not say that a code goes out with the intent of its own sign-in:
  `completeLogin` compares the state of the address with the intent's only when the address
  has one, and sends the code with whatever intent is stored otherwise. The code verifier in
  the intent then keeps the api from accepting the code of another sign-in, so that a page is signed in as
  the person whose session the code is for. That person need not be who typed the password
  (`OnePerson`): authorize takes the cookie of the moment. A page has one exchange under way at most, but a
  reload before the answer of UserInfo finds code and intent again and sends the code once more; whether
  that gets tokens is the subject of `AuthorizationCode`.
- `SavedIsShown` excepts a page that has gone: the web server passes an error of the api other than
  401 and 403 on as the overview, and the effects of `App` throw on it.
- `SignedOutStays` counts a sign-out whose answer came, with no restore, sign-in or address
  still under way. A restore that is answered later signs the page in again, until
  a reload.

## What is proved

`JsonFileStoreProofs`, for any processes and calls:

- `TypeCorrect`.
- `TurnsAreKept`. `TurnOrder` is not inductive: it needs that places are handed out
  in order and that a promise is resolved only after all before it. `QueueInv`: the
  resolved promises of a process are a prefix; a call in flight has a place below
  the queue's end whose own promise is unresolved; no two have the same place; and
  the promise before a running call is resolved.
- `StatesAreWhole`. `WholeInv` extends it to a call that is seeding the file: what it
  will rename has the collections.
- `QueueNeverStalls`, `CallsRunOut`: the safety core of `EveryCallSettles`. `OwnedInv`: an
  unresolved promise of a queue is the own promise of a call in flight. So the least unresolved one
  belongs to a call that can go on, and every call in flight is that call or behind it in its
  queue (`SomeoneCanRun`). `Left` counts the steps a call has left: ten at most when it is
  called, fewer with every step of its own, never more through a step of another (an action property).
  What is left to TLC is that under fairness a step that stays possible is taken.
- `StoreIsLinearizable`. Assumes `WritersShareProcess`: calls that are not reads are of one
  process; and starts from `Present`: the file is there, or no other process has it open.
  Both are needed: a read that finds no file writes the default state, over what another process
  may have saved meanwhile. `OneProcessIsLinearizable` is the case of one process.
  `TaskInv` relates what the running call holds to the file it is about to replace:
  at most one call is replacing the file (`Alone`), an updater works on the state the file has, what is being written is the outcome
  `AtomicStore` gives the call on that state, and a temporary file is missing, torn or
  that outcome. Initial states map to initial states and each step to a step or a
  stutter of `AtomicStore`; a call takes effect at its rename, or at its read.

`AuthorizationCodeProofs`, for any requests, clients, users and lifetimes, and an
unbounded number of clock ticks as far as `MaxTime` allows:

- `TypeCorrect`, with `Held`: what a handler uses after an await is there, because
  of the label it stands at.
- `EveryGrantTraces`. `Sound` carries a grant from the request through the code and
  the copy held by a redemption to the tokens: the copy agrees with the saved code,
  which only changes by being marked used, and a redemption past `MarkUsed` has its
  code used.
- `ReplaysAreTooLate`. `TooLate`: a code never becomes unused, so a redemption that
  arrived late is refused at `findUsable` and is never at a later label.
- `EndedStaysEnded`. `InTime`: an ended session stays ended while the clock runs
  (`OverForGood`), so a request that arrived after it stands at no label past the
  check of the session.

`SigningKeysProofs`, for any runs of the two programs, any changes and any default state:

- `StartsUseTheStore`. Every step of `SigningKeys` is a step of `JsonFileStore` or a stutter
  (`StartStepIsStoreStep`): an action of a program makes one store call (`Enqueue`),
  ends a process (`Crash`), or leaves the store alone. So `StartTurnsAreKept` and
  `StartStatesAreWhole` follow from the theorems above.
- `KeysAreSavedKeys`. A run serves exactly while it holds a key, and its keys are saved
  ones. `StartTypeOK` is inductive; the point is `KeyStateType`: when the list was empty
  the run holds the key it saved.

`Agree` and `NothingLost` need more, and are proved for any number of runs one after
another or side by side, with failures and ends anywhere (two runs of one program are not
live at a time: `Start`):

- `ProgramsAgree`, `NoUpdateIsLost`. `StartInv` says where a run stands in its sequence of
  calls (`InOrder`), that two live runs are of different programs (`TwoPrograms`),
  that a file once there holds a state with the collections and the saved calls
  (`Filled`), and, as long as no live run is in `overlapped` (`CleanInv`), that a call about
  to write read the state the file still has (`Current`), that a starting run knows
  the keys of the file from its own listing on (`Learned`), and that a serving run has
  exactly the keys of the file (`KeysHeld`). It turns on `OneWriter`: without overlap at
  most one call of all processes is between its read and its rename, so the file only
  grows (`FileGrows`). `Kept` carries the answered updates.

`RefreshTokenProofs`, for any grants, clients and refresh requests:

- `TypeCorrect`, `RotationKeepsLineage`. `HeldByRefresh` says for each await what the
  handler holds and what it has saved: its copy differs from the saved token in
  nothing but the marks of others, and from `saveNext` on the parent is marked. `TokensTell`
  is the converse, from the tokens to the requests that saved them.
- `RevokedForGood`, an action property: whatever copy a step writes back over a saved
  token, it writes it as revoked.
- `LateReuseIsRefused`. `TooLate`: a request that arrived after its token was retired
  stands at no label past the one that revokes the family.
- `OnlyOverlapBranches`. `OneLeaf`: unless two requests replaced one token, a family has at
  most one token that no saved token replaced; a live token is such a leaf.

`BrokerProofs`, for any providers, persons, accounts, starts and callbacks:

- `TypeCorrect`, `LinksHaveAccounts`, `LoginsAreBound`. A callback is described by what it
  came with (`Presented`), what it holds at each await (`Carried`) and what it left in
  the store (`Left`). `LinkedUsersExist` is inductive with it: the account
  is saved before the link.
- `KnownPersonsKeepAccounts`, `LateStatesAreRejected`. `Seen`: a link, an account with the
  email, or a spent state that was there when the callback arrived is there at each of its
  awaits, so it cannot be past the one that would have found otherwise.

`AdminProofs`, for any people, grants, names, seeds and requests:

- `TypeCorrect`, `ReferencesAlwaysResolve`, `SavesAreRightful`, `SlugsStayTaken`, `LogIsTrue`.
  One invariant, `Held`: at which await a request of which kind may stand (`Placed`),
  what it logged (`Logged`), which slugs were taken when it came (`Taken`), what the
  records it read and saved refer to (`Referenced`), and that it has the right once past
  the check (`Entitled`). Rights read earlier still hold because assignments are
  only added (`AssignedStay`) and a target only moves when a second creation
  replaces it (`Twice`), the exception `ActsWithinRights` makes.

`GatewayProofs`, for any requests, tokens, cookies, policies and path names:

- `MatchIsCovers`, `PoliciesCover`: for normalized paths of any length, `matchPathPattern`
  answers true exactly for the paths the pattern covers. The model numbers the segments that
  are kept by counting those before them, instead of filtering a list, so no induction is
  needed. `Ranks` and `Places` are about any strict total order on a finite set: the counts of
  n elements are different numbers below n, and so all of them (the pigeonhole principle).
  `KeptSegments` and `Numbering` apply them to the segments of a path. In one direction
  the segments with the same number are paired (`MatchedIsCovered`); in the other a pairing
  that keeps the order and skips nothing maps what precedes a segment onto what precedes its
  partner, so it keeps the number (`PairsKeepIndex`, `CoveredIsMatched`).
- `OneDecidesRequests`, `PoliciesKeep` (an action property). The same two lemmas sort a list of
  policies: in place n stands the active one that n - 1 others precede, which is what a
  stable sort returns (`SortedOrders`, `RulesAre`). `FoundDecides`: the first match in that
  list is the policy that `Decides`, and with `MatchIsCovers` this is said of what the policies'
  patterns cover, not of what the matcher answers. For `PoliciesKeep` the two lists before and after
  a policy is created are compared by it: one policy at most decides a path (`NothingFound` where none does).
- `TypeCorrect`, `EndedCredentialsAreRefused`, `UpstreamIsToldTheTruth`. `HeldByRequest`: past the
  first read the request has a credential of a record, and what had ended when it
  came has ended still; `RolesOfTokens`: the roles of a token were given to the owner of its
  session. `FindRule` is never expanded, so these hold whatever rule matches.

`ConsoleProofs`, for any people, roles, logins and buttons and any number of calls under
way (the constraint `FewCalls` of the run is not assumed):

- `TypeCorrect`. `Held` adds what the calls under way say of sign-ins (`LoginsFit`) and of
  the change being saved (`SavesFit`). The lemma `Taken` goes through the answers
  once and says of each what it may do to the calls, the page and the browser; the
  other proofs use only that.
- `ScreenFits`, `SavedShown` (an action property).
- `CodesSignInTheirPerson`. `OneExchange`: a code goes out only from a page that has processed
  none, and UserInfo is asked in place of the exchange. `CodesFit`: a sign-in gets one
  code, since its address is loaded once (`Expected`); what UserInfo answers is of the
  session that code is for. `LoginsFit` has the converse of the api's check: a code
  that was accepted came with the verifier of its own sign-in.
- `OnePersonShown`. `OneInv`: unless sign-ins overlap or another tab signs in, there is one
  login that the cookie, the page, its calls and their answers are of.
- `SignOutLasts`. `OutInv`: a sign-out under way is for the session of the cookie
  (`EndsTheCookie`); once it is answered that session has ended, and no call of the page
  can sign it in (`Powerless`).
- `NeverBusyForNothing`: the safety core of `SignInEnds`. While the page is busy, an address is being
  loaded in its place or it awaits the answer of a call of a sign-in, and each of those ends
  under `Fairness`. The other invariants bound from above which calls there are; this one needs
  the converse, what a step leaves of them (`OthersRemain`, `RenderedBusy`).

The assumptions are those named in the modules, which the runs evaluate: what stands for "none"
(`None`, `Null`, `Nobody`, `Missing`) is no record, person or name; the kinds of requests, or the
names of tokens, of seeds and of new records, are disjoint; lifetimes are natural numbers; a token is
of a session, a grant of a client, a profile of a provider, a call of a process; a
policy the admin service creates is active with priority 100, priorities are integers, and paths
are finite sequences of segments. `WritersShareProcess` is a hypothesis of
`StoreIsLinearizable` alone.

Only model-checked: `EveryCallSettles` and `SignInEnds`, but for their safety cores (liveness under
fairness is out of the prover's reach).

## Not modelled

- Cryptography, JWT encoding, hashing, base64url: pure computation. The models take
  signatures as unforgeable and random values as new; `Gateway` has what `verify()` looks at.
- `memory-*.ts`, the Mongo and Redis adapters, `session-access-service.ts`: no application
  uses them. Nor does anything call `reload()` of the signing keys or disable a key.
- Of the console: layout and what it shows of an overview, the client id a sign-in
  takes from the overview it has, the `loading` flag of the sign-in button, a
  page restored by the browser as it was left, broker links. The help guide opened from
  the login screen is not rendered there, and `applyScope` compares the product of an item
  with the workspace selected when it filters assignments: both are presentation.
- The admin UI package (page descriptions), HTTP bodies, configuration, logging. Worker,
  jobs and events declare types and serve a health record.
- The filter of the admin overview and the fields of the profile: reads that change nothing.
- A login's audit event and `lastLoginAt`: saved and read by no decision.

## Plan

Done, in this order, the core first: `AtomicStore`, `JsonFileStore`,
`AuthorizationCode`, `RefreshToken`, `Broker`, `Admin`, `SigningKeys`, `PathPattern`, `Gateway`,
`Sessions`, `Console`. Next:

1. A composition of `AuthorizationCode` and `RefreshToken`, so that a logout meets
   refreshed tokens, with `EndedMeansRefused` and its proof carried over.
2. What `Console` takes for granted of `Sessions` (each handler one step) related to the
   modules that interleave the handlers.
