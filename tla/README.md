# agent-identity in TLA+

A verification development of this repository: TLA+ modules of the gateway and
the verifier, TLC runs that check them on small instances, and theorems about
them that TLAPS proves for every instance. It is about the parts that keep
state; what is checked, on which bounds, what is proved and what is left out is
said below, and `PROJECT.json` lists every run, theorem, mutant and hazard with
the source lines each definition models.

To check a run: `tlc -workers 2 -config MCGateway.cfg MCGateway.tla`.
To check the proofs: `tlapm X.tla` for `X` each of `TenantAdminProofs`, `SecurityEventsProofs`,
`GatewayProofs`, `RateLimiterProofs`, `OAuthTokenCacheProofs`, `JwksCacheProofs`,
`ProxyProofs`, `AgentClientProofs`.

## 1. The system

An agent holds an Ed25519 key and gets an AID token (a JWT) from an issuer. A
resource server checks the token with the **verifier** library, which takes the
issuer's keys from its JWKS, applies a local policy, and keeps a revocation
list. The **gateway** is such a resource server: it receives
`/<tenant>/<api>/...`, verifies the agent's token, finds the agent in the
tenant's configuration, takes the agent's own upstream credential from a
vault, and forwards the request. Administrators change tenants through an admin
API or with a command line tool that edits the same files; issuers post signed
status events (revoke, restore). On the agent's side, shell **scripts** create
the identity, register it and fetch and cache tokens.

The gateway is one Node process with one event loop: a handler runs alone
between two awaits, and anything may happen at an await. Other processes (the
command line tool) interleave at any system call.

| component | state it keeps | operations | what makes it hard |
|---|---|---|---|
| tenant store (`gateway/src/tenants.js`) | one JSON file a tenant; a cache of parsed files keyed by mtime | get, put, list | another process writes the file; `put` renames and only then stats |
| admin API (`gateway/src/admin.js`) | none of its own: read-modify-write of the store and the vault | PUT tenant, disable/enable tenant and agent, PUT/DELETE credential | reads the configuration, awaits a body, writes the whole configuration |
| command line tool (`gateway/src/cli.js`) | none: a process with a store and a vault of its own | add-agent-credential, init, list, import-openapi | no lock against the gateway |
| status-event receiver (`gateway/src/set.js`, `handleEvents`) | replay cache of `jti`s in memory; `revocations.jsonl` | receive, accept or refuse, apply, append, replay at the start | window arithmetic against the replay cache, a crash in the middle of an append |
| revocation list (`verifier/src/revocation.js`) | revoked agents and token ids | apply, isRevoked | shared by receiver and verifier |
| request pipeline (`gateway/src/gateway.js`) | requests in progress, each with the configuration it captured | verify, findAgent, limit, authorize, credential, forward | five awaits between the checks and their use |
| rate limiter (`gateway/src/ratelimit.js`) | a token bucket per agent and tenant | take, with a sweep of full buckets | fractions, rounding of `Retry-After`, a sweep under another caller's limits |
| OAuth token cache (`gateway/src/oauth.js`) | one token and one fetch in progress per vault entry | get, invalidate | a shared fetch whose credential is replaced under it |
| JWKS cache (`verifier/src/jwks.js`) | key set and time of arrival per issuer | keyFor, refresh | key rotation, loads out of order, failing loads, made-up kids |
| credential vault (`gateway/src/vault.js`) | one encrypted file of credentials | get, set, delete | read-modify-write by two processes |
| verifier and policy (`verifier/src/verifier.js`, `policy.js`) | none | normalizeConfig, check, findGrant, effectivePermissions, introspect | which checks come before and after the awaits; the first grant that names the agent; scope map, ceilings and the decision to ask the issuer |
| routing (`gateway/src/catalog.js`, `paths.js`) | none | parseTarget, validateCatalog, match | encoded segments, reserved paths, one most specific entry |
| outbound (`gateway/src/outbound.js`) | one exchange | outboundRequest | one deadline for the whole of it, a limit, answers that are cut, one outcome |
| audit (`gateway/src/audit.js`) | a bounded ring, a queue of lines, an append-only file | record, query | order, appends that fail, a crash with lines in the queue |
| agent scripts (`scripts/*.sh`) | key files, one registration file a host, token cache files | init, register, request, token, status | shared files without locks, cached answers for other questions |
| installer, examples, docs, tests | none | | |

How they interact: admin API and command line tool write the file the store
caches; the pipeline reads the store, the verifier (which reads the revocation
list and the JWKS cache), the rate limiter, the vault and the OAuth cache; the
receiver writes the revocation list and its file. All within one event loop,
except the command line tool.

What makes each of them correct:

* **store and admin API**: the gateway never serves an older configuration than
  one it wrote or served; what it serves is what is on disk; no writer turns an agent or
  a tenant that it found off back on unasked.
* **receiver**: an event token takes effect once; what was acknowledged
  survives a restart; every delivery is answered, whatever the others do.
* **pipeline**: a request is sent on only if the switches and the status events
  let its agent through at some moment since it arrived. So a request that
  begins after a disable was answered is refused.
* **rate limiter**: no stretch of time lets an agent through more often than
  burst plus rate; a caller who waits as told is not refused again.
* **OAuth cache**: a caller gets a token of the credential it asked with, still
  good; callers share a fetch; nobody waits forever.
* **JWKS cache**: a withdrawn key stops working in bounded time; a new key
  starts working in bounded time, whatever made-up kids are sent. (That these cannot make the
  verifier hammer the issuer is claimed, and does not hold; see Disagreements.)
* **verifier, policy, routing**: a request is sent on only if its token was good, a grant
  let its agent in, its issuer called it active where it had to be asked, and its
  permission was had, each at some moment since it arrived; and with the credential of an entry
  of the agent at its own issuer.
* **outbound**: every request is answered, whoever stalls; an answer passed back is
  whole, within the limit and free of the credential.
* **audit**: a denied request never reached the upstream, an allowed one did, a named agent
  was verified; the file has the records in their order.
* **scripts**: a token given to a caller is for the service, tenant and scope it
  asked for, and good; `--wait` ends.

The hazards, each at its line and with the properties that would catch it, are
in `PROJECT.json`.

## 2. Modules

| module | models | built on |
|---|---|---|
| `TenantAdmin` | store, admin API, command line tool, over one tenant's file | |
| `SecurityEvents` | receiver, replay cache, revocation list and its file | |
| `AccessGate` | abstract: gates that open and close, calls that must find each open | |
| `Gateway` | the pipeline, composed with the two modules above; refines `AccessGate` | `TenantAdmin`, `SecurityEvents`, `AccessGate` |
| `VerifierPolicy` | what the verifier decides without state: policy, grants, permissions, times | |
| `Catalog` | request targets and the choice of a catalog entry | |
| `AuditLog` | ring, queue and file | |
| `Proxy` | one tenant's requests from token to audit record; refines `AccessGate` with six gates | `VerifierPolicy`, `Catalog`, `AuditLog`, `AccessGate` |
| `RateLimiter` | the buckets | |
| `OAuthTokenCache` | one vault entry's token | |
| `JwksCache` | one issuer's key set | |
| `AgentClient` | the agent's scripts over their shared files | |
| `MC...` | the constants of the runs | |
| `...Proofs` | theorems about the module they are named after | that module, TLAPS; `GatewayProofs` also the proofs of its two parts; `ProxyProofs` also those of `Catalog`, `VerifierPolicy` and `AuditLog` |

### TenantAdmin

`file` is the tenant's JSON file with a version that stands for its mtime;
`cache` is `TenantStore.cache`. A configuration keeps the listed agent keys and
the switches that are off. Keys may be spellings of one agent (`AgentOf`),
because the code compares addresses ignoring case when it looks for an agent, and exactly when it
carries the switches of an update over. `On` says who is served: whoever is listed and has no spelling
off. `UpdateStart` and
`UpdateFinish` are the two halves of `PUT /_admin/tenants/<t>`, before and after
`await readBody`; `CredentialStart`, `CredentialStore`, `CredentialPut` are the
three parts of the credential `PUT`, separated by the awaits of the body and of
the vault. `FlipTenant` and `FlipAgent` are disable and enable up to their `put`, `FlipPut` and `FlipFails` the
rest: no await, so the event loop does nothing in between (`Idle`), but the command line tool, another
process, may. The same holds for `PutRename` and `PutStat`, the two halves of `store.put`. `CliStart`,
`CliStore`, `CliPut` are a run of `add-agent-credential`, which reads the file
and then waits for the secret on standard input. `Abandon`, `CliQuit` and
`Restart` are refusals and deaths at any of these points. `silent` is history: whom the last write turned
on unasked, against the configuration it started from and against the file, and whose spelling it
replaced. Versions are counted, so two writes within the resolution of the file system's clock are out
of scope.

### SecurityEvents

`post` holds the deliveries: `Receive` decodes and awaits the issuer's key,
`Accept` or `Refuse` applies the window and the replay cache, `Begin` goes on after the await of the
verified events, `ApplyNext` is one
turn of the loop that applies an event and appends its line, `ApplyFails` an
append that throws, `Acknowledge` the 202. An append that throws, or that a `Restart` catches, may leave
nothing, a piece of the line, or all of it but the newline (`CutShort`). What is written next is glued to such a
line; so `Replay` skips the piece, as the code does with any damaged line, and reads a line that lacks
only its newline until the next append destroys it (`Lines`, `Appended`, `Spoiled`). `lost` is history: the subjects whose last
event is not a good line of the file. The clock
runs in ticks below the second because the window is computed in whole seconds
and the replay cache in milliseconds.

### Gateway and AccessGate

A request captures the configuration (`Arrive`, field `view`) and passes the
stages key, ask, body, token, upstream, each ending in an await. `Verify` tests
the revocation list after the key has arrived; `Authorize` tests the *captured*
configuration; `Finish` is the answer or any refusal. What it decides from the token, the
policy and the catalog is the choice between going on and `Finish`; `Proxy` has those
decisions. `AccessGate` says what this amounts to: each gate
(switches, status) must have been open to the bearer at some moment since the
call began. `passed` is the history variable of the refinement. The gate
`switch` is that of `Effective`, the file, except while the documented race of
the store hides a newer one.

### VerifierPolicy and Catalog

Operators without state. `VerifierPolicy` follows `policy.js` and the rules of
`verifier.js`: `WellFormedPolicy` is what `normalizeConfig` accepts, `FirstGrant` and `GrantOf` are
`findGrant` and the test of its expiry, `PermissionsOf` is scopes, scope map and ceiling, `NeedAsk`
the decision to introspect, `Acceptable` the checks of the token. A field that may be
absent is a set of at most one value. `Catalog` works on decoded segments: which texts a segment is
refused for is a constant (`Unfit`). `Match` is the code's choice by comparing entries
(`moreSpecific`); `Descent` is the reference: go down segment for segment and keep the literal ones
if there are any. That both agree on every valid catalog is proved.

### Proxy and AuditLog

`Proxy` is the request of `Gateway` seen from the other side: the configuration stays, and
everything decided from it is there. `Arrive` is the handler up to the first await, `Verify`
the verifier after the issuer's key has arrived, `IssuerReads` and `Told` an introspection whose answer may
be old when it arrives, `Admit` steps 2 to 4 of `handleProxy` (or the end of `aidMiddleware`, for a
request without a route), `Forward` and `NotForwarded` what follows the body,
`AnswerHead`, `Data`, `End` and `Cut` the exchange with the upstream, `Deadline` every timer. `Close`
ends a request with its one audit record, in `AuditLog`: `Record` pushes it on the ring and
queues its line; `WriteLine`, `WriteFails` and `Crash` are the append. Beside the
requests time passes, status events revoke and restore agents and tokens, and agents are
suspended at their issuer.

The gates of `GateOpen` are written without the code's order and without "first": of all the
grants that name an agent, of all the entries that are its own, of the catalog by `Descent`. The
refinement says that what the code does step by step amounts to that. In one place the reference has to say what a
reader might not expect: in the gate that lets an agent in, a first grant that has expired hides a later one. The gate of the permission (`Has`) goes by
the grants in force, as the documents do: a grant is a ceiling, and only an agent of an open issuer
(`allowAllActiveAgents`) that no grant in force names has none. The code keeps to that
but in one kind of policy, which `NoHiddenCeiling` excludes: see Disagreements.

One tick is a second. The vault's contents are fixed when a behaviour starts: under each name, the
credential of any entry of that name, or none. Two entries of different issuers may share a name,
because `credentialName` (`tenants.js:20`) ignores the issuer and lower-cases the key; the run
`shared_name` has such a tenant. A decision is allow, deny or error: error is the
upstream's failure or the verifier's own (`internal_error`, 500, which a scope named like a property of every
object, `constructor`, brings about when there is a scope map: `policy.js:96`). A request to `/_events` is
recorded as allowed, denied or failed; what it does is `SecurityEvents`. An access token that has to be
fetched between taking the credential and forwarding is part of `Forward`
(`OAuthTokenCache` has the fetch). Credentials are taken to be long enough to be looked for
in the answer. A crash that tears an audit line is not modelled.

### RateLimiter

Tokens are whole shares (`Cost = 60 * TicksPerSec` a request, `Rate` a tick), so
the arithmetic of the code is exact and no floating point is modelled. `Allow`
and `Refuse` are `take`; `Buckets` is the part that makes a bucket and sweeps.
Each key has its tenant's limits, and `Swept` judges all buckets by the caller's.
`Mark`, `count`, `robbed`, `retry` and `early` are history: counting may start at any
moment, and a key is robbed when a sweep by other limits takes a bucket that is not full by its own.

### OAuthTokenCache

`Get` is `Hit`, `Share` or `StartFetch`; `Answer` and `Fail` settle a fetch for
everyone who awaits it; `Done` ends the use, perhaps with the 401 that
invalidates. `Replace` is an administrator changing the credential at any time. A token lives as long as its
endpoint makes it, whether the answer says so or not; without a numeric `expires_in` the cache believes in it for
`Default`, the code's 300 s, and `short` marks a token that does not live that long.

### JwksCache

`Lookup` is a `keyFor` that cannot be answered from the cache; `Answer` and
`Fail` end its load, and `Continue` decides on the second one. Lookups answered
from the cache change nothing and are not steps. The issuer publishes numbered
keys one at a time (`Rotate`).

### AgentClient

Every script run is a process; they share the token cache (`there` and `tokens`: an
existing file may be empty) and one registration file a host (`reg`), without
locks. `aid-token` is one step for each access to a file: `CheckExpiry`, `Clean`,
`CheckScope` and `Cat` are `check_cache`, `Ask` reads the registration file and sends
the request, `Answer` empties the cache file, `Reopen` opens it a second time to write it (and creates it again, if
another run has removed it meanwhile), `Write` and `Show` are the rest of
`save_cache` and its `chmod`, which fails if another run has removed the file. A
run that has a removed file open writes to no file (`linked`). The answers of the `Stating` servers have an `expires_in`;
a token of any other is taken to live for `Default`, the script's hour, and `short` marks one that does not. `Pending` and `Again`
are the `--wait` loop, which is an `exec` of the script with the time left.
`RequestStart`, `Submitted`, `SubmitLost`, `PollStart`, `Polled` are `aid-request`;
`Register` is `aid-register`; `StatusLook` and `StatusRemove` are `aid-status`. The
authorization servers are external: `standing` is what each knows of the agent. Credential
type and audience are one `kind`, because they are used in the same way. A write of an
answer is one piece; two overlapping writes of different length are not modelled.
Sleeping takes no time of the model's clock, which is there for the expiry of tokens.

## 3. Runs

| run | instance | checks | states |
|---|---|---|---|
| `tenant_admin` | 2 spellings of one agent, 1 admin request in progress, 1 command line run, 3 writes | types, `WritersKeepSwitches`, `ServedNeverGoesBack`, `ServesFileUnlessRaced` | 354 k |
| `security_events` | 2 deliveries, half-second clock, 1 failed append, 1 restart | types, `RestartRemembers`, `AcceptedOnce`, `PostsAnswered` | 606 k |
| `gateway` | 1 request, 1 command line run, 1 delivery, admin disable/enable, 1 restart | types, refinement of `AccessGate` | 712 k |
| `rate_limiter` | 3 agents of 2 tenants with different limits, room for 1 bucket | types, `WithinBudget`, `RetryAfterIsEnough` | 810 k |
| `oauth_cache` | 3 callers, 2 credentials, tokens that live longer and shorter than what is assumed of them | types, `OwnCredentialOnly`, `CachedTokenIsGood`, `FetchIsShared`, `WaitersSettle` | 157 k |
| `jwks_cache` | 3 lookups, 2 keys | types, `WithdrawnKeyExpires`, `NewKeyIsAccepted` | 644 k |
| `agent_client` | 2 concurrent `aid-token` runs of 4 commands, 1 `aid-request`, 2 tenants on 2 hosts, one of which states lifetimes, 3 scripts in all | types, `GivenForItsService`, `PrintedTokenIsGood`, `NamedScopeIsGiven`, `AsksItsServer`, `WaitIsBounded` | 1.7 M |
| `proxy` | 1 request at a time in each of 5 tenants, 2 s, answers of 0 to 2 pieces with a limit of 1, 2 records, 1 lost line | types, refinement of `AccessGate`, `OwnCredential`, `AnswerIsFit`, `AuditTellsTheTruth`, `AuditIsInOrder`, `RequestsAnswered` | 97 k |
| `kill_switch_race` | violation | `SwitchStaysOff` | |
| `shared_host` | violation | `AsksItsServer` with both tenants on one host | |
| `no_keys` | violation | `NoHammering` | |
| `shared_name` | violation | `OwnCredential` in a tenant whose two entries share a vault name | |

Why the bounds are enough. The races of the store need one write each of two
writers and one more to observe the effect: `MaxWrites = 3`. One admin request
in progress beside the disable and enable steps is enough for a lost update
within the gateway, and one command line run for those from outside. The replay
cache needs the window (1 s + 1 s) to pass once: `MaxTime = 4` half-seconds.
The `gateway` run keeps the clock still (`MaxTime = 0`), because time matters only
inside `SecurityEvents`, which `security_events` checks with a moving clock; and
one request, because requests do not touch one another except through the rate
limiter. The rate limiter needs a sweep to hit the bucket of an agent of the same tenant and of
another: 3 agents, two of them of one tenant, room for one. A caller, a second that overtakes it with another credential and a third
that shares either are the three of `oauth_cache`; its tokens live 2 or 4 ticks, what is
stated is cut to 3, and 3 is assumed of what is not. In `jwks_cache` an old load,
a newer one and a made-up kid are three lookups; the clock runs past `Ttl` and
`StaleIfError` after a rotation. In `proxy` each tenant is about one kind of decision: `Granted` (grants that end, one that
hides another, ceilings, a token too old before it ends), `Asked` (introspection when a
sensitive permission is needed or held, a scope map, the middleware, a ceiling that ends in an open tenant), `TwoIssuers` (one address at two
issuers, in two spellings, with an entry each and a `credentialRef` that keeps their vault names apart), `SwitchedOff` (an entry off beside
one that is on, targets and tokens refused out of hand, the reserved paths), and `Unnamed`, which is not valid and must not be admitted. Requests do
not touch one another except through the audit log, which two records and a ring of one suffice
for: the second pushes the first out, and its line waits behind it. Two seconds bring a token, a
grant and a maximal age to their ends one after another.
In `agent_client` one run fills the cache and two more
race for it: three scripts. A tick stands for half a minute: a request takes one at most (curl's 30 s),
the buffer is two (60 s), and a run takes at most one from its first access to a
cache file to its last (`Pause`: nothing in the scripts bounds this, and `PrintedTokenIsGood` rests on it). Tokens live
longer than that (`TimesAssumption`); with shorter ones a cache is no
use, and the property would be about the assumption only. A token lives 4 ticks, and 5 are assumed where the server
does not say it.

Deadlock is checked where the system never stops (`tenant_admin`, which can always
restart or read; `rate_limiter`). In the others the bounded clock, log or restarts end
the behaviour, and their configurations say `CHECK_DEADLOCK FALSE`.

Some properties carry an exception the code has; each is one definition or one disjunct, and named.

* `WritersKeepSwitches`: a `PUT` that lists another spelling of an agent that is off, and not the old one, serves the
  agent again (`Respelled`; `admin.js:110` compares keys exactly, `gateway.js:99-105` finds agents ignoring case).
* `ServesFileUnlessRaced`: when the tool writes between the
  gateway's rename and its stat, the gateway's copy is cached under the newer mtime
  and stays until the file changes once more (`tenants.js:138`).
* `RestartRemembers`: not for subjects whose last event did not reach the file, or whose line without
  a newline something was written behind (`lost`). Events that are applied and not written (`gateway.js:146-147`) are exempt
  until the restart that forgets them.
* `AcceptedOnce`: the window
  test uses whole seconds and the replay cache milliseconds from the moment of
  acceptance, so a token signed exactly one skew ahead of the second it was first
  accepted in is forgotten a fraction of a second before its window ends
  (`set.js:68-72`).
* `WithinBudget`: not for a key whose bucket a sweep by other limits took before it was full (`robbed`; `ratelimit.js:21`).
* `CachedTokenIsGood` and `PrintedTokenIsGood`: not for a token whose lifetime nobody stated and that lives less than the
  300 s (`oauth.js:45`) or the hour (`aid-token.sh:233`) the code then assumes (`short`).
* `NamedScopeIsGiven`
  speaks of commands that name a scope, and not of a read that raced with another run's write:
  without `--scope` a run is given whatever scope is cached (`aid-token.sh:204`), although its
  help says that all registered scopes are the default.
* `AccessIsGated` of `Proxy` is checked in tenants without a hidden ceiling (`NoHiddenCeiling`, an assumption of `MCProxy` and
  a hypothesis of the theorem).

### Fairness

Only where the code's scheduling gives it. `SecurityEvents`: weak fairness of each
delivery's `Handle`, because Node runs a handler whose await has settled and the
key lookup has a deadline. `OAuthTokenCache`: weak fairness of the end of each
fetch, because `outboundRequest` settles at its deadline (`outbound.js:43`). `Proxy`:
weak fairness of each request's `Deadline` alone, because timers fire: the fetch of the key, the
introspection, the body (`requestTimeout`, `gateway.js:301`) and the whole exchange with the upstream have
one. Nothing is asked of the caller, the issuer or the upstream, which may all stall. An
application behind the middleware is not promised to end, so `RequestsAnswered` ends with handing the request to it. The
others state safety only and assume none.

### Disagreements found

* **`kill_switch_race`** (`admin.js:106`): `existing` is read before the body is
  awaited; a disable answered meanwhile is overwritten by the whole
  configuration the PUT saves. `docs/gateway.md:182` promises otherwise. The same holds
  for a credential PUT and for the command line tool. `WritersKeepSwitches` is
  what does hold: each writer keeps off whoever is off in the snapshot it started from.
* **`shared_host`** (`aid-token.sh:322`): the registration file is named after the host, and the
  tenant is in the path, so the token endpoint of one tenant is used for the other.
  `examples/multi-server.sh` has two tenants on one host. It works after `aid-register`, which
  saves no endpoint, and not after `aid-request`. With a host for each tenant
  `AsksItsServer` holds (`agent_client`).
* **`no_keys`** (`jwks.js:54`): while the cache has no fresh keys, every lookup starts a load, however recently one
  failed; the minimum interval guards the second load only. `jwks.js:4-6` and `docs/federation.md:93` say that made-up
  kids cannot make the verifier hammer the issuer.
* **`shared_name`** (`tenants.js:20`): the vault name of an entry leaves the issuer out, and nothing refuses two entries
  with one name. So the agent of one issuer is sent on with the credential stored for the other's, which
  `docs/gateway.md:106` and the message of `tenants.js:80` exclude. With distinct vault names `OwnCredential` holds
  (`proxy`), and is proved.

The exceptions listed above include four more, which have no run of their own. A `PUT` under another spelling turns an agent on (`docs/gateway.md:182` and `246` say that it does
not). A sweep judges buckets by the caller's limits, so that an agent may get a second burst (`ratelimit.js:21`; `docs/gateway.md:107`).
After a crash in the middle of an append, the next accepted event is written onto the torn line, answered
202, and skipped at the following restart (`gateway.js:147`; `docs/gateway.md:183`). And in an open
issuer, an expired grant that comes first hides the ceiling a later grant in force sets for the same agent
(`policy.js:78`, `verifier.js:76`; `docs/federation.md:100` and `docs/gateway.md:88` call a grant a ceiling).

## 4. Proofs

`RateLimiterProofs`, for any keys, rates, bursts, clock resolution and room.

* `TypeCorrect`: a bucket holds between no shares and its burst and was last
  touched no later than now. The step lemmas say what `Refilled` and `Buckets`
  return; `take` is one case for each outcome.
* `RetryAfterCorrect`: the invariant `RetryInv` says that for a key told to
  return at `retry[k]`, its bucket (if it still has one) will hold `Cost` shares
  by then. A sweep can only drop a bucket, which then starts full; a tick only
  adds. The rounding up to whole seconds is an arithmetic lemma.
* `BudgetCorrect`, whatever the limits of each key:
  the invariant is the potential `count * Cost + shares held now <= burst * Cost + elapsed *
  rate`, for every key that has not been robbed. A sweep drops a bucket that is
  full by the sweeper's limits; with the key's own limits it is then full by these, and a key that has other limits is robbed
  unless it is (`SweptAreFull`).

`TenantAdminProofs`, for any keys and spellings, any number of admin requests and
tool runs and any bound on writes; the assumptions are those of the module.

* `TypeCorrect`: the file, the cache, the snapshots and the copy being written are
  configurations as `validateTenantConfig` returns them.
* `NeverGoesBack` and `ServesTheFile` follow from the invariant `Coherent`. Neither is
  inductive alone, because what `Got` answers hangs on the mtime in the cache, and
  `PutStat` sets that mtime from the file of that moment, which need not be the one it wrote. `Coherent` says that
  nothing cached or served is newer than the file; that a copy cached under the
  file's mtime is at least as new as what was served, and *is* the file unless a
  race is recorded; and that between rename and stat the copy being written is
  what was served last, and the file unless a race is recorded. `StepOnFile` sorts the
  steps by what they do to the file and the cache.
* `SwitchesKept`: one step for each writer. An update keeps off every switch of its base that it lists and does not name, so
  an agent that was off is served only if it was named or its spelling is gone; a flip turns on whom it was asked to; and a
  filed credential lists a spelling that is there already, or an agent nobody listed.

`SecurityEventsProofs`, for any tokens, deliveries, clock resolution, window and bounds.

* `RestartCorrect`: replaying the file gives the list in memory. The lemma `ReplayOneMore` says what one more line,
  or one glued to an unfinished line, does to the replay.
* `ReplayRefused` (`AcceptedOnce`) follows from `RememberedForAWindow` (an accepted token is in the replay cache for a
  window from its acceptance) and the arithmetic that puts the end of that window no earlier than the
  end of the token's own, in whole seconds (`OneSkewAhead`, `SecondOfTick`).

`GatewayProofs`: `Gated` is the refinement `Spec => AccessGate`, for any number of requests, bearers, admin
requests, tool runs, deliveries and restarts. The proofs about the two parts are used through INSTANCE
(`SameAdmin` and `SameStatus` say that the parts as composed are those that were proved about). The invariant
is that of the parts, the types of the requests, and that a request has passed the gates of the
stages behind it; each action is one lemma that maps it to a step of `AccessGate` or a stutter. `SwitchedOffStayOut` draws the conclusion for the
kill switch: while the tenant's file has an agent off, or itself, no request of that agent that arrives is sent, across
restarts and whatever else is in progress, unless a write of the tool has raced. `RevokedStayOut` is the same for status events.

`OAuthTokenCacheProofs`, for any callers, credentials, lifetimes and deadlines: `IInv` adds that
a fetch in progress is no older than its deadline, that a caller awaits a fetch of its own credential only, and that
a token is believed for no longer than it lives, unless its life was not stated and is `short`. `Settled...` say what the end of a fetch does to those who await it.

`JwksCacheProofs`, for any lookups, keys and times: the key in the cache was the issuer's no longer than a deadline
before it arrived (`AnswersAreRecent`), loads end within their deadline, and a load that was the last to start is in progress, has
failed or is in the cache (`LastLoadHasAFate`). From these follow the bound on a withdrawn key and on a new
one.

`ProxyProofs`, for any tenants and stored configurations, valid or not, any finite set of concurrent requests, and any limits,
sizes and times. Nothing is assumed of a configuration but its shape (`ConfigsAssumption`: finitely many issuers, an introspection
mode that is one of three, grants in a sequence, a catalog of entries, at most one token and one route to a request); that
it is valid is what `Init` asks, as the code does.

* The catalog first, for any one that `validateCatalog` accepts and any path: no two entries tie for
  most specific (`MatchIsUnambiguous`), the choice by comparison is the choice by descent (`MatchIsTheDescent`), and a path that
  some entry fits has exactly one (`MatchDecides`). "The first segment where two templates differ" comes from
  the well-foundedness of `<` on the naturals (`LeastNumber`).
* Then what the verifier's rules come to, state by state: `HeldIsHad` (what the first grant that names an agent leaves it, it has by the
  gate's reference, which knows no order), `OwnEntries` (the entries `findAgent` looks at are those of the agent at its own issuer), and one lemma a
  gate that says the check in the code opens it.
* The invariant `IInv` has three parts. `WorldHolds`: the configuration is valid, each credential is under its own entry's name, and
  `open` is what the gates are now. `RequestsHold`: a request in progress asks one thing with one token of a trusted issuer, has seen every gate
  that is open to it now (`OpenTo`, without which a check that finds a gate open would say nothing about `passed`), and has passed those its stage needs
  (`LetThrough`). The awkward gates are those of `Admit`, because the permissions it compares and the issuer's answer it goes by are
  from before an await: so `LetThrough` says of a request that waits for its issuer what the permissions it holds were good for, and that an answer
  already read was given while the agent was active. `Provided` has the credential and the answer. `AuditHolds`: the order of the
  log, and that there is room for a record of every request in progress (`RoomLeft`).
* `HandleCases` sorts all steps of a request into four: refused on arrival, begun, gone on, decided. Everything after it uses those four
  only. From `IInv` and `HandleCases` follow `TypeCorrect`, `CredentialIsOwn`, `LogIsInOrder`, the two action properties
  `AnswersAreFit` and `LogIsTrue`, and the refinement `Gated`, each for requests that interleave in any way; the run has one at a time.
* `CredentialIsOwn` assumes that no two entries of a tenant share a vault name, which is where `shared_name` fails; `HeldIsHad`, and with it
  `Gated` and `ShutOut`, that no tenant has a hidden ceiling (`NoHiddenCeiling`: of the grants of an open issuer for one agent, only the last may
  end). `ShutOut` and
  `RevokedStayOut` say what the refinement means to whom a gate is shut: whatever arrives from then on is not sent while the gate stays shut.

`AgentClientProofs`, for any runs, commands, hosts, services, files and lifetimes. `IInv` says
that a cache file holds at most one token, of the service and tenant it is named for and overdue by no more than a request takes
to answer, unless its life was guessed too long; how long a run may still stand between two accesses and how long what it has read will be good (`Timely`);
that unless it raced, that has the scope it named (`InScope`); that the time it has left and the intervals it has slept
are its `--wait` (`Patient`); and that a run writing a file that was not removed has one that is there (`Linked`). The theorem about the server asked, `ServersAreAsked`,
assumes that no two tenants share a host, which is where `shared_host` fails.

Only model-checked: the liveness properties `PostsAnswered`, `WaitersSettle` and `RequestsAnswered` (fairness and
`ENABLED` are beyond the prover). Every other property of a passing run is stated by a theorem.

## 5. Not modelled, and why

* Cryptography, JWT and JSON parsing: a token has a form, and the forms that are refused are
  told apart by where they are refused.
* Header allow-lists, the rewriting of `Location`, the re-encoding of a path: data that decides nothing
  a property speaks of.
* Encryption of the vault, and its file. `vault.js:91` loads, changes and saves the whole file, so the
  gateway and the tool can lose each other's credentials; in the models the vault changes in one step.
* `init`, `list` and `import-openapi` of the tool, and the admin page: files written once, and views.
* The limit on failed admin logins (`admin.js:31`).
* Address checks of outbound requests and `makeSafeFetch`: a name resolution and a table.
* Two file writes within one mtime tick; a torn audit line, which nothing reads.
* The order in which an issuer meant its status events: nothing in the code or its documents orders them.
* The installer, the examples and the documents.
* `aid-init`, `aid-discover` and the helpers of the scripts (keys and signatures).

## 6. Plan

1. *Done*: all components that keep state (`TenantAdmin`, `SecurityEvents`, `Gateway`, `RateLimiter`,
   `OAuthTokenCache`, `JwksCache`, `AgentClient`, `AuditLog`), the decisions (`VerifierPolicy`, `Catalog`, `Proxy`), and the
   proofs listed above.
2. Vault file: the lost update of two processes, as a module of its own composed into `TenantAdmin`.
3. The limit on failed admin logins, with its clock.
4. *Done*: proofs about `Proxy`: types, `OwnCredential`, `AuditIsInOrder`, the action properties and the refinement.
5. Larger instances of `Proxy`: two requests whose records interleave.
