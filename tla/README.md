# Verification of the zero-trust agentic platform

TLA+ models of the services under `src/services/`, the TLC configurations that
check them, and TLAPS proofs of the theorems that matter most. The platform
runs AI agents in sandboxes that hold no credentials. A person consents to what
an agent may do, and short-lived credentials come into being at the moment they
are used.

    MODULE                 what it is
    JitApprover            the just-in-time approver: requests, decisions, issuance, reaper
    JitGrant               what it promises for one request (abstract specification)
    JitApproverProofs      its invariant, and JitApprover implements JitGrant, proved
    MCJitApprover          the instances for TLC
    JitLedger              the approver's hash-chained audit ledger, both backends
    JitLedgerProofs        its invariant, proved
    ExtProcStream          the gateway's external processor: one credential per MCP call
    ExtProcStreamProofs    its invariant, proved
    MCExtProcStream        the instances for TLC
    AgentLifecycle         the console's persistent agents: store, file, reaper, consent grants
    SandboxLaunch          the launcher: launches, boots of the brain, its own token
    LaunchContract         what it promises for one launch (abstract specification)
    SandboxLaunchProofs    its invariant, and SandboxLaunch implements LaunchContract, proved
    TokenTrust             issuers' keys and the caches of those who verify tokens
    TokenTrustProofs       its invariant, proved
    ConsoleTasks           the console's tasks: exec pump, event streams, pages
    AgentBrain             the runner in the sandbox: SVID, retries, exit code
    AgentRunProofs         the invariants of AgentBrain and ConsoleTasks, proved
    Elevation              a denied tool call, its approval and its repetition, end to end
    ElevationProofs        its invariant, proved
    MCElevation            the instance for TLC
    WebShell               a page, its socket, and a bridge to a terminal
    MCWebShell             the instances for TLC
    ConsoleAgentsProofs    the invariants of AgentLifecycle and WebShell, proved

`PROJECT.json` lists for every definition the lines it translates, for every
run its properties, for every property a plausible bug (a mutant definition)
that violates it, and the hazards of the code with the properties that look for
them. It lists no findings; where the code and its documentation part is told in
section 6, with the property and the configuration that show it.

## 1. Inventory

### The parts and how they interact

    person -- console/Backstage/ida-cli --> approval-console --> sandbox-launcher --> OpenShell gateway
                                              |    |                                     (sandboxes)
                                 consent grant|    |approve: POST /requests/{id}/mint
                                              v    v
       Gitea <--pull request, webhook-->  jit-approver --> Vault (role, lease, KV record)
                                                   |  \--> OpenShell gateway (network rule)
                                                   v
       agent in its sandbox --MCP call--> agentgateway --ext-proc stream--> ext-proc-delegation
                                               |                             |-- Vault (consent grant, secrets)
                                               v                             |-- Keycloak (exchange, impersonation)
                                          MCP server                         \-- JWKS of SPIRE, Keycloak, jit-approver

| component | state | operations | what is hard | what makes it correct |
|---|---|---|---|---|
| **jit-approver** requests (`api.py`, `mint_core.py`, `webhook.py`, `reaper.py`) | sessions (`state`, credentials, expiry, sandbox) and seen deliveries in process memory; roles, leases and records in Vault; a rule in the gateway | create, mint (console), webhook (merge, close), issuance, sweep | two ways to decide one request, awaits inside every handler, redeliveries, four Vault calls of which any may fail or take effect unanswered, restarts | granted at most once and as approved by somebody else; no session stuck; expired means nothing left; one lifecycle |
| **jit-approver** ledger (`ledger.py`, `persistence/`) | entries and the head row, in memory or in Postgres | append | concurrent appends, rollback, commits with a lost answer, sequence gaps, a lock that outlives its client | one chain, nothing counted is lost, order kept, the head is released |
| **jit-approver** signing (`signing.py`) | the key pair of session JWTs and its published set | sign, publish | an ephemeral key after every restart | tokens signed now verify |
| **ext-proc-delegation** | per stream its locals; the Vault client's token under a mutex; JWKS caches | headers, body, response of a call; grant, JIT, exchange, tokens | concurrent streams and legs, messages the gateway leaves out, a consent that changes underneath, cached tokens and keys | no credential without consent; fail closed; a truthful audit; no request waits for ever |
| **approval-console** sessions and approvals (`app.py`) | run sessions in memory, their events and threads | plan, approve, status, SSE stream | threads and the event loop share maps; the approval is checked against a scope hash | what runs is what was approved |
| **approval-console** agents (`agents/`) | agents and their sessions in memory, mirrored to one JSON file | create, list, sessions, archive, delete; a reaper thread every 60 s | a reaper that acts on a snapshot; persistence that switches itself off; consent grants written in three places | an archived agent stays archived and its consent ends |
| **approval-console** web shell (`webshell/`) | one bridge per socket | open, pump, close | two pumps and a limit on bridges | every bridge is released |
| **sandbox-launcher** | none of its own: sandboxes in OpenShell, policies, grants in Vault | create, wait, configure, exec, delete | a saga of calls, each of which can fail half-way | a failed launch leaves nothing behind |
| **agent-harness** (`agent_runner.py`, `svid_bearer.py`, `mcp-call`) | token cache, one run | think, call, escalate and poll | polling an approval that may never come; a token that expires in use | an escalation ends; no stale token |
| **ida-cli** | token file, device flow | login, refresh, agent commands | refresh against expiry, concurrent writers of one file | a token is used only while valid |
| sandbox-agent, svid-vault-fetch, jit-gate, echo-mcp, Backstage plugins, manifests | (almost) none | fetch an identity and exec; demo tools; views; deployment | - | - |

### The hazards

`PROJECT.json` lists them under `hazards` at the line where each bites, with
the property that covers it or the reason none does yet. The ones the models
are built around: the double grant (two deciders, one session), the half-done
issuance, the session read before an await and used after it, the delivery that
is recorded before it is processed, the chain that forks, the commit whose
answer is lost, the grant that changes between its read and the injection, the
mutex that is held through a network call, the reaper that acts on a list of a
while ago, the launch that takes effect unanswered, the key set that an older
answer overwrites, the stream that sends `done` while lines are still coming, the
token that is listed, and gone when it is used, the shell whose input blocks the
event loop of everybody.

## 2. Plan

In the order of importance; what is done:

1. `JitApprover`, `JitGrant` and proofs.
2. `JitLedger` and proofs.
3. `ExtProcStream` and proofs.
4. `AgentLifecycle` and proofs.
5. `TokenTrust` and proofs: keys across restarts, rotation, and the caches.
6. `SandboxLaunch`, `LaunchContract` and proofs.
7. `ConsoleTasks` and `WebShell`, and proofs: what the console streams to its pages.
8. `AgentBrain` and proofs: a run with its two retry budgets.
9. `Elevation` and proofs: `mcp-call`, console and approver together.

What is left:

10. `SessionStore`: the Postgres store against the contract in
    `persistence/base.py` (compare-and-set, dedupe), once a handler calls it;
    the refinement is the interesting statement.
11. `IdaTokens`: device flow and token file of `ida-cli`.
12. Pure algorithms against reference definitions: the scope hash of console and
    approver, tool scopes, role rules.
13. The grants that `AgentLifecycle` and `SandboxLaunch` write, composed with the
    `Grants` of `ExtProcStream`.
14. `JitLedger` and the agents' store against abstract specifications: a log that grows
    by one entry at a time, a map that a restart rolls back to what was saved; both
    refinements to be checked first, then proved.

Runs keep to one question each. Bounds: one or two sessions, two or three
concurrent actors, one restart, failures unbounded in number but bounded in
kind. Theorems: the type invariant and the safety properties of a module, by an
inductive invariant.

## 3. The modules and the code

### JitApprover - one asyncio loop and the people around it

The service is one event loop over a process-local store, so everything between
two `await`s is one step. A request handler is a slot `h \in Handler`; `pc[h]`
names the call it waits for, `job[h]` what it holds in its locals, `budget[h]`
the ticks its timeouts leave it. Time is discrete and kept as countdowns.

| state | code |
|---|---|
| `state`, `request`, `creds`, `ttl`, `sandbox` | the fields of a session in `store.py` that decide something |
| `seen` | `seen_deliveries` |
| `pc`, `job`, `left`, `budget` | the handlers in flight, their locals, the expiry an issuance computed, the time they may take |
| `due`, `reaping` | the reaper's sweep |
| `role`, `lease`, `stray`, `kv` | what Vault holds for a session: the role, the lease that was issued last, the one of an earlier attempt that lives longest, the record |
| `rule` | the network rule `jit-<session>` in the OpenShell gateway |
| `pr`, `sent` | Gitea: the pull requests and what was merged or closed, and by whom |
| `mints`, `approvals`, `refused` | observations for the properties; no guard reads them |

| action | code |
|---|---|
| `PrOpened`, `CreateFailed`, `StoreSession` | `POST /requests` (`api.py`): the pull request first, the session after it |
| `Mint` | `POST /requests/{id}/mint`: dual control, scope hash, claim |
| `WebhookClosed`, `WebhookIgnored`, `WebhookMerged` | `webhook.py`: dedupe, close, merge |
| `FetchFailed`, `FetchedClaim`, `FetchedOwnGrant`, `FetchedTerminal` | the await on the merged grant file and what follows it |
| `Login`, `CreateRole`, `IssueCreds`, `StoreKv`, `Recorded`, `IssueFailed` | `_atomic_issue` and the Vault client, call by call; after a merge `Recorded` and `FetchedTerminal` also widen the network |
| `Sweep`, `ReapRole`, `Revert`, `ReapKv`, `ReapFailed` | `reaper.py` |
| `Restart` | the process dies: memory is gone, Vault and Gitea are not |
| `Tick` | time passes; no handler outlives `Latency` (the HTTP timeouts) |

A call ends in one of three ways: `"ok"`, `"fail"` (refused, no effect) or
`"lost"` (it took effect, its answer did not arrive). The duration of a grant is a
field of its request, and the merged file of a pull request may hold another one than
was filed (`models.py:86`, `gitea.py:460`): a lease, its expiry and the expiry of the
session each take the duration of the request that is being issued.

`JitGrant` says what this is for: a session has a phase, a grant, and a record
that it was spent. A grant comes with a decision of somebody else, once. The
refinement mapping `Contract` takes a session's phase from `state` and `creds`.

### JitLedger - one chain, two backends

`AppendInMemory` is the memory backend, one step. With Postgres a handler locks
the head row (`SELECT ... FOR UPDATE`), inserts, updates the head and commits;
each statement may fail (`Abort`) or time out (`TimeOut`), a commit may take
effect although its client gave up (`SettleOrphan`), and the process may restart.
A hash is modelled as the sequence of payloads it covers: hashes are equal only
where everything before them is.

### ExtProcStream - a stream per call

`pc[c]` is what stream `c` waits for, `call[c]` its locals, `vt[c]` its leg in
the Vault client, `token`/`age`/`mutex` that client, `grant` and `valid` the
world: the consent documents and the session JWTs that verify now.

| action | code |
|---|---|
| `Open`, `Close`, `Headers`, `HeadersRefused`, `Body`, `BodyRefused` | `Server.Process`: the gateway's messages, any of which its processing mode may leave out |
| `GrantFailed`, `GrantRefused`, `GrantAccepted` | the consent grant: read, parsed, validated, bound to the SVID |
| `SandboxPermitted`, `SandboxDenied` | the read-only baseline, or the elevation by a session JWT |
| `Impersonated`, `ImpersonatedPrivileged`, `NotImpersonated` | the exchange on behalf of the user, and the look at the groups of its token |
| `TokenFetched`, `TokenFailed` | the tool's secret, then the default |
| `UserPermitted`, `UserDenied` | the RBAC of a user's own call |
| `Exchanged`, `FallBack`, `Join` | the errgroup: exchange and Vault leg at once |
| `StaticFetched` | the static-token path |
| `Allowed`, `Response`, `ResponseRefused` | the allow entry and the fail-closed gate on the response |
| `LoggedIn`, `LoginBegins`, `LoginAnswered`, `LoginFailed`, `TokenRead`, `Fetched`, `FetchFailed` | the Vault client: cached token, login under the mutex, fetch |
| `WriteGrant`, `MintJwt`, `JwtExpires`, `Tick`, `Revoke` | everybody else: the launcher and the console, the approver, time, Vault |

Failures are nondeterministic: a call that can fail may fail. A grant document
is reduced to whom it names, for which sandbox and scope, whether the checks on
its form accept it, and how long it lives. `consents` and `jwts` in a stream's
record collect what could have been seen since the body came; no guard reads
them, they are what the properties compare the injected credential with.

### AgentLifecycle - agents, their file, and the reaper

| state | code |
|---|---|
| `agents`, `tasks`, `disabled` | `_AGENTS`, `_SESSIONS_BY_AGENT`, `_PERSIST_DISABLED` (`agents/store.py`) |
| `file`, `diskOk` | the JSON file; `diskOk` observes that since the console started no write of it failed and it could be read |
| `making`, `deleting` | the requests in flight: what `create_agent` and `delete_agent` wait for |
| `listed`, `found` | the reaper's list with the states that it read, what it knows of the agent it is at |
| `launcher`, `box`, `grant` | the launcher's request, the sandbox's phase, the ticks that the consent grant still lives |

| action | code |
|---|---|
| `Create`, `Launched`, `NotLaunched`, `Consent`, `Created` | `POST /api/agents`, await by await (`agents/routes.py`) |
| `LauncherCreates`, `LauncherGrants` | the launcher's `POST /launch`, which goes on when the console no longer waits |
| `StartTask`, `Archive`, `Delete`, `Deleted` | the other routes; only the deletion awaits something before it acts |
| `BeginPass`, `Check`, `Skip`, `MarkError`, `MarkReady`, `StillReady`, `Renew` | `agents/reaper.py`: the list, then agent by agent the health check and what follows |
| `Restart` | the console dies and loads the file, or cannot and starts empty |
| `Sandbox`, `Tick` | the sandbox's phases, time |

Every change of memory is followed by `Save` under the same lock, so both are one
step; a write that fails leaves the old file and ends the saving until the next
restart. A deleted or archived agent's sandbox and grant are nobody's job in this
code: the grant just runs out.

### SandboxLaunch - launches on the event loop, boots in threads

`POST /launch` is an `async def` without an `await`: `handler` is the launch that
occupies the loop, `request[s]` how far it is. The boot of the brain runs in the
server's thread pool (`Threads`); `boot[s]` is the wait or the call that it is in,
`left[s]` the ticks until its deadline. Both make gateway calls, each of which needs
the launcher's own token first: `auth[s]`, `tokenLock`, `token`.

| action | code |
|---|---|
| `Launch`, `NotConfigured`, `CreateSandbox`, `NoVault`, `Login`, `WriteGrant`, `Launched` | `launch` (`api.py`), call by call to `create_sandbox` and Vault |
| `GetToken`, `Fetched` | `_launcher_auth_metadata` (`openshell.py`): the lock that is held through a fetch |
| `BootBegins`, `PollPhase`, `NotReady`, `ProbeSvid`, `ProbeLlm` | `_boot_agent_brain`: three bounded waits |
| `NoInference`, `ExecBrain`, `StreamEnds`, `CheckBrain` | `exec_agent_brain`: the command that starts the runner, the stream that is open until the command ends, and the look at the runner |
| `Restart`, `Tick`, `Sandboxes`, `Settle` | the launcher's pod is replaced; time; the gateway |

`LaunchContract` is what the console relies on: a launch that succeeds made the
sandbox and consented, in this order; one that fails may have done either; a brain
is started at most once, in a sandbox whose launch succeeded. `Contract` takes the
stage of a launch from `request`.

### TokenTrust - three verifiers, three caches

`trusted` says who verifies: the launcher (`auth.py`: Backstage, then Keycloak), or
ext-proc for Keycloak or for jit-approver (`jwks.go`). Keys are numbered as they are
generated. `cache`, `age` are what a verifier has. `held` is what a request has in hand:
while it asks for a set, the keys that were cached before (`jwks.go:281`), with which
ext-proc goes on if the fetch fails; then the answer on its way, which may be overtaken
(`flight`). `gone` counts since a key was taken back, for the
properties. `forced` is the one extra fetch ext-proc makes for a key it does not know.

| action | code |
|---|---|
| `Rotate`, `Withdraw` | the issuers (external) |
| `RestartApprover` | `signing.py`: the mounted PEM, or another ephemeral key under the same `kid` |
| `Present`, `Look`, `IssuerAnswers`, `Install`, `FetchFails` | a request with a token; the cached set, or a fetch, and what is cached when it ends |
| `Identify` | `verify_authorization`, `verify_human_identity`: the claims |
| `Judge`, `NextIssuer` | the decision with the keys at hand; the launcher tries the next issuer |

### ConsoleTasks - a pump, an entry, and pages

`thread[t]` is the daemon thread that pumps an exec connection (`link`, `taken`,
`buffer`) into a task's entry (`known`, `lines`, `done`). `sse[p]` is a page's
generator with its locals `idx`, `upto`, `seen`; `shown[p]` the transcript on the
page. Lines are numbered, so that order and loss can be told.

| action | code |
|---|---|
| `Launch`, `Connect` | `POST /api/sessions` and the agents' sessions; the pod, and `kubernetes.stream` |
| `Loop`, `Peek`, `ReadLine`, `Raise` | the pump: `is_open`, `update`, `peek`, `readline` on either channel; each look may take in a frame |
| `Report`, `MarkDone` | the exception's line; `finally: _mark_done` |
| `Subscribe`, `Poll`, `Send`, `Drained` | the event stream: the lock is released between its steps |
| `Cut`, `Restart` | a connection that a page loses (`OnError`: only `ui/routes.py` connects again); the console's pod |
| `Write`, `Exit` | the agent (external) |

### AgentBrain - one run

`place` is where the runner is, `stream` where the SDK is; `svid`, `session`,
`attempts` what an attempt is started with; `turns`, `met` what it went through;
`rotated`, `retries` the two budgets; `told`, `exit` the verdict. The SVID comes
from the sidecar's `file` or from the Workload API, which without
`SVID_FETCH_SUBPROCESS` is `poisoned` by its first failure.

| action | code |
|---|---|
| `Start`, `Attempt`, `GiveUp` | `run_agent`; `fetch_svid` and its window (`svid_bearer.py`) |
| `Query`, `AskModel`, `CallTool`, `Result`, `End` | `_build_options` and the SDK's stream; `maas_brain_proxy.py` fetches an SVID for each request to the model |
| `Ended`, `Exception`, `Backoff` | what `run_agent` does with the stream's end: two kinds of retry, or the end |
| `WriteFile`, `Register`, `Settle`, `Tick` | the sidecar, SPIRE and the gateway's policy (external); time |

What the SDK makes of an answer is not in the repository: its stream may end, or raise
an error of any text, at any point, also before the first tool call and after a result.

### Elevation - from a 403 to the same call under an approval

Three programs, each of which acts on what another told it a moment ago: `mcp-call`
in the sandbox (`place`, `todo`, `lasting`, `sid`, `token`, `polls`, `late`), an
operator's approval (`who`, `about`, `grant`: a click in the console, with `console`, or
a merge in Gitea, whose file may hold another grant than the one that was filed), and
jit-approver (`state`, `jwt`, `ttl`, `mint`, `by`). A tick is an interval of `mcp-call`'s
wait; every call of every program may take any number of them. `late` counts them from
where `mcp-call` reads the clock, up to `Margin`; no guard of `mcp-call`'s reads it.

| action | code |
|---|---|
| `FirstCall`, `List`, `Look`, `ListPending`, `Match`, `Create`, `Poll`, `Retry` | `bin/mcp-call`, request by request |
| `Approve`, `Reply` | the console's `approve`: the detail, the mint with its time-out, the audit |
| `CallerRefused`, `Mint` | `POST /requests/{id}/mint`, up to the claim (`JitApprover` has the inside) |
| `MergeRequest`, `Merged`, `Close` | a merge in Gitea, and the webhook: the merged grant is decided on; a closed request is denied |
| `Issue`, `IssueFails`, `Expire`, `Tick` | the issuance for whichever approval has the claim; the reaper; time |

### WebShell - a page, a socket, a terminal

The bridges of all pages run on the console's one event loop; between two awaits
nothing else does. `rest[s]` is what `_robust_write` has yet to write: while it is
not empty no other bridge moves (`LoopTurns`). Descriptors are a finite set and are
used again once closed: `fd`, `owner`, `reader`. Keys and chunks of output are
numbered; a frame of the socket carries keys, a size, or the page's leave (`Frame`).

| action | code |
|---|---|
| `Opened`, `Type`, `Resize`, `Show`, `Leave` | the page's script in `webshell/routes.py` |
| `Accept`, `Refuse`, `Hangup` | the web socket's endpoint |
| `OpenPty`, `SpawnFails`, `Spawned` | `open_bridge` up to its two pumps |
| `Readable`, `PumpOutput`, `PumpInput`, `WriteOn` | `_on_master_readable`, the pumps, the write that waits |
| `Teardown`, `Close` | the `finally` of `open_bridge`, before and after `proc.wait` |
| `Take`, `Say`, `Exit` | `oc` and the program (external) |

## 4. The runs

| run | question | instance |
|---|---|---|
| `JitOnce` | Is a request granted at most once, as approved, along its lifecycle, and cleaned up - whatever races? Is every step one of `JitGrant`? | 1 session, 2 handlers, 3 deliveries, 2 users, 2 scopes, durations of 2 and 3 ticks, Vault ok/fail/lost, 1 restart |
| `JitReaped` | Does a delivered grant expire in the end? | 2 sessions that widen the network, 1 handler, 1 delivery, Vault ok/fail, gateway ok/fail/lost, fairness |
| `JitLedger` | One chain, nothing counted lost, order kept, the head released? | 3 handlers with 2 events each, both backends, failures, lost commits, restarts |
| `ExtProc` | No credential without consent or groups, fail closed, a truthful audit? | 1 stream that serves call after call of the kinds in `SomeRequests`, among them users in the restricted group and dangerous tools; grants are rewritten, deleted and expire; JWTs come and go |
| `ExtProcPair` | Is every request decided, whoever else waits for the Vault client? | 2 streams over one client, failing logins, expiring and revoked tokens, fairness |
| `Agents` | What does a restart bring back, who moves an agent where, does its consent end or get renewed, does the reaper notice its sandbox? | 1 agent, grants of 2 ticks, 2 restarts, every failure of disk, launcher and Vault, fairness |
| `SandboxLaunch` | Does the launcher keep its contract, does every boot get to its command, is the event loop freed, whoever holds the token's lock? | 2 sandboxes, 1 thread, waits of 1, 0 and 1 ticks, every configuration, lost answers, restarts, fairness |
| `TokenTrust` | For how long is a withdrawn key trusted, is a live token denied only for cause, do caches follow? | 2 requests, 2 keys, TTL 1, fetches of up to 1 tick, each verifier, fairness |
| `ConsoleTasks` | Is output stored and shown in order and once, does `done` come last, do streams end? | 1 task of 2 chunks on 2 channels, 1 page of each kind, 1 lost connection each, a restart, fairness |
| `AgentBrain` | Has every retry its cause and its session, does the exit code match the transcript, is no SVID of the wrong shape used, is a run over in the end? | budgets 1 and 2, 2 turns, a window of 2 ticks, SVIDs of 2 ticks, fairness |
| `Elevation` | Is a call let through only by an approval of somebody else, is a token that is used again refused only after more than the margin, does a denied click decide nothing? | 2 calls in three constellations of sandbox and tool, 1 click and 1 merge of 2 operators, 2 other grants to merge, tokens of 3 and 4 ticks, a margin of 2 |
| `WebShell` | Are keys and last words kept, is nothing left or mixed up, has the terminal the window's size, does a bridge end? | 2 shells, 2 descriptors, buffers of 1, 2 keys and 1 chunk in one shell, a resize in the other, fairness |

**Why the bounds are enough.** Sessions of the approver meet only in the sweep
and in the handlers' slots, so one session with several handlers shows every
race for it, and two sessions show one sweep that fails for one of them. Two
handlers and three deliveries suffice for a console against a merge against its
redelivery, one restart for what a restart forgets. Durations of 2 and 3 ticks and
`Latency` 1 let a credential be alive, about to expire, and expired while a handler is
still in flight, and let a merged grant last shorter or longer than the one filed;
larger durations only repeat ticks. The chain of the ledger is
disturbed by two handlers at a time; the third waits for the lock. Streams of
the processor share nothing but the Vault client, so the safety of what a stream
injects is checked with one stream and the client's mutex with two; the theorems
hold for every number. `TokenLife` and `MaxLife` 1 distinguish valid from
expired, which is all the code does. The symmetry of `JitOnce` permutes handlers
and deliveries, no liveness property is checked under symmetry. Agents share only
the disk, which fails for all at once, and the reaper's turn: one agent shows
every race between the requests, the reaper, the launcher and the file, and since
the reaper may do nothing between two requests, also what it does while it is at
another agent. Two restarts are one that loses what the disk lost and one after
it; a grant of two ticks may be renewed before it ends.

Launches meet in the event loop, the pool and the token's lock: two sandboxes and
one thread make one wait for the other in each of them. A wait of 0 ticks is polled
once, one of 1 tick is polled before and after its deadline; more ticks are more
polls. Of the keys, two requests give one fetch that overtakes another, and a second
key gives a rotation with the old key still published, then withdrawn; a TTL of one
tick and a fetch of one make a set fresh, stale, and stale on arrival. A task's
lines meet in the generator's look, send and drain: two chunks let one arrive at
each of these moments, on the same channel or another; tasks share nothing but the
lock. In `AgentBrain` two turns are a tool call and an answer, and two gateway
retries one that is followed by another; `Window`, `MaxAge` and `Life` let an SVID
arrive before and after the window, be fresh and stale, and expire between the
options and the call. In `Elevation` two calls, a click and a merge show every pair of
steps of a call against an approval of either kind, a call against a call and a click
against a merge (two clicks for one request meet in `JitOnce`; two clicks and a merge
are more states than a run can visit);
the three constellations are the same need twice, two tools whose scopes overlap in
one sandbox, and two sandboxes; `Margin` 2 and tokens of 3 and 4 ticks let a token be
listed with more than the margin left, with exactly the margin, and with less, and be
presented in time or after any delay. The merged file may be the one that was filed,
one that names another requester and lasts longer, or another sandbox's grant. The buffers of `WebShell`
hold one element, so each of them is full when the next comes; two keys are one in the
terminal and one for which a write waits (a third one, which may come after `oc` is gone
and the second was dropped, is a matter of the proof); two shells with two descriptors
show one whose number is used again while the other lives.

`CHECK_DEADLOCK FALSE` is set where the system may stop: all launches are answered
and booted, a run is over, calls and clicks are used up, pages are closed.

**Fairness.**
- `JitApprover!FairSpec`: the event loop runs what is ready (`WF` on a handler's
  steps and on the sweep, which a timer starts for ever); time passes (`SF(Tick)`); a reaper's calls that are retried at every sweep are answered
  in the end (`SF(ReapRole)`, `SF(ReapKv)`): with a Vault that never answers
  nothing could be removed. `DeliverySpec` adds that Gitea delivers for ever.
- `JitLedger!FairSpec`: a handler's open transaction goes on or times out
  (`command_timeout`), and the server ends a transaction whose client is gone.
- `ExtProcStream!FairSpec`: each call ends within its HTTP timeout
  (`WF(Process)`), and Go's mutex, which hands itself to a waiter after 1 ms of
  starvation, is not withheld for ever (`SF(Vault(c))`). Messages of the gateway
  are not assumed to arrive.
- `AgentLifecycle!FairSpec`: the reaper's thread runs for ever (`WF(BeginPass)`,
  `WF(Reap)`; its loop catches every exception), time passes (`WF(Tick)`), and
  its health checks and its renewals are answered now and then (`SF`): with a
  launcher or a Vault that never answers it could do nothing. Requests, the
  launcher's launches and the sandboxes' phases are not assumed to go on.
- `SandboxLaunch!FairSpec`: time passes, the pool's threads run, and each call to the
  gateway, Vault and the token endpoint ends in some way, because it has a time-out
  (`WF(Answering)`, `WF(Bounded)`), or because the gateway was told to end what it
  executes (the probes, the look at the runner). The stream of the brain's own command
  has neither: `BRAIN_EXEC_TIMEOUT_S` is 0 (`api.py:574`, `openshell.py:919`), so
  `StreamEnds` is not fair, and `BootEnds` promises only that a boot gets there. The
  token's lock is not withheld for ever from a thread that waits for it (`SF(Token)`).
  Sandboxes are not assumed to get ready, nor policies to settle.
- `TokenTrust!FairSpec`: time passes, verifications go on, tokens under an issuer's
  newest key keep coming and some fetch for one is answered (`SF`): `CacheFollows` is
  about caches that somebody uses and issuers that somebody reaches. Rotations and
  restarts are not assumed to happen; `MaxKeys` ends them.
- `ConsoleTasks!FairTasks`: pump and generators run, since each wait of theirs has a
  time-out. The agent is not assumed to write or to end.
- `WebShell!FairShells`: the event loop runs what is ready, the browser shows what
  arrives, and a living `oc` reads what is typed - the last is an assumption the code
  makes without being able to enforce it.
- `AgentBrain!FairSpec`: the runner and its clock go on (`WF(Fetch)`, `WF(Runner)`,
  `WF(Tick)`). The SDK is not assumed to: its stream may hang, and `RunEnds` says so.
- `Elevation` is checked for safety only: what a call waits for, an operator, need not
  come, and how long it waits is bounded by `polls`.

## 5. The proofs

All theorems hold for every value of the constants that satisfies the named
assumptions: the requests that occur are requests, handlers finish before a
grant ends (`Latency < d` for every duration `d`: seconds of timeouts against at least
ten minutes of grant), outcomes are outcomes, `None` is none of the values, a grant lasts
longer than the 30 seconds of `mcp-call`'s margin (`Duration > Margin`, at least ten
minutes).

*JitApprover* (`JitApproverProofs`). The properties say little about the middle
of an issuance, so none is inductive. `Inv` adds what holds there: a slot has at
most one job and no two slots issue for the same session (`SlotsInv`), a handler
at a place holds what the code before it established (`HandlersInv`), a session
that is `issued` has credentials or an owner (`SessionInv`, `IssuanceInv`), what
the approvals record covers what a claiming handler carries (`DecisionInv`), and
the reaper works only on what it found due (`ReaperInv`), and no session expires before
the lease that was issued last for it (`TeardownInv`). Of the leases of earlier attempts,
whose answers were lost, nothing of the kind holds, since each is for as long as its own
request asked: section 6, `ExpiredHoldsNothing`.
`OnceOnly`, `IssuedAsApproved`, `NeverStranded`, `ExpiredIsClean` and the action
property `Lifecycle` follow. `ImplementsGrantCorrect` uses `Inv` to show that every
step maps to a step of `JitGrant` or a stutter.

*JitLedger* (`JitLedgerProofs`). `Inv`: the log is a chain that ends in the head
(`Chained`), whoever holds the lock read that head and an entry on its way
continues it (`LockInv`, `CallsInv`), an unused sequence value is above the head
(`SeqInv`). `RecordedOnce` and `OrderKept` need to know, besides, that an
orphaned commit holds the lock: it is settled before its handler appends again.

*ExtProcStream* (`ExtProcStreamProofs`). `Inv` is one predicate per stream:
what a stream has established at each place (`PlaceInv`), how it can have ended
(`OutcomeInv`: a credential only after the body, a denied stream is over), and
that what it has read is among what the world showed since the body
(`ConsentInv`), which is what justifies the later injection although the world
has moved on. The definition `Elsewhere` makes the proof small: a step of one stream
leaves every other stream's predicate alone; a step of the world only adds to
what could be seen. `InjectedForUser` and `AuditTruthful` follow from a second
predicate per stream, `Told`, which `Inv` supports: `Owned` (what a user's groups and
session JWT allowed before both legs began is what is injected when both are over),
`Lent` (a sandbox's credential is of the grant's user, a write token exactly where the
write secret was asked for) and `Recorded` (the allow entry agrees with both, although
it is written in a later message's handler).

*AgentLifecycle* (`ConsoleAgentsProofs`, first half). `Inv` adds to `Durable` that the file,
too, records tasks only under agents and that saving is off only after a failure
(`FileInv`, what a restart relies on), that an agent under creation is in neither
memory nor file (`MakingInv`: it cannot overwrite one), and that the reaper is
only at agents of its list, none of them in `ERROR` (`ListInv`, without which
`MarkReady` could take an agent from there back to `READY`). One lemma, `SaveOk`,
says what any saved change does to the file; the actions cite it. `TypeOK`,
`Durable` and the action property `Lifecycle` follow.

*SandboxLaunch* (`SandboxLaunchProofs`). `Inv`: the loop is occupied by the one
launch that is under way (`HandlerInv`), a launch at a place has its sandbox
(`StageInv`), a boot follows a launch that succeeded and the brain is started in its
last call but one, when its stream opens (`BootInv`), and the lock is held only by who waits for a token
(`LockOwned`). `KeepsContractCorrect` maps each step: a `CreateSandbox` that fails
although it took effect is one failure of the contract, a restart fails the launch
under way, and tokens, polls and time are stutters.

*TokenTrust* (`TokenTrustProofs`). `TrustExpires` is an action property about a set
that may arrive after newer ones. `AgesInv` is what makes it true: a key in a cached
set is still published, or was taken out no longer ago than the set has been cached
plus one fetch. `DeniedForCause` needs that the launcher verifies one token at a time
and comes to its second issuer only without the first one's key for the token
(`LauncherInv`), and that with a mounted key only this key is ever cached, or held
(`StableInv`). It does not say that a denied token's key is in no cache: while one
request of ext-proc's waits for a fetch that fails, another one may have cached the key,
and the first is denied with the keys from before (`jwks.go:281`).

*Elevation* (`ElevationProofs`). `SessionsInv`, `ClicksInv` and `IssuingInv` tie each
session to the one approval it was claimed for, a click or a merge, whose operator is
not the requester of the grant that it approved; `TokensInv` says what a call has been
let through with. From them follow `ElevatedAsApproved`, `DenyIsFinal` and `ClaimHeld`.
`ReuseAccepted` needs `ReuseInv`: a token that lasted for more than the margin when the
clock was read has, with the ticks since added, still more than the margin, as long as
these are fewer than it. No delay is assumed away: what is claimed is that a token that
was found to last is refused only after the margin is used up.

*AgentBrain* (`AgentRunProofs`, first half). `BrainInv` adds to `Inv` the bookkeeping
of the retries. `BudgetInv`: every attempt but the first was paid for by one of the two
budgets, and the session ids that the SDK has seen are those of earlier attempts, so that
the next one is fresh. `AttemptInv`: a signal that `run_agent` reads at the stream's end, and
an error that names the policy, were met in this attempt, not left by an earlier one.
`ToldInv`: `success` is what the transcript told last, also after a retry that ended
without a result. The exit code and the cause of each retry follow.

*ConsoleTasks* (`AgentRunProofs`, second half). `ConsoleInv` accounts for every line that
was taken from the connection: it is stored, or waits in the buffer of its channel, and
what waits is later than what is stored of that channel (`Pipe`). `PumpInv` says at each
place of the pump what it has yet to read, which is what makes "done" mean "all". A
page's transcript ends with the first `idx` lines of its task (`PageInv`), and a task
page's is exactly them (`TaskPageInv`); `seen`, a `done` that the generator read under
the lock together with the length, stays true because nothing is stored after `done`.

*WebShell* (`ConsoleAgentsProofs`, second half). `BridgeInv` follows the bridge from
`open_bridge` to its `finally`. `FdInv`: a descriptor belongs to the one bridge that
holds it and is watched only while that one pumps - so that a number that is used again
is never watched, or written to, for another. `PlaceInv`, `PageInv`: what there is at
each place, and what page and bridge know of each other. `SizeInv`: the last size on its
way is the window's, and so is the terminal's if there is none on its way. `KeysInv`:
taken, in the terminal, waiting in `_robust_write`, on the socket and queued in the page
are one sequence 1, 2, 3, ... that ends in what was typed, as long as `oc` stands
(`Bring` says it of frames, by the counts before and after each). `WordsInv`: the same
for the output, down to the screen, with the noted end (`Eof`) after the last chunk; it
needs no `oc`, and so `LastWords` holds when the pumps end in either order. The
attempt to prove an earlier, stronger `KeysInOrder` showed that it was not true: once
`oc` is gone, what a write still held may be dropped, and a key that comes later may yet
be put in the terminal, out of order. It takes a third key to see this, one more than
the run has. Nobody reads
that terminal; the property now speaks of what waits there only while `oc` stands,
and asks in return that until then every key that was typed be on its way.

The two pairs of components share a proof module each, and no variable: a theorem about
one holds whatever the other does.

**Only model-checked**: the liveness properties (`EventuallyReaped`, `HeadReleased`,
`Decided`, `Forgotten`, `Tended`, `BootEnds`, `LoopFreed`, `CacheFollows`,
`StreamsEnd`, `RunEnds`, `ClosesUnlessStuck`) and everything about `ENABLED`, which are out of the
proof system's reach. Every invariant and every action property that a run checks is
proved. Induction over data and `RECURSIVE` operators are out of the proof system's reach
too; the models use neither where something is proved.

## 6. Where the code and its documentation part

Each of these is stated as a property beside the model but listed in no run; TLC
refutes it when it is added to the configuration named, as an invariant or a property.

| configuration | property | what happens |
|---|---|---|
| `JitOnce.cfg` | `ClosedIsDenied` | A close that arrives while the credentials are being issued is dropped; if Vault then fails the session is claimable again (`webhook.py:174`, `gitea.py:210` promise a denial). |
| `JitOnce.cfg` | `UnreapedHoldNothing` | A failed issuance leaves a role and a lease with an `approved` session the reaper skips (`reaper.py:48`). |
| `JitOnce.cfg` | `ExpiredHoldsNothing` | The reaper removes role and record and leaves the lease (`gitea.py:200` promises its deletion); an attempt whose answer was lost may have been for 60 minutes, and the grant that was merged after it for 10: then a lease lives on for 50 minutes after its session expired (`vault.py:175`, `gitea.py:460`). |
| `JitOnce.cfg` | `WidenedOnlyIfGranted` | A merge still being read when the session is denied widens the network all the same (`models.py:99`). |
| `JitReaped.cfg`, with `DeliverySpec` | `MergeApproves` | A merge whose first delivery failed, or came before the session was stored, is never looked at again (`gitea.py:210`). |
| `ExtProc.cfg` | `PrivilegedPinned` | A call elevated by a session JWT is not pinned to read-only tools, also where the exchange failed and the user's groups were never seen (`server.go:738`). |
| `Agents.cfg` | `FailedNoticed` | The reaper looks for the phases `FAILED` and `DELETED`, the launcher says `ERROR` and `DELETING`: an agent whose sandbox failed stays active (`reaper.py:5` promises `ERROR`). |
| `AgentBrain.cfg` | `RetryBeforeWork` | A 401 at a later turn, or after the result, starts the run over, tool calls and a goal that was reached included (`agent_runner.py:462` speaks of the first call only). |
| `AgentBrain.cfg` | `LastVerdict` | A retry that ends without a result leaves `success` as the attempt before it had set it: exit code 0 (`agent_runner.py:468` says `False` where no `ResultMessage` was received). |
| `Elevation.cfg` | `NoDuplicate` | Two calls that look before either has filed both file; and a request that has a human's name is never matched (`mcp-call:216-218`). |
| `Elevation.cfg` | `RetryAccepted` | A token is presented in vain: the clock is read once, and after it come a status per session, of up to 10 seconds each, and three requests of up to 30 (`mcp-call:200`, 161); a token that came by waiting is not looked at for its tools or its time (`mcp-call:282` promises the retry), and a merged grant may be for other tools. |
| `Elevation.cfg` | `AllowMeansIssued` | A click on a session that was denied or expired meanwhile is answered with 200 and audited as allowed (`api.py:603` speaks of a 409). |
| `WebShell.cfg` | `Closes` | A write that waits for room in the terminal of a program that is gone waits for ever, and with it the event loop (`bridge.py:20` promises a clean close). |

Seen while reading, without a property:

- An agent that is archived while the reaper checks its sandbox comes back as `READY`
  or `ERROR`. `Lifecycle` names this one way out of `ARCHIVED` and shows that there is
  no other. One that came back is active, and its consent is renewed from then on at
  every pass: `Forgotten` is about agents that neither memory nor file knows, and says
  nothing of this one.
- Separation of duties at a merge compares who merged with the `requester_sub` of the
  merged file, which its editor may have changed (`webhook.py:260`; `gitea.py:203` lets
  a reviewer narrow it). `IssuedAsApproved` and `ElevatedAsApproved` compare with that
  grant, too.
- The stream of the brain's command keeps a thread of the launcher's pool for as long as
  the command runs, if `SANDBOX_BRAIN_COMMAND` does not detach it.
- Where the brain uses its SVID, the probe of the model endpoint asks the launcher's
  URL with a key that is not there, so a boot waits its whole `LlmTime`
  (`openshell.py:795`); and the boot command's `cd /app` is in force only in the
  background subshell (`openshell.py:580` says more).
- A launch without a sandbox id and with Vault writes no grant and answers 202
  (`api.py:277`).
- A JSON line that two frames divide becomes two lines of a task (`app.py:430`; the
  docstring at 1618 promises whole ones). An agent page that reconnects shows the
  transcript once more (`ui/routes.py:394`).
- A session of an agent that is `PROVISIONING` and has no sandbox yet runs in the shared
  harness (`agents/routes.py:404`), and the docstring there names an endpoint that does
  not exist.
- A tool that `_WRITE_TOOL_RESOURCES` does not know is filed under `networkpolicies`,
  whose scope never covers it: its approval is in vain.
- `output_queue` is unbounded, and the end of the terminal is noted at every turn until
  somebody stops watching it (`bridge.py:172`); the page takes a text frame for bytes
  (`webshell/routes.py:135`); a resize with `null` columns raises (`bridge.py:99`); an
  agent's state is looked at only when the socket opens.
- A widening whose answer is lost, or a revert that fails, leaves its rule
  (`openshell.py:180`, `reaper.py:129`); a restart of the approver leaves role and rule
  of what it forgot (`store.py:16`).
- A file of agents that cannot be parsed is an empty one (`agents/store.py:140`).
- The allow entry is written when the response comes: a stream that breaks before has
  injected a credential and has no entry (`server.go:495`).

## 7. What is not modelled

Inside the modelled components: read-only replies and the session summary of the
approver; the session, dedupe and compare-and-set operations of its Postgres store,
which no handler calls yet; `_authenticate_mint_caller` in its synchronous form, which
is dead code; `JIT_ALLOW_SELF_APPROVAL` in `Elevation` (it is a constant of
`JitApprover`); the console's own legacy merge in Gitea (`app.py:1452`), where the merger
is the console's bot and not one of the operators; the plan and approval of a task without an agent, the
login and the list pages; agents without a sandbox and their Gitea repositories; the
policy documents' contents; the rotation of SPIRE's own bundle in ext-proc; the claims
of tokens beyond what a decision needs; skills and prompts, and the proxy's translation
of bodies.

Left aside for good: rendering, logging and formatting, the Backstage views,
deployment manifests, charts and one-off scripts, `sandbox-agent` and
`svid-vault-fetch` (they fetch an identity and exec), demo tools without state, and
generated code such as the `openshell_pb2` modules. `ida-cli` and the pure algorithms
are in the plan. Vault, Gitea, Keycloak, Backstage, SPIRE, Postgres, the OpenShell
gateway, the agent SDK and the Kubernetes client are modelled only as the code uses
them.
