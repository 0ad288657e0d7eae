----------------------------- MODULE JitApprover -----------------------------
(***************************************************************************)
(* The just-in-time approver: a FastAPI service that turns a human decision *)
(* about an escalation request into one short-lived Vault credential.       *)
(*                                                                         *)
(*   POST /requests              opens a Gitea pull request, then stores    *)
(*                               the session                                *)
(*   POST /requests/{id}/mint    the approval console's decision            *)
(*   POST /webhooks/gitea        the pull request was merged or closed      *)
(*   reaper                      tears an expired grant down                *)
(*                                                                         *)
(* The service is one asyncio loop over a process-local store, so what runs *)
(* between two awaits is one step here, and every await is a place where    *)
(* another handler, the reaper, Gitea or a restart may come in between.     *)
(* A handler is a slot that runs one request at a time; pc[h] names the     *)
(* call the handler is waiting for.  Time is discrete and kept as           *)
(* countdowns: a timer at 0 has run out.                                    *)
(***************************************************************************)
EXTENDS Naturals

CONSTANTS
  Session,           \* session ids (uuid4): one per request ever made
  Handler,           \* request handlers that may be in flight together
  Delivery,          \* X-Gitea-Delivery ids
  User,              \* requesters, console operators and Gitea users
  Scope,             \* what a grant covers: namespace, verbs, resources
  Requests,          \* the grant files and request bodies that occur
  Durations,         \* the ticks a grant may ask for
  Latency,           \* bound on the ticks a handler is in flight
  AllowSelfApproval, \* JIT_ALLOW_SELF_APPROVAL
  VaultOutcomes,     \* how calls to Vault can end
  GatewayOutcomes,   \* how calls to the OpenShell gateway can end
  MaxRestarts,       \* bound on the restarts of the process
  None

\* A call is answered ("ok"), refused with no effect ("fail"), or takes effect
\* while its answer is lost to a timeout ("lost").
Outcomes == {"ok", "fail", "lost"}

\* An escalation request: who asks, for what, for how long, and whether it carries
\* a sandbox and a policy_delta (the network widening).
Request == [requester : User, scope : Scope, widens : BOOLEAN, duration : Durations]

ASSUME RequestsAssumption == Requests \subseteq Request
ASSUME TimeAssumption == /\ Latency \in Nat
                         /\ Durations \subseteq Nat
                         /\ \A d \in Durations : Latency < d
ASSUME ModeAssumption == /\ AllowSelfApproval \in BOOLEAN
                         /\ VaultOutcomes \subseteq Outcomes
                         /\ GatewayOutcomes \subseteq Outcomes
                         /\ MaxRestarts \in Nat

VARIABLES
  \* The session store and the delivery log: process memory.
  state,    \* session["state"], "none" when the store has no such session
  request,  \* session["request"], the body that was submitted
  creds,    \* session["sa_token"], ["session_jwt"] and ["approver_sub"]
  ttl,      \* ticks until session["expires_at"]
  sandbox,  \* session["openshell_sandbox"] is set
  seen,     \* seen_deliveries
  \* The handlers in flight.
  pc, job,
  left,     \* ticks until the expires_at an issuance has computed
  budget,   \* ticks the handler may still take
  \* The reaper: the rest of its sweep, and the session it is at.
  due, reaping,
  \* Vault and the OpenShell gateway.
  role, kv, rule,
  lease,    \* ticks the credentials issued last still live
  stray,    \* the same of any issued before them, whose answers came to nothing
  \* Gitea.
  pr, sent,
  \* What happened, for the properties.
  mints,    \* how often credentials were handed to a session
  approvals,\* what people approved
  refused,  \* the pull request was closed before any credential existed
  restarts

store    == <<state, request, creds, ttl, sandbox>>
handlers == <<pc, job, left, budget>>
reaper   == <<due, reaping>>
vault    == <<role, lease, stray, kv>>
gitea    == <<pr, sent>>
ghosts   == <<mints, approvals, refused>>
vars     == <<store, seen, handlers, reaper, vault, rule, gitea, ghosts,
              restarts>>

-----------------------------------------------------------------------------
States   == {"none", "pending", "approved", "issued", "expired", "denied"}
Terminal == {"issued", "expired", "denied"}

\* The awaits of a handler: creating the pull request, the reply to that,
\* reading the merged grant, the four Vault calls, and the ledger.
Awaits    == {"pr", "label", "fetch", "login", "role", "creds", "kv", "record"}
Issuing   == {"login", "role", "creds", "kv"}

Cred     == [approver : User, req : Requests]
Job      == [via : {"create", "mint", "webhook"}, session : Session,
             approver : User, req : Requests \union {None}]
\* The grant file at a merge commit, as parse_grant_yaml rebuilds the request from
\* it: None if it is no grant or exceeds the ceiling.
Reviewed == Requests \union {None}
\* A webhook delivery.  valid: base branch, repository and label are right.
Message  == [kind : {"merged", "closed"}, session : Session, by : User,
             req : Reviewed, valid : BOOLEAN]
Approval == [session : Session, approver : User, scope : Scope,
             widens : BOOLEAN, duration : Durations]

\* User u approves the scope, the widening and the duration of r for session s.
ApprovalOf(s, u, r) == [session |-> s, approver |-> u, scope |-> r.scope,
                        widens |-> r.widens, duration |-> r.duration]

ASSUME NoneAssumption ==
  None \notin Session \union Requests \union Cred \union Job \union Message

TypeOK ==
  /\ state \in [Session -> States]
  /\ request \in [Session -> Requests \union {None}]
  /\ creds \in [Session -> Cred \union {None}]
  /\ ttl \in [Session -> Nat]
  /\ sandbox \in [Session -> BOOLEAN]
  /\ seen \subseteq Delivery
  /\ pc \in [Handler -> Awaits \union {"idle"}]
  /\ job \in [Handler -> Job \union {None}]
  /\ left \in [Handler -> Nat]
  /\ budget \in [Handler -> 0 .. Latency]
  /\ due \subseteq Session
  /\ reaping \in Session \union {None}
  /\ role \in [Session -> BOOLEAN]
  /\ lease \in [Session -> Nat] /\ stray \in [Session -> Nat]
  /\ kv \in [Session -> BOOLEAN]
  /\ rule \in [Session -> BOOLEAN]
  /\ pr \in [Session -> {"none", "open", "closed", "merged"}]
  /\ sent \in [Delivery -> Message \union {None}]
  /\ mints \in [Session -> Nat]
  /\ approvals \subseteq Approval
  /\ refused \in [Session -> BOOLEAN]
  /\ restarts \in 0 .. MaxRestarts

Init ==
  /\ state = [s \in Session |-> "none"]
  /\ request = [s \in Session |-> None]
  /\ creds = [s \in Session |-> None]
  /\ ttl = [s \in Session |-> 0]
  /\ sandbox = [s \in Session |-> FALSE]
  /\ seen = {}
  /\ pc = [h \in Handler |-> "idle"]
  /\ job = [h \in Handler |-> None]
  /\ left = [h \in Handler |-> 0]
  /\ budget = [h \in Handler |-> 0]
  /\ due = {}
  /\ reaping = None
  /\ role = [s \in Session |-> FALSE]
  /\ lease = [s \in Session |-> 0]
  /\ stray = [s \in Session |-> 0]
  /\ kv = [s \in Session |-> FALSE]
  /\ rule = [s \in Session |-> FALSE]
  /\ pr = [s \in Session |-> "none"]
  /\ sent = [d \in Delivery |-> None]
  /\ mints = [s \in Session |-> 0]
  /\ approvals = {}
  /\ refused = [s \in Session |-> FALSE]
  /\ restarts = 0

-----------------------------------------------------------------------------
(* Handlers: start on a request, wait for the next call, answer. *)

Start(h, await, j) ==
  /\ pc[h] = "idle"
  /\ pc' = [pc EXCEPT ![h] = await]
  /\ job' = [job EXCEPT ![h] = j]
  /\ budget' = [budget EXCEPT ![h] = Latency]
  /\ UNCHANGED left

Goto(h, await) ==
  /\ pc' = [pc EXCEPT ![h] = await]
  /\ UNCHANGED <<job, budget>>

Done(h) ==
  /\ pc' = [pc EXCEPT ![h] = "idle"]
  /\ job' = [job EXCEPT ![h] = None]
  /\ left' = [left EXCEPT ![h] = 0]
  /\ budget' = [budget EXCEPT ![h] = 0]

SetState(s, st) == state' = [state EXCEPT ![s] = st]

-----------------------------------------------------------------------------
(* POST /requests *)

\* The request is audited and the Gitea calls begin; there is no session yet.
CreateRequest(h, s, r) ==
  /\ pr[s] = "none"
  /\ \A g \in Handler : pc[g] # "idle" => job[g].session # s
  /\ Start(h, "pr", [via |-> "create", session |-> s,
                     approver |-> r.requester, req |-> r])
  /\ UNCHANGED <<store, seen, reaper, vault, rule, gitea, ghosts, restarts>>

\* Gitea has opened the pull request: people can act on it from here on.
PrOpened(h) ==
  /\ pc[h] = "pr"
  /\ pr' = [pr EXCEPT ![job[h].session] = "open"]
  /\ Goto(h, "label")
  /\ UNCHANGED <<store, seen, left, reaper, vault, rule, sent, ghosts,
                 restarts>>

\* A Gitea call failed, or its answer was lost: 502 and no session, whether or
\* not the pull request exists.
CreateFailed(h) ==
  /\ pc[h] \in {"pr", "label"}
  /\ Done(h)
  /\ UNCHANGED <<store, seen, reaper, vault, rule, gitea, ghosts, restarts>>

\* create_approval_pr returned: the session is stored as pending.
StoreSession(h) ==
  LET s == job[h].session IN
  /\ pc[h] = "label"
  /\ SetState(s, "pending")
  /\ request' = [request EXCEPT ![s] = job[h].req]
  /\ Done(h)
  /\ UNCHANGED <<creds, ttl, sandbox, seen, reaper, vault, rule, gitea,
                 ghosts, restarts>>

-----------------------------------------------------------------------------
(* Gitea: people merge, close and reopen pull requests, and each merge and   *)
(* close is delivered to the webhook - late, out of order, again, or never.  *)

\* The reviewer may have edited the grant file, or broken it; the label may
\* never have been applied.
MergePr(d, s, u, content, valid) ==
  /\ pr[s] = "open"
  /\ sent[d] = None
  /\ pr' = [pr EXCEPT ![s] = "merged"]
  /\ sent' = [sent EXCEPT ![d] =
       [kind |-> "merged", session |-> s, by |-> u, req |-> content,
        valid |-> valid]]
  /\ approvals' = approvals \union
                   {ApprovalOf(s, u, r) : r \in {content} \ {None}}
  /\ UNCHANGED <<store, seen, handlers, reaper, vault, rule, mints,
                 refused, restarts>>

ClosePr(d, s, u) ==
  /\ pr[s] = "open"
  /\ sent[d] = None
  /\ pr' = [pr EXCEPT ![s] = "closed"]
  /\ sent' = [sent EXCEPT ![d] =
       [kind |-> "closed", session |-> s, by |-> u, req |-> None,
        valid |-> TRUE]]
  /\ UNCHANGED <<store, seen, handlers, reaper, vault, rule, ghosts,
                 restarts>>

ReopenPr(s) ==
  /\ pr[s] = "closed"
  /\ pr' = [pr EXCEPT ![s] = "open"]
  /\ UNCHANGED <<store, seen, handlers, reaper, vault, rule, sent, ghosts,
                 restarts>>

\* The same event under a new delivery id.
Replay(d, e) ==
  /\ sent[d] # None
  /\ sent[e] = None
  /\ sent' = [sent EXCEPT ![e] = sent[d]]
  /\ UNCHANGED <<store, seen, handlers, reaper, vault, rule, pr, ghosts,
                 restarts>>

-----------------------------------------------------------------------------
(* The once-only claim, shared by /mint and the webhook (_atomic_issue).     *)

ClaimableEvenIfIssued(s) == state[s] \in {"pending", "approved", "issued"}
ClaimableEvenIfDenied(s) == state[s] \in {"pending", "approved", "denied"}
\* Under the lock: any state but a terminal one may be flipped to issued.
Claimable(s) == state[s] \in {"pending", "approved"}

\* _enforce_dual_control.  Identities are non-blank here.
DualControl(approver, requester) ==
  approver # requester \/ AllowSelfApproval

ScopeHashIgnored(view, req) == TRUE
\* _verify_scope_hash: the hash covers the scope, the widening and the duration, and
\* not who asked.
ScopeHashMatches(view, req) ==
  view.scope = req.scope /\ view.widens = req.widens /\ view.duration = req.duration

-----------------------------------------------------------------------------
(* POST /requests/{id}/mint *)

\* The console, authenticated, presents the operator and the hash of the view
\* the operator saw.  Nothing is awaited from the load of the session to its
\* flip to issued.  A call that fails a check, or finds a terminal session,
\* changes nothing.
Mint(h, s, u, view) ==
  /\ Claimable(s)
  /\ ScopeHashMatches(view, request[s])
  /\ DualControl(u, request[s].requester)
  /\ SetState(s, "issued")
  /\ Start(h, "login", [via |-> "mint", session |-> s, approver |-> u,
                        req |-> request[s]])
  /\ approvals' = approvals \union {ApprovalOf(s, u, view)}
  /\ UNCHANGED <<request, creds, ttl, sandbox, seen, reaper, vault, rule,
                 gitea, mints, refused, restarts>>

-----------------------------------------------------------------------------
(* POST /webhooks/gitea.  A delivery id in seen is answered "duplicate       *)
(* delivery" and changes nothing.                                            *)

\* Closed without merge: a session that is not terminal is denied.
WebhookClosed(d) ==
  LET s == sent[d].session IN
  /\ sent[d] # None
  /\ d \notin seen
  /\ sent[d].kind = "closed"
  /\ seen' = seen \union {d}
  /\ SetState(s, IF state[s] \in Terminal \union {"none"}
                 THEN state[s] ELSE "denied")
  /\ refused' = [refused EXCEPT ![s] =
       @ \/ (state[s] # "none" /\ creds[s] = None)]
  /\ UNCHANGED <<request, creds, ttl, sandbox, handlers, reaper, vault, rule,
                  gitea, mints, approvals, restarts>>

\* Merged, but on another branch or repository or without the label, or for a
\* session that is unknown or terminal: acknowledged and forgotten.
WebhookIgnored(d) ==
  /\ sent[d] # None
  /\ d \notin seen
  /\ sent[d].kind = "merged"
  /\ ~sent[d].valid \/ state[sent[d].session] \in Terminal \union {"none"}
  /\ seen' = seen \union {d}
  /\ UNCHANGED <<store, handlers, reaper, vault, rule, gitea, ghosts,
                 restarts>>

\* Merged: the delivery is recorded, and the handler goes off to read the
\* grant file at the merge commit.
WebhookMerged(h, d) ==
  /\ sent[d] # None
  /\ d \notin seen
  /\ sent[d].kind = "merged" /\ sent[d].valid
  /\ Claimable(sent[d].session)
  /\ seen' = seen \union {d}
  /\ Start(h, "fetch", [via |-> "webhook", session |-> sent[d].session,
                        approver |-> sent[d].by, req |-> sent[d].req])
  /\ UNCHANGED <<store, reaper, vault, rule, gitea, ghosts, restarts>>

\* The gateway call that adds the rule jit-<session> to the sandbox.  It is
\* synchronous: no other handler runs during it.  The sandbox is noted on the
\* session only when the call was answered.
Widen(s, r) ==
  \/ /\ r.widens
     /\ \E o \in GatewayOutcomes \ {"fail"} :
          /\ rule' = [rule EXCEPT ![s] = TRUE]
          /\ sandbox' = [sandbox EXCEPT ![s] = @ \/ o = "ok"]
  \/ /\ r.widens => "fail" \in GatewayOutcomes
     /\ UNCHANGED <<rule, sandbox>>

\* The merged grant could not be fetched or fails re-validation: denied, unless
\* another handler has decided the session in the meantime.
FetchFailed(h) ==
  LET s == job[h].session IN
  /\ pc[h] = "fetch"
  /\ SetState(s, IF state[s] \in Terminal THEN state[s] ELSE "denied")
  /\ Done(h)
  /\ UNCHANGED <<request, creds, ttl, sandbox, seen, reaper, vault, rule,
                 gitea, ghosts, restarts>>

\* Whoever merged it is the requester of the merged grant: audited, and the
\* session stays as it is.
FetchedOwnGrant(h) ==
  /\ pc[h] = "fetch"
  /\ job[h].req # None
  /\ ~DualControl(job[h].approver, job[h].req.requester)
  /\ Done(h)
  /\ UNCHANGED <<store, seen, reaper, vault, rule, gitea, ghosts, restarts>>

\* The claim succeeds and issuance begins.
FetchedClaim(h) ==
  LET s == job[h].session IN
  /\ pc[h] = "fetch"
  /\ job[h].req # None
  /\ DualControl(job[h].approver, job[h].req.requester)
  /\ Claimable(s)
  /\ SetState(s, "issued")
  /\ Goto(h, "login")
  /\ UNCHANGED <<request, creds, ttl, sandbox, seen, left, reaper, vault, rule,
                  gitea, ghosts, restarts>>

\* Another handler got there first: _atomic_issue returns the terminal session
\* quietly, and the webhook goes on to the widening and answers "issued".
FetchedTerminal(h) ==
  LET s == job[h].session IN
  /\ pc[h] = "fetch"
  /\ job[h].req # None
  /\ DualControl(job[h].approver, job[h].req.requester)
  /\ ~Claimable(s)
  /\ Widen(s, job[h].req)
  /\ Done(h)
  /\ UNCHANGED <<state, request, creds, ttl, seen, reaper, vault, gitea,
                 ghosts, restarts>>

-----------------------------------------------------------------------------
(* issue_credentials: four calls to Vault.                                   *)

NotRolledBack(s) == state[s]
\* What _atomic_issue leaves behind when issuance raised.
RolledBack(s) == IF state[s] = "issued" THEN "approved" ELSE state[s]

Login(h) ==
  /\ pc[h] = "login"
  /\ "ok" \in VaultOutcomes
  /\ Goto(h, "role")
  /\ UNCHANGED <<store, seen, left, reaper, vault, rule, gitea, ghosts,
                 restarts>>

\* The effects of the three writes.
RoleWritten(s)   == role' = [role EXCEPT ![s] = TRUE] /\ UNCHANGED <<lease, stray, kv>>
RecordWritten(s) == kv' = [kv EXCEPT ![s] = TRUE] /\ UNCHANGED <<role, lease, stray>>

Longer(m, n) == IF m < n THEN n ELSE m
\* Credentials for as long as req asks for; those of an earlier attempt live on.
LeaseIssued(s, req) ==
  /\ lease' = [lease EXCEPT ![s] = req.duration]
  /\ stray' = [stray EXCEPT ![s] = Longer(@, lease[s])]
  /\ UNCHANGED <<role, kv>>

CreateRole(h) ==
  /\ pc[h] = "role"
  /\ "ok" \in VaultOutcomes
  /\ RoleWritten(job[h].session)
  /\ Goto(h, "creds")
  /\ UNCHANGED <<store, seen, left, reaper, rule, gitea, ghosts, restarts>>

ExpiryFromClaim(h) == job[h].req.duration - (Latency - budget[h])
\* expires_at: computed when the lease has come back, so never before the
\* lease's own end.
Expiry(h) == job[h].req.duration

IssueCreds(h) ==
  /\ pc[h] = "creds"
  /\ "ok" \in VaultOutcomes
  /\ LeaseIssued(job[h].session, job[h].req)
  /\ left' = [left EXCEPT ![h] = Expiry(h)]
  /\ Goto(h, "kv")
  /\ UNCHANGED <<store, seen, reaper, rule, gitea, ghosts, restarts>>

\* The grant the credentials are made from: the one the handler carries.
IssuedGrant(h) == job[h].req

\* The KV record is written, the session JWT signed, and the session receives
\* everything at once.
StoreKv(h) ==
  LET s == job[h].session IN
  /\ pc[h] = "kv"
  /\ "ok" \in VaultOutcomes
  /\ RecordWritten(s)
  /\ creds' = [creds EXCEPT ![s] =
       [approver |-> job[h].approver, req |-> IssuedGrant(h)]]
  /\ ttl' = [ttl EXCEPT ![s] = left[h]]
  /\ mints' = [mints EXCEPT ![s] = @ + 1]
  /\ Goto(h, "record")
  /\ UNCHANGED <<state, request, sandbox, seen, left, reaper, rule, gitea,
                 approvals, refused, restarts>>

\* A call fails, or times out after taking effect.  The caller is told, and the
\* claim is rolled back for a retry; nothing in Vault is undone.
IssueFailed(h) ==
  LET s == job[h].session IN
  /\ pc[h] \in Issuing
  /\ \/ "fail" \in VaultOutcomes /\ UNCHANGED vault
     \/ "lost" \in VaultOutcomes /\ pc[h] = "role" /\ RoleWritten(s)
     \/ "lost" \in VaultOutcomes /\ pc[h] = "creds" /\ LeaseIssued(s, job[h].req)
     \/ "lost" \in VaultOutcomes /\ pc[h] = "kv" /\ RecordWritten(s)
  /\ SetState(s, RolledBack(s))
  /\ Done(h)
  /\ UNCHANGED <<request, creds, ttl, sandbox, seen, reaper, rule, gitea,
                 ghosts, restarts>>

\* jit_issued is in the ledger.  /mint answers; the webhook first widens the
\* sandbox's network.
Recorded(h) ==
  LET s == job[h].session IN
  /\ pc[h] = "record"
  /\ \/ job[h].via = "mint" /\ UNCHANGED <<rule, sandbox>>
     \/ job[h].via = "webhook" /\ Widen(s, job[h].req)
  /\ Done(h)
  /\ UNCHANGED <<state, request, creds, ttl, seen, reaper, vault, gitea,
                 ghosts, restarts>>

-----------------------------------------------------------------------------
(* The reaper: one sweep at a time, session by session.                      *)

DueWhileRole == {s \in Session : state[s] = "issued" /\ creds[s] # None
                                 /\ ttl[s] = 0 /\ role[s]}
DueEarly == {s \in Session : state[s] = "issued" /\ creds[s] # None}
\* _expired_session_ids: issued, with an expires_at that has passed.
Due == {s \in Session : state[s] = "issued" /\ creds[s] # None /\ ttl[s] = 0}

Sweep ==
  /\ due = {} /\ reaping = None
  /\ Due # {}
  /\ due' = Due
  /\ UNCHANGED <<store, seen, handlers, reaping, vault, rule, gitea,
                 ghosts, restarts>>

ReapRole(s) ==
  /\ s \in due /\ reaping = None
  /\ "ok" \in VaultOutcomes
  /\ role' = [role EXCEPT ![s] = FALSE]
  /\ reaping' = s
  /\ UNCHANGED <<store, seen, handlers, due, lease, stray, kv, rule, gitea,
                 ghosts, restarts>>

\* The rule is removed if the session names a sandbox.  The call is
\* synchronous too, and its failure does not stop the reaper.
Revert(s) ==
  \/ /\ sandbox[s]
     /\ GatewayOutcomes \intersect {"ok", "lost"} # {}
     /\ rule' = [rule EXCEPT ![s] = FALSE]
  \/ /\ sandbox[s] => "fail" \in GatewayOutcomes
     /\ UNCHANGED rule

\* The KV record is gone; the rule is reverted and the session is expired
\* without another await.
ReapKv ==
  LET s == reaping IN
  /\ reaping # None
  /\ "ok" \in VaultOutcomes
  /\ kv' = [kv EXCEPT ![s] = FALSE]
  /\ Revert(s)
  /\ SetState(s, "expired")
  /\ due' = due \ {s}
  /\ reaping' = None
  /\ UNCHANGED <<request, creds, ttl, sandbox, seen, handlers, role, lease,
                 stray, gitea, ghosts, restarts>>

\* A call to Vault fails, or is answered too late: the session is left for the
\* next sweep.
ReapFailed(s) ==
  /\ s \in due
  /\ reaping \in {None, s}
  /\ \/ "fail" \in VaultOutcomes /\ UNCHANGED <<role, kv>>
     \/ /\ "lost" \in VaultOutcomes
        /\ IF reaping = None
           THEN role' = [role EXCEPT ![s] = FALSE] /\ UNCHANGED kv
           ELSE kv' = [kv EXCEPT ![s] = FALSE] /\ UNCHANGED role
  /\ due' = due \ {s}
  /\ reaping' = None
  /\ UNCHANGED <<store, seen, handlers, lease, stray, rule, gitea, ghosts,
                 restarts>>

-----------------------------------------------------------------------------
(* Time and restarts.                                                        *)

\* One tick less; a timer at 0 stays there.
Less(timer) == [x \in DOMAIN timer |-> IF timer[x] = 0 THEN 0 ELSE timer[x] - 1]

\* A handler's awaits are bounded by the HTTP timeouts, so it is answered or
\* fails within Latency ticks.
Tick ==
  /\ \A h \in Handler : pc[h] # "idle" => budget[h] > 0
  /\ ttl' = Less(ttl)
  /\ lease' = Less(lease)
  /\ stray' = Less(stray)
  /\ left' = Less(left)
  /\ budget' = Less(budget)
  /\ UNCHANGED <<state, request, creds, sandbox, seen, pc, job, reaper, role, kv,
                 rule, gitea, ghosts, restarts>>

\* The process dies and comes back: the store, the delivery log, the handlers
\* and the reaper's sweep are gone; Vault, Gitea and the gateway are not.
Restart ==
  /\ restarts < MaxRestarts
  /\ restarts' = restarts + 1
  /\ state' = [s \in Session |-> "none"]
  /\ request' = [s \in Session |-> None]
  /\ creds' = [s \in Session |-> None]
  /\ ttl' = [s \in Session |-> 0]
  /\ sandbox' = [s \in Session |-> FALSE]
  /\ seen' = {}
  /\ pc' = [h \in Handler |-> "idle"]
  /\ job' = [h \in Handler |-> None]
  /\ left' = [h \in Handler |-> 0]
  /\ budget' = [h \in Handler |-> 0]
  /\ due' = {}
  /\ reaping' = None
  /\ UNCHANGED <<vault, rule, gitea, ghosts>>

-----------------------------------------------------------------------------
Serve(h) == \/ PrOpened(h) \/ CreateFailed(h) \/ StoreSession(h)
            \/ FetchFailed(h) \/ FetchedOwnGrant(h) \/ FetchedClaim(h)
            \/ FetchedTerminal(h)
            \/ Login(h) \/ CreateRole(h) \/ IssueCreds(h) \/ StoreKv(h)
            \/ IssueFailed(h) \/ Recorded(h)

Reap == \/ Sweep
        \/ \E s \in Session : ReapRole(s)
        \/ ReapKv
        \/ \E s \in Session : ReapFailed(s)

Webhook(d) == \/ WebhookClosed(d) \/ WebhookIgnored(d)
              \/ \E h \in Handler : WebhookMerged(h, d)

Console == \E h \in Handler, s \in Session :
             \/ \E r \in Requests : CreateRequest(h, s, r)
             \/ \E u \in User, view \in Requests : Mint(h, s, u, view)

People == \/ \E d \in Delivery, s \in Session, u \in User :
               \/ ClosePr(d, s, u)
               \/ \E c \in Reviewed, v \in BOOLEAN :
                    MergePr(d, s, u, c, v)
          \/ \E s \in Session : ReopenPr(s)
          \/ \E d, e \in Delivery : Replay(d, e)

Next == \/ \E h \in Handler : Serve(h)
        \/ \E d \in Delivery : Webhook(d)
        \/ Reap
        \/ Console
        \/ People
        \/ Tick
        \/ Restart

Spec == Init /\ [][Next]_vars

\* The event loop runs what is ready, the reaper's loop never ends, time
\* passes, and a call to Vault that is retried for ever is answered in the end.
Fairness ==
  /\ \A h \in Handler : WF_vars(Serve(h))
  /\ WF_vars(Sweep)
  /\ \A s \in Session : SF_vars(ReapRole(s))
  /\ SF_vars(ReapKv)
  /\ SF_vars(Tick)

FairSpec == Spec /\ Fairness

\* Gitea delivers every event, again and again under its id, and the event
\* loop handles it.
DeliverySpec == FairSpec /\ \A d \in Delivery : SF_vars(Webhook(d))

-----------------------------------------------------------------------------
(* Properties.                                                               *)

Busy(h, s) == pc[h] # "idle" /\ job[h].session = s
Owns(h, s) == pc[h] \in Issuing /\ job[h].session = s

\* A session is handed credentials at most once, however the console, merged
\* pull requests, redeliveries and restarts race (mint_core: "a session is
\* minted at most once regardless of how many paths race").
OnceOnly == \A s \in Session : mints[s] <= 1

\* Credentials exist only for exactly what a person other than the requester
\* approved: the approver, the scope, the widening and the duration all come from
\* one decision, also when the console and a merge decide the session together.
IssuedAsApproved ==
  \A s \in Session : creds[s] # None =>
    /\ ApprovalOf(s, creds[s].approver, creds[s].req) \in approvals
    /\ creds[s].approver # creds[s].req.requester \/ AllowSelfApproval

\* A session that is issued has its credentials or a handler that is getting
\* them: a failure never strands a session in a state no path can leave.
NeverStranded ==
  \A s \in Session : state[s] = "issued" /\ creds[s] = None =>
    \E h \in Handler : Owns(h, s)

\* A session that is expired has left nothing in Vault of what it was handed: no role,
\* no record, and its credentials have run out - also when an earlier attempt for
\* another duration had failed half-way, and when its own calls were slow.
ExpiredIsClean ==
  \A s \in Session : state[s] = "expired" => ~role[s] /\ ~kv[s] /\ lease[s] = 0

\* A session only moves along the lifecycle: credentials are never taken back
\* before they expire, nothing leaves expired or denied, and a denied session
\* never gets credentials.  Only a restart forgets.
Lifecycle ==
  [][restarts' = restarts =>
       \A s \in Session :
         /\ state[s] \in {"expired", "denied"} =>
              state'[s] = state[s] /\ creds'[s] = creds[s]
         /\ creds[s] # None => creds'[s] = creds[s]
         /\ creds[s] # None /\ state'[s] # state[s] =>
              state[s] = "issued" /\ state'[s] = "expired" /\ ttl[s] = 0]_vars

\* A grant that was delivered is torn down in the end.
EventuallyReaped ==
  \A s \in Session : (state[s] = "issued" /\ creds[s] # None) ~>
                       (state[s] = "expired")

\* Closing the pull request without merging is a denial: no credentials after
\* it.  The promise of the pull request's text and of webhook.py.
ClosedIsDenied == \A s \in Session : refused[s] => creds[s] = None

\* Sessions the reaper does not look at hold nothing in Vault: the reaper's
\* comment on the states it skips.
UnreapedHoldNothing ==
  \A s \in Session : state[s] \in {"denied", "pending", "approved"} =>
    ~role[s] /\ lease[s] = 0

\* Nothing at all is left of an expired session: gitea.py:200 promises that the
\* reaper deletes the lease.  It does not, and an attempt whose answer was lost may have
\* been for longer than the one that succeeded.
ExpiredHoldsNothing ==
  \A s \in Session : state[s] = "expired" => lease[s] = 0 /\ stray[s] = 0

\* The network is widened for an approved grant only, and for its window.
WidenedOnlyIfGranted ==
  \A s \in Session : rule[s] => state[s] \in {"issued", "expired"}

\* The session a delivery is about.
About(d, s) == sent[d] # None /\ sent[d].session = s

\* A delivery that says: somebody else merged a sound grant.
Approves(d) == /\ sent[d] # None
               /\ sent[d].kind = "merged" /\ sent[d].valid
               /\ sent[d].req # None
               /\ DualControl(sent[d].by, sent[d].req.requester)

\* Merging the pull request approves the grant, as its text says: a merge of a
\* sound grant by someone else decides the session, even if the merge is
\* delivered before the session is stored or Vault has to be asked again.
MergeApproves ==
  \A d \in Delivery, s \in Session :
    (d \in seen /\ Approves(d) /\ About(d, s) /\ state[s] # "none")
      ~> (state[s] \in Terminal)

-----------------------------------------------------------------------------
(* The contract: the approver implements JitGrant.  A session that is claimed  *)
(* and has no credentials yet is still open.                                   *)

Phase(s) == IF creds[s] = None
            THEN CASE state[s] = "none"   -> "unknown"
                   [] state[s] = "denied" -> "denied"
                   [] OTHER               -> "open"
            ELSE IF state[s] = "expired" THEN "ended" ELSE "granted"

Contract == INSTANCE JitGrant WITH
  Decision <- Approval,
  decided  <- [s \in Session |-> {a \in approvals : a.session = s}],
  phase    <- [s \in Session |-> Phase(s)],
  grant    <- [s \in Session |->
                 IF creds[s] = None THEN None
                 ELSE ApprovalOf(s, creds[s].approver, creds[s].req)],
  spent    <- {s \in Session : mints[s] > 0}

\* Every step of the approver is a step of JitGrant or invisible to it: however
\* the console, the webhook, the reaper and a restart interleave, a session is
\* granted one decided thing at most once, and only an open one.
ImplementsGrant == Contract!Spec

-----------------------------------------------------------------------------
(* The inductive invariant of the proofs.                                      *)

\* What a handler finds when it goes on: its job, a request to create or to
\* issue for, and a session that is stored, with its request, unless it is the
\* one that will store it.  The reaper's sessions are stored, too.
SlotsInv ==
  /\ \A h \in Handler :
       /\ pc[h] = "idle" <=> job[h] = None
       /\ pc[h] \notin {"idle", "fetch"} => job[h].req \in Requests
       /\ pc[h] \notin {"idle", "pr", "label"} => state[job[h].session] # "none"
  /\ \A s \in Session :
       /\ state[s] # "none" => request[s] \in Requests
       /\ s \in due \/ s = reaping => state[s] # "none"

\* A handler that is creating is alone with its session, which has no past.
HandlersInv ==
  \A h \in Handler :
    /\ pc[h] \in {"pr", "label"} =>
         /\ state[job[h].session] = "none" /\ mints[job[h].session] = 0
         /\ \A g \in Handler : Busy(g, job[h].session) => g = h
    /\ pc[h] = "label" => pr[job[h].session] # "none"

\* What state says about the rest of the session.
SessionInv ==
  \A s \in Session :
    /\ pr[s] = "none" => state[s] = "none" /\ mints[s] = 0
    /\ state[s] = "none" => creds[s] = None
    /\ state[s] \in {"pending", "approved", "denied"} =>
         creds[s] = None /\ mints[s] = 0
    /\ state[s] = "issued" => (creds[s] = None <=> mints[s] = 0)
    /\ state[s] = "expired" => creds[s] # None
    /\ mints[s] <= 1

\* An issuance has its session to itself until the credentials are there.
IssuanceInv ==
  /\ \A h \in Handler : pc[h] \in Issuing =>
       state[job[h].session] = "issued" /\ creds[job[h].session] = None
  /\ \A h, g \in Handler, s \in Session : Owns(h, s) /\ Owns(g, s) => h = g
  /\ NeverStranded

\* A decision stands behind every merge, every issuance and every credential.
DecisionInv ==
  /\ \A d \in Delivery :
       sent[d] # None /\ sent[d].kind = "merged" /\ sent[d].req # None =>
         ApprovalOf(sent[d].session, sent[d].by, sent[d].req) \in approvals
  /\ \A h \in Handler :
       /\ pc[h] \in Issuing \union {"fetch"} /\ job[h].req # None =>
            ApprovalOf(job[h].session, job[h].approver, job[h].req) \in approvals
       /\ pc[h] \in Issuing =>
            DualControl(job[h].approver, job[h].req.requester)
  /\ IssuedAsApproved

\* The reaper is at sessions that are issued and have run out.
ReaperInv ==
  /\ \A s \in due : state[s] = "issued" /\ creds[s] # None /\ ttl[s] = 0
  /\ reaping # None => reaping \in due

\* The credentials never outlive the expiry that is, or will be, on the session, and
\* what the reaper has removed stays removed.
TeardownInv ==
  /\ \A h \in Handler : pc[h] = "kv" => lease[job[h].session] <= left[h]
  /\ \A s \in Session : creds[s] # None => lease[s] <= ttl[s]
  /\ reaping # None => ~role[reaping]
  /\ \A s \in Session : state[s] = "expired" => ~role[s] /\ ~kv[s] /\ ttl[s] = 0

Inv == /\ TypeOK /\ SlotsInv /\ HandlersInv /\ SessionInv /\ IssuanceInv
       /\ DecisionInv /\ ReaperInv /\ TeardownInv

=============================================================================
