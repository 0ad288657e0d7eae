------------------------------- MODULE Elevation -------------------------------
(***************************************************************************)
(* From a tool call that is denied to the same call under an approval.       *)
(* mcp-call, in the sandbox, is denied a write tool; it looks for a token    *)
(* that was issued for its sandbox and covers the tool, else for a request   *)
(* that is pending, else it files one and waits.  An operator clicks Approve *)
(* in the console, which looks at the request and has jit-approver mint; or  *)
(* somebody merges the request's pull request in Gitea, after changing the   *)
(* grant in it, maybe.  mcp-call finds the token and calls again.            *)
(*                                                                           *)
(* Each of them sees the others' state as it was when it asked, and every    *)
(* answer may take any time.  A tick is an interval of mcp-call's wait.      *)
(* What happens inside of jit-approver is JitApprover's matter; its restarts *)
(* are too.                                                                  *)
(***************************************************************************)
EXTENDS Naturals, FiniteSets

CONSTANTS
  Call,      \* runs of mcp-call, each of which files one request at most
  Click,     \* clicks on Approve, numbered as they are made
  Merge,     \* merges in Gitea, numbered too
  Sandbox,   \* the calls' sandboxes
  Tool,      \* the tools they call
  Needs,     \* what the calls are for, as far as a run looks at it
  Operator,  \* the users of the console and of Gitea
  Owner,     \* the one who launched the sandboxes
  Wait,      \* polls before a wait is given up
  Margin,    \* the 30 seconds that a token to be used again must last, in ticks
  Duration,  \* the 30 minutes that mcp-call asks for, in ticks
  Edits,     \* grants that a merged file may hold instead of the one that was filed
  None

Approval == Click \union Merge

ASSUME PeopleAssumption == Owner \in Operator /\ Approval \subseteq Nat \ {0}
                           /\ Click \intersect Merge = {} /\ None \notin Call /\ Call # {}
ASSUME TimesAssumption == {Wait, Margin, Duration} \subseteq Nat /\ Duration > Margin
ASSUME NeedsAssumption == Needs \subseteq [Call -> [sandbox : Sandbox, tool : Tool]]

Grant == [sandbox : Sandbox, requester : Operator \union Sandbox, tools : SUBSET Tool,
          duration : {n \in Nat : n > Margin}]
ASSUME EditsAssumption == Edits \subseteq Grant

Request == Call  \* a request, and its token, are named for the call that filed it

VARIABLES
  named,  \* the console gave the sandbox its user's name, AGENT_USER
  need,   \* the sandbox and the tool of a call
  place,  \* where the call is
  todo,   \* the requests of the list it got that it has not looked at yet
  lasting, \* those of them whose token lasts, by the time it took then
  sid, token, \* the request it waits for, the token that it has
  polls,  \* times that it waited
  late,   \* ticks since it took the time, up to the margin
  state, jwt, ttl, \* jit-approver: the sessions, those with a token, and its validity
  by,     \* the approval that a session was claimed for
  who, about, grant, \* an operator's approval, of a request, and the grant approved
  console, mint \* what the console makes of a click, and jit-approver of an approval

call     == <<named, need, place, todo, lasting, sid, token, polls, late>>
session  == <<state, jwt, ttl, by>>
approval == <<who, about, grant, console, mint>>
vars == <<call, session, approval>>

Ended == {"over", "done", "refused"}
Open  == {"pending", "approved"}

TypeOK ==
  /\ named \in BOOLEAN /\ need \in Needs
  /\ place \in [Call -> {"start", "look", "pending", "match", "file", "wait", "sleep", "retry"}
                         \union Ended]
  /\ {todo, lasting} \subseteq [Call -> SUBSET Request]
  /\ sid \in [Call -> Request \union {None}] /\ token \in [Call -> Request \union {None}]
  /\ polls \in [Call -> 0 .. Wait] /\ late \in [Call -> 0 .. Margin]
  /\ state \in [Request -> Open \union {"none", "issued", "denied", "expired"}]
  /\ jwt \subseteq Request /\ ttl \in [Request -> Nat]
  /\ by \in [Request -> Approval \union {0}]
  /\ who \in [Approval -> Operator] /\ about \in [Approval -> Request]
  /\ grant \in [Approval -> Grant]
  /\ console \in [Click -> {"idle", "sent", "allow", "deny", "error"}]
  /\ mint \in [Approval -> {"idle", "asked", "issuing", "ok", "forbidden", "failed"}]

-----------------------------------------------------------------------------
(* What is asked for, and what is granted.                                   *)

\* _WRITE_TOOL_RESOURCES, and the default for all the other tools.
Asked(tool) ==
  CASE tool = "resources_scale" -> <<"update", "deployments">>
    [] tool = "resources_create_or_update" -> <<"patch", "deployments">>
    [] tool = "pods_run"  -> <<"create", "pods">>
    [] tool = "pods_exec" -> <<"create", "pods/exec">>
    [] OTHER -> <<"create", "networkpolicies">>

\* tool_scope_for: the resource is matched with parts of names, so that the scope of
\* "pods/exec" is that of pods, too.
ToolScope(resource) ==
  CASE resource = "deployments" -> {"resources_create_or_update", "resources_scale"}
    [] resource = "pods" -> {"resources_create_or_update", "pods_run"}
    [] resource = "pods/exec" -> {"pods_exec", "resources_create_or_update", "pods_run"}
    [] OTHER -> {"create_firewall_rule_advanced", "add_firewall_rule"}

Scope(r) == ToolScope(Asked(need[r].tool)[2]) \intersect Tool

\* The requester is a human if the sandbox knows one; else it is the SVID's subject.
Requester(r) == IF named THEN Owner ELSE need[r].sandbox

\* What a request asks for.
Filed(r) == [sandbox |-> need[r].sandbox, requester |-> Requester(r), tools |-> Scope(r),
             duration |-> Duration]

\* A token has the claims of the grant that it was issued from.
Claims(r) == grant[by[r]]
Covers(r, c) == /\ Claims(r).sandbox = need[c].sandbox
                /\ need[c].tool \in Claims(r).tools

FirstRequest == CHOOSE r \in Request : TRUE

Init ==
  /\ named \in BOOLEAN /\ need \in Needs
  /\ place = [c \in Call |-> "start"] /\ todo = [c \in Call |-> {}]
  /\ lasting = [c \in Call |-> {}]
  /\ sid = [c \in Call |-> None] /\ token = [c \in Call |-> None]
  /\ polls = [c \in Call |-> 0] /\ late = [c \in Call |-> 0]
  /\ state = [r \in Request |-> "none"] /\ jwt = {} /\ ttl = [r \in Request |-> 0]
  /\ by = [r \in Request |-> 0]
  /\ who = [a \in Approval |-> Owner] /\ about = [a \in Approval |-> FirstRequest]
  /\ grant = [a \in Approval |-> Filed(FirstRequest)]
  /\ console = [k \in Click |-> "idle"] /\ mint = [a \in Approval |-> "idle"]

-----------------------------------------------------------------------------
(* mcp-call.                                                                 *)

Goto(c, to) == place' = [place EXCEPT ![c] = to]
Set(f, c, to) == f' = [f EXCEPT ![c] = to]
UnchangedElsewhere == UNCHANGED <<named, need, session, approval>>

\* The first call: anything but a write tool's 403 is the end of it.
FirstCall(c) ==
  /\ place[c] = "start"
  /\ Goto(c, "over")
  /\ UnchangedElsewhere /\ UNCHANGED <<todo, lasting, sid, token, polls, late>>

Delivered(r) == state[r] = "issued" /\ r \in jwt

LastsNow(r) == r \in jwt => ttl[r] > 0

\* exp > now + 30, where now is when the list was there.
Lasts(r) == r \in jwt => ttl[r] > Margin

\* The 403, and _reusable_token: the list, and the time.
List(c) ==
  /\ place[c] = "start"
  /\ \/ /\ Goto(c, "look")
        /\ LET issued == {r \in Request : state[r] = "issued"}
           IN  Set(todo, c, issued) /\ Set(lasting, c, {r \in issued : Lasts(r)})
     \/ Goto(c, "pending") /\ UNCHANGED <<todo, lasting>>
  /\ UnchangedElsewhere /\ UNCHANGED <<sid, token, polls, late>>

\* get_status of one issued session after the other.
Look(c) ==
  /\ place[c] = "look"
  /\ \/ \E r \in todo[c] :
          /\ Delivered(r) /\ Covers(r, c) /\ r \in lasting[c]
          /\ Goto(c, "retry") /\ Set(token, c, r)
          /\ Set(todo, c, {}) /\ Set(lasting, c, {})
          /\ UNCHANGED late
     \/ \E r \in todo[c] :
          /\ Set(todo, c, todo[c] \ {r}) /\ Set(lasting, c, lasting[c] \ {r})
          /\ UNCHANGED <<place, token, late>>
     \/ /\ todo[c] = {} /\ Goto(c, "pending")
        /\ Set(late, c, 0) /\ UNCHANGED <<todo, lasting, token>>
  /\ UnchangedElsewhere /\ UNCHANGED <<sid, polls>>

\* _pending_request.
ListPending(c) ==
  /\ place[c] = "pending"
  /\ \/ Goto(c, "match") /\ Set(todo, c, {r \in Request : state[r] = "pending"})
     \/ Goto(c, "file") /\ UNCHANGED todo
  /\ UnchangedElsewhere /\ UNCHANGED <<lasting, sid, token, polls, late>>

\* get_detail: all of a request that mcp-call and the console decide on.
Detail(r) == [state |-> state[r], requester |-> Requester(r), asked |-> Asked(need[r].tool)]

\* The same verb and resource, and a requester that is this SVID's subject: never, if
\* the request has a human's name.
SameRequest(r, c) == /\ Detail(r).requester = need[c].sandbox
                     /\ Detail(r).asked = Asked(need[c].tool)

Match(c) ==
  /\ place[c] = "match"
  /\ \/ \E r \in todo[c] :
          /\ SameRequest(r, c)
          /\ Goto(c, "wait") /\ Set(sid, c, r) /\ Set(todo, c, {})
     \/ \E r \in todo[c] :
          /\ Set(todo, c, todo[c] \ {r})
          /\ UNCHANGED <<place, sid>>
     \/ todo[c] = {} /\ Goto(c, "file") /\ UNCHANGED <<todo, sid>>
  /\ UnchangedElsewhere /\ UNCHANGED <<lasting, token, polls, late>>

\* create_request: it may fail, or take longer than mcp-call waits for the answer.
Create(c) ==
  /\ place[c] = "file"
  /\ \/ /\ state' = [state EXCEPT ![c] = "pending"]
        /\ \/ Set(sid, c, c) /\ Goto(c, "wait")
           \/ UNCHANGED sid /\ Goto(c, "over")
     \/ UNCHANGED <<state, sid>> /\ Goto(c, "over")
  /\ UNCHANGED <<named, need, todo, lasting, token, polls, late, jwt, ttl, by, approval>>

\* It has not waited for the time-out.
Left(c) == polls[c] < Wait

\* _wait_for_approval: one poll, which may fail; then it sleeps.
Poll(c) ==
  /\ place[c] = "wait"
  /\ \/ /\ Left(c) /\ Delivered(sid[c])
        /\ Goto(c, "retry") /\ Set(token, c, sid[c]) /\ UNCHANGED sid
        /\ Set(polls, c, 0)
     \/ Left(c) /\ Goto(c, "sleep") /\ UNCHANGED <<sid, token, polls>>
     \/ /\ ~Left(c) \/ state[sid[c]] \in {"denied", "expired"}
        /\ Goto(c, "over") /\ Set(sid, c, None) /\ Set(polls, c, 0)
        /\ UNCHANGED token
  /\ UnchangedElsewhere /\ UNCHANGED <<todo, lasting, late>>

\* The same call with the token.  ext-proc compares the token's sandbox with the
\* SVID's and looks for the tool in its scope.  Or no answer comes.
Retry(c) ==
  /\ place[c] = "retry"
  /\ \/ Goto(c, IF ttl[token[c]] > 0 /\ Covers(token[c], c) THEN "done" ELSE "refused")
     \/ Goto(c, "over")
  /\ UnchangedElsewhere /\ UNCHANGED <<todo, lasting, sid, token, polls, late>>

-----------------------------------------------------------------------------
(* The console and jit-approver.                                             *)

Unasked == UNCHANGED <<call, who, about, grant>>
Answer(k, with) == console' = [console EXCEPT ![k] = with]
MintGoes(k, to) == mint' = [mint EXCEPT ![k] = to]

\* The page has a button for a request that was open when it was loaded: every request
\* was, and the page may be old.
Listed(r) == state[r] # "none"

\* An operator clicks on a request.  The console gets its detail: if it is open,
\* jit-approver is asked to mint.  (If there is no answer, nothing has happened.)
Approve(k, o, r) ==
  /\ console[k] = "idle" /\ (\A j \in Click : j < k => console[j] # "idle")
  /\ Listed(r)
  /\ who' = [who EXCEPT ![k] = o] /\ about' = [about EXCEPT ![k] = r]
  /\ grant' = [grant EXCEPT ![k] = Filed(r)]
  /\ \/ Detail(r).state \in Open /\ Answer(k, "sent") /\ MintGoes(k, "asked")
     \/ Detail(r).state \notin Open /\ Answer(k, "deny") /\ UNCHANGED mint
  /\ UNCHANGED <<call, session>>

DualControlOff(o, g) == o # None
DualControl(o, g) == o # g.requester

\* _atomic_issue, up to the claim.
Claim(a) == /\ state' = [state EXCEPT ![about[a]] = "issued"]
            /\ by' = [by EXCEPT ![about[a]] = a]
            /\ MintGoes(a, "issuing")

\* The console is not recognised: jit-approver, or the API server that it asks about the
\* console's token, is out of reach or says no.
CallerRefused(k) ==
  /\ k \in Click /\ mint[k] = "asked"
  /\ MintGoes(k, "failed") \/ MintGoes(k, "forbidden")
  /\ Unasked /\ UNCHANGED <<console, session>>

\* mint_session, up to the claim: a session that is decided is answered with 200.
Mint(k) ==
  LET r == about[k] IN
  /\ k \in Click /\ mint[k] = "asked"
  /\ \/ state[r] \notin Open /\ MintGoes(k, "ok") /\ UNCHANGED <<state, by>>
     \/ /\ state[r] \in Open /\ ~DualControl(who[k], grant[k])
        /\ MintGoes(k, "forbidden") /\ UNCHANGED <<state, by>>
     \/ state[r] \in Open /\ DualControl(who[k], grant[k]) /\ Claim(k)
  /\ Unasked /\ UNCHANGED <<console, jwt, ttl>>

\* Somebody merges the request's pull request, with the grant that was filed or another
\* one, and jit-approver gets the delivery.
MergeRequest(m, o, r, g) ==
  /\ mint[m] = "idle" /\ state[r] # "none"
  /\ \A n \in Merge : mint[n] = "idle" => m <= n
  /\ \A n \in Merge : mint[n] # "idle" => about[n] # r
  /\ who' = [who EXCEPT ![m] = o] /\ about' = [about EXCEPT ![m] = r]
  /\ grant' = [grant EXCEPT ![m] = g]
  /\ MintGoes(m, "asked")
  /\ UNCHANGED <<call, session, console>>

\* handle_webhook: the merged file is read and decided on; it may not be there, or not be
\* a grant, which denies the session.
Merged(m) ==
  LET r == about[m] IN
  /\ m \in Merge /\ mint[m] = "asked"
  /\ \/ state[r] \notin Open /\ MintGoes(m, "ok") /\ UNCHANGED <<state, by>>
     \/ /\ state[r] \in Open
        /\ state' = [state EXCEPT ![r] = "denied"]
        /\ MintGoes(m, "failed") /\ UNCHANGED by
     \/ /\ ~DualControl(who[m], grant[m])
        /\ MintGoes(m, "forbidden") /\ UNCHANGED <<state, by>>
     \/ state[r] \in Open /\ DualControl(who[m], grant[m]) /\ Claim(m)
  /\ Unasked /\ UNCHANGED <<console, jwt, ttl>>

\* issue_credentials, for the approval that has the claim.
Issue(a) ==
  LET r == about[a] IN
  /\ mint[a] = "issuing"
  /\ jwt' = jwt \union {r}
  /\ ttl' = [ttl EXCEPT ![r] = grant[a].duration]
  /\ MintGoes(a, "ok")
  /\ Unasked /\ UNCHANGED <<console, state, by>>

\* The claim is rolled back.
IssueFails(a) ==
  /\ mint[a] = "issuing"
  /\ state' = [state EXCEPT ![about[a]] = "approved"]
  /\ MintGoes(a, "failed")
  /\ Unasked /\ UNCHANGED <<console, jwt, ttl, by>>

ReplyDenies(k) ==
  /\ console[k] = "sent"
  /\ \/ mint[k] = "ok" /\ Answer(k, "allow")
     \/ mint[k] # "ok" /\ Answer(k, "deny")
  /\ Unasked /\ UNCHANGED <<mint, session>>

\* The console's answer and its audit record; jit-approver may take longer than the
\* 30 seconds, and goes on.
Reply(k) ==
  /\ console[k] = "sent"
  /\ \/ mint[k] = "ok" /\ Answer(k, "allow")
     \/ mint[k] = "forbidden" /\ Answer(k, "deny")
     \/ mint[k] # "ok" /\ mint[k] # "forbidden" /\ Answer(k, "error")
  /\ Unasked /\ UNCHANGED <<mint, session>>

\* The request's PR is closed.
Close(r) ==
  /\ state[r] \in Open
  /\ state' = [state EXCEPT ![r] = "denied"]
  /\ UNCHANGED <<call, approval, jwt, ttl, by>>

\* The reaper.
Expire(r) ==
  /\ Delivered(r) /\ ttl[r] = 0
  /\ state' = [state EXCEPT ![r] = "expired"]
  /\ UNCHANGED <<call, approval, jwt, ttl, by>>

-----------------------------------------------------------------------------
Awake(c) == place[c] = "sleep"

\* From taking the time to the use of the token that was found.
Reusing(c) == place[c] = "look" \/ (place[c] = "retry" /\ sid[c] = None)
Hurries(c) == Reusing(c) /\ late[c] < Margin

\* Time passes, and every call and every answer may take any of it.
Tick ==
  /\ \E c \in Call : place[c] \notin Ended
  /\ \/ \E c \in Call : Awake(c) \/ Hurries(c)
     \/ \E r \in Request : ttl[r] > 0
  /\ place' = [c \in Call |-> IF Awake(c) THEN "wait" ELSE place[c]]
  /\ polls' = [c \in Call |-> IF Awake(c) THEN polls[c] + 1 ELSE polls[c]]
  /\ late' = [c \in Call |-> IF Hurries(c) THEN late[c] + 1 ELSE late[c]]
  /\ ttl' = [r \in Request |-> IF ttl[r] > 0 THEN ttl[r] - 1 ELSE 0]
  /\ UNCHANGED <<named, need, todo, lasting, sid, token, state, jwt, by, approval>>

McpCall(c) == \/ FirstCall(c) \/ List(c) \/ Look(c) \/ ListPending(c) \/ Match(c)
              \/ Create(c) \/ Poll(c) \/ Retry(c)
Issuing(a)   == Issue(a) \/ IssueFails(a)
Approving(k) == CallerRefused(k) \/ Mint(k) \/ Reply(k)

Next == \/ \E c \in Call : McpCall(c)
        \/ \E k \in Click : Approving(k) \/ \E o \in Operator, r \in Request : Approve(k, o, r)
        \/ \E m \in Merge : Merged(m)
        \/ \E m \in Merge, o \in Operator, r \in Request :
             \E g \in Edits \union {Filed(r)} : MergeRequest(m, o, r, g)
        \/ \E a \in Approval : Issuing(a)
        \/ \E r \in Request : Close(r) \/ Expire(r)
        \/ Tick

Spec == Init /\ [][Next]_vars

-----------------------------------------------------------------------------
(* Properties.                                                               *)

\* mint_core.py:75, webhook.py:260 - whatever clicks, merges and failures came between, a
\* call that was let through has the claims of the one grant that an approval issued: for
\* its sandbox and its tool, approved by somebody other than that grant's requester, and,
\* if by a click, the grant that was filed.  (In a merged file its editor writes who the
\* requester is.)
ElevatedAsApproved == \A c \in Call :
  place[c] = "done" =>
    LET r == token[c]
        a == by[token[c]]
    IN /\ a # 0 /\ about[a] = r /\ mint[a] = "ok"
       /\ who[a] # grant[a].requester
       /\ a \in Click => grant[a] = Filed(r)
       /\ grant[a].sandbox = need[c].sandbox /\ need[c].tool \in grant[a].tools

\* mcp-call:211 - the margin is for the delay between the reading of the clock and the
\* call: a token that was found and is refused was presented after more than that.
ReuseAccepted == \A c \in Call : place[c] = "refused" /\ sid[c] = None => late[c] = Margin

\* app.py:1347, 1393 - a click that the console audits as denied changed nothing: the
\* session was not claimed for it.
DenyIsFinal == \A k \in Click : console[k] = "deny" => by[about[k]] # k

\* mint_core.py:206 - a session is called issued before it is: then somebody is issuing
\* it, who was not denied.  It does not stay so when the issuing fails.
ClaimHeld == \A r \in Request :
  state[r] = "issued" /\ r \notin jwt => by[r] # 0 /\ mint[by[r]] = "issuing"

\* mcp-call:282 - "deny -> reuse a still-valid approval if one exists, else ... auto-retry
\* the SAME call": no token is presented in vain, however the call came by it.
RetryAccepted == \A c \in Call : place[c] # "refused"

\* mcp-call:218 - "so a duplicate PR isn't created": a call does not file what another
\* one has filed and waits for.
NoDuplicate == \A c, d \in Call :
  c # d /\ place[c] = "sleep" /\ place[d] = "sleep" /\ sid[c] = c /\ sid[d] = d =>
    \/ need[c].sandbox # need[d].sandbox
    \/ Asked(need[c].tool) # Asked(need[d].tool)

\* api.py:643 - "Idempotent response for already-issued sessions": an approval that the
\* console audits as allowed has a token.
AllowMeansIssued == \A k \in Click : console[k] = "allow" => about[k] \in jwt
=============================================================================
