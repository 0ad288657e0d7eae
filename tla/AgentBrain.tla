------------------------------ MODULE AgentBrain ------------------------------
(***************************************************************************)
(* The runner in an agent's sandbox.  It fetches the sandbox's JWT-SVID,     *)
(* gives it to the SDK as the bearer for the MCP gateway, and has the SDK    *)
(* work on the goal; when the SDK's stream ends with an error it may start   *)
(* over, with two budgets: once for an SVID that is not accepted, several    *)
(* times while the inference gateway does not have its policy yet.  The      *)
(* SDK's own requests to the model go through a proxy, which fetches an SVID *)
(* for each of them.                                                         *)
(*                                                                           *)
(* What the SDK makes of an answer is not in this repository: the model lets *)
(* its stream end, or raise an error of any text, at every point, also after *)
(* it has told a result.                                                     *)
(***************************************************************************)
EXTENDS Naturals

CONSTANTS
  RetryMax,  \* AGENT_GATEWAY_RETRY_MAX
  MaxTurns,  \* AGENT_MAX_TURNS
  Window,    \* SVID_FETCH_RETRY_SECONDS, in ticks
  MaxAge,    \* SVID_FILE_MAX_AGE_SECONDS, in ticks
  Life       \* ticks that an SVID is valid

ASSUME BoundsAssumption == {RetryMax, MaxTurns, Window, MaxAge, Life} \subseteq Nat

VARIABLES
  config,      \* require: SVID_REQUIRE_PATH_SUBSTR; subproc: SVID_FETCH_SUBPROCESS
  file,        \* the sidecar's file: its SVID's shape, and the ticks since it was written
  registered,  \* the shapes that SPIRE's agent has entries of
  settled,     \* the inference gateway's policy is in force
  place, why,  \* where the runner is, and what it fetches an SVID for
  left,        \* ticks until the fetch gives up
  poisoned,    \* a Workload API call has failed in the runner's process
  svid, life,  \* the bearer in the SDK's options, and the ticks it is still valid
  session, used, \* the session id in the options, those that the SDK has seen
  attempts,    \* times that the SDK was started
  stream,      \* where the SDK is
  turns, met,  \* the attempt's turns, and what it did and was told
  rotated, retries, success, signal, \* run_agent's locals
  told, exit   \* the last result line on stdout; the exit code is 0

outside == <<config, file, registered, settled>>
bearer  == <<svid, life>>
sdk     == <<session, used, attempts, stream, turns, met>>
budgets == <<rotated, retries>>
verdict == <<success, signal, told, exit>>
vars == <<outside, place, why, left, poisoned, bearer, sdk, budgets, verdict>>

Shape == {"uuid", "sa"}  \* the sandbox's SVID, and its service account's
None  == "none"

\* By what the text of the error says: is_auth_error, is_gateway_policy_denied.
Says401    == {"raised 401", "raised both"}
SaysPolicy == {"raised policy", "raised both"}
Raised     == Says401 \union SaysPolicy \union {"raised other"}

TypeOK ==
  /\ config \in [require : BOOLEAN, subproc : BOOLEAN]
  /\ file \in [shape : Shape \union {None}, age : 0 .. MaxAge + 1]
  /\ registered \subseteq Shape /\ settled \in BOOLEAN /\ poisoned \in BOOLEAN
  /\ place \in {"start", "svid", "query", "backoff", "over"}
  /\ why \in {"start", "rotation", "gateway"}
  /\ left \in 0 .. Window
  /\ svid \in Shape \union {None} /\ life \in 0 .. Life
  /\ session \in 0 .. RetryMax + 1 /\ used \subseteq 0 .. RetryMax + 1
  /\ attempts \in 0 .. RetryMax + 2
  /\ rotated \in BOOLEAN /\ retries \in 0 .. RetryMax
  /\ success \in BOOLEAN /\ signal \in {None, "policy", "other"}
  /\ stream \in {"off", "ask", "tool", "final", "denied", "failed", "told", "ended"} \union Raised
  /\ turns \in 0 .. MaxTurns /\ met \subseteq {"tool", "policy", "goal"}
  /\ told \in {None, "success", "error"} /\ exit \in BOOLEAN

Init ==
  /\ config \in [require : BOOLEAN, subproc : BOOLEAN]
  /\ file = [shape |-> None, age |-> 0]
  /\ registered = {} /\ settled \in BOOLEAN /\ poisoned = FALSE
  /\ place = "start" /\ why = "start" /\ left = 0
  /\ svid = None /\ life = 0
  /\ session = 0 /\ used = {} /\ attempts = 0
  /\ rotated = FALSE /\ retries = 0 /\ success = FALSE /\ signal = None
  /\ stream = "off" /\ turns = 0 /\ met = {}
  /\ told = None /\ exit = FALSE

-----------------------------------------------------------------------------
(* Around the runner.                                                        *)

\* external: the sidecar writes an SVID, of whichever shape SPIRE lists first.
WriteFile(shape) ==
  /\ shape \in registered
  /\ file' = [shape |-> shape, age |-> 0]
  /\ UNCHANGED <<config, registered, settled, place, why, left, poisoned, bearer, sdk,
                 budgets, verdict>>

\* external: an entry reaches the SPIRE agent, the policy the inference gateway.
Register(shape) ==
  /\ shape \notin registered /\ registered' = registered \union {shape}
  /\ UNCHANGED <<config, file, settled, place, why, left, poisoned, bearer, sdk,
                 budgets, verdict>>

Settle ==
  /\ ~settled /\ settled' = TRUE
  /\ UNCHANGED <<config, file, registered, place, why, left, poisoned, bearer, sdk,
                 budgets, verdict>>

Fresh == file.shape # None /\ file.age <= MaxAge
Down(n) == IF n > 0 THEN n - 1 ELSE 0

Tick ==
  /\ place # "over" /\ (left > 0 \/ life > 0 \/ Fresh)
  /\ left' = Down(left) /\ life' = Down(life)
  /\ file' = IF Fresh THEN [file EXCEPT !.age = @ + 1] ELSE file
  /\ UNCHANGED <<config, registered, settled, place, why, poisoned, svid, sdk,
                 budgets, verdict>>

-----------------------------------------------------------------------------
(* fetch_agent_svid.                                                         *)

AcceptsAny(shape) == TRUE
Accepts(shape) == ~config.require \/ shape = "uuid"

\* _try_read_svid_file: fresh, and of the right shape.
InFile == Fresh /\ Accepts(file.shape)

\* _try_workload_api: one of the entries, or the one that matches; in this process a
\* call that failed makes all the later ones fail, which one in a child does not.
Acceptable == {shape \in registered : Accepts(shape)}
FromApi(shape) == ~poisoned /\ shape \in Acceptable

\* No entry matches, or the call fails: no entry at all, an error, the time-out.
NoSvid == \/ /\ registered # {} /\ Acceptable = {}
             /\ UNCHANGED poisoned
          \/ poisoned' = (poisoned \/ ~config.subproc)

Got(shape, ticks) == svid' = shape /\ life' = ticks

\* The file first, then the Workload API.
Sources == \/ InFile /\ Got(file.shape, IF file.age < Life THEN Life - file.age ELSE 0)
           \/ ~InFile /\ \E shape \in Shape : FromApi(shape) /\ Got(shape, Life)

Fetching(for) == /\ place' = "svid" /\ why' = for
                 /\ left' = Window

\* run_agent: without the SDK it raises, and so does not say a word.
Start ==
  /\ place = "start"
  /\ \/ Fetching("start") /\ UNCHANGED exit
     \/ place' = "over" /\ exit' = FALSE /\ UNCHANGED <<why, left>>
  /\ UNCHANGED <<outside, poisoned, bearer, sdk, budgets, success, signal, told>>

\* An attempt that finds no SVID is repeated until the deadline has passed.
DeadlineMoved == left' = Window
DeadlineKept == left' = left
Attempt ==
  /\ place = "svid" /\ ~InFile /\ left > 0
  /\ NoSvid /\ DeadlineKept
  /\ UNCHANGED <<outside, place, why, bearer, sdk, budgets, verdict>>

Over(result, code) == /\ place' = "over" /\ stream' = "off"
                      /\ told' = result /\ exit' = code

\* "SVID fetch failed", "SVID refresh failed".
GiveUp ==
  /\ place = "svid" /\ ~InFile /\ left = 0
  /\ NoSvid
  /\ Over("error", FALSE)
  /\ UNCHANGED <<outside, why, left, bearer, session, used, attempts, turns,
                 met, budgets, success, signal>>

SignalKept == UNCHANGED signal
SignalReset == signal' = None

\* _build_options: a retry has a session id that the SDK has not seen.
NewSession == IF why = "start" THEN 0 ELSE attempts

\* The options are built, and the SDK is started with them.
Query ==
  /\ place = "svid" /\ Sources
  /\ session' = NewSession /\ used' = used \union {session'}
  /\ attempts' = attempts + 1
  /\ place' = "query" /\ stream' = "ask" /\ turns' = 0 /\ met' = {}
  /\ SignalReset
  /\ UNCHANGED <<outside, why, left, poisoned, budgets, success, told, exit>>

-----------------------------------------------------------------------------
(* external: the SDK.                                                        *)

UnchangedBySdk == UNCHANGED <<outside, place, why, left, poisoned, bearer, session, used,
                              attempts, budgets, exit>>

\* The model is asked, through the proxy, which has an SVID or answers with 503,
\* and the gateway, which turns requests down until it has its policy.  It wants
\* a tool, or has the answer; or the request fails, or there are no turns left.
AskModel ==
  /\ stream = "ask"
  /\ \/ /\ (InFile \/ Acceptable # {}) /\ settled /\ turns < MaxTurns
        /\ stream' \in {"tool", "final"} /\ turns' = turns + 1 /\ UNCHANGED met
     \/ /\ (InFile \/ Acceptable # {}) /\ ~settled
        /\ stream' = "denied" /\ met' = met \union {"policy"} /\ UNCHANGED turns
     \/ stream' = "failed" /\ UNCHANGED <<turns, met>>
  /\ UnchangedBySdk /\ UNCHANGED <<success, signal, told>>

\* The MCP gateway takes the bearer, or the model gets to know that it does not.
CallTool ==
  /\ stream = "tool" /\ stream' = "ask"
  /\ met' = IF life > 0 /\ svid = "uuid" THEN met \union {"tool"} ELSE met
  /\ UnchangedBySdk /\ UNCHANGED <<turns, success, signal, told>>

\* _handle_result_message, on what the SDK says of the attempt.
Result ==
  /\ stream \in {"final", "denied", "failed"}
  /\ success' = (stream = "final")
  /\ told' = IF stream = "final" THEN "success" ELSE "error"
  /\ signal' = CASE stream = "denied" -> "policy" [] stream = "failed" -> "other"
                 [] OTHER -> None
  /\ met' = IF stream = "final" THEN met \union {"goal"} ELSE met
  /\ stream' = "told"
  /\ UnchangedBySdk /\ UNCHANGED turns

\* With a result or without one the stream ends, or raises.
End ==
  /\ stream \in {"ask", "tool", "final", "denied", "failed", "told"}
  /\ stream' \in Raised \union {"ended"}
  /\ met' = IF stream' \in SaysPolicy THEN met \union {"policy"} ELSE met
  /\ UnchangedBySdk /\ UNCHANGED <<turns, success, signal, told>>

-----------------------------------------------------------------------------
(* run_agent, after the stream.                                              *)

GatewayRetry ==
  /\ retries < RetryMax /\ retries' = retries + 1
  /\ place' = "backoff" /\ stream' = "off"
  /\ UNCHANGED <<why, left, told, exit>>

\* while True: ... break
Ended ==
  /\ stream = "ended"
  /\ \/ ~success /\ signal = "policy" /\ GatewayRetry
     \/ /\ success \/ signal # "policy" \/ retries = RetryMax
        /\ Over(told, success)
        /\ UNCHANGED <<why, left, retries>>
  /\ UNCHANGED <<outside, poisoned, bearer, session, used, attempts, turns, met,
                 rotated, success, signal>>

\* except Exception
Exception ==
  LET rotate == stream \in Says401 /\ ~rotated
      policy == stream \in SaysPolicy \/ signal = "policy"
  IN
  /\ stream \in Raised
  /\ \/ /\ rotate /\ rotated' = TRUE
        /\ Fetching("rotation") /\ stream' = "off"
        /\ UNCHANGED <<retries, told, exit>>
     \/ ~rotate /\ policy /\ GatewayRetry /\ UNCHANGED rotated
     \/ /\ ~rotate /\ (policy => retries = RetryMax)
        /\ Over("error", FALSE)
        /\ UNCHANGED <<why, left, rotated, retries>>
  /\ UNCHANGED <<outside, poisoned, bearer, session, used, attempts, turns, met,
                 success, signal>>

\* _rebuild_opts_fresh_session, after the pause.
Backoff ==
  /\ place = "backoff"
  /\ Fetching("gateway")
  /\ UNCHANGED <<outside, poisoned, bearer, sdk, budgets, verdict>>

Fetch  == Start \/ Attempt \/ GiveUp \/ Query
Sdk    == AskModel \/ CallTool \/ Result \/ End
Runner == Ended \/ Exception \/ Backoff

Next == \/ Fetch \/ Sdk \/ Runner
        \/ Settle \/ Tick \/ \E shape \in Shape : WriteFile(shape) \/ Register(shape)

Spec == Init /\ [][Next]_vars

\* The runner's own code goes on, and so does its clock; the SDK may hang.
FairSpec == Spec /\ WF_vars(Fetch) /\ WF_vars(Runner) /\ WF_vars(Tick)

-----------------------------------------------------------------------------
(* Properties.                                                               *)

\* agent_runner.py:731, 757 - however many attempts it took, the exit code says what
\* the last result line of the transcript says; 0 only if there is one.
ExitTold == place = "over" => (exit <=> told = "success")

\* agent_runner.py:539, 557, 603 - the gateway's budget is spent only on what this
\* attempt's own stream has told, not on what an earlier one left behind; and every
\* attempt is a session of its own ("the claude CLI ... rejects a re-used session id").
RetriesForCause == [][
  /\ retries' > retries => "policy" \in met
  /\ attempts' > attempts => session' \notin used
  ]_vars

\* svid_bearer.py:205, 274 - no attempt presents an SVID of the wrong shape.
RightIdentity == place = "query" /\ config.require => svid = "uuid"

\* The invariants of a run.
Inv == TypeOK /\ ExitTold /\ RightIdentity

\* svid_bearer.py:97, agent_runner.py:600, 652 - whatever SPIRE, the sidecar and the
\* gateway do, and however the attempts end, the windows and the budgets run out: a run
\* is over in the end, but for a stream that itself never ends.
RunEnds == <>(place = "over") \/ <>[](place = "query")

\* agent_runner.py:462 - the docstring of run_agent: a retry "handles the case
\* where the SVID expired between _build_options() and the first HTTP call to the
\* MCP gateway", so no tool call of a run is made twice, and no goal reached twice.
RetryBeforeWork == [][attempts' > attempts => met \intersect {"tool", "goal"} = {}]_vars

\* agent_runner.py:468 - False for "is_error=True OR no ResultMessage received", which
\* is to say by the last attempt.
LastVerdict == place = "over" /\ exit => "goal" \in met
=============================================================================
