----------------------------- MODULE SandboxLaunch -----------------------------
(***************************************************************************)
(* The sandbox-launcher.  POST /launch is a coroutine that never awaits: it  *)
(* creates the sandbox and writes the consent grant while the event loop     *)
(* waits, so launches follow one another.  After the answer a thread of the  *)
(* server's pool boots the brain: it polls the sandbox's phase, probes the   *)
(* SVID and the model endpoint, each until a deadline, and then executes the *)
(* runner in the sandbox.  Every call to the gateway carries the launcher's  *)
(* own OIDC token, cached under a lock that is held while a new one is       *)
(* fetched.                                                                  *)
(*                                                                           *)
(* Times are counted in ticks; the sleeps between polls are left out, so a   *)
(* poll may be repeated any number of times in a tick.                       *)
(***************************************************************************)
EXTENDS Naturals, FiniteSets

CONSTANTS
  Sandbox,    \* launch requests, each for a sandbox of its own
  Nobody,     \* no launch, no thread
  Threads,    \* threads of the server's pool
  ReadyTime,  \* BRAIN_BOOT_READY_TIMEOUT_S
  SvidTime,   \* BRAIN_BOOT_SVID_PROBE_TIMEOUT_S
  LlmTime,    \* BRAIN_BOOT_LLM_PROBE_TIMEOUT_S
  TokenLife,  \* expires_in of the token
  Margin      \* a token with no more left than this is replaced

ASSUME NobodyAssumption == Nobody \notin Sandbox
ASSUME TimesAssumption ==
  /\ Threads \in Nat \ {0}
  /\ {ReadyTime, SvidTime, LlmTime, TokenLife, Margin} \subseteq Nat

VARIABLES
  config,     \* the environment: OIDC, Vault, SANDBOX_BOOT_AGENT, inference
  handler,    \* the launch that occupies the event loop
  request,    \* how far each launch is
  boot,       \* where the brain's boot is
  left,       \* ticks until the deadline of the wait that boot is in
  auth,       \* what a thread has for its next gateway call
  tokenLock, token,  \* _token_lock; ticks that _cached_token still lives
  \* Outside: phase and egress policy of the sandboxes, grants, brains.
  box, settled, grant, brain

outside == <<box, settled, grant, brain>>
tokens  == <<auth, tokenLock, token>>
vars == <<config, handler, request, boot, left, tokens, outside>>

Polling == {"phase", "svid", "llm"}
Running == Polling \union {"exec", "stream", "check"}

Config == [oidc : BOOLEAN, vault : BOOLEAN, boot : BOOLEAN, inference : {"none", "svid", "url"}]

TypeOK ==
  /\ config \in Config
  /\ handler \in Sandbox \union {Nobody}
  /\ request \in [Sandbox -> {"new", "create", "login", "grant", "answer", "ok", "failed"}]
  /\ boot \in [Sandbox -> Running \union {"no", "queued", "over"}]
  /\ left \in [Sandbox -> 0 .. ReadyTime + SvidTime + LlmTime]
  /\ auth \in [Sandbox -> {"none", "token", "bare"}]
  /\ tokenLock \in Sandbox \union {Nobody}
  /\ token \in 0 .. TokenLife
  /\ box \in [Sandbox -> {"none", "PROVISIONING", "READY", "ERROR", "gone"}]
  /\ settled \subseteq Sandbox /\ grant \subseteq Sandbox /\ brain \subseteq Sandbox

\* Only a boot reads what there is for the inference.
Init ==
  /\ config \in {c \in Config : c.boot \/ c.inference = "none"}
  /\ handler = Nobody
  /\ request = [s \in Sandbox |-> "new"]
  /\ boot = [s \in Sandbox |-> "no"]
  /\ left = [s \in Sandbox |-> 0]
  /\ auth = [s \in Sandbox |-> "none"]
  /\ tokenLock = Nobody /\ token = 0
  /\ box = [s \in Sandbox |-> "none"]
  /\ settled = {} /\ grant = {} /\ brain = {}

-----------------------------------------------------------------------------
(* The launcher's token.                                                     *)

\* The brain's model is reached with the sandbox's SVID through a proxy in the sandbox,
\* without a credential of the launcher.
SvidMode == config.inference = "svid"

\* _brain_env: else with the launcher's base URL and key, if it has them.
HasBrainEnv == SvidMode \/ config.inference = "url"

\* A gateway call is due: the launch's CreateSandbox, or the boot's next one.
Due(s) == \/ request[s] = "create"
          \/ boot[s] \in Polling \/ boot[s] = "check"
          \/ boot[s] = "exec" /\ HasBrainEnv

Usable == token > Margin

\* _launcher_auth_metadata finds the lock free: it takes the cached token, or
\* keeps the lock to fetch another.  Without OIDC there is nothing to fetch.
GetToken(s) ==
  /\ Due(s) /\ auth[s] = "none" /\ tokenLock # s
  /\ boot[s] = "phase" => left[s] > 0
  /\ \/ /\ ~config.oidc
        /\ auth' = [auth EXCEPT ![s] = "bare"]
        /\ UNCHANGED tokenLock
     \/ /\ config.oidc /\ tokenLock = Nobody /\ Usable
        /\ auth' = [auth EXCEPT ![s] = "token"]
        /\ UNCHANGED tokenLock
     \/ /\ config.oidc /\ tokenLock = Nobody /\ ~Usable
        /\ tokenLock' = s
        /\ UNCHANGED auth
  /\ UNCHANGED <<config, handler, request, boot, left, token, outside>>

FetchedHeld(s) ==
  /\ tokenLock = s
  /\ \/ token' = TokenLife /\ auth' = [auth EXCEPT ![s] = "token"] /\ tokenLock' = Nobody
     \/ UNCHANGED <<token, tokenLock>> /\ auth' = [auth EXCEPT ![s] = "bare"]
  /\ UNCHANGED <<config, handler, request, boot, left, outside>>

\* The answer of the token endpoint; on a failure the call is made without.
Fetched(s) ==
  /\ tokenLock = s
  /\ \/ token' = TokenLife /\ auth' = [auth EXCEPT ![s] = "token"]
     \/ UNCHANGED token /\ auth' = [auth EXCEPT ![s] = "bare"]
  /\ tokenLock' = Nobody
  /\ UNCHANGED <<config, handler, request, boot, left, outside>>

\* The gateway wants a token where OIDC is on.
Admitted(s) == auth[s] = "token" \/ ~config.oidc

\* The call that was due is made.
Call(s) == /\ Due(s) /\ auth[s] # "none"
           /\ auth' = [auth EXCEPT ![s] = "none"]
           /\ UNCHANGED <<tokenLock, token>>

-----------------------------------------------------------------------------
(* POST /launch.                                                             *)

Answer(s, how) == /\ request' = [request EXCEPT ![s] = how]
                  /\ handler' = Nobody

\* Unconfirmed, or from somebody who is not who the body says: 4xx.
Launch(s) ==
  /\ handler = Nobody /\ request[s] = "new"
  /\ \/ Answer(s, "failed")
     \/ /\ request' = [request EXCEPT ![s] = "create"]
        /\ handler' = s
  /\ UNCHANGED <<config, boot, left, tokens, outside>>

\* 503: no client certificates, or no baseline policy to be found.
NotConfigured(s) ==
  /\ request[s] = "create" /\ auth[s] = "none" /\ tokenLock # s
  /\ Answer(s, "failed")
  /\ UNCHANGED <<config, boot, left, tokens, outside>>

\* CreateSandbox: 502 when it fails, though it may have taken effect.
CreateSandbox(s) ==
  /\ request[s] = "create" /\ Call(s)
  /\ \/ /\ Admitted(s)
        /\ box' = [box EXCEPT ![s] = "PROVISIONING"]
        /\ request' = [request EXCEPT ![s] = "login"]
        /\ UNCHANGED handler
     \/ /\ Admitted(s)
        /\ box' = [box EXCEPT ![s] = "PROVISIONING"]
        /\ Answer(s, "failed")
     \/ UNCHANGED box /\ Answer(s, "failed")
  /\ UNCHANGED <<config, boot, left, settled, grant, brain>>

\* Without Vault (dev), the grant is left out.
NoVault(s) ==
  /\ request[s] = "login" /\ ~config.vault
  /\ request' = [request EXCEPT ![s] = "answer"]
  /\ UNCHANGED <<config, handler, boot, left, tokens, outside>>

\* Every grant is written with a fresh Vault login; a failure fails the launch.
Login(s) ==
  /\ request[s] = "login" /\ config.vault
  /\ \/ request' = [request EXCEPT ![s] = "grant"] /\ UNCHANGED handler
     \/ Answer(s, "failed")
  /\ UNCHANGED <<config, boot, left, tokens, outside>>

WriteGrantSoft(s) ==
  /\ request[s] = "grant"
  /\ grant' \in {grant, grant \union {s}}
  /\ request' = [request EXCEPT ![s] = "answer"]
  /\ UNCHANGED <<config, handler, boot, left, tokens, box, settled, brain>>

\* So does a write that fails, though it may have taken effect.
WriteGrant(s) ==
  /\ request[s] = "grant"
  /\ \/ /\ grant' = grant \union {s}
        /\ request' = [request EXCEPT ![s] = "answer"]
        /\ UNCHANGED handler
     \/ /\ grant' \in {grant, grant \union {s}}
        /\ Answer(s, "failed")
  /\ UNCHANGED <<config, boot, left, tokens, box, settled, brain>>

\* SANDBOX_BOOT_AGENT.
BootEnabled == config.boot

\* 202, after a try to patch the sandbox's labels; the boot is queued.
Launched(s) ==
  /\ request[s] = "answer"
  /\ Answer(s, "ok")
  /\ boot' = [boot EXCEPT ![s] = IF BootEnabled THEN "queued" ELSE "no"]
  /\ UNCHANGED <<config, left, tokens, outside>>

-----------------------------------------------------------------------------
(* _boot_brain_when_ready.                                                   *)

Goto(s, place, ticks) == /\ boot' = [boot EXCEPT ![s] = place]
                         /\ left' = [left EXCEPT ![s] = ticks]

BootBegins(s) ==
  /\ boot[s] = "queued"
  /\ Cardinality({t \in Sandbox : boot[t] \in Running}) < Threads
  /\ Goto(s, "phase", ReadyTime)
  /\ UNCHANGED <<config, handler, request, tokens, outside>>

\* What get_sandbox_phase returns; a call that is refused or fails raises.
Phase(s) == IF Admitted(s) THEN box[s] ELSE "unknown"

\* A call that fails is one more poll.
PollPhase(s) ==
  /\ boot[s] = "phase" /\ Call(s)
  /\ \/ Phase(s) = "READY" /\ Goto(s, "svid", SvidTime)
     \/ Phase(s) = "ERROR" /\ Goto(s, "over", 0)
     \/ UNCHANGED <<boot, left>>
  /\ UNCHANGED <<config, handler, request, outside>>

NotReady(s) ==
  /\ boot[s] = "phase" /\ left[s] = 0 /\ auth[s] = "none" /\ tokenLock # s
  /\ Goto(s, "over", 0)
  /\ UNCHANGED <<config, handler, request, tokens, outside>>

\* Commands can be run in the sandbox; only such a probe can find anything.
Executes(s) == Admitted(s) /\ box[s] = "READY"

\* probe_agent_svid, at least once: whatever it finds, the boot goes on.
ProbeSvid(s) ==
  /\ boot[s] = "svid" /\ Call(s)
  /\ \/ Executes(s) /\ Goto(s, "llm", LlmTime)
     \/ left[s] = 0 /\ Goto(s, "llm", LlmTime)
     \/ left[s] > 0 /\ UNCHANGED <<boot, left>>
  /\ UNCHANGED <<config, handler, request, outside>>

\* The endpoint at the launcher's base URL answers with 200 only through the settled
\* policy and only to a key: where the brain uses its SVID, the probe has none.
LlmReachable(s) == Executes(s) /\ s \in settled /\ ~SvidMode

ProbeLlmOn(s) ==
  /\ boot[s] = "llm" /\ Call(s)
  /\ \/ LlmReachable(s) /\ Goto(s, "exec", left[s])
     \/ UNCHANGED <<boot, left>>
  /\ UNCHANGED <<config, handler, request, outside>>

\* An error is a negative answer, and after the deadline the brain is booted anyway.
ProbeLlm(s) ==
  /\ boot[s] = "llm" /\ Call(s)
  /\ \/ LlmReachable(s) /\ Goto(s, "exec", left[s])
     \/ left[s] = 0 /\ Goto(s, "exec", 0)
     \/ left[s] > 0 /\ UNCHANGED <<boot, left>>
  /\ UNCHANGED <<config, handler, request, outside>>

\* exec_agent_brain without an inference endpoint.
NoInference(s) ==
  /\ boot[s] = "exec" /\ ~HasBrainEnv
  /\ Goto(s, "over", 0)
  /\ UNCHANGED <<config, handler, request, tokens, outside>>

\* The boot command is executed in the sandbox: it starts the runner, or does not.  The
\* stream is then open until the command is over, which is at once where it detaches the
\* runner, and when the runner is, if ever, where SANDBOX_BRAIN_COMMAND does not.
ExecBrain(s) ==
  /\ boot[s] = "exec" /\ Call(s)
  /\ \/ Executes(s) /\ brain' = brain \union {s}
     \/ UNCHANGED brain
  /\ Goto(s, "stream", 0)
  /\ UNCHANGED <<config, handler, request, box, settled, grant>>

\* The command exits, with 0 as far as the stream tells, or not; or the stream breaks.
StreamEnds(s) ==
  /\ boot[s] = "stream"
  /\ Goto(s, "check", 0) \/ Goto(s, "over", 0)
  /\ UNCHANGED <<config, handler, request, tokens, outside>>

\* The look whether the runner is there, which only the log gets to know.
CheckBrain(s) ==
  /\ boot[s] = "check" /\ Call(s)
  /\ Goto(s, "over", 0)
  /\ UNCHANGED <<config, handler, request, outside>>

-----------------------------------------------------------------------------
(* Around the launcher.                                                      *)

\* Its pod is replaced: launches and boots end where they are.
Restart ==
  /\ \E s \in Sandbox : boot[s] \in Running \union {"queued"} \/ handler = s
  /\ handler' = Nobody
  /\ request' = [s \in Sandbox |-> IF handler = s THEN "failed" ELSE request[s]]
  /\ boot' = [s \in Sandbox |-> IF boot[s] = "no" THEN "no" ELSE "over"]
  /\ left' = [s \in Sandbox |-> 0]
  /\ auth' = [s \in Sandbox |-> "none"]
  /\ tokenLock' = Nobody /\ token' = 0
  /\ UNCHANGED <<config, outside>>

\* A sandbox gets ready, fails or is deleted; then the gateway applies its policy.
Sandboxes(s) ==
  /\ \/ box[s] = "PROVISIONING" /\ box' = [box EXCEPT ![s] = "READY"]
     \/ box[s] \in {"PROVISIONING", "READY"} /\ box' = [box EXCEPT ![s] = "ERROR"]
     \/ box[s] \notin {"none", "gone"} /\ box' = [box EXCEPT ![s] = "gone"]
  /\ UNCHANGED <<config, handler, request, boot, left, tokens, settled, grant, brain>>

Settle(s) ==
  /\ box[s] = "READY" /\ s \notin settled
  /\ settled' = settled \union {s}
  /\ UNCHANGED <<config, handler, request, boot, left, tokens, box, grant, brain>>

Left(s) == IF boot[s] \in Polling /\ left[s] > 0 THEN left[s] - 1 ELSE left[s]

Tick ==
  /\ token > 0 \/ \E s \in Sandbox : boot[s] \in Polling /\ left[s] > 0
  /\ token' = IF token = 0 THEN 0 ELSE token - 1
  /\ left' = [s \in Sandbox |-> Left(s)]
  /\ UNCHANGED <<config, handler, request, boot, auth, tokenLock, outside>>

Answering(s) == \/ CreateSandbox(s) \/ NoVault(s) \/ Login(s)
                \/ WriteGrant(s) \/ Launched(s)
Handle(s) == Launch(s) \/ NotConfigured(s) \/ Answering(s)
Bounded(s) == \/ BootBegins(s) \/ PollPhase(s) \/ NotReady(s) \/ ProbeSvid(s)
              \/ ProbeLlm(s) \/ NoInference(s) \/ ExecBrain(s) \/ CheckBrain(s)
Boot(s)   == Bounded(s) \/ StreamEnds(s)
Token(s)  == GetToken(s) \/ Fetched(s)

Next == \/ \E s \in Sandbox : Token(s) \/ Handle(s) \/ Boot(s) \/ Sandboxes(s) \/ Settle(s)
        \/ Restart
        \/ Tick

Spec == Init /\ [][Next]_vars

\* Time passes, the threads run, and the token endpoint, the gateway and Vault answer
\* each call in some way: they have time-outs, or the gateway was given one for what it
\* executes (the probes, the check).  Nobody ends the stream of the boot command:
\* BRAIN_EXEC_TIMEOUT_S is 0.
FairSpec == /\ Spec /\ WF_vars(Tick)
            /\ \A s \in Sandbox :
                 SF_vars(Token(s)) /\ WF_vars(Answering(s)) /\ WF_vars(Bounded(s))

-----------------------------------------------------------------------------
(* Properties.                                                               *)

\* api.py:672 - what the console's agents rely on: see LaunchContract.
Stage(s) == CASE request[s] \in {"new", "create"}  -> "open"
              [] request[s] \in {"login", "grant"} -> "made"
              [] request[s] = "answer"             -> "consented"
              [] OTHER                             -> request[s]

Contract == INSTANCE LaunchContract WITH
  launch <- [s \in Sandbox |-> Stage(s)],
  made   <- {s \in Sandbox : box[s] # "none"},
  vault  <- config.vault

KeepsContract == Contract!Spec

\* api.py:404 - "Bounded poll ... so a sandbox that never goes Ready can't hang a
\* worker": whatever becomes of the sandboxes, their policies and the token, a boot
\* gets to a thread and there to the boot command's stream, or ends, unless such
\* streams are open in all the threads.
BootEnds == \A s \in Sandbox :
  boot[s] \in Running \union {"queued"} ~>
    \/ boot[s] \in {"stream", "over"}
    \/ Cardinality({t \in Sandbox : boot[t] = "stream"}) = Threads

\* A launch occupies the event loop only until its calls are answered, whoever
\* holds the token's lock.
LoopFreed == \A s \in Sandbox : handler = s ~> handler # s

\* The lock is held only by the thread whose gateway call waits for a token, and
\* a token is in use only where a call is due.
LockOwned ==
  /\ tokenLock # Nobody => Due(tokenLock) /\ auth[tokenLock] = "none" /\ config.oidc
  /\ \A s \in Sandbox : auth[s] # "none" => Due(s)
=============================================================================
