-------------------------- MODULE SandboxLaunchProofs --------------------------
(* Theorems about the sandbox-launcher, for any number of launches and threads  *)
(* and all time-outs.                                                           *)
EXTENDS SandboxLaunch, TLAPS

InFlight == {"create", "login", "grant", "answer"}

\* The event loop is occupied by the one launch that is under way.
HandlerInv == \A s \in Sandbox : handler = s <=> request[s] \in InFlight

\* What a launch has established at each place.
StageInv == \A s \in Sandbox :
  /\ request[s] \in {"login", "grant", "answer", "ok"} => box[s] # "none"
  /\ request[s] = "grant" => config.vault

\* A boot follows a launch that succeeded, and starts the runner when its stream opens.
BootInv == \A s \in Sandbox :
  /\ boot[s] # "no" => request[s] = "ok"
  /\ s \in brain => boot[s] \in {"stream", "check", "over"}

Inv == TypeOK /\ LockOwned /\ HandlerInv /\ StageInv /\ BootInv

------------------------------------------------------------------------------

LEMMA InitInv == Init => Inv
BY NobodyAssumption, TimesAssumption
   DEF Init, Inv, TypeOK, LockOwned, HandlerInv, StageInv, BootInv, InFlight, Config

LEMMA TokenInv ==
  ASSUME Inv, NEW s \in Sandbox, Token(s)
  PROVE  Inv'
<1> USE NobodyAssumption, TimesAssumption
        DEF Inv, TypeOK, LockOwned, HandlerInv, StageInv, BootInv, InFlight,
            outside, tokens, Due, HasBrainEnv, SvidMode
<1>1. CASE GetToken(s)
  BY <1>1 DEF GetToken
<1>2. CASE Fetched(s)
  BY <1>2 DEF Fetched
<1> QED
  BY <1>1, <1>2 DEF Token

LEMMA HandleInv ==
  ASSUME Inv, NEW s \in Sandbox, Handle(s)
  PROVE  Inv'
<1> USE NobodyAssumption, TimesAssumption
        DEF Inv, TypeOK, LockOwned, HandlerInv, StageInv, BootInv, InFlight,
            outside, tokens, Due, HasBrainEnv, SvidMode, Call, Answer
<1>1. CASE Launch(s)
  BY <1>1 DEF Launch, Polling
<1>2. CASE NotConfigured(s)
  BY <1>2 DEF NotConfigured, Polling
<1>3. CASE CreateSandbox(s)
  BY <1>3 DEF CreateSandbox, Polling
<1>4. CASE NoVault(s)
  BY <1>4 DEF NoVault, Polling
<1>5. CASE Login(s)
  BY <1>5 DEF Login, Polling
<1>6. CASE WriteGrant(s)
  BY <1>6 DEF WriteGrant, Polling
<1>7. CASE Launched(s)
  BY <1>7 DEF Launched, Polling, Running
<1> HIDE DEF Inv
<1> QED
  BY <1>1, <1>2, <1>3, <1>4, <1>5, <1>6, <1>7 DEF Handle, Answering

LEMMA BootStepInv ==
  ASSUME Inv, NEW s \in Sandbox, Boot(s)
  PROVE  Inv'
<1> USE NobodyAssumption, TimesAssumption
        DEF Inv, TypeOK, LockOwned, HandlerInv, StageInv, BootInv, InFlight,
            outside, tokens, Due, HasBrainEnv, SvidMode, Call, Goto, Polling, Running
<1>1. CASE BootBegins(s)
  BY <1>1 DEF BootBegins
<1>2. CASE PollPhase(s)
  BY <1>2 DEF PollPhase
<1>3. CASE NotReady(s)
  BY <1>3 DEF NotReady
<1>4. CASE ProbeSvid(s)
  BY <1>4 DEF ProbeSvid
<1>5. CASE ProbeLlm(s)
  BY <1>5 DEF ProbeLlm
<1>6. CASE NoInference(s)
  BY <1>6 DEF NoInference
<1>7. CASE ExecBrain(s)
  BY <1>7 DEF ExecBrain
<1>8. CASE CheckBrain(s)
  BY <1>8 DEF CheckBrain
<1>9. CASE StreamEnds(s)
  BY <1>9 DEF StreamEnds
<1> HIDE DEF Inv, Boot
<1> QED
  BY <1>1, <1>2, <1>3, <1>4, <1>5, <1>6, <1>7, <1>8, <1>9 DEF Boot, Bounded

LEMMA WorldInv ==
  ASSUME Inv,
         (\E s \in Sandbox : Sandboxes(s) \/ Settle(s)) \/ Restart \/ Tick
  PROVE  Inv'
<1> USE NobodyAssumption, TimesAssumption
        DEF Inv, TypeOK, LockOwned, HandlerInv, StageInv, BootInv, InFlight,
            outside, tokens, Due, HasBrainEnv, SvidMode
<1>1. ASSUME NEW s \in Sandbox, Sandboxes(s) PROVE Inv'
  BY <1>1 DEF Sandboxes
<1>2. ASSUME NEW s \in Sandbox, Settle(s) PROVE Inv'
  BY <1>2 DEF Settle
<1>3. CASE Restart
  BY <1>3 DEF Restart, Running, Polling
<1>4. CASE Tick
  BY <1>4 DEF Tick, Left
<1> HIDE DEF Inv
<1> QED
  BY <1>1, <1>2, <1>3, <1>4

LEMMA NextInv == Inv /\ [Next]_vars => Inv'
<1> SUFFICES ASSUME Inv, [Next]_vars PROVE Inv'
  OBVIOUS
<1>1. CASE UNCHANGED vars
  BY <1>1 DEF vars, outside, tokens, Inv, TypeOK, LockOwned, HandlerInv, StageInv,
              BootInv, Due, HasBrainEnv, SvidMode
<1> QED
  BY <1>1, TokenInv, HandleInv, BootStepInv, WorldInv DEF Next

\* The inductive invariant.
THEOREM InvCorrect == Spec => []Inv
BY InitInv, NextInv, PTL DEF Spec

\* Every reachable state is well typed.
THEOREM TypeCorrect == Spec => []TypeOK
<1>1. Inv => TypeOK
  BY DEF Inv
<1> QED
  BY <1>1, InvCorrect, PTL

\* The token's lock belongs to a thread whose gateway call waits for it.
THEOREM LockOwnedCorrect == Spec => []LockOwned
<1>1. Inv => LockOwned
  BY DEF Inv
<1> QED
  BY <1>1, InvCorrect, PTL

------------------------------------------------------------------------------
(* The launcher keeps LaunchContract.                                         *)

\* A step that touches no launch, no sandbox's being there, no grant and no brain is
\* invisible.
LEMMA Invisible ==
  ASSUME UNCHANGED <<config, grant, brain>>,
         \A s \in Sandbox : Stage(s)' = Stage(s) /\ (box[s] # "none" <=> box'[s] # "none")
  PROVE  UNCHANGED Contract!vars
BY DEF Contract!vars

\* A launch that goes on by one stage is one step of the mapped function.
LEMMA StageGoes ==
  ASSUME Inv, NEW s \in Sandbox, NEW to,
         \A t \in Sandbox \ {s} : request'[t] = request[t],
         Stage(s)' = to
  PROVE  [t \in Sandbox |-> Stage(t)'] = [[t \in Sandbox |-> Stage(t)] EXCEPT ![s] = to]
BY DEF Stage

LEMMA ContractHandle ==
  ASSUME Inv, NEW s \in Sandbox, Handle(s)
  PROVE  [Contract!Next]_(Contract!vars)
<1> DEFINE made == {t \in Sandbox : box[t] # "none"}
<1> USE DEF Answer, Inv, TypeOK, InFlight
<1>1. CASE Launch(s)
  <2>1. CASE request' = [request EXCEPT ![s] = "create"]
    BY <1>1, <2>1, Invisible DEF Launch, Stage, outside
  <2>2. CASE request' = [request EXCEPT ![s] = "failed"]
    <3>1. Contract!Fail(s)
      BY <1>1, <2>2, StageGoes DEF Launch, Stage, outside, Contract!Fail, Contract!Goto
    <3> QED
      BY <3>1 DEF Contract!Next
  <2> QED
    BY <1>1, <2>1, <2>2 DEF Launch
<1>2. CASE NotConfigured(s)
  <2>1. Contract!Fail(s)
    BY <1>2, StageGoes DEF NotConfigured, Stage, outside, Contract!Fail, Contract!Goto
  <2> QED
    BY <2>1 DEF Contract!Next
<1>3. CASE CreateSandbox(s)
  <2>1. Stage(s) = "open" /\ UNCHANGED <<config, grant, brain>>
    BY <1>3 DEF CreateSandbox, Stage
  <2>2. CASE request' = [request EXCEPT ![s] = "login"]
    <3>1. made' = made \union {s}
      BY <1>3, <2>2 DEF CreateSandbox
    <3>2. Contract!Create(s)
      BY <2>1, <2>2, <3>1, StageGoes DEF Stage, Contract!Create, Contract!Goto
    <3> QED
      BY <3>2 DEF Contract!Next
  <2>3. CASE request' = [request EXCEPT ![s] = "failed"]
    <3>1. made' \in {made, made \union {s}}
      BY <1>3 DEF CreateSandbox
    <3>2. Contract!Fail(s)
      BY <2>1, <2>3, <3>1, StageGoes DEF Stage, Contract!Fail, Contract!Goto
    <3> QED
      BY <3>2 DEF Contract!Next
  <2> QED
    BY <1>3, <2>2, <2>3 DEF CreateSandbox
<1>4. CASE NoVault(s)
  <2>1. Contract!Consent(s)
    BY <1>4, StageGoes DEF NoVault, Stage, outside, Contract!Consent, Contract!Goto
  <2> QED
    BY <2>1 DEF Contract!Next
<1>5. CASE Login(s)
  <2>1. CASE request' = [request EXCEPT ![s] = "grant"]
    BY <1>5, <2>1, Invisible DEF Login, Stage, outside
  <2>2. CASE request' = [request EXCEPT ![s] = "failed"]
    <3>1. Contract!Fail(s)
      BY <1>5, <2>2, StageGoes DEF Login, Stage, outside, Contract!Fail, Contract!Goto
    <3> QED
      BY <3>1 DEF Contract!Next
  <2> QED
    BY <1>5, <2>1, <2>2 DEF Login
<1>6. CASE WriteGrant(s)
  <2>1. /\ Stage(s) = "made" /\ config.vault
        /\ UNCHANGED <<config, box, brain>>
    BY <1>6 DEF WriteGrant, Stage, StageInv
  <2>2. CASE request' = [request EXCEPT ![s] = "answer"]
    <3>1. grant' = grant \union {s}
      BY <1>6, <2>2 DEF WriteGrant
    <3>2. Contract!Consent(s)
      BY <2>1, <2>2, <3>1, StageGoes DEF Stage, Contract!Consent, Contract!Goto
    <3> QED
      BY <3>2 DEF Contract!Next
  <2>3. CASE request' = [request EXCEPT ![s] = "failed"]
    <3>1. Contract!Fail(s)
      BY <1>6, <2>1, <2>3, StageGoes DEF WriteGrant, Stage, Contract!Fail, Contract!Goto
    <3> QED
      BY <3>1 DEF Contract!Next
  <2> QED
    BY <1>6, <2>2, <2>3 DEF WriteGrant
<1>7. CASE Launched(s)
  <2>1. Contract!Answer(s)
    BY <1>7, StageGoes DEF Launched, Stage, outside, Contract!Answer, Contract!Goto
  <2> QED
    BY <2>1 DEF Contract!Next
<1> QED
  BY <1>1, <1>2, <1>3, <1>4, <1>5, <1>6, <1>7 DEF Handle, Answering

LEMMA ContractBoot ==
  ASSUME Inv, NEW s \in Sandbox, Boot(s)
  PROVE  [Contract!Next]_(Contract!vars)
<1>1. CASE ExecBrain(s) /\ brain' = brain \union {s}
  <2>1. s \notin brain /\ request[s] = "ok"
    BY <1>1 DEF ExecBrain, Inv, BootInv
  <2>2. Contract!Start(s)
    BY <1>1, <2>1 DEF ExecBrain, Stage, Contract!Start
  <2> QED
    BY <2>2 DEF Contract!Next
<1>2. CASE UNCHANGED brain
  <2>1. UNCHANGED <<config, request, box, grant, brain>>
    BY <1>2 DEF Boot, Bounded, BootBegins, PollPhase, NotReady, ProbeSvid, ProbeLlm,
                NoInference, ExecBrain, StreamEnds, CheckBrain, outside
  <2> QED
    BY <2>1, Invisible DEF Stage
<1>3. UNCHANGED brain \/ (ExecBrain(s) /\ brain' = brain \union {s})
  BY DEF Boot, Bounded, BootBegins, PollPhase, NotReady, ProbeSvid, ProbeLlm, NoInference,
         ExecBrain, StreamEnds, CheckBrain, outside
<1> QED
  BY <1>1, <1>2, <1>3

\* Its restart fails at most the launch that occupies the event loop.
LEMMA ContractRestart ==
  ASSUME Inv, Restart
  PROVE  [Contract!Next]_(Contract!vars)
<1>1. ASSUME NEW s \in Sandbox, handler = s
      PROVE  [Contract!Next]_(Contract!vars)
  <2>1. /\ request' = [request EXCEPT ![s] = "failed"]
        /\ request[s] \in InFlight
        /\ UNCHANGED outside /\ UNCHANGED config
    BY <1>1 DEF Restart, Inv, TypeOK, HandlerInv
  <2>2. Contract!Fail(s)
    BY <2>1, StageGoes
       DEF Stage, outside, InFlight, Inv, TypeOK, Contract!Fail, Contract!Goto
  <2> QED
    BY <2>2 DEF Contract!Next
<1>2. CASE handler = Nobody
  BY <1>2, NobodyAssumption, Invisible DEF Restart, Inv, TypeOK, Stage, outside
<1> QED
  BY <1>1, <1>2 DEF Inv, TypeOK

LEMMA ContractOthers ==
  ASSUME Inv,
         (\E s \in Sandbox : Token(s) \/ Sandboxes(s) \/ Settle(s)) \/ Tick \/ UNCHANGED vars
  PROVE  UNCHANGED Contract!vars
<1>1. /\ UNCHANGED <<config, request, grant, brain>>
      /\ \A s \in Sandbox : box[s] # "none" <=> box'[s] # "none"
  BY DEF Token, GetToken, Fetched, Sandboxes, Settle, Tick, vars, outside, Inv, TypeOK
<1> QED
  BY <1>1, Invisible DEF Stage

\* The launcher keeps the contract: a launch that succeeds has its sandbox and its
\* grant, one that fails undoes nothing, and a brain is started once, after a success.
THEOREM KeepsContractCorrect == Spec => KeepsContract
<1>1. Init => Contract!Init
  BY DEF Init, Config, Stage, Contract!Init
<1>2. Inv /\ [Next]_vars => [Contract!Next]_(Contract!vars)
  BY ContractHandle, ContractBoot, ContractRestart, ContractOthers DEF Next
<1> QED
  BY <1>1, <1>2, InvCorrect, PTL DEF Spec, KeepsContract, Contract!Spec
=============================================================================
