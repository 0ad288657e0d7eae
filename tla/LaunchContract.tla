---------------------------- MODULE LaunchContract ----------------------------
(***************************************************************************)
(* What POST /launch of the sandbox-launcher promises its callers, the      *)
(* console among them: a launch that succeeds made the sandbox and wrote    *)
(* its consent grant, in that order; one that fails may leave the sandbox,  *)
(* or the sandbox and the grant, behind; a brain runs only in a sandbox     *)
(* whose launch succeeded, and is started once.                             *)
(***************************************************************************)

CONSTANT Sandbox

VARIABLES
  launch,  \* how far the launch is
  made,    \* the sandboxes that were ever created
  grant,   \* the sandboxes with a consent grant in Vault
  brain,   \* the sandboxes whose brain was started
  vault    \* grants are written at all

vars == <<launch, made, grant, brain, vault>>

Init ==
  /\ launch = [s \in Sandbox |-> "open"]
  /\ made = {} /\ grant = {} /\ brain = {}
  /\ vault \in BOOLEAN

Goto(s, from, to) == launch[s] = from /\ launch' = [launch EXCEPT ![s] = to]

Create(s) ==
  /\ Goto(s, "open", "made")
  /\ made' = made \union {s}
  /\ UNCHANGED <<grant, brain, vault>>

Consent(s) ==
  /\ Goto(s, "made", "consented")
  /\ grant' = IF vault THEN grant \union {s} ELSE grant
  /\ UNCHANGED <<made, brain, vault>>

Answer(s) == Goto(s, "consented", "ok") /\ UNCHANGED <<made, grant, brain, vault>>

\* A call that fails takes effect or not; nothing is undone.
Fail(s) ==
  /\ \/ Goto(s, "open", "failed") /\ made' \in {made, made \union {s}} /\ UNCHANGED grant
     \/ Goto(s, "made", "failed") /\ grant' \in {grant, grant \union {s}} /\ UNCHANGED made
     \/ Goto(s, "consented", "failed") /\ UNCHANGED <<made, grant>>
  /\ UNCHANGED <<brain, vault>>

Start(s) ==
  /\ launch[s] = "ok" /\ s \notin brain
  /\ brain' = brain \union {s}
  /\ UNCHANGED <<launch, made, grant, vault>>

Next == \E s \in Sandbox : Create(s) \/ Consent(s) \/ Answer(s) \/ Fail(s) \/ Start(s)

Spec == Init /\ [][Next]_vars
=============================================================================
