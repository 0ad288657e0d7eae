------------------------------- MODULE JitGrant -------------------------------
(***************************************************************************)
(* What the just-in-time approver promises: people decide about a request,  *)
(* a request that is open is granted one of the things that were decided    *)
(* about it, at most once ever, and a grant ends.  How a decision arrives,  *)
(* who else tries to grant at the same time, and what Vault does meanwhile  *)
(* are not visible here.                                                    *)
(***************************************************************************)
CONSTANTS Session, Decision, None

VARIABLES
  decided,  \* [Session -> SUBSET Decision], what people decided so far
  phase,    \* [Session -> Phases]
  grant,    \* [Session -> Decision \union {None}], what was granted
  spent     \* the sessions that were ever granted something

vars == <<decided, phase, grant, spent>>

Phases == {"unknown", "open", "granted", "ended", "denied"}

Init == /\ decided = [s \in Session |-> {}]
        /\ phase = [s \in Session |-> "unknown"]
        /\ grant = [s \in Session |-> None]
        /\ spent = {}

\* Somebody decides; it may never come to anything.
Decide(s, x) ==
  /\ decided' = [decided EXCEPT ![s] = @ \union {x}]
  /\ UNCHANGED <<phase, grant, spent>>

Open(s) ==
  /\ phase[s] = "unknown" /\ s \notin spent
  /\ phase' = [phase EXCEPT ![s] = "open"]
  /\ UNCHANGED <<decided, grant, spent>>

Grant(s, x) ==
  /\ phase[s] = "open" /\ s \notin spent
  /\ x \in decided[s]
  /\ phase' = [phase EXCEPT ![s] = "granted"]
  /\ grant' = [grant EXCEPT ![s] = x]
  /\ spent' = spent \union {s}
  /\ UNCHANGED decided

Deny(s) ==
  /\ phase[s] = "open"
  /\ phase' = [phase EXCEPT ![s] = "denied"]
  /\ UNCHANGED <<decided, grant, spent>>

End(s) ==
  /\ phase[s] = "granted"
  /\ phase' = [phase EXCEPT ![s] = "ended"]
  /\ UNCHANGED <<decided, grant, spent>>

\* The approver forgets every request, and what was granted stays spent.
Forget ==
  /\ phase' = [s \in Session |-> "unknown"]
  /\ grant' = [s \in Session |-> None]
  /\ UNCHANGED <<decided, spent>>

Next == \/ \E s \in Session, x \in Decision : Decide(s, x) \/ Grant(s, x)
        \/ \E s \in Session : Open(s) \/ Deny(s) \/ End(s)
        \/ Forget

Spec == Init /\ [][Next]_vars

=============================================================================
