------------------------------ MODULE MCElevation ------------------------------
(***************************************************************************)
(* Elevation with two calls: the same twice; two tools in one sandbox, one   *)
(* of them in the scope of the other's token; and one tool in two sandboxes. *)
(* A merged file may be another sandbox's grant, or name another requester   *)
(* and last longer.                                                          *)
(***************************************************************************)
EXTENDS Elevation

CONSTANTS c1, c2, s1, s2, ana, bob

Need(s, t) == [sandbox |-> s, tool |-> t]

MCNeeds == { [c \in Call |-> IF c = c1 THEN Need(s1, "pods_exec") ELSE n] :
               n \in {Need(s1, "pods_exec"), Need(s1, "pods_run"), Need(s2, "pods_exec")} }

MCEdits == {[sandbox |-> s1, requester |-> bob, tools |-> {"pods_exec", "pods_run"}, duration |-> 4],
            [sandbox |-> s2, requester |-> ana, tools |-> {"pods_run"}, duration |-> 3]}
=============================================================================
