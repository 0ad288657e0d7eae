---------------------------- MODULE MCJitApprover ----------------------------
(* Small instances of JitApprover for TLC. *)
EXTENDS JitApprover, TLC

CONSTANTS alice, bob, narrow, wide

\* Two requests of alice's, and what a reviewer may make of one in the pull
\* request: less scope for a shorter time, with a network widening.
Plain     == [requester |-> alice, scope |-> wide, widens |-> FALSE, duration |-> 3]
Networked == [requester |-> alice, scope |-> narrow, widens |-> TRUE, duration |-> 2]

PlainOrNetworked == {Plain, Networked}
PlainOnly       == {Plain}
NetworkedOnly   == {Networked}

Symmetry == Permutations(Handler) \union Permutations(Delivery)

=============================================================================
