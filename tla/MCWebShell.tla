------------------------------ MODULE MCWebShell -------------------------------
(***************************************************************************)
(* WebShell with a busy page, and another one in which nothing is typed.     *)
(***************************************************************************)
EXTENDS WebShell

CONSTANTS s1, s2

OnPage(n) == [s \in Shell |-> IF s = s1 THEN n ELSE 0]

MCKeys    == OnPage(2)
MCOutputs == OnPage(1)
=============================================================================
