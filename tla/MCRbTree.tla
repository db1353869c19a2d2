------------------------------ MODULE MCRbTree ------------------------------
(***************************************************************************)
(* Ten keys, one of which belongs to three threads.                        *)
(***************************************************************************)
EXTENDS RbTree

MCNode == 1..12
MCKey == [n \in 1..12 |-> IF n <= 10 THEN n ELSE 6]
=============================================================================
