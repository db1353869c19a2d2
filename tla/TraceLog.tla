------------------------------ MODULE TraceLog ------------------------------
(***************************************************************************)
(* What the kernel's trace log promises: traces are printed whole, once,   *)
(* in the order in which they were written; one that finds no room is      *)
(* dropped.                                                                *)
(***************************************************************************)
EXTENDS Integers, Sequences

CONSTANTS Trace   \* the traces: sequences of bytes

VARIABLES queue,  \* what was written and not printed
          out     \* what was printed last

LogInit == queue = <<>> /\ out = <<>>

Write == \E trace \in Trace : queue' = queue \o trace /\ out' = out

Dump ==
    \E n \in 1..Len(queue) :
        /\ out' = SubSeq(queue, 1, n)
        /\ queue' = SubSeq(queue, n + 1, Len(queue))

LogSpec == LogInit /\ [][Write \/ Dump]_<<queue, out>>
=============================================================================
