------------------------------- MODULE MCVmm -------------------------------
(* Instances of Vmm for TLC. *)
EXTENDS Vmm

CONSTANTS a1, a2, t1, t2, t3

MCSeg(start, size, writable) == [start |-> start, size |-> size, writable |-> writable]

\* A process with two threads and one with a single thread, which can be
\* interrupted while it maps a page.
MCSpaceOf == t1 :> a1 @@ t2 :> a1 @@ t3 :> a2

MCPreempt == {<<t3, "walk">>}

\* Two threads of one process, both interrupted there.
MCOneSpace == t1 :> a1 @@ t2 :> a1

MCPreemptBoth == {<<t1, "walk">>, <<t2, "walk">>}

\* A text segment of two pages, data in front of which text is loaded, and a
\* file with two segments that share a page.
MCPrograms == {<<MCSeg(2, 2, FALSE)>>,
               <<MCSeg(5, 1, TRUE), MCSeg(4, 1, FALSE)>>,
               <<MCSeg(3, 1, FALSE), MCSeg(2, 2, TRUE)>>}

MCOneProgram == {<<MCSeg(2, 1, FALSE)>>}

MCPool == 0..5
=============================================================================
