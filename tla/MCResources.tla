------------------------------ MODULE MCResources ------------------------------
(* Resources for TLC: two process slots, two standard pipes and one further    *)
(* descriptor per process, and an open file table that one process can fill    *)
(* and that is full after the first pipe of a second one.                      *)
EXTENDS Resources, TLC

CONSTANTS i1, i2, e1, e2, e3, f1, f2, b1, b2, p1, p2

MCSlot == {i1, i2}
MCEntry == {e1, e2, e3}
MCFile == {f1, f2}
MCPath == {p1, p2}
MCBuffer == {b1, b2}

\* Free slots of a pool are alike: which of them CHOOSE takes gives the same
\* state up to a permutation of the pool.
MCSymmetry ==
    UNION {Permutations(S) : S \in {MCSlot, MCEntry, MCFile, MCPath, MCBuffer}}
================================================================================
