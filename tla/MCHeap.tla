------------------------------- MODULE MCHeap -------------------------------
(***************************************************************************)
(* The heap on five pages: blocks of up to four pages, a cache of two     *)
(* objects on one page, and an off-slab cache of three objects on two      *)
(* pages, three being the most that its two-bit indices can count.         *)
(***************************************************************************)
EXTENDS Heap

MCCache == {"small", "large"}
MCCapacity == [c \in MCCache |-> IF c = "small" THEN 2 ELSE 3]
MCBlockOrder == [c \in MCCache |-> IF c = "small" THEN 0 ELSE 1]
MCMetaCache == [c \in MCCache |-> IF c = "small" THEN NoCache ELSE "small"]
MCMetaWidths == {1, 2, 4}
MCFreeAtBoot == Page
==============================================================================
