----------------------------- MODULE PageTables -----------------------------
(***************************************************************************)
(* The page tables of user address spaces: Mmu (arch/x86_64 hal/impl/      *)
(* mmu.tpp) and the table pages it takes from KernelMmuContext             *)
(* (mem/mmu/contexts.hpp).  Operators on a function tb from page frames to *)
(* tables, one operator per function of Mmu; Map, which page faults of     *)
(* several threads can be inside of at once, is split at its levels and    *)
(* found in module Vmm.  A table keeps its entries and, in the metadata of *)
(* its page, the number of entries in use.  The upper half of the root,    *)
(* shared with the kernel, is left out.                                    *)
(***************************************************************************)
EXTENDS Naturals, FiniteSets, SequencesExt

CONSTANTS
    Pool,      \* page frames the buddy allocator has for tables
    Levels,    \* 4 in the code
    Fan,       \* entries of a table, 512 in the code
    None

ASSUME PageTablesAssumption ==
    /\ Pool \subseteq Nat /\ IsFiniteSet(Pool)
    /\ Levels \in Nat \ {0} /\ Fan \in Nat \ {0, 1}
    /\ None \notin Nat

Index == 0..Fan - 1

\* A page table entry: the frame and the one flag the properties tell apart.
Leaf(frame, writable) == [frame |-> frame, writable |-> writable]

FreePage == [level |-> 0, entry |-> [i \in Index |-> None], refs |-> 0]

EmptyTable(level) == [FreePage EXCEPT !.level = level]

FreePages(tb) == {f \in Pool : tb[f] = FreePage}

PmeIdx(l, v) == (v \div Fan^(l - 1)) % Fan

\* AllocateTable: the page is cleared and its count of entries starts at 0.
AllocateTable(tb, f, level) == [tb EXCEPT ![f] = EmptyTable(level)]

\* SetNextLevelTable or SetFrameAddress with the IncreaseUsage after it.
SetEntry(tb, f, i, e) ==
    [tb EXCEPT ![f].entry[i] = e, ![f].refs = @ + 1]

\* The tables on the way to page v: path[l] is the one of level l, or None.
Path(tb, root, v) ==
    LET path[l \in 1..Levels] ==
            IF l = Levels THEN root
            ELSE IF path[l + 1] = None THEN None
                 ELSE tb[path[l + 1]].entry[PmeIdx(l + 1, v)]
    IN  path

Translate(tb, root, v) ==
    LET pt == Path(tb, root, v)[1]
    IN  IF pt = None THEN None ELSE tb[pt].entry[PmeIdx(1, v)]

\* (mutant) the entry of a table that was given back stays in its parent
UnmapDangling(tb, root, v) ==
    LET path == Path(tb, root, v)
        pt   == path[1]
        refs == tb[pt].refs - 1
    IN  IF Translate(tb, root, v) = None THEN tb
        ELSE IF refs = 0 /\ Levels > 1 THEN [tb EXCEPT ![pt] = FreePage]
        ELSE [tb EXCEPT ![pt].entry[PmeIdx(1, v)] = None, ![pt].refs = refs]

(***************************************************************************)
(* Clears the entry of v and, as long as the table it was in has no entry  *)
(* left, gives the table back and clears its entry one level up.           *)
(***************************************************************************)
Unmap(tb, root, v) ==
    LET path == Path(tb, root, v)
        Up(acc, l) ==
            IF ~acc.up THEN acc
            ELSE LET f     == path[l]
                     clear == [acc.tb EXCEPT
                                 ![f].entry[PmeIdx(l, v)] = None,
                                 ![f].refs = IF @ > 0 THEN @ - 1 ELSE 0]
                     empty == clear[f].refs = 0 /\ l < Levels
                 IN  [tb |-> IF empty THEN [clear EXCEPT ![f] = FreePage] ELSE clear,
                      up |-> empty]
    IN  IF Translate(tb, root, v) = None THEN tb
        ELSE FoldLeft(Up, [tb |-> tb, up |-> TRUE], [l \in 1..Levels |-> l]).tb

\* The pages of a range are unmapped in ascending order.
UnmapRange(tb, root, start, size) ==
    FoldLeft(LAMBDA acc, i : Unmap(acc, root, start + i - 1), tb, [i \in 1..size |-> i])

\* A page without an entry is NotFound, which the caller ignores.
SetPageFlags(tb, root, v, writable) ==
    LET pt == Path(tb, root, v)[1]
    IN  IF Translate(tb, root, v) = None THEN tb
        ELSE [tb EXCEPT ![pt].entry[PmeIdx(1, v)].writable = writable]

\* The tables below a root, and the root.
TablesOf(tb, root) ==
    LET at[l \in 1..Levels] ==
            IF l = Levels THEN {root}
            ELSE {tb[f].entry[i] : f \in at[l + 1], i \in Index} \ {None}
    IN  UNION {at[l] : l \in 1..Levels}

\* DestroyTable on every entry of the root, which stays, empty.
ClearUserMappings(tb, root) ==
    [f \in Pool |-> IF f = root THEN [tb[f] EXCEPT !.entry = EmptyTable(Levels).entry]
                    ELSE IF f \in TablesOf(tb, root) THEN FreePage ELSE tb[f]]

FreeTable(tb, f) == [tb EXCEPT ![f] = FreePage]
=============================================================================
