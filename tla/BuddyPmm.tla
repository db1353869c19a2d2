------------------------------ MODULE BuddyPmm ------------------------------
(***************************************************************************)
(* The buddy allocator of physical pages (mem/phys/mngr/buddy.cpp) over    *)
(* the page metadata table (mem/page_meta.hpp).                            *)
(*                                                                         *)
(* pmm is the allocator's memory: meta[p] is the type and the order of     *)
(* page p's entry in the table, and freelist[o] the list headed by         *)
(* freelist_table_[o], first block first (the next/prev links of the       *)
(* entries are the neighbours in that sequence).  The code's loops are     *)
(* operators from one such record to the next, so that a caller can use    *)
(* the allocator several times within one step of its own.                 *)
(***************************************************************************)
EXTENDS Naturals, FiniteSets, SequencesExt

CONSTANTS
    TotalPages,     \* pages of the page metadata table
    kMaxOrder,      \* order of the largest block
    FreeAtBoot,     \* pages the boot bitmap says are free
    PageLimit,      \* page_limit: how many of them Init hands over
    NoOrder         \* not an order

ASSUME BuddyAssumption ==
    /\ TotalPages \in Nat \ {0}
    /\ kMaxOrder \in Nat
    /\ PageLimit \in Nat
    /\ FreeAtBoot \subseteq 0 .. TotalPages - 1
    /\ NoOrder \notin 0 .. kMaxOrder

VARIABLES
    pmm,        \* [meta, freelist], see above
    cursor,     \* Init's loop counter
    pool,       \* pages Init has freed into the allocator
    held,       \* first pages of the blocks callers hold
    refused     \* order of the request just refused, or NoOrder

buddyVars == <<pmm, cursor, pool, held, refused>>

Page == 0 .. TotalPages - 1
Order == 0 .. kMaxOrder
PageMetaType == {"Buddy", "Allocated", "Slab", "PageTable", "Dummy"}
PageMeta == [type : PageMetaType, order : Order]

PagesFrom(p, o) == p .. p + 2^o - 1

------------------------------------------------------------------------------
(* The allocator's helpers.                                                *)

\* pfn XOR 2^order.
GetBuddyPfn(p, o) == IF (p \div 2^o) % 2 = 0 THEN p + 2^o ELSE p - 2^o

ListRemove(m, p) == [m EXCEPT !.freelist[m.meta[p].order] = Remove(@, p)]

InitBuddy(o) == [type |-> "Buddy", order |-> o]
InitAllocated(o) == [type |-> "Allocated", order |-> o]

\* Halve the block at p down to the target order: each upper half becomes a
\* free block of its own, and p keeps the lowest one.
SplitBlock(m, p, target) ==
    LET halves == target .. m.meta[p].order - 1
        HalfAt(q) == {o \in halves : q = GetBuddyPfn(p, o)}
    IN  [meta |-> [q \in Page |->
             IF HalfAt(q) # {} THEN InitBuddy(Max(HalfAt(q)))
             ELSE IF q = p THEN [m.meta[p] EXCEPT !.order = target]
             ELSE m.meta[q]],
         freelist |-> [o \in Order |->
             IF o \in halves THEN <<GetBuddyPfn(p, o)>> \o m.freelist[o]
                             ELSE m.freelist[o]]]

\* The block that absorbs the one at p starts here at order k.
HeadAt(p, k) == p - (p % 2^k)

\* MergeBlock's test at order k: the buddy is in range, free and as large.
BuddyIsFree(m, p, k) ==
    LET b == GetBuddyPfn(HeadAt(p, k), k)
    IN  b < TotalPages /\ m.meta[b] = InitBuddy(k)

\* (mutant) Nothing is ever merged.
MergedOrderStays(m, p) == m.meta[p].order

\* The order at which MergeBlock's loop stops.
MergedOrder(m, p) ==
    LET first == m.meta[p].order
    IN  CHOOSE k \in first .. kMaxOrder :
          /\ \A j \in first .. k - 1 : BuddyIsFree(m, p, j)
          /\ k = kMaxOrder \/ ~BuddyIsFree(m, p, k)

\* (mutant) The entries of the absorbed buddies are not invalidated.
MergeBlockDangles(m, p) ==
    LET top == MergedOrder(m, p)
        absorbed == {GetBuddyPfn(HeadAt(p, j), j) : j \in m.meta[p].order .. top - 1}
    IN  [meta |-> [m.meta EXCEPT ![HeadAt(p, top)].order = top],
         freelist |-> [o \in Order |->
             SelectSeq(m.freelist[o], LAMBDA q : q \notin absorbed)]]

\* Absorb the free buddies, taking each off its list and making its entry
\* Dummy; the entry of the block they end up in gets the final order.  When p
\* itself is an upper half its own entry is left as it was.
MergeBlock(m, p) ==
    LET top == MergedOrder(m, p)
        absorbed == {GetBuddyPfn(HeadAt(p, j), j) : j \in m.meta[p].order .. top - 1}
        Dummied == [q \in Page |-> IF q \in absorbed
                                   THEN [m.meta[q] EXCEPT !.type = "Dummy"]
                                   ELSE m.meta[q]]
    IN  [meta |-> [Dummied EXCEPT ![HeadAt(p, top)].order = top],
         freelist |-> [o \in Order |->
             SelectSeq(m.freelist[o], LAMBDA q : q \notin absorbed)]]

------------------------------------------------------------------------------
(* The allocator's two operations, as functions of its memory.             *)

Candidates(m, o) == {k \in o .. kMaxOrder : m.freelist[k] # <<>>}

\* The first block of the smallest order that is large enough, split down to
\* the order asked for and marked Allocated.  Only for Candidates(m, o) # {}.
Allocated(m, o) ==
    LET current == Min(Candidates(m, o))
        p == Head(m.freelist[current])
        taken == ListRemove(m, p)
        split == IF current > o THEN SplitBlock(taken, p, o) ELSE taken
    IN  [pfn |-> p, pmm |-> [split EXCEPT !.meta[p] = InitAllocated(o)]]

\* The assertion at the head of Free.
FreeAsserts(m, p) == m.meta[p].type = "Allocated"

Freed(m, p) ==
    LET merged == MergeBlock(m, p)
        top == MergedOrder(m, p)
        head == HeadAt(p, top)
    IN  [meta |-> [merged.meta EXCEPT ![head] = InitBuddy(top)],
         freelist |-> [merged.freelist EXCEPT ![top] = <<head>> \o @]]

------------------------------------------------------------------------------
(* The allocator as a state machine.                                       *)

BuddyInit ==
    /\ pmm = [meta |-> [p \in Page |-> InitAllocated(0)],
              freelist |-> [o \in Order |-> <<>>]]
    /\ cursor = 0
    /\ pool = {}
    /\ held = {}
    /\ refused = NoOrder

Booted == cursor = TotalPages \/ Cardinality(pool) = PageLimit

\* One turn of Init's second loop.
InitPage ==
    /\ ~Booted
    /\ cursor' = cursor + 1
    /\ IF cursor \in FreeAtBoot
       THEN pmm' = Freed(pmm, cursor) /\ pool' = pool \cup {cursor}
       ELSE UNCHANGED <<pmm, pool>>
    /\ refused' = NoOrder
    /\ UNCHANGED held

\* A request of order o that finds no block.
BuddyRefuse(o) ==
    /\ Candidates(pmm, o) = {}
    /\ refused' = o
    /\ UNCHANGED <<pmm, cursor, pool, held>>

\* A request of order o that is met.  Whoever asked goes on with the
\* allocator's memory Allocated(pmm, o).pmm, and says what pmm becomes.
BuddyAlloc(o) ==
    /\ Candidates(pmm, o) # {}
    /\ held' = held \cup {Allocated(pmm, o).pfn}
    /\ refused' = NoOrder
    /\ UNCHANGED <<cursor, pool>>

BuddyFree(p) ==
    /\ FreeAsserts(pmm, p)
    /\ pmm' = Freed(pmm, p)
    /\ held' = held \ {p}
    /\ refused' = NoOrder
    /\ UNCHANGED <<cursor, pool>>

------------------------------------------------------------------------------
(* What the allocator guarantees.                                          *)

BlockPages(p) == PagesFrom(p, pmm.meta[p].order)
FreeHeads == UNION {ToSet(pmm.freelist[o]) : o \in Order}

(* An entry says Buddy of order o exactly when its page heads a block on   *)
(* the list of that order, once: MergeBlock trusts the entry of a page it  *)
(* has not looked up on any list, and ListRemove unlinks on its word.      *)
FreeListsMatchMetadata ==
    \A o \in Order : LET list == pmm.freelist[o] IN
        /\ IsInjective(list)
        /\ ToSet(list) = {p \in Page : pmm.meta[p] = InitBuddy(o)}

(* The blocks on the free lists and the blocks the callers hold cut the    *)
(* pages Init gave the allocator into pieces: no page is lost by a split,  *)
(* a merge or a failed growth, and none belongs to two blocks; and the     *)
(* free lists are what the metadata say they are.                          *)
PagesAccountedFor ==
    /\ FreeListsMatchMetadata
    /\ FreeHeads \cap held = {}
    /\ UNION {BlockPages(p) : p \in FreeHeads \cup held} = pool
    /\ \A p, q \in FreeHeads \cup held :
          p # q => BlockPages(p) \cap BlockPages(q) = {}

(* The specification of the page allocator, with the blocks read off the   *)
(* metadata of the pages the callers hold.                                 *)
Abstract == INSTANCE PageAllocator WITH
    blocks <- {[pfn |-> p, order |-> pmm.meta[p].order] : p \in held}

(* The buddy allocator implements the page allocator: an answer is an      *)
(* aligned run of pages nobody holds, and a request is refused only when   *)
(* there is none, which is what merging on every Free is for.              *)
ImplementsPageAllocator == Abstract!Spec
==============================================================================
