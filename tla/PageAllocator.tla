---------------------------- MODULE PageAllocator ----------------------------
(***************************************************************************)
(* What the physical page allocator promises its callers, with no free     *)
(* lists, no metadata and no splitting or merging: blocks of 2^order       *)
(* aligned pages out of a pool, never two blocks sharing a page, and a     *)
(* refusal only when no aligned run of free pages of that order is left.   *)
(* BuddyPmm is shown to implement it.                                      *)
(***************************************************************************)
EXTENDS Naturals

CONSTANTS
    TotalPages,     \* pages the page metadata table describes
    kMaxOrder,      \* the largest block has 2^kMaxOrder pages
    NoOrder         \* "the last request was not refused"

VARIABLES
    pool,       \* pages handed over to the allocator so far
    blocks,     \* blocks the callers hold
    refused     \* order of the request that was just refused, or NoOrder

vars == <<pool, blocks, refused>>

Page == 0 .. TotalPages - 1
Order == 0 .. kMaxOrder
Block == [pfn : Page, order : Order]

PagesOf(b) == b.pfn .. b.pfn + 2^b.order - 1
Used == UNION {PagesOf(b) : b \in blocks}

\* The blocks a request of order o can be answered with.
Fits(o) == {b \in Block : /\ b.order = o
                          /\ b.pfn % 2^o = 0
                          /\ PagesOf(b) \subseteq pool \ Used}

Init ==
    /\ pool = {}
    /\ blocks = {}
    /\ refused = NoOrder

\* A page is added to the pool.
Give(p) ==
    /\ p \notin pool
    /\ pool' = pool \cup {p}
    /\ refused' = NoOrder
    /\ UNCHANGED blocks

Alloc(o) ==
    /\ \E b \in Fits(o) : blocks' = blocks \cup {b}
    /\ refused' = NoOrder
    /\ UNCHANGED pool

Refuse(o) ==
    /\ Fits(o) = {}
    /\ refused' = o
    /\ UNCHANGED <<pool, blocks>>

Free(b) ==
    /\ blocks' = blocks \ {b}
    /\ refused' = NoOrder
    /\ UNCHANGED pool

Next ==
    \/ \E p \in Page : Give(p)
    \/ \E o \in Order : Alloc(o) \/ Refuse(o)
    \/ \E b \in blocks : Free(b)

Spec == Init /\ [][Next]_vars
==============================================================================
