-------------------------------- MODULE Heap --------------------------------
(***************************************************************************)
(* The kernel heap (mem/heap.cpp) over its slab caches                     *)
(* (mem/phys/mngr/slab.cpp) over the buddy allocator.                      *)
(*                                                                         *)
(* A request below a page goes to the cache of its size class, a larger    *)
(* one straight to the buddy allocator.  A cache carves objects out of     *)
(* slabs, blocks of the buddy allocator; the free objects of a slab are    *)
(* chained by index through an array of narrow integers, which lies behind *)
(* the objects or, off-slab, in an object of another cache.  Every call    *)
(* runs under LocalCoreLock, so a call is one step, except that a cache    *)
(* that grows off-slab takes a step for the slab and one for its array:    *)
(* each step then uses the buddy allocator once.                           *)
(***************************************************************************)
EXTENDS BuddyPmm

CONSTANTS
    Cache,          \* the size classes
    Capacity,       \* num_objects_ of each cache
    BlockOrder,     \* block_order_ of each cache
    MetaCache,      \* meta_cache_ of each cache, NoCache when on-slab
    MetaWidths,     \* widths in bits of MetadataSize's integers
    SizeBits,       \* width in bits of size_t
    MaxHeld,        \* bound: objects and blocks callers hold at a time
    NoCache

ASSUME HeapAssumption ==
    /\ Capacity \in [Cache -> Nat \ {0}]
    /\ BlockOrder \in [Cache -> Order]
    /\ NoCache \notin Cache
    /\ MetaCache \in [Cache -> Cache \cup {NoCache}]
    /\ \A c \in Cache : MetaCache[c] # NoCache => MetaCache[MetaCache[c]] = NoCache
    /\ MetaWidths \subseteq Nat \ {0} /\ SizeBits \in MetaWidths
    /\ \A c \in Cache : Capacity[c] < 2^SizeBits - 1

VARIABLES
    cache,      \* cache[c]: slab lists, first slab first, and counters
    slab,       \* slab[p]: the slab whose first page is p, or NoSlab
    objects,    \* objects callers hold: first page of the slab and index
    pages,      \* first pages of the blocks callers hold
    growing     \* the off-slab cache that has its slab but not its array yet

heapVars == <<pmm, cursor, pool, held, refused, cache, slab, objects, pages, growing>>

kFreelistSentinel == 2^SizeBits - 1
OffSlab(c) == MetaCache[c] # NoCache

\* (mutant) An integer that can hold every index, but not the sentinel too.
MetadataSizeTight(c) == Min({w \in MetaWidths : Capacity[c] <= 2^w})

\* InitCacheHelper's choice off-slab, SlabEfficiencyInfo's on-slab: the
\* narrowest integer that can count the objects.
MetadataSize(c) ==
    Min({w \in MetaWidths : IF OffSlab(c) THEN Capacity[c] <= 2^w - 1
                                          ELSE Capacity[c] < 2^w - 1})

\* What is stored when next_idx is cast to the cache's integer, and what the
\* stored value means when it is read back.
SetNextFreeIdx(c, idx) == idx % 2^MetadataSize(c)
GetNextFreeIdx(c, val) ==
    IF val = 2^MetadataSize(c) - 1 THEN kFreelistSentinel ELSE val

Object == [slab : Page, idx : 0 .. Max({Capacity[c] : c \in Cache}) - 1]
NoObject == [slab |-> TotalPages, idx |-> 0]
NoSlab == [cache |-> NoCache]
NotGrowing == [cache |-> NoCache, slab |-> TotalPages]

\* The head of the chain is a size_t in the page's entry when on-slab, and
\* element 0 of the array, cast like the others, when off-slab.
SetHead(c, idx) == IF OffSlab(c) THEN SetNextFreeIdx(c, idx) ELSE idx
GetHead(c, val) == IF OffSlab(c) THEN GetNextFreeIdx(c, val) ELSE val

NewSlab(c, array) ==
    [cache |-> c, array |-> array, inuse |-> 0, head |-> SetHead(c, 0),
     next |-> [i \in 0 .. Capacity[c] - 1 |->
                  SetNextFreeIdx(c, IF i = Capacity[c] - 1 THEN kFreelistSentinel
                                                           ELSE i + 1)]]

NewCache == [partial |-> <<>>, full |-> <<>>, free |-> <<>>,
             total |-> 0, numPartial |-> 0, numFree |-> 0]

------------------------------------------------------------------------------
(* A cache's operations, on a record st == [cache, slab].                  *)

RemoveFromList(k, p) == [k EXCEPT !.partial = Remove(@, p),
                                  !.full = Remove(@, p),
                                  !.free = Remove(@, p)]
MoveToPartial(k, p) == [RemoveFromList(k, p) EXCEPT !.partial = <<p>> \o @]
MoveToFull(k, p) == [RemoveFromList(k, p) EXCEPT !.full = <<p>> \o @]
MoveToFree(k, p) == [RemoveFromList(k, p) EXCEPT !.free = <<p>> \o @]

\* The end of AllocSlab: the block at p becomes a slab of c.
AddSlab(st, c, p, array) ==
    [cache |-> [st.cache EXCEPT ![c].partial = <<p>> \o @,
                                ![c].total = @ + 1,
                                ![c].numPartial = @ + 1],
     slab |-> [st.slab EXCEPT ![p] = NewSlab(c, array)]]

InitSlab(meta, p, o) ==
    [q \in Page |-> IF q \in PagesFrom(p, o) THEN [type |-> "Slab", order |-> o]
                                             ELSE meta[q]]

HasSlab(k) == k.partial # <<>> \/ k.free # <<>>

\* Alloc's choice of a slab, for a cache that need not grow.
Ready(k) ==
    IF k.partial = <<>>
    THEN [MoveToPartial(k, Head(k.free)) EXCEPT !.numFree = @ - 1, !.numPartial = @ + 1]
    ELSE k

\* (mutant) A slab whose last object is taken stays on the partial list.
PopLeavesFull(st, c) ==
    LET k == Ready(st.cache[c])
        p == Head(k.partial)
        idx == GetHead(c, st.slab[p].head)
    IN  [obj |-> [slab |-> p, idx |-> idx],
         st |-> [cache |-> [st.cache EXCEPT ![c] = k],
                 slab |-> [st.slab EXCEPT
                    ![p].head = SetHead(c, GetNextFreeIdx(c, st.slab[p].next[idx])),
                    ![p].inuse = @ + 1]]]

\* Alloc once there is a slab: the object at the head of the chain of the
\* first partial slab.  pop.obj is the object and pop.st the state after.
Pop(st, c) ==
    LET k == Ready(st.cache[c])
        p == Head(k.partial)
        s == st.slab[p]
        idx == GetHead(c, s.head)
        t == [s EXCEPT !.head = SetHead(c, GetNextFreeIdx(c, s.next[idx])),
                       !.inuse = @ + 1]
        moved == IF t.inuse = Capacity[c]
                 THEN [MoveToFull(k, p) EXCEPT !.numPartial = @ - 1]
                 ELSE k
    IN  [obj |-> [slab |-> p, idx |-> idx],
         st |-> [cache |-> [st.cache EXCEPT ![c] = moved],
                 slab |-> [st.slab EXCEPT ![p] = t]]]

\* KmemCache::Free.
Push(st, c, obj) ==
    LET p == obj.slab
        k == st.cache[c]
        s == st.slab[p]
        t == [s EXCEPT !.next[obj.idx] = SetNextFreeIdx(c, GetHead(c, s.head)),
                       !.head = SetHead(c, obj.idx),
                       !.inuse = @ - 1]
        moved ==
          IF t.inuse = 0
          THEN [MoveToFree(k, p) EXCEPT
                  !.numPartial = IF Capacity[c] > 1 THEN @ - 1 ELSE @,
                  !.numFree = @ + 1]
          ELSE IF t.inuse = Capacity[c] - 1
          THEN [MoveToPartial(k, p) EXCEPT !.numPartial = @ + 1]
          ELSE k
    IN  [cache |-> [st.cache EXCEPT ![c] = moved],
         slab |-> [st.slab EXCEPT ![p] = t]]

State == [cache |-> cache, slab |-> slab]
Become(st) == cache' = st.cache /\ slab' = st.slab

------------------------------------------------------------------------------
(* The heap's operations.                                                  *)

HeapInit ==
    /\ BuddyInit
    /\ cache = [c \in Cache |-> NewCache]
    /\ slab = [p \in Page |-> NoSlab]
    /\ objects = {}
    /\ pages = {}
    /\ growing = NotGrowing

Boot == InitPage /\ UNCHANGED <<cache, slab, objects, pages, growing>>

\* No call is under way.
Idle == Booted /\ growing = NotGrowing

CanAsk == Idle /\ Cardinality(objects) + Cardinality(pages) < MaxHeld

\* Hand the next object of cache c in state st to the caller.
Give(st, c) ==
    LET pop == Pop(st, c)
    IN  Become(pop.st) /\ objects' = objects \cup {pop.obj}

\* Malloc of a small size, from a slab there is.
MallocObject(c) ==
    /\ CanAsk
    /\ HasSlab(cache[c])
    /\ Give(State, c)
    /\ UNCHANGED <<buddyVars, pages, growing>>

\* Malloc of a small size from a cache that grows by an on-slab slab.
MallocGrow(c) ==
    /\ CanAsk
    /\ ~HasSlab(cache[c]) /\ ~OffSlab(c)
    /\ LET o == BlockOrder[c]
           got == Allocated(pmm, o)
       IN  /\ BuddyAlloc(o)
           /\ pmm' = [got.pmm EXCEPT !.meta = InitSlab(@, got.pfn, o)]
           /\ Give(AddSlab(State, c, got.pfn, NoObject), c)
    /\ UNCHANGED <<pages, growing>>

\* Malloc of a small size from a cache that grows off-slab: the slab.
MallocGrowOffSlab(c) ==
    /\ CanAsk
    /\ ~HasSlab(cache[c]) /\ OffSlab(c)
    /\ LET got == Allocated(pmm, BlockOrder[c])
       IN  /\ BuddyAlloc(BlockOrder[c])
           /\ pmm' = got.pmm
           /\ growing' = [cache |-> c, slab |-> got.pfn]
    /\ UNCHANGED <<cache, slab, objects, pages>>

\* Then the array, from the meta cache in state st, and the object asked for.
FinishGrowth(st, m) ==
    LET c == growing.cache
        meta == Pop(st, MetaCache[c])
    IN  /\ pmm' = [m EXCEPT !.meta = InitSlab(@, growing.slab, BlockOrder[c])]
        /\ Give(AddSlab(meta.st, c, growing.slab, meta.obj), c)
        /\ growing' = NotGrowing
        /\ UNCHANGED pages

MetaObject ==
    /\ growing # NotGrowing
    /\ HasSlab(cache[MetaCache[growing.cache]])
    /\ FinishGrowth(State, pmm)
    /\ UNCHANGED <<cursor, pool, held, refused>>

\* The meta cache has to grow for it.
MetaObjectGrow ==
    /\ growing # NotGrowing
    /\ LET c == MetaCache[growing.cache]
           got == Allocated(pmm, BlockOrder[c])
       IN  /\ ~HasSlab(cache[c])
           /\ BuddyAlloc(BlockOrder[c])
           /\ FinishGrowth(AddSlab(State, c, got.pfn, NoObject),
                           [got.pmm EXCEPT !.meta = InitSlab(@, got.pfn, BlockOrder[c])])

\* (mutant) The slab is not given back.
MetaObjectFailsLeaks ==
    /\ growing # NotGrowing
    /\ LET c == MetaCache[growing.cache]
       IN  ~HasSlab(cache[c]) /\ BuddyRefuse(BlockOrder[c])
    /\ growing' = NotGrowing
    /\ UNCHANGED <<cache, slab, objects, pages>>

\* The meta cache cannot grow: AllocSlab gives the slab back and fails.
MetaObjectFails ==
    /\ growing # NotGrowing
    /\ LET c == MetaCache[growing.cache]
       IN  ~HasSlab(cache[c]) /\ Candidates(pmm, BlockOrder[c]) = {}
    /\ BuddyFree(growing.slab)
    /\ growing' = NotGrowing
    /\ UNCHANGED <<cache, slab, objects, pages>>

\* Malloc of a page or more.
MallocPages(o) ==
    /\ CanAsk
    /\ BuddyAlloc(o)
    /\ pmm' = Allocated(pmm, o).pmm
    /\ pages' = pages \cup {Allocated(pmm, o).pfn}
    /\ UNCHANGED <<cache, slab, objects, growing>>

\* A request, for a block or for an object of a cache that has to grow, that
\* fails because the buddy allocator has no block of that order.
MallocFails(o) ==
    /\ CanAsk
    /\ BuddyRefuse(o)
    /\ UNCHANGED <<cache, slab, objects, pages, growing>>

\* Free of an object: the cache is the one the page's entry names.
FreeObject(obj) ==
    /\ Idle
    /\ pmm.meta[obj.slab].type = "Slab"
    /\ Become(Push(State, slab[obj.slab].cache, obj))
    /\ objects' = objects \ {obj}
    /\ UNCHANGED <<buddyVars, pages, growing>>

\* Free of a block.
FreePages(p) ==
    /\ Idle
    /\ BuddyFree(p)
    /\ pages' = pages \ {p}
    /\ UNCHANGED <<cache, slab, objects, growing>>

HeapNext ==
    \/ Boot
    \/ \E c \in Cache : \/ MallocObject(c)
                        \/ MallocGrow(c)
                        \/ MallocGrowOffSlab(c)
    \/ MetaObject \/ MetaObjectGrow \/ MetaObjectFails
    \/ \E o \in Order : MallocPages(o) \/ MallocFails(o)
    \/ \E obj \in objects : FreeObject(obj)
    \/ \E p \in pages : FreePages(p)

HeapSpec == HeapInit /\ [][HeapNext]_heapVars

------------------------------------------------------------------------------
(* What the heap guarantees.                                               *)

Slabs == {p \in Page : slab[p] # NoSlab}
Arrays == {slab[p].array : p \in {q \in Slabs : OffSlab(slab[q].cache)}}
InUse(p) == {i \in 0 .. Capacity[slab[p].cache] - 1 :
                [slab |-> p, idx |-> i] \in objects \cup Arrays}

(* The array of an off-slab slab is an object of the meta cache that no    *)
(* caller holds and no other slab uses.                                    *)
ArraysPrivate ==
    /\ Arrays \cap objects = {}
    /\ \A p, q \in Slabs :
          p # q /\ slab[p].array # NoObject => slab[p].array # slab[q].array

(* Every block taken from the buddy allocator has exactly one owner: a     *)
(* caller, a slab, or the growth under way.  A growth that fails half-way  *)
(* leaves no block behind, and the arrays of off-slab slabs are private.   *)
BlocksOwnedOnce ==
    /\ ArraysPrivate
    /\ held = pages \cup Slabs \cup ({growing.slab} \ {TotalPages})
    /\ pages \cap Slabs = {}
    /\ growing.slab \notin pages \cup Slabs

(* A slab is on the one list its use calls for, and the counters of the    *)
(* cache are the lengths of the lists: Alloc looks at the lists alone, so  *)
(* a full slab on the partial list would hand out the sentinel, and a slab *)
(* on no list would never be used again.                                   *)
SlabsOnTheirList ==
    \A c \in Cache :
        LET k == cache[c]
            mine == {p \in Slabs : slab[p].cache = c}
        IN  /\ IsInjective(k.partial \o k.full \o k.free)
            /\ ToSet(k.free) = {p \in mine : slab[p].inuse = 0}
            /\ ToSet(k.full) = {p \in mine : slab[p].inuse = Capacity[c]}
            /\ ToSet(k.partial) = mine \ (ToSet(k.free) \cup ToSet(k.full))
            /\ k.total = Cardinality(mine)
            /\ k.numPartial = Len(k.partial)
            /\ k.numFree = Len(k.free)

\* The index n hops down the chain of slab p.
Hop(p) ==
    LET c == slab[p].cache
        at[n \in 0 .. Capacity[c]] ==
            IF n = 0 THEN GetHead(c, slab[p].head)
            ELSE IF at[n - 1] >= Capacity[c] THEN at[n - 1]
            ELSE GetNextFreeIdx(c, slab[p].next[at[n - 1]])
    IN  at

(* The chain of a slab runs through the objects nobody holds, each once,   *)
(* and ends at the sentinel: no object is handed out twice, and none is    *)
(* lost when its index is cut down to the width of the array.  And the     *)
(* slab is on the list that says so.                                       *)
ChainHoldsTheFree ==
    /\ SlabsOnTheirList
    /\ \A p \in Slabs :
          LET all == 0 .. Capacity[slab[p].cache] - 1
              free == all \ InUse(p)
              n == Cardinality(free)
          IN  /\ slab[p].inuse = Cardinality(InUse(p))
              /\ {Hop(p)[i] : i \in 0 .. n - 1} = free
              /\ Hop(p)[n] = kFreelistSentinel

(* No assertion on the way of a legal call fails: Free finds the page's    *)
(* entry Allocated for a block and Slab for an object, the object is not   *)
(* at the head of the chain ("Double free detected"), and the first        *)
(* partial slab has an object to give.                                     *)
HeapAssertionsHold ==
    /\ \A p \in pages : FreeAsserts(pmm, p)
    /\ growing # NotGrowing => FreeAsserts(pmm, growing.slab)
    /\ \A obj \in objects :
          LET s == slab[obj.slab]
          IN  /\ pmm.meta[obj.slab].type = "Slab"
              /\ GetHead(s.cache, s.head) # obj.idx
    /\ \A c \in Cache : HasSlab(cache[c]) =>
          LET s == slab[Head(Ready(cache[c]).partial)]
          IN  GetHead(c, s.head) # kFreelistSentinel
==============================================================================
