-------------------------------- MODULE Vmm --------------------------------
(***************************************************************************)
(* User address spaces: VirtualMemoryManager and AddressSpace (mem/virt),  *)
(* the page fault handler with its areas, Mmu::Map level by level, the     *)
(* bitmap allocator the pages come from, and the users of all these: the   *)
(* ELF loader, exec, thread creation, graphic sessions and the cleaning of *)
(* a process.                                                              *)
(*                                                                         *)
(* Exceptions come through a trap gate, so a timer interrupt can stop a    *)
(* page fault half way and let other threads run.  A fault here has four   *)
(* steps, and Preempt names those in front of which this happens.  System  *)
(* calls and the loader run with interrupts off.                           *)
(*                                                                         *)
(* The TLB is the one of the single core: it holds what was used since CR3 *)
(* was loaded last, less what was invalidated.                             *)
(***************************************************************************)
EXTENDS PageTables

CONSTANTS
    Space,       \* slots of the process table, each with an address space
    Thread,
    SpaceOf,     \* the process of each thread
    Programs,    \* what can be loaded: sequences of segments
    TotalPages,  \* page frames the bitmap allocator counts; it holds Pool too
    UserEnd,     \* kUserSpaceEndExclusive, in pages
    StackSize, HeapSize, BufferSize,   \* pages of the areas
    Buffer,      \* first page frame of a back buffer
    Touched,     \* the pages programs access once they run
    Preempt,     \* threads and steps of their page faults a timer interrupt comes before
    MaxPrograms  \* bound on the programs started

ASSUME VmmAssumption ==
    /\ SpaceOf \in [Thread -> Space]
    /\ UserEnd \in 1..Fan^Levels /\ Touched \subseteq 0..UserEnd - 1
    /\ Pool \subseteq 0..TotalPages - 1
    /\ Buffer \in Nat /\ Buffer >= TotalPages
    /\ Preempt \subseteq Thread \X {"entry", "mark", "walk"}

VARIABLES
    phase,     \* of a process: none, new, load, copy, user, dead
    prog,      \* the segments of its program
    loaded,    \* loaded_segments_count
    area_list, \* sequence of areas
    root,      \* page_table_root_
    table,     \* the page tables, see PageTables
    bitmap,    \* page frames marked as free
    last_alloc_idx,
    th,        \* the state of a thread: off, user, or the step of its page fault
    cr2,
    current,   \* current_as_
    tlb,       \* what the core has cached of its page tables
    created,   \* programs started
    failed,    \* assertions that failed and panics; the kernel has stopped
    lost       \* processes ended for an access their areas allow

vars == <<phase, prog, loaded, area_list, root, table, bitmap, last_alloc_idx, th,
          cr2, current, tlb, created, failed, lost>>

spaceVars == <<phase, prog, loaded, area_list, root>>
frameVars == <<bitmap, last_alloc_idx>>

UserPage == 0..UserEnd - 1

Area(start, size, writable, phys) ==
    [start |-> start, size |-> size, writable |-> writable, phys |-> phys]

Pages(vma) == vma.start..vma.start + vma.size - 1

At(pc) == [pc |-> pc, v |-> 0, write |-> FALSE, present |-> FALSE,
           ptr |-> 0, frame |-> None, writable |-> FALSE, level |-> 0]

VmmInit ==
    /\ phase = [a \in Space |-> "none"]
    /\ prog = [a \in Space |-> <<>>]
    /\ loaded = [a \in Space |-> 0]
    /\ area_list = [a \in Space |-> <<>>]
    /\ root = [a \in Space |-> None]
    /\ table = [f \in Pool |-> FreePage]
    /\ bitmap = 0..TotalPages - 1
    /\ last_alloc_idx = TotalPages - 1
    /\ th = [t \in Thread |-> At("off")]
    /\ cr2 = 0 /\ current = None /\ tlb = {}
    /\ created = 0 /\ failed = {} /\ lost = {}

-----------------------------------------------------------------------------
(* The list of areas. *)

AreasOverlap(a, b) ==
    a.start < b.start + b.size /\ b.start < a.start + a.size

(***************************************************************************)
(* The list with vma at its place, or the empty list if vma overlaps an    *)
(* area the search meets before it has found the place.                    *)
(***************************************************************************)
AddArea(list, vma) ==
    LET stops == {i \in DOMAIN list :
                    AreasOverlap(list[i], vma) \/ vma.start < list[i].start}
        pos   == IF stops = {} THEN Len(list) + 1 ELSE Min(stops)
    IN  IF stops # {} /\ AreasOverlap(list[pos], vma) THEN <<>>
        ELSE InsertAt(list, pos, vma)

FindAreaLocked(list, v) ==
    LET hits == {i \in DOMAIN list : v \in Pages(list[i])}
    IN  IF hits = {} THEN None ELSE Min(hits)

\* The first gap of the user half that is large enough, or None.
FindGap(list, size) ==
    LET end(i) == IF i = 0 THEN 0 ELSE list[i].start + list[i].size
        gaps   == {i \in 0..Len(list) :
                     end(i) + size <= (IF i = Len(list) THEN UserEnd
                                       ELSE list[i + 1].start)}
    IN  IF gaps = {} THEN None ELSE end(Min(gaps))

\* AllocAnonymous and MapUserBackbuffer: a new area in the first gap.
Fits(list, size) == FindGap(list, size) # None

InGap(list, size, phys) == AddArea(list, Area(FindGap(list, size), size, TRUE, phys))

-----------------------------------------------------------------------------
(* The bitmap allocator, asked for one page. *)

\* FindContiguousBlock, twice: below the last page given out, then above it.
FindFrame ==
    LET below == {f \in bitmap : f < last_alloc_idx}
        from  == IF last_alloc_idx > 2 THEN last_alloc_idx - 2 ELSE 0
        above == {f \in bitmap : f >= from}
    IN  IF below # {} THEN Max(below) ELSE IF above # {} THEN Max(above) ELSE None

-----------------------------------------------------------------------------
(* Who runs. *)

\* A thread nothing can interrupt: the loader, and a fault between two timer ticks.
Busy(t) == \/ phase[SpaceOf[t]] \in {"load", "copy"} /\ th[t].pc # "off"
           \/ th[t].pc \notin {"off", "user"} /\ <<t, th[t].pc>> \notin Preempt

Running == failed = {}

MayRun(t) == Running /\ th[t].pc # "off" /\ \A u \in Thread \ {t} : ~Busy(u)

NobodyBusy == Running /\ \A t \in Thread : ~Busy(t)

\* SwapAsIfNeeded: the thread runs on its tables; loading CR3 empties the TLB.
Cached(a) == IF current = a THEN tlb ELSE {}

\* CommitSuicide, exit and kill, as far as the address space goes.
Ends(a) ==
    /\ phase' = [phase EXCEPT ![a] = "dead"]
    /\ th' = [t \in Thread |-> IF SpaceOf[t] = a THEN At("off") ELSE th[t]]
    /\ UNCHANGED <<prog, loaded, root>>

-----------------------------------------------------------------------------
(* A program is loaded. *)

(***************************************************************************)
(* ExecuteElf64: CreateUserAddrSpace, and SpawnThread, whose stack is the  *)
(* first area.  Without a page for the root the half-built space is        *)
(* destroyed through its null root.                                        *)
(***************************************************************************)
Create(t, p) ==
    LET a == SpaceOf[t]
    IN  /\ NobodyBusy /\ phase[a] = "none" /\ created < MaxPrograms
        /\ created' = created + 1
        /\ IF FreePages(table) = {}
           THEN failed' = failed \union {"root"}
                /\ UNCHANGED <<spaceVars, table, th>>
           ELSE LET f == Min(FreePages(table))
                IN  /\ table' = AllocateTable(table, f, Levels)
                    /\ root' = [root EXCEPT ![a] = f]
                    /\ area_list' = [area_list EXCEPT
                                       ![a] = InGap(<<>>, StackSize, None)]
                    /\ phase' = [phase EXCEPT ![a] = "new"]
                    /\ prog' = [prog EXCEPT ![a] = p]
                    /\ loaded' = [loaded EXCEPT ![a] = 0]
                    /\ th' = [th EXCEPT ![t] = At("user")]
                    /\ UNCHANGED failed
        /\ UNCHANGED <<frameVars, cr2, current, tlb, lost>>

\* RmArea: the pages of the area are unmapped and forgotten by the TLB.
RmArea(s, a, start) ==
    LET i   == FindAreaLocked(s.list, start)
        vma == s.list[i]
    IN  IF i = None THEN s
        ELSE [list |-> RemoveAt(s.list, i),
              tb   |-> UnmapRange(s.tb, root[a], vma.start, vma.size),
              tlb  |-> {e \in s.tlb : e.v \notin Pages(vma)}]

\* vma_cleanup_guard: the segments counted as loaded are removed again.
Rollback(a) ==
    FoldLeft(LAMBDA s, i : RmArea(s, a, prog[a][i].start),
             [list |-> area_list[a], tb |-> table, tlb |-> Cached(a)],
             [i \in 1..loaded[a] |-> i])

(***************************************************************************)
(* Load stops: the file is missing, not an ELF file or cannot be read, or  *)
(* an area cannot be added.  Elf64EntryPoint then ends the process.        *)
(***************************************************************************)
LoadFails(t) ==
    LET a == SpaceOf[t]
        s == Rollback(a)
    IN  /\ MayRun(t) /\ th[t].pc = "user" /\ phase[a] \in {"new", "load", "copy"}
        /\ area_list' = [area_list EXCEPT ![a] = s.list]
        /\ table' = s.tb
        /\ tlb' = s.tlb /\ current' = a
        /\ Ends(a)
        /\ UNCHANGED <<frameVars, cr2, created, failed, lost>>

\* The area of the next segment, writable while it is copied.
LoadSegment(t) ==
    LET a    == SpaceOf[t]
        seg  == prog[a][loaded[a] + 1]
        list == AddArea(area_list[a], Area(seg.start, seg.size, TRUE, None))
    IN  /\ MayRun(t) /\ phase[a] \in {"new", "load"} /\ loaded[a] < Len(prog[a])
        /\ list # <<>>
        /\ area_list' = [area_list EXCEPT ![a] = list]
        /\ loaded' = [loaded EXCEPT ![a] = @ + 1]
        /\ phase' = [phase EXCEPT ![a] = "copy"]
        /\ current' = a /\ tlb' = Cached(a)
        /\ UNCHANGED <<prog, root, table, frameVars, th, cr2, created, failed, lost>>

\* (mutant) the TLB keeps what it has cached of the area
UpdateAreaFlagsQuiet(a, start, writable) ==
    LET i == FindAreaLocked(area_list[a], start)
    IN  /\ area_list' = [area_list EXCEPT ![a][i].writable = writable]
        /\ table' = FoldSet(LAMBDA v, tb : SetPageFlags(tb, root[a], v, writable),
                            table, Pages(area_list[a][i]))
        /\ tlb' = Cached(a)

\* (mutant) only the area changes, not its pages
UpdateAreaOnly(a, start, writable) ==
    LET i == FindAreaLocked(area_list[a], start)
    IN  /\ area_list' = [area_list EXCEPT ![a][i].writable = writable]
        /\ tlb' = {e \in Cached(a) : e.v \notin Pages(area_list[a][i])}
        /\ UNCHANGED table

\* (mutant) one page more than the area has
UpdateAreaFlagsPast(a, start, writable) ==
    LET i    == FindAreaLocked(area_list[a], start)
        past == Pages(area_list[a][i]) \union {start + area_list[a][i].size}
    IN  /\ area_list' = [area_list EXCEPT ![a][i].writable = writable]
        /\ table' = FoldSet(LAMBDA v, tb : SetPageFlags(tb, root[a], v, writable),
                            table, past)
        /\ tlb' = {e \in Cached(a) : e.v \notin past}

\* The flags of an area and of its pages; the TLB forgets the pages.
UpdateAreaFlags(a, start, writable) ==
    LET i == FindAreaLocked(area_list[a], start)
    IN  /\ area_list' = [area_list EXCEPT ![a][i].writable = writable]
        /\ table' = FoldSet(LAMBDA v, tb : SetPageFlags(tb, root[a], v, writable),
                            table, Pages(area_list[a][i]))
        /\ tlb' = {e \in Cached(a) : e.v \notin Pages(area_list[a][i])}

\* The file data and the zeros behind it: the pages not written yet.
Untouched(a) ==
    LET seg == prog[a][loaded[a]]
    IN  Pages(seg) \ {e.v : e \in Cached(a)}

\* The segment is copied: its own flags replace those it was loaded with.
FinishSegment(t) ==
    LET a   == SpaceOf[t]
        seg == prog[a][loaded[a]]
    IN  /\ MayRun(t) /\ th[t].pc = "user" /\ phase[a] = "copy"
        /\ Untouched(a) = {}
        /\ IF seg.writable THEN UNCHANGED <<area_list, table, tlb>>
           ELSE UpdateAreaFlags(a, seg.start, FALSE)
        /\ phase' = [phase EXCEPT ![a] = "load"]
        /\ UNCHANGED <<prog, loaded, root, frameVars, th, cr2, current, created,
                       failed, lost>>

\* AllocUserHeap and the jump to user space; no gap for the heap ends the process.
Start(t) ==
    LET a == SpaceOf[t]
    IN  /\ MayRun(t) /\ phase[a] = "load" /\ loaded[a] = Len(prog[a])
        /\ IF Fits(area_list[a], HeapSize)
           THEN /\ area_list' = [area_list EXCEPT ![a] = InGap(@, HeapSize, None)]
                /\ phase' = [phase EXCEPT ![a] = "user"]
                /\ UNCHANGED <<prog, loaded, root, th>>
           ELSE Ends(a) /\ UNCHANGED area_list
        /\ UNCHANGED <<table, frameVars, cr2, current, tlb, created, failed, lost>>

-----------------------------------------------------------------------------
(* System calls of a running program. *)

InUser(t) == MayRun(t) /\ th[t].pc = "user" /\ phase[SpaceOf[t]] = "user"

\* SpawnThread: a further thread with a stack of its own.
NewThread(t, u) ==
    LET a == SpaceOf[t]
    IN  /\ InUser(t) /\ SpaceOf[u] = a /\ th[u].pc = "off"
        /\ Fits(area_list[a], StackSize)
        /\ area_list' = [area_list EXCEPT ![a] = InGap(@, StackSize, None)]
        /\ th' = [th EXCEPT ![u] = At("user")]
        /\ UNCHANGED <<phase, prog, loaded, root, table, frameVars, cr2, current, tlb,
                       created, failed, lost>>

\* MapUserBackbuffer: the pages of a buffer, mapped where they are.
MapUserBackbuffer(t) ==
    LET a == SpaceOf[t]
    IN  /\ InUser(t)
        /\ Fits(area_list[a], BufferSize)
        /\ area_list' = [area_list EXCEPT ![a] = InGap(@, BufferSize, Buffer)]
        /\ UNCHANGED <<phase, prog, loaded, root, table, frameVars, th, cr2, current,
                       tlb, created, failed, lost>>

\* The process exits or is killed; a kill can find its threads inside a fault.
Exit(a) ==
    /\ NobodyBusy /\ phase[a] \in {"new", "user"}
    /\ Ends(a)
    /\ UNCHANGED <<area_list, table, frameVars, cr2, current, tlb, created, failed, lost>>

(***************************************************************************)
(* DestroyUserAddrSpace, by the process ripper, which runs on the tables   *)
(* of the kernel.  The page frames stay marked in the bitmap.              *)
(***************************************************************************)
Destroy(a) ==
    /\ NobodyBusy /\ phase[a] = "dead"
    /\ table' = FreeTable(ClearUserMappings(table, root[a]), root[a])
    /\ area_list' = [area_list EXCEPT ![a] = <<>>]
    /\ root' = [root EXCEPT ![a] = None]
    /\ phase' = [phase EXCEPT ![a] = "none"]
    /\ prog' = [prog EXCEPT ![a] = <<>>]
    /\ loaded' = [loaded EXCEPT ![a] = 0]
    /\ current' = None /\ tlb' = {}
    /\ UNCHANGED <<frameVars, th, cr2, created, failed, lost>>

-----------------------------------------------------------------------------
(* Memory accesses and page faults. *)

\* What the core does: the TLB, then the tables, then an exception.
Use(t, v, write) ==
    LET a      == SpaceOf[t]
        hit    == {e \in Cached(a) : e.v = v}
        leaf   == Translate(table, root[a], v)
        grants == leaf # None /\ (write => leaf.writable)
    IN  /\ current' = a
        /\ IF \E e \in hit : write => e.writable
           THEN tlb' = Cached(a) /\ UNCHANGED <<th, cr2>>
           ELSE IF grants
           THEN /\ tlb' = (Cached(a) \ hit) \union
                            {[v |-> v, frame |-> leaf.frame, writable |-> leaf.writable]}
                /\ UNCHANGED <<th, cr2>>
           ELSE /\ tlb' = Cached(a) \ hit
                /\ cr2' = v
                /\ th' = [th EXCEPT ![t] = [At("entry") EXCEPT
                                              !.v = v, !.write = write,
                                              !.present = leaf # None]]
        /\ UNCHANGED <<spaceVars, table, frameVars, created, failed, lost>>

\* A program reads or writes one of the pages it touches.
Access(t, v, write) == InUser(t) /\ Use(t, v, write)

\* The loader writes the pages of a segment in ascending order.
Copy(t) ==
    LET a == SpaceOf[t]
    IN  /\ MayRun(t) /\ th[t].pc = "user" /\ phase[a] = "copy" /\ Untouched(a) # {}
        /\ Use(t, Min(Untouched(a)), TRUE)

\* The areas allow the access that thread t faulted on.
Legal(t) ==
    LET list == area_list[SpaceOf[t]]
        i    == FindAreaLocked(list, th[t].v)
    IN  i # None /\ (th[t].write => list[i].writable)

(***************************************************************************)
(* HandleUnresolvableFault: a program is ended; a fault of the kernel is a *)
(* panic.  cause tells a lack of memory from everything else.              *)
(***************************************************************************)
HandleUnresolvableFault(t, cause) ==
    LET a == SpaceOf[t]
    IN  IF phase[a] = "user"
        THEN /\ Ends(a)
             /\ lost' = IF Legal(t) /\ cause # "memory" THEN lost \union {a} ELSE lost
             /\ UNCHANGED failed
        ELSE /\ failed' = failed \union {cause}
             /\ UNCHANGED <<phase, prog, loaded, root, th, lost>>

(***************************************************************************)
(* PageFaultHandler up to the page frame: CR2 is read, the area found and  *)
(* its HandleFault entered.  A direct mapping knows its frame; anonymous   *)
(* memory asks the bitmap for one, which is marked in the next step.       *)
(***************************************************************************)
PageFaultHandler(t) ==
    LET a     == SpaceOf[t]
        i     == FindAreaLocked(area_list[a], cr2)
        vma   == area_list[a][i]
        frame == IF vma.phys = None THEN FindFrame ELSE vma.phys + cr2 - vma.start
    IN  /\ MayRun(t) /\ th[t].pc = "entry"
        /\ IF i = None \/ th[t].present THEN HandleUnresolvableFault(t, "access")
           ELSE IF th[t].write /\ ~vma.writable
           THEN /\ failed' = failed \union {"readonly"}
                /\ UNCHANGED <<phase, prog, loaded, root, th, lost>>
           ELSE IF frame = None THEN HandleUnresolvableFault(t, "memory")
           ELSE /\ th' = [th EXCEPT ![t] =
                            [@ EXCEPT !.pc = IF vma.phys = None THEN "mark" ELSE "walk",
                                      !.ptr = cr2, !.frame = frame,
                                      !.writable = vma.writable, !.level = Levels]]
                /\ UNCHANGED <<phase, prog, loaded, root, failed, lost>>
        /\ current' = a /\ tlb' = Cached(a)
        /\ UNCHANGED <<area_list, table, frameVars, cr2, created>>

\* (mutant) the page is taken and stays free in the bitmap
MarkNothing(t) ==
    /\ MayRun(t) /\ th[t].pc = "mark"
    /\ last_alloc_idx' = th[t].frame
    /\ th' = [th EXCEPT ![t].pc = "walk"]
    /\ current' = SpaceOf[t] /\ tlb' = Cached(SpaceOf[t])
    /\ UNCHANGED <<spaceVars, bitmap, table, cr2, created, failed, lost>>

\* MarkAllocated: the page must still be free.
MarkAllocated(t) ==
    /\ MayRun(t) /\ th[t].pc = "mark"
    /\ failed' = IF th[t].frame \in bitmap THEN failed ELSE failed \union {"allocated"}
    /\ bitmap' = bitmap \ {th[t].frame}
    /\ last_alloc_idx' = th[t].frame
    /\ th' = [th EXCEPT ![t].pc = "walk"]
    /\ current' = SpaceOf[t] /\ tlb' = Cached(SpaceOf[t])
    /\ UNCHANGED <<spaceVars, table, cr2, created, lost>>

WalkAt(t) == Path(table, root[SpaceOf[t]], th[t].ptr)[th[t].level]

\* One of the upper levels of Map: a table that is missing is allocated.
MapLevel(t) ==
    LET l == th[t].level
        f == WalkAt(t)
        i == PmeIdx(l, th[t].ptr)
        g == Min(FreePages(table))
    IN  /\ MayRun(t) /\ th[t].pc = "walk" /\ l > 1
        /\ IF table[f].entry[i] = None /\ FreePages(table) = {}
           THEN HandleUnresolvableFault(t, "memory") /\ UNCHANGED table
           ELSE /\ table' = IF table[f].entry[i] # None THEN table
                            ELSE SetEntry(AllocateTable(table, g, l - 1), f, i, g)
                /\ th' = [th EXCEPT ![t].level = l - 1]
                /\ UNCHANGED <<phase, prog, loaded, root, failed, lost>>
        /\ current' = SpaceOf[t] /\ tlb' = Cached(SpaceOf[t])
        /\ UNCHANGED <<area_list, frameVars, cr2, created>>

\* The last level: the page must not have an entry yet.  The fault is resolved.
MapLeaf(t) ==
    LET f    == WalkAt(t)
        i    == PmeIdx(1, th[t].ptr)
        leaf == Leaf(th[t].frame, th[t].writable)
    IN  /\ MayRun(t) /\ th[t].pc = "walk" /\ th[t].level = 1
        /\ IF table[f].entry[i] # None
           THEN HandleUnresolvableFault(t, "mapped") /\ UNCHANGED table
           ELSE /\ table' = SetEntry(table, f, i, leaf)
                /\ th' = [th EXCEPT ![t] = At("user")]
                /\ UNCHANGED <<phase, prog, loaded, root, failed, lost>>
        /\ current' = SpaceOf[t] /\ tlb' = Cached(SpaceOf[t])
        /\ UNCHANGED <<area_list, frameVars, cr2, created>>

-----------------------------------------------------------------------------

VmmNext ==
    \/ \E t \in Thread, p \in Programs : Create(t, p)
    \/ \E t \in Thread :
          \/ LoadSegment(t) \/ Copy(t) \/ FinishSegment(t) \/ LoadFails(t) \/ Start(t)
          \/ MapUserBackbuffer(t)
          \/ PageFaultHandler(t) \/ MarkAllocated(t) \/ MapLevel(t) \/ MapLeaf(t)
    \/ \E t, u \in Thread : NewThread(t, u)
    \/ \E t \in Thread, v \in Touched, write \in BOOLEAN : Access(t, v, write)
    \/ \E a \in Space : Exit(a) \/ Destroy(a)

VmmSpec == VmmInit /\ [][VmmNext]_vars

-----------------------------------------------------------------------------
(* Properties *)

\* AddArea and FindGap keep the areas of a space in the user half, sorted and
\* disjoint, whatever segments, stacks, heaps and buffers were added and rolled
\* back: FindAreaLocked then has one answer.
AreasDisjoint ==
    \A a \in Space : \A i, j \in DOMAIN area_list[a] :
        /\ Pages(area_list[a][i]) \subseteq UserPage
        /\ i < j => area_list[a][i].start + area_list[a][i].size <= area_list[a][j].start

\* The usage count in the metadata of a table is the number of its entries in
\* use, so Unmap gives back exactly the tables that have become empty.
TablesCounted ==
    \A f \in Pool : table[f].refs = Cardinality({i \in Index : table[f].entry[i] # None})

\* Every table in use is the root of one address space or hangs in one entry of
\* one table a level above it: none is shared, none is lost when a load is
\* rolled back, a fault runs out of memory or a process is killed inside a
\* fault, no entry leads to a page that was given back, and the counts agree.
TablesOwnedOnce ==
    LET Parents(f) == {<<g, i>> \in Pool \X Index :
                         table[g].level > 1 /\ table[g].entry[i] = f}
    IN  /\ TablesCounted
        /\ \A f \in Pool :
             Cardinality(Parents(f)) + Cardinality({a \in Space : root[a] = f}) =
               (IF table[f] = FreePage THEN 0 ELSE 1)
        /\ \A f \in Pool : \A p \in Parents(f) : table[p[1]].level = table[f].level + 1

Mapped(a) == IF root[a] = None THEN {}
             ELSE {v \in UserPage : Translate(table, root[a], v) # None}

\* A page that is mapped lies in one area, has the rights of the area and, in a
\* direct mapping, the frame at its distance from the start: the rollback of
\* the loader leaves nothing mapped, and UpdateAreaFlags reaches every page.
\* "Write to read-only memory area" (area.cpp) never stops the kernel.  It would
\* for any program that writes to a read-only page not present yet; it cannot,
\* because the loader has touched every page of a segment before it takes the
\* right away.
MappingsInAreas ==
    /\ AreasDisjoint
    /\ "readonly" \notin failed
    /\ \A a \in Space : \A v \in Mapped(a) :
          LET i    == FindAreaLocked(area_list[a], v)
              leaf == Translate(table, root[a], v)
          IN  /\ i # None
              /\ leaf.writable = area_list[a][i].writable
              /\ area_list[a][i].phys # None =>
                   leaf.frame = area_list[a][i].phys + v - area_list[a][i].start

\* A page frame of anonymous memory backs one page of one process; it is marked
\* in the bitmap and is none of the pages page tables are made of.  "Page frame
\* is already allocated" (bitmap.hpp) never stops the kernel.  The bitmap counts
\* the pages of Pool as free as well and gets none back, so the second part holds
\* as long as it has others: TotalPages must leave a frame for every first touch
\* of a page.
FramesOwnedOnce ==
    LET Anonymous == {<<a, v>> \in Space \X UserPage :
                        v \in Mapped(a) /\ Translate(table, root[a], v).frame < TotalPages}
        FrameOf(x) == Translate(table, root[x[1]], x[2]).frame
        Frames == {FrameOf(x) : x \in Anonymous}
    IN  /\ "allocated" \notin failed
        /\ Cardinality(Frames) = Cardinality(Anonymous)
        /\ Frames \intersect (bitmap \union Pool) = {}

\* What the core has cached is what the tables say: RmArea, UpdateAreaFlags and
\* the switch of address spaces invalidate enough.
TlbCoherent ==
    current # None /\ root[current] # None =>
        \A e \in tlb : Translate(table, root[current], e.v) = Leaf(e.frame, e.writable)

\* A process is not ended for an access its areas allow, unless memory is out.
LegalAccessSurvives == lost = {}
=============================================================================
