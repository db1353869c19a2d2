-------------------------------- MODULE Fat --------------------------------
(***************************************************************************)
(* The FAT driver (fs/vfs/fat/fat.hpp) on a volume with a fixed root       *)
(* directory, as the FAT16 ramdisk of the kernel has one.                  *)
(*                                                                         *)
(* A cluster is a sequence of ClusterSize pieces of 32 bytes.  A piece is  *)
(* a directory entry, a deleted entry, zeroes (which a directory scan      *)
(* takes as its end) or data of a file; nothing on the disk says which     *)
(* clusters are directories.  disk[0] is the root directory.  A deleted    *)
(* entry keeps only its mark: no operation reads the rest of it.  What a   *)
(* free cluster still holds is kOld: it comes back when the cluster is     *)
(* taken again and not written over, and no caller may count on it.        *)
(*                                                                         *)
(* Calls come from system calls, which run with interrupts off, one at a   *)
(* time.  A call that fails without having changed anything is no step.    *)
(***************************************************************************)
EXTENDS Naturals, FiniteSets, SequencesExt

CONSTANTS
    Name,           \* formatted file names
    FilePaths,      \* where callers create files
    DirPaths,       \* where callers create directories
    Data,           \* what callers write into files
    kEOD,           \* a piece of zeroes
    kDeletedEntry,  \* a piece marked as deleted
    kOld,           \* a piece of a cluster that has been free
    kDot, kDotDot,  \* the names of the first two entries of a directory
    ClusterCount,   \* clusters of the data region
    ClusterSize,    \* pieces of a cluster
    RootEntries,    \* entries of the root directory
    Offsets, Sizes  \* where and how much callers write

ASSUME FatAssumption ==
    /\ ClusterCount \in Nat \ {0}
    /\ ClusterSize \in Nat \ {0, 1}     \* "." and ".." fit
    /\ RootEntries \in Nat
    /\ Offsets \subseteq Nat /\ Sizes \subseteq Nat \ {0}
    /\ FilePaths \cup DirPaths \subseteq Seq(Name) \ {<<>>}
    /\ kDot \notin Name /\ kDotDot \notin Name

VARIABLES
    fat,        \* the file allocation table: 0, the next cluster or kEOC
    disk,       \* the pieces of the root directory and of every cluster
    leaked,     \* history: clusters a failed CreateDirectory has left behind
    tree        \* history: what can be looked up and read, TreeOf the volume

vars == <<fat, disk, leaked, tree>>

Cluster == 2 .. ClusterCount + 1
kEOC == ClusterCount + 2
Paths == FilePaths \cup DirPaths
Filled(piece) == [i \in 1 .. ClusterSize |-> piece]

Entry(name, dir, first, size) == [name |-> name, dir |-> dir, first |-> first, size |-> size]
MakeRootDirectoryEntry == Entry(kDot, TRUE, 0, 0)

\* The two variables as one value, which a call changes step by step.
Volume == [fat |-> fat, disk |-> disk]

FatInit ==
    /\ fat = [c \in Cluster |-> 0]
    /\ disk = [c \in Cluster \cup {0} |->
                  IF c = 0 THEN [i \in 1 .. RootEntries |-> kEOD] ELSE Filled(kOld)]
    /\ leaked = {}
    /\ tree = <<>>

------------------------------------------------------------------------------
(* Clusters and chains.                                                    *)

\* The clusters from c on, as the loops over GetFATEntry_ meet them; a chain
\* that runs in a circle shows as one with a repetition.
Chain(f, c) ==
    LET Longer(s) == IF f[Last(s)] \in Cluster THEN Append(s, f[Last(s)]) ELSE s
        walk[n \in 0 .. ClusterCount] == IF n = 0 THEN <<c>> ELSE Longer(walk[n - 1])
    IN IF c \in Cluster THEN walk[ClusterCount] ELSE <<>>

FreeClusters(f) == {c \in Cluster : f[c] = 0}

\* The lowest free cluster becomes a chain of its own; 0 if there is none.
AllocateCluster(f) == IF FreeClusters(f) = {} THEN 0 ELSE Min(FreeClusters(f))

FreeClusterChain(v, c) ==
    LET Freed(old, new) == [k \in DOMAIN old |-> IF k \in ToSet(Chain(v.fat, c)) THEN new ELSE old[k]]
    IN [v EXCEPT !.fat = Freed(@, 0), !.disk = Freed(@, Filled(kOld))]

\* Cluster new, if there is one, goes behind the last one of a chain.
Link(f, last, new) == IF new = 0 THEN f ELSE [f EXCEPT ![last] = new, ![new] = kEOC]

AppendCluster(f, c) == Link(f, Last(Chain(f, c)), AllocateCluster(f))

\* The chain of c grows to n clusters, or as far as the disk lets it.
EnsureClusterChain(f, c, n) ==
    LET grown[k \in 0 .. n] ==
            IF k = 0 THEN f
            ELSE LET Longer(g) == IF Len(Chain(g, c)) < n THEN AppendCluster(g, c) ELSE g
                 IN Longer(grown[k - 1])
    IN grown[n]

------------------------------------------------------------------------------
(* Directories.  A place is a cluster (or 0) and an index into it.         *)

Places(v, d) ==
    LET In(blocks) == FlattenSeq([b \in DOMAIN blocks |->
                         [i \in DOMAIN v.disk[blocks[b]] |-> <<blocks[b], i>>]])
    IN In(IF d = 0 THEN <<0>> ELSE Chain(v.fat, d))

PieceAt(v, at) == v.disk[at[1]][at[2]]

\* The part of s before its i-th element, all of it if i is 0.
Before(s, i) == IF i = 0 THEN s ELSE SubSeq(s, 1, i - 1)

\* (mutant) A deleted entry ends the scan.
ScanToDeleted(v, d) ==
    LET Live(all) == Before(all, SelectInSeq(all, LAMBDA at : PieceAt(v, at) \in {kEOD, kDeletedEntry}))
    IN Live(Places(v, d))

\* The places a scan reports: up to the first kEOD, without the deleted ones.
ScanDirectoryTable(v, d) ==
    LET Live(all) == SelectSeq(Before(all, SelectInSeq(all, LAMBDA at : PieceAt(v, at) = kEOD)),
                               LAMBDA at : PieceAt(v, at) # kDeletedEntry)
    IN Live(Places(v, d))

\* Data that is scanned as a directory has no name a caller knows.
Named(v, at, name) == PieceAt(v, at) \notin Data \cup {kOld} /\ PieceAt(v, at).name = name

\* Where in directory d the name is; <<>> if it is not there.
FindEntryInDirectory(v, d, name) ==
    LET At(live, i) == IF i = 0 THEN <<>> ELSE live[i]
        In(live) == At(live, SelectInSeq(live, LAMBDA at : Named(v, at, name)))
    IN In(ScanDirectoryTable(v, d))

\* A result of LookupPath_; at is the place the code keeps as an offset.
Lookup(found, entry, at, parent) ==
    [found |-> found, entry |-> entry, at |-> at, parent |-> parent]

\* The components are looked up one after the other.  Nothing asks whether
\* the ones before the last are directories.
LookupPath(v, p) ==
    LET Found(r, at) == IF at = <<>> THEN Lookup(FALSE, MakeRootDirectoryEntry, at, 0)
                        ELSE Lookup(TRUE, PieceAt(v, at), at, r.entry.first)
        Step(r, name) ==
            IF r.found THEN Found(r, FindEntryInDirectory(v, r.entry.first, name)) ELSE r
    IN FoldLeft(Step, Lookup(TRUE, MakeRootDirectoryEntry, <<>>, 0), p)

\* The directory that holds the last component; kEOC if it is not found.
GetParentCluster(v, p) ==
    LET Parent(r) == IF r.found THEN r.entry.first ELSE kEOC IN Parent(LookupPath(v, Front(p)))

UpdateDirectoryEntry(v, at, piece) == [v EXCEPT !.disk[at[1]][at[2]] = piece]

\* The end of the directory moves behind an entry written over it, unless
\* the cluster ends there.
WriteNewEntry(v, at, e) ==
    LET w == UpdateDirectoryEntry(v, at, e)
    IN IF PieceAt(v, at) = kEOD /\ at[2] < Len(v.disk[at[1]])
       THEN UpdateDirectoryEntry(w, <<at[1], at[2] + 1>>, kEOD) ELSE w

\* The first deleted or unused slot takes the entry.  A directory in clusters
\* grows by one if it has none; the root directory cannot.  The volume is
\* returned as it was if there is no room.
CreateEntry(v, d, e) ==
    LET Grown(new) ==
            IF d = 0 \/ new = 0 THEN v
            ELSE WriteNewEntry([v EXCEPT !.fat = AppendCluster(@, d), !.disk[new] = Filled(kEOD)],
                               <<new, 1>>, e)
        At(all, i) == IF i = 0 THEN Grown(AllocateCluster(v.fat)) ELSE WriteNewEntry(v, all[i], e)
        In(all) == At(all, SelectInSeq(all, LAMBDA at : PieceAt(v, at) \in {kEOD, kDeletedEntry}))
    IN In(Places(v, d))

InitializeNewDirectory(c, parent) ==
    [Filled(kEOD) EXCEPT ![1] = Entry(kDot, TRUE, c, 0), ![2] = Entry(kDotDot, TRUE, parent, 0)]

IsDirectoryEmpty(v, d) ==
    \A at \in ToSet(ScanDirectoryTable(v, d)) : Named(v, at, kDot) \/ Named(v, at, kDotDot)

------------------------------------------------------------------------------
(* Reading.                                                                *)

\* What ReadFile returns for the whole file.
ReadFileData(v, e) ==
    LET Read(places) == [i \in 1 .. Min({e.size, Len(places)}) |-> PieceAt(v, places[i])]
    IN Read(IF e.first = 0 THEN <<>> ELSE Places(v, e.first))

\* What ListDirectory reports, without "." and "..".
Listed(v, d) ==
    {at \in ToSet(ScanDirectoryTable(v, d)) : \E name \in Name : Named(v, at, name)}

\* Everything that can be reached from the root: paths with their places.
\* Reached[n] holds the paths of n components.
Reached(v) ==
    LET level[n \in 1 .. ClusterCount + 1] ==
            IF n = 1 THEN {<<<<PieceAt(v, at).name>>, at>> : at \in Listed(v, 0)}
            ELSE UNION {{<<Append(x[1], PieceAt(v, at).name), at>> :
                           at \in Listed(v, PieceAt(v, x[2]).first)} :
                        x \in {x \in level[n - 1] : PieceAt(v, x[2]).dir}}
    IN UNION {level[n] : n \in 1 .. ClusterCount + 1}

\* The volume as its callers see it.
TreeOf(v) ==
    LET Node(e) == [dir |-> e.dir, data |-> IF e.dir THEN <<>> ELSE ReadFileData(v, e)]
    IN [p \in {x[1] : x \in Reached(v)} |-> Node(LookupPath(v, p).entry)]

\* A call leaves v on the disk.
Become(v) == fat' = v.fat /\ disk' = v.disk /\ tree' = TreeOf(v)

------------------------------------------------------------------------------
(* The operations.                                                         *)

\* Callers do not use a path that goes on behind a file, which the driver would
\* read as a directory.
Uses(p) ==
    \A i \in 1 .. Len(p) - 1 :
       \A r \in {LookupPath(Volume, SubSeq(p, 1, i))} : r.found => r.entry.dir

\* The checks of CreateFile and CreateDirectory; d is the parent.
MayCreate(p, d) ==
    /\ Uses(p)
    /\ ~LookupPath(Volume, p).found
    /\ d # kEOC

CreateFile(p) ==
    \E d \in {GetParentCluster(Volume, p)} :
       /\ MayCreate(p, d)
       /\ \E v \in {CreateEntry(Volume, d, Entry(Last(p), FALSE, 0, 0))} : v # Volume /\ Become(v)
       /\ UNCHANGED leaked

\* A directory of its own in cluster new, not yet entered in its parent d.
NewDirectory(new, d) ==
    [fat |-> [fat EXCEPT ![new] = kEOC],
     disk |-> [disk EXCEPT ![new] = InitializeNewDirectory(new, d)]]

\* The cluster is allocated and written first, and stays allocated if the
\* parent has no room for the entry.
CreateDirectory(p) ==
    \E d \in {GetParentCluster(Volume, p)}, new \in {AllocateCluster(fat)} :
       /\ MayCreate(p, d)
       /\ new # 0
       /\ \E v \in {CreateEntry(NewDirectory(new, d), d, Entry(Last(p), TRUE, new, 0))} :
             /\ Become(v)
             /\ leaked' = IF v = NewDirectory(new, d) THEN leaked \cup {new} ELSE leaked

\* The pieces of the chain whose positions in the file are in I become d.
Fill(v, chain, d, I) ==
    [v EXCEPT !.disk = [b \in DOMAIN @ |-> [i \in DOMAIN @[b] |->
        IF \E k \in DOMAIN chain : chain[k] = b /\ ClusterSize * (k - 1) + i \in I
        THEN d ELSE v.disk[b][i]]]]

\* (mutant) The offset within the first cluster is forgotten.
WriteFromClusterStart(v, c, d, size, offset) ==
    LET start == offset - (offset % ClusterSize)
    IN Fill(v, Chain(v.fat, c), d, start + 1 .. start + size)

\* size pieces d go behind the first offset pieces of the chain of c.
WriteToClusterChain(v, c, d, size, offset) ==
    Fill(v, Chain(v.fat, c), d, offset + 1 .. offset + size)

\* A file without clusters gets its first one, and its entry says so.
SetEntryFirstCluster(v, r, first) ==
    IF r.entry.first = first THEN v
    ELSE UpdateDirectoryEntry([v EXCEPT !.fat[first] = kEOC], r.at, [r.entry EXCEPT !.first = first])

\* The chain has room pieces.  If it does not reach the offset the call fails
\* (and the chain stays longer than it was); otherwise as much as there is room
\* for is written, and the size in the entry covers it.
WriteUpTo(v, r, first, d, size, offset, room) ==
    LET Done(n) == UpdateDirectoryEntry(WriteToClusterChain(v, first, d, n, offset), r.at,
                      [r.entry EXCEPT !.first = first, !.size = Max({@, offset + n})])
    IN IF room <= offset THEN v ELSE Done(Min({size, room - offset}))

WriteFileData(v, r, first, d, size, offset) ==
    LET Grown(w) == [w EXCEPT !.fat =
                        EnsureClusterChain(@, first, (offset + size - 1) \div ClusterSize + 1)]
        In(w) == WriteUpTo(w, r, first, d, size, offset, ClusterSize * Len(Chain(w.fat, first)))
    IN In(Grown(SetEntryFirstCluster(v, r, first)))

WriteFile(p, d, size, offset) ==
    \E r \in {LookupPath(Volume, p)} :
       /\ Uses(p)
       /\ r.found /\ ~r.entry.dir
       /\ \E first \in {IF r.entry.first = 0 THEN AllocateCluster(fat) ELSE r.entry.first} :
             /\ first # 0
             /\ Become(WriteFileData(Volume, r, first, d, size, offset))
       /\ UNCHANGED leaked

\* (mutant) The entry is marked, the clusters stay taken.
DeleteEntryKeepsChain(v, r) == UpdateDirectoryEntry(v, r.at, kDeletedEntry)

DeleteEntry(v, r) ==
    UpdateDirectoryEntry(FreeClusterChain(v, r.entry.first), r.at, kDeletedEntry)

DeleteFile(p) ==
    \E r \in {LookupPath(Volume, p)} :
       /\ Uses(p)
       /\ r.found /\ ~r.entry.dir
       /\ Become(DeleteEntry(Volume, r))
       /\ UNCHANGED leaked

RemoveDirectory(p) ==
    \E r \in {LookupPath(Volume, p)} :
       /\ Uses(p)
       /\ r.found /\ r.entry.dir
       /\ IsDirectoryEmpty(Volume, r.entry.first)
       /\ Become(DeleteEntry(Volume, r))
       /\ UNCHANGED leaked

\* Within a directory the entry gets the new name.  In another directory d a
\* new entry is written, of size 0, and the old one is marked as deleted.
MoveEntry(v, r, name, d) ==
    LET Marked(w) == IF w = v THEN v ELSE UpdateDirectoryEntry(w, r.at, kDeletedEntry)
    IN IF r.parent = d THEN UpdateDirectoryEntry(v, r.at, [r.entry EXCEPT !.name = name])
       ELSE Marked(CreateEntry(v, d, Entry(name, r.entry.dir, r.entry.first, 0)))

\* Callers move no directory below itself, which would cut it off, and no file
\* with contents to another directory, which would lose them.
Move(p, q) ==
    \E r \in {LookupPath(Volume, p)}, d \in {GetParentCluster(Volume, q)} :
       /\ Uses(p) /\ Uses(q)
       /\ r.found
       /\ ~LookupPath(Volume, q).found
       /\ d # kEOC
       /\ r.parent = d \/ r.entry.size = 0
       /\ ~IsPrefix(p, q)
       /\ \E v \in {MoveEntry(Volume, r, Last(q), d)} : v # Volume /\ Become(v)
       /\ UNCHANGED leaked

FatNext ==
    \/ \E p \in FilePaths : CreateFile(p)
    \/ \E p \in DirPaths : CreateDirectory(p)
    \/ \E p \in Paths, d \in Data, size \in Sizes, offset \in Offsets :
          WriteFile(p, d, size, offset)
    \/ \E p \in Paths : DeleteFile(p)
    \/ \E p \in Paths : RemoveDirectory(p)
    \/ \E p, q \in Paths : Move(p, q)

FatSpec == FatInit /\ [][FatNext]_vars

------------------------------------------------------------------------------
(* Properties.                                                             *)

\* The entries that can be reached, by their places.
Entries == {x[2] : x \in Reached(Volume)}
ClustersAt(at) == Chain(fat, PieceAt(Volume, at).first)

\* No two files or directories share a cluster, no chain runs in a circle and
\* every chain ends with kEOC: the loops of the driver stop only there, so a
\* chain that ran into a freed cluster would make them read cluster 0, and
\* a shared cluster would be freed under its second owner.
ChainsApart ==
    LET entries == Entries
    IN \A x \in entries :
          LET chain == ClustersAt(x)
          IN /\ Cardinality(ToSet(chain)) = Len(chain)
             /\ chain # <<>> => fat[Last(chain)] = kEOC
             /\ \A y \in entries \ {x} : ToSet(chain) \cap ToSet(ClustersAt(y)) = {}

\* The size in an entry never reaches past the clusters of the file, also
\* after a write that a full disk has cut short: ReadFileData_ would go on
\* behind the end of the chain.
SizeWithinChain ==
    \A x \in Entries : PieceAt(Volume, x).size <= ClusterSize * Len(ClustersAt(x))

\* Every cluster that is not free belongs to a file or directory somebody can
\* still reach, except the ones a failed CreateDirectory has left behind:
\* nothing else that is deleted, moved or cut short by a full disk loses space,
\* and what is in use is a set of sound chains.
NoClusterLost ==
    /\ ChainsApart
    /\ SizeWithinChain
    /\ Cluster \ FreeClusters(fat)
          = leaked \cup UNION {ToSet(ClustersAt(x)) : x \in Entries}

\* A name occurs once in a directory, however slots of deleted entries were
\* reused: LookupPath_ takes the first one it finds, and a second one would
\* come to light when that is deleted.
NamesUnique ==
    LET reached == Reached(Volume)
    IN \A x, y \in reached : x[1] = y[1] => x = y

Abstract == INSTANCE FileTree WITH MaxSize <- ClusterSize * ClusterCount

\* For its callers the driver is a tree of named files: every operation, also
\* on a full disk or a full directory, changes what can be looked up and read
\* back the way FileTree says, and nothing else.
ImplementsFileTree == Abstract!Spec
==============================================================================
