------------------------------ MODULE FilesProofs ------------------------------
(* What the operations of Files do to the reference counts, for any number of  *)
(* processes, descriptors, entries and files. The operations are functions on  *)
(* the record t of the tables, and so is their invariant: one lemma per        *)
(* operation says that it keeps FilesInv.                                      *)
EXTENDS Files, FiniteSetTheorems, TLAPS

\* The descriptors that name entry e and the entries that name file f.
Naming(t, e) == {d \in Slot \X Fd : t.fds[d[1]][d[2]] = e}
Using(t, f) == {e \in Entry : t.entries[e].handle = f}

Handle == File \cup Pipe \cup {None}
EntrySlot == [handle : Handle, refs : Nat]
FileSlot == [path : Path \cup {None}, refs : Nat]

TablesType ==
    [fds : [Slot -> [Fd -> Entry \cup {None}]], entries : [Entry -> EntrySlot],
     files : [File -> FileSlot], failed : SUBSET {"zero", "sessions"}]

\* An entry has as many references as descriptors name it, all in one process, and
\* that one the owner of the pipe if it is a pipe; it is in use exactly if it has
\* a handle.
EntryOK(t, e) ==
    /\ t.entries[e].refs = Cardinality(Naming(t, e))
    /\ t.entries[e].handle = None <=> Naming(t, e) = {}
    /\ \A c, d \in Naming(t, e) : c[1] = d[1]
    /\ t.entries[e].handle \in Pipe => \A d \in Naming(t, e) : d[1] = t.entries[e].handle[1]

FileOK(t, f) ==
    /\ t.files[f].refs = Cardinality(Using(t, f))
    /\ t.files[f].path = None <=> Using(t, f) = {}

FilesInv(t) ==
    /\ t \in TablesType
    /\ \A e \in Entry : EntryOK(t, e)
    /\ \A f \in File : FileOK(t, f)
    /\ \A f, g \in File : t.files[f].path = t.files[g].path /\ f # g => t.files[f].path = None
    /\ "zero" \notin t.failed

--------------------------------------------------------------------------------
(* Sets of descriptors and of entries are finite.                              *)

LEMMA FdFinite == IsFiniteSet(Fd) /\ IsFiniteSet(Slot \X Fd)
<1>1. IsFiniteSet(Fd)
  BY FilesAssumption, FS_Interval DEF Fd
<1> QED
  BY <1>1, FilesAssumption, FS_Product

LEMMA NamingFinite ==
    ASSUME NEW t, NEW e
    PROVE  /\ IsFiniteSet(Naming(t, e)) /\ Cardinality(Naming(t, e)) \in Nat
           /\ Cardinality(Naming(t, e)) = 0 <=> Naming(t, e) = {}
<1>1. IsFiniteSet(Naming(t, e))
  BY FdFinite, FS_Subset DEF Naming
<1> QED
  BY <1>1, FS_CardinalityType, FS_EmptySet

LEMMA UsingFinite ==
    ASSUME NEW t, NEW f
    PROVE  /\ IsFiniteSet(Using(t, f)) /\ Cardinality(Using(t, f)) \in Nat
           /\ Cardinality(Using(t, f)) = 0 <=> Using(t, f) = {}
<1>1. IsFiniteSet(Using(t, f))
  BY FilesAssumption, FS_Subset DEF Using
<1> QED
  BY <1>1, FS_CardinalityType, FS_EmptySet

\* Sets that lose or gain one element.
LEMMA OneLess ==
    ASSUME NEW S, IsFiniteSet(S), NEW x \in S
    PROVE  Cardinality(S \ {x}) = Cardinality(S) - 1 /\ Cardinality(S) \in Nat \ {0}
<1>1. Cardinality(S) \in Nat /\ (Cardinality(S) = 0 <=> S = {})
  BY FS_CardinalityType, FS_EmptySet
<1> QED
  BY <1>1, FS_RemoveElement

LEMMA OneMore ==
    ASSUME NEW S, IsFiniteSet(S), NEW x, x \notin S
    PROVE  Cardinality(S \cup {x}) = Cardinality(S) + 1 /\ Cardinality(S) \in Nat
  BY FS_CardinalityType, FS_AddElement

\* The parts of the tables.
LEMMA TablesParts ==
    ASSUME NEW t \in TablesType
    PROVE  /\ t.fds \in [Slot -> [Fd -> Entry \cup {None}]]
           /\ t.entries \in [Entry -> EntrySlot]
           /\ t.files \in [File -> FileSlot]
           /\ t.failed \in SUBSET {"zero", "sessions"}
           /\ t = [fds |-> t.fds, entries |-> t.entries, files |-> t.files, failed |-> t.failed]
  BY DEF TablesType

\* Slots that are free.
LEMMA SlotTypes ==
    /\ FreeEntry \in EntrySlot /\ FreeEntry.handle = None /\ FreeEntry.refs = 0
    /\ FreeFile \in FileSlot /\ FreeFile.path = None /\ FreeFile.refs = 0
  BY DEF FreeEntry, EntrySlot, Handle, FreeFile, FileSlot

\* What names an entry and what an entry names.
LEMMA NamedEntry ==
    ASSUME NEW t, FilesInv(t), NEW i \in Slot, NEW fd \in Fd, t.fds[i][fd] # None,
           NEW e, e = t.fds[i][fd], NEW h, h = t.entries[e].handle
    PROVE  /\ e \in Entry /\ <<i, fd>> \in Naming(t, e)
           /\ t.entries[e].refs \in Nat \ {0} /\ h \in File \cup Pipe
           /\ h \in File => e \in Using(t, h) /\ t.files[h].refs \in Nat \ {0}
<1>1. e \in Entry
  BY DEF FilesInv, TablesType
<1>2. <<i, fd>> \in Naming(t, e)
  BY DEF Naming
<1>3. t.entries[e].refs \in Nat \ {0} /\ h # None
  BY <1>1, <1>2, NamingFinite DEF FilesInv, EntryOK
<1>4. h \in File \cup Pipe
  BY <1>1, <1>3 DEF FilesInv, TablesType, EntrySlot, Handle
<1>5. ASSUME h \in File
      PROVE  e \in Using(t, h) /\ t.files[h].refs \in Nat \ {0}
  <2>1. e \in Using(t, h)
    BY <1>1 DEF Using
  <2> QED
    BY <1>5, <2>1, UsingFinite, Zenon DEF FilesInv, FileOK
<1> QED
  BY <1>1, <1>2, <1>3, <1>4, <1>5, Zenon

\* Close, and the first half of DuplicateFdTo: the counts stay exact when the last
\* descriptor of an entry, or the last entry of a file, goes.
LEMMA ResetFdKeeps ==
    ASSUME NEW t, FilesInv(t), NEW i \in Slot, NEW fd \in Fd, t.fds[i][fd] # None,
           NEW u, u = ResetFd(t, i, fd)
    PROVE  FilesInv(u) /\ u.fds = [t.fds EXCEPT ![i][fd] = None] /\ u.failed = t.failed
<1>0. PICK e, h : e = t.fds[i][fd] /\ h = t.entries[e].handle
  OBVIOUS
<1>1. /\ t \in TablesType /\ \A x \in Entry : EntryOK(t, x)
      /\ \A f \in File : FileOK(t, f)
      /\ \A f, g \in File : t.files[f].path = t.files[g].path /\ f # g => t.files[f].path = None
      /\ "zero" \notin t.failed
  BY DEF FilesInv
<1>2. /\ e \in Entry /\ <<i, fd>> \in Naming(t, e)
      /\ t.entries[e].refs \in Nat \ {0} /\ h \in File \cup Pipe
      /\ h \in File => e \in Using(t, h) /\ t.files[h].refs \in Nat \ {0}
  BY <1>0, NamedEntry, Zenon
<1>3. /\ u.fds = [t.fds EXCEPT ![i][fd] = None] /\ u.failed = t.failed
      /\ u = [fds |-> u.fds, entries |-> u.entries, files |-> u.files, failed |-> u.failed]
      /\ t.entries[e].refs = 1 => u.entries = [t.entries EXCEPT ![e] = FreeEntry]
      /\ t.entries[e].refs # 1 => u.entries = [t.entries EXCEPT ![e].refs = @ - 1]
      /\ t.entries[e].refs = 1 /\ h \in File /\ t.files[h].refs = 1 =>
             u.files = [t.files EXCEPT ![h] = FreeFile]
      /\ t.entries[e].refs = 1 /\ h \in File /\ t.files[h].refs # 1 =>
             u.files = [t.files EXCEPT ![h].refs = @ - 1]
      /\ t.entries[e].refs # 1 \/ h \notin File => u.files = t.files
  <2>1. CASE t.entries[e].refs # 1
    <3>1. ReleaseEntry(t, e) = [t EXCEPT !.entries[e].refs = @ - 1]
      BY <1>2, <2>1 DEF ReleaseEntry
    <3> QED
      BY <1>0, <1>1, <2>1, <3>1, Zenon DEF ResetFd, SetFd, TablesType
  <2>2. CASE t.entries[e].refs = 1 /\ h \notin File
    <3>1. ReleaseEntry(t, e) = [t EXCEPT !.entries[e] = FreeEntry]
      BY <1>0, <1>2, <2>2, Zenon DEF ReleaseEntry
    <3> QED
      BY <1>0, <1>1, <2>2, <3>1, Zenon DEF ResetFd, SetFd, TablesType
  <2>3. CASE t.entries[e].refs = 1 /\ h \in File /\ t.files[h].refs = 1
    <3>1. ReleaseEntry(t, e) = [[t EXCEPT !.entries[e] = FreeEntry] EXCEPT !.files[h] = FreeFile]
      BY <1>0, <1>1, <1>2, <2>3, Zenon DEF ReleaseEntry, ReleaseFile, TablesType
    <3> QED
      BY <1>0, <1>1, <2>3, <3>1, Zenon DEF ResetFd, SetFd, TablesType
  <2>4. CASE t.entries[e].refs = 1 /\ h \in File /\ t.files[h].refs # 1
    <3>1. ReleaseEntry(t, e) = [[t EXCEPT !.entries[e] = FreeEntry] EXCEPT !.files[h].refs = @ - 1]
      BY <1>0, <1>1, <1>2, <2>4, Zenon DEF ReleaseEntry, ReleaseFile, TablesType
    <3> QED
      BY <1>0, <1>1, <2>4, <3>1, Zenon DEF ResetFd, SetFd, TablesType
  <2> QED
    BY <2>1, <2>2, <2>3, <2>4
<1>4. /\ t.fds \in [Slot -> [Fd -> Entry \cup {None}]] /\ t.entries \in [Entry -> EntrySlot]
      /\ t.files \in [File -> FileSlot]
  BY <1>1, TablesParts, SMTT(30)
<1>5. t.entries[e].refs # 1 =>
          /\ u.entries[e] \in EntrySlot /\ u.entries[e].handle = h
          /\ u.entries[e].refs = t.entries[e].refs - 1
  <2>1. t.entries[e] \in EntrySlot /\ t.entries[e].refs - 1 \in Nat
    BY <1>2, <1>4
  <2>2. t.entries[e].refs # 1 =>
            u.entries[e] = [t.entries[e] EXCEPT !.refs = t.entries[e].refs - 1]
    BY <1>2, <1>3, <1>4
  <2> QED
    BY <1>0, <2>1, <2>2 DEF EntrySlot
<1>6. t.entries[e].refs = 1 /\ h \in File /\ t.files[h].refs # 1 =>
          /\ u.files[h] \in FileSlot /\ u.files[h].path = t.files[h].path
          /\ u.files[h].refs = t.files[h].refs - 1
  <2>1. h \in File => t.files[h] \in FileSlot /\ t.files[h].refs - 1 \in Nat
    BY <1>2, <1>4
  <2>2. t.entries[e].refs = 1 /\ h \in File /\ t.files[h].refs # 1 =>
            u.files[h] = [t.files[h] EXCEPT !.refs = t.files[h].refs - 1]
    BY <1>3, <1>4
  <2> QED
    BY <2>1, <2>2 DEF FileSlot
<1>7. u \in TablesType
  <2>1. u.fds \in [Slot -> [Fd -> Entry \cup {None}]]
    BY <1>3, <1>4
  <2>2. u.entries \in [Entry -> EntrySlot]
    BY <1>2, <1>3, <1>4, <1>5, SlotTypes
  <2>3. u.files \in [File -> FileSlot]
    BY <1>3, <1>4, <1>6, SlotTypes
  <2>4. u.failed \in SUBSET {"zero", "sessions"}
    BY <1>1, <1>3, TablesParts
  <2> QED
    BY <1>3, <2>1, <2>2, <2>3, <2>4 DEF TablesType
<1>8. Naming(u, e) = Naming(t, e) \ {<<i, fd>>}
  BY <1>1, <1>2, <1>3, FilesAssumption DEF Naming, TablesType
<1>9. \A x \in Entry \ {e} : Naming(u, x) = Naming(t, x)
  BY <1>1, <1>2, <1>3, FilesAssumption DEF Naming, TablesType
<1>10. Cardinality(Naming(u, e)) = t.entries[e].refs - 1
  BY <1>1, <1>2, <1>8, NamingFinite, OneLess DEF EntryOK
<1>11. ASSUME NEW x \in Entry PROVE EntryOK(u, x)
  <2>1. CASE x # e
    <3>1. u.entries[x] = t.entries[x]
      BY <1>1, <1>3, <2>1 DEF TablesType
    <3> QED
      BY <1>1, <1>9, <2>1, <3>1 DEF EntryOK
  <2>2. CASE x = e /\ t.entries[e].refs = 1
    <3>1. u.entries[e] = FreeEntry
      BY <1>1, <1>2, <1>3, <2>2 DEF TablesType
    <3>2. Naming(u, e) = {}
      BY <1>10, <2>2, NamingFinite
    <3> QED
      BY <1>10, <2>2, <3>1, <3>2, FilesAssumption DEF EntryOK, FreeEntry
  <2>3. CASE x = e /\ t.entries[e].refs # 1
    <3>1. Naming(u, e) # {} /\ h # None
      BY <1>2, <1>10, <2>3, NamingFinite, FilesAssumption
    <3>2. EntryOK(t, e) /\ Naming(u, e) \subseteq Naming(t, e)
      BY <1>1, <1>2, <1>8
    <3>3. \A c, d \in Naming(u, e) : c[1] = d[1]
      BY <3>2, SMTT(30) DEF EntryOK
    <3>4. h \in Pipe => \A d \in Naming(u, e) : d[1] = h[1]
      BY <1>0, <3>2 DEF EntryOK
    <3> QED
      BY <1>5, <1>10, <2>3, <3>1, <3>3, <3>4 DEF EntryOK
  <2> QED
    BY <2>1, <2>2, <2>3
<1>12. ASSUME NEW f \in File PROVE FileOK(u, f) /\ u.files[f].path \in {t.files[f].path, None}
  <2>1. CASE t.entries[e].refs = 1 /\ f = h
    <3>1. Using(u, f) = Using(t, f) \ {e}
      BY <1>1, <1>2, <1>3, <2>1, FilesAssumption DEF Using, TablesType, FreeEntry
    <3>2. Cardinality(Using(u, f)) = t.files[f].refs - 1
      BY <1>1, <1>2, <2>1, <3>1, UsingFinite, OneLess DEF FileOK
    <3>3. t.files[f].path # None
      BY <1>1, <1>2, <2>1 DEF FileOK
    <3>4. CASE t.files[f].refs = 1
      <4>1. u.files[f] = FreeFile
        BY <1>1, <1>3, <2>1, <3>4 DEF TablesType
      <4>2. Using(u, f) = {}
        BY <3>2, <3>4, UsingFinite
      <4> QED
        BY <3>2, <3>4, <4>1, <4>2 DEF FileOK, FreeFile
    <3>5. CASE t.files[f].refs # 1
      <4>1. u.files[f].refs = t.files[f].refs - 1 /\ u.files[f].path = t.files[f].path
        BY <1>6, <2>1, <3>5
      <4>2. Using(u, f) # {}
        BY <1>2, <2>1, <3>2, <3>5, UsingFinite
      <4> QED
        BY <3>2, <3>3, <4>1, <4>2 DEF FileOK
    <3> QED
      BY <3>4, <3>5
  <2>2. CASE t.entries[e].refs # 1 \/ f # h
    <3>1. Using(u, f) = Using(t, f)
      <4>1. \A x \in Entry : (u.entries[x].handle = f <=> t.entries[x].handle = f)
        <5>1. \A x \in Entry \ {e} : u.entries[x] = t.entries[x]
          BY <1>2, <1>3, <1>4
        <5>2. CASE t.entries[e].refs = 1
          <6>1. u.entries[e].handle = None /\ f # h /\ f # None
            BY <1>2, <1>3, <1>4, <2>2, <5>2, SlotTypes, FilesAssumption, SMTT(30)
          <6> QED
            BY <1>0, <5>1, <6>1
        <5>3. CASE t.entries[e].refs # 1
          BY <1>0, <1>5, <5>1, <5>3
        <5> QED
          BY <5>2, <5>3
      <4> QED
        BY <4>1 DEF Using
    <3>2. u.files[f] = t.files[f]
      BY <1>1, <1>2, <1>3, <2>2 DEF TablesType
    <3> QED
      BY <1>1, <3>1, <3>2 DEF FileOK
  <2> QED
    BY <2>1, <2>2
<1>13. FilesInv(u)
  BY <1>1, <1>3, <1>7, <1>11, <1>12 DEF FilesInv
<1> QED
  BY <1>3, <1>13

\* Both dups: a further descriptor of the same process names the entry.
LEMMA DuplicateKeeps ==
    ASSUME NEW t, FilesInv(t), NEW i \in Slot, NEW fd \in Fd, t.fds[i][fd] # None,
           NEW to \in Fd, t.fds[i][to] = None, NEW u, u = Duplicate(t, i, fd, to)
    PROVE  FilesInv(u) /\ u.failed = t.failed /\ \A j \in Slot \ {i} : u.fds[j] = t.fds[j]
<1>0. PICK e, h : e = t.fds[i][fd] /\ h = t.entries[e].handle
  OBVIOUS
<1>1. /\ t \in TablesType /\ \A x \in Entry : EntryOK(t, x)
      /\ \A f \in File : FileOK(t, f)
      /\ \A f, g \in File : t.files[f].path = t.files[g].path /\ f # g => t.files[f].path = None
      /\ "zero" \notin t.failed
  BY DEF FilesInv
<1>2. /\ e \in Entry /\ <<i, fd>> \in Naming(t, e)
      /\ t.entries[e].refs \in Nat \ {0} /\ h \in File \cup Pipe
  BY <1>0, NamedEntry
<1>3. /\ u.fds = [t.fds EXCEPT ![i][to] = e] /\ u.failed = t.failed
      /\ u = [fds |-> u.fds, entries |-> u.entries, files |-> u.files, failed |-> u.failed]
      /\ u.entries = [t.entries EXCEPT ![e].refs = @ + 1] /\ u.files = t.files
  BY <1>0, <1>1, Zenon DEF Duplicate, SetFd, AddEntryRef, TablesType
<1>4. /\ t.fds \in [Slot -> [Fd -> Entry \cup {None}]] /\ t.entries \in [Entry -> EntrySlot]
      /\ t.files \in [File -> FileSlot]
  BY <1>1, TablesParts, SMTT(30)
<1>5. /\ u.entries[e] \in EntrySlot /\ u.entries[e].handle = h
      /\ u.entries[e].refs = t.entries[e].refs + 1
  <2>1. t.entries[e] \in EntrySlot /\ u.entries[e] = [t.entries[e] EXCEPT !.refs = @ + 1]
    BY <1>2, <1>3, <1>4
  <2> QED
    BY <1>0, <1>2, <2>1 DEF EntrySlot
<1>6. \A x \in Entry \ {e} : u.entries[x] = t.entries[x]
  BY <1>2, <1>3, <1>4
<1>7. u \in TablesType
  <2>1. u.fds \in [Slot -> [Fd -> Entry \cup {None}]]
    BY <1>2, <1>3, <1>4
  <2>2. u.entries \in [Entry -> EntrySlot]
    BY <1>2, <1>3, <1>4, <1>5
  <2>3. u.failed \in SUBSET {"zero", "sessions"}
    BY <1>1, <1>3, TablesParts
  <2> QED
    BY <1>3, <1>4, <2>1, <2>2, <2>3, Zenon DEF TablesType
<1>8. Naming(u, e) = Naming(t, e) \cup {<<i, to>>} /\ <<i, to>> \notin Naming(t, e)
  BY <1>2, <1>3, <1>4, FilesAssumption DEF Naming
<1>9. \A x \in Entry \ {e} : Naming(u, x) = Naming(t, x)
  BY <1>2, <1>3, <1>4, FilesAssumption DEF Naming
<1>10. Cardinality(Naming(u, e)) = t.entries[e].refs + 1
  BY <1>1, <1>2, <1>8, NamingFinite, OneMore DEF EntryOK
<1>11. ASSUME NEW x \in Entry PROVE EntryOK(u, x)
  <2>1. CASE x # e
    BY <1>1, <1>6, <1>9, <2>1 DEF EntryOK
  <2>2. CASE x = e
    <3>1. Naming(u, e) # {} /\ h # None
      BY <1>2, <1>8, FilesAssumption
    <3>2. EntryOK(t, e)
      BY <1>1, <1>2
    <3>3. \A d \in Naming(u, e) : d[1] = i
      BY <1>2, <1>8, <3>2, SMTT(30) DEF EntryOK
    <3>4. h \in Pipe => h[1] = i
      BY <1>0, <1>2, <3>2 DEF EntryOK
    <3> QED
      BY <1>5, <1>10, <2>2, <3>1, <3>3, <3>4 DEF EntryOK
  <2> QED
    BY <2>1, <2>2
<1>12. ASSUME NEW f \in File PROVE FileOK(u, f)
  <2>1. \A x \in Entry : u.entries[x].handle = t.entries[x].handle
    BY <1>0, <1>5, <1>6
  <2>2. Using(u, f) = Using(t, f)
    BY <2>1 DEF Using
  <2> QED
    BY <1>1, <1>3, <2>2, SMTT(30) DEF FileOK
<1>13. FilesInv(u)
  BY <1>1, <1>3, <1>7, <1>11, <1>12 DEF FilesInv
<1> QED
  BY <1>3, <1>4, <1>13

\* DuplicateFdTo: the entry the target named may be the one that is copied, and
\* nothing is left to copy if the target is the descriptor itself.
LEMMA DuplicateToKeeps ==
    ASSUME NEW t, FilesInv(t), NEW i \in Slot, NEW fd \in Fd, NEW to \in Fd, t.fds[i][fd] # None,
           NEW u, u = DuplicateFdTo(t, i, fd, to)
    PROVE  FilesInv(u) /\ \A j \in Slot \ {i} : u.fds[j] = t.fds[j]
<1>1. PICK v : v = IF t.fds[i][to] = None THEN t ELSE ResetFd(t, i, to)
  OBVIOUS
<1>2. t.fds \in [Slot -> [Fd -> Entry \cup {None}]]
  BY TablesParts DEF FilesInv
<1>3. FilesInv(v) /\ v.fds[i][to] = None /\ \A j \in Slot \ {i} : v.fds[j] = t.fds[j]
  <2>1. CASE t.fds[i][to] = None
    BY <1>1, <2>1
  <2>2. CASE t.fds[i][to] # None
    <3>1. FilesInv(v) /\ v.fds = [t.fds EXCEPT ![i][to] = None]
      BY <1>1, <2>2, ResetFdKeeps
    <3> QED
      BY <1>2, <3>1
  <2> QED
    BY <2>1, <2>2
<1>4. u = IF v.fds[i][fd] = None THEN v ELSE Duplicate(v, i, fd, to)
  BY <1>1 DEF DuplicateFdTo
<1>5. CASE v.fds[i][fd] = None
  BY <1>3, <1>4, <1>5
<1>6. CASE v.fds[i][fd] # None
  <2>1. FilesInv(u) /\ \A j \in Slot \ {i} : u.fds[j] = v.fds[j]
    BY <1>3, <1>4, <1>6, DuplicateKeeps
  <2> QED
    BY <1>3, <2>1
<1> QED
  BY <1>5, <1>6

\* Which slots of the pools are free.
LEMMA FreeSlots ==
    ASSUME NEW t, FilesInv(t)
    PROVE  /\ \A e \in FreeEntries(t) : e \in Entry /\ Naming(t, e) = {} /\ t.entries[e] = FreeEntry
           /\ \A f \in FreeFiles(t) : f \in File /\ Using(t, f) = {} /\ t.files[f] = FreeFile
<1>1. ASSUME NEW e \in FreeEntries(t)
      PROVE  e \in Entry /\ Naming(t, e) = {} /\ t.entries[e] = FreeEntry
  BY SlotTypes DEF FreeEntries, FilesInv, EntryOK
<1>2. ASSUME NEW f \in FreeFiles(t)
      PROVE  f \in File /\ Using(t, f) = {} /\ t.files[f] = FreeFile
  BY SlotTypes DEF FreeFiles, FilesInv, FileOK
<1> QED
  BY <1>1, <1>2

\* The least of a set of numbers exists.
LEMMA LeastOne ==
    ASSUME NEW S \in SUBSET Nat, S # {}
    PROVE  Min(S) \in S
<1>1. PICK less : IsWellFoundedOn(less, Nat) /\ \A x, y \in Nat : <<y, x>> \in less <=> y < x
  <2>1. \A x, y \in Nat : <<y, x>> \in OpToRel(<, Nat) <=> y < x
    BY DEF OpToRel
  <2> QED
    BY <2>1, NatLessThanWellFounded, Zenon
<1>2. PICK x \in S : \A y \in S : ~(<<y, x>> \in less)
  BY <1>1, WFMin, Zenon
<1>3. \A y \in S : ~(y < x)
  BY <1>1, <1>2, Zenon
<1>4. \A y \in S : x <= y
  BY <1>3
<1> QED
  BY <1>4, Zenon DEF Min

\* A reference more to a file and one less, in the slot of the file.
LEMMA FileRefs ==
    ASSUME NEW F \in [File -> FileSlot], NEW f \in File, NEW p, NEW n \in Nat,
           NEW m \in Int, F[f] = [path |-> p, refs |-> n]
    PROVE  [F EXCEPT ![f] = [F[f] EXCEPT !.refs = m]] = [F EXCEPT ![f] = [path |-> p, refs |-> m]]
<1>1. [F[f] EXCEPT !.refs = m] = [path |-> p, refs |-> m]
  OBVIOUS
<1> QED
  BY <1>1, Zenon

LEMMA LastButOne ==
    ASSUME NEW F \in [File -> FileSlot], NEW f \in File, NEW p \in Path, NEW D, NEW B, NEW x
    PROVE  ReleaseFile([fds |-> D, entries |-> B,
                        files |-> [F EXCEPT ![f] = [path |-> p, refs |-> 2]], failed |-> x], f)
             = [fds |-> D, entries |-> B,
                files |-> [F EXCEPT ![f] = [path |-> p, refs |-> 1]], failed |-> x]
<1> DEFINE G == [F EXCEPT ![f] = [path |-> p, refs |-> 2]]
           r == [fds |-> D, entries |-> B, files |-> G, failed |-> x]
<1>1. G \in [File -> FileSlot] /\ G[f] = [path |-> p, refs |-> 2]
  BY DEF FileSlot
<1>2. r.files = G
  OBVIOUS
<1>3. ReleaseFile(r, f) = [r EXCEPT !.files = [G EXCEPT ![f] = [G[f] EXCEPT !.refs = 1]]]
  BY <1>1, <1>2 DEF ReleaseFile
<1>4. [G EXCEPT ![f] = [G[f] EXCEPT !.refs = 1]] = [G EXCEPT ![f] = [path |-> p, refs |-> 1]]
  BY <1>1, FileRefs
<1>5. [G EXCEPT ![f] = [path |-> p, refs |-> 1]] = [F EXCEPT ![f] = [path |-> p, refs |-> 1]]
  OBVIOUS
<1> QED
  BY <1>3, <1>4, <1>5

\* Open puts a new entry of a new file into the first free descriptor, or changes
\* nothing: on the ways out without a free entry and without a free descriptor all
\* references are dropped that were taken before.
LEMMA OpenEffect ==
    ASSUME NEW t, FilesInv(t), NEW i \in Slot, NEW p \in Path, NEW f \in FreeFiles(t),
           Find(t, p) = {}, NEW u, u = OpenEntry(GetOrCreate(t, p, f), i, f)
    PROVE  \/ u = t
           \/ \E e \in FreeEntries(t), fd \in FreeFds(t, i) :
                 u = [fds |-> [t.fds EXCEPT ![i][fd] = e],
                      entries |-> [t.entries EXCEPT ![e] = [handle |-> f, refs |-> 1]],
                      files |-> [t.files EXCEPT ![f] = [path |-> p, refs |-> 1]],
                      failed |-> t.failed]
<1>1. /\ t.fds \in [Slot -> [Fd -> Entry \cup {None}]] /\ t.entries \in [Entry -> EntrySlot]
      /\ t.files \in [File -> FileSlot]
      /\ t = [fds |-> t.fds, entries |-> t.entries, files |-> t.files, failed |-> t.failed]
  BY TablesParts DEF FilesInv
<1>2. f \in File /\ t.files[f] = FreeFile
  BY FreeSlots
<1> DEFINE g == [fds |-> t.fds, entries |-> t.entries,
                 files |-> [t.files EXCEPT ![f] = [path |-> p, refs |-> 1]], failed |-> t.failed]
           e == CHOOSE x \in FreeEntries(g) : TRUE
<1>3. GetOrCreate(t, p, f) = g
  BY <1>1 DEF GetOrCreate
<1>4. FreeEntries(g) = FreeEntries(t)
  BY DEF FreeEntries
<1>5. CASE FreeEntries(t) = {}
  <2>1. u = ReleaseFile(g, f)
    BY <1>3, <1>4, <1>5 DEF OpenEntry
  <2>2. g.files[f].refs = 1
    BY <1>1, <1>2
  <2>3. u = [g EXCEPT !.files[f] = FreeFile]
    BY <2>1, <2>2 DEF ReleaseFile
  <2>4. [[t.files EXCEPT ![f] = [path |-> p, refs |-> 1]] EXCEPT ![f] = FreeFile] = t.files
    BY <1>1, <1>2, Zenon
  <2> QED
    BY <1>1, <2>3, <2>4
<1>6. CASE FreeEntries(t) # {}
  <2>1. e \in FreeEntries(t) /\ e \in Entry /\ t.entries[e] = FreeEntry
    BY <1>4, <1>6, FreeSlots
  <2> HIDE DEF e
  <2> DEFINE a == [fds |-> t.fds,
                   entries |-> [t.entries EXCEPT ![e] = [handle |-> f, refs |-> 1]],
                   files |-> [t.files EXCEPT ![f] = [path |-> p, refs |-> 2]],
                   failed |-> t.failed]
  <2>2. NewEntry(AddFileRef(g, f), e, f) = a
    <3> DEFINE F == [t.files EXCEPT ![f] = [path |-> p, refs |-> 1]]
    <3>1. F \in [File -> FileSlot] /\ F[f] = [path |-> p, refs |-> 1]
      BY <1>1, <1>2 DEF FileSlot
    <3>2. AddFileRef(g, f) = [g EXCEPT !.files = [F EXCEPT ![f] = [F[f] EXCEPT !.refs = 2]]]
      BY <3>1 DEF AddFileRef
    <3>3. [F EXCEPT ![f] = [F[f] EXCEPT !.refs = 2]] = [F EXCEPT ![f] = [path |-> p, refs |-> 2]]
      BY <1>2, <3>1, FileRefs
    <3>4. [F EXCEPT ![f] = [path |-> p, refs |-> 2]] = [t.files EXCEPT ![f] = [path |-> p, refs |-> 2]]
      BY <1>1, <1>2
    <3> QED
      BY <3>2, <3>3, <3>4 DEF NewEntry
  <2>3. u = ReleaseFile(AllocateFd(a, i, e), f)
    BY <1>3, <1>4, <1>6, <2>2 DEF OpenEntry, e
  <2>4. FreeFds(a, i) = FreeFds(t, i)
    BY DEF FreeFds
  <2>5. CASE FreeFds(t, i) = {}
    <3>1. AllocateFd(a, i, e) = ReleaseEntry(a, e)
      BY <2>4, <2>5 DEF AllocateFd
    <3>2. a.entries[e] = [handle |-> f, refs |-> 1] /\ a.files[f] = [path |-> p, refs |-> 2]
      BY <1>1, <1>2, <2>1
    <3>3. ReleaseEntry(a, e) = ReleaseFile([a EXCEPT !.entries[e] = FreeEntry], f)
      BY <1>2, <3>2 DEF ReleaseEntry
    <3>4. [a EXCEPT !.entries[e] = FreeEntry]
             = [fds |-> t.fds, entries |-> t.entries,
                files |-> [t.files EXCEPT ![f] = [path |-> p, refs |-> 2]], failed |-> t.failed]
      BY <1>1, <2>1
    <3>5. ReleaseEntry(a, e) = g
      BY <1>1, <1>2, <3>3, <3>4, LastButOne
    <3>6. u = [g EXCEPT !.files[f] = FreeFile]
      <4>1. g.files[f].refs = 1
        BY <1>1, <1>2
      <4>2. u = ReleaseFile(g, f)
        BY <2>3, <3>1, <3>5
      <4> QED
        BY <4>1, <4>2 DEF ReleaseFile
    <3>7. [[t.files EXCEPT ![f] = [path |-> p, refs |-> 1]] EXCEPT ![f] = FreeFile] = t.files
      BY <1>1, <1>2, Zenon
    <3> QED
      BY <1>1, <3>6, <3>7
  <2>6. CASE FreeFds(t, i) # {}
    <3>1. PICK fd \in FreeFds(t, i) : AllocateFd(a, i, e) = SetFd(a, i, fd, e)
      <4>1. Min(FreeFds(t, i)) \in FreeFds(t, i)
        BY <2>6, LeastOne, FilesAssumption DEF FreeFds, Fd
      <4> QED
        BY <2>4, <2>6, <4>1 DEF AllocateFd
    <3>2. SetFd(a, i, fd, e) = [fds |-> [t.fds EXCEPT ![i][fd] = e], entries |-> a.entries,
                                files |-> a.files, failed |-> t.failed]
      BY DEF SetFd
    <3>3. ReleaseFile(SetFd(a, i, fd, e), f)
             = [fds |-> [t.fds EXCEPT ![i][fd] = e], entries |-> a.entries,
                files |-> [t.files EXCEPT ![f] = [path |-> p, refs |-> 1]], failed |-> t.failed]
      <4>1. PICK D, B : D = [t.fds EXCEPT ![i][fd] = e] /\ B = a.entries
        BY Zenon
      <4>2. SetFd(a, i, fd, e) = [fds |-> D, entries |-> B,
                                  files |-> [t.files EXCEPT ![f] = [path |-> p, refs |-> 2]],
                                  failed |-> t.failed]
        BY <3>2, <4>1
      <4>3. ReleaseFile([fds |-> D, entries |-> B,
                         files |-> [t.files EXCEPT ![f] = [path |-> p, refs |-> 2]],
                         failed |-> t.failed], f)
               = [fds |-> D, entries |-> B,
                  files |-> [t.files EXCEPT ![f] = [path |-> p, refs |-> 1]], failed |-> t.failed]
        BY <1>1, <1>2, LastButOne
      <4> QED
        BY <4>1, <4>2, <4>3
    <3> QED
      BY <2>1, <2>3, <3>1, <3>3, Zenon
  <2> QED
    BY <2>5, <2>6
<1> QED
  BY <1>5, <1>6

\* Open of a file that nobody has open keeps the counts exact.
LEMMA OpenKeeps ==
    ASSUME NEW t, FilesInv(t), NEW i \in Slot, NEW p \in Path, NEW f \in FreeFiles(t),
           Find(t, p) = {}, NEW u, u = OpenEntry(GetOrCreate(t, p, f), i, f)
    PROVE  /\ FilesInv(u) /\ u.failed = t.failed
           /\ \A j \in Slot \ {i} : u.fds[j] = t.fds[j]
<1>1. CASE u = t
  BY <1>1
<1>2. ASSUME NEW e \in FreeEntries(t), NEW fd \in FreeFds(t, i),
             u = [fds |-> [t.fds EXCEPT ![i][fd] = e],
                  entries |-> [t.entries EXCEPT ![e] = [handle |-> f, refs |-> 1]],
                  files |-> [t.files EXCEPT ![f] = [path |-> p, refs |-> 1]],
                  failed |-> t.failed]
      PROVE  /\ FilesInv(u) /\ u.failed = t.failed
             /\ \A j \in Slot \ {i} : u.fds[j] = t.fds[j]
  <2>1. /\ t.fds \in [Slot -> [Fd -> Entry \cup {None}]] /\ t.entries \in [Entry -> EntrySlot]
        /\ t.files \in [File -> FileSlot] /\ t.failed \in SUBSET {"zero", "sessions"}
    BY TablesParts DEF FilesInv
  <2>2. /\ e \in Entry /\ Naming(t, e) = {} /\ t.entries[e] = FreeEntry
        /\ f \in File /\ Using(t, f) = {} /\ t.files[f] = FreeFile
        /\ fd \in Fd /\ t.fds[i][fd] = None
    BY FreeSlots DEF FreeFds
  <2>3. /\ u.fds = [t.fds EXCEPT ![i][fd] = e]
        /\ u.entries = [t.entries EXCEPT ![e] = [handle |-> f, refs |-> 1]]
        /\ u.files = [t.files EXCEPT ![f] = [path |-> p, refs |-> 1]]
        /\ u.failed = t.failed
    BY <1>2
  <2>4. u \in TablesType
    <3>1. u.fds \in [Slot -> [Fd -> Entry \cup {None}]]
      BY <2>1, <2>2, <2>3
    <3>2. [handle |-> f, refs |-> 1] \in EntrySlot /\ [path |-> p, refs |-> 1] \in FileSlot
      BY <2>2 DEF EntrySlot, Handle, FileSlot
    <3>3. u.entries \in [Entry -> EntrySlot] /\ u.files \in [File -> FileSlot]
      BY <2>1, <2>3, <3>2, Zenon
    <3> QED
      BY <1>2, <2>1, <2>3, <3>1, <3>3 DEF TablesType
  <2>5. /\ Naming(u, e) = {<<i, fd>>}
        /\ \A x \in Entry \ {e} : Naming(u, x) = Naming(t, x)
    <3>1. \A d \in Slot \X Fd : u.fds[d[1]][d[2]] = IF d = <<i, fd>> THEN e ELSE t.fds[d[1]][d[2]]
      BY <2>1, <2>2, <2>3
    <3>2. Naming(u, e) = {<<i, fd>>}
      BY <2>2, <3>1 DEF Naming
    <3>3. None \notin Entry
      BY FilesAssumption
    <3>4. ASSUME NEW x \in Entry \ {e}
          PROVE  Naming(u, x) = Naming(t, x)
      BY <2>2, <3>1, <3>3 DEF Naming
    <3> QED
      BY <3>2, <3>4
  <2>6. /\ Using(u, f) = {e}
        /\ \A g \in File \ {f} : Using(u, g) = Using(t, g)
    <3>1. \A x \in Entry : u.entries[x].handle = IF x = e THEN f ELSE t.entries[x].handle
      BY <2>1, <2>3
    <3>2. Using(u, f) = {e}
      BY <2>2, <3>1 DEF Using
    <3>3. None \notin File
      BY FilesAssumption
    <3>4. ASSUME NEW g \in File \ {f}
          PROVE  Using(u, g) = Using(t, g)
      BY <2>2, <3>1, <3>3, SlotTypes DEF Using
    <3> QED
      BY <3>2, <3>4
  <2>7. ASSUME NEW x \in Entry
        PROVE  EntryOK(u, x)
    <3>1. CASE x = e
      <4>1. u.entries[x].refs = 1 /\ u.entries[x].handle = f /\ f # None /\ f \notin Pipe
        BY <2>1, <2>2, <2>3, <3>1, FilesAssumption, SMTT(30)
      <4> QED
        BY <2>5, <3>1, <4>1, FS_Singleton, Zenon DEF EntryOK
    <3>2. CASE x # e
      <4>1. u.entries[x] = t.entries[x] /\ Naming(u, x) = Naming(t, x) /\ EntryOK(t, x)
        BY <2>1, <2>3, <2>5, <3>2 DEF FilesInv
      <4> QED
        BY <4>1 DEF EntryOK
    <3> QED
      BY <3>1, <3>2
  <2>8. ASSUME NEW g \in File
        PROVE  FileOK(u, g)
    <3>1. CASE g = f
      <4>1. u.files[g].refs = 1 /\ u.files[g].path = p /\ p # None
        BY <2>1, <2>2, <2>3, <3>1, FilesAssumption
      <4> QED
        BY <2>6, <3>1, <4>1, FS_Singleton, SMTT(30) DEF FileOK
    <3>2. CASE g # f
      <4>1. u.files[g] = t.files[g] /\ Using(u, g) = Using(t, g) /\ FileOK(t, g)
        BY <2>1, <2>3, <2>6, <3>2 DEF FilesInv
      <4> QED
        BY <4>1 DEF FileOK
    <3> QED
      BY <3>1, <3>2
  <2>9. \A g \in File : t.files[g].path # p
    <3>1. p # None /\ \A g \in File : FileOK(t, g)
      BY FilesAssumption DEF FilesInv
    <3>2. \A g \in File : t.files[g].path = p => Using(t, g) # {}
      BY <3>1 DEF FileOK
    <3>3. \A g \in File : t.files[g].path = p => t.files[g].refs # 0
      BY <3>1, <3>2, UsingFinite DEF FileOK
    <3> QED
      BY <2>1, <3>3 DEF Find, FileSlot
  <2>10. \A g, h \in File : u.files[g].path = u.files[h].path /\ g # h => u.files[g].path = None
    <3>1. \A g \in File : u.files[g].path = IF g = f THEN p ELSE t.files[g].path
      BY <2>1, <2>3
    <3>2. \A g, h \in File : t.files[g].path = t.files[h].path /\ g # h => t.files[g].path = None
      BY DEF FilesInv
    <3> QED
      BY <2>9, <3>1, <3>2, SMTT(30)
  <2>11. \A j \in Slot \ {i} : u.fds[j] = t.fds[j]
    BY <2>1, <2>3
  <2> QED
    BY <2>3, <2>4, <2>7, <2>8, <2>10, <2>11 DEF FilesInv
<1> QED
  BY <1>1, <1>2, OpenEffect

\* The descriptors of slot i that name e are all its references, or none is.
LEMMA NamedByOne ==
    ASSUME NEW t, FilesInv(t), NEW i \in Slot, NEW e \in Entry
    PROVE  LET mine == {fd \in Fd : t.fds[i][fd] = e}
           IN /\ mine = {} => Cardinality(mine) = 0
              /\ mine # {} => Cardinality(mine) = t.entries[e].refs /\ Cardinality(mine) \in Nat \ {0}
<1> DEFINE mine == {fd \in Fd : t.fds[i][fd] = e}
<1>1. CASE mine = {}
  BY <1>1, FS_EmptySet
<1>2. CASE mine # {}
  <2>1. PICK fd \in Fd : t.fds[i][fd] = e
    BY <1>2
  <2>2. <<i, fd>> \in Naming(t, e)
    BY <2>1 DEF Naming
  <2>3. \A d \in Naming(t, e) : d[1] = i
    BY <2>2 DEF FilesInv, EntryOK
  <2> DEFINE at == [x \in mine |-> <<i, x>>]
  <2>4. at \in Bijection(mine, Naming(t, e))
    <3>1. at \in [mine -> Naming(t, e)]
      BY DEF Naming
    <3>2. \A a, b \in mine : at[a] = at[b] => a = b
      OBVIOUS
    <3>3. ASSUME NEW d \in Naming(t, e)
          PROVE  \E a \in mine : at[a] = d
      <4>1. d \in Slot \X Fd /\ d[1] = i /\ t.fds[d[1]][d[2]] = e
        BY <2>3 DEF Naming
      <4>2. d[2] \in mine /\ d = <<i, d[2]>>
        BY <4>1
      <4> QED
        BY <4>2
    <3> HIDE DEF at, mine
    <3> QED
      BY <3>1, <3>2, <3>3 DEF Bijection, Injection, IsInjective, Surjection
  <2>5. IsFiniteSet(mine)
    BY FdFinite, FS_Subset
  <2>6. Cardinality(mine) = Cardinality(Naming(t, e))
    BY <2>4, <2>5, FS_Bijection DEF ExistsBijection
  <2>7. Cardinality(Naming(t, e)) \in Nat \ {0}
    BY <2>2, NamingFinite
  <2>8. t.entries[e].refs = Cardinality(Naming(t, e))
    BY DEF FilesInv, EntryOK
  <2> QED
    BY <1>2, <2>6, <2>7, <2>8
<1> QED
  BY <1>1, <1>2

\* The tables without the descriptors of slot i and the entries own they name.
Deleted(t, i, own) ==
    [fds |-> [t.fds EXCEPT ![i] = EmptyTable],
     entries |-> [e \in Entry |-> IF e \in own THEN FreeEntry ELSE t.entries[e]],
     files |-> [f \in File |->
         Without(t.files[f], Cardinality(Using(t, f) \cap own), FreeFile)],
     failed |-> t.failed]

\* ~FdTable empties the table of slot i, frees the entries it names, and drops
\* their references to the files.
LEMMA DeleteEffect ==
    ASSUME NEW t, FilesInv(t), NEW i \in Slot, NEW u, u = DeleteFdTable(t, i),
           NEW own, own = {e \in Entry : \E fd \in Fd : t.fds[i][fd] = e}
    PROVE  u = Deleted(t, i, own)
<1> DEFINE Lost(e) == Cardinality({fd \in Fd : t.fds[i][fd] = e})
           freed == {e \in Entry : Lost(e) > 0 /\ Lost(e) >= t.entries[e].refs}
           LostBy(f) == Cardinality({e \in freed : t.entries[e].handle = f})
<1>1. /\ t.fds \in [Slot -> [Fd -> Entry \cup {None}]] /\ t.entries \in [Entry -> EntrySlot]
      /\ t.files \in [File -> FileSlot]
  BY TablesParts DEF FilesInv
<1>2. ASSUME NEW e \in Entry
      PROVE  /\ e \in own => Lost(e) = t.entries[e].refs /\ Lost(e) \in Nat \ {0}
             /\ e \notin own => Lost(e) = 0
             /\ t.entries[e].refs \in Nat
  <2>1. t.entries[e].refs \in Nat
    BY <1>1 DEF EntrySlot
  <2>2. e \in own <=> {fd \in Fd : t.fds[i][fd] = e} # {}
    OBVIOUS
  <2> QED
    BY <2>1, <2>2, NamedByOne
<1> HIDE DEF Lost
<1>3. freed = own
  BY <1>2
<1>4. ASSUME NEW e \in Entry
      PROVE  Without(t.entries[e], Lost(e), FreeEntry) = IF e \in own THEN FreeEntry ELSE t.entries[e]
  BY <1>2 DEF Without
<1>5. ASSUME NEW f \in File
      PROVE  LostBy(f) = Cardinality(Using(t, f) \cap own) /\ LostBy(f) <= t.files[f].refs
  <2>1. {e \in own : t.entries[e].handle = f} = Using(t, f) \cap own
    BY DEF Using
  <2>2. LostBy(f) = Cardinality(Using(t, f) \cap own)
    BY <1>3, <2>1, Zenon
  <2>3. Cardinality(Using(t, f) \cap own) <= Cardinality(Using(t, f))
    BY UsingFinite, FS_Subset
  <2>4. t.files[f].refs = Cardinality(Using(t, f))
    BY DEF FilesInv, FileOK
  <2> QED
    BY <2>2, <2>3, <2>4
<1>6. \A f \in File : LostBy(f) \in Nat /\ t.files[f].refs \in Nat
  <2>1. ASSUME NEW f \in File PROVE LostBy(f) \in Nat
    <3>1. IsFiniteSet(Using(t, f) \cap own)
      BY UsingFinite, FS_Subset
    <3> QED
      BY <1>5, <3>1, FS_CardinalityType
  <2> QED
    BY <1>1, <2>1 DEF FileSlot
<1> HIDE DEF LostBy
<1>7. ~ \/ \E e \in Entry : Lost(e) > t.entries[e].refs
        \/ \E f \in File : LostBy(f) > t.files[f].refs
  <2>1. ASSUME NEW e \in Entry PROVE ~(Lost(e) > t.entries[e].refs)
    BY <1>2
  <2>2. ASSUME NEW f \in File PROVE ~(LostBy(f) > t.files[f].refs)
    <3>1. LostBy(f) <= t.files[f].refs
      BY <1>5, Zenon
    <3> QED
      BY <1>6, <3>1
  <2> QED
    BY <2>1, <2>2, Zenon
<1>8. u = [fds |-> [t.fds EXCEPT ![i] = [fd \in Fd |-> IF fd \in Fd THEN None ELSE t.fds[i][fd]]],
           entries |-> [e \in Entry |-> Without(t.entries[e], Lost(e), FreeEntry)],
           files |-> [f \in File |-> Without(t.files[f], LostBy(f), FreeFile)],
           failed |-> t.failed]
  <2> DEFINE below == \/ \E e \in Entry : Lost(e) > t.entries[e].refs
                      \/ \E f \in File : LostBy(f) > t.files[f].refs
  <2>1. u = [fds |-> [t.fds EXCEPT ![i] = [fd \in Fd |-> IF fd \in Fd THEN None ELSE t.fds[i][fd]]],
             entries |-> [e \in Entry |-> Without(t.entries[e], Lost(e), FreeEntry)],
             files |-> [f \in File |-> Without(t.files[f], LostBy(f), FreeFile)],
             failed |-> IF below THEN t.failed \cup {"zero"} ELSE t.failed]
    BY DEF DeleteFdTable, ResetFds, Lost, LostBy
  <2>2. ~below
    BY <1>7
  <2> HIDE DEF below
  <2> QED
    BY <2>1, <2>2, SMTT(30)
<1>9. [fd \in Fd |-> IF fd \in Fd THEN None ELSE t.fds[i][fd]] = EmptyTable
  BY DEF EmptyTable
<1>10. [e \in Entry |-> Without(t.entries[e], Lost(e), FreeEntry)]
          = [e \in Entry |-> IF e \in own THEN FreeEntry ELSE t.entries[e]]
  BY <1>4
<1>11. [f \in File |-> Without(t.files[f], LostBy(f), FreeFile)]
          = [f \in File |-> Without(t.files[f], Cardinality(Using(t, f) \cap own), FreeFile)]
  BY <1>5
<1> QED
  BY <1>8, <1>9, <1>10, <1>11, Zenon DEF Deleted

\* ~FdTable keeps the counts exact.
LEMMA DeleteKeeps ==
    ASSUME NEW t, FilesInv(t), NEW i \in Slot, NEW u, u = DeleteFdTable(t, i)
    PROVE  FilesInv(u) /\ u.failed = t.failed /\ u.fds = [t.fds EXCEPT ![i] = EmptyTable]
<1>1. /\ t.fds \in [Slot -> [Fd -> Entry \cup {None}]] /\ t.entries \in [Entry -> EntrySlot]
      /\ t.files \in [File -> FileSlot] /\ t.failed \in SUBSET {"zero", "sessions"}
  BY TablesParts DEF FilesInv
<1>2. PICK own : own = {e \in Entry : \E fd \in Fd : t.fds[i][fd] = e}
  BY Zenon
<1>3. u = Deleted(t, i, own)
  BY <1>2, DeleteEffect
<1>4. /\ u.fds = [t.fds EXCEPT ![i] = EmptyTable] /\ u.failed = t.failed
      /\ u.entries = [e \in Entry |-> IF e \in own THEN FreeEntry ELSE t.entries[e]]
      /\ u.files = [f \in File |->
                       Without(t.files[f], Cardinality(Using(t, f) \cap own), FreeFile)]
  BY <1>3 DEF Deleted
<1>5. None \notin Entry
  BY FilesAssumption
<1>6. \A d \in Slot \X Fd : u.fds[d[1]][d[2]] = IF d[1] = i THEN None ELSE t.fds[d[1]][d[2]]
  BY <1>1, <1>4 DEF EmptyTable
<1>7. ASSUME NEW e \in Entry
      PROVE  EntryOK(u, e)
  <2>1. EntryOK(t, e)
    BY DEF FilesInv
  <2>2. CASE e \in own
    <3>1. PICK fd \in Fd : t.fds[i][fd] = e
      BY <1>2, <2>2
    <3>2. <<i, fd>> \in Naming(t, e)
      BY <3>1 DEF Naming
    <3>3. \A d \in Naming(t, e) : d[1] = i
      BY <2>1, <3>2 DEF EntryOK
    <3>4. Naming(u, e) = {}
      BY <1>5, <1>6, <3>3 DEF Naming
    <3>5. u.entries[e] = FreeEntry
      BY <1>4, <2>2
    <3>6. FreeEntry.handle \notin Pipe
      BY SlotTypes, FilesAssumption
    <3> QED
      BY <3>4, <3>5, <3>6, SlotTypes, FS_EmptySet DEF EntryOK
  <2>3. CASE e \notin own
    <3>1. \A fd \in Fd : t.fds[i][fd] # e
      BY <1>2, <2>3
    <3>2. Naming(u, e) = Naming(t, e)
      BY <1>5, <1>6, <3>1 DEF Naming
    <3>3. u.entries[e] = t.entries[e]
      BY <1>4, <2>3, SMTT(30)
    <3> QED
      BY <2>1, <3>2, <3>3 DEF EntryOK
  <2> QED
    BY <2>2, <2>3
<1>8. ASSUME NEW f \in File
      PROVE  /\ u.files[f] \in FileSlot /\ FileOK(u, f)
             /\ u.files[f].path \in {t.files[f].path, None}
  <2>1. Using(u, f) = Using(t, f) \ own
    <3>1. \A e \in Entry : u.entries[e].handle = IF e \in own THEN None ELSE t.entries[e].handle
      BY <1>4, SlotTypes
    <3>2. f # None
      BY FilesAssumption
    <3> QED
      BY <3>1, <3>2 DEF Using
  <2>2. PICK n, m, k : /\ n = Cardinality(Using(t, f) \cap own) /\ m = Cardinality(Using(t, f))
                       /\ k = Cardinality(Using(u, f))
    OBVIOUS
  <2>3. /\ n \in Nat /\ m \in Nat /\ k \in Nat /\ k = m - n
        /\ n = 0 <=> Using(t, f) \cap own = {}
    <3>1. IsFiniteSet(Using(t, f)) /\ m \in Nat /\ k \in Nat
      BY <2>2, UsingFinite
    <3>2. IsFiniteSet(Using(t, f) \cap own)
      BY <3>1, FS_Subset
    <3>3. n \in Nat /\ (n = 0 <=> Using(t, f) \cap own = {})
      BY <2>2, <3>2, FS_CardinalityType, FS_EmptySet
    <3> QED
      BY <2>1, <2>2, <3>1, <3>3, FS_Difference, Zenon
  <2>4. /\ k = 0 <=> Using(u, f) = {}
        /\ m = 0 <=> Using(t, f) = {}
    BY <2>2, UsingFinite
  <2>5. /\ t.files[f] \in FileSlot /\ t.files[f].refs = m
        /\ t.files[f].path = None <=> Using(t, f) = {}
    BY <1>1, <2>2 DEF FilesInv, FileOK
  <2>6. u.files[f] = Without(t.files[f], n, FreeFile)
    BY <1>4, <2>2
  <2>7. CASE n = 0
    <3>1. u.files[f] = t.files[f] /\ Using(u, f) = Using(t, f)
      BY <2>1, <2>3, <2>6, <2>7 DEF Without
    <3> QED
      BY <2>2, <2>5, <3>1 DEF FileOK
  <2>8. CASE n > 0 /\ n >= m
    <3>1. u.files[f] = FreeFile
      BY <2>5, <2>6, <2>8 DEF Without
    <3>2. k = 0
      BY <2>3, <2>8
    <3> QED
      BY <2>2, <2>4, <3>1, <3>2, SlotTypes DEF FileOK
  <2>9. CASE n > 0 /\ n < m
    <3>1. u.files[f] = [t.files[f] EXCEPT !.refs = m - n]
      BY <2>3, <2>5, <2>6, <2>9 DEF Without
    <3>2. u.files[f].refs = k /\ u.files[f].path = t.files[f].path /\ u.files[f] \in FileSlot
      BY <2>3, <2>5, <3>1 DEF FileSlot
    <3>3. k # 0 /\ m # 0
      BY <2>3, <2>9
    <3> QED
      BY <2>2, <2>4, <2>5, <3>2, <3>3 DEF FileOK
  <2> QED
    BY <2>3, <2>7, <2>8, <2>9
<1>9. u \in TablesType
  <2>1. u.fds \in [Slot -> [Fd -> Entry \cup {None}]]
    BY <1>1, <1>4 DEF EmptyTable
  <2>2. u.entries \in [Entry -> EntrySlot]
    BY <1>1, <1>4, SlotTypes
  <2>3. u.files \in [File -> FileSlot]
    <3>1. \A f \in File : u.files[f] \in FileSlot
      BY <1>8
    <3>2. PICK F : F = u.files
      OBVIOUS
    <3>3. F = [f \in File |-> F[f]]
      BY <1>4, <3>2
    <3> QED
      BY <3>1, <3>2, <3>3
  <2> QED
    BY <1>1, <1>3, <1>4, <2>1, <2>2, <2>3, SMTT(30) DEF TablesType, Deleted
<1>10. \A f, g \in File : u.files[f].path = u.files[g].path /\ f # g => u.files[f].path = None
  <2>1. \A f, g \in File : t.files[f].path = t.files[g].path /\ f # g => t.files[f].path = None
    BY DEF FilesInv
  <2>2. \A f \in File : u.files[f].path \in {t.files[f].path, None}
    BY <1>8
  <2> QED
    BY <2>1, <2>2
<1> QED
  BY <1>4, <1>7, <1>8, <1>9, <1>10, Zenon DEF FilesInv

\* An enumeration lists elements of a finite set, none twice.
LEMMA Listing ==
    ASSUME NEW S, IsFiniteSet(S), NEW q, q = Enumeration(S)
    PROVE  /\ q \in Seq(S) /\ Len(q) \in Nat /\ DOMAIN q = 1..Len(q)
           /\ \A k \in 1..Len(q) : q[k] \in S
           /\ \A k, m \in 1..Len(q) : q[k] = q[m] => k = m
<1>1. Cardinality(S) \in Nat /\ \E f \in [1..Cardinality(S) -> S] : IsInjective(f)
  BY FS_CardinalityType DEF ExistsBijection, Bijection, Injection
<1>2. q \in [1..Cardinality(S) -> S] /\ IsInjective(q)
  BY <1>1 DEF Enumeration
<1>3. q \in Seq(S) /\ Len(q) = Cardinality(S)
  BY <1>1, <1>2
<1> QED
  BY <1>1, <1>2, <1>3 DEF IsInjective

\* The tables after pipes of slot i are opened at the descriptors in opening.
Opened(t, i, slots, opening) ==
    [t EXCEPT
        !.fds[i] = [fd \in Fd |-> IF fd \in opening THEN slots[fd + 1] ELSE @[fd]],
        !.entries = [e \in Entry |->
            IF {fd \in opening : slots[fd + 1] = e} = {} THEN @[e]
            ELSE [handle |-> <<i, CHOOSE fd \in {fd \in opening : slots[fd + 1] = e} : TRUE>>,
                  refs |-> 1]]]

\* Entries for the standard pipes that do fit keep the counts exact.
LEMMA OpenedKeeps ==
    ASSUME NEW t, FilesInv(t), NEW i \in Slot, t.fds[i] = EmptyTable,
           NEW slots, slots = Enumeration(FreeEntries(t)),
           NEW opening, opening = {fd \in StdFd : fd < Len(slots)},
           NEW u, u = Opened(t, i, slots, opening)
    PROVE  /\ FilesInv(u) /\ u.failed = t.failed
           /\ \A j \in Slot \ {i} : u.fds[j] = t.fds[j]
           /\ \A fd \in opening : u.fds[i][fd] # None
<1>1. /\ t.fds \in [Slot -> [Fd -> Entry \cup {None}]] /\ t.entries \in [Entry -> EntrySlot]
      /\ t.files \in [File -> FileSlot] /\ t.failed \in SUBSET {"zero", "sessions"}
      /\ t = [fds |-> t.fds, entries |-> t.entries, files |-> t.files, failed |-> t.failed]
  BY TablesParts DEF FilesInv
<1>2. ASSUME NEW fd \in opening
      PROVE  /\ fd \in StdFd /\ fd \in Fd /\ slots[fd + 1] \in FreeEntries(t)
             /\ \A gd \in opening : slots[fd + 1] = slots[gd + 1] => fd = gd
  <2>1. IsFiniteSet(FreeEntries(t))
    BY FilesAssumption, FS_Subset DEF FreeEntries
  <2>2. /\ Len(slots) \in Nat
        /\ \A k \in 1..Len(slots) : slots[k] \in FreeEntries(t)
        /\ \A k, m \in 1..Len(slots) : slots[k] = slots[m] => k = m
    BY <2>1, Listing
  <2>3. \A gd \in opening : gd \in StdFd /\ gd \in Fd /\ gd \in Nat /\ gd + 1 \in 1..Len(slots)
    BY <2>2, FilesAssumption DEF StdFd, Fd
  <2>4. ASSUME NEW gd \in opening, slots[fd + 1] = slots[gd + 1] PROVE fd = gd
    <3>1. fd + 1 = gd + 1
      BY <2>2, <2>3, <2>4
    <3> QED
      BY <2>3, <3>1
  <2> QED
    BY <2>2, <2>3, <2>4
<1>3. /\ u.fds = [t.fds EXCEPT ![i] = [fd \in Fd |-> IF fd \in opening THEN slots[fd + 1]
                                                     ELSE t.fds[i][fd]]]
      /\ u.entries = [e \in Entry |->
            IF {fd \in opening : slots[fd + 1] = e} = {} THEN t.entries[e]
            ELSE [handle |-> <<i, CHOOSE fd \in {fd \in opening : slots[fd + 1] = e} : TRUE>>,
                  refs |-> 1]]
      /\ u.files = t.files /\ u.failed = t.failed
      /\ u = [fds |-> u.fds, entries |-> u.entries, files |-> u.files, failed |-> u.failed]
  BY <1>1, Zenon DEF Opened
<1>4. ASSUME NEW e \in Entry, NEW fd \in opening, slots[fd + 1] = e
      PROVE  u.entries[e] = [handle |-> <<i, fd>>, refs |-> 1] /\ e \in FreeEntries(t)
  <2>1. {gd \in opening : slots[gd + 1] = e} = {fd}
    BY <1>2, <1>4
  <2>2. (CHOOSE gd \in {fd} : TRUE) = fd
    OBVIOUS
  <2>3. u.entries[e] = [handle |-> <<i, CHOOSE gd \in {gd \in opening : slots[gd + 1] = e} : TRUE>>,
                        refs |-> 1]
    BY <1>3, <2>1
  <2> QED
    BY <1>2, <1>4, <2>1, <2>2, <2>3
<1>5. ASSUME NEW e \in Entry, \A fd \in opening : slots[fd + 1] # e
      PROVE  u.entries[e] = t.entries[e]
  BY <1>3, <1>5
<1>6. \A d \in Slot \X Fd : u.fds[d[1]][d[2]] =
          IF d[1] = i THEN IF d[2] \in opening THEN slots[d[2] + 1] ELSE None
                      ELSE t.fds[d[1]][d[2]]
  BY <1>1, <1>3 DEF EmptyTable
<1>7. ASSUME NEW e \in Entry
      PROVE  EntryOK(u, e) /\ u.entries[e] \in EntrySlot
  <2>1. CASE \E fd \in opening : slots[fd + 1] = e
    <3>1. PICK fd \in opening : slots[fd + 1] = e
      BY <2>1
    <3>2. u.entries[e] = [handle |-> <<i, fd>>, refs |-> 1] /\ e \in FreeEntries(t)
      BY <1>4, <3>1
    <3>3. Naming(t, e) = {}
      BY <3>2, FreeSlots
    <3>4. fd \in Fd /\ fd \in StdFd /\ \A gd \in opening : slots[gd + 1] = e => gd = fd
      BY <1>2, <3>1
    <3>5. Naming(u, e) = {<<i, fd>>}
      <4>1. None \notin Entry
        BY FilesAssumption
      <4>2. <<i, fd>> \in Naming(u, e)
        BY <1>6, <3>1, <3>4 DEF Naming
      <4>3. ASSUME NEW d \in Naming(u, e) PROVE d = <<i, fd>>
        <5>1. d \in Slot \X Fd /\ u.fds[d[1]][d[2]] = e
          BY DEF Naming
        <5>2. d[1] = i
          BY <1>6, <3>3, <5>1 DEF Naming
        <5>3. d[2] = fd
          BY <1>6, <3>4, <4>1, <5>1, <5>2
        <5> QED
          BY <5>1, <5>2, <5>3
      <4> QED
        BY <4>2, <4>3, Zenon
    <3>6. <<i, fd>> \in Pipe /\ <<i, fd>> # None
      <4>1. <<i, fd>> \in Pipe
        BY <3>4 DEF Pipe
      <4>2. None \notin Pipe
        BY FilesAssumption
      <4> QED
        BY <4>1, <4>2
    <3>7. u.entries[e].handle = <<i, fd>> /\ u.entries[e].refs = 1
      <4>1. PICK h : h = <<i, fd>>
        BY Zenon
      <4>2. u.entries[e] = [handle |-> h, refs |-> 1]
        BY <3>2, <4>1
      <4>3. u.entries[e].handle = h /\ u.entries[e].refs = 1
        BY <4>2
      <4> QED
        BY <4>1, <4>3
    <3>8. EntryOK(u, e)
      BY <3>5, <3>6, <3>7, FS_Singleton, Zenon DEF EntryOK
    <3> QED
      BY <3>2, <3>6, <3>8 DEF EntrySlot, Handle
  <2>2. CASE \A fd \in opening : slots[fd + 1] # e
    <3>1. u.entries[e] = t.entries[e]
      BY <1>5, <2>2
    <3>2. None \notin Entry
      BY FilesAssumption
    <3>3. t.fds[i] = [fd \in Fd |-> None]
      BY DEF EmptyTable
    <3>4. Naming(u, e) = Naming(t, e)
      BY <1>6, <2>2, <3>2, <3>3, SMTT(30) DEF Naming
    <3>5. EntryOK(t, e)
      BY DEF FilesInv
    <3> QED
      BY <1>1, <3>1, <3>4, <3>5, Zenon DEF EntryOK
  <2> QED
    BY <2>1, <2>2
<1>8. ASSUME NEW f \in File
      PROVE  FileOK(u, f)
  <2>1. f # None /\ f \notin Pipe
    BY FilesAssumption
  <2>2. ASSUME NEW e \in Entry
        PROVE  u.entries[e].handle = f <=> t.entries[e].handle = f
    <3>1. CASE \E fd \in opening : slots[fd + 1] = e
      <4>1. PICK fd \in opening : slots[fd + 1] = e
        BY <3>1
      <4>2. u.entries[e] = [handle |-> <<i, fd>>, refs |-> 1] /\ t.entries[e] = FreeEntry
        BY <1>4, <4>1, FreeSlots
      <4>3. <<i, fd>> \in Pipe
        BY <1>2 DEF Pipe
      <4> QED
        BY <2>1, <4>2, <4>3, SlotTypes
    <3>2. CASE \A fd \in opening : slots[fd + 1] # e
      BY <1>5, <3>2
    <3> QED
      BY <3>1, <3>2
  <2>3. Using(u, f) = Using(t, f)
    BY <2>2 DEF Using
  <2>4. FileOK(t, f)
    BY DEF FilesInv
  <2> QED
    BY <1>3, <2>3, <2>4, Zenon DEF FileOK
<1>9. u \in TablesType
  <2>1. FreeEntries(t) \subseteq Entry
    BY DEF FreeEntries
  <2>2. u.fds \in [Slot -> [Fd -> Entry \cup {None}]]
    <3>1. [fd \in Fd |-> IF fd \in opening THEN slots[fd + 1] ELSE t.fds[i][fd]]
             \in [Fd -> Entry \cup {None}]
      BY <1>1, <1>2, <2>1
    <3> QED
      BY <1>1, <1>3, <3>1, Zenon
  <2>3. u.entries \in [Entry -> EntrySlot]
    <3>1. PICK F : F = u.entries
      BY Zenon
    <3>2. F = [e \in Entry |-> F[e]]
      BY <1>3, <3>1
    <3> QED
      BY <1>7, <3>1, <3>2, Zenon
  <2> QED
    BY <1>1, <1>3, <2>2, <2>3, Zenon DEF TablesType
<1>10. \A f, g \in File : u.files[f].path = u.files[g].path /\ f # g => u.files[f].path = None
  BY <1>3 DEF FilesInv
<1>11. \A j \in Slot \ {i} : u.fds[j] = t.fds[j]
  BY <1>1, <1>3
<1>12. \A fd \in opening : u.fds[i][fd] # None
  <2>1. ASSUME NEW fd \in opening PROVE u.fds[i][fd] = slots[fd + 1] /\ slots[fd + 1] # None
    BY <1>1, <1>2, <1>3, FilesAssumption, SMTT(30) DEF FreeEntries
  <2> QED
    BY <2>1, SMTT(30)
<1> QED
  BY <1>3, <1>7, <1>8, <1>9, <1>10, <1>11, <1>12, SMTT(30) DEF FilesInv

\* PrepareProcess opens all standard pipes or leaves no trace.
LEMMA OpenStdPipesKeeps ==
    ASSUME NEW t, FilesInv(t), NEW i \in Slot, t.fds[i] = EmptyTable,
           NEW u, u = OpenStdPipes(t, i)
    PROVE  /\ FilesInv(u) /\ u.failed = t.failed
           /\ \A j \in Slot \ {i} : u.fds[j] = t.fds[j]
           /\ u.fds[i][0] = None => u.fds[i] = EmptyTable
<1>1. PICK slots, opening, v :
         /\ slots = Enumeration(FreeEntries(t)) /\ opening = {fd \in StdFd : fd < Len(slots)}
         /\ v = Opened(t, i, slots, opening)
  BY Zenon
<1>2. u = IF opening = StdFd THEN v ELSE DeleteFdTable(v, i)
  BY <1>1 DEF OpenStdPipes, Opened
<1>3. /\ FilesInv(v) /\ v.failed = t.failed
      /\ \A j \in Slot \ {i} : v.fds[j] = t.fds[j]
      /\ \A fd \in opening : v.fds[i][fd] # None
  BY <1>1, OpenedKeeps
<1>4. CASE opening = StdFd
  <2>1. 0 \in StdFd
    BY FilesAssumption DEF StdFd
  <2> QED
    BY <1>2, <1>3, <1>4, <2>1, SMTT(30)
<1>5. CASE opening # StdFd
  <2>1. FilesInv(u) /\ u.failed = v.failed /\ u.fds = [v.fds EXCEPT ![i] = EmptyTable]
    BY <1>2, <1>3, <1>5, DeleteKeeps
  <2>2. v.fds \in [Slot -> [Fd -> Entry \cup {None}]]
    BY <1>3, TablesParts DEF FilesInv
  <2> QED
    BY <1>3, <2>1, <2>2
<1> QED
  BY <1>4, <1>5
================================================================================
