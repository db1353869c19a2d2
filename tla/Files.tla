--------------------------------- MODULE Files ---------------------------------
(* The open files of the kernel (fs/file_descriptor.cpp): the descriptor table *)
(* of each process, the global table of open files (entries) and the global    *)
(* table of files. Entries and files are counted references kept in pools;     *)
(* whoever drops the last reference gives the slot of the pool back. A pipe is *)
(* part of a Process and is not counted.                                       *)
(*                                                                             *)
(* System calls run with interrupts off, and so does the cleaning of a         *)
(* process: each operation is one step. The operations are functions on the    *)
(* record of the three tables, so that a caller can chain them.                *)
EXTENDS Integers, Sequences, FiniteSetsExt

CONSTANTS
    Slot,               \* the slots of the process table
    kMaxFdsPerProcess,  \* the size of a descriptor table
    kStderrFd,          \* the last of the standard descriptors, which are pipes
    Entry,              \* the slots of the open file table (kMaxOpenFiles)
    File,               \* the slots of the file table (kMaxActiveFiles)
    Path,               \* the files that exist
    None                \* nullptr

VARIABLES
    fds,      \* fds[i]: the descriptor table of the process in slot i
    entries,  \* the open file table
    files,    \* the file table
    failed    \* the assertions that have failed; the kernel stops at the first

filesVars == <<fds, entries, files, failed>>

Fd == 0..kMaxFdsPerProcess - 1
StdFd == 0..kStderrFd

\* The standard pipes, members of the Process in slot p[1].
Pipe == Slot \X StdFd

\* The tables are arrays. A handle is either a file, a pipe or null.
ASSUME FilesAssumption ==
    /\ IsFiniteSet(Slot) /\ IsFiniteSet(Entry)
    /\ kMaxFdsPerProcess \in Nat /\ kStderrFd \in Nat
    /\ kStderrFd < kMaxFdsPerProcess
    /\ None \notin Entry \cup File \cup Path \cup Pipe
    /\ File \cap Pipe = {}

FreeEntry == [handle |-> None, refs |-> 0]
FreeFile == [path |-> None, refs |-> 0]
EmptyTable == [fd \in Fd |-> None]

FilesInit ==
    /\ fds = [i \in Slot |-> EmptyTable]
    /\ entries = [e \in Entry |-> FreeEntry]
    /\ files = [f \in File |-> FreeFile]
    /\ failed = {}

Tables == [fds |-> fds, entries |-> entries, files |-> files, failed |-> failed]

TablesBecome(t) ==
    /\ fds' = t.fds
    /\ entries' = t.entries
    /\ files' = t.files
    /\ failed' = t.failed

--------------------------------------------------------------------------------
\* Reference counts.

AddFileRef(t, f) == [t EXCEPT !.files[f].refs = @ + 1]
AddEntryRef(t, e) == [t EXCEPT !.entries[e].refs = @ + 1]

\* Drops a reference to a file; ~File gives the slot back.
ReleaseFile(t, f) ==
    CASE t.files[f].refs = 0 -> [t EXCEPT !.failed = @ \cup {"zero"}]
      [] t.files[f].refs = 1 -> [t EXCEPT !.files[f] = FreeFile]
      [] OTHER -> [t EXCEPT !.files[f].refs = @ - 1]

\* Drops a reference to an entry; ~OpenFileEntry gives the slot back, and the
\* handle drops its reference to the file. A pipe is not counted.
ReleaseEntry(t, e) ==
    LET h == t.entries[e].handle IN
    CASE t.entries[e].refs = 0 -> [t EXCEPT !.failed = @ \cup {"zero"}]
      [] t.entries[e].refs = 1 ->
            LET freed == [t EXCEPT !.entries[e] = FreeEntry]
            IN IF h \in File THEN ReleaseFile(freed, h) ELSE freed
      [] OTHER -> [t EXCEPT !.entries[e].refs = @ - 1]

\* The elements of S, one after the other.
Enumeration(S) == CHOOSE q \in [1..Cardinality(S) -> S] : IsInjective(q)

FreeEntries(t) == {e \in Entry : t.entries[e] = FreeEntry}
FreeFiles(t) == {f \in File : t.files[f] = FreeFile}

--------------------------------------------------------------------------------
\* The descriptor table of a process.

FreeFds(t, i) == {fd \in Fd : t.fds[i][fd] = None}

\* The caller's reference to the entry moves into the table.
SetFd(t, i, fd, e) == [t EXCEPT !.fds[i][fd] = e]

ResetFd(t, i, fd) == SetFd(ReleaseEntry(t, t.fds[i][fd]), i, fd, None)

\* FdTable::Allocate: the first free descriptor; without one the reference is
\* dropped with the argument.
AllocateFd(t, i, e) ==
    IF FreeFds(t, i) = {} THEN ReleaseEntry(t, e)
                          ELSE SetFd(t, i, Min(FreeFds(t, i)), e)

\* FdTable::Free refuses to close a standard descriptor that is a pipe.
IsStdPipe(t, i, fd) ==
    /\ fd \in StdFd
    /\ t.fds[i][fd] # None
    /\ t.entries[t.fds[i][fd]].handle \in Pipe

Duplicate(t, i, fd, to) == SetFd(AddEntryRef(t, t.fds[i][fd]), i, to, t.fds[i][fd])

\* DuplicateFdTo closes the target first. When both are the same descriptor the
\* entry is gone by then, and nothing is copied.
DuplicateFdTo(t, i, fd, to) ==
    LET closed == IF t.fds[i][to] = None THEN t ELSE ResetFd(t, i, to)
    IN IF closed.fds[i][fd] = None THEN closed ELSE Duplicate(closed, i, fd, to)

\* A counted slot after n of its references are dropped.
Without(slot, n, free) ==
    CASE n = 0 -> slot
      [] n > 0 /\ n >= slot.refs -> free
      [] OTHER -> [slot EXCEPT !.refs = @ - n]

\* Reset of the descriptors in closing, one after the other: what the entries lose,
\* which of them are freed, and what the files lose with those.
ResetFds(t, i, closing) ==
    LET Lost(e) == Cardinality({fd \in closing : t.fds[i][fd] = e})
        freed == {e \in Entry : Lost(e) > 0 /\ Lost(e) >= t.entries[e].refs}
        LostBy(f) == Cardinality({e \in freed : t.entries[e].handle = f})
        below == \/ \E e \in Entry : Lost(e) > t.entries[e].refs
                 \/ \E f \in File : LostBy(f) > t.files[f].refs
    IN [fds |-> [t.fds EXCEPT ![i] = [fd \in Fd |-> IF fd \in closing THEN None ELSE @[fd]]],
        entries |-> [e \in Entry |-> Without(t.entries[e], Lost(e), FreeEntry)],
        files |-> [f \in File |-> Without(t.files[f], LostBy(f), FreeFile)],
        failed |-> IF below THEN t.failed \cup {"zero"} ELSE t.failed]

\* (mutant) Only the standard descriptors of a process are closed at its end.
DeleteStdOnly(t, i) == ResetFds(t, i, StdFd)

\* ~FdTable, when the table of a process is deleted.
DeleteFdTable(t, i) == ResetFds(t, i, Fd)

--------------------------------------------------------------------------------
\* The tables of entries and files.

\* A new entry with one reference, which goes into the table of the process.
NewEntry(t, e, h) == [t EXCEPT !.entries[e] = [handle |-> h, refs |-> 1]]

\* PrepareProcess opens the standard pipes of the process in slot i one by one,
\* each in the next free slot. If the open file table is full before the last,
\* the descriptor table is deleted and the entries go with it.
OpenStdPipes(t, i) ==
    LET slots == Enumeration(FreeEntries(t))
        opening == {fd \in StdFd : fd < Len(slots)}
        PipesAt(e) == {fd \in opening : slots[fd + 1] = e}
        opened ==
            [t EXCEPT
                !.fds[i] = [fd \in Fd |-> IF fd \in opening THEN slots[fd + 1] ELSE @[fd]],
                !.entries = [e \in Entry |->
                    IF PipesAt(e) = {} THEN @[e]
                    ELSE [handle |-> <<i, CHOOSE fd \in PipesAt(e) : TRUE>>, refs |-> 1]]]
    IN IF opening = StdFd THEN opened ELSE DeleteFdTable(opened, i)

Find(t, p) == {f \in File : t.files[f].refs > 0 /\ t.files[f].path = p}

\* GetOrCreate returns a reference: a new one for a new file, one that was never
\* counted for a file that is open already.
GetOrCreate(t, p, f) ==
    IF f \in Find(t, p) THEN t ELSE [t EXCEPT !.files[f] = [path |-> p, refs |-> 1]]

\* (mutant) The reference GetOrCreate returned is kept when the open fails.
OpenEntryLeaks(t, i, f) ==
    IF FreeEntries(t) = {} THEN t
    ELSE LET e == CHOOSE e \in FreeEntries(t) : TRUE
         IN ReleaseFile(AllocateFd(NewEntry(AddFileRef(t, f), e, f), i, e), f)

\* The rest of FdManager::Open: the entry counts its file, the descriptor takes
\* the entry, and at the end the reference of GetOrCreate is dropped.
OpenEntry(t, i, f) ==
    LET e == CHOOSE e \in FreeEntries(t) : TRUE
        opened == AllocateFd(NewEntry(AddFileRef(t, f), e, f), i, e)
    IN ReleaseFile(IF FreeEntries(t) = {} THEN t ELSE opened, f)

--------------------------------------------------------------------------------
\* The system calls of the process in slot i.

\* Open, of a file that nobody has open. A full file table refuses.
OpenNew(i, p) ==
    /\ Find(Tables, p) = {} /\ FreeFiles(Tables) # {}
    /\ LET f == CHOOSE f \in FreeFiles(Tables) : TRUE
       IN TablesBecome(OpenEntry(GetOrCreate(Tables, p, f), i, f))

\* Open, of a file that is open already.
OpenShared(i, p) ==
    \E f \in Find(Tables, p) : TablesBecome(OpenEntry(GetOrCreate(Tables, p, f), i, f))

Close(i, fd) ==
    /\ fds[i][fd] # None /\ ~IsStdPipe(Tables, i, fd)
    /\ TablesBecome(ResetFd(Tables, i, fd))

Dup(i, fd) ==
    /\ fds[i][fd] # None /\ FreeFds(Tables, i) # {}
    /\ TablesBecome(Duplicate(Tables, i, fd, Min(FreeFds(Tables, i))))

DupTo(i, fd, to) ==
    /\ fds[i][fd] # None
    /\ TablesBecome(DuplicateFdTo(Tables, i, fd, to))

--------------------------------------------------------------------------------
\* Properties.

DescriptorsOf(e) == {d \in Slot \X Fd : fds[d[1]][d[2]] = e}

\* OpenFileEntry::ref_count_ is the number of descriptors that name the entry,
\* through open, close, both dups and the deletion of a table, and descriptors
\* of two processes never name the same entry.
EntriesCounted ==
    \A e \in Entry :
        /\ entries[e].refs = Cardinality(DescriptorsOf(e))
        /\ \A c, d \in DescriptorsOf(e) : c[1] = d[1]

\* File::ref_count_ is the number of entries that name the file: it is freed
\* with its last entry, on every path of open, close and cleaning, and no two
\* files of the table have the same path.
FilesCounted ==
    /\ \A f \in File : files[f].refs = Cardinality({e \in Entry : entries[e].handle = f})
    /\ \A f, g \in File : files[f].path = files[g].path /\ f # g => files[f].path = None

\* RefCounted::Release: "Releasing ref_count that is already zero".
NeverBelowZero == "zero" \notin failed

\* Both levels of counting are exact: what is open is what some descriptor names,
\* and nothing is freed early, late or twice.
ReferencesCounted == EntriesCounted /\ FilesCounted /\ NeverBelowZero
================================================================================
