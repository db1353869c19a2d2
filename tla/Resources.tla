------------------------------- MODULE Resources -------------------------------
(* What a process holds outside its memory: its slot of the process table      *)
(* (scheduling/processes.cpp), its descriptors (Files) and its graphic session *)
(* (Sessions), from PrepareProcess to CleanupProcess. TaskMgr models when a    *)
(* process ends and is cleaned; here a process may be cleaned at any time.     *)
EXTENDS Files, Sessions

CONSTANTS
    MaxPids,  \* bound: how many processes are ever prepared
    Habits    \* what programs do: "reopen" a file somebody has open, ask for a
              \* "second" session

ASSUME ResourcesAssumption == MaxPids \in Nat /\ Habits \subseteq {"reopen", "second"}

VARIABLES
    process,         \* process[i]: the count of the pid of the process in slot i, or 0
    process_counter  \* the count of the next pid

vars == <<filesVars, sessionsVars, process, process_counter>>

Pid == Slot \X (1..MaxPids)

PidOf(i) == <<i, process[i]>>

Live(i) == process[i] # 0

ResourcesInit ==
    /\ FilesInit /\ SessionsInit
    /\ process = [i \in Slot |-> 0]
    /\ process_counter = 1

\* PrepareProcess: the pid is new and the standard pipes are open, or the open
\* file table is full and the slot is free again.
PrepareProcess(i) ==
    LET opened == OpenStdPipes(Tables, i) IN
    /\ ~Live(i) /\ process_counter <= MaxPids
    /\ process_counter' = process_counter + 1
    /\ TablesBecome(opened)
    /\ process' = [process EXCEPT ![i] = IF opened.fds[i][0] = None THEN 0 ELSE process_counter]
    /\ UNCHANGED sessionsVars

\* PrepareProcess, when the heap has no room for the wait queue or the table of
\* descriptors: the slot is freed, the pid is used up.
PrepareProcessFails ==
    /\ \E i \in Slot : ~Live(i)
    /\ process_counter <= MaxPids
    /\ process_counter' = process_counter + 1
    /\ UNCHANGED <<filesVars, sessionsVars, process>>

\* (mutant) The session is not released with the process.
CleanupProcessKeepsSession(i) ==
    /\ Live(i)
    /\ TablesBecome(DeleteFdTable(Tables, i))
    /\ process' = [process EXCEPT ![i] = 0]
    /\ UNCHANGED <<sessionsVars, process_counter>>

\* Processes::Free with CleanupProcess: the descriptors, the address space, the
\* session, the slot.
CleanupProcess(i) ==
    /\ Live(i)
    /\ TablesBecome(DeleteFdTable(Tables, i))
    /\ ReleaseSession(PidOf(i))
    /\ process' = [process EXCEPT ![i] = 0]
    /\ UNCHANGED process_counter

\* The descriptor calls of a process.
FdCall(i) ==
    /\ Live(i)
    /\ \/ \E p \in Path : OpenNew(i, p)
       \/ "reopen" \in Habits /\ \E p \in Path : OpenShared(i, p)
       \/ \E fd \in Fd : Close(i, fd) \/ Dup(i, fd) \/ \E to \in Fd : DupTo(i, fd, to)
    /\ UNCHANGED <<sessionsVars, process, process_counter>>

\* SysCreateGraphicSession. Without a buffer, or if it cannot be mapped, nothing
\* changes; the list asserts that it has a node left.
CreateGraphicSession(i) ==
    /\ Live(i)
    /\ "second" \in Habits \/ SessionsOf(PidOf(i)) = {}
    /\ IF Len(sessions) < kMaxSessions
       THEN CreateSession(PidOf(i)) /\ UNCHANGED failed
       ELSE failed' = failed \cup {"sessions"} /\ UNCHANGED sessionsVars
    /\ UNCHANGED <<fds, entries, files, process, process_counter>>

\* SysFocusTransfer, to a process that is alive when the focus goes to it.
FocusTransfer(i) ==
    /\ Live(i)
    /\ \E j \in Slot : Live(j) /\ SetFocus(PidOf(i), PidOf(j))
    /\ UNCHANGED <<filesVars, process, process_counter>>

\* The Tab key.
Tab == SwitchToNextSession /\ UNCHANGED <<filesVars, process, process_counter>>

ResourcesNext ==
    /\ failed = {}
    /\ \/ \E i \in Slot : PrepareProcess(i)
       \/ PrepareProcessFails
       \/ \E i \in Slot : CleanupProcess(i)
       \/ \E i \in Slot : FdCall(i)
       \/ \E i \in Slot : CreateGraphicSession(i)
       \/ \E i \in Slot : FocusTransfer(i)
       \/ Tab

ResourcesSpec == ResourcesInit /\ [][ResourcesNext]_vars

--------------------------------------------------------------------------------
\* Properties.

\* A pipe is a member of its Process and is not counted: no entry may name the
\* pipe of a process that is gone, and only the descriptors of the process
\* itself may name it, whatever was duplicated before the process was cleaned.
PipesOfTheLiving ==
    \A e \in Entry : entries[e].handle \in Pipe =>
        /\ Live(entries[e].handle[1])
        /\ \A d \in DescriptorsOf(e) : d[1] = entries[e].handle[1]

\* A process that is gone holds nothing: its table is empty and the owner of
\* every session is the process that created it, not a later one in its slot.
GoneHoldsNothing ==
    /\ \A i \in Slot : ~Live(i) => fds[i] = EmptyTable
    /\ \A k \in DOMAIN sessions : LET pid == sessions[k].owner_pid IN process[pid[1]] = pid[2]
================================================================================
