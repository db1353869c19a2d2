------------------------------ MODULE TaskMgr ------------------------------
(***************************************************************************)
(* Life and death of threads and processes in the AlkOS kernel:            *)
(* kernel/src/scheduling/task_mgr.cpp with the thread and process tables   *)
(* (threads.cpp, processes.cpp), the kernel workers (kworker.cpp) and the  *)
(* system calls that enter it (syscalls/calls/thread.hpp, proc.hpp), on    *)
(* top of the scheduler.                                                   *)
(*                                                                         *)
(* A system call runs with interrupts off (its gate clears IF and          *)
(* LocalCoreLock keeps it so), hence without interleaving up to the        *)
(* context switches it makes itself.  An action is such a stretch of code  *)
(* run by the current thread; a call that switches away leaves in `resume' *)
(* where the thread goes on when it is run again.  Loops whose rounds      *)
(* switch or kill are taken one round per step: nothing else is enabled in *)
(* between unless the round switched to another thread.                    *)
(*                                                                         *)
(* A failing ASSERT of the kernel, or a use of freed memory, halts the     *)
(* model with its name in `panic'.                                         *)
(***************************************************************************)
EXTENDS Scheduler, FiniteSets

CONSTANTS
    Boot,            \* the threads spawned before ConvertToScheduling, in order
    BootOwner,       \* their processes
    KernelProcess,   \* the processes with flags.KernelSpaceOnly: the kernel workers
    ThreadRipper,    \* the thread of kworker-thread-ripper
    ProcessRipper,   \* the thread of kworker-process-ripper
    Calls            \* the system calls the programs of this instance make

SystemCalls ==
    {"NanoSleep", "CreateThread", "ThreadExit", "JoinThread", "DetachThread",
     "Exec", "ExecAsync", "Exit", "Abort", "Kill", "Wait"}

BootProcess == {BootOwner[t] : t \in Range(Boot)}

\* A worker never ends, so its slot keeps naming it.
Workers == {t \in Range(Boot) : BootOwner[t] \in KernelProcess}

ASSUME BootAssumption ==
    /\ IsFiniteSet(ThreadSlot) /\ IsFiniteSet(ProcessSlot)
    /\ Boot \in Seq(ThreadSlot) /\ IsInjective(Boot)
    /\ BootOwner \in [ThreadSlot -> ProcessSlot]
    /\ \A t, u \in Range(Boot) : BootOwner[t] = BootOwner[u] => t = u
    /\ KernelProcess \subseteq BootProcess
    /\ ThreadRipper \in Workers /\ ProcessRipper \in Workers
    /\ ThreadRipper # ProcessRipper
    /\ Calls \subseteq SystemCalls

VARIABLES
    sched,                \* the scheduler's state
    thread,               \* owner and detached flag of every thread
    process,              \* state, threads list and counters of every process
    threadsToClean,       \* threads_to_clean_, top of the stack first
    processesToClean,     \* processes_to_clean_, top of the stack first
    resume,               \* where each thread goes on when it is run
    panic                 \* the assertion that stopped the kernel, or "none"

vars == <<sched, thread, process, threadsToClean, processesToClean, resume, panic>>

ProcessState == {"kFree", "kReady", "kWaitingForJoin", "kTerminated"}

Panics ==
    {"none",
     "ListRemove",     \* intrusive_linked_list.hpp:119-120, item not in the list
     "JoinThread",     \* task_mgr.cpp:616, the joined thread did not end
     "JoinProcess",    \* task_mgr.cpp:662, the joined process did not end
     "WakeUpTasks",    \* scheduler.cpp:397, the woken thread is not asleep
     "RemoveThread",   \* scheduler.cpp:97, the removed thread is in no queue
     "Idle",           \* scheduler.cpp:285, no thread to run
     "ThreadFree",     \* threads.cpp:59, joiners wait on a thread that is freed
     "ProcessFree",    \* processes.cpp:103, joiners wait on a process that is freed
     "ProcessRipper",  \* task_mgr.cpp:711, the process to clean does not exist
     "SpawnThread",    \* task_mgr.cpp:130-131, the process has ended
     "OwnerMissing",   \* task_mgr.cpp:696, a thread outlives its process
     "ExecGuard",      \* task_mgr.cpp:299, the process is freed twice
     "PoolFree",       \* hash_maps.hpp:413, a full table frees slot SIZE_MAX
     "StackOverflow",  \* atomic_stack.hpp:88, processes_to_clean_ is full
     "UseAfterFree"}   \* a joined object is read after the ripper freed it

\* What a thread does when it runs: its own code ("Run": user code, a worker's
\* loop), the ELF loader, or the rest of the kernel function it was switched out
\* of, with the thread or process that function holds a pointer to (NoThread
\* once the object was freed).
Resume ==
    [at : {"Run", "Elf64EntryPoint", "JoinThread", "JoinProcess", "CommitSuicide",
           "CommitMurder", "ProcessRipperClean"},
     of : ThreadSlot \cup ProcessSlot \cup {NoThread}]

Run == [at |-> "Run", of |-> NoThread]

TypeOK ==
    /\ sched \in SchedulerState
    /\ thread \in [ThreadSlot -> [owner : ProcessSlot, detached : BOOLEAN]]
    /\ process \in [ProcessSlot -> [state : ProcessState, live : Nat, toClean : Nat,
                                    threads : Seq(ThreadSlot)]]
    /\ threadsToClean \in Seq(ThreadSlot)
    /\ processesToClean \in Seq(ProcessSlot)
    /\ resume \in [ThreadSlot -> Resume]
    /\ panic \in Panics

-----------------------------------------------------------------------------
EmptyProcess == [state |-> "kFree", live |-> 0, toClean |-> 0, threads |-> <<>>]

Undetached(p) == [owner |-> p, detached |-> FALSE]

FreshProcess(t) == [state |-> "kReady", live |-> 1, toClean |-> 0, threads |-> <<t>>]

\* InitializeMultitasking has spawned the workers and KernelRun the shell; each
\* is the only thread of its process.
Init ==
    /\ sched = [state |-> [t \in ThreadSlot |-> IF t \in Range(Boot) THEN "kReady" ELSE "kFree"],
                ready |-> Boot,
                sleeping |-> {},
                wq |-> [q \in WaitQueue |-> <<>>],
                current |-> NoThread]
    /\ thread = [t \in ThreadSlot |-> Undetached(BootOwner[t])]
    /\ process = [p \in ProcessSlot |->
                     IF p \in BootProcess
                     THEN FreshProcess(CHOOSE t \in Range(Boot) : BootOwner[t] = p)
                     ELSE EmptyProcess]
    /\ threadsToClean = <<>>
    /\ processesToClean = <<>>
    /\ resume = [t \in ThreadSlot |->
                    IF t \in Workers THEN Run ELSE [Run EXCEPT !.at = "Elf64EntryPoint"]]
    /\ panic = "none"

Current == sched.current

Owner == thread[Current].owner

\* The current thread is at the given place of its code.
At(where) == panic = "none" /\ Current # NoThread /\ resume[Current].at = where

\* The current thread enters the kernel with a system call.
Syscall(call) == At("Run") /\ Owner \notin KernelProcess /\ call \in Calls

\* The slots PooledHashMap::Allocate may hand out; which one it takes is left open.
FreeThreads == {t \in ThreadSlot : sched.state[t] = "kFree"}

FreeProcesses == {p \in ProcessSlot : process[p].state = "kFree"}

Worker(t) == At("Run") /\ Current = t

Ended(state) == state \in {"kWaitingForJoin", "kTerminated"}

\* A failed assertion stops the kernel.
Fail(assertion) ==
    /\ panic' = assertion
    /\ UNCHANGED <<sched, thread, process, threadsToClean, processesToClean, resume>>

\* The current thread gives up the core in the given state.
SwitchAway(s, w, threadState) ==
    /\ sched' = Reschedule(s, w, threadState)
    /\ panic' = IF NeedsIdle(s, w) /\ threadState # "kReady" THEN "Idle" ELSE "none"

\* (mutant) The thread is pushed for the ripper and not marked.
HandToThreadRipperUnmarked(s, t) ==
    /\ sched' = s
    /\ threadsToClean' = <<t>> \o threadsToClean

\* Thread t is marked terminated and handed to the thread ripper.
HandToThreadRipper(s, t) ==
    /\ sched' = [s EXCEPT !.state[t] = "kTerminated"]
    /\ threadsToClean' = <<t>> \o threadsToClean

\* (mutant) threads_to_clean is not incremented.
CountTerminatedLost(pcb) == [pcb EXCEPT !.live = @ - 1]

CountTerminated(pcb) == [pcb EXCEPT !.live = @ - 1, !.toClean = @ + 1]

\* processes_to_clean_ has room for as many entries as the process table.
Overflows(stack) == Len(stack) > Cardinality(ProcessSlot)

HandToProcessRipper(p) ==
    /\ process' = [process EXCEPT ![p].state = "kTerminated"]
    /\ processesToClean' = <<p>> \o processesToClean
    /\ panic' = IF Overflows(processesToClean') THEN "StackOverflow" ELSE "none"

-----------------------------------------------------------------------------
(* The scheduler's own entry points. *)

StartScheduling ==
    /\ panic = "none" /\ Current = NoThread
    /\ sched' = ConvertToScheduling(sched)
    /\ UNCHANGED <<thread, process, threadsToClean, processesToClean, resume, panic>>

\* The timer interrupt reaches code that runs with interrupts on: user code, the
\* loop of a worker, the start of a new thread.
Timer(sliceUsedUp) ==
    /\ At("Run") \/ At("Elf64EntryPoint")
    /\ \E w \in DueSleepers(sched) : sched' = TimerRoutine(sched, w, sliceUsedUp)
    /\ UNCHANGED <<thread, process, threadsToClean, processesToClean, resume, panic>>

\* A deadline closer than 2 * kMinDelta is due in the very call that puts the
\* thread to sleep.
NanoSleep ==
    /\ Syscall("NanoSleep")
    /\ LET s == SleepCurrent(sched)
       IN  \E w \in DueSleepers(s) :
              IF Current \in Range(w)
              THEN Fail("WakeUpTasks")
              ELSE /\ SwitchAway(s, w, "kSleeping")
                   /\ UNCHANGED <<thread, process, threadsToClean,
                                  processesToClean, resume>>

-----------------------------------------------------------------------------
(* Creation of threads and processes. *)

CreateThread ==
    /\ Syscall("CreateThread")
    /\ IF process[Owner].state # "kReady" THEN Fail("SpawnThread")
       ELSE IF FreeThreads = {} THEN Fail("PoolFree")
       ELSE \E t \in FreeThreads :
                /\ sched' = AddReadyThread(sched, t)
                /\ thread' = [thread EXCEPT ![t] = Undetached(Owner)]
                /\ process' = [process EXCEPT ![Owner].live = @ + 1,
                                              ![Owner].threads = <<t>> \o @]
                /\ resume' = [resume EXCEPT ![t] = Run]
                /\ UNCHANGED <<threadsToClean, processesToClean, panic>>

\* SysExec; an Async process is not waited for, its first thread is detached.
Exec(async) ==
    /\ Syscall(IF async THEN "ExecAsync" ELSE "Exec")
    /\ IF FreeProcesses = {} \/ FreeThreads = {} THEN Fail("PoolFree")
       ELSE \E p \in FreeProcesses, t \in FreeThreads :
                /\ sched' = AddReadyThread(sched, t)
                /\ thread' = [thread EXCEPT ![t] = [owner |-> p, detached |-> async]]
                /\ process' = [process EXCEPT ![p] = FreshProcess(t)]
                /\ resume' = [resume EXCEPT ![t] = [Run EXCEPT !.at = "Elf64EntryPoint"]]
                /\ UNCHANGED <<threadsToClean, processesToClean, panic>>

\* The kernel stack or the user stack of the new thread cannot be allocated: the
\* guards of both ExecuteElf64 functions free the process.
ExecOutOfMemory ==
    /\ Syscall("Exec") \/ Syscall("ExecAsync")
    /\ FreeProcesses # {} /\ FreeThreads # {}
    /\ Fail("ExecGuard")

\* The ELF image was loaded: the new thread enters user space.
Elf64EntryPoint ==
    /\ At("Elf64EntryPoint")
    /\ resume' = [resume EXCEPT ![Current] = Run]
    /\ UNCHANGED <<sched, thread, process, threadsToClean, processesToClean, panic>>

-----------------------------------------------------------------------------
(* The end of a thread. *)

\* ThreadExit, with the scheduler's state, the process and processes_to_clean_ as
\* its caller has changed them.
EndThread(s0, pcb0, toClean0) ==
    LET t == Current
        gone == thread[t].detached \/ pcb0.live = 1
        last == thread[t].detached /\ pcb0.live = 1
        pcb1 == [pcb0 EXCEPT !.threads = Unlink(@, t)]
        pcb2 == IF gone THEN CountTerminated(pcb1) ELSE pcb1
        s1 == ReleaseAll(s0, t)
    IN  /\ process' = [process EXCEPT ![Owner] =
                          IF last THEN [pcb2 EXCEPT !.state = "kTerminated"] ELSE pcb2]
        /\ threadsToClean' = IF gone THEN <<t>> \o threadsToClean ELSE threadsToClean
        /\ processesToClean' = IF last THEN <<Owner>> \o toClean0 ELSE toClean0
        /\ \E w \in DueSleepers(s1) :
              /\ sched' = Reschedule(s1, w, IF gone THEN "kTerminated" ELSE "kWaitingForJoin")
              /\ panic' = IF Overflows(processesToClean') THEN "StackOverflow"
                         ELSE IF NeedsIdle(s1, w) THEN "Idle" ELSE "none"
        /\ resume' = [resume EXCEPT ![t] = Run]
        /\ UNCHANGED <<thread>>

ThreadExit ==
    /\ Syscall("ThreadExit")
    /\ EndThread(sched, process[Owner], processesToClean)

\* (mutant) JoinThread blocks without looking at the thread's state.
JoinThreadUnchecked(x) ==
    /\ Syscall("JoinThread")
    /\ x # Current /\ sched.state[x] # "kFree"
    /\ LET s == EnqueueCurrent(sched, x)
       IN  \E w \in DueSleepers(s) : SwitchAway(s, w, "kBlockedOnWaitQueue")
    /\ resume' = [resume EXCEPT ![Current] = [at |-> "JoinThread", of |-> x]]
    /\ UNCHANGED <<thread, process, threadsToClean, processesToClean>>

\* JoinThread blocks while the thread has not ended.
JoinThread(x) ==
    /\ Syscall("JoinThread")
    /\ x # Current /\ sched.state[x] # "kFree" /\ ~Ended(sched.state[x])
    /\ LET s == EnqueueCurrent(sched, x)
       IN  \E w \in DueSleepers(s) : SwitchAway(s, w, "kBlockedOnWaitQueue")
    /\ resume' = [resume EXCEPT ![Current] = [at |-> "JoinThread", of |-> x]]
    /\ UNCHANGED <<thread, process, threadsToClean, processesToClean>>

\* The rest of JoinThread, and DetachThread, hand a thread that waits for its
\* joiner to the ripper.
ReapThread(x) ==
    /\ HandToThreadRipper(sched, x)
    /\ process' = [process EXCEPT ![thread[x].owner] = CountTerminated(@)]
    /\ UNCHANGED <<thread, processesToClean, panic>>

JoinEndedThread(x) ==
    /\ Syscall("JoinThread")
    /\ x # Current /\ sched.state[x] = "kWaitingForJoin"
    /\ ReapThread(x)
    /\ UNCHANGED resume

JoinThreadResumed ==
    /\ At("JoinThread")
    /\ LET x == resume[Current].of
       IN  CASE x = NoThread -> Fail("UseAfterFree")
             [] x # NoThread /\ sched.state[x] = "kWaitingForJoin" ->
                   /\ ReapThread(x)
                   /\ resume' = [resume EXCEPT ![Current] = Run]
             [] x # NoThread /\ sched.state[x] = "kTerminated" ->
                   /\ resume' = [resume EXCEPT ![Current] = Run]
                   /\ UNCHANGED <<sched, thread, process, threadsToClean,
                                  processesToClean, panic>>
             [] OTHER -> Fail("JoinThread")

DetachThread(x) ==
    /\ Syscall("DetachThread")
    /\ sched.state[x] # "kFree"
    /\ UNCHANGED resume
    /\ IF sched.state[x] = "kWaitingForJoin"
       THEN ReapThread(x)
       ELSE /\ thread' = [thread EXCEPT ![x].detached = TRUE]
            /\ UNCHANGED <<sched, process, threadsToClean, processesToClean, panic>>

-----------------------------------------------------------------------------
(* The end of a process. *)

\* ExitProcess and CommitSuicide first kill the other threads of the process.
\* They take each off the list before CommitMurder, which removes it once more.
OnlyThread == process[Owner].threads = <<Current>>

\* SysExit; CommitMurder of the caller's own process.
ExitProcess ==
    /\ Syscall("Exit")
    /\ IF OnlyThread
       THEN EndThread(ReleaseAll(sched, Owner),
                      [process[Owner] EXCEPT !.state = "kWaitingForJoin"],
                      processesToClean)
       ELSE Fail("ListRemove")

\* CommitSuicide from the point where it hands the core to the joiners of the
\* process, one by one; when none is left, the process is for the ripper unless a
\* joiner has already put it there.
SuicideRound(pcb) ==
    IF sched.wq[Owner] # <<>>
    THEN /\ \E w \in DueSleepers(sched) : sched' = ReleaseAndRunFirst(sched, w, Owner)
         /\ process' = [process EXCEPT ![Owner] = pcb]
         /\ resume' = [resume EXCEPT ![Current] = [at |-> "CommitSuicide", of |-> Owner]]
         /\ UNCHANGED <<thread, threadsToClean, processesToClean, panic>>
    ELSE EndThread(sched,
                   [pcb EXCEPT !.state = "kTerminated"],
                   IF pcb.state = "kTerminated" THEN processesToClean
                   ELSE <<Owner>> \o processesToClean)

\* (mutant) The joiners are run before the process is marked.
CommitSuicideMarksLate ==
    /\ Syscall("Abort") \/ At("Elf64EntryPoint")
    /\ IF OnlyThread THEN SuicideRound(process[Owner]) ELSE Fail("ListRemove")

\* SysAbort, an unresolvable page fault, a failed ELF load.
CommitSuicide ==
    /\ Syscall("Abort") \/ At("Elf64EntryPoint")
    /\ IF OnlyThread
       THEN SuicideRound([process[Owner] EXCEPT !.state = "kWaitingForJoin"])
       ELSE Fail("ListRemove")

CommitSuicideResumed ==
    /\ At("CommitSuicide")
    /\ SuicideRound(process[Owner])

\* (mutant) The caller's own process is not told apart.
CommitMurderOwn(p) ==
    /\ Syscall("Kill")
    /\ process[p].state # "kFree"
    /\ resume' = [resume EXCEPT ![Current] = [at |-> "CommitMurder", of |-> p]]
    /\ UNCHANGED <<sched, thread, process, threadsToClean, processesToClean, panic>>

\* SysKill: CommitMurder of another process, which may not be a kernel process.
CommitMurder(p) ==
    /\ Syscall("Kill")
    /\ p # Owner /\ process[p].state # "kFree"
    /\ resume' = [resume EXCEPT ![Current] = [at |-> "CommitMurder", of |-> p]]
    /\ UNCHANGED <<sched, thread, process, threadsToClean, processesToClean, panic>>

Victim == resume[Current].of

\* CommitMurder of the first thread of the victim.  A joiner of that thread would
\* be run before the thread is marked terminated, and fail in JoinThread.
MurderThread ==
    /\ At("CommitMurder") /\ Victim # NoThread
    /\ process[Victim].threads # <<>>
    /\ LET t == Head(process[Victim].threads)
       IN  IF ~Removable(sched, t) THEN Fail("RemoveThread")
           ELSE IF sched.wq[t] # <<>> THEN Fail("JoinThread")
           ELSE /\ HandToThreadRipper(RemoveThread(sched, t), t)
                /\ process' = [process EXCEPT ![Victim] =
                                  CountTerminated([process[Victim] EXCEPT !.threads = Tail(@)])]
                /\ resume' = [resume EXCEPT ![t] = Run]
                /\ UNCHANGED <<thread, processesToClean, panic>>

\* The joiners of the victim are run one by one.  The process is not marked yet,
\* unless it was ending by itself: a joiner would fail in JoinProcess.
MurderRelease ==
    /\ At("CommitMurder") /\ Victim # NoThread
    /\ process[Victim].threads = <<>> /\ sched.wq[Victim] # <<>>
    /\ IF ~Ended(process[Victim].state) THEN Fail("JoinProcess")
       ELSE /\ \E w \in DueSleepers(sched) : sched' = ReleaseAndRunFirst(sched, w, Victim)
            /\ UNCHANGED <<thread, process, threadsToClean, processesToClean,
                           resume, panic>>

\* (mutant) A process that is already with the ripper is pushed again.
MurderEndAgain ==
    /\ At("CommitMurder") /\ Victim # NoThread
    /\ process[Victim].threads = <<>> /\ sched.wq[Victim] = <<>>
    /\ HandToProcessRipper(Victim)
    /\ resume' = [resume EXCEPT ![Current] = Run]
    /\ UNCHANGED <<sched, thread, threadsToClean>>

MurderEnd ==
    /\ At("CommitMurder") /\ Victim # NoThread
    /\ process[Victim].threads = <<>> /\ sched.wq[Victim] = <<>>
    /\ IF process[Victim].state # "kTerminated" THEN HandToProcessRipper(Victim)
       ELSE UNCHANGED <<process, processesToClean, panic>>
    /\ resume' = [resume EXCEPT ![Current] = Run]
    /\ UNCHANGED <<sched, thread, threadsToClean>>

\* The murderer was switched out for a joiner and the ripper freed the victim.
MurderFreed ==
    /\ At("CommitMurder") /\ Victim = NoThread
    /\ Fail("UseAfterFree")

\* JoinProcess blocks while the process has not ended.
JoinProcess(p) ==
    /\ Syscall("Wait")
    /\ p # Owner /\ process[p].state = "kReady"
    /\ LET s == EnqueueCurrent(sched, p)
       IN  \E w \in DueSleepers(s) : SwitchAway(s, w, "kBlockedOnWaitQueue")
    /\ resume' = [resume EXCEPT ![Current] = [at |-> "JoinProcess", of |-> p]]
    /\ UNCHANGED <<thread, process, threadsToClean, processesToClean>>

JoinEndedProcess(p) ==
    /\ Syscall("Wait")
    /\ p # Owner /\ process[p].state = "kWaitingForJoin"
    /\ HandToProcessRipper(p)
    /\ UNCHANGED <<sched, thread, threadsToClean, resume>>

JoinProcessResumed ==
    /\ At("JoinProcess")
    /\ LET p == resume[Current].of
       IN  CASE p = NoThread -> Fail("UseAfterFree")
             [] p # NoThread /\ process[p].state = "kWaitingForJoin" ->
                   /\ HandToProcessRipper(p)
                   /\ resume' = [resume EXCEPT ![Current] = Run]
                   /\ UNCHANGED <<sched, thread, threadsToClean>>
             [] p # NoThread /\ process[p].state = "kTerminated" ->
                   /\ resume' = [resume EXCEPT ![Current] = Run]
                   /\ UNCHANGED <<sched, thread, process, threadsToClean,
                                  processesToClean, panic>>
             [] OTHER -> Fail("JoinProcess")

-----------------------------------------------------------------------------
(* The kernel workers. *)

\* Freeing an object leaves the pointers to it dangling.
Dangle(x) ==
    [t \in ThreadSlot |-> IF resume[t].of = x THEN [resume[t] EXCEPT !.of = NoThread]
                          ELSE resume[t]]

\* (mutant) The thread's slot is not given back.
ThreadRipperKeepsSlot ==
    /\ Worker(ThreadRipper) /\ threadsToClean # <<>>
    /\ process' = [process EXCEPT ![thread[Head(threadsToClean)].owner].toClean = @ - 1]
    /\ threadsToClean' = Tail(threadsToClean)
    /\ UNCHANGED <<sched, thread, processesToClean, resume, panic>>

\* ThreadRipperClean_ of the top of the stack.  The fields of the freed slot get
\* their boot values back; nothing reads them before the slot is prepared again.
ThreadRipperClean ==
    /\ Worker(ThreadRipper) /\ threadsToClean # <<>>
    /\ LET t == Head(threadsToClean)
           p == thread[t].owner
       IN  IF process[p].state = "kFree" THEN Fail("OwnerMissing")
           ELSE IF sched.wq[t] # <<>> THEN Fail("ThreadFree")
           ELSE /\ sched' = [sched EXCEPT !.state[t] = "kFree"]
                /\ process' = [process EXCEPT ![p].toClean = @ - 1]
                /\ threadsToClean' = Tail(threadsToClean)
                /\ resume' = Dangle(t)
                /\ thread' = [thread EXCEPT ![t] = Undetached(BootOwner[t])]
                /\ UNCHANGED <<processesToClean, panic>>

ProcessRipperPop ==
    /\ Worker(ProcessRipper) /\ processesToClean # <<>>
    /\ LET p == Head(processesToClean)
       IN  IF process[p].state = "kFree" THEN Fail("ProcessRipper")
           ELSE /\ processesToClean' = Tail(processesToClean)
                /\ resume' = [resume EXCEPT ![Current] = [at |-> "ProcessRipperClean", of |-> p]]
                /\ UNCHANGED <<sched, thread, process, threadsToClean, panic>>

\* The ripper keeps yielding until the process has no thread left.
ProcessRipperWait ==
    /\ At("ProcessRipperClean")
    /\ process[Victim].live # 0 \/ process[Victim].toClean # 0
    /\ \E w \in DueSleepers(sched) : SwitchAway(sched, w, "kReady")
    /\ UNCHANGED <<thread, process, threadsToClean, processesToClean, resume>>

\* (mutant) The process ripper does not wait for the thread ripper.
ProcessRipperCleanEarly ==
    /\ At("ProcessRipperClean")
    /\ process[Victim].live = 0
    /\ IF sched.wq[Victim] # <<>> THEN Fail("ProcessFree")
       ELSE /\ process' = [process EXCEPT ![Victim] = EmptyProcess]
            /\ resume' = [Dangle(Victim) EXCEPT ![Current] = Run]
            /\ UNCHANGED <<sched, thread, threadsToClean, processesToClean, panic>>

ProcessRipperClean ==
    /\ At("ProcessRipperClean")
    /\ process[Victim].live = 0 /\ process[Victim].toClean = 0
    /\ IF sched.wq[Victim] # <<>> THEN Fail("ProcessFree")
       ELSE /\ process' = [process EXCEPT ![Victim] = EmptyProcess]
            /\ resume' = [Dangle(Victim) EXCEPT ![Current] = Run]
            /\ UNCHANGED <<sched, thread, threadsToClean, processesToClean, panic>>

WorkerYield ==
    /\ At("Run") /\ Current \in Workers
    /\ Current = ThreadRipper => threadsToClean = <<>>
    /\ Current = ProcessRipper => processesToClean = <<>>
    /\ \E w \in DueSleepers(sched) : SwitchAway(sched, w, "kReady")
    /\ UNCHANGED <<thread, process, threadsToClean, processesToClean, resume>>

\* A kernel panic stops the machine.
Halted == panic # "none" /\ UNCHANGED vars

-----------------------------------------------------------------------------
\* A program knows the threads and processes it created (SysThreadCreate and
\* SysExec return their ids), never those of the kernel workers.
Next ==
    \/ StartScheduling \/ (\E sliceUsedUp \in BOOLEAN : Timer(sliceUsedUp)) \/ NanoSleep
    \/ CreateThread \/ (\E async \in BOOLEAN : Exec(async)) \/ ExecOutOfMemory
    \/ Elf64EntryPoint
    \/ ThreadExit \/ JoinThreadResumed
    \/ (\E x \in ThreadSlot \ Workers : JoinThread(x) \/ JoinEndedThread(x) \/ DetachThread(x))
    \/ ExitProcess \/ CommitSuicide \/ CommitSuicideResumed
    \/ (\E p \in ProcessSlot \ KernelProcess :
           CommitMurder(p) \/ JoinProcess(p) \/ JoinEndedProcess(p))
    \/ MurderThread \/ MurderRelease \/ MurderEnd \/ MurderFreed
    \/ JoinProcessResumed
    \/ ThreadRipperClean \/ ProcessRipperPop \/ ProcessRipperWait \/ ProcessRipperClean
    \/ WorkerYield
    \/ Halted

Spec == Init /\ [][Next]_vars

\* The kernel goes on with a call it was switched back into, and a worker with
\* nothing to do yields.
KernelStep ==
    \/ StartScheduling \/ Elf64EntryPoint
    \/ JoinThreadResumed \/ JoinProcessResumed \/ CommitSuicideResumed
    \/ MurderThread \/ MurderRelease \/ MurderEnd \/ MurderFreed
    \/ ProcessRipperWait \/ ProcessRipperClean \/ WorkerYield

\* Code runs, a time slice ends, and it is long enough for a ripper that has
\* something to do to clean one entry.  Programs may do anything or loop forever.
Fairness ==
    /\ WF_vars(KernelStep)
    /\ WF_vars(Timer(TRUE))
    /\ SF_vars(ThreadRipperClean)
    /\ SF_vars(ProcessRipperPop)

FairSpec == Spec /\ Fairness

-----------------------------------------------------------------------------
(* Properties. *)

Alive(t) == sched.state[t] \in Live

\* No thread is lost and none is linked twice: across every chain of scheduler
\* calls that exiting, joining, killing and sleeping make, a thread stays in the
\* one queue its Thread::state names, and exactly the current thread is running.
SchedulerConsistent == Consistent(sched)

\* Process::threads lists exactly the threads of the process that have not ended,
\* each once: what CommitMurder(Pid) relies on to kill all of them.
ListConsistent ==
    \A p \in ProcessSlot :
        /\ IsInjective(process[p].threads)
        /\ Range(process[p].threads) = {t \in ThreadSlot : Alive(t) /\ thread[t].owner = p}

\* threads_to_clean_ holds each terminated thread once and nothing else: no thread
\* is freed twice or forgotten, whichever of exit, join, detach and kill ended it.
CleanOnce ==
    /\ IsInjective(threadsToClean)
    /\ Range(threadsToClean) = {t \in ThreadSlot : sched.state[t] = "kTerminated"}

\* live_threads and threads_to_clean count the threads of the process that still
\* need an end, and those that still need the ripper.
Accounting ==
    \A p \in ProcessSlot :
        /\ process[p].live = Cardinality({t \in ThreadSlot :
               (Alive(t) \/ sched.state[t] = "kWaitingForJoin") /\ thread[t].owner = p})
        /\ process[p].toClean = Cardinality({t \in ThreadSlot :
               sched.state[t] = "kTerminated" /\ thread[t].owner = p})

\* "Threads exists -> owner MUST exist" (SwapAsIfNeeded): the process ripper never
\* frees a process while a thread of it is left.
OwnerExists ==
    \A t \in ThreadSlot : sched.state[t] # "kFree" => process[thread[t].owner].state # "kFree"

\* A joiner waits only for a thread that can still end and then wakes it; no
\* wake-up is lost.
JoinersWaitOnLiving == \A t \in ThreadSlot : sched.wq[t] # <<>> => Alive(t)

\* The workers never block, sleep or end: the reason why Idle is never called.
WorkersRunnable ==
    \A t \in Workers :
        /\ sched.state[t] \in {"kReady", "kRunning"}
        /\ thread[t].owner = BootOwner[t]
        /\ resume[t].at \in {"Run", "ProcessRipperClean"}

\* The process that ProcessRipperClean_ waits for is not freed by anybody else while
\* the ripper yields, and the killer in CommitMurder keeps its hands off the workers
\* and its own process although it is switched out between its rounds.  A thread
\* that was ended or killed holds no pointer.  The pointers of joiners and killers
\* may dangle (of = NoThread): what is left of them names an existing object.
PointersKept ==
    \A t \in ThreadSlot :
        LET at == resume[t].at
            of == resume[t].of
        IN  /\ at = "JoinThread" /\ of # NoThread => of \in ThreadSlot /\ sched.state[of] # "kFree"
            /\ at \in {"JoinProcess", "CommitMurder"} /\ of # NoThread =>
                  of \in ProcessSlot /\ process[of].state # "kFree"
            /\ at = "CommitMurder" => of # thread[t].owner /\ of \notin KernelProcess
            /\ at = "ProcessRipperClean" =>
                  t = ProcessRipper /\ of \in ProcessSlot /\ process[of].state # "kFree"
            /\ Alive(t) \/ at \in {"Run", "Elf64EntryPoint"}

\* No code of a program runs in a process that has ended: a thread that is left is
\* the one that carries out CommitSuicide, and conversely the process is marked
\* before CommitSuicide switches to its first joiner.
EndedProcessQuiet ==
    \A t \in ThreadSlot :
        Alive(t) => (Ended(process[thread[t].owner].state) <=> resume[t].at = "CommitSuicide")

\* A process is handed to the process ripper once and stays ended until it is
\* cleaned, whoever of its joiners, its killer and itself comes first.  For
\* processes that are not Async and whose threads are not detached.
ProcessCleanOnce ==
    /\ IsInjective(processesToClean)
    /\ resume[ProcessRipper].of \notin Range(processesToClean)
    /\ \A p \in Range(processesToClean) : process[p].state = "kTerminated"

\* What has ended is never scheduled again: from ThreadExit or CommitMurder on, a
\* thread only moves on to its joiner and to the ripper.
EndedStaysEnded ==
    [][\A t \in ThreadSlot :
          /\ sched.state[t] = "kWaitingForJoin" =>
                sched'.state[t] \in {"kWaitingForJoin", "kTerminated"}
          /\ sched.state[t] = "kTerminated" => sched'.state[t] \in {"kTerminated", "kFree"}]_vars

\* Round robin starves nobody: a ready thread runs, whatever the other threads do
\* (a killed one leaves the queue too).
ReadyThreadRuns ==
    \A t \in ThreadSlot : sched.state[t] = "kReady" ~> (sched.state[t] # "kReady" \/ panic # "none")

\* As long as something is left to clean, the thread table does not stay full:
\* the ripper gets the core and frees a slot.  (Not that every ended thread is
\* freed: threads_to_clean_ is a stack, and threads that keep ending on top of an
\* entry can keep it waiting.)
SlotComesBack == threadsToClean # <<>> ~> (FreeThreads # {} \/ panic # "none")

\* These assertions of the kernel never fail: RemoveThread finds the thread in one
\* of its queues, there is always a thread to run, nobody waits on a thread that is
\* freed, no thread is spawned in a process that has ended, and a thread that is
\* cleaned has its process.
AssertionsHold ==
    panic \notin {"RemoveThread", "Idle", "ThreadFree", "SpawnThread", "OwnerMissing"}
=============================================================================
