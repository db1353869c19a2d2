----------------------------- MODULE Scheduler -----------------------------
(***************************************************************************)
(* The scheduler of the AlkOS kernel (kernel/src/scheduling/scheduler.cpp) *)
(* as operators on its state.  The kernel runs on one core and every       *)
(* scheduler function holds a LocalCoreLock (interrupts off), so a call is *)
(* one atomic step up to the context switch it ends in.  The callers (the  *)
(* task manager) chain several calls in one critical section; operators on *)
(* a state record compose the same way.                                    *)
(*                                                                         *)
(* A scheduler state is a record                                           *)
(*   state    : Thread::state of every thread slot; "kFree" stands for an  *)
(*              empty slot of the thread table                             *)
(*   ready    : the round-robin list of policy P3, first to run first      *)
(*   sleeping : the threads linked in sleep_queue_                         *)
(*   wq       : the wait queue of every thread and of every process        *)
(*   current  : the thread running on the core (GetCoreLocalTcb)           *)
(*                                                                         *)
(* Time is abstracted: the keys of sleep_queue_ only decide in which order *)
(* and at which call sleepers are woken, so every call takes the sequence  *)
(* w of the sleepers that WakeUpTasks finds due as an argument.            *)
(***************************************************************************)
EXTENDS Integers, Sequences, FiniteSets, Functions

CONSTANTS
    ThreadSlot,    \* indices of the thread table (kMaxThreads)
    ProcessSlot,   \* indices of the process table (kMaxProcesses)
    NoThread       \* the null Thread pointer

ASSUME SlotAssumption ==
    /\ ThreadSlot \cap ProcessSlot = {}
    /\ NoThread \notin ThreadSlot \cup ProcessSlot

ThreadState ==
    {"kFree", "kReady", "kRunning", "kSleeping", "kBlockedOnWaitQueue",
     "kWaitingForJoin", "kTerminated"}

\* The states of a thread that has neither ended nor been freed.
Live == {"kReady", "kRunning", "kSleeping", "kBlockedOnWaitQueue"}

\* Thread::wait_queue and Process::wait_queue, named by their owner.
WaitQueue == ThreadSlot \cup ProcessSlot

SchedulerState ==
    [state : [ThreadSlot -> ThreadState],
     ready : Seq(ThreadSlot),
     sleeping : SUBSET ThreadSlot,
     wq : [WaitQueue -> Seq(ThreadSlot)],
     current : ThreadSlot \cup {NoThread}]

-----------------------------------------------------------------------------
\* (mutant) Remove forgets to clear the head when it takes out the only item.
UnlinkKeepsLast(list, item) ==
    LET i == CHOOSE i \in DOMAIN list : list[i] = item IN
    IF item \in Range(list) /\ Len(list) > 1
    THEN SubSeq(list, 1, i - 1) \o SubSeq(list, i + 1, Len(list))
    ELSE list

\* Unlinking an item from an intrusive list.
Unlink(list, item) ==
    LET i == CHOOSE i \in DOMAIN list : list[i] = item IN
    IF item \in Range(list)
    THEN SubSeq(list, 1, i - 1) \o SubSeq(list, i + 1, Len(list))
    ELSE list

AddReadyThread(s, t) ==
    [s EXCEPT !.state[t] = "kReady", !.ready = Append(@, t)]

\* The sleepers one call of WakeUpTasks may find due, in key order.
DueSleepers(s) == UNION {Injection(1..n, s.sleeping) : n \in 0..Cardinality(s.sleeping)}

WakeUpTasks(s, w) ==
    [s EXCEPT !.sleeping = @ \ Range(w),
              !.state = [t \in ThreadSlot |-> IF t \in Range(w) THEN "kReady" ELSE @[t]],
              !.ready = @ \o w]

\* (mutant) The preempted thread goes back to the front of the round-robin list.
SwitchToFront(s, next, threadState) ==
    LET s1 == [s EXCEPT !.state[next] = "kRunning",
                        !.state[s.current] = threadState,
                        !.current = next]
    IN  IF threadState = "kReady" THEN [s1 EXCEPT !.ready = <<s.current>> \o @] ELSE s1

\* The end of ScheduleAndUpdateThreads and the context switch: next runs, the
\* current thread gets the state its caller asked for.
SwitchTo(s, next, threadState) ==
    LET s1 == [s EXCEPT !.state[next] = "kRunning",
                        !.state[s.current] = threadState,
                        !.current = next]
    IN  IF threadState = "kReady" THEN [s1 EXCEPT !.ready = Append(@, s.current)] ELSE s1

\* Schedule() finds a thread for a current thread that cannot go on; if it finds
\* none, Idle() fails.
NeedsIdle(s, w) == s.ready \o w = <<>>

\* ScheduleAndUpdateThreads(true, threadState).  A thread that stays ready keeps
\* the core when there is nobody else.
Reschedule(s, w, threadState) ==
    LET s1 == WakeUpTasks(s, w)
    IN  IF s1.ready = <<>> THEN s1
        ELSE SwitchTo([s1 EXCEPT !.ready = Tail(@)], Head(s1.ready), threadState)

\* BlockOnWaitQueue links the current thread at the end of the queue, NanoSleepUntil
\* into the sleep queue, while its state is still kRunning; Reschedule follows.
EnqueueCurrent(s, q) == [s EXCEPT !.wq[q] = Append(@, s.current)]

SleepCurrent(s) == [s EXCEPT !.sleeping = @ \cup {s.current}]

\* One round of ReleaseAndProcessAllBeforeProceeding: the first waiter runs at
\* once, the releasing thread becomes ready.
ReleaseAndRunFirst(s, w, q) ==
    SwitchTo([WakeUpTasks(s, w) EXCEPT !.wq[q] = Tail(@)], Head(s.wq[q]), "kReady")

\* (mutant) The queue is read, not emptied.
ReleaseAllKeepsQueue(s, q) ==
    [s EXCEPT !.state = [t \in ThreadSlot |-> IF t \in Range(s.wq[q]) THEN "kReady" ELSE @[t]],
              !.ready = @ \o s.wq[q]]

ReleaseAll(s, q) ==
    [s EXCEPT !.state = [t \in ThreadSlot |-> IF t \in Range(s.wq[q]) THEN "kReady" ELSE @[t]],
              !.ready = @ \o s.wq[q],
              !.wq[q] = <<>>]

\* RemoveThread asserts one of the three states of a thread that is not running
\* and unlinks it from the one structure that state stands for.
Removable(s, t) == s.state[t] \in {"kSleeping", "kReady", "kBlockedOnWaitQueue"}

\* (mutant) A ready thread is left in its policy's list.
RemoveThreadLeavesReady(s, t) ==
    CASE s.state[t] = "kSleeping" -> [s EXCEPT !.sleeping = @ \ {t}]
      [] s.state[t] = "kReady" -> s
      [] OTHER -> [s EXCEPT !.wq = [q \in WaitQueue |-> Unlink(@[q], t)]]

RemoveThread(s, t) ==
    CASE s.state[t] = "kSleeping" -> [s EXCEPT !.sleeping = @ \ {t}]
      [] s.state[t] = "kReady" -> [s EXCEPT !.ready = Unlink(@, t)]
      [] OTHER -> [s EXCEPT !.wq = [q \in WaitQueue |-> Unlink(@[q], t)]]

\* TimerRoutine: sleepers are woken, the current thread is preempted when its
\* time slice is used up.
TimerRoutine(s, w, sliceUsedUp) ==
    IF sliceUsedUp THEN Reschedule(s, w, "kReady") ELSE WakeUpTasks(s, w)

\* ConvertToScheduling: the boot flow becomes the first ready thread.
ConvertToScheduling(s) ==
    [s EXCEPT !.state[Head(s.ready)] = "kRunning",
              !.ready = Tail(@),
              !.current = Head(s.ready)]

-----------------------------------------------------------------------------
(***************************************************************************)
(* What the scheduler's structures promise about each other: no thread is  *)
(* lost and none is linked twice.  A thread is in the structure its state  *)
(* names and in no other, once.                                            *)
(***************************************************************************)
ReadyConsistent(s) ==
    /\ IsInjective(s.ready)
    /\ \A t \in ThreadSlot : s.state[t] = "kReady" <=> t \in Range(s.ready)

WaitConsistent(s) ==
    /\ \A q \in WaitQueue : IsInjective(s.wq[q])
    /\ \A q, r \in WaitQueue : q # r => Range(s.wq[q]) \cap Range(s.wq[r]) = {}
    /\ \A t \in ThreadSlot :
          s.state[t] = "kBlockedOnWaitQueue" <=> \E q \in WaitQueue : t \in Range(s.wq[q])

SleepConsistent(s) ==
    \A t \in ThreadSlot : s.state[t] = "kSleeping" <=> t \in s.sleeping

RunConsistent(s) ==
    \A t \in ThreadSlot : s.state[t] = "kRunning" <=> t = s.current

Consistent(s) ==
    /\ ReadyConsistent(s)
    /\ WaitConsistent(s)
    /\ SleepConsistent(s)
    /\ RunConsistent(s)
=============================================================================
