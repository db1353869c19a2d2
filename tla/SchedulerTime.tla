--------------------------- MODULE SchedulerTime ---------------------------
(***************************************************************************)
(* The time in the AlkOS scheduler, which Scheduler and TaskMgr abstract   *)
(* away: deadlines of sleepers, time slices, the accounting the slices are *)
(* computed from (kernel/src/scheduling/thread.cpp, threads.cpp) and the   *)
(* event timer (scheduler.cpp).  All threads are of policy P3, round       *)
(* robin: threads of programs (Users) and the kernel workers, which only   *)
(* yield.  Time is relative to now, so that it needs no bound:             *)
(*   left[t]   key of sleep_queue_ - now, for the sleeping threads         *)
(*   since     now - timestamp of the running thread                       *)
(*   armed     when the timer fires; pending: the interrupt waits          *)
(*   user[t], kernel[t]   user_time_ns and kernel_time_ns.  Those of the   *)
(*             running thread leave out what it has run since it got the   *)
(*             core (timestamp_execution_start_ns); userIn and inKernel    *)
(*             are that part.                                              *)
(* Times of the accounting stop at kPreemptTimeNs: beyond it they all mean *)
(* that the slice is used up.  A call of the scheduler takes 1..MaxLag;    *)
(* it reads the clock several times.                                       *)
(***************************************************************************)
EXTENDS Integers, Sequences, FiniteSetsExt

CONSTANTS
    Users, Workers,
    Boot,              \* the threads in the order in which they are spawned
    Queue, NoThread,   \* a wait queue; the null pointer
    kPreemptTimeNs, kMinDelta,
    MaxLag,            \* how long a call of the scheduler takes at most
    TickLength,        \* how long a program computes before it may call the kernel
    Sleeps             \* durations programs ask for

Thread == Users \cup Workers

\* The second clock reading of a call comes less than kMinDelta after the first.
ASSUME TimeAssumption ==
    /\ Users \cap Workers = {} /\ Workers # {} /\ IsFiniteSet(Thread)
    /\ Boot \in Injection(1..Cardinality(Thread), Thread)
    /\ Queue \notin Thread /\ NoThread \notin Thread \cup {Queue}
    /\ {kPreemptTimeNs, kMinDelta, MaxLag, TickLength} \subseteq Nat
    /\ 0 < TickLength /\ 0 < MaxLag /\ MaxLag < kMinDelta /\ 2 * kMinDelta < kPreemptTimeNs
    /\ Sleeps \subseteq Nat

VARIABLES state, ready, left, wq, current, user, kernel, since, userIn, inKernel,
          armed, pending, failed

vars == <<state, ready, left, wq, current, user, kernel, since, userIn, inKernel,
          armed, pending, failed>>
clockVars == <<user, kernel, since, userIn, inKernel, armed, pending>>

Capped(n) == IF n < kPreemptTimeNs THEN n ELSE kPreemptTimeNs

\* ConvertToScheduling runs the first thread of the list.
TimeInit ==
    /\ current = Head(Boot)
    /\ ready = Tail(Boot)
    /\ state = [t \in Thread |-> IF t = Head(Boot) THEN "kRunning" ELSE "kReady"]
    /\ left = [t \in {} |-> 0]
    /\ wq = <<>>
    /\ user = [t \in Thread |-> 0] /\ kernel = [t \in Thread |-> 0]
    /\ since = 0 /\ userIn = 0 /\ inKernel = 0
    /\ armed = kPreemptTimeNs /\ pending = FALSE
    /\ failed = {}

-----------------------------------------------------------------------------
\* An assertion failed: the kernel stops.
Fail(assertion) ==
    /\ failed' = {assertion}
    /\ UNCHANGED <<state, ready, left, wq, current>>
    /\ UNCHANGED clockVars

\* (mutant) WakeUpTasks leaves no margin for the next reading of the clock.
DueWithoutMargin(asleep, d) == {t \in DOMAIN asleep : asleep[t] - d <= kMinDelta}

\* Sleepers within 2 * kMinDelta of their deadline are due, the nearest first.
Due(asleep, d) == {t \in DOMAIN asleep : asleep[t] - d <= 2 * kMinDelta}

InKeyOrder(due, asleep) ==
    {w \in Injection(1..Cardinality(due), due) :
        \A i, j \in DOMAIN w : i < j => asleep[w[i]] <= asleep[w[j]]}

\* (mutant) What CalculateCpuTime returns if it charged nothing twice.
ChargedOnce(t, entered) == kernel[t]

\* CalculateCpuTime adds the time since timestamp to kernel_time_ns but leaves
\* timestamp alone, so that the next update adds the same time again.
Charged(t, entered) == Capped(kernel[t] + entered)

\* It returns what the thread had run before it got the core this time, plus
\* what was charged twice.
CalculateCpuTime(t) == user[t] + kernel[t]

GetPreemptTime(t) ==
    IF CalculateCpuTime(t) < kPreemptTimeNs THEN kPreemptTimeNs - CalculateCpuTime(t) ELSE 0

ShouldPreempt(time) == time < kMinDelta

\* The accounting when the thread stays: a kernel thread that yields is not
\* charged until it is switched out; the exit of an interrupt or of a system
\* call sets timestamp.
StayCharged(inCall, entered, lag) ==
    /\ kernel' = [kernel EXCEPT ![current] = Charged(current, entered)]
    /\ user' = user
    /\ IF current \in Workers /\ inCall
       THEN since' = Capped(since + lag) /\ UNCHANGED <<userIn, inKernel>>
       ELSE /\ since' = 0
            /\ userIn' = IF current \in Users THEN Capped(userIn + since) ELSE userIn
            /\ inKernel' = Capped(inKernel + lag + (IF current \in Users THEN 0 ELSE since))

\* The accounting of a switch.  UpdateTcbOnInterruptExit adds to kernel_time_ns,
\* cdecl_ContextSwitchEntry overwrites it with the time since timestamp.
SwitchCharged(inCall, entered, lag) ==
    /\ kernel' = [kernel EXCEPT ![current] =
           IF inCall THEN entered
           ELSE Capped(Charged(current, entered) + inKernel + lag
                       + (IF current \in Users THEN 0 ELSE since))]
    /\ user' = [user EXCEPT ![current] =
           IF current \in Users THEN Capped(@ + userIn + since) ELSE @]
    /\ since' = 0 /\ userIn' = 0 /\ inKernel' = 0

\* (mutant) The timer is set for the slice alone.
NextTimeEventSlice(preemptTime, asleep) == preemptTime

\* min_time_ns: the slice or the first deadline.
NextTimeEvent(preemptTime, asleep) == Min({preemptTime} \cup Range(asleep))

\* (mutant) The preempted thread goes back to the front of the list.
AddReadyThreadFirst(list) == <<current>> \o list

\* The thread that gives up the core goes to the end of the list.
AddReadyThread(list) == Append(list, current)

\* A call that takes lag, in which WakeUpTasks reads the clock d after its start
\* and wakes w, the rest reads it at the end.
Scheduled(lag, d, w, preempt, threadState, forced, asleep, queue, inCall) ==
    LET entered == IF current \in Workers /\ inCall THEN Capped(since + lag) ELSE lag
        woken == Due(asleep, d)
        asleepNow == [t \in DOMAIN asleep \ woken |-> asleep[t] - lag]
        found == ready \o w
        switch == \/ forced # {}
                  \/ (preempt \/ ShouldPreempt(GetPreemptTime(current))) /\ found # <<>>
        keeps == preempt \/ ShouldPreempt(GetPreemptTime(current))
        preemptTime == IF switch \/ keeps THEN kPreemptTimeNs ELSE GetPreemptTime(current)
        next == IF forced # {} THEN CHOOSE t \in forced : TRUE ELSE Head(found)
        rest == IF forced # {} THEN found ELSE Tail(found)
    IN  IF current \in woken THEN Fail("WakesRunning")
        ELSE IF ~switch /\ threadState # "kReady" THEN Fail("Idle")
        ELSE IF preemptTime <= kMinDelta THEN Fail("PreemptTime")
        ELSE IF NextTimeEvent(preemptTime, asleepNow) <= kMinDelta THEN Fail("MinTime")
        ELSE /\ left' = asleepNow
             /\ wq' = queue
             /\ state' = [t \in Thread |->
                    IF switch /\ t = next THEN "kRunning"
                    ELSE IF switch /\ t = current THEN threadState
                    ELSE IF t \in woken THEN "kReady" ELSE state[t]]
             /\ current' = IF switch THEN next ELSE current
             /\ ready' = IF ~switch THEN found
                         ELSE IF threadState = "kReady" THEN AddReadyThread(rest) ELSE rest
             /\ IF switch THEN SwitchCharged(inCall, entered, lag)
                          ELSE StayCharged(inCall, entered, lag)
             /\ armed' = NextTimeEvent(preemptTime, asleepNow)
             /\ pending' = (inCall /\ (pending \/ armed <= lag))
             /\ failed' = failed

\* ScheduleAndUpdateThreads(preempt, threadState, forced) in a call that began
\* with the threads in DOMAIN asleep in the sleep queue and queue as the waiters.
ScheduleAndUpdateThreads(preempt, threadState, forced, asleep, queue, inCall) ==
    \E lag \in 1..MaxLag : \E d \in {0, lag} : \E w \in InKeyOrder(Due(asleep, d), asleep) :
        Scheduled(lag, d, w, preempt, threadState, forced, asleep, queue, inCall)

-----------------------------------------------------------------------------
\* Time passes in steps of TickLength, or until the timer fires: the running
\* thread computes.
Tick ==
    /\ failed = {} /\ ~pending
    /\ LET n == Min({TickLength, armed})
       IN  /\ left' = [t \in DOMAIN left |-> left[t] - n]
           /\ since' = Capped(since + n)
           /\ armed' = armed - n
           /\ pending' = (armed = n)
    /\ UNCHANGED <<state, ready, wq, current, user, kernel, userIn, inKernel, failed>>

\* The timer interrupt.
TimerRoutine ==
    /\ failed = {} /\ pending
    /\ ScheduleAndUpdateThreads(FALSE, "kReady", {}, left, wq, FALSE)

Yield ==
    /\ failed = {}
    /\ ScheduleAndUpdateThreads(TRUE, "kReady", {}, left, wq, TRUE)

\* A duration below kMinDelta is waited for on the core, which Tick covers.
NanoSleepUntil(n) ==
    /\ failed = {} /\ current \in Users /\ n >= kMinDelta
    /\ ScheduleAndUpdateThreads(TRUE, "kSleeping", {},
           [t \in DOMAIN left \cup {current} |-> IF t = current THEN n ELSE left[t]], wq, TRUE)

BlockOnWaitQueue ==
    /\ failed = {} /\ current \in Users
    /\ ScheduleAndUpdateThreads(TRUE, "kBlockedOnWaitQueue", {}, left, Append(wq, current), TRUE)

\* A round of the loop of ReleaseAndProcessAllBeforeProceeding.
ReleaseAndProcess ==
    /\ failed = {} /\ current \in Users /\ wq # <<>>
    /\ ScheduleAndUpdateThreads(FALSE, "kReady", {Head(wq)}, left, Tail(wq), TRUE)

ReleaseAll ==
    /\ failed = {} /\ current \in Users /\ wq # <<>>
    /\ state' = [t \in Thread |-> IF t \in Range(wq) THEN "kReady" ELSE state[t]]
    /\ ready' = ready \o wq
    /\ wq' = <<>>
    /\ UNCHANGED <<left, current, failed>>
    /\ UNCHANGED clockVars

\* The loop of a worker: whatever there is to do, then Yield.
WorkerYields == current \in Workers /\ Yield

TimeNext ==
    \/ Tick
    \/ TimerRoutine
    \/ Yield
    \/ \E n \in Sleeps : NanoSleepUntil(n)
    \/ BlockOnWaitQueue
    \/ ReleaseAndProcess
    \/ ReleaseAll

\* Time passes, the timer interrupts, and a worker gets to its Yield.  Programs
\* need not call anything.
TimeSpec ==
    /\ TimeInit /\ [][TimeNext]_vars
    /\ WF_vars(Tick) /\ WF_vars(TimerRoutine) /\ WF_vars(WorkerYields)

-----------------------------------------------------------------------------
(***************************************************************************)
(* The timer is always set early enough: no deadline of a sleeper passes   *)
(* while it sleeps, whatever the others do to the timer in between         *)
(* (ScheduleAndUpdateThreads sets it anew in every call).                  *)
(***************************************************************************)
SleepersInTime == \A t \in DOMAIN left : left[t] >= 0

(***************************************************************************)
(* ASSERT_GT(min_time_ns, kMinDelta) never fails on a deadline and the     *)
(* subtraction key - time does not wrap: the 2 * kMinDelta of WakeUpTasks  *)
(* leave room for the second reading of the clock, as long as it follows   *)
(* within kMinDelta.  Nor does Idle fail.                                  *)
(***************************************************************************)
DeadlineAssertionsHold == failed \cap {"MinTime", "Idle"} = {}

(***************************************************************************)
(* Time only decides when: seen without it, every step is a step of        *)
(* Scheduler, with the sleepers that were due as its argument.  TaskMgr    *)
(* builds on those steps.                                                  *)
(***************************************************************************)
Untimed ==
    [state |-> state, ready |-> ready, sleeping |-> DOMAIN left,
     wq |-> [q \in Thread \cup {Queue} |-> IF q = Queue THEN wq ELSE <<>>],
     current |-> current]

U == INSTANCE Scheduler WITH ThreadSlot <- Thread, ProcessSlot <- {Queue}

UntimedStep ==
    \E w \in {v \in U!DueSleepers(Untimed) : Range(v) = DOMAIN left \ DOMAIN left'} :
        Untimed' \in {U!TimerRoutine(Untimed, w, FALSE),
                      U!Reschedule(Untimed, w, "kReady"),
                      U!Reschedule(U!SleepCurrent(Untimed), w, "kSleeping"),
                      U!Reschedule(U!EnqueueCurrent(Untimed, Queue), w, "kBlockedOnWaitQueue")}
                     \cup (IF wq = <<>> THEN {}
                           ELSE {U!ReleaseAndRunFirst(Untimed, w, Queue),
                                 U!ReleaseAll(Untimed, Queue)})

ImplementsScheduler == [][UntimedStep]_Untimed

(***************************************************************************)
(* Every ready thread runs at last (or an assertion stops the kernel),     *)
(* even if programs never call the kernel: the timer takes the core away   *)
(* from them.  It does so only because CalculateCpuTime charges the time   *)
(* of every interrupt twice.                                               *)
(***************************************************************************)
ReadyThreadRunsInTime ==
    \A t \in Thread : state[t] = "kReady" ~> (state[t] = "kRunning" \/ failed # {})
=============================================================================
