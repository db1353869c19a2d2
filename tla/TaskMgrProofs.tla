--------------------------- MODULE TaskMgrProofs ---------------------------
(***************************************************************************)
(* The task manager keeps its invariant, for any number of threads and     *)
(* processes: the initial state, the steps put together, the theorems.     *)
(***************************************************************************)
EXTENDS TaskMgrEnds

\* The state after InitializeMultitasking and KernelRun.
LEMMA InitInv ==
  ASSUME Init
  PROVE  IInv
<1>1. Range(Boot) \subseteq ThreadSlot /\ BootProcess \subseteq ProcessSlot
  BY BootAssumption, RangeOfSeq DEF BootProcess
<1>2. /\ sched.state = [t \in ThreadSlot |-> IF t \in Range(Boot) THEN "kReady" ELSE "kFree"]
      /\ sched.ready = Boot /\ sched.sleeping = {} /\ sched.wq = [q \in WaitQueue |-> <<>>]
      /\ sched.current = NoThread
      /\ thread = [t \in ThreadSlot |-> Undetached(BootOwner[t])]
      /\ threadsToClean = <<>> /\ processesToClean = <<>> /\ panic = "none"
  BY DEF Init
<1>3. \A t \in ThreadSlot : /\ Alive(t) <=> t \in Range(Boot)
                            /\ sched.state[t] = IF t \in Range(Boot) THEN "kReady" ELSE "kFree"
                            /\ thread[t].owner = BootOwner[t]
                            /\ BootOwner[t] \in ProcessSlot
  BY <1>2, BootAssumption DEF Alive, Live, Undetached
<1>4. ASSUME NEW p \in ProcessSlot
      PROVE  \/ /\ process[p] = EmptyProcess /\ \A t \in Range(Boot) : BootOwner[t] # p
             \/ \E t \in Range(Boot) : /\ process[p] = FreshProcess(t)
                                       /\ \A u \in Range(Boot) : BootOwner[u] = p <=> u = t
  <2>1. CASE p \in BootProcess
    <3> DEFINE t == CHOOSE t \in Range(Boot) : BootOwner[t] = p
    <3>1. t \in Range(Boot) /\ BootOwner[t] = p
      BY <2>1 DEF BootProcess
    <3>2. process[p] = FreshProcess(t)
      BY <2>1 DEF Init
    <3> HIDE DEF t
    <3>3. \A u \in Range(Boot) : BootOwner[u] = p <=> u = t
      BY <3>1, BootAssumption
    <3>4. QED  BY <3>1, <3>2, <3>3
  <2>2. CASE p \notin BootProcess
    BY <2>2 DEF Init, BootProcess
  <2>3. QED  BY <2>1, <2>2
<1>5. <<>> \in Seq(ThreadSlot) /\ <<>> \in Seq(ProcessSlot) /\ IsInjective(<<>>) /\ Range(<<>>) = {}
  BY EmptyList DEF IsList
<1>6. \A t \in ThreadSlot : resume[t] \in Resume /\ resume[t].at = IF t \in Workers THEN "Run" ELSE "Elf64EntryPoint"
  BY DEF Init, Run, Resume
<1>7. TypeOK
  <2>1. sched \in SchedulerState
    BY <1>5, BootAssumption DEF Init, SchedulerState, ThreadState
  <2>2. thread \in [ThreadSlot -> [owner : ProcessSlot, detached : BOOLEAN]]
    BY <1>2, BootAssumption DEF Undetached
  <2>3. \A p \in ProcessSlot : process[p] \in [state : ProcessState, live : Nat, toClean : Nat,
                                               threads : Seq(ThreadSlot)]
    <3>1. EmptyProcess \in [state : ProcessState, live : Nat, toClean : Nat, threads : Seq(ThreadSlot)]
      BY <1>5 DEF EmptyProcess, ProcessState
    <3>2. \A t \in ThreadSlot : FreshProcess(t) \in [state : ProcessState, live : Nat, toClean : Nat,
                                                     threads : Seq(ThreadSlot)]
      BY DEF FreshProcess, ProcessState
    <3>3. ASSUME NEW p \in ProcessSlot
          PROVE  process[p] = EmptyProcess \/ \E t \in ThreadSlot : process[p] = FreshProcess(t)
      BY <1>1, <1>4
    <3>4. QED  BY <3>1, <3>2, <3>3
  <2>4. process \in [ProcessSlot -> [state : ProcessState, live : Nat, toClean : Nat,
                                     threads : Seq(ThreadSlot)]]
    BY <2>3 DEF Init
  <2>5. resume \in [ThreadSlot -> Resume]
    BY <1>6 DEF Init
  <2>6. QED  BY <1>2, <1>5, <2>1, <2>2, <2>4, <2>5 DEF TypeOK, Panics
<1>8. SchedulerConsistent
  <2>1. ReadyConsistent(sched)
    BY <1>2, <1>3, BootAssumption DEF ReadyConsistent
  <2>2. \A q \in WaitQueue : IsInjective(sched.wq[q]) /\ Range(sched.wq[q]) = {}
    BY <1>2, <1>5
  <2>3. WaitConsistent(sched)
    BY <1>3, <2>2 DEF WaitConsistent
  <2>4. SleepConsistent(sched) /\ RunConsistent(sched)
    BY <1>2, <1>3, SlotAssumption DEF SleepConsistent, RunConsistent
  <2>5. QED  BY <2>1, <2>3, <2>4 DEF SchedulerConsistent, Consistent
<1>9. Books
  <2>1. ListConsistent
    <3>1. ASSUME NEW p \in ProcessSlot
          PROVE  /\ IsInjective(process[p].threads)
                 /\ Range(process[p].threads) = {t \in ThreadSlot : Alive(t) /\ thread[t].owner = p}
      <4>1. \A t \in ThreadSlot : IsInjective(<<t>>) /\ Range(<<t>>) = {t}
        BY DEF IsInjective, Range
      <4>2. CASE process[p] = EmptyProcess /\ \A t \in Range(Boot) : BootOwner[t] # p
        BY <1>3, <1>5, <4>2 DEF EmptyProcess
      <4>3. ASSUME NEW t \in Range(Boot), process[p] = FreshProcess(t),
                   \A u \in Range(Boot) : BootOwner[u] = p <=> u = t
            PROVE  /\ IsInjective(process[p].threads)
                   /\ Range(process[p].threads) = {u \in ThreadSlot : Alive(u) /\ thread[u].owner = p}
        BY <1>1, <1>3, <4>1, <4>3 DEF FreshProcess
      <4>4. QED  BY <1>4, <4>2, <4>3
    <3>2. QED  BY <3>1 DEF ListConsistent
  <2>2. CleanOnce
    BY <1>2, <1>3, <1>5 DEF CleanOnce
  <2>3. Accounting
    <3>1. ASSUME NEW p \in ProcessSlot
          PROVE  /\ process[p].live = Cardinality(Unended(p))
                 /\ process[p].toClean = Cardinality(Uncleaned(p))
      <4>1. Uncleaned(p) = {} /\ Unended(p) = {t \in Range(Boot) : BootOwner[t] = p}
        BY <1>1, <1>3 DEF Uncleaned, Unended
      <4>2. Cardinality({}) = 0 /\ \A t \in ThreadSlot : Cardinality({t}) = 1
        BY FS_EmptySet, FS_Singleton, Zenon
      <4>3. CASE process[p] = EmptyProcess /\ \A t \in Range(Boot) : BootOwner[t] # p
        <5>1. Unended(p) = {}
          BY <4>1, <4>3
        <5>2. process[p].live = 0 /\ process[p].toClean = 0
          BY <4>3 DEF EmptyProcess
        <5>3. QED  BY <4>1, <4>2, <5>1, <5>2
      <4>4. ASSUME NEW t \in Range(Boot), process[p] = FreshProcess(t),
                   \A u \in Range(Boot) : BootOwner[u] = p <=> u = t
            PROVE  /\ process[p].live = Cardinality(Unended(p))
                   /\ process[p].toClean = Cardinality(Uncleaned(p))
        <5>1. Unended(p) = {t}
          BY <4>1, <4>4
        <5>2. QED  BY <1>1, <4>1, <4>2, <4>4, <5>1 DEF FreshProcess
      <4>5. QED  BY <1>4, <4>3, <4>4
    <3>2. QED  BY <3>1 DEF Accounting, Unended, Uncleaned
  <2>4. OwnerExists
    <3>1. ASSUME NEW t \in Range(Boot) PROVE process[BootOwner[t]].state # "kFree"
      <4>1. BootOwner[t] \in ProcessSlot
        BY <1>1, <1>3
      <4>2. \E u \in Range(Boot) : process[BootOwner[t]] = FreshProcess(u)
        BY <1>4, <4>1
      <4>3. QED  BY <4>2 DEF FreshProcess
    <3>2. QED  BY <1>3, <3>1 DEF OwnerExists
  <2>5. JoinersWaitOnLiving
    BY <1>2 DEF JoinersWaitOnLiving, WaitQueue
  <2>6. QED  BY <2>1, <2>2, <2>3, <2>4, <2>5 DEF Books
<1>10. Places
  <2>1. ASSUME NEW t \in ThreadSlot PROVE Place(t)
    <3>1. t \in Workers => sched.state[t] \in Runnable
      BY <1>3 DEF Workers, Runnable
    <3>2. ~Ended(process[thread[t].owner].state)
      <4>1. \A p \in ProcessSlot :
               process[p] = EmptyProcess \/ \E u \in Range(Boot) : process[p] = FreshProcess(u)
        BY <1>4
      <4>2. \A p \in ProcessSlot : process[p].state \in {"kFree", "kReady"}
        <5>1. EmptyProcess.state = "kFree" /\ \A u : FreshProcess(u).state = "kReady"
          BY DEF EmptyProcess, FreshProcess
        <5>2. QED  BY <4>1, <5>1
      <4>3. QED  BY <1>3, <4>2 DEF Ended
    <3>3. QED  BY <1>3, <1>6, <3>1, <3>2 DEF Place
  <2>2. QED  BY <2>1 DEF Places
<1>11. QED  BY <1>2, <1>7, <1>8, <1>9, <1>10, InvMeaning DEF AssertionsHold

\* A step that changes nothing keeps it.
LEMMA UnchangedInv ==
  ASSUME IInv, UNCHANGED vars
  PROVE  IInv'
<1>1. TypeOK' /\ SchedulerConsistent' /\ AssertionsHold'
  BY DEF IInv, vars, TypeOK, SchedulerConsistent, AssertionsHold
<1>2. ListConsistent' /\ CleanOnce' /\ OwnerExists' /\ JoinersWaitOnLiving'
  BY DEF IInv, vars, ListConsistent, CleanOnce, OwnerExists, JoinersWaitOnLiving, Alive
<1>3. Accounting'
  BY DEF IInv, vars, Accounting, Alive
<1>4. WorkersRunnable' /\ PointersKept' /\ EndedProcessQuiet'
  BY DEF IInv, vars, WorkersRunnable, PointersKept, EndedProcessQuiet, Alive
<1>5. QED  BY <1>1, <1>2, <1>3, <1>4 DEF IInv

\* Every step of the kernel keeps the inductive invariant.
LEMMA NextInv ==
  ASSUME IInv, [Next]_vars
  PROVE  IInv'
<1>1. CASE StartScheduling
  BY <1>1, StartSchedulingInv
<1>2. CASE \E sliceUsedUp \in BOOLEAN : Timer(sliceUsedUp)
  BY <1>2, TimerInv
<1>3. CASE NanoSleep
  BY <1>3, NanoSleepInv
<1>4. CASE CreateThread
  BY <1>4, CreateThreadInv
<1>5. CASE \E async \in BOOLEAN : Exec(async)
  BY <1>5, ExecInv
<1>6. CASE ExecOutOfMemory
  BY <1>6, FailInv, SMTT(30) DEF ExecOutOfMemory, Panics
<1>7. CASE Elf64EntryPoint
  BY <1>7, Elf64EntryPointInv
<1>8. CASE ThreadExit
  BY <1>8, ThreadExitInv
<1>9. CASE JoinThreadResumed
  BY <1>9, JoinThreadResumedInv
<1>10. CASE \E x \in ThreadSlot \ Workers : JoinThread(x) \/ JoinEndedThread(x) \/ DetachThread(x)
  BY <1>10, JoinThreadInv, JoinEndedThreadInv, DetachThreadInv, SMTT(30)
<1>11. CASE ExitProcess
  BY <1>11, ExitProcessInv
<1>12. CASE CommitSuicide
  BY <1>12, CommitSuicideInv
<1>13. CASE CommitSuicideResumed
  BY <1>13, CommitSuicideResumedInv
<1>14. CASE \E p \in ProcessSlot \ KernelProcess :
               CommitMurder(p) \/ JoinProcess(p) \/ JoinEndedProcess(p)
  BY <1>14, CommitMurderInv, JoinProcessInv, JoinEndedProcessInv, SMTT(30)
<1>15. CASE MurderThread
  BY <1>15, MurderThreadInv
<1>16. CASE MurderRelease
  BY <1>16, MurderReleaseInv
<1>17. CASE MurderEnd
  BY <1>17, MurderEndInv
<1>18. CASE MurderFreed
  BY <1>18, FailInv, SMTT(30) DEF MurderFreed, Panics
<1>19. CASE JoinProcessResumed
  BY <1>19, JoinProcessResumedInv
<1>20. CASE ThreadRipperClean
  BY <1>20, ThreadRipperCleanInv
<1>21. CASE ProcessRipperPop
  BY <1>21, ProcessRipperPopInv
<1>22. CASE ProcessRipperWait
  BY <1>22, YieldInv DEF ProcessRipperWait, At
<1>23. CASE ProcessRipperClean
  BY <1>23, ProcessRipperCleanInv
<1>24. CASE WorkerYield
  BY <1>24, YieldInv DEF WorkerYield, At
<1>25. CASE UNCHANGED vars
  BY <1>25, UnchangedInv
<1>26. CASE Halted
  BY <1>25, <1>26 DEF Halted
<1>27. QED
  BY <1>1, <1>2, <1>3, <1>4, <1>5, <1>6, <1>7, <1>8, <1>9, <1>10, <1>11, <1>12, <1>13, <1>14,
     <1>15, <1>16, <1>17, <1>18, <1>19, <1>20, <1>21, <1>22, <1>23, <1>24, <1>25, <1>26, SMTT(30)
  DEF Next

-----------------------------------------------------------------------------
(* What has ended stays ended: an argument of its own, on single steps. *)

\* Every thread the scheduler can reach through one of its structures is alive.
LinkedAlive(s) ==
    \A t \in ThreadSlot :
        t \in s.sleeping \/ t \in Range(s.ready) \/ (\E q \in WaitQueue : t \in Range(s.wq[q]))
        \/ t = s.current => s.state[t] \in Live

\* The step from s to s1 leaves the threads that have ended alone.
Untouched(s, s1) ==
    \A t \in ThreadSlot : Ended(s.state[t]) => s1.state[t] = s.state[t]

\* The property's action.
EndsForGood(s, s1) ==
    \A t \in ThreadSlot :
        /\ s.state[t] = "kWaitingForJoin" => s1.state[t] \in {"kWaitingForJoin", "kTerminated"}
        /\ s.state[t] = "kTerminated" => s1.state[t] \in {"kTerminated", "kFree"}

\* A step that leaves the ended threads alone is a step of the property.
LEMMA UntouchedEnds ==
  ASSUME NEW s, NEW s1, Untouched(s, s1)
  PROVE  EndsForGood(s, s1)
BY DEF Untouched, EndsForGood, Ended

\* Consistent structures link only threads that are alive.
LEMMA ConsistentAlive ==
  ASSUME NEW s \in SchedulerState, Consistent(s)
  PROVE  LinkedAlive(s)
BY DEF Consistent, ReadyConsistent, WaitConsistent, SleepConsistent, RunConsistent, LinkedAlive, Live

\* So do the structures while a thread is being blocked.
LEMMA BlockedAlive ==
  ASSUME NEW s, Linked(s, "kBlockedOnWaitQueue")
  PROVE  LinkedAlive(s)
BY DEF Linked, ReadyConsistent, RunConsistent, LinkedAlive, Live

\* WakeUpTasks changes only threads it finds in sleep_queue_.
LEMMA WakeUpTouches ==
  ASSUME NEW s \in SchedulerState, LinkedAlive(s), NEW w \in DueSleepers(s)
  PROVE  /\ WakeUpTasks(s, w) \in SchedulerState
         /\ Untouched(s, WakeUpTasks(s, w)) /\ LinkedAlive(WakeUpTasks(s, w))
         /\ WakeUpTasks(s, w).current = s.current
         /\ WakeUpTasks(s, w).wq = s.wq
<1> DEFINE s1 == WakeUpTasks(s, w)
<1>1. IsList(w, ThreadSlot) /\ Range(w) \subseteq s.sleeping
  BY DueList, SMTT(30)
<1>2. /\ s1 \in SchedulerState
      /\ \A t \in ThreadSlot : s1.state[t] = IF t \in Range(w) THEN "kReady" ELSE s.state[t]
      /\ s1.sleeping = s.sleeping \ Range(w) /\ s1.ready = s.ready \o w
      /\ s1.wq = s.wq /\ s1.current = s.current
  <2>1. s.ready \o w \in Seq(ThreadSlot)
    BY <1>1 DEF SchedulerState, IsList
  <2>2. QED  BY <1>1, <2>1, Zenon DEF WakeUpTasks, SchedulerState, ThreadState
<1>3. Range(s.ready \o w) = Range(s.ready) \cup Range(w)
  BY <1>1, RangeConcatenation DEF SchedulerState, IsList
<1>4. Untouched(s, s1)
  BY <1>1, <1>2 DEF Untouched, LinkedAlive, Live, Ended
<1>5. LinkedAlive(s1)
  BY <1>1, <1>2, <1>3 DEF LinkedAlive, Live
<1>6. QED  BY <1>2, <1>4, <1>5

\* The context switch writes the states of two threads, both alive.
LEMMA SwitchTouches ==
  ASSUME NEW s \in SchedulerState, LinkedAlive(s), s.current \in ThreadSlot,
         NEW next \in ThreadSlot, s.state[next] \in Live,
         NEW threadState \in ThreadState
  PROVE  Untouched(s, SwitchTo(s, next, threadState))
<1>1. s.state[s.current] \in Live
  BY DEF LinkedAlive
<1>2. \A t \in ThreadSlot \ {next, s.current} : SwitchTo(s, next, threadState).state[t] = s.state[t]
  BY DEF SwitchTo, SchedulerState
<1>3. QED  BY <1>1, <1>2 DEF Untouched, Live, Ended

\* The first item of a list, and the rest.
LEMMA HeadTailInRange ==
  ASSUME NEW S, NEW list \in Seq(S), list # <<>>
  PROVE  /\ Head(list) \in Range(list) /\ Head(list) \in S
         /\ Tail(list) \in Seq(S) /\ Range(Tail(list)) \subseteq Range(list)
<1>1. Len(list) \in Nat \ {0} /\ DOMAIN list = 1..Len(list)
  BY LenProperties, EmptySeq
<1>2. /\ Head(list) \in S /\ Head(list) = list[1]
      /\ Tail(list) \in Seq(S) /\ DOMAIN Tail(list) = 1..Len(list)-1
      /\ \A i \in 1..Len(list)-1 : Tail(list)[i] = list[i+1]
  BY <1>1, HeadTailProperties, LenProperties
<1>3. QED  BY <1>1, <1>2 DEF Range

\* ScheduleAndUpdateThreads, also in the middle of a call that has linked the current
\* thread into a queue.
LEMMA RescheduleTouches ==
  ASSUME NEW s \in SchedulerState, LinkedAlive(s), s.current \in ThreadSlot,
         NEW w \in DueSleepers(s), NEW threadState \in ThreadState
  PROVE  Untouched(s, Reschedule(s, w, threadState))
<1> DEFINE s1 == WakeUpTasks(s, w)
           s2 == [s1 EXCEPT !.ready = Tail(@)]
           s3 == SwitchTo(s2, Head(s1.ready), threadState)
<1>1. s1 \in SchedulerState /\ Untouched(s, s1) /\ LinkedAlive(s1) /\ s1.current = s.current
  BY WakeUpTouches
<1> HIDE DEF s1
<1>2. CASE s1.ready = <<>>
  BY <1>1, <1>2 DEF Reschedule, s1
<1>3. CASE s1.ready # <<>>
  <2>1. /\ Head(s1.ready) \in Range(s1.ready) /\ Head(s1.ready) \in ThreadSlot
        /\ Tail(s1.ready) \in Seq(ThreadSlot) /\ Range(Tail(s1.ready)) \subseteq Range(s1.ready)
    <3>1. s1.ready \in Seq(ThreadSlot)
      BY <1>1 DEF SchedulerState
    <3>2. QED  BY <1>3, <3>1, HeadTailInRange
  <2>2. /\ s2 \in SchedulerState /\ s2.state = s1.state /\ s2.current = s1.current
        /\ s2.ready = Tail(s1.ready) /\ s2.wq = s1.wq /\ s2.sleeping = s1.sleeping
    BY <1>1, <2>1, Zenon DEF SchedulerState
  <2>3. LinkedAlive(s2) /\ s2.state[Head(s1.ready)] \in Live
    BY <1>1, <2>1, <2>2 DEF LinkedAlive
  <2> HIDE DEF s2
  <2>4. Untouched(s2, s3)
    BY <1>1, <2>1, <2>2, <2>3, SwitchTouches
  <2>5. Reschedule(s, w, threadState) = s3
    BY <1>3 DEF Reschedule, s1, s2
  <2> HIDE DEF s3
  <2>6. QED  BY <1>1, <2>2, <2>4, <2>5 DEF Untouched
<1>4. QED  BY <1>2, <1>3

\* Every step of the kernel leaves what has ended to its joiner and to the ripper.
LEMMA EndsForGoodStep ==
  ASSUME IInv, [Next]_vars
  PROVE  EndsForGood(sched, sched')
<1>1. /\ sched \in SchedulerState /\ Consistent(sched) /\ LinkedAlive(sched)
      /\ threadsToClean \in Seq(ThreadSlot) /\ CleanOnce
  BY ConsistentAlive DEF IInv, TypeOK, SchedulerConsistent
<1>2. CASE sched' = sched
  BY <1>2 DEF EndsForGood
<1>3. ASSUME NEW assertion, Fail(assertion) PROVE EndsForGood(sched, sched')
  BY <1>2, <1>3 DEF Fail
<1>4. ASSUME NEW s \in SchedulerState, s.state = sched.state, LinkedAlive(s), s.current \in ThreadSlot,
             NEW w \in DueSleepers(s), NEW ts \in ThreadState, sched' = Reschedule(s, w, ts)
      PROVE  EndsForGood(sched, sched')
  <2>1. Untouched(s, sched')
    BY <1>4, RescheduleTouches
  <2>2. Untouched(sched, sched')
    BY <1>4, <2>1 DEF Untouched
  <2>3. QED  BY <2>2, UntouchedEnds
<1>5. ASSUME NEW w \in DueSleepers(sched), NEW ts \in ThreadState, Current \in ThreadSlot,
             SwitchAway(sched, w, ts)
      PROVE  EndsForGood(sched, sched')
  BY <1>1, <1>4, <1>5 DEF SwitchAway, Current
<1>6. ASSUME NEW q \in WaitQueue, Current \in ThreadSlot, NEW w \in DueSleepers(EnqueueCurrent(sched, q)),
             SwitchAway(EnqueueCurrent(sched, q), w, "kBlockedOnWaitQueue")
      PROVE  EndsForGood(sched, sched')
  <2> DEFINE s == EnqueueCurrent(sched, q)
  <2>1. Linked(s, "kBlockedOnWaitQueue") /\ s.state = sched.state /\ s.current = sched.current
    BY <1>1, <1>6, BlockLinked, Zenon DEF EnqueueCurrent, SchedulerState, Current
  <2>2. s \in SchedulerState /\ LinkedAlive(s)
    BY <2>1, BlockedAlive DEF Linked
  <2> HIDE DEF s
  <2>3. QED  BY <1>4, <1>6, <2>1, <2>2 DEF SwitchAway, s, ThreadState, Current
<1>7. ASSUME NEW s0 \in SchedulerState, Consistent(s0), s0.current = Current, Current \in ThreadSlot,
             Untouched(sched, s0), NEW pcb0, NEW toClean0, EndThread(s0, pcb0, toClean0)
      PROVE  EndsForGood(sched, sched')
  <2> DEFINE s1 == ReleaseAll(s0, Current)
  <2>1. /\ s1 \in SchedulerState /\ Consistent(s1) /\ s1.current = Current /\ Frame(s0, s1, {})
    BY <1>7, ReleaseAllConsistent, Zenon DEF WaitQueue
  <2>2. \E w \in DueSleepers(s1), ts \in ThreadState : sched' = Reschedule(s1, w, ts)
    BY <1>7 DEF EndThread, ThreadState
  <2> HIDE DEF s1
  <2>3. Untouched(s1, sched')
    BY <1>7, <2>1, <2>2, ConsistentAlive, RescheduleTouches
  <2>4. Untouched(s0, s1)
    BY <2>1 DEF Untouched, Frame, Ended, Live
  <2>5. Untouched(sched, sched')
    BY <1>7, <2>3, <2>4 DEF Untouched
  <2>6. QED  BY <2>5, UntouchedEnds
<1>8. ASSUME panic = "none", Current # NoThread
      PROVE  /\ Current \in ThreadSlot /\ sched.current \in ThreadSlot /\ Owner \in ProcessSlot
             /\ Owner \in WaitQueue
  BY <1>8, CurrentFacts DEF Current, WaitQueue
<1>9. ASSUME NEW q \in WaitQueue, sched.wq[q] # <<>>, panic = "none", Current # NoThread,
             NEW w \in DueSleepers(sched), sched' = ReleaseAndRunFirst(sched, w, q)
      PROVE  EndsForGood(sched, sched')
  <2>1. Frame(sched, sched', {})
    BY <1>1, <1>8, <1>9, ReleaseFirstConsistent
  <2>2. Untouched(sched, sched')
    BY <2>1 DEF Untouched, Frame, Ended, Live
  <2>3. QED  BY <2>2, UntouchedEnds
<1>10. ASSUME NEW x \in ThreadSlot, sched.state[x] = "kWaitingForJoin", ReapThread(x)
       PROVE  EndsForGood(sched, sched')
  BY <1>1, <1>10 DEF ReapThread, HandToThreadRipper, EndsForGood, SchedulerState
<1>11. ASSUME NEW pcb, panic = "none", Current # NoThread, SuicideRound(pcb)
       PROVE  EndsForGood(sched, sched')
  <2>1. CASE sched.wq[Owner] # <<>>
    BY <1>8, <1>9, <1>11, <2>1 DEF SuicideRound
  <2>2. CASE sched.wq[Owner] = <<>>
    <3>1. Untouched(sched, sched)
      BY DEF Untouched
    <3>2. \E pcb1, toClean1 : EndThread(sched, pcb1, toClean1)
      BY <1>11, <2>2 DEF SuicideRound
    <3>3. QED  BY <1>1, <1>7, <1>8, <1>11, <3>1, <3>2 DEF Current
  <2>3. QED  BY <2>1, <2>2
<1>12. CASE StartScheduling
  <2>1. sched.ready # <<>> /\ sched.ready \in Seq(ThreadSlot)
    <3>1. sched.state[ThreadRipper] = "kReady"
      BY <1>1, <1>12, BootFacts DEF IInv, WorkersRunnable, StartScheduling, Consistent, RunConsistent, Current
    <3>2. QED  BY <1>1, <3>1, BootFacts, EmptyList DEF Consistent, ReadyConsistent, SchedulerState
  <2>2. Head(sched.ready) \in ThreadSlot /\ sched.state[Head(sched.ready)] \in Live
    BY <1>1, <2>1, HeadTailInRange DEF LinkedAlive
  <2>3. \A t \in ThreadSlot \ {Head(sched.ready)} : sched'.state[t] = sched.state[t]
    BY <1>1, <1>12, <2>2 DEF StartScheduling, ConvertToScheduling, SchedulerState
  <2>4. QED  BY <2>2, <2>3 DEF EndsForGood, Live
<1>13. ASSUME NEW sliceUsedUp \in BOOLEAN, Timer(sliceUsedUp) PROVE EndsForGood(sched, sched')
  <2>1. panic = "none" /\ Current # NoThread
    BY <1>13 DEF Timer, At
  <2>2. PICK w \in DueSleepers(sched) : sched' = TimerRoutine(sched, w, sliceUsedUp)
    BY <1>13 DEF Timer
  <2>3. CASE sliceUsedUp
    BY <1>1, <1>4, <1>8, <2>1, <2>2, <2>3, SMTT(30) DEF TimerRoutine, ThreadState
  <2>4. CASE ~sliceUsedUp
    BY <1>1, <2>2, <2>4, WakeUpTouches, UntouchedEnds, SMTT(30) DEF TimerRoutine
  <2>5. QED  BY <2>3, <2>4
<1>14. CASE NanoSleep
  <2> DEFINE s == SleepCurrent(sched)
  <2>1. panic = "none" /\ Current # NoThread
    BY <1>14 DEF NanoSleep, Syscall, At
  <2>2. \E w \in DueSleepers(s) : Fail("WakeUpTasks") \/ SwitchAway(s, w, "kSleeping")
    BY <1>14 DEF NanoSleep
  <2>3. /\ s \in SchedulerState /\ s.state = sched.state /\ s.current = sched.current /\ LinkedAlive(s)
    BY <1>1, <1>8, <2>1 DEF SleepCurrent, SchedulerState, LinkedAlive
  <2> HIDE DEF s
  <2>4. QED  BY <1>3, <1>4, <1>8, <2>1, <2>2, <2>3, SMTT(30) DEF SwitchAway, ThreadState
<1>15. ASSUME NEW t \in ThreadSlot, sched.state[t] = "kFree", sched' = AddReadyThread(sched, t)
       PROVE  EndsForGood(sched, sched')
  BY <1>1, <1>15 DEF AddReadyThread, EndsForGood, SchedulerState
<1>16. CASE CreateThread
  BY <1>3, <1>15, <1>16, Zenon DEF CreateThread, FreeThreads
<1>17. ASSUME NEW async \in BOOLEAN, Exec(async) PROVE EndsForGood(sched, sched')
  BY <1>3, <1>15, <1>17 DEF Exec, FreeThreads
<1>18. CASE ThreadExit
  <2>1. Untouched(sched, sched) /\ panic = "none" /\ Current # NoThread
    BY <1>18 DEF Untouched, ThreadExit, Syscall, At
  <2>2. QED  BY <1>1, <1>7, <1>8, <1>18, <2>1 DEF ThreadExit, Current
<1>19. CASE JoinThreadResumed
  <2>1. \/ \E a : Fail(a)
        \/ sched' = sched
        \/ \E x \in ThreadSlot : sched.state[x] = "kWaitingForJoin" /\ ReapThread(x)
    <3> DEFINE x == resume[Current].of
    <3>1. /\ panic = "none" /\ Current # NoThread /\ resume[Current].at = "JoinThread"
      BY <1>19 DEF JoinThreadResumed, At
    <3>2. x # NoThread => x \in ThreadSlot
      BY <1>8, <3>1 DEF IInv, PointersKept
    <3>3. QED  BY <1>19, <3>2 DEF JoinThreadResumed
  <2>2. QED  BY <1>2, <1>3, <1>10, <2>1
<1>20. ASSUME NEW x \in ThreadSlot, JoinThread(x) \/ JoinEndedThread(x) \/ DetachThread(x)
       PROVE  EndsForGood(sched, sched')
  <2>1. CASE JoinThread(x)
    BY <1>6, <1>8, <2>1 DEF JoinThread, Syscall, At, WaitQueue
  <2>2. CASE JoinEndedThread(x)
    BY <1>10, <2>2 DEF JoinEndedThread
  <2>3. CASE DetachThread(x)
    BY <1>2, <1>10, <2>3 DEF DetachThread
  <2>4. QED  BY <1>20, <2>1, <2>2, <2>3
<1>21. CASE ExitProcess
  <2>1. panic = "none" /\ Current # NoThread
    BY <1>21 DEF ExitProcess, Syscall, At
  <2>2. CASE ~OnlyThread
    BY <1>3, <1>21, <2>2 DEF ExitProcess
  <2>3. CASE OnlyThread
    <3> DEFINE s0 == ReleaseAll(sched, Owner)
    <3>1. s0 \in SchedulerState /\ Consistent(s0) /\ s0.current = Current /\ Frame(sched, s0, {})
      BY <1>1, <1>8, <2>1, ReleaseAllConsistent, Zenon DEF Current
    <3>2. \E pcb1, toClean1 : EndThread(s0, pcb1, toClean1)
      BY <1>21, <2>3 DEF ExitProcess
    <3> HIDE DEF s0
    <3>3. Untouched(sched, s0)
      BY <3>1 DEF Untouched, Frame, Ended, Live
    <3>4. QED  BY <1>7, <1>8, <2>1, <3>1, <3>2, <3>3, SMTT(30)
  <2>4. QED  BY <2>2, <2>3
<1>22. CASE CommitSuicide \/ CommitSuicideResumed
  <2>1. panic = "none" /\ Current # NoThread
    BY <1>22 DEF CommitSuicide, CommitSuicideResumed, Syscall, At
  <2>2. (\E pcb : SuicideRound(pcb)) \/ Fail("ListRemove")
    BY <1>22 DEF CommitSuicide, CommitSuicideResumed
  <2>3. QED  BY <1>3, <1>11, <2>1, <2>2
<1>23. ASSUME NEW p \in ProcessSlot, CommitMurder(p) \/ JoinProcess(p) \/ JoinEndedProcess(p)
       PROVE  EndsForGood(sched, sched')
  <2>1. CASE JoinProcess(p)
    BY <1>6, <1>8, <2>1 DEF JoinProcess, Syscall, At, WaitQueue
  <2>2. CASE CommitMurder(p) \/ JoinEndedProcess(p)
    BY <1>2, <2>2 DEF CommitMurder, JoinEndedProcess
  <2>3. QED  BY <1>23, <2>1, <2>2
<1>24. CASE MurderThread
  <2> DEFINE t == Head(process[Victim].threads)
  <2>1. Victim \in ProcessSlot
    BY <1>8, <1>24 DEF MurderThread, At, Victim, IInv, PointersKept
  <2>2. t \in ThreadSlot
    BY <1>24, <2>1, HeadTailInRange DEF MurderThread, IInv, TypeOK
  <2>3. (\E a : Fail(a)) \/ (Removable(sched, t) /\ HandToThreadRipper(RemoveThread(sched, t), t))
    BY <1>24 DEF MurderThread
  <2>4. CASE \E a : Fail(a)
    BY <1>3, <2>4
  <2>5. CASE Removable(sched, t) /\ HandToThreadRipper(RemoveThread(sched, t), t)
    <3>1. sched'.state = [sched.state EXCEPT ![t] = "kTerminated"]
      BY <1>1, <2>2, <2>5, RemoveThreadConsistent, Zenon DEF HandToThreadRipper
    <3>2. QED  BY <1>1, <2>2, <2>5, <3>1, SMTT(30) DEF Removable, EndsForGood, SchedulerState
  <2>6. QED  BY <2>3, <2>4, <2>5, SMTT(30)
<1>25. CASE MurderRelease
  <2>1. panic = "none" /\ Current # NoThread
    BY <1>25 DEF MurderRelease, At
  <2>2. Victim \in WaitQueue
    BY <1>8, <1>25, <2>1 DEF MurderRelease, At, Victim, IInv, PointersKept, WaitQueue
  <2>3. QED  BY <1>3, <1>9, <1>25, <2>1, <2>2 DEF MurderRelease
<1>26. CASE ThreadRipperClean
  <2> DEFINE t == Head(threadsToClean)
  <2>1. t \in ThreadSlot /\ sched.state[t] = "kTerminated"
    BY <1>1, <1>26, HeadTailInRange DEF ThreadRipperClean, CleanOnce
  <2>2. (\E a : Fail(a)) \/ sched' = [sched EXCEPT !.state[t] = "kFree"]
    BY <1>26 DEF ThreadRipperClean
  <2>3. CASE sched' = [sched EXCEPT !.state[t] = "kFree"]
    BY <1>1, <2>1, <2>3 DEF EndsForGood, SchedulerState
  <2>4. QED  BY <1>3, <2>2, <2>3
<1>27. CASE ProcessRipperWait \/ WorkerYield
  BY <1>5, <1>8, <1>27 DEF ProcessRipperWait, WorkerYield, At, ThreadState
<1>28. CASE JoinProcessResumed
  <2>1. (\E a : Fail(a)) \/ sched' = sched
    BY <1>28, SMTT(30) DEF JoinProcessResumed
  <2>2. QED  BY <1>2, <1>3, <2>1
<1>29. CASE \/ ExecOutOfMemory \/ Elf64EntryPoint \/ MurderEnd \/ MurderFreed
            \/ ProcessRipperPop \/ ProcessRipperClean \/ Halted \/ UNCHANGED vars
  <2>1. (\E a : Fail(a)) \/ sched' = sched
    BY <1>29 DEF ExecOutOfMemory, Elf64EntryPoint, MurderEnd, MurderFreed, ProcessRipperPop,
                 ProcessRipperClean, Halted, vars
  <2>2. QED  BY <1>2, <1>3, <2>1
<1>30. QED
  BY <1>12, <1>13, <1>14, <1>16, <1>17, <1>18, <1>19, <1>20, <1>21, <1>22, <1>23, <1>24, <1>25,
     <1>26, <1>27, <1>28, <1>29, SMTT(30)
  DEF Next
-----------------------------------------------------------------------------
(* A process is cleaned once, when no program detaches a thread. *)

\* The processes on the stack and the one the ripper waits for are different and
\* have all ended.  The thread that ends a process is not detached, so ThreadExit
\* does not hand the process over a second time.
CleanInv ==
    /\ IsList(processesToClean, ProcessSlot)
    /\ \A p \in Range(processesToClean) : process[p].state = "kTerminated"
    /\ \A t \in ThreadSlot : ~thread[t].detached
    /\ \/ resume[ProcessRipper].of = NoThread
       \/ /\ resume[ProcessRipper].of \in ProcessSlot \ Range(processesToClean)
          /\ process[resume[ProcessRipper].of].state = "kTerminated"
    /\ panic \notin {"ProcessRipper", "StackOverflow"}

\* The null pointer is no process, so the property follows.
LEMMA CleanMeaning ==
  ASSUME CleanInv
  PROVE  ProcessCleanOnce
<1>1. Range(processesToClean) \subseteq ProcessSlot
  BY RangeOfSeq DEF CleanInv, IsList
<1>2. QED  BY <1>1, BootFacts DEF CleanInv, IsList, ProcessCleanOnce

\* A step that ends no process and leaves the ripper and its stack alone.
LEMMA CleanKept ==
  ASSUME CleanInv, processesToClean' = processesToClean,
         resume'[ProcessRipper] = resume[ProcessRipper] \/ resume'[ProcessRipper].of = NoThread,
         \A p \in ProcessSlot :
            process[p].state = "kTerminated" => process'[p].state = "kTerminated",
         \A t \in ThreadSlot : ~thread'[t].detached,
         panic' \notin {"ProcessRipper", "StackOverflow"}
  PROVE  CleanInv'
<1>1. Range(processesToClean) \subseteq ProcessSlot
  BY RangeOfSeq DEF CleanInv, IsList
<1>2. QED  BY <1>1 DEF CleanInv

\* A list without repetition is no longer than the set it is taken from.
LEMMA ListFits ==
  ASSUME NEW S, IsFiniteSet(S), NEW list, IsList(list, S)
  PROVE  Len(list) <= Cardinality(S)
<1>1. PICK n \in Nat : n = Len(list)
  BY LenProperties DEF IsList
<1>2. list \in Injection(1..n, S)
  BY <1>1, LenProperties DEF IsList, Injection
<1>3. IsFiniteSet(1..n) /\ Cardinality(1..n) = n
  <2>1. Cardinality(1..n) = IF 1 > n THEN 0 ELSE n - 1 + 1
    BY FS_Interval
  <2>2. QED  BY <2>1, FS_Interval
<1>4. QED  BY <1>1, <1>2, <1>3, FS_Injection

\* A process that was not marked before is marked and handed to the ripper.
LEMMA CleanPushed ==
  ASSUME CleanInv, NEW p \in ProcessSlot, process[p].state # "kTerminated",
         process'[p].state = "kTerminated", processesToClean' = <<p>> \o processesToClean,
         resume'[ProcessRipper] = resume[ProcessRipper] \/ resume'[ProcessRipper].of = NoThread,
         \A q \in ProcessSlot :
            process[q].state = "kTerminated" => process'[q].state = "kTerminated",
         \A t \in ThreadSlot : ~thread'[t].detached,
         ~Overflows(processesToClean') => panic' \notin {"ProcessRipper", "StackOverflow"}
  PROVE  CleanInv'
<1>1. Range(processesToClean) \subseteq ProcessSlot /\ p \notin Range(processesToClean)
  BY RangeOfSeq DEF CleanInv, IsList
<1>2. /\ IsList(processesToClean', ProcessSlot)
      /\ Range(processesToClean') = Range(processesToClean) \cup {p}
  BY <1>1, ListCons DEF CleanInv
<1>3. ~Overflows(processesToClean')
  <2>1. Len(processesToClean') <= Cardinality(ProcessSlot)
    BY <1>2, BootAssumption, ListFits, Zenon
  <2>2. Len(processesToClean') \in Nat /\ Cardinality(ProcessSlot) \in Nat
    BY <1>2, BootAssumption, LenProperties, FS_CardinalityType DEF IsList
  <2>3. QED  BY <2>1, <2>2, SMTT(30) DEF Overflows
<1>4. QED  BY <1>1, <1>2, <1>3 DEF CleanInv

\* Nothing is on the stack at boot.
LEMMA CleanInitially ==
  ASSUME Init
  PROVE  CleanInv
<1>1. IsList(processesToClean, ProcessSlot) /\ Range(processesToClean) = {}
  BY EmptyList DEF Init
<1>2. \A t \in ThreadSlot : ~thread[t].detached
  BY DEF Init, Undetached
<1>3. resume[ProcessRipper].of = NoThread
  BY BootFacts DEF Init, Run
<1>4. QED  BY <1>1, <1>2, <1>3 DEF CleanInv, Init

\* Every step of the kernel keeps it, unless programs start Async processes or
\* detach threads.
LEMMA CleanStep ==
  ASSUME "ExecAsync" \notin Calls, "DetachThread" \notin Calls, IInv, CleanInv, [Next]_vars
  PROVE  CleanInv'
<1>1. /\ thread \in [ThreadSlot -> [owner : ProcessSlot, detached : BOOLEAN]]
      /\ process \in [ProcessSlot -> [state : ProcessState, live : Nat, toClean : Nat,
                                      threads : Seq(ThreadSlot)]]
      /\ resume \in [ThreadSlot -> Resume] /\ ProcessRipper \in ThreadSlot
      /\ \A t \in ThreadSlot : ~thread[t].detached
      /\ panic \notin {"ProcessRipper", "StackOverflow"}
      /\ Run.at = "Run" /\ Run.of = NoThread
  BY BootFacts DEF IInv, TypeOK, CleanInv, Run
<1>2. ASSUME panic = "none", Current # NoThread
      PROVE  /\ Current \in ThreadSlot /\ Owner \in ProcessSlot
             /\ resume[Current].at # "CommitSuicide" => process[Owner].state # "kTerminated"
  BY <1>2, CurrentFacts DEF IInv, EndedProcessQuiet, Owner, Ended
<1>3. ASSUME UNCHANGED <<process, thread, processesToClean>>,
             resume'[ProcessRipper] = resume[ProcessRipper] \/ resume'[ProcessRipper].of = NoThread,
             panic' \notin {"ProcessRipper", "StackOverflow"}
      PROVE  CleanInv'
  BY <1>1, <1>3, CleanKept
<1>4. ASSUME NEW assertion, Fail(assertion), assertion \notin {"ProcessRipper", "StackOverflow"}
      PROVE  CleanInv'
  BY <1>3, <1>4 DEF Fail
\* The current thread stops or goes on in another function; it is not the ripper.
<1>5. ASSUME NEW s, NEW w, NEW ts, SwitchAway(s, w, ts),
             UNCHANGED <<process, thread, processesToClean>>,
             resume'[ProcessRipper] = resume[ProcessRipper]
      PROVE  CleanInv'
  BY <1>3, <1>5 DEF SwitchAway
<1>6. ASSUME NEW call, Syscall(call)
      PROVE  /\ panic = "none" /\ Current # NoThread /\ Current # ProcessRipper
             /\ Current \in ThreadSlot /\ Owner \in ProcessSlot /\ process[Owner].state = "kReady"
  BY <1>2, <1>6, CallerFacts, BootFacts, SMTT(30)
<1>7. ASSUME NEW p \in ProcessSlot, process[p].state # "kTerminated", HandToProcessRipper(p),
             thread' = thread,
             resume'[ProcessRipper] = resume[ProcessRipper] \/ resume'[ProcessRipper].of = NoThread
      PROVE  CleanInv'
  <2>1. \A q \in ProcessSlot : q # p => process'[q] = process[q]
    BY <1>1, <1>7 DEF HandToProcessRipper
  <2>2. process'[p].state = "kTerminated" /\ processesToClean' = <<p>> \o processesToClean
    BY <1>1, <1>7 DEF HandToProcessRipper
  <2>3. ~Overflows(processesToClean') => panic' = "none"
    BY <1>7 DEF HandToProcessRipper
  <2>4. QED  BY <1>1, <1>7, <2>1, <2>2, <2>3, CleanPushed, Zenon
<1>8. ASSUME NEW x \in ThreadSlot, ReapThread(x), panic = "none",
             resume'[ProcessRipper] = resume[ProcessRipper] \/ resume'[ProcessRipper].of = NoThread
      PROVE  CleanInv'
  <2>1. \A q \in ProcessSlot : process'[q].state = process[q].state
    BY <1>1, <1>8 DEF ReapThread, CountTerminated
  <2>2. QED  BY <1>1, <1>8, <2>1, CleanKept DEF ReapThread
\* The end of a thread, which is not detached, does not end the process: its caller does.
<1>9. ASSUME NEW s0, NEW pcb0, NEW toClean0, EndThread(s0, pcb0, toClean0),
             Current \in ThreadSlot, Owner \in ProcessSlot, pcb0.state \in ProcessState,
             DOMAIN pcb0 = {"state", "live", "toClean", "threads"}
      PROVE  /\ processesToClean' = toClean0 /\ thread' = thread
             /\ process'[Owner].state = pcb0.state
             /\ \A q \in ProcessSlot : q # Owner => process'[q] = process[q]
             /\ \/ resume'[ProcessRipper] = resume[ProcessRipper]
                \/ resume'[ProcessRipper].of = NoThread
             /\ ~Overflows(processesToClean') => panic' \in {"none", "Idle"}
  <2>1. ~thread[Current].detached
    BY <1>1, <1>9
  <2>2. processesToClean' = toClean0 /\ thread' = thread
    BY <1>9, <2>1 DEF EndThread
  <2>3. resume'[ProcessRipper] = resume[ProcessRipper] \/ resume'[ProcessRipper].of = NoThread
    BY <1>1, <1>9 DEF EndThread
  <2>4. ~Overflows(processesToClean') => panic' \in {"none", "Idle"}
    BY <1>9 DEF EndThread
  <2>5. PICK pcb : process' = [process EXCEPT ![Owner] = pcb] /\ pcb.state = pcb0.state
    <3>1. PICK pcb1 : pcb1 = [pcb0 EXCEPT !.threads = Unlink(@, Current)]
      BY Zenon
    <3>2. /\ pcb1.state = pcb0.state /\ DOMAIN pcb1 = DOMAIN pcb0
          /\ CountTerminated(pcb1).state = pcb1.state
      BY <1>9, <3>1 DEF CountTerminated
    <3>3. \E pcb \in {pcb1, CountTerminated(pcb1)} : process' = [process EXCEPT ![Owner] = pcb]
      BY <1>9, <2>1, <3>1, Zenon DEF EndThread
    <3>4. QED  BY <3>2, <3>3, Zenon
  <2>6. QED  BY <1>1, <1>9, <2>2, <2>3, <2>4, <2>5, SMTT(30)
<1>10. ~Overflows(processesToClean)
  <2>1. Len(processesToClean) <= Cardinality(ProcessSlot)
    BY BootAssumption, ListFits DEF CleanInv
  <2>2. Len(processesToClean) \in Nat /\ Cardinality(ProcessSlot) \in Nat
    BY BootAssumption, LenProperties, FS_CardinalityType DEF CleanInv, IsList
  <2>3. QED  BY <2>1, <2>2 DEF Overflows
\* The end of a thread whose process is not handed to the ripper.
<1>11. ASSUME NEW s0, NEW pcb0, EndThread(s0, pcb0, processesToClean),
              Current \in ThreadSlot, Owner \in ProcessSlot, pcb0.state \in ProcessState,
              DOMAIN pcb0 = {"state", "live", "toClean", "threads"},
              process[Owner].state = "kTerminated" => pcb0.state = "kTerminated"
       PROVE  CleanInv'
  <2>1. /\ processesToClean' = processesToClean /\ thread' = thread
        /\ process'[Owner].state = pcb0.state
        /\ \A q \in ProcessSlot : q # Owner => process'[q] = process[q]
        /\ resume'[ProcessRipper] = resume[ProcessRipper] \/ resume'[ProcessRipper].of = NoThread
        /\ ~Overflows(processesToClean') => panic' \in {"none", "Idle"}
    BY <1>9, <1>11
  <2>2. panic' \notin {"ProcessRipper", "StackOverflow"}
    BY <1>10, <2>1
  <2>3. QED  BY <1>1, <1>11, <2>1, <2>2, CleanKept, Zenon
<1>12. ASSUME NEW pcb \in [state : ProcessState, live : Nat, toClean : Nat,
                            threads : Seq(ThreadSlot)],
              SuicideRound(pcb), panic = "none", Current # NoThread, Current # ProcessRipper,
              process[Owner].state = "kTerminated" <=> pcb.state = "kTerminated"
       PROVE  CleanInv'
  <2>1. Current \in ThreadSlot /\ Owner \in ProcessSlot
    BY <1>2, <1>12
  <2>2. CASE sched.wq[Owner] # <<>>
    <3>1. /\ process' = [process EXCEPT ![Owner] = pcb]
          /\ resume' = [resume EXCEPT ![Current] = [at |-> "CommitSuicide", of |-> Owner]]
          /\ UNCHANGED <<thread, processesToClean, panic>>
      BY <1>12, <2>2 DEF SuicideRound
    <3>2. \A q \in ProcessSlot :
             process[q].state = "kTerminated" => process'[q].state = "kTerminated"
      BY <1>1, <1>12, <2>1, <3>1, SMTT(30)
    <3>3. resume'[ProcessRipper] = resume[ProcessRipper]
      BY <1>1, <1>12, <3>1
    <3>4. QED  BY <1>1, <3>1, <3>2, <3>3, CleanKept
  <2>3. CASE sched.wq[Owner] = <<>>
    <3>1. PICK pcb0 : pcb0 = [pcb EXCEPT !.state = "kTerminated"]
      BY Zenon
    <3>2. pcb0.state = "kTerminated" /\ DOMAIN pcb0 = {"state", "live", "toClean", "threads"}
      BY <3>1
    <3>3. CASE pcb.state = "kTerminated"
      <4>1. EndThread(sched, pcb0, processesToClean)
        BY <1>12, <2>3, <3>1, <3>3 DEF SuicideRound
      <4>2. QED  BY <1>11, <2>1, <3>2, <4>1 DEF ProcessState
    <3>4. CASE pcb.state # "kTerminated"
      <4>1. PICK pushed : pushed = <<Owner>> \o processesToClean
        BY Zenon
      <4>2. EndThread(sched, pcb0, pushed)
        BY <1>12, <2>3, <3>1, <3>4, <4>1 DEF SuicideRound
      <4>3. /\ processesToClean' = pushed /\ thread' = thread
            /\ process'[Owner].state = "kTerminated"
            /\ \A q \in ProcessSlot : q # Owner => process'[q] = process[q]
            /\ \/ resume'[ProcessRipper] = resume[ProcessRipper]
               \/ resume'[ProcessRipper].of = NoThread
            /\ ~Overflows(processesToClean') => panic' \in {"none", "Idle"}
        BY <1>9, <2>1, <3>2, <4>2 DEF ProcessState
      <4>4. QED  BY <1>1, <1>12, <2>1, <3>4, <4>1, <4>3, CleanPushed, Zenon
    <3>5. QED  BY <3>3, <3>4
  <2>4. QED  BY <2>2, <2>3
<1>13. CASE StartScheduling \/ (\E sliceUsedUp \in BOOLEAN : Timer(sliceUsedUp))
  BY <1>1, <1>3, <1>13 DEF StartScheduling, Timer
<1>14. CASE NanoSleep
  BY <1>4, <1>5, <1>14 DEF NanoSleep
<1>15. CASE CreateThread
  <2>1. CASE \E a \in {"SpawnThread", "PoolFree"} : Fail(a)
    BY <1>4, <2>1
  <2>2. ASSUME NEW t \in FreeThreads,
               /\ thread' = [thread EXCEPT ![t] = Undetached(Owner)]
               /\ process' = [process EXCEPT ![Owner].live = @ + 1, ![Owner].threads = <<t>> \o @]
               /\ resume' = [resume EXCEPT ![t] = Run]
               /\ UNCHANGED <<processesToClean, panic>>
        PROVE  CleanInv'
    <3>1. \A q \in ProcessSlot : process'[q].state = process[q].state
      BY <1>1, <2>2
    <3>2. \A u \in ThreadSlot : ~thread'[u].detached
      BY <1>1, <2>2 DEF Undetached
    <3>3. resume'[ProcessRipper] \in {resume[ProcessRipper], Run}
      BY <1>1, <2>2
    <3>4. QED  BY <1>1, <2>2, <3>1, <3>2, <3>3, CleanKept
  <2>3. QED  BY <1>15, <2>1, <2>2, Zenon DEF CreateThread
<1>16. ASSUME NEW async \in BOOLEAN, Exec(async) PROVE CleanInv'
  <2>1. async = FALSE
    BY <1>16 DEF Exec, Syscall
  <2>2. CASE Fail("PoolFree")
    BY <1>4, <2>2
  <2>3. ASSUME NEW p \in FreeProcesses, NEW t \in FreeThreads,
               /\ thread' = [thread EXCEPT ![t] = [owner |-> p, detached |-> FALSE]]
               /\ process' = [process EXCEPT ![p] = FreshProcess(t)]
               /\ resume' = [resume EXCEPT ![t] = [Run EXCEPT !.at = "Elf64EntryPoint"]]
               /\ UNCHANGED <<processesToClean, panic>>
        PROVE  CleanInv'
    <3>1. \A q \in ProcessSlot : process[q].state = "kTerminated" => process'[q] = process[q]
      BY <1>1, <2>3 DEF FreeProcesses
    <3>2. \A u \in ThreadSlot : ~thread'[u].detached
      BY <1>1, <2>3
    <3>3. resume'[ProcessRipper] = resume[ProcessRipper] \/ resume'[ProcessRipper].of = NoThread
      BY <1>1, <2>3 DEF Run
    <3>4. QED  BY <1>1, <2>3, <3>1, <3>2, <3>3, CleanKept, SMTT(30)
  <2>4. QED  BY <1>16, <2>1, <2>2, <2>3 DEF Exec
<1>17. CASE ExecOutOfMemory \/ MurderFreed
  BY <1>4, <1>17 DEF ExecOutOfMemory, MurderFreed
<1>18. CASE Elf64EntryPoint
  <2>1. resume'[ProcessRipper] \in {resume[ProcessRipper], Run}
    BY <1>1, <1>18 DEF Elf64EntryPoint
  <2>2. QED  BY <1>1, <1>3, <1>18, <2>1 DEF Elf64EntryPoint
<1>19. CASE ThreadExit
  <2>1. Current \in ThreadSlot /\ Owner \in ProcessSlot
    BY <1>6, <1>19 DEF ThreadExit
  <2>2. QED  BY <1>1, <1>11, <1>19, <2>1 DEF ThreadExit
<1>20. CASE JoinThreadResumed
  <2>1. panic = "none" /\ Current # NoThread /\ resume[Current].at = "JoinThread"
    BY <1>20 DEF JoinThreadResumed, At
  <2>2. PICK x : x = resume[Current].of
    OBVIOUS
  <2>3. x # NoThread => x \in ThreadSlot
    BY <1>2, <2>1, <2>2, SMTT(30) DEF IInv, PointersKept
  <2>4. CASE resume' = [resume EXCEPT ![Current] = Run]
    <3>1. resume'[ProcessRipper] \in {resume[ProcessRipper], Run}
      BY <1>1, <2>4
    <3>2. \/ UNCHANGED <<process, thread, processesToClean, panic>>
          \/ x # NoThread /\ ReapThread(x)
          \/ \E a \in {"UseAfterFree", "JoinThread"} : Fail(a)
      BY <1>20, <2>2 DEF JoinThreadResumed
    <3>3. QED  BY <1>1, <1>3, <1>4, <1>8, <2>1, <2>3, <3>1, <3>2, Zenon
  <2>5. CASE \E a \in {"UseAfterFree", "JoinThread"} : Fail(a)
    BY <1>4, <2>5
  <2>6. QED  BY <1>20, <2>4, <2>5 DEF JoinThreadResumed
<1>21. ASSUME NEW x \in ThreadSlot, JoinThread(x) \/ JoinEndedThread(x) \/ DetachThread(x)
       PROVE  CleanInv'
  <2>1. CASE JoinThread(x)
    <3>1. resume'[ProcessRipper] = resume[ProcessRipper]
      BY <1>1, <1>6, <2>1 DEF JoinThread
    <3>2. QED  BY <1>5, <2>1, <3>1, SMTT(30) DEF JoinThread
  <2>2. CASE JoinEndedThread(x)
    BY <1>6, <1>8, <2>2 DEF JoinEndedThread
  <2>3. CASE DetachThread(x)
    BY <2>3 DEF DetachThread, Syscall
  <2>4. QED  BY <1>21, <2>1, <2>2, <2>3, SMTT(30)
<1>22. CASE ExitProcess
  <2>1. Current \in ThreadSlot /\ Owner \in ProcessSlot /\ process[Owner].state = "kReady"
    BY <1>6, <1>22 DEF ExitProcess
  <2>2. PICK pcb0 : pcb0 = [process[Owner] EXCEPT !.state = "kWaitingForJoin"]
    BY Zenon
  <2>3. /\ pcb0.state = "kWaitingForJoin"
        /\ DOMAIN pcb0 = {"state", "live", "toClean", "threads"}
    BY <1>1, <2>1, <2>2
  <2>4. Fail("ListRemove") \/ \E s0 : EndThread(s0, pcb0, processesToClean)
    BY <1>22, <2>2 DEF ExitProcess
  <2>5. QED  BY <1>4, <1>11, <2>1, <2>3, <2>4, SMTT(30) DEF ProcessState
<1>23. CASE CommitSuicide
  <2>1. /\ panic = "none" /\ Current # NoThread
        /\ resume[Current].at \in {"Run", "Elf64EntryPoint"}
    BY <1>23 DEF CommitSuicide, Syscall, At
  <2>2. Owner \in ProcessSlot /\ process[Owner].state # "kTerminated"
    BY <1>2, <2>1
  <2>3. Current # ProcessRipper
    <3>1. CASE Syscall("Abort")
      BY <1>6, <3>1
    <3>2. CASE At("Elf64EntryPoint")
      BY <3>2, BootFacts DEF At, IInv, WorkersRunnable
    <3>3. QED  BY <1>23, <3>1, <3>2 DEF CommitSuicide
  <2>4. PICK pcb : pcb = [process[Owner] EXCEPT !.state = "kWaitingForJoin"]
    BY Zenon
  <2>5. /\ pcb \in [state : ProcessState, live : Nat, toClean : Nat, threads : Seq(ThreadSlot)]
        /\ pcb.state # "kTerminated"
    BY <1>1, <2>2, <2>4, Zenon DEF ProcessState
  <2>6. Fail("ListRemove") \/ SuicideRound(pcb)
    BY <1>23, <2>4 DEF CommitSuicide
  <2>7. QED  BY <1>4, <1>12, <2>1, <2>2, <2>3, <2>5, <2>6
<1>24. CASE CommitSuicideResumed
  <2>1. panic = "none" /\ Current # NoThread /\ resume[Current].at = "CommitSuicide"
    BY <1>24 DEF CommitSuicideResumed, At
  <2>2. Owner \in ProcessSlot /\ Current # ProcessRipper
    BY <1>2, <2>1, BootFacts DEF IInv, WorkersRunnable
  <2>3. process[Owner] \in [state : ProcessState, live : Nat, toClean : Nat,
                            threads : Seq(ThreadSlot)]
    BY <1>1, <2>2, SMTT(30)
  <2>4. QED  BY <1>12, <1>24, <2>1, <2>2, <2>3 DEF CommitSuicideResumed
<1>25. ASSUME NEW p \in ProcessSlot, CommitMurder(p) \/ JoinProcess(p) \/ JoinEndedProcess(p)
       PROVE  CleanInv'
  <2>1. CASE CommitMurder(p)
    <3>1. resume'[ProcessRipper] = resume[ProcessRipper]
      BY <1>1, <1>6, <2>1 DEF CommitMurder
    <3>2. QED  BY <1>1, <1>3, <2>1, <3>1, SMTT(30) DEF CommitMurder
  <2>2. CASE JoinProcess(p)
    <3>1. resume'[ProcessRipper] = resume[ProcessRipper]
      BY <1>1, <1>6, <2>2 DEF JoinProcess
    <3>2. QED  BY <1>5, <2>2, <3>1 DEF JoinProcess
  <2>3. CASE JoinEndedProcess(p)
    BY <1>7, <2>3 DEF JoinEndedProcess
  <2>4. QED  BY <1>25, <2>1, <2>2, <2>3
<1>26. CASE MurderThread
  <2>1. Victim \in ProcessSlot
    BY <1>2, <1>26 DEF MurderThread, At, Victim, IInv, PointersKept
  <2>2. CASE \E a \in {"RemoveThread", "JoinThread"} : Fail(a)
    BY <1>4, <2>2
  <2>3. ASSUME NEW t,
               /\ process' = [process EXCEPT ![Victim] =
                     CountTerminated([process[Victim] EXCEPT !.threads = Tail(@)])]
               /\ resume' = [resume EXCEPT ![t] = Run]
               /\ UNCHANGED <<thread, processesToClean, panic>>
        PROVE  CleanInv'
    <3>1. \A q \in ProcessSlot : process'[q].state = process[q].state
      BY <1>1, <2>1, <2>3 DEF CountTerminated
    <3>2. resume'[ProcessRipper] \in {resume[ProcessRipper], Run}
      BY <1>1, <2>3
    <3>3. QED  BY <1>1, <2>3, <3>1, <3>2, CleanKept, Zenon
  <2>4. QED  BY <1>26, <2>2, <2>3, SMTT(30) DEF MurderThread
<1>27. CASE MurderRelease
  BY <1>1, <1>3, <1>4, <1>27, Zenon DEF MurderRelease
<1>28. CASE MurderEnd
  <2>1. Victim \in ProcessSlot
    BY <1>2, <1>28 DEF MurderEnd, At, Victim, IInv, PointersKept
  <2>2. resume'[ProcessRipper] \in {resume[ProcessRipper], Run}
    BY <1>1, <1>28 DEF MurderEnd
  <2>3. QED  BY <1>1, <1>3, <1>7, <1>28, <2>1, <2>2 DEF MurderEnd
<1>29. CASE JoinProcessResumed
  <2>1. panic = "none" /\ Current # NoThread /\ resume[Current].at = "JoinProcess"
    BY <1>29 DEF JoinProcessResumed, At
  <2>2. PICK p : p = resume[Current].of
    OBVIOUS
  <2>3. p # NoThread => p \in ProcessSlot
    BY <1>2, <2>1, <2>2 DEF IInv, PointersKept
  <2>4. CASE \E a \in {"UseAfterFree", "JoinProcess"} : Fail(a)
    BY <1>4, <2>4
  <2>5. CASE resume' = [resume EXCEPT ![Current] = Run]
    <3>1. resume'[ProcessRipper] \in {resume[ProcessRipper], Run}
      BY <1>1, <2>5
    <3>2. \/ UNCHANGED <<process, thread, processesToClean, panic>>
          \/ /\ p # NoThread /\ process[p].state = "kWaitingForJoin"
             /\ HandToProcessRipper(p) /\ thread' = thread
          \/ \E a \in {"UseAfterFree", "JoinProcess"} : Fail(a)
      BY <1>29, <2>2 DEF JoinProcessResumed
    <3>3. QED  BY <1>1, <1>3, <1>7, <2>3, <2>4, <3>1, <3>2, SMTT(30)
  <2>6. QED  BY <1>29, <2>4, <2>5 DEF JoinProcessResumed
<1>30. CASE ThreadRipperClean
  <2>1. CASE \E a \in {"OwnerMissing", "ThreadFree"} : Fail(a)
    BY <1>4, <2>1
  <2>2. ASSUME NEW t,
               /\ process' = [process EXCEPT ![thread[t].owner].toClean = @ - 1]
               /\ resume' = Dangle(t)
               /\ thread' = [thread EXCEPT ![t] = Undetached(BootOwner[t])]
               /\ UNCHANGED <<processesToClean, panic>>
        PROVE  CleanInv'
    <3>1. \A q \in ProcessSlot : process'[q].state = process[q].state
      BY <1>1, <2>2
    <3>2. \A u \in ThreadSlot : ~thread'[u].detached
      BY <1>1, <2>2 DEF Undetached
    <3>3. resume'[ProcessRipper] = resume[ProcessRipper] \/ resume'[ProcessRipper].of = NoThread
      BY <1>1, <2>2, SMTT(30) DEF Dangle, Resume
    <3>4. QED  BY <1>1, <2>2, <3>1, <3>2, <3>3, CleanKept, SMTT(30)
  <2>3. QED  BY <1>30, <2>1, <2>2 DEF ThreadRipperClean
<1>31. CASE ProcessRipperPop
  <2>1. Current = ProcessRipper /\ processesToClean # <<>>
    BY <1>31 DEF ProcessRipperPop, Worker
  <2>2. PICK p : p = Head(processesToClean)
    OBVIOUS
  <2>3. /\ p \in ProcessSlot /\ p \in Range(processesToClean)
        /\ IsList(Tail(processesToClean), ProcessSlot)
        /\ Range(Tail(processesToClean)) = Range(processesToClean) \ {p}
    BY <2>1, <2>2, ListTail, Zenon DEF CleanInv
  <2>4. process[p].state = "kTerminated"
    BY <2>3 DEF CleanInv
  <2>5. /\ processesToClean' = Tail(processesToClean)
        /\ resume' = [resume EXCEPT ![ProcessRipper] = [at |-> "ProcessRipperClean", of |-> p]]
        /\ UNCHANGED <<thread, process, panic>>
    BY <1>31, <2>1, <2>2, <2>4 DEF ProcessRipperPop
  <2>6. resume'[ProcessRipper].of = p
    BY <1>1, <2>5
  <2>7. QED  BY <1>1, <2>3, <2>4, <2>5, <2>6, SMTT(30) DEF CleanInv
<1>32. CASE ProcessRipperWait \/ WorkerYield
  BY <1>5, <1>32 DEF ProcessRipperWait, WorkerYield
<1>33. CASE ProcessRipperClean
  <2>1. Current = ProcessRipper /\ Victim \in ProcessSlot /\ Victim = resume[ProcessRipper].of
    BY <1>2, <1>33 DEF ProcessRipperClean, At, Victim, IInv, PointersKept
  <2>2. CASE Fail("ProcessFree")
    BY <1>4, <2>2, SMTT(30)
  <2>3. CASE /\ process' = [process EXCEPT ![Victim] = EmptyProcess]
             /\ resume' = [Dangle(Victim) EXCEPT ![Current] = Run]
             /\ UNCHANGED <<thread, processesToClean, panic>>
    <3>1. Victim \notin Range(processesToClean) /\ Range(processesToClean) \subseteq ProcessSlot
      BY <2>1, BootFacts, RangeOfSeq DEF CleanInv, IsList
    <3>2. resume'[ProcessRipper] = Run
      BY <1>1, <2>1, <2>3 DEF Dangle
    <3>3. \A q \in Range(processesToClean) : process'[q] = process[q]
      BY <1>1, <2>3, <3>1
    <3>4. QED  BY <1>1, <2>3, <3>2, <3>3, SMTT(30) DEF CleanInv
  <2>4. QED  BY <1>33, <2>2, <2>3, SMTT(30) DEF ProcessRipperClean
<1>34. CASE Halted \/ UNCHANGED vars
  BY <1>1, <1>3, <1>34 DEF Halted, vars
<1>35. QED
  BY <1>13, <1>14, <1>15, <1>16, <1>17, <1>18, <1>19, <1>20, <1>21, <1>22, <1>23, <1>24, <1>25,
     <1>26, <1>27, <1>28, <1>29, <1>30, <1>31, <1>32, <1>33, <1>34, SMTT(30)
  DEF Next
-----------------------------------------------------------------------------
(* The theorems. *)

\* The inductive invariant holds in every reachable state, for any number of
\* thread and process slots, any boot threads and any programs.
THEOREM Invariance == Spec => []IInv
<1>1. Init => IInv
  BY InitInv
<1>2. IInv /\ [Next]_vars => IInv'
  BY NextInv
<1>3. QED  BY <1>1, <1>2, PTL DEF Spec

\* Every variable keeps its type.
THEOREM TypeCorrect == Spec => []TypeOK
<1>1. IInv => TypeOK
  BY DEF IInv
<1>2. QED  BY <1>1, Invariance, PTL

\* No thread is lost by the scheduler or linked twice, whatever chain of
\* scheduler calls exit, join, kill and sleep make.
THEOREM NoThreadLost == Spec => []SchedulerConsistent
<1>1. IInv => SchedulerConsistent
  BY DEF IInv
<1>2. QED  BY <1>1, Invariance, PTL

\* Process::threads lists exactly the threads of the process that have not ended,
\* each once, so that CommitMurder and ExitProcess reach all of them.
THEOREM EveryThreadListed == Spec => []ListConsistent
<1>1. IInv => ListConsistent
  BY DEF IInv
<1>2. QED  BY <1>1, Invariance, PTL

\* The thread ripper's stack holds every terminated thread once: no thread is
\* freed twice or forgotten.
THEOREM NoThreadCleanedTwice == Spec => []CleanOnce
<1>1. IInv => CleanOnce
  BY DEF IInv
<1>2. QED  BY <1>1, Invariance, PTL

\* The two counters of a process count the threads that still need an end and
\* those that still need the ripper.
THEOREM BooksInStep == Spec => []Accounting
<1>1. IInv => Accounting
  BY DEF IInv
<1>2. QED  BY <1>1, Invariance, PTL

\* The process ripper frees no process that still has a thread: SwapAsIfNeeded
\* always finds the owner of the thread it switches to.
THEOREM OwnerOutlivesThread == Spec => []OwnerExists
<1>1. IInv => OwnerExists
  BY DEF IInv
<1>2. QED  BY <1>1, Invariance, PTL

\* A joiner never waits on a thread that has already ended: no wake-up is lost.
THEOREM NoLostWakeUp == Spec => []JoinersWaitOnLiving
<1>1. IInv => JoinersWaitOnLiving
  BY DEF IInv
<1>2. QED  BY <1>1, Invariance, PTL

\* The kernel workers never block, sleep or end: the list of policy P3 is never
\* empty when another thread gives up the core, so Idle() and P4 are never reached.
THEOREM WorkersStayReady == Spec => []WorkersRunnable
<1>1. IInv => WorkersRunnable
  BY DEF IInv
<1>2. QED  BY <1>1, Invariance, PTL

\* The process ripper's process stays until the ripper itself frees it, a killer is
\* never its own victim, and no ended thread is left inside a kernel function.
THEOREM PointersHeld == Spec => []PointersKept
<1>1. IInv => PointersKept
  BY DEF IInv
<1>2. QED  BY <1>1, Invariance, PTL

\* A process that has ended runs no code of its program.
THEOREM EndedProcessRunsNothing == Spec => []EndedProcessQuiet
<1>1. IInv => EndedProcessQuiet
  BY DEF IInv
<1>2. QED  BY <1>1, Invariance, PTL

\* Five assertions of the kernel never fail; among them Idle(), which has no
\* implementation, is never reached.
THEOREM KernelAssertions == Spec => []AssertionsHold
<1>1. IInv => AssertionsHold
  BY DEF IInv
<1>2. QED  BY <1>1, Invariance, PTL

\* A thread that has ended is never scheduled again.
THEOREM EndedForGood == Spec => EndedStaysEnded
<1>1. IInv /\ [Next]_vars => EndsForGood(sched, sched')
  BY EndsForGoodStep
<1>2. IInv /\ [Next]_vars =>
        [\A t \in ThreadSlot :
            /\ sched.state[t] = "kWaitingForJoin" =>
                  sched'.state[t] \in {"kWaitingForJoin", "kTerminated"}
            /\ sched.state[t] = "kTerminated" => sched'.state[t] \in {"kTerminated", "kFree"}]_vars
  BY <1>1 DEF EndsForGood
<1>3. QED  BY <1>2, Invariance, PTL DEF Spec, EndedStaysEnded

\* As long as programs start no Async processes and detach no threads, a process is
\* handed to the process ripper once, by its joiner, its killer or itself.
THEOREM NoProcessCleanedTwice ==
  ASSUME "ExecAsync" \notin Calls, "DetachThread" \notin Calls
  PROVE  Spec => []ProcessCleanOnce
<1>1. Init => CleanInv
  BY CleanInitially
<1>2. IInv /\ CleanInv /\ [Next]_vars => CleanInv'
  BY CleanStep
<1>3. CleanInv => ProcessCleanOnce
  BY CleanMeaning
<1>4. QED  BY <1>1, <1>2, <1>3, Invariance, PTL DEF Spec

\* Nor does the ripper then find a process gone (the assertion of
\* ProcessRipperClean_), or the stack of processes overflow.
THEOREM RipperFindsItsProcess ==
  ASSUME "ExecAsync" \notin Calls, "DetachThread" \notin Calls
  PROVE  Spec => [](panic \notin {"ProcessRipper", "StackOverflow"})
<1>1. Init => CleanInv
  BY CleanInitially
<1>2. IInv /\ CleanInv /\ [Next]_vars => CleanInv'
  BY CleanStep
<1>3. CleanInv => panic \notin {"ProcessRipper", "StackOverflow"}
  BY DEF CleanInv
<1>4. QED  BY <1>1, <1>2, <1>3, Invariance, PTL DEF Spec
=============================================================================
