---------------------------- MODULE TaskMgrEnds ----------------------------
(***************************************************************************)
(* The actions of the task manager in which a thread ends or is freed, or  *)
(* a process is freed, keep its invariant.  One lemma per action.          *)
(***************************************************************************)
EXTENDS TaskMgrSteps

\* The two rippers never block, so somebody is ready when the current thread ends.
LEMMA SomebodyReady ==
  ASSUME NEW s \in SchedulerState, Consistent(s),
         s.state[ThreadRipper] \in Runnable, s.state[ProcessRipper] \in Runnable
  PROVE  s.ready # <<>>
<1>1. ~(s.state[ThreadRipper] = "kRunning" /\ s.state[ProcessRipper] = "kRunning")
  BY BootFacts DEF Consistent, RunConsistent
<1>2. \E t \in ThreadSlot : s.state[t] = "kReady"
  BY <1>1, BootFacts DEF Runnable
<1>3. QED  BY <1>2, EmptyList DEF Consistent, ReadyConsistent

\* ThreadExit of the current thread c, called with the scheduler's state s0 and the
\* process pcb0 that ExitProcess and CommitSuicide leave.
LEMMA EndThreadInv ==
  ASSUME IInv, panic = "none", Current # NoThread, NEW c \in ThreadSlot, c = Current, c \notin Workers,
         NEW s0 \in SchedulerState, Consistent(s0), s0.current = c, Frame(sched, s0, {}),
         \A t \in ThreadSlot : s0.wq[t] = sched.wq[t],
         NEW pcb0 \in [state : ProcessState, live : Nat, toClean : Nat, threads : Seq(ThreadSlot)],
         pcb0.live = process[Owner].live, pcb0.toClean = process[Owner].toClean,
         pcb0.threads = process[Owner].threads, pcb0.state # "kFree",
         \A t \in ThreadSlot \ {c} : Alive(t) /\ thread[t].owner = Owner =>
            (Ended(pcb0.state) <=> Ended(process[Owner].state)),
         NEW toClean0 \in Seq(ProcessSlot),
         EndThread(s0, pcb0, toClean0)
  PROVE  IInv'
<1> DEFINE p == thread[c].owner
           gone == thread[c].detached \/ pcb0.live = 1
           last == thread[c].detached /\ pcb0.live = 1
           s1 == ReleaseAll(s0, c)
           pcb == process'[p]
<1>1. TypeOK /\ Books /\ Places /\ sched \in SchedulerState /\ Consistent(sched) /\ Alive(c)
      /\ p \in ProcessSlot /\ p = Owner /\ c \in WaitQueue /\ process[p].state # "kFree"
  BY InvMeaning, CurrentFacts DEF TypeOK, SchedulerConsistent, Owner, WaitQueue
<1>2. /\ s1 \in SchedulerState /\ Consistent(s1) /\ s1.current = c
      /\ s1.wq = [s0.wq EXCEPT ![c] = <<>>] /\ Frame(s0, s1, {})
  BY <1>1, ReleaseAllConsistent
<1>3. PICK w \in DueSleepers(s1) :
        /\ sched' = Reschedule(s1, w, IF gone THEN "kTerminated" ELSE "kWaitingForJoin")
        /\ panic' = IF Overflows(processesToClean') THEN "StackOverflow"
                    ELSE IF NeedsIdle(s1, w) THEN "Idle" ELSE "none"
  BY DEF EndThread
<1>4. /\ process' = [process EXCEPT ![p] =
              LET pcb1 == [pcb0 EXCEPT !.threads = Unlink(@, c)]
                  pcb2 == IF gone THEN CountTerminated(pcb1) ELSE pcb1
              IN  IF last THEN [pcb2 EXCEPT !.state = "kTerminated"] ELSE pcb2]
      /\ threadsToClean' = IF gone THEN <<c>> \o threadsToClean ELSE threadsToClean
      /\ processesToClean' = IF last THEN <<p>> \o toClean0 ELSE toClean0
      /\ resume' = [resume EXCEPT ![c] = Run] /\ thread' = thread
  BY <1>1 DEF EndThread
<1>5. PICK g \in BOOLEAN : g <=> gone
  OBVIOUS
<1> HIDE DEF s1, gone
<1>6. /\ sched' \in SchedulerState /\ Consistent(sched') /\ sched'.wq = s1.wq
      /\ sched'.state[c] = (IF g THEN "kTerminated" ELSE "kWaitingForJoin")
      /\ Frame(s1, sched', {c}) /\ panic' \in {"none", "StackOverflow"}
  <2> DEFINE ts == IF gone THEN "kTerminated" ELSE "kWaitingForJoin"
  <2>1. Linked(s1, ts) /\ c \notin Range(w)
    BY <1>2, ConsistentLinked, YieldConsistent DEF ThreadState
  <2>2. s1.state[ThreadRipper] \in Runnable /\ s1.state[ProcessRipper] \in Runnable
    BY <1>1, <1>2, BootFacts DEF Places, Place, Frame
  <2>3. ~NeedsIdle(s1, w)
    <3>1. s1.ready # <<>> /\ s1.ready \in Seq(ThreadSlot) /\ w \in Seq(ThreadSlot)
      BY <1>2, <2>2, SomebodyReady, DueList DEF SchedulerState, IsList
    <3>2. QED  BY <3>1 DEF NeedsIdle
  <2>4. ts \in ThreadState \ {"kRunning"} /\ ts = (IF g THEN "kTerminated" ELSE "kWaitingForJoin")
    BY <1>5 DEF ThreadState
  <2> HIDE DEF ts
  <2>5. sched' = Reschedule(s1, w, ts)
    BY <1>3 DEF ts
  <2>6. panic' \in {"none", "StackOverflow"}
    BY <1>3, <2>3
  <2>7. s1.current \notin Range(w) /\ ts \in ThreadState \ {"kRunning"}
    BY <1>2, <2>1, <2>4
  <2>8. /\ Reschedule(s1, w, ts) \in SchedulerState /\ Consistent(Reschedule(s1, w, ts))
        /\ Reschedule(s1, w, ts).wq = s1.wq
        /\ Reschedule(s1, w, ts).state[s1.current] = ts
        /\ Frame(s1, Reschedule(s1, w, ts), {s1.current})
    BY <2>1, <2>3, <2>7, RescheduleConsistent
  <2>9. QED  BY <1>2, <2>4, <2>5, <2>6, <2>8
<1>7. /\ IsList(pcb.threads, ThreadSlot) /\ Range(pcb.threads) = Range(process[p].threads) \ {c}
      /\ pcb.live = process[p].live - (IF g THEN 1 ELSE 0)
      /\ pcb.toClean = process[p].toClean + (IF g THEN 1 ELSE 0)
      /\ pcb.state = IF last THEN "kTerminated" ELSE pcb0.state
      /\ process' \in [ProcessSlot -> [state : ProcessState, live : Nat, toClean : Nat,
                                       threads : Seq(ThreadSlot)]]
      /\ \A q \in ProcessSlot \ {p} : process'[q] = process[q]
  <2>1. process[p].live \in Nat /\ process[p].live >= 1
    BY <1>1, CountedOnce
  <2>2. IsList(Unlink(pcb0.threads, c), ThreadSlot)
        /\ Range(Unlink(pcb0.threads, c)) = Range(process[p].threads) \ {c}
    BY <1>1, ListUnlink DEF Books, ListConsistent, IsList
  <2>3. Unlink(pcb0.threads, c) \in Seq(ThreadSlot)
    BY <2>2 DEF IsList
  <2>4. process \in [ProcessSlot -> [state : ProcessState, live : Nat, toClean : Nat,
                                     threads : Seq(ThreadSlot)]]
    BY <1>1 DEF TypeOK
  <2> DEFINE pcb1 == [pcb0 EXCEPT !.threads = Unlink(@, c)]
             pcb2 == IF gone THEN CountTerminated(pcb1) ELSE pcb1
             pcb3 == IF last THEN [pcb2 EXCEPT !.state = "kTerminated"] ELSE pcb2
  <2>5. /\ pcb1.threads = Unlink(pcb0.threads, c) /\ pcb1.live = pcb0.live
        /\ pcb1.toClean = pcb0.toClean /\ pcb1.state = pcb0.state
        /\ pcb1 \in [state : ProcessState, live : Nat, toClean : Nat, threads : Seq(ThreadSlot)]
    BY <2>3
  <2> HIDE DEF pcb1
  <2>6. /\ pcb2.threads = Unlink(pcb0.threads, c) /\ pcb2.state = pcb0.state
        /\ pcb2.live = pcb0.live - (IF g THEN 1 ELSE 0)
        /\ pcb2.toClean = pcb0.toClean + (IF g THEN 1 ELSE 0)
        /\ pcb2 \in [state : ProcessState, live : Nat, toClean : Nat, threads : Seq(ThreadSlot)]
    <3>1. CASE g
      <4>1. pcb2 = [pcb1 EXCEPT !.live = @ - 1, !.toClean = @ + 1]
        BY <1>5, <3>1 DEF CountTerminated
      <4>2. pcb1.live - 1 \in Nat /\ pcb1.toClean + 1 \in Nat
        BY <1>1, <2>1, <2>5
      <4> HIDE DEF pcb2
      <4>3. QED  BY <2>5, <3>1, <4>1, <4>2
    <3>2. CASE ~g
      <4>1. pcb2 = pcb1
        BY <1>5, <3>2
      <4> HIDE DEF pcb2
      <4>2. QED  BY <1>1, <2>5, <3>2, <4>1
    <3>3. QED  BY <3>1, <3>2
  <2> HIDE DEF pcb2, last
  <2>7. /\ pcb3.threads = pcb2.threads /\ pcb3.live = pcb2.live /\ pcb3.toClean = pcb2.toClean
        /\ pcb3.state = IF last THEN "kTerminated" ELSE pcb0.state
        /\ pcb3 \in [state : ProcessState, live : Nat, toClean : Nat, threads : Seq(ThreadSlot)]
    BY <2>6 DEF ProcessState
  <2> HIDE DEF pcb3
  <2>8. process' = [process EXCEPT ![p] = pcb3]
    BY <1>4 DEF pcb1, pcb2, pcb3
  <2>9. QED  BY <1>1, <2>2, <2>4, <2>6, <2>7, <2>8
<1> HIDE DEF last
<1>8. TypeOK' /\ AssertionsHold'
  <2>1. threadsToClean' \in Seq(ThreadSlot) /\ processesToClean' \in Seq(ProcessSlot)
    BY <1>1, <1>4 DEF TypeOK
  <2>2. resume' \in [ThreadSlot -> Resume]
    BY <1>1, <1>4, RunAt DEF TypeOK
  <2>3. QED  BY <1>1, <1>4, <1>6, <1>7, <2>1, <2>2 DEF TypeOK, AssertionsHold, Panics
<1>9. \A t \in ThreadSlot \ {c} :
        /\ IF sched.state[t] \in Live THEN sched'.state[t] \in Live
           ELSE sched'.state[t] = sched.state[t]
        /\ sched.state[t] \in Runnable => sched'.state[t] \in Runnable
  BY <1>2, <1>6 DEF Frame
<1>10. Books'
  <2>1. sched'.wq[c] = <<>> /\ \A t \in ThreadSlot : sched'.wq[t] # <<>> => sched.wq[t] # <<>>
    BY <1>2, <1>6 DEF SchedulerState, WaitQueue
  <2>2. threadsToClean' = IF g THEN <<c>> \o threadsToClean ELSE threadsToClean
    BY <1>4, <1>5
  <2>3. pcb.state # "kFree"
    BY <1>7
  <2>4. \A t \in ThreadSlot \ {c} : IF sched.state[t] \in Live THEN sched'.state[t] \in Live
                                    ELSE sched'.state[t] = sched.state[t]
    BY <1>9
  <2>5. TypeOK /\ Books /\ Alive(c) /\ p \in ProcessSlot /\ thread' = thread
    BY <1>1, <1>4
  <2>6. sched'.state[c] = IF g THEN "kTerminated" ELSE "kWaitingForJoin"
    BY <1>6
  <2>7. QED  BY <1>7, <2>1, <2>2, <2>3, <2>4, <2>5, <2>6, BooksEnd
<1>11. ASSUME NEW t \in ThreadSlot, t # c PROVE Place(t)'
  <2>1. Place(t) /\ thread[t].owner \in ProcessSlot
    BY <1>1 DEF Places, TypeOK
  <2>2. NothingFreed
    BY <1>6, <1>7, <1>9 DEF NothingFreed, Live
  <2>3. Alive(t)' <=> Alive(t)
    BY <1>9, <1>11 DEF Alive, Live
  <2>4. last /\ Alive(t) => thread[t].owner # p
    <3>1. last => Unended(p) = {c}
      BY <1>1, CountedOnce DEF last
    <3>2. QED  BY <1>11, <3>1 DEF Unended
  <2>5. Alive(t) => (Ended(process'[thread[t].owner].state) <=> Ended(process[thread[t].owner].state))
    BY <1>1, <1>7, <1>11, <2>1, <2>4
  <2>6. resume'[t] = resume[t]
    BY <1>1, <1>4, <1>11 DEF TypeOK
  <2>7. QED  BY <1>1, <1>4, <1>9, <1>11, <2>1, <2>2, <2>3, <2>5, <2>6, PlaceKept
<1>12. Place(c)'
  <2>1. resume'[c].at = "Run"
    BY <1>1, <1>4, RunAt DEF TypeOK
  <2>2. ~Alive(c)'
    BY <1>6 DEF Alive, Live
  <2>3. QED  BY <2>1, <2>2 DEF Place
<1>13. QED  BY <1>6, <1>8, <1>10, <1>11, <1>12, InvMeaningPrime DEF Places, SchedulerConsistent

\* No scheduler call at all.
LEMMA FrameReflexive ==
  ASSUME NEW s
  PROVE  Frame(s, s, {})
BY DEF Frame

\* SysThreadExit.
LEMMA ThreadExitInv ==
  ASSUME IInv, ThreadExit
  PROVE  IInv'
<1>1. PICK c \in ThreadSlot : /\ c = Current /\ panic = "none" /\ Current # NoThread /\ c \notin Workers
                              /\ Owner \in ProcessSlot /\ process[Owner].state = "kReady"
  BY CallerFacts, CurrentFacts DEF ThreadExit
<1>2. /\ sched \in SchedulerState /\ Consistent(sched) /\ sched.current = c
      /\ processesToClean \in Seq(ProcessSlot)
      /\ process[Owner] \in [state : ProcessState, live : Nat, toClean : Nat, threads : Seq(ThreadSlot)]
  BY <1>1 DEF IInv, TypeOK, SchedulerConsistent, Current
<1>3. QED  BY <1>1, <1>2, FrameReflexive, EndThreadInv DEF ThreadExit

\* ExitProcess and CommitSuicide find no other thread of the process.
LEMMA NobodyElse ==
  ASSUME IInv, panic = "none", Current # NoThread, OnlyThread
  PROVE  \A t \in ThreadSlot : Alive(t) /\ thread[t].owner = Owner => t = Current
<1>1. Owner \in ProcessSlot /\ Range(process[Owner].threads) = {Current}
  <2>1. Range(<<Current>>) = {Current}
    BY DEF Range
  <2>2. QED  BY <2>1, CurrentFacts DEF OnlyThread
<1>2. QED  BY <1>1 DEF IInv, ListConsistent

\* SysExit.
LEMMA ExitProcessInv ==
  ASSUME IInv, ExitProcess
  PROVE  IInv'
<1>1. PICK c \in ThreadSlot : /\ c = Current /\ panic = "none" /\ Current # NoThread /\ c \notin Workers
                              /\ Owner \in ProcessSlot
  BY CallerFacts, CurrentFacts DEF ExitProcess
<1>2. CASE ~OnlyThread
  BY <1>2, FailInv DEF ExitProcess, Panics
<1>3. CASE OnlyThread
  <2> DEFINE s0 == ReleaseAll(sched, Owner)
             pcb0 == [process[Owner] EXCEPT !.state = "kWaitingForJoin"]
  <2>1. /\ sched \in SchedulerState /\ Consistent(sched) /\ sched.current = c
        /\ processesToClean \in Seq(ProcessSlot) /\ Owner \in WaitQueue /\ Owner \notin ThreadSlot
        /\ process[Owner] \in [state : ProcessState, live : Nat, toClean : Nat,
                               threads : Seq(ThreadSlot)]
    BY <1>1, BootFacts DEF IInv, TypeOK, SchedulerConsistent, Current, WaitQueue
  <2>2. /\ s0 \in SchedulerState /\ Consistent(s0) /\ s0.current = c /\ Frame(sched, s0, {})
        /\ s0.wq = [sched.wq EXCEPT ![Owner] = <<>>]
    BY <2>1, ReleaseAllConsistent
  <2>3. /\ pcb0 \in [state : ProcessState, live : Nat, toClean : Nat, threads : Seq(ThreadSlot)]
        /\ pcb0.live = process[Owner].live /\ pcb0.toClean = process[Owner].toClean
        /\ pcb0.threads = process[Owner].threads /\ pcb0.state = "kWaitingForJoin"
    BY <2>1 DEF ProcessState
  <2>4. EndThread(s0, pcb0, processesToClean)
    BY <1>3 DEF ExitProcess
  <2> HIDE DEF s0, pcb0
  <2>5. \A t \in ThreadSlot : s0.wq[t] = sched.wq[t]
    BY <2>1, <2>2 DEF SchedulerState, WaitQueue
  <2>6. \A t \in ThreadSlot \ {c} : ~(Alive(t) /\ thread[t].owner = Owner)
    BY <1>1, <1>3, NobodyElse
  <2>7. QED  BY <1>1, <2>1, <2>2, <2>3, <2>4, <2>5, <2>6, EndThreadInv
<1>4. QED  BY <1>2, <1>3

\* CommitSuicide hands the core to a joiner, or ends the thread.
LEMMA SuicideRoundInv ==
  ASSUME IInv, panic = "none", Current # NoThread, NEW c \in ThreadSlot, c = Current, c \notin Workers,
         NEW pcb \in [state : ProcessState, live : Nat, toClean : Nat, threads : Seq(ThreadSlot)],
         pcb.live = process[Owner].live, pcb.toClean = process[Owner].toClean,
         pcb.threads = process[Owner].threads, Ended(pcb.state),
         \A t \in ThreadSlot \ {c} : Alive(t) /\ thread[t].owner = Owner => Ended(process[Owner].state),
         SuicideRound(pcb)
  PROVE  IInv'
<1>1. /\ sched \in SchedulerState /\ Consistent(sched) /\ sched.current = c /\ Alive(c)
      /\ processesToClean \in Seq(ProcessSlot) /\ Owner \in ProcessSlot /\ Owner \in WaitQueue
      /\ Owner = thread[c].owner /\ process[Owner].state # "kFree"
  BY CurrentFacts DEF IInv, TypeOK, SchedulerConsistent, Current, WaitQueue, Owner
<1> DEFINE p == thread[c].owner
<1>2. CASE sched.wq[Owner] # <<>>
  <2> DEFINE r == [at |-> "CommitSuicide", of |-> p]
  <2>1. /\ process' = [process EXCEPT ![p] = pcb] /\ resume' = [resume EXCEPT ![c] = r]
        /\ UNCHANGED <<thread, threadsToClean, processesToClean, panic>>
        /\ \E w \in DueSleepers(sched) : sched' = ReleaseAndRunFirst(sched, w, p)
    BY <1>1, <1>2 DEF SuicideRound
  <2>2. /\ sched' \in SchedulerState /\ Consistent(sched') /\ Frame(sched, sched', {})
        /\ \A q \in WaitQueue : sched'.wq[q] # <<>> => sched.wq[q] # <<>>
    BY <1>1, <1>2, <2>1, ReleaseFirstConsistent
  <2>3. r \in Resume /\ r.at = "CommitSuicide"
    BY <1>1 DEF Resume
  <2>4. \A q \in ProcessSlot : process'[q] = IF q = p THEN pcb ELSE process[q]
    BY <2>1 DEF IInv, TypeOK
  <2>5. TypeOK' /\ AssertionsHold'
    <3>1. process' \in [ProcessSlot -> [state : ProcessState, live : Nat, toClean : Nat,
                                        threads : Seq(ThreadSlot)]]
      BY <2>1 DEF IInv, TypeOK
    <3>2. resume' \in [ThreadSlot -> Resume] /\ resume'[c] = r
      BY <2>1, <2>3 DEF IInv, TypeOK
    <3>3. QED  BY <2>1, <2>2, <3>1, <3>2 DEF IInv, TypeOK, AssertionsHold
  <2>6. Place(c)'
    <3>1. Alive(c)' /\ resume'[c].at = "CommitSuicide"
      BY <1>1, <2>1, <2>2, <2>3 DEF Frame, Alive, IInv, TypeOK
    <3>2. Ended(process'[thread'[c].owner].state)
      BY <1>1, <2>1, <2>4
    <3>3. QED  BY <3>1, <3>2 DEF Place
  <2>7. \A t \in ThreadSlot \ {c} :
          /\ sched.state[t] \in Runnable => sched'.state[t] \in Runnable
          /\ Alive(t) => (Ended(process'[thread[t].owner].state)
                             <=> Ended(process[thread[t].owner].state))
    <3>1. \A t \in ThreadSlot : thread[t].owner \in ProcessSlot
      BY DEF IInv, TypeOK
    <3>2. QED  BY <1>1, <2>2, <2>4, <3>1, FrameLife
  <2>8. \A t \in ThreadSlot : sched'.wq[t] # <<>> => Alive(t)
    BY <2>2 DEF IInv, JoinersWaitOnLiving, WaitQueue
  <2>9. \A q \in ProcessSlot : /\ process'[q].threads = process[q].threads
                               /\ process'[q].live = process[q].live
                               /\ process'[q].toClean = process[q].toClean
                               /\ process[q].state # "kFree" => process'[q].state # "kFree"
    BY <1>1, <2>4 DEF Ended
  <2>10. SameLife(sched, sched')
    BY <2>2, FrameLife
  <2> HIDE DEF r
  <2>11. QED  BY <2>1, <2>2, <2>5, <2>6, <2>7, <2>8, <2>9, <2>10, OneStepInv
<1>3. CASE sched.wq[Owner] = <<>>
  <2> DEFINE pcb0 == [pcb EXCEPT !.state = "kTerminated"]
             toClean0 == IF pcb.state = "kTerminated" THEN processesToClean
                         ELSE <<Owner>> \o processesToClean
  <2>1. EndThread(sched, pcb0, toClean0)
    BY <1>3 DEF SuicideRound
  <2>2. /\ pcb0 \in [state : ProcessState, live : Nat, toClean : Nat, threads : Seq(ThreadSlot)]
        /\ pcb0.live = process[Owner].live /\ pcb0.toClean = process[Owner].toClean
        /\ pcb0.threads = process[Owner].threads /\ pcb0.state = "kTerminated"
    BY DEF ProcessState
  <2>3. toClean0 \in Seq(ProcessSlot)
    BY <1>1
  <2>4. Ended(pcb0.state)
    BY <2>2 DEF Ended
  <2> HIDE DEF pcb0, toClean0
  <2>5. \A t \in ThreadSlot \ {c} : Alive(t) /\ thread[t].owner = Owner =>
            (Ended(pcb0.state) <=> Ended(process[Owner].state))
    BY <2>4
  <2>6. pcb0.state # "kFree"
    BY <2>2
  <2>7. QED  BY <1>1, <2>1, <2>2, <2>3, <2>5, <2>6, FrameReflexive, EndThreadInv
<1>4. QED  BY <1>2, <1>3

\* CommitSuicide up to its first context switch.
LEMMA CommitSuicideInv ==
  ASSUME IInv, CommitSuicide
  PROVE  IInv'
<1>1. PICK c \in ThreadSlot : /\ c = Current /\ panic = "none" /\ Current # NoThread
                              /\ Owner \in ProcessSlot
  BY CurrentFacts DEF CommitSuicide, Syscall, At
<1>2. c \notin Workers
  BY <1>1, BootFacts DEF CommitSuicide, Syscall, At, IInv, WorkersRunnable, Owner
<1>3. CASE ~OnlyThread
  BY <1>3, FailInv DEF CommitSuicide, Panics
<1>4. CASE OnlyThread
  <2> DEFINE pcb == [process[Owner] EXCEPT !.state = "kWaitingForJoin"]
  <2>1. process[Owner] \in [state : ProcessState, live : Nat, toClean : Nat, threads : Seq(ThreadSlot)]
    BY <1>1 DEF IInv, TypeOK
  <2>2. /\ pcb \in [state : ProcessState, live : Nat, toClean : Nat, threads : Seq(ThreadSlot)]
        /\ pcb.live = process[Owner].live /\ pcb.toClean = process[Owner].toClean
        /\ pcb.threads = process[Owner].threads /\ Ended(pcb.state)
    BY <2>1 DEF ProcessState, Ended
  <2>3. SuicideRound(pcb)
    BY <1>4 DEF CommitSuicide
  <2> HIDE DEF pcb
  <2>4. \A t \in ThreadSlot \ {c} : Alive(t) /\ thread[t].owner = Owner => Ended(process[Owner].state)
    BY <1>1, <1>4, NobodyElse
  <2>5. QED  BY <1>1, <1>2, <2>2, <2>3, <2>4, SuicideRoundInv
<1>5. QED  BY <1>3, <1>4

\* The rest of CommitSuicide, round by round.
LEMMA CommitSuicideResumedInv ==
  ASSUME IInv, CommitSuicideResumed
  PROVE  IInv'
<1>1. PICK c \in ThreadSlot : /\ c = Current /\ panic = "none" /\ Current # NoThread /\ Alive(c)
                              /\ Owner \in ProcessSlot /\ resume[c].at = "CommitSuicide"
  BY CurrentFacts DEF CommitSuicideResumed, At
<1>2. c \notin Workers /\ Ended(process[Owner].state)
  BY <1>1 DEF IInv, WorkersRunnable, EndedProcessQuiet, Owner
<1>3. process[Owner] \in [state : ProcessState, live : Nat, toClean : Nat, threads : Seq(ThreadSlot)]
  BY <1>1 DEF IInv, TypeOK
<1>4. QED  BY <1>1, <1>2, <1>3, SuicideRoundInv DEF CommitSuicideResumed

\* CommitMurder(Tid) of a thread that is in one of the scheduler's queues.
LEMMA MurderThreadInv ==
  ASSUME IInv, MurderThread
  PROVE  IInv'
<1>1. PICK c \in ThreadSlot : /\ c = Current /\ panic = "none" /\ Current # NoThread
                              /\ resume[c].at = "CommitMurder" /\ Victim = resume[c].of
  BY CurrentFacts DEF MurderThread, At, Victim
<1>2. PICK p \in ProcessSlot : p = Victim /\ process[p].state # "kFree" /\ p # thread[c].owner
                               /\ p \notin KernelProcess
  BY <1>1 DEF MurderThread, IInv, PointersKept
<1>3. TypeOK /\ Books /\ Places /\ sched \in SchedulerState /\ Consistent(sched)
      /\ IsList(process[p].threads, ThreadSlot) /\ process[p].threads # <<>>
  BY <1>2, InvMeaning DEF TypeOK, SchedulerConsistent, Books, ListConsistent, IsList, MurderThread
<1>4. PICK t \in ThreadSlot : t = Head(process[p].threads)
  BY <1>3, ListTail
<1>5. /\ IsList(Tail(process[p].threads), ThreadSlot)
      /\ Range(Tail(process[p].threads)) = Range(process[p].threads) \ {t}
      /\ t \in Range(process[p].threads)
  BY <1>3, <1>4, ListTail
<1>6. Alive(t) /\ thread[t].owner = p /\ t # c /\ t \notin Workers
  BY <1>2, <1>3, <1>5, BootFacts DEF Books, ListConsistent, Places, Place
<1>7. Removable(sched, t)
  BY <1>1, <1>3, <1>6 DEF Alive, Live, Removable, Consistent, RunConsistent, Current
<1>8. CASE sched.wq[t] # <<>>
  <2>1. Fail("JoinThread")
    BY <1>2, <1>4, <1>7, <1>8 DEF MurderThread
  <2>2. QED  BY <2>1, FailInv DEF Panics
<1>9. CASE sched.wq[t] = <<>>
  <2> DEFINE pcb == CountTerminated([process[p] EXCEPT !.threads = Tail(@)])
  <2>1. /\ sched' = [RemoveThread(sched, t) EXCEPT !.state[t] = "kTerminated"]
        /\ threadsToClean' = <<t>> \o threadsToClean
        /\ process' = [process EXCEPT ![p] = pcb]
        /\ resume' = [resume EXCEPT ![t] = Run]
        /\ UNCHANGED <<thread, processesToClean, panic>>
    <3>1. process' = [process EXCEPT ![Victim] = CountTerminated([process[Victim] EXCEPT !.threads = Tail(@)])]
      BY <1>2, <1>4, <1>7, <1>9, Zenon DEF MurderThread
    <3>2. process' = [process EXCEPT ![p] = pcb]
      BY <1>2, <3>1
    <3>3. /\ HandToThreadRipper(RemoveThread(sched, t), t) /\ resume' = [resume EXCEPT ![t] = Run]
          /\ UNCHANGED <<thread, processesToClean, panic>>
      BY <1>2, <1>4, <1>7, <1>9 DEF MurderThread
    <3>4. QED  BY <3>2, <3>3 DEF HandToThreadRipper
  <2>2. /\ sched' \in SchedulerState /\ Consistent(sched')
        /\ \A q \in WaitQueue : sched'.wq[q] # <<>> => sched.wq[q] # <<>>
        /\ sched'.state = [sched.state EXCEPT ![t] = "kTerminated"]
    BY <1>3, <1>7, <2>1, RemoveThreadConsistent
  <2>3. /\ pcb.threads = Tail(process[p].threads) /\ pcb.live = process[p].live - 1
        /\ pcb.toClean = process[p].toClean + 1 /\ pcb.state = process[p].state
        /\ pcb \in [state : ProcessState, live : Nat, toClean : Nat, threads : Seq(ThreadSlot)]
    <3>1. process[p].live - 1 \in Nat /\ process[p].toClean + 1 \in Nat
      BY <1>3, <1>6, CountedOnce DEF TypeOK
    <3>2. Tail(process[p].threads) \in Seq(ThreadSlot)
      BY <1>5 DEF IsList
    <3>3. process[p] \in [state : ProcessState, live : Nat, toClean : Nat, threads : Seq(ThreadSlot)]
      BY <1>3 DEF TypeOK
    <3> DEFINE pcb1 == [process[p] EXCEPT !.threads = Tail(@)]
    <3>4. /\ pcb1.threads = Tail(process[p].threads) /\ pcb1.live = process[p].live
          /\ pcb1.toClean = process[p].toClean /\ pcb1.state = process[p].state
          /\ pcb1 \in [state : ProcessState, live : Nat, toClean : Nat, threads : Seq(ThreadSlot)]
      BY <3>2, <3>3
    <3>5. pcb = CountTerminated(pcb1)
      OBVIOUS
    <3> HIDE DEF pcb1, pcb
    <3>6. QED  BY <3>1, <3>4, <3>5 DEF CountTerminated
  <2> HIDE DEF pcb
  <2>4. /\ \A q \in ProcessSlot : process'[q] = IF q = p THEN pcb ELSE process[q]
        /\ \A u \in ThreadSlot : resume'[u] = IF u = t THEN Run ELSE resume[u]
        /\ \A u \in ThreadSlot : sched'.state[u] = IF u = t THEN "kTerminated" ELSE sched.state[u]
        /\ \A u \in ThreadSlot : thread[u].owner \in ProcessSlot
    BY <1>3, <2>1, <2>2 DEF TypeOK, SchedulerState
  <2>5. TypeOK' /\ AssertionsHold'
    <3>1. process' \in [ProcessSlot -> [state : ProcessState, live : Nat, toClean : Nat,
                                        threads : Seq(ThreadSlot)]]
      BY <1>3, <2>1, <2>3 DEF TypeOK
    <3>2. threadsToClean' \in Seq(ThreadSlot) /\ resume' \in [ThreadSlot -> Resume]
      BY <1>3, <2>1, RunAt DEF TypeOK
    <3>3. QED  BY <1>1, <1>3, <2>1, <2>2, <3>1, <3>2 DEF TypeOK, AssertionsHold
  <2>6. Books'
    <3>1. /\ sched'.wq[t] = <<>> /\ \A u \in ThreadSlot : sched'.wq[u] # <<>> => sched.wq[u] # <<>>
      BY <1>9, <2>2 DEF WaitQueue
    <3>2. /\ IsList(process'[p].threads, ThreadSlot)
          /\ Range(process'[p].threads) = Range(process[p].threads) \ {t}
          /\ process'[p].state # "kFree"
          /\ \A q \in ProcessSlot \ {p} : process'[q] = process[q]
      BY <1>2, <1>5, <2>3, <2>4
    <3>3. \A u \in ThreadSlot \ {t} : IF sched.state[u] \in Live THEN sched'.state[u] \in Live
                                      ELSE sched'.state[u] = sched.state[u]
      BY <2>4
    <3> DEFINE gone == TRUE
    <3>4. /\ gone \in BOOLEAN
          /\ sched'.state[t] = IF gone THEN "kTerminated" ELSE "kWaitingForJoin"
          /\ process'[p].live = process[p].live - (IF gone THEN 1 ELSE 0)
          /\ process'[p].toClean = process[p].toClean + (IF gone THEN 1 ELSE 0)
          /\ threadsToClean' = IF gone THEN <<t>> \o threadsToClean ELSE threadsToClean
      BY <2>1, <2>3, <2>4
    <3> HIDE DEF gone
    <3>5. thread' = thread
      BY <2>1
    <3>6. QED  BY <1>3, <1>6, <3>1, <3>2, <3>3, <3>4, <3>5, BooksEnd
  <2>7. ASSUME NEW u \in ThreadSlot, u # t PROVE Place(u)'
    <3>1. Place(u)
      BY <1>3 DEF Places
    <3>2. NothingFreed
      BY <2>3, <2>4 DEF NothingFreed
    <3>3. Alive(u)' <=> Alive(u)
      BY <2>4, <2>7 DEF Alive
    <3>4. Ended(process'[thread[u].owner].state) <=> Ended(process[thread[u].owner].state)
      BY <2>3, <2>4
    <3>5. sched.state[u] \in Runnable => sched'.state[u] \in Runnable
      BY <2>4, <2>7
    <3>6. QED  BY <1>3, <2>1, <2>4, <2>7, <3>1, <3>2, <3>3, <3>4, <3>5, PlaceKept
  <2>8. Place(t)'
    <3>1. resume'[t].at = "Run" /\ ~Alive(t)'
      BY <2>4, RunAt DEF Alive, Live
    <3>2. QED  BY <1>6, <3>1 DEF Place
  <2>9. QED  BY <2>2, <2>5, <2>6, <2>7, <2>8, InvMeaningPrime DEF Places, SchedulerConsistent
<1>10. QED  BY <1>8, <1>9

\* ThreadRipperClean_ frees the thread on top of its stack.
LEMMA ThreadRipperCleanInv ==
  ASSUME IInv, ThreadRipperClean
  PROVE  IInv'
<1>1. TypeOK /\ Books /\ Places /\ sched \in SchedulerState /\ Consistent(sched) /\ panic = "none"
      /\ IsList(threadsToClean, ThreadSlot) /\ threadsToClean # <<>>
  BY InvMeaning DEF TypeOK, SchedulerConsistent, Books, CleanOnce, IsList, ThreadRipperClean, Worker, At
<1>2. PICK t \in ThreadSlot : t = Head(threadsToClean)
  BY <1>1, ListTail
<1>3. sched.state[t] = "kTerminated" /\ ~Alive(t) /\ sched.wq[t] = <<>>
  <2>1. t \in Range(threadsToClean)
    BY <1>1, <1>2, ListTail
  <2>2. sched.state[t] = "kTerminated"
    BY <1>1, <2>1 DEF Books, CleanOnce
  <2>3. QED  BY <1>1, <2>2 DEF Books, JoinersWaitOnLiving, Alive, Live
<1>4. PICK p \in ProcessSlot : p = thread[t].owner /\ process[p].state # "kFree"
  BY <1>1, <1>3 DEF TypeOK, Books, OwnerExists
<1>5. /\ sched' = [sched EXCEPT !.state[t] = "kFree"]
      /\ process' = [process EXCEPT ![p].toClean = @ - 1]
      /\ threadsToClean' = Tail(threadsToClean)
      /\ resume' = Dangle(t)
      /\ thread' = [thread EXCEPT ![t] = Undetached(BootOwner[t])]
      /\ UNCHANGED <<processesToClean, panic>>
  BY <1>2, <1>3, <1>4 DEF ThreadRipperClean
<1>6. sched' \in SchedulerState /\ Consistent(sched')
  BY <1>1, <1>3, <1>5, MarkConsistent DEF ThreadState, Live
<1>7. process[p].toClean - 1 \in Nat
  <2>1. t \in Uncleaned(p) /\ Uncleaned(p) \in SUBSET ThreadSlot
    BY <1>3, <1>4 DEF Uncleaned
  <2>2. process[p].toClean = Cardinality(Uncleaned(p))
    BY <1>1 DEF Books, Accounting, Uncleaned
  <2>3. Cardinality(Uncleaned(p)) \in Nat /\ Cardinality(Uncleaned(p)) >= 1
    BY <2>1, CountDown
  <2>4. QED  BY <2>2, <2>3
<1>8. /\ \A u \in ThreadSlot : sched'.state[u] = IF u = t THEN "kFree" ELSE sched.state[u]
      /\ \A u \in ThreadSlot \ {t} : thread'[u] = thread[u]
      /\ \A q \in ProcessSlot : process'[q].state = process[q].state
      /\ \A u \in ThreadSlot : /\ resume'[u].at = resume[u].at
                               /\ resume'[u].of = IF resume[u].of = t THEN NoThread ELSE resume[u].of
      /\ \A u \in ThreadSlot : thread[u].owner \in ProcessSlot
  BY <1>1, <1>5 DEF TypeOK, SchedulerState, Dangle, Resume
<1>9. TypeOK' /\ AssertionsHold'
  <2>1. process' \in [ProcessSlot -> [state : ProcessState, live : Nat, toClean : Nat,
                                      threads : Seq(ThreadSlot)]]
    BY <1>1, <1>5, <1>7 DEF TypeOK
  <2>2. threadsToClean' \in Seq(ThreadSlot)
    BY <1>1, <1>5, ListTail DEF IsList
  <2>3. thread' \in [ThreadSlot -> [owner : ProcessSlot, detached : BOOLEAN]]
    BY <1>1, <1>5, BootAssumption DEF TypeOK, Undetached
  <2>4. resume' \in [ThreadSlot -> Resume]
    BY <1>1, <1>5 DEF TypeOK, Dangle, Resume
  <2>5. QED  BY <1>1, <1>5, <1>6, <2>1, <2>2, <2>3, <2>4 DEF TypeOK, AssertionsHold
<1>10. Books'
  BY <1>1, <1>2, <1>4, <1>5, BooksFree
<1>11. ASSUME NEW u \in ThreadSlot PROVE Place(u)'
  <2>1. Place(u)
    BY <1>1 DEF Places
  <2>2. CASE u = t
    <3>1. u \notin Workers /\ resume'[u].at \in {"Run", "Elf64EntryPoint"} /\ ~Alive(u)'
      BY <1>3, <1>8, <2>1, <2>2 DEF Place, Runnable, Alive, Live
    <3>2. QED  BY <3>1 DEF Place
  <2>3. CASE u # t
    <3>1. /\ sched'.state[u] = sched.state[u] /\ thread'[u] = thread[u]
          /\ process'[thread[u].owner].state = process[thread[u].owner].state
      BY <1>8, <2>3
    <3>2. /\ resume'[u].at = resume[u].at
          /\ resume'[u].of # NoThread => resume'[u].of = resume[u].of /\ resume[u].of # t
          /\ resume'[u].of = NoThread => resume[u].of \in {t, NoThread}
      BY <1>8
    <3>3. QED  BY <1>8, <2>1, <3>1, <3>2, BootFacts DEF Place, Alive
  <2>4. QED  BY <2>2, <2>3
<1>12. QED  BY <1>6, <1>9, <1>10, <1>11, InvMeaningPrime DEF Places, SchedulerConsistent

\* A process without threads to end or to clean has no thread.
LEMMA ProcessDrained ==
  ASSUME IInv, NEW p \in ProcessSlot, process[p].live = 0, process[p].toClean = 0
  PROVE  /\ \A t \in ThreadSlot : sched.state[t] # "kFree" => thread[t].owner # p
         /\ process[p].threads = <<>>
<1>1. Unended(p) = {} /\ Uncleaned(p) = {}
  <2>1. process[p].live = Cardinality(Unended(p)) /\ process[p].toClean = Cardinality(Uncleaned(p))
    BY DEF IInv, Accounting, Unended, Uncleaned
  <2>2. Unended(p) \in SUBSET ThreadSlot /\ Uncleaned(p) \in SUBSET ThreadSlot
    BY DEF Unended, Uncleaned
  <2>3. QED  BY <2>1, <2>2, CountNone
<1>2. \A t \in ThreadSlot : sched.state[t] # "kFree" => thread[t].owner # p
  BY <1>1 DEF IInv, TypeOK, SchedulerState, ThreadState, Unended, Uncleaned, Alive, Live
<1>3. Range(process[p].threads) = {}
  BY <1>2 DEF IInv, ListConsistent, Alive, Live
<1>4. process[p].threads = <<>>
  <2>1. process[p].threads \in Seq(ThreadSlot)
    BY DEF IInv, TypeOK
  <2>2. process[p].threads # <<>> => Head(process[p].threads) \in Range(process[p].threads)
    BY <2>1, ListTail DEF IInv, ListConsistent, IsList
  <2>3. QED  BY <1>3, <2>2
<1>5. QED  BY <1>2, <1>4

\* ProcessRipperClean_ frees a process that has no thread left.
LEMMA ProcessRipperCleanInv ==
  ASSUME IInv, ProcessRipperClean
  PROVE  IInv'
<1>1. PICK c \in ThreadSlot : /\ c = Current /\ panic = "none" /\ Current # NoThread /\ Alive(c)
                              /\ resume[c].at = "ProcessRipperClean" /\ Victim = resume[c].of
  BY CurrentFacts DEF ProcessRipperClean, At, Victim
<1>2. PICK p \in ProcessSlot : p = Victim /\ c = ProcessRipper
  BY <1>1 DEF IInv, PointersKept
<1>3. CASE sched.wq[p] # <<>>
  <2>1. Fail("ProcessFree")
    BY <1>2, <1>3 DEF ProcessRipperClean
  <2>2. QED  BY <2>1, FailInv DEF Panics
<1>4. CASE sched.wq[p] = <<>>
  <2>1. /\ process[p].live = 0 /\ process[p].toClean = 0
        /\ process' = [process EXCEPT ![p] = EmptyProcess]
        /\ resume' = [Dangle(p) EXCEPT ![c] = Run]
        /\ UNCHANGED <<sched, thread, threadsToClean, processesToClean, panic>>
    BY <1>1, <1>2, <1>4 DEF ProcessRipperClean
  <2>2. /\ \A t \in ThreadSlot : sched.state[t] # "kFree" => thread[t].owner # p
        /\ process[p].threads = <<>>
    BY <2>1, ProcessDrained
  <2>3. TypeOK /\ Books /\ Places /\ Consistent(sched)
    BY InvMeaning DEF SchedulerConsistent
  <2>4. /\ \A q \in ProcessSlot : process'[q] = IF q = p THEN EmptyProcess ELSE process[q]
        /\ \A u \in ThreadSlot \ {c} :
              /\ resume'[u].at = resume[u].at
              /\ resume'[u].of = IF resume[u].of = p THEN NoThread ELSE resume[u].of
        /\ resume'[c] = Run
        /\ \A u \in ThreadSlot : thread[u].owner \in ProcessSlot
    BY <2>1, <2>3 DEF TypeOK, Dangle, Resume
  <2>5. TypeOK' /\ AssertionsHold'
    <3>1. EmptyProcess \in [state : ProcessState, live : Nat, toClean : Nat, threads : Seq(ThreadSlot)]
      BY EmptyList DEF EmptyProcess, ProcessState, IsList
    <3>2. process' \in [ProcessSlot -> [state : ProcessState, live : Nat, toClean : Nat,
                                        threads : Seq(ThreadSlot)]]
      BY <2>1, <2>3, <3>1 DEF TypeOK
    <3>3. resume' \in [ThreadSlot -> Resume]
      <4>1. Dangle(p) \in [ThreadSlot -> Resume]
        BY <2>3 DEF TypeOK, Dangle, Resume
      <4>2. QED  BY <2>1, <4>1, RunAt
    <3>4. QED  BY <2>1, <2>3, <3>2, <3>3 DEF TypeOK, AssertionsHold, IInv
  <2>6. Books'
    <3>1. SameLife(sched, sched')
      BY <2>1 DEF SameLife
    <3>2. \A q \in ProcessSlot : /\ process'[q].threads = process[q].threads
                                 /\ process'[q].live = process[q].live
                                 /\ process'[q].toClean = process[q].toClean
      BY <2>1, <2>2, <2>4 DEF EmptyProcess
    <3>3. \A t \in ThreadSlot : sched.state[t] # "kFree" => process'[thread[t].owner].state # "kFree"
      BY <2>2, <2>3, <2>4 DEF Books, OwnerExists
    <3>4. \A t \in ThreadSlot : sched'.wq[t] # <<>> => Alive(t)
      BY <2>1, <2>3 DEF Books, JoinersWaitOnLiving
    <3>5. \A t \in ThreadSlot : thread'[t].owner = thread[t].owner
      BY <2>1
    <3>6. threadsToClean' = threadsToClean
      BY <2>1
    <3>7. QED  BY <2>3, <3>1, <3>2, <3>3, <3>4, <3>5, <3>6, BooksKept
  <2>7. ASSUME NEW u \in ThreadSlot PROVE Place(u)'
    <3>1. Place(u)
      BY <2>3 DEF Places
    <3>2. sched'.state[u] = sched.state[u] /\ thread'[u].owner = thread[u].owner
      BY <2>1
    <3>3. Alive(u) => process'[thread[u].owner].state = process[thread[u].owner].state
      BY <2>2, <2>4 DEF Alive, Live
    <3>4. CASE u = c
      <4>1. resume'[u].at = "Run" /\ ~Ended(process[thread[u].owner].state)
        BY <1>1, <2>4, <3>1, <3>4, RunAt DEF Place
      <4>2. QED  BY <1>1, <3>1, <3>2, <3>3, <3>4, <4>1 DEF Place, Alive
    <3>5. CASE u # c
      <4>1. resume[u].at # "ProcessRipperClean"
        BY <1>2, <3>1, <3>5 DEF Place
      <4>2. /\ resume'[u].at = resume[u].at
            /\ resume'[u].of # NoThread => resume'[u].of = resume[u].of /\ resume[u].of # p
            /\ resume'[u].of = NoThread => resume[u].of \in {p, NoThread}
        BY <2>4, <3>5
      <4>3. \A q \in ProcessSlot : q # p => process'[q] = process[q]
        BY <2>4
      <4>4. sched' = sched
        BY <2>1
      <4>5. thread[u].owner # NoThread /\ NoThread \notin KernelProcess
        BY <2>4, BootFacts
      <4>6. resume'[u].at = "CommitMurder" =>
               resume'[u].of # thread'[u].owner /\ resume'[u].of \notin KernelProcess
        BY <3>1, <3>2, <4>2, <4>5 DEF Place
      <4>7. resume'[u].at \in {"JoinProcess", "CommitMurder"} /\ resume'[u].of # NoThread =>
               resume'[u].of \in ProcessSlot /\ process'[resume'[u].of].state # "kFree"
        BY <3>1, <4>2, <4>3 DEF Place
      <4>8. resume'[u].at = "JoinThread" /\ resume'[u].of # NoThread =>
               resume'[u].of \in ThreadSlot /\ sched'.state[resume'[u].of] # "kFree"
        BY <3>1, <4>2, <4>4 DEF Place
      <4>9. QED  BY <3>1, <3>2, <3>3, <4>1, <4>2, <4>6, <4>7, <4>8 DEF Place, Alive
    <3>6. QED  BY <3>4, <3>5
  <2>8. QED  BY <2>1, <2>3, <2>5, <2>6, <2>7, InvMeaningPrime DEF Places, SchedulerConsistent
<1>5. QED  BY <1>3, <1>4
=============================================================================
