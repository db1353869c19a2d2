------------------------ MODULE SchedulerTimeProofs ------------------------
(***************************************************************************)
(* Proofs about SchedulerTime: for any threads, slice, sleeping times and  *)
(* calls no deadline passes while its thread sleeps, and the assertions on *)
(* deadlines hold, as long as a call of the scheduler takes less than      *)
(* kMinDelta.  In the second half, with no such condition, the scheduler   *)
(* with its clock implements Scheduler.                                    *)
(***************************************************************************)
EXTENDS SchedulerTime, FiniteSetTheorems, WellFoundedInduction, TLAPS

-----------------------------------------------------------------------------
\* The least of a set of times exists.
LEMMA LeastTime ==
  ASSUME NEW S \in SUBSET Nat, S # {}
  PROVE  Min(S) \in S /\ \A n \in S : Min(S) <= n
<1>1. PICK less : IsWellFoundedOn(less, Nat) /\ \A x, y \in Nat : <<y, x>> \in less <=> y < x
  <2>1. \A x, y \in Nat : <<y, x>> \in OpToRel(<, Nat) <=> y < x
    BY DEF OpToRel
  <2>2. QED  BY <2>1, NatLessThanWellFounded, Zenon
<1>2. PICK x \in S : \A y \in S : ~(<<y, x>> \in less)
  BY <1>1, WFMin, Zenon
<1>3. \A y \in S : ~(y < x)
  BY <1>1, <1>2, Zenon
<1>4. \A y \in S : x <= y
  BY <1>3
<1>5. QED  BY <1>4, Zenon DEF Min

\* The times from which GetPreemptTime is computed are natural numbers.
Accounts ==
    /\ user \in [Thread -> Nat] /\ kernel \in [Thread -> Nat]
    /\ since \in Nat /\ userIn \in Nat /\ inKernel \in Nat

\* The timer fires before the first deadline, or has fired.
TimerFirst ==
    /\ armed \in Nat /\ pending \in BOOLEAN
    /\ ~pending => armed > 0
    /\ left \in [DOMAIN left -> Nat] /\ DOMAIN left \subseteq Thread
    /\ \A t \in DOMAIN left : left[t] >= armed

\* The workers are there to run.
WorkersReady ==
    /\ current \in Thread /\ ready \in Seq(Thread) /\ wq \in Seq(Thread)
    /\ Workers \subseteq Range(ready) \cup {current}

TimeInv == Accounts /\ TimerFirst /\ WorkersReady /\ DeadlineAssertionsHold

-----------------------------------------------------------------------------
\* What the lists of a call hold.
LEMMA RangeConcat ==
  ASSUME NEW S, NEW a \in Seq(S), NEW b \in Seq(S)
  PROVE  a \o b \in Seq(S) /\ Range(a) \subseteq Range(a \o b)
<1>1. /\ a \o b \in Seq(S) /\ DOMAIN a = 1..Len(a) /\ DOMAIN (a \o b) = 1..(Len(a) + Len(b))
      /\ Len(a) \in Nat /\ Len(b) \in Nat
      /\ \A i \in 1..Len(a) : (a \o b)[i] = a[i]
  OBVIOUS
<1>2. QED  BY <1>1 DEF Range

LEMMA RangeAppend ==
  ASSUME NEW S, NEW a \in Seq(S), NEW x \in S
  PROVE  Append(a, x) \in Seq(S) /\ Range(a) \cup {x} \subseteq Range(Append(a, x))
<1>1. /\ Append(a, x) \in Seq(S) /\ DOMAIN a = 1..Len(a) /\ Len(a) \in Nat
      /\ DOMAIN Append(a, x) = 1..(Len(a) + 1)
      /\ \A i \in 1..Len(a) : Append(a, x)[i] = a[i]
      /\ Append(a, x)[Len(a) + 1] = x
  OBVIOUS
<1>2. Len(a) + 1 \in DOMAIN Append(a, x) /\ \A i \in 1..Len(a) : i \in DOMAIN Append(a, x)
  BY <1>1
<1>3. QED  BY <1>1, <1>2 DEF Range

LEMMA RangeTail ==
  ASSUME NEW S, NEW a \in Seq(S), a # <<>>
  PROVE  Tail(a) \in Seq(S) /\ Head(a) \in S /\ Range(a) \subseteq Range(Tail(a)) \cup {Head(a)}
<1>1. /\ Tail(a) \in Seq(S) /\ Len(a) \in Nat \ {0} /\ DOMAIN a = 1..Len(a)
      /\ DOMAIN Tail(a) = 1..(Len(a) - 1) /\ Head(a) = a[1] /\ Head(a) \in S
      /\ \A i \in 1..(Len(a) - 1) : Tail(a)[i] = a[i + 1]
  OBVIOUS
<1>2. ASSUME NEW i \in 1..Len(a), i # 1
      PROVE  i - 1 \in DOMAIN Tail(a) /\ Tail(a)[i - 1] = a[i]
  BY <1>1, <1>2
<1>3. \A i \in DOMAIN a : a[i] \in Range(Tail(a)) \cup {Head(a)}
  BY <1>1, <1>2, Zenon DEF Range
<1>4. QED  BY <1>1, <1>3 DEF Range

LEMMA DueIsList ==
  ASSUME NEW asleep, DOMAIN asleep \subseteq Thread, NEW d,
         NEW w \in InKeyOrder(Due(asleep, d), asleep)
  PROVE  w \in Seq(Thread)
<1>1. Due(asleep, d) \subseteq Thread
  BY DEF Due
<1>2. Cardinality(Due(asleep, d)) \in Nat
  BY <1>1, TimeAssumption, FS_Subset, FS_CardinalityType DEF TimeAssumption
<1>3. w \in [1..Cardinality(Due(asleep, d)) -> Due(asleep, d)]
  BY DEF InKeyOrder, Injection
<1>4. QED  BY <1>1, <1>2, <1>3

\* The sleepers that are left after WakeUpTasks are far enough away that the
\* timer can be set for the first of them.
LEMMA DeadlinesAhead ==
  ASSUME NEW lag \in 1..MaxLag, NEW d \in {0, lag},
         NEW asleep, asleep \in [DOMAIN asleep -> Nat],
         NEW preemptTime \in Nat, preemptTime > kMinDelta
  PROVE  LET asleepNow == [t \in DOMAIN asleep \ Due(asleep, d) |-> asleep[t] - lag]
             armedNow == NextTimeEvent(preemptTime, asleepNow)
         IN  /\ asleepNow \in [DOMAIN asleepNow -> Nat]
             /\ armedNow \in Nat /\ armedNow > kMinDelta
             /\ \A t \in DOMAIN asleepNow : asleepNow[t] >= armedNow
<1> DEFINE asleepNow == [t \in DOMAIN asleep \ Due(asleep, d) |-> asleep[t] - lag]
           times == {preemptTime} \cup Range(asleepNow)
<1>1. /\ kMinDelta \in Nat /\ MaxLag \in Nat /\ MaxLag < kMinDelta
      /\ lag \in Nat /\ lag <= MaxLag /\ d \in Nat
  BY TimeAssumption DEF TimeAssumption
<1>2. ASSUME NEW t \in DOMAIN asleep \ Due(asleep, d)
      PROVE  asleep[t] - lag \in Nat /\ asleep[t] - lag > kMinDelta
  <2>1. ~(asleep[t] - d <= 2 * kMinDelta) /\ asleep[t] \in Nat
    BY DEF Due
  <2>2. QED  BY <1>1, <2>1
<1>3. asleepNow \in [DOMAIN asleepNow -> Nat] /\ \A n \in times : n \in Nat /\ n > kMinDelta
  BY <1>2 DEF Range
<1>4. \A t \in DOMAIN asleepNow : asleepNow[t] \in times
  BY DEF Range
<1> HIDE DEF asleepNow
<1>5. Min(times) \in times /\ \A n \in times : Min(times) <= n
  <2>1. times \in SUBSET Nat /\ times # {}
    BY <1>3
  <2> HIDE DEF times
  <2>2. QED  BY <2>1, LeastTime
<1>6. NextTimeEvent(preemptTime, asleepNow) = Min(times)
  BY DEF NextTimeEvent
<1> HIDE DEF times
<1>7. /\ Min(times) \in Nat /\ Min(times) > kMinDelta
      /\ \A t \in DOMAIN asleepNow : asleepNow[t] >= Min(times)
  BY <1>1, <1>3, <1>4, <1>5
<1>8. QED  BY <1>3, <1>6, <1>7 DEF asleepNow

\* A failed assertion that is not about deadlines changes nothing else.
LEMMA FailInv ==
  ASSUME TimeInv, NEW a \in {"WakesRunning", "PreemptTime"}, Fail(a)
  PROVE  TimeInv'
BY DEF TimeInv, Accounts, TimerFirst, WorkersReady, DeadlineAssertionsHold, Fail, clockVars

\* Capping leaves natural numbers.
LEMMA CappedNat == \A n \in Nat : Capped(n) \in Nat
BY TimeAssumption DEF TimeAssumption, Capped

LEMMA StayAccounts ==
  ASSUME Accounts, current \in Thread, NEW inCall \in BOOLEAN, NEW entered \in Nat, NEW lag \in Nat,
         StayCharged(inCall, entered, lag)
  PROVE  Accounts'
<1>1. /\ kernel[current] + entered \in Nat /\ since + lag \in Nat /\ userIn + since \in Nat
      /\ inKernel + lag + (IF current \in Users THEN 0 ELSE since) \in Nat
  BY DEF Accounts
<1>2. /\ Charged(current, entered) \in Nat /\ Capped(since + lag) \in Nat
      /\ Capped(userIn + since) \in Nat
      /\ Capped(inKernel + lag + (IF current \in Users THEN 0 ELSE since)) \in Nat
  BY <1>1, CappedNat DEF Charged
<1>3. kernel' \in [Thread -> Nat] /\ user' \in [Thread -> Nat]
  BY <1>2 DEF StayCharged, Accounts
<1>4. since' \in Nat /\ userIn' \in Nat /\ inKernel' \in Nat
  BY <1>2 DEF StayCharged, Accounts
<1>5. QED  BY <1>3, <1>4 DEF Accounts

LEMMA SwitchAccounts ==
  ASSUME Accounts, current \in Thread, NEW inCall \in BOOLEAN, NEW entered \in Nat, NEW lag \in Nat,
         SwitchCharged(inCall, entered, lag)
  PROVE  Accounts'
<1> DEFINE k == Charged(current, entered) + inKernel + lag
                  + (IF current \in Users THEN 0 ELSE since)
<1>1. kernel[current] + entered \in Nat /\ user[current] + userIn + since \in Nat
  BY DEF Accounts
<1>2. Charged(current, entered) \in Nat /\ Capped(user[current] + userIn + since) \in Nat
  BY <1>1, CappedNat DEF Charged
<1>3. k \in Nat
  BY <1>2 DEF Accounts
<1>4. Capped(k) \in Nat
  BY <1>3, CappedNat
<1>5. kernel' \in [Thread -> Nat] /\ user' \in [Thread -> Nat]
  BY <1>2, <1>4 DEF SwitchCharged, Accounts
<1>6. QED  BY <1>5 DEF SwitchCharged, Accounts

-----------------------------------------------------------------------------
\* A call of the scheduler keeps the invariant: a thread that gives up the core
\* for good is not a worker, so there is one to run.
LEMMA CallInv ==
  ASSUME TimeInv,
         NEW preempt \in BOOLEAN, NEW threadState, NEW forced, forced \subseteq Thread,
         NEW asleep, asleep \in [DOMAIN asleep -> Nat], DOMAIN asleep \subseteq Thread,
         NEW queue \in Seq(Thread), NEW inCall \in BOOLEAN,
         threadState # "kReady" => preempt /\ current \notin Workers,
         ScheduleAndUpdateThreads(preempt, threadState, forced, asleep, queue, inCall)
  PROVE  TimeInv'
<1>1. SUFFICES ASSUME NEW lag \in 1..MaxLag, NEW d \in {0, lag},
                      NEW w \in InKeyOrder(Due(asleep, d), asleep),
                      Scheduled(lag, d, w, preempt, threadState, forced, asleep, queue, inCall)
               PROVE  TimeInv'
  BY Zenon DEF ScheduleAndUpdateThreads
<1> DEFINE entered == IF current \in Workers /\ inCall THEN Capped(since + lag) ELSE lag
           asleepNow == [t \in DOMAIN asleep \ Due(asleep, d) |-> asleep[t] - lag]
           found == ready \o w
           keeps == preempt \/ ShouldPreempt(GetPreemptTime(current))
           switch == forced # {} \/ (keeps /\ found # <<>>)
           preemptTime == IF switch \/ keeps THEN kPreemptTimeNs ELSE GetPreemptTime(current)
           next == IF forced # {} THEN CHOOSE t \in forced : TRUE ELSE Head(found)
           rest == IF forced # {} THEN found ELSE Tail(found)
<1>2. /\ lag \in Nat /\ kMinDelta \in Nat /\ kPreemptTimeNs \in Nat /\ Workers # {}
      /\ current \in Thread
  BY TimeAssumption DEF TimeAssumption, TimeInv, WorkersReady
<1>3. entered \in Nat
  <2>1. since + lag \in Nat
    BY <1>2 DEF TimeInv, Accounts
  <2>2. QED  BY <1>2, <2>1, CappedNat
<1>4. preemptTime \in Nat
  <2>1. GetPreemptTime(current) \in Nat
    BY <1>2 DEF GetPreemptTime, CalculateCpuTime, TimeInv, Accounts
  <2>2. QED  BY <1>2, <2>1
<1>5. found \in Seq(Thread) /\ Workers \subseteq Range(found) \cup {current}
  <2>1. w \in Seq(Thread)
    BY DueIsList
  <2>2. QED  BY <2>1, RangeConcat DEF TimeInv, WorkersReady
<1>6. switch \/ threadState = "kReady"
  <2>1. SUFFICES ASSUME threadState # "kReady" PROVE found # <<>>
    OBVIOUS
  <2>2. Range(found) # {}
    BY <1>2, <1>5, <2>1
  <2>3. QED  BY <2>2 DEF Range
<1>7. switch => /\ next \in Thread /\ rest \in Seq(Thread)
                /\ Range(found) \subseteq Range(rest) \cup {next}
  BY <1>5, RangeTail, Zenon
<1> HIDE DEF entered, found, keeps, switch, preemptTime, next, rest
<1>8. CASE current \in Due(asleep, d)
  BY <1>1, <1>8, FailInv DEF Scheduled
<1>9. CASE current \notin Due(asleep, d) /\ preemptTime <= kMinDelta
  <2>1. Fail("PreemptTime")
    BY <1>1, <1>6, <1>9 DEF Scheduled, preemptTime, switch, keeps, found
  <2>2. QED  BY <2>1, FailInv
<1>10. CASE current \notin Due(asleep, d) /\ ~(preemptTime <= kMinDelta)
  <2>1. preemptTime > kMinDelta
    BY <1>2, <1>4, <1>10
  <2>2. /\ asleepNow \in [DOMAIN asleepNow -> Nat]
        /\ NextTimeEvent(preemptTime, asleepNow) \in Nat
        /\ NextTimeEvent(preemptTime, asleepNow) > kMinDelta
        /\ \A t \in DOMAIN asleepNow : asleepNow[t] >= NextTimeEvent(preemptTime, asleepNow)
    BY <1>4, <2>1, DeadlinesAhead, Zenon
  <2>3. DOMAIN asleepNow \subseteq Thread /\ ~(NextTimeEvent(preemptTime, asleepNow) <= kMinDelta)
    BY <1>2, <2>2
  <2>4. /\ left' = asleepNow /\ wq' = queue
        /\ current' = IF switch THEN next ELSE current
        /\ ready' = IF ~switch THEN found
                    ELSE IF threadState = "kReady" THEN AddReadyThread(rest) ELSE rest
        /\ IF switch THEN SwitchCharged(inCall, entered, lag) ELSE StayCharged(inCall, entered, lag)
        /\ armed' = NextTimeEvent(preemptTime, asleepNow)
        /\ pending' = (inCall /\ (pending \/ armed <= lag))
        /\ failed' = failed
    BY <1>1, <1>6, <1>10, <2>3, ZenonT(30)
    DEF Scheduled, entered, found, keeps, switch, preemptTime, next, rest
  <2> HIDE DEF asleepNow
  <2>5. Accounts'
    BY <1>2, <1>3, <2>4, StayAccounts, SwitchAccounts DEF TimeInv
  <2>6. TimerFirst'
    BY <1>2, <2>2, <2>3, <2>4 DEF TimerFirst, TimeInv
  <2>7. WorkersReady'
    <3>1. CASE ~switch
      BY <1>2, <1>5, <2>4, <3>1 DEF WorkersReady
    <3>2. CASE switch /\ threadState = "kReady"
      <4>1. ready' = Append(rest, current) /\ current' = next /\ wq' = queue
        BY <2>4, <3>2 DEF AddReadyThread
      <4>2. ready' \in Seq(Thread) /\ Range(rest) \cup {current} \subseteq Range(ready')
        BY <1>2, <1>7, <3>2, <4>1, RangeAppend
      <4>3. QED  BY <1>5, <1>7, <3>2, <4>1, <4>2 DEF WorkersReady
    <3>3. CASE switch /\ threadState # "kReady"
      BY <1>5, <1>7, <2>4, <3>3 DEF WorkersReady
    <3>4. QED  BY <3>1, <3>2, <3>3
  <2>8. QED  BY <2>4, <2>5, <2>6, <2>7 DEF TimeInv, DeadlineAssertionsHold
<1>11. QED  BY <1>8, <1>9, <1>10

-----------------------------------------------------------------------------
\* Boot lists every thread.
LEMMA BootListsAll == Boot \in Seq(Thread) /\ Boot # <<>> /\ Range(Boot) = Thread
<1> DEFINE n == Cardinality(Thread)
<1>1. IsFiniteSet(Thread) /\ n \in Nat /\ Thread # {}
  BY TimeAssumption, FS_CardinalityType DEF TimeAssumption, Thread
<1>2. Boot \in [1..n -> Thread] /\ \A i, j \in 1..n : i # j => Boot[i] # Boot[j]
  BY TimeAssumption DEF TimeAssumption, Injection, IsInjective
<1> HIDE DEF n
<1>3. Boot \in Injection(1..n, Thread)
  BY <1>2 DEF Injection, IsInjective
<1>4. Cardinality(1..n) = n
  <2>1. Cardinality(1..n) = IF 1 > n THEN 0 ELSE n - 1 + 1
    BY <1>1, FS_Interval
  <2>2. QED  BY <1>1, <2>1
<1>5. Boot \in Surjection(1..n, Thread)
  BY <1>1, <1>3, <1>4, FS_Injection DEF n
<1>6. \A t \in Thread : \E i \in 1..n : Boot[i] = t
  BY <1>5 DEF Surjection
<1>7. DOMAIN Boot = 1..n
  BY <1>2
<1>8. Range(Boot) = Thread
  BY <1>2, <1>6, <1>7 DEF Range
<1>9. Boot # <<>>
  BY <1>1, <1>8 DEF Range
<1>10. QED  BY <1>1, <1>2, <1>8, <1>9

\* The invariant holds when scheduling starts.
LEMMA InitInv == TimeInit => TimeInv
<1> SUFFICES ASSUME TimeInit PROVE TimeInv
  OBVIOUS
<1>1. kPreemptTimeNs \in Nat /\ kPreemptTimeNs > 0
  BY TimeAssumption DEF TimeAssumption
<1>2. Accounts
  BY DEF TimeInit, Accounts
<1>3. TimerFirst
  BY <1>1, Zenon DEF TimeInit, TimerFirst
<1>4. WorkersReady
  <2>1. /\ Tail(Boot) \in Seq(Thread) /\ Head(Boot) \in Thread
        /\ Range(Boot) \subseteq Range(Tail(Boot)) \cup {Head(Boot)}
    BY BootListsAll, RangeTail
  <2>2. QED  BY <2>1, BootListsAll DEF TimeInit, WorkersReady, Thread
<1>5. QED  BY <1>2, <1>3, <1>4 DEF TimeInit, TimeInv, DeadlineAssertionsHold

\* While time passes no deadline comes nearer than the timer.
LEMMA TickInv ==
  ASSUME TimeInv, Tick
  PROVE  TimeInv'
<1> DEFINE n == Min({TickLength, armed})
<1>1. TickLength \in Nat /\ armed \in Nat
  BY TimeAssumption DEF TimeAssumption, TimeInv, TimerFirst
<1>2. n \in Nat /\ n <= armed
  <2>1. {TickLength, armed} \in SUBSET Nat /\ {TickLength, armed} # {}
    BY <1>1
  <2>2. n \in {TickLength, armed} /\ \A m \in {TickLength, armed} : n <= m
    BY <2>1, LeastTime
  <2>3. QED  BY <1>1, <2>2
<1>3. /\ left' = [t \in DOMAIN left |-> left[t] - n] /\ since' = Capped(since + n)
      /\ armed' = armed - n /\ pending' = (armed = n)
      /\ UNCHANGED <<state, ready, wq, current, user, kernel, userIn, inKernel, failed>>
  BY DEF Tick
<1> HIDE DEF n
<1>4. Capped(since + n) \in Nat
  <2>1. since + n \in Nat
    BY <1>2 DEF TimeInv, Accounts
  <2>2. QED  BY <2>1, CappedNat
<1>5. Accounts'
  BY <1>3, <1>4 DEF TimeInv, Accounts
<1>6. TimerFirst'
  <2>1. ASSUME NEW t \in DOMAIN left PROVE left[t] - n \in Nat /\ left[t] - n >= armed - n
    <3>1. left[t] \in Nat /\ left[t] >= armed
      BY DEF TimeInv, TimerFirst
    <3>2. QED  BY <1>1, <1>2, <3>1
  <2>2. armed' \in Nat /\ pending' \in BOOLEAN /\ (~pending' => armed' > 0)
    <3>1. armed - n \in Nat /\ (armed # n => armed - n > 0)
      BY <1>1, <1>2
    <3>2. pending' \in BOOLEAN /\ (~pending' => armed # n)
      BY <1>3, Zenon
    <3>3. QED  BY <1>3, <3>1, <3>2, Zenon
  <2>3. DOMAIN left' = DOMAIN left /\ \A t \in DOMAIN left : left'[t] = left[t] - n
    BY <1>3
  <2>4. left' \in [DOMAIN left' -> Nat]
    BY <1>3, <2>1
  <2>5. QED  BY <1>3, <2>1, <2>2, <2>3, <2>4 DEF TimeInv, TimerFirst
<1>7. QED  BY <1>3, <1>5, <1>6 DEF TimeInv, WorkersReady, DeadlineAssertionsHold

\* Every step of the scheduler keeps the invariant.
LEMMA StepInv == TimeInv /\ [TimeNext]_vars => TimeInv'
<1> SUFFICES ASSUME TimeInv, [TimeNext]_vars PROVE TimeInv'
  OBVIOUS
<1>1. /\ left \in [DOMAIN left -> Nat] /\ DOMAIN left \subseteq Thread
      /\ wq \in Seq(Thread) /\ ready \in Seq(Thread) /\ current \in Thread
      /\ current \in Users => current \notin Workers
  BY TimeAssumption DEF TimeAssumption, TimeInv, TimerFirst, WorkersReady
<1>2. CASE Tick
  BY <1>2, TickInv
<1>3. CASE TimerRoutine
  BY <1>1, <1>3, CallInv, Zenon DEF TimerRoutine
<1>4. CASE Yield
  BY <1>1, <1>4, CallInv, Zenon DEF Yield
<1>5. ASSUME NEW n \in Sleeps, NanoSleepUntil(n) PROVE TimeInv'
  <2> DEFINE asleep == [t \in DOMAIN left \cup {current} |-> IF t = current THEN n ELSE left[t]]
  <2>1. n \in Nat
    BY TimeAssumption DEF TimeAssumption
  <2>2. asleep \in [DOMAIN asleep -> Nat] /\ DOMAIN asleep \subseteq Thread
    BY <1>1, <2>1
  <2>3. current \notin Workers /\ ScheduleAndUpdateThreads(TRUE, "kSleeping", {}, asleep, wq, TRUE)
    BY <1>1, <1>5, Zenon DEF NanoSleepUntil
  <2> HIDE DEF asleep
  <2>4. QED  BY <1>1, <2>2, <2>3, CallInv, Zenon
<1>6. CASE BlockOnWaitQueue
  <2>1. Append(wq, current) \in Seq(Thread) /\ current \notin Workers
    BY <1>1, <1>6 DEF BlockOnWaitQueue
  <2>2. QED  BY <1>1, <1>6, <2>1, CallInv, Zenon DEF BlockOnWaitQueue
<1>7. CASE ReleaseAndProcess
  <2>1. Tail(wq) \in Seq(Thread) /\ {Head(wq)} \subseteq Thread
    BY <1>1, <1>7 DEF ReleaseAndProcess
  <2>2. QED  BY <1>1, <1>7, <2>1, CallInv, Zenon DEF ReleaseAndProcess
<1>8. CASE ReleaseAll
  <2>1. ready \o wq \in Seq(Thread) /\ Range(ready) \subseteq Range(ready \o wq)
    BY <1>1, RangeConcat
  <2>2. /\ ready' = ready \o wq /\ wq' = <<>>
        /\ UNCHANGED <<left, current, failed>> /\ UNCHANGED clockVars
    BY <1>8 DEF ReleaseAll
  <2>3. WorkersReady'
    BY <2>1, <2>2 DEF TimeInv, WorkersReady
  <2>4. QED  BY <2>2, <2>3 DEF TimeInv, Accounts, TimerFirst, DeadlineAssertionsHold, clockVars
<1>9. CASE UNCHANGED vars
  BY <1>9 DEF vars, TimeInv, Accounts, TimerFirst, WorkersReady, DeadlineAssertionsHold
<1>10. QED  BY <1>2, <1>3, <1>4, <1>5, <1>6, <1>7, <1>8, <1>9 DEF TimeNext

-----------------------------------------------------------------------------
\* The inductive invariant: the timer fires before the first deadline, the
\* accounts of ScheduleAndUpdateThreads are natural numbers, and a worker can
\* always be run.
THEOREM TimeInvariance == TimeSpec => []TimeInv
BY InitInv, StepInv, PTL DEF TimeSpec

\* No sleeper's deadline passes while it sleeps (SetupNextTimeEvent_ and
\* WakeUpTasks), for any slice, any sleeping times and any number of threads.
THEOREM NoDeadlineMissed == TimeSpec => []SleepersInTime
<1>1. TimeInv => SleepersInTime
  BY DEF TimeInv, TimerFirst, SleepersInTime
<1>2. QED  BY <1>1, TimeInvariance, PTL

\* ASSERT_GT(min_time_ns, kMinDelta) holds, its subtraction does not wrap, and
\* Idle is never called in ScheduleAndUpdateThreads.
THEOREM DeadlineAssertions == TimeSpec => []DeadlineAssertionsHold
<1>1. TimeInv => DeadlineAssertionsHold
  BY DEF TimeInv
<1>2. QED  BY <1>1, TimeInvariance, PTL

-----------------------------------------------------------------------------
\* The proofs about Scheduler, for these threads and one wait queue.
P == INSTANCE SchedulerProofs WITH ThreadSlot <- Thread, ProcessSlot <- {Queue}

LEMMA SlotsApart == Thread \cap {Queue} = {} /\ NoThread \notin Thread \cup {Queue}
BY TimeAssumption DEF TimeAssumption

\* Every thread is where its state says.
UntimedInv == Untimed \in P!SchedulerState /\ P!Consistent(Untimed) /\ current \in Thread

\* The state in which a call has linked the current thread or unlinked a waiter.
Entered(asleep, queue) ==
    [state |-> state, ready |-> ready, sleeping |-> asleep,
     wq |-> [q \in Thread \cup {Queue} |-> IF q = Queue THEN queue ELSE <<>>],
     current |-> current]

\* What ScheduleAndUpdateThreads does to the threads, its accounting left out.
Woke(w, threadState, forced, asleep, queue) ==
    /\ current \notin Range(w)
    /\ DOMAIN left' = DOMAIN asleep \ Range(w) /\ wq' = queue
    /\ \/ /\ threadState = "kReady" /\ forced = {}
          /\ state' = [t \in Thread |-> IF t \in Range(w) THEN "kReady" ELSE state[t]]
          /\ ready' = ready \o w /\ current' = current
       \/ LET next == IF forced # {} THEN CHOOSE t \in forced : TRUE ELSE Head(ready \o w)
              rest == IF forced # {} THEN ready \o w ELSE Tail(ready \o w)
          IN  /\ forced # {} \/ ready \o w # <<>>
              /\ state' = [t \in Thread |-> IF t = next THEN "kRunning"
                                            ELSE IF t = current THEN threadState
                                            ELSE IF t \in Range(w) THEN "kReady" ELSE state[t]]
              /\ ready' = IF threadState = "kReady" THEN Append(rest, current) ELSE rest
              /\ current' = next

\* The sleepers that are due, in the order of their deadlines.
LEMMA DueListed ==
  ASSUME NEW asleep, DOMAIN asleep \subseteq Thread, NEW d,
         NEW w \in InKeyOrder(Due(asleep, d), asleep)
  PROVE  /\ Range(w) = Due(asleep, d) /\ IsInjective(w)
         /\ w \in [1..Cardinality(Due(asleep, d)) -> Due(asleep, d)]
<1> DEFINE due == Due(asleep, d)
           n == Cardinality(due)
<1>1. due \subseteq Thread
  BY DEF Due
<1>2. IsFiniteSet(due) /\ n \in Nat
  BY <1>1, TimeAssumption, FS_Subset, FS_CardinalityType DEF TimeAssumption
<1>3. w \in Injection(1..n, due)
  BY DEF InKeyOrder
<1> HIDE DEF due
<1>4. w \in Surjection(1..n, due)
  <2>1. Cardinality(1..n) = IF 1 > n THEN 0 ELSE n - 1 + 1
    BY <1>2, FS_Interval
  <2>2. IsFiniteSet(1..n) /\ Cardinality(1..n) = n
    BY <1>2, <2>1, FS_Interval
  <2>3. QED  BY <1>2, <1>3, <2>2, FS_Injection
<1>5. w \in [1..n -> due] /\ IsInjective(w) /\ \A t \in due : \E i \in 1..n : w[i] = t
  BY <1>3, <1>4 DEF Injection, Surjection
<1>6. Range(w) = due
  BY <1>5 DEF Range
<1>7. QED  BY <1>5, <1>6 DEF due

\* A call fails an assertion and changes nothing, or wakes who is due and
\* switches.
LEMMA CallEffect ==
  ASSUME NEW preempt, NEW threadState, NEW forced, NEW asleep, DOMAIN asleep \subseteq Thread,
         NEW queue, NEW inCall,
         ScheduleAndUpdateThreads(preempt, threadState, forced, asleep, queue, inCall)
  PROVE  \/ UNCHANGED <<state, ready, left, wq, current>>
         \/ \E d : \E w \in InKeyOrder(Due(asleep, d), asleep) :
               Woke(w, threadState, forced, asleep, queue)
<1>1. PICK lag \in 1..MaxLag : \E d \in {0, lag} : \E w \in InKeyOrder(Due(asleep, d), asleep) :
         Scheduled(lag, d, w, preempt, threadState, forced, asleep, queue, inCall)
  BY Zenon DEF ScheduleAndUpdateThreads
<1>2. PICK d \in {0, lag} : \E w \in InKeyOrder(Due(asleep, d), asleep) :
         Scheduled(lag, d, w, preempt, threadState, forced, asleep, queue, inCall)
  BY <1>1, Zenon
<1>3. PICK w \in InKeyOrder(Due(asleep, d), asleep) :
         Scheduled(lag, d, w, preempt, threadState, forced, asleep, queue, inCall)
  BY <1>2, Zenon
<1>4. Range(w) = Due(asleep, d)
  BY DueListed
<1>5. CASE \E a : Fail(a)
  BY <1>5 DEF Fail
<1>6. CASE ~ \E a : Fail(a)
  <2> DEFINE found == ready \o w
             switch == \/ forced # {}
                       \/ (preempt \/ ShouldPreempt(GetPreemptTime(current))) /\ found # <<>>
             next == IF forced # {} THEN CHOOSE t \in forced : TRUE ELSE Head(found)
             rest == IF forced # {} THEN found ELSE Tail(found)
  <2>1. /\ current \notin Range(w)
        /\ switch \/ threadState = "kReady"
        /\ left' = [t \in DOMAIN asleep \ Range(w) |-> asleep[t] - lag]
        /\ wq' = queue
        /\ state' = [t \in Thread |->
                 IF switch /\ t = next THEN "kRunning"
                 ELSE IF switch /\ t = current THEN threadState
                 ELSE IF t \in Range(w) THEN "kReady" ELSE state[t]]
        /\ current' = IF switch THEN next ELSE current
        /\ ready' = IF ~switch THEN found
                      ELSE IF threadState = "kReady" THEN AddReadyThread(rest) ELSE rest
    BY <1>3, <1>4, <1>6, ZenonT(60) DEF Scheduled
  <2>2. DOMAIN left' = DOMAIN asleep \ Range(w)
    BY <2>1
  <2>3. CASE ~switch
    <3>1. forced = {} /\ threadState = "kReady"
      BY <2>1, <2>3, Zenon
    <3>2. /\ state' = [t \in Thread |-> IF t \in Range(w) THEN "kReady" ELSE state[t]]
          /\ current' = current /\ ready' = ready \o w
      BY <2>1, <2>3, Zenon
    <3>3. QED  BY <2>1, <2>2, <3>1, <3>2, Zenon DEF Woke
  <2>4. CASE switch
    <3>1. /\ state' = [t \in Thread |-> IF t = next THEN "kRunning"
                                        ELSE IF t = current THEN threadState
                                        ELSE IF t \in Range(w) THEN "kReady" ELSE state[t]]
          /\ current' = next
          /\ ready' = IF threadState = "kReady" THEN Append(rest, current) ELSE rest
      BY <2>1, <2>4, Zenon DEF AddReadyThread
    <3>2. forced # {} \/ found # <<>>
      BY <2>4, Zenon
    <3>3. QED  BY <2>1, <2>2, <3>1, <3>2, Zenon DEF Woke
  <2>5. QED  BY <2>3, <2>4
<1>7. QED  BY <1>5, <1>6

\* The operators of Scheduler on a record of five fields.
Fields(st, rd, sl, qs, cur) ==
    [state |-> st, ready |-> rd, sleeping |-> sl, wq |-> qs, current |-> cur]

StateAfter(st, cur, next, threadState) ==
    [[st EXCEPT ![next] = "kRunning"] EXCEPT ![cur] = threadState]

StateAwake(st, w) == [t \in Thread |-> IF t \in P!Range(w) THEN "kReady" ELSE st[t]]

LEMMA FieldReplaced ==
  ASSUME NEW st, NEW rd, NEW sl, NEW qs, NEW cur, NEW x, NEW r, r = Fields(st, rd, sl, qs, cur)
  PROVE  /\ r.state = st /\ r.ready = rd /\ r.current = cur
         /\ [r EXCEPT !.ready = x] = Fields(st, x, sl, qs, cur)
         /\ [r EXCEPT !.current = x] = Fields(st, rd, sl, qs, x)
         /\ [r EXCEPT !.sleeping = x] = Fields(st, rd, x, qs, cur)
         /\ [r EXCEPT !.state = x] = Fields(x, rd, sl, qs, cur)
BY DEF Fields

LEMMA WokenRecord ==
  ASSUME NEW st, NEW rd, NEW sl, NEW qs, NEW cur, NEW w
  PROVE  P!WakeUpTasks(Fields(st, rd, sl, qs, cur), w) =
         Fields(StateAwake(st, w), rd \o w, sl \ P!Range(w), qs, cur)
<1>1. PICK r : r = Fields(st, rd, sl, qs, cur)
  OBVIOUS
<1>2. PICK r1 : r1 = [r EXCEPT !.sleeping = @ \ P!Range(w)]
  BY Zenon
<1>3. PICK r2 : r2 = [r1 EXCEPT !.state =
                        [t \in Thread |-> IF t \in P!Range(w) THEN "kReady" ELSE @[t]]]
  BY Zenon
<1>4. PICK r3 : r3 = [r2 EXCEPT !.ready = @ \o w]
  BY Zenon
<1>5. P!WakeUpTasks(r, w) = r3
  BY <1>2, <1>3, <1>4, Zenon DEF P!WakeUpTasks
<1>6. PICK others : others = sl \ P!Range(w)
  BY Zenon
<1>7. PICK st1 : st1 = StateAwake(st, w)
  OBVIOUS
<1>8. PICK found : found = rd \o w
  BY Zenon
<1>9. r1 = Fields(st, rd, others, qs, cur)
  BY <1>1, <1>2, <1>6 DEF Fields
<1>10. r2 = Fields(st1, rd, others, qs, cur)
  <2>1. r1.state = st /\ [r1 EXCEPT !.state = st1] = Fields(st1, rd, others, qs, cur)
    BY <1>9, FieldReplaced
  <2>2. st1 = [t \in Thread |-> IF t \in P!Range(w) THEN "kReady" ELSE r1.state[t]]
    BY <1>7, <2>1, Zenon DEF StateAwake
  <2>3. QED  BY <1>3, <2>1, <2>2, Zenon
<1>11. r3 = Fields(st1, found, others, qs, cur)
  <2>1. r2.ready = rd /\ [r2 EXCEPT !.ready = found] = Fields(st1, found, others, qs, cur)
    BY <1>10, FieldReplaced
  <2>2. QED  BY <1>4, <1>8, <2>1, Zenon
<1>12. QED  BY <1>1, <1>5, <1>6, <1>7, <1>8, <1>11, Zenon

LEMMA SwitchedRecord ==
  ASSUME NEW st, NEW rd, NEW sl, NEW qs, NEW cur, NEW next, NEW threadState
  PROVE  LET s == Fields(st, rd, sl, qs, cur)
             st2 == StateAfter(st, cur, next, threadState)
         IN  /\ threadState = "kReady" =>
                   P!SwitchTo(s, next, threadState) = Fields(st2, Append(rd, cur), sl, qs, next)
             /\ threadState # "kReady" =>
                   P!SwitchTo(s, next, threadState) = Fields(st2, rd, sl, qs, next)
<1>1. PICK r : r = Fields(st, rd, sl, qs, cur)
  OBVIOUS
<1> DEFINE st1 == [st EXCEPT ![next] = "kRunning"]
           st2 == [st1 EXCEPT ![cur] = threadState]
<1>2. [r EXCEPT !.state[next] = "kRunning"] = Fields(st1, rd, sl, qs, cur)
  BY <1>1, FieldReplaced
<1>3. \A a : a = Fields(st1, rd, sl, qs, cur)
                => [a EXCEPT !.state[r.current] = threadState] = Fields(st2, rd, sl, qs, cur)
  <2> HIDE DEF st1
  <2>1. QED  BY <1>1, FieldReplaced
<1> HIDE DEF st2
<1>4. \A a : a = Fields(st2, rd, sl, qs, cur)
                => [a EXCEPT !.current = next] = Fields(st2, rd, sl, qs, next)
  BY <1>1, FieldReplaced
<1>5. \A a : a = Fields(st2, rd, sl, qs, next)
                => /\ a.ready = rd
                   /\ \A l : [a EXCEPT !.ready = l] = Fields(st2, l, sl, qs, next)
  BY <1>1, FieldReplaced
<1>6. PICK r1 : r1 = [r EXCEPT !.state[next] = "kRunning", !.state[r.current] = threadState,
                               !.current = next]
  OBVIOUS
<1>7. r1 = Fields(st2, rd, sl, qs, next)
  BY <1>2, <1>3, <1>4, <1>6, Zenon
<1>8. P!SwitchTo(r, next, threadState) =
         IF threadState = "kReady" THEN [r1 EXCEPT !.ready = Append(@, r.current)] ELSE r1
  BY <1>6, Zenon DEF P!SwitchTo
<1>9. r.current = cur
  BY <1>1, FieldReplaced
<1>10. [r1 EXCEPT !.ready = Append(@, r.current)] = Fields(st2, Append(rd, cur), sl, qs, next)
  BY <1>5, <1>7, <1>9, Zenon
<1>11. QED  BY <1>1, <1>7, <1>8, <1>10, Zenon DEF st2, StateAfter

\* The threads in a call are those that Scheduler's operators give.
LEMMA WokeUntimed ==
  ASSUME NEW w \in Seq(Thread), ready \in Seq(Thread), current \in Thread,
         state \in [Thread -> P!ThreadState], current \notin Range(ready),
         NEW threadState, NEW forced, forced \subseteq Thread \ {current},
         NEW asleep, NEW queue, Woke(w, threadState, forced, asleep, queue)
  PROVE  LET s == Entered(DOMAIN asleep, queue)
             first == CHOOSE t \in forced : TRUE
         IN  \/ forced = {} /\ threadState = "kReady" /\ Untimed' = P!WakeUpTasks(s, w)
             \/ /\ forced = {} /\ ~P!NeedsIdle(s, w)
                /\ Untimed' = P!Reschedule(s, w, threadState)
             \/ forced # {} /\ Untimed' = P!SwitchTo(P!WakeUpTasks(s, w), first, threadState)
<1> DEFINE s == Entered(DOMAIN asleep, queue)
           s1 == P!WakeUpTasks(s, w)
           found == ready \o w
           woken == [t \in Thread |-> IF t \in Range(w) THEN "kReady" ELSE state[t]]
           others == DOMAIN asleep \ Range(w)
           queues == [q \in Thread \cup {Queue} |-> IF q = Queue THEN queue ELSE <<>>]
<1>1. s1 = Fields(woken, found, others, queues, current)
  <2>1. s = Fields(state, ready, DOMAIN asleep, queues, current)
    BY DEF Entered, Fields
  <2>2. P!Range(w) = Range(w)
    BY DEF P!Range, Range
  <2>3. StateAwake(state, w) = woken
    BY <2>2 DEF StateAwake
  <2> HIDE DEF queues, s, woken
  <2>4. QED  BY <2>1, <2>2, <2>3, WokenRecord
<1>2. /\ current \notin Range(w) /\ DOMAIN left' = DOMAIN asleep \ Range(w) /\ wq' = queue
      /\ found \in Seq(Thread)
  BY DEF Woke
<1> HIDE DEF s, s1, found, woken, others, queues
<1>3. CASE /\ threadState = "kReady" /\ forced = {} /\ state' = woken
           /\ ready' = found /\ current' = current
  BY <1>1, <1>2, <1>3 DEF Untimed, s, s1, others, queues, Fields
<1>4. ASSUME NEW next \in Thread, next # current, NEW rest \in Seq(Thread),
             rest \in {found, Tail(found)},
             state' = [t \in Thread |-> IF t = next THEN "kRunning"
                                        ELSE IF t = current THEN threadState
                                        ELSE IF t \in Range(w) THEN "kReady" ELSE state[t]],
             ready' = IF threadState = "kReady" THEN Append(rest, current) ELSE rest,
             current' = next
      PROVE  Untimed' = P!SwitchTo([s1 EXCEPT !.ready = rest], next, threadState)
  <2>1. state' = StateAfter(woken, current, next, threadState)
    BY <1>4, Zenon DEF woken, StateAfter
  <2>2. [s1 EXCEPT !.ready = rest] = Fields(woken, rest, others, queues, current)
    BY <1>1, FieldReplaced
  <2>3. PICK r : r = [s1 EXCEPT !.ready = rest]
    BY Zenon
  <2>4. P!SwitchTo(Fields(woken, rest, others, queues, current), next, threadState) =
           Fields(state', ready', others, queues, next)
    <3>1. /\ threadState = "kReady" => ready' = Append(rest, current)
          /\ threadState # "kReady" => ready' = rest
      BY <1>4, Zenon
    <3>2. LET switched == P!SwitchTo(Fields(woken, rest, others, queues, current),
                                     next, threadState)
              after == StateAfter(woken, current, next, threadState)
          IN  /\ threadState = "kReady" =>
                    switched = Fields(after, Append(rest, current), others, queues, next)
              /\ threadState # "kReady" => switched = Fields(after, rest, others, queues, next)
      BY SwitchedRecord, SMTT(30)
    <3>3. QED  BY <2>1, <3>1, <3>2, Zenon
  <2>5. P!SwitchTo(r, next, threadState) = Fields(state', ready', others, queues, next)
    BY <2>2, <2>3, <2>4, Zenon
  <2>6. QED  BY <1>2, <1>4, <2>3, <2>5 DEF Untimed, others, queues, Fields
<1>5. CASE /\ forced # {}
           /\ state' = [t \in Thread |-> IF t = (CHOOSE u \in forced : TRUE) THEN "kRunning"
                                         ELSE IF t = current THEN threadState
                                         ELSE IF t \in Range(w) THEN "kReady" ELSE state[t]]
           /\ ready' = IF threadState = "kReady" THEN Append(found, current) ELSE found
           /\ current' = CHOOSE t \in forced : TRUE
  <2>1. s1 = [s1 EXCEPT !.ready = found]
    BY <1>1 DEF Fields
  <2>2. PICK next : next = CHOOSE t \in forced : TRUE
    OBVIOUS
  <2>3. next \in forced
    <3>1. \E t : t \in forced
      BY <1>5
    <3>2. QED  BY <2>2, <3>1, Zenon
  <2>4. Untimed' = P!SwitchTo([s1 EXCEPT !.ready = found], next, threadState)
    BY <1>2, <1>4, <1>5, <2>2, <2>3, Zenon
  <2>5. QED  BY <1>5, <2>1, <2>2, <2>4 DEF s, s1
<1>6. CASE /\ forced = {} /\ found # <<>>
           /\ state' = [t \in Thread |-> IF t = Head(found) THEN "kRunning"
                                         ELSE IF t = current THEN threadState
                                         ELSE IF t \in Range(w) THEN "kReady" ELSE state[t]]
           /\ ready' = IF threadState = "kReady" THEN Append(Tail(found), current) ELSE Tail(found)
           /\ current' = Head(found)
  <2>1. s1.ready = found /\ s.ready \o w # <<>>
    BY <1>1, <1>6 DEF Entered, Fields, s, found
  <2>2. Head(found) \in Thread \ {current} /\ Tail(found) \in Seq(Thread)
    <3>1. Head(found) \in Range(ready) \cup Range(w)
      <4>1. /\ Len(ready) \in Nat /\ Len(w) \in Nat /\ Len(found) = Len(ready) + Len(w)
            /\ DOMAIN ready = 1..Len(ready) /\ DOMAIN w = 1..Len(w) /\ Len(found) # 0
            /\ Head(found) = IF 1 <= Len(ready) THEN ready[1] ELSE w[1]
        BY <1>2, <1>6 DEF found
      <4>2. QED  BY <4>1 DEF Range
    <3>2. QED  BY <1>2, <1>6, <3>1
  <2>3. Untimed' = P!SwitchTo([s1 EXCEPT !.ready = Tail(found)], Head(found), threadState)
    BY <1>4, <1>6, <2>2, Zenon
  <2>4. Untimed' = P!Reschedule(s, w, threadState)
    BY <1>6, <2>1, <2>3 DEF P!Reschedule, s1
  <2>5. QED  BY <1>6, <2>1, <2>4 DEF P!NeedsIdle, s
<1>7. QED  BY <1>3, <1>5, <1>6, Zenon DEF Woke, woken, found

\* Sleepers in a list without repetition may be those that are due.
LEMMA DueOfAny ==
  ASSUME NEW S \in SUBSET Thread, NEW s, s.sleeping = S,
         NEW n \in Nat, NEW w \in [1..n -> S], IsInjective(w)
  PROVE  w \in P!DueSleepers(s)
<1>1. IsFiniteSet(S) /\ Cardinality(S) \in Nat
  BY TimeAssumption, FS_Subset, FS_CardinalityType DEF TimeAssumption
<1>2. IsFiniteSet(1..n) /\ Cardinality(1..n) = n
  <2>1. Cardinality(1..n) = IF 1 > n THEN 0 ELSE n - 1 + 1
    BY FS_Interval
  <2>2. QED  BY <2>1, FS_Interval
<1>3. n <= Cardinality(S)
  <2>1. w \in Injection(1..n, S)
    BY DEF Injection
  <2>2. QED  BY <1>1, <1>2, <2>1, FS_Injection
<1>4. w \in P!Injection(1..n, S) /\ n \in 0..Cardinality(S)
  BY <1>1, <1>3 DEF P!Injection, P!IsInjective, IsInjective
<1>5. P!Cardinality(S) = Cardinality(S)
  BY DEF P!Cardinality, Cardinality
<1>6. \E m \in 0..P!Cardinality(s.sleeping) : w \in P!Injection(1..m, s.sleeping)
  BY <1>4, <1>5
<1>7. QED  BY <1>6, Zenon DEF P!DueSleepers

\* What a call does to the threads, in terms of Scheduler.
Called(w, threadState, forced, s) ==
    /\ w \in P!DueSleepers(Untimed) /\ w \in P!DueSleepers(s)
    /\ P!Range(w) = DOMAIN left \ DOMAIN left' /\ current \notin P!Range(w)
    /\ \/ forced = {} /\ threadState = "kReady" /\ Untimed' = P!WakeUpTasks(s, w)
       \/ forced = {} /\ ~P!NeedsIdle(s, w) /\ Untimed' = P!Reschedule(s, w, threadState)
       \/ /\ forced # {}
          /\ Untimed' = P!SwitchTo(P!WakeUpTasks(s, w), CHOOSE t \in forced : TRUE, threadState)

LEMMA CallUntimed ==
  ASSUME UntimedInv, NEW preempt, NEW threadState, NEW forced, forced \subseteq Thread \ {current},
         NEW asleep, DOMAIN asleep \in {DOMAIN left, DOMAIN left \cup {current}},
         NEW queue, NEW inCall,
         ScheduleAndUpdateThreads(preempt, threadState, forced, asleep, queue, inCall)
  PROVE  \/ UNCHANGED Untimed
         \/ \E w : Called(w, threadState, forced, Entered(DOMAIN asleep, queue))
<1>1. /\ current \in Thread /\ ready \in Seq(Thread) /\ state \in [Thread -> P!ThreadState]
      /\ DOMAIN left \subseteq Thread /\ current \notin Range(ready)
  <2>1. /\ Untimed.state = state /\ Untimed.ready = ready /\ Untimed.sleeping = DOMAIN left
        /\ Untimed.current = current
    BY DEF Untimed
  <2>2. /\ Untimed.state \in [Thread -> P!ThreadState] /\ Untimed.ready \in Seq(Thread)
        /\ Untimed.sleeping \subseteq Thread /\ current \in Thread
    BY DEF UntimedInv, P!SchedulerState
  <2>3. state[current] = "kRunning"
    BY <2>1, <2>2 DEF UntimedInv, P!Consistent, P!RunConsistent
  <2>4. current \notin Range(ready)
    BY <2>1, <2>2, <2>3 DEF UntimedInv, P!Consistent, P!ReadyConsistent, P!Range, Range
  <2>5. QED  BY <2>1, <2>2, <2>4
<1>2. DOMAIN asleep \subseteq Thread
  BY <1>1
<1>3. CASE UNCHANGED <<state, ready, left, wq, current>>
  BY <1>3 DEF Untimed
<1>4. ASSUME NEW d, NEW w \in InKeyOrder(Due(asleep, d), asleep),
             Woke(w, threadState, forced, asleep, queue)
      PROVE  Called(w, threadState, forced, Entered(DOMAIN asleep, queue))
  <2> DEFINE n == Cardinality(Due(asleep, d))
             s == Entered(DOMAIN asleep, queue)
  <2>1. /\ Range(w) = Due(asleep, d) /\ IsInjective(w) /\ w \in [1..n -> Due(asleep, d)]
        /\ Due(asleep, d) \subseteq DOMAIN asleep
    <3>1. Due(asleep, d) \subseteq DOMAIN asleep
      BY DEF Due
    <3>2. QED  BY <1>2, <3>1, DueListed
  <2>2. /\ current \notin Range(w) /\ DOMAIN left' = DOMAIN asleep \ Range(w)
    BY <1>4 DEF Woke
  <2>3. Range(w) \subseteq DOMAIN left /\ Range(w) = DOMAIN left \ DOMAIN left'
    BY <2>1, <2>2
  <2>4. n \in Nat
    <3>1. Due(asleep, d) \subseteq Thread /\ IsFiniteSet(Thread)
      BY <1>2, <2>1, TimeAssumption, SMTT(30) DEF TimeAssumption
    <3>2. QED  BY <3>1, FS_Subset, FS_CardinalityType, SMTT(30)
  <2> HIDE DEF n
  <2>5. w \in [1..n -> DOMAIN left] /\ w \in [1..n -> DOMAIN asleep] /\ w \in Seq(Thread)
    BY <1>1, <1>2, <2>1, <2>3, <2>4, SMTT(30)
  <2>6. w \in P!DueSleepers(Untimed)
    <3>1. Untimed.sleeping = DOMAIN left
      BY DEF Untimed
    <3>2. QED  BY <1>1, <2>1, <2>4, <2>5, <3>1, DueOfAny, SMTT(30)
  <2>7. w \in P!DueSleepers(s)
    <3>1. s.sleeping = DOMAIN asleep
      BY DEF Entered
    <3>2. QED  BY <1>2, <2>1, <2>4, <2>5, <3>1, DueOfAny, SMTT(30)
  <2>8. P!Range(w) = Range(w)
    BY DEF P!Range, Range
  <2> HIDE DEF s
  <2>9. \/ forced = {} /\ threadState = "kReady" /\ Untimed' = P!WakeUpTasks(s, w)
        \/ forced = {} /\ ~P!NeedsIdle(s, w) /\ Untimed' = P!Reschedule(s, w, threadState)
        \/ /\ forced # {}
           /\ Untimed' = P!SwitchTo(P!WakeUpTasks(s, w), CHOOSE t \in forced : TRUE, threadState)
    BY <1>1, <1>4, <2>5, WokeUntimed, Zenon DEF s
  <2>10. QED  BY <2>2, <2>3, <2>6, <2>7, <2>8, <2>9, Zenon DEF Called, s
<1>5. QED  BY <1>2, <1>3, <1>4, CallEffect, Zenon

\* The two instances of Scheduler have the same operators.
LEMMA SameOperators ==
  ASSUME NEW s, NEW w, NEW threadState, NEW q
  PROVE  /\ U!DueSleepers(s) = P!DueSleepers(s)
         /\ U!TimerRoutine(s, w, FALSE) = P!WakeUpTasks(s, w)
         /\ U!Reschedule(s, w, threadState) = P!Reschedule(s, w, threadState)
         /\ U!SleepCurrent(s) = P!SleepCurrent(s)
         /\ U!EnqueueCurrent(s, q) = P!EnqueueCurrent(s, q)
         /\ U!ReleaseAndRunFirst(s, w, q) = P!ReleaseAndRunFirst(s, w, q)
         /\ U!ReleaseAll(s, q) = P!ReleaseAll(s, q)
<1>1. \A x, y : U!WakeUpTasks(x, y) = P!WakeUpTasks(x, y)
  BY DEF P!WakeUpTasks, U!WakeUpTasks, P!Range, U!Range
<1>2. \A x, y, z : U!SwitchTo(x, y, z) = P!SwitchTo(x, y, z)
  BY DEF P!SwitchTo, U!SwitchTo
<1>3. U!Reschedule(s, w, threadState) = P!Reschedule(s, w, threadState)
  BY <1>1, <1>2, Zenon DEF P!Reschedule, U!Reschedule
<1>4. U!ReleaseAndRunFirst(s, w, q) = P!ReleaseAndRunFirst(s, w, q)
  BY <1>1, <1>2, Zenon DEF P!ReleaseAndRunFirst, U!ReleaseAndRunFirst
<1>5. U!DueSleepers(s) = P!DueSleepers(s)
  <2>1. U!Cardinality(s.sleeping) = P!Cardinality(s.sleeping)
    BY DEF P!Cardinality, U!Cardinality
  <2>2. \A S, T : U!Injection(S, T) = P!Injection(S, T)
    BY DEF U!Injection, P!Injection, U!IsInjective, P!IsInjective
  <2>3. QED  BY <2>1, <2>2 DEF U!DueSleepers, P!DueSleepers
<1>6. U!TimerRoutine(s, w, FALSE) = P!WakeUpTasks(s, w)
  BY <1>1, Zenon DEF U!TimerRoutine
<1>7. U!SleepCurrent(s) = P!SleepCurrent(s)
  BY Zenon DEF U!SleepCurrent, P!SleepCurrent
<1>8. U!EnqueueCurrent(s, q) = P!EnqueueCurrent(s, q)
  BY Zenon DEF U!EnqueueCurrent, P!EnqueueCurrent
<1>9. U!ReleaseAll(s, q) = P!ReleaseAll(s, q)
  BY DEF P!ReleaseAll, U!ReleaseAll, P!Range, U!Range
<1>10. QED  BY <1>3, <1>4, <1>5, <1>6, <1>7, <1>8, <1>9, Zenon

\* What is shown of every step.
ScheduledRight == UntimedInv' /\ (UntimedStep \/ UNCHANGED Untimed)

\* A state of Scheduler that is reached is one the threads may be in.
LEMMA Reached ==
  ASSUME NEW s, s \in P!SchedulerState, P!Consistent(s), s.current \in Thread, Untimed' = s
  PROVE  UntimedInv'
<1>1. Untimed'.current = current'
  BY DEF Untimed
<1>2. QED  BY <1>1 DEF UntimedInv

LEMMA NothingScheduled ==
  ASSUME UntimedInv, UNCHANGED Untimed
  PROVE  ScheduledRight
<1>1. Untimed.current = current
  BY DEF Untimed
<1>2. QED  BY <1>1, Reached DEF ScheduledRight, UntimedInv

\* A step of Scheduler with the sleepers that were due.
LEMMA StepOfScheduler ==
  ASSUME NEW w \in P!DueSleepers(Untimed), P!Range(w) = DOMAIN left \ DOMAIN left',
         \/ Untimed' = P!WakeUpTasks(Untimed, w)
         \/ Untimed' = P!Reschedule(Untimed, w, "kReady")
         \/ Untimed' = P!Reschedule(P!SleepCurrent(Untimed), w, "kSleeping")
         \/ Untimed' = P!Reschedule(P!EnqueueCurrent(Untimed, Queue), w, "kBlockedOnWaitQueue")
         \/ wq # <<>> /\ Untimed' = P!ReleaseAndRunFirst(Untimed, w, Queue)
         \/ wq # <<>> /\ Untimed' = P!ReleaseAll(Untimed, Queue)
  PROVE  UntimedStep
<1>1. w \in {v \in U!DueSleepers(Untimed) : Range(v) = DOMAIN left \ DOMAIN left'}
  BY SameOperators, Zenon DEF P!Range, Range
<1>2. Untimed' \in {U!TimerRoutine(Untimed, w, FALSE),
                    U!Reschedule(Untimed, w, "kReady"),
                    U!Reschedule(U!SleepCurrent(Untimed), w, "kSleeping"),
                    U!Reschedule(U!EnqueueCurrent(Untimed, Queue), w, "kBlockedOnWaitQueue")}
                   \cup (IF wq = <<>> THEN {}
                         ELSE {U!ReleaseAndRunFirst(Untimed, w, Queue),
                               U!ReleaseAll(Untimed, Queue)})
  <2>1. /\ U!TimerRoutine(Untimed, w, FALSE) = P!WakeUpTasks(Untimed, w)
        /\ U!Reschedule(Untimed, w, "kReady") = P!Reschedule(Untimed, w, "kReady")
        /\ U!Reschedule(U!SleepCurrent(Untimed), w, "kSleeping")
             = P!Reschedule(P!SleepCurrent(Untimed), w, "kSleeping")
        /\ U!Reschedule(U!EnqueueCurrent(Untimed, Queue), w, "kBlockedOnWaitQueue")
             = P!Reschedule(P!EnqueueCurrent(Untimed, Queue), w, "kBlockedOnWaitQueue")
        /\ U!ReleaseAndRunFirst(Untimed, w, Queue) = P!ReleaseAndRunFirst(Untimed, w, Queue)
        /\ U!ReleaseAll(Untimed, Queue) = P!ReleaseAll(Untimed, Queue)
    BY SameOperators, Zenon
  <2>2. QED  BY <2>1, Zenon
<1>3. QED  BY <1>1, <1>2, Zenon DEF UntimedStep

\* The caller stays ready: the timer, Yield.
LEMMA StaysReady ==
  ASSUME UntimedInv, NEW w, Called(w, "kReady", {}, Entered(DOMAIN left, wq))
  PROVE  ScheduledRight
<1>1. Entered(DOMAIN left, wq) = Untimed /\ Untimed.current = current
  BY DEF Entered, Untimed
<1>2. /\ w \in P!DueSleepers(Untimed) /\ P!Range(w) = DOMAIN left \ DOMAIN left'
      /\ Untimed' \in {P!WakeUpTasks(Untimed, w), P!Reschedule(Untimed, w, "kReady")}
  BY <1>1, Zenon DEF Called
<1>3. UntimedStep
  BY <1>2, StepOfScheduler
<1>4. UntimedInv'
  <2>1. \A s \in {P!WakeUpTasks(Untimed, w), P!Reschedule(Untimed, w, "kReady")} :
           s \in P!SchedulerState /\ P!Consistent(s) /\ s.current \in Thread
    BY <1>1, <1>2, SlotsApart, P!YieldConsistent DEF UntimedInv
  <2>2. QED  BY <1>2, <2>1, Reached, SMTT(30)
<1>5. QED  BY <1>3, <1>4 DEF ScheduledRight

\* The caller has linked itself into a queue: NanoSleepUntil, BlockOnWaitQueue.
LEMMA GivesUp ==
  ASSUME UntimedInv, NEW threadState \in {"kSleeping", "kBlockedOnWaitQueue"}, NEW s,
         P!Linked(s, threadState), s.current = current,
         threadState = "kSleeping" => s = P!SleepCurrent(Untimed),
         threadState = "kBlockedOnWaitQueue" => s = P!EnqueueCurrent(Untimed, Queue),
         NEW w, Called(w, threadState, {}, s)
  PROVE  ScheduledRight
<1>1. /\ w \in P!DueSleepers(Untimed) /\ P!Range(w) = DOMAIN left \ DOMAIN left'
      /\ w \in P!DueSleepers(s) /\ current \notin P!Range(w) /\ ~P!NeedsIdle(s, w)
      /\ Untimed' = P!Reschedule(s, w, threadState)
  BY Zenon DEF Called
<1>2. UntimedStep
  BY <1>1, StepOfScheduler
<1>3. UntimedInv'
  <2>1. threadState \in P!ThreadState \ {"kRunning"}
    BY DEF P!ThreadState
  <2>2. LET s1 == P!Reschedule(s, w, threadState)
        IN  s1 \in P!SchedulerState /\ P!Consistent(s1) /\ s1.current \in Thread
    BY <1>1, <2>1, SlotsApart, P!RescheduleConsistent, Zenon
  <2>3. QED  BY <1>1, <2>2, Reached
<1>4. QED  BY <1>2, <1>3 DEF ScheduledRight

\* The queue in a record of five fields.
QueueOf(list) == [q \in Thread \cup {Queue} |-> IF q = Queue THEN list ELSE <<>>]

LEMMA QueueReplaced ==
  ASSUME NEW st, NEW rd, NEW sl, NEW queue, NEW cur, NEW rest,
         NEW r, r = Fields(st, rd, sl, QueueOf(queue), cur)
  PROVE  /\ r.wq[Queue] = queue
         /\ [r EXCEPT !.wq[Queue] = rest] = Fields(st, rd, sl, QueueOf(rest), cur)
<1>1. QueueOf(queue)[Queue] = queue /\ [QueueOf(queue) EXCEPT ![Queue] = rest] = QueueOf(rest)
  BY Zenon DEF QueueOf
<1>2. r.wq = QueueOf(queue) /\ \A x : [r EXCEPT !.wq = x] = Fields(st, rd, sl, x, cur)
  BY DEF Fields
<1>3. QED  BY <1>1, <1>2, Zenon

LEMMA ReleasedRecord ==
  ASSUME NEW st, NEW rd, NEW sl, NEW queue, NEW cur
  PROVE  P!ReleaseAll(Fields(st, rd, sl, QueueOf(queue), cur), Queue) =
         Fields(StateAwake(st, queue), rd \o queue, sl, QueueOf(<<>>), cur)
<1>1. PICK r : r = Fields(st, rd, sl, QueueOf(queue), cur)
  OBVIOUS
<1>2. PICK qs : qs = QueueOf(queue)
  OBVIOUS
<1>3. PICK st1 : st1 = StateAwake(st, queue)
  OBVIOUS
<1>4. PICK found : found = rd \o queue
  BY Zenon
<1>5. r.wq[Queue] = queue /\ r.state = st /\ r.ready = rd
  BY <1>1, QueueReplaced, FieldReplaced, SMTT(30)
<1>6. PICK r1 : r1 = [r EXCEPT !.state =
                        [t \in Thread |-> IF t \in P!Range(queue) THEN "kReady" ELSE @[t]]]
  BY Zenon
<1>7. PICK r2 : r2 = [r1 EXCEPT !.ready = @ \o queue]
  BY Zenon
<1>8. P!ReleaseAll(r, Queue) = [r2 EXCEPT !.wq[Queue] = <<>>]
  BY <1>5, <1>6, <1>7, Zenon DEF P!ReleaseAll
<1>9. r1 = Fields(st1, rd, sl, qs, cur)
  <2>1. [r EXCEPT !.state = st1] = Fields(st1, rd, sl, qs, cur)
    BY <1>1, <1>2, FieldReplaced
  <2>2. st1 = [t \in Thread |-> IF t \in P!Range(queue) THEN "kReady" ELSE r.state[t]]
    BY <1>3, <1>5, Zenon DEF StateAwake
  <2>3. QED  BY <1>6, <2>1, <2>2, Zenon
<1>10. r2 = Fields(st1, found, sl, qs, cur)
  <2>1. r1.ready = rd /\ [r1 EXCEPT !.ready = found] = Fields(st1, found, sl, qs, cur)
    BY <1>9, FieldReplaced
  <2>2. QED  BY <1>4, <1>7, <2>1, Zenon
<1>11. [r2 EXCEPT !.wq[Queue] = <<>>] = Fields(st1, found, sl, QueueOf(<<>>), cur)
  BY <1>2, <1>10, QueueReplaced
<1>12. QED  BY <1>1, <1>3, <1>4, <1>8, <1>11, Zenon

\* A round of ReleaseAndProcessAllBeforeProceeding: the first waiter runs.
LEMMA HandsOver ==
  ASSUME UntimedInv, wq # <<>>, NEW w,
         Called(w, "kReady", {Head(wq)}, Entered(DOMAIN left, Tail(wq)))
  PROVE  ScheduledRight
<1>1. /\ w \in P!DueSleepers(Untimed) /\ P!Range(w) = DOMAIN left \ DOMAIN left'
      /\ Untimed' = P!SwitchTo(P!WakeUpTasks(Entered(DOMAIN left, Tail(wq)), w),
                               CHOOSE t \in {Head(wq)} : TRUE, "kReady")
  BY Zenon DEF Called
<1>2. (CHOOSE t \in {Head(wq)} : TRUE) = Head(wq) /\ Untimed.wq[Queue] = wq /\ Queue \in P!WaitQueue
  BY DEF Untimed, P!WaitQueue
<1>3. P!WakeUpTasks(Entered(DOMAIN left, Tail(wq)), w)
         = [P!WakeUpTasks(Untimed, w) EXCEPT !.wq[Queue] = Tail(@)]
  <2>1. /\ Entered(DOMAIN left, Tail(wq))
              = Fields(state, ready, DOMAIN left, QueueOf(Tail(wq)), current)
        /\ Untimed = Fields(state, ready, DOMAIN left, QueueOf(wq), current)
    BY DEF Entered, Untimed, Fields, QueueOf
  <2>2. PICK st : st = StateAwake(state, w)
    OBVIOUS
  <2>3. PICK found : found = ready \o w
    BY Zenon
  <2>4. PICK others : others = DOMAIN left \ P!Range(w)
    BY Zenon
  <2>5. /\ P!WakeUpTasks(Untimed, w) = Fields(st, found, others, QueueOf(wq), current)
        /\ P!WakeUpTasks(Entered(DOMAIN left, Tail(wq)), w)
              = Fields(st, found, others, QueueOf(Tail(wq)), current)
    <3>1. \A qs : P!WakeUpTasks(Fields(state, ready, DOMAIN left, qs, current), w)
                     = Fields(st, found, others, qs, current)
      BY <2>2, <2>3, <2>4, WokenRecord, SMTT(30)
    <3>2. QED  BY <2>1, <3>1, Zenon
  <2>6. \A s, list : s = Fields(st, found, others, QueueOf(wq), current)
             => /\ s.wq[Queue] = wq
                /\ [s EXCEPT !.wq[Queue] = list] = Fields(st, found, others, QueueOf(list), current)
    BY QueueReplaced
  <2>7. PICK s1 : s1 = P!WakeUpTasks(Untimed, w)
    OBVIOUS
  <2>8. /\ s1.wq[Queue] = wq
        /\ \A list : [s1 EXCEPT !.wq[Queue] = list]
                         = Fields(st, found, others, QueueOf(list), current)
    BY <2>5, <2>6, <2>7, Zenon
  <2>9. [s1 EXCEPT !.wq[Queue] = Tail(@)] = Fields(st, found, others, QueueOf(Tail(wq)), current)
    BY <2>8, Zenon
  <2>10. QED  BY <2>5, <2>7, <2>9, Zenon
<1>4. Untimed' = P!ReleaseAndRunFirst(Untimed, w, Queue)
  BY <1>1, <1>2, <1>3, Zenon DEF P!ReleaseAndRunFirst
<1>5. UntimedStep
  BY <1>1, <1>4, StepOfScheduler
<1>6. UntimedInv'
  <2>1. Untimed.current = current
    BY SMTT(30) DEF Untimed
  <2>2. LET s1 == P!ReleaseAndRunFirst(Untimed, w, Queue)
        IN  s1 \in P!SchedulerState /\ P!Consistent(s1) /\ s1.current \in Thread
    BY <1>1, <1>2, <2>1, SlotsApart, P!ReleaseFirstConsistent, SMTT(30) DEF UntimedInv
  <2>3. QED  BY <1>4, <2>2, Reached
<1>7. QED  BY <1>5, <1>6, SMTT(30) DEF ScheduledRight

\* ReleaseAll moves the waiters to the list of ready threads.
LEMMA AllReleased ==
  ASSUME UntimedInv, ReleaseAll
  PROVE  ScheduledRight
<1>1. Untimed' = P!ReleaseAll(Untimed, Queue) /\ wq # <<>> /\ left' = left
  <2>1. /\ wq # <<>> /\ left' = left /\ state' = StateAwake(state, wq) /\ ready' = ready \o wq
        /\ wq' = <<>> /\ current' = current
    BY DEF ReleaseAll, P!Range, Range, StateAwake
  <2>2. Untimed = Fields(state, ready, DOMAIN left, QueueOf(wq), current)
    BY DEF Untimed, Fields, QueueOf
  <2>3. Untimed' = Fields(StateAwake(state, wq), ready \o wq, DOMAIN left, QueueOf(<<>>), current)
    BY <2>1 DEF Untimed, Fields, QueueOf
  <2>4. P!ReleaseAll(Fields(state, ready, DOMAIN left, QueueOf(wq), current), Queue)
           = Fields(StateAwake(state, wq), ready \o wq, DOMAIN left, QueueOf(<<>>), current)
    BY ReleasedRecord
  <2>5. QED  BY <2>1, <2>2, <2>3, <2>4, Zenon
<1>2. UntimedStep
  <2>1. <<>> \in P!DueSleepers(Untimed) /\ P!Range(<<>>) = DOMAIN left \ DOMAIN left'
    <3>1. <<>> \in [1..0 -> Untimed.sleeping] /\ IsInjective(<<>>)
      BY DEF IsInjective
    <3>2. Untimed.sleeping \in SUBSET Thread
      BY DEF UntimedInv, P!SchedulerState
    <3>3. <<>> \in P!DueSleepers(Untimed)
      BY <3>1, <3>2, DueOfAny, Zenon
    <3>4. P!Range(<<>>) = {}
      BY DEF P!Range
    <3>5. QED  BY <1>1, <3>3, <3>4, SMTT(30)
  <2>2. QED  BY <1>1, <2>1, StepOfScheduler
<1>3. UntimedInv'
  <2>1. Untimed.current = current /\ Queue \in P!WaitQueue
    BY DEF Untimed, P!WaitQueue
  <2>2. LET s1 == P!ReleaseAll(Untimed, Queue)
        IN  s1 \in P!SchedulerState /\ P!Consistent(s1) /\ s1.current \in Thread
    BY <2>1, SlotsApart, P!ReleaseAllConsistent, Zenon DEF UntimedInv
  <2>3. QED  BY <1>1, <2>2, Reached
<1>4. QED  BY <1>2, <1>3 DEF ScheduledRight

\* When scheduling starts.
LEMMA UntimedInitially == TimeInit => UntimedInv
<1> SUFFICES ASSUME TimeInit PROVE UntimedInv
  OBVIOUS
<1>1. Boot \in Seq(Thread) /\ Boot # <<>> /\ Range(Boot) = Thread /\ IsInjective(Boot)
  BY BootListsAll, TimeAssumption DEF TimeAssumption, Injection
<1>2. /\ Head(Boot) \in Thread /\ Tail(Boot) \in Seq(Thread) /\ IsInjective(Tail(Boot))
      /\ Range(Tail(Boot)) = Thread \ {Head(Boot)}
  <2>1. P!IsList(Boot, Thread)
    BY <1>1 DEF P!IsList, P!IsInjective, IsInjective
  <2>2. P!IsList(Tail(Boot), Thread) /\ P!Range(Tail(Boot)) = P!Range(Boot) \ {Head(Boot)}
    BY <1>1, <2>1, SlotsApart, P!ListTail, SMTT(30)
  <2>3. \A f : P!Range(f) = Range(f) /\ (P!IsInjective(f) <=> IsInjective(f))
    BY DEF P!Range, Range, P!IsInjective, IsInjective
  <2>4. Head(Boot) \in Thread
    BY <1>1
  <2>5. QED  BY <1>1, <2>2, <2>3, <2>4 DEF P!IsList
<1>3. /\ Untimed.current = Head(Boot) /\ Untimed.ready = Tail(Boot) /\ Untimed.sleeping = {}
      /\ Untimed.state = [t \in Thread |-> IF t = Head(Boot) THEN "kRunning" ELSE "kReady"]
      /\ Untimed.wq = [q \in P!WaitQueue |-> <<>>] /\ current = Head(Boot)
  BY DEF TimeInit, Untimed, P!WaitQueue
<1>4. Untimed \in P!SchedulerState
  <2>1. /\ Tail(Boot) \in Seq(Thread) /\ Head(Boot) \in Thread
        /\ [t \in Thread |-> IF t = Head(Boot) THEN "kRunning" ELSE "kReady"]
              \in [Thread -> P!ThreadState]
        /\ [q \in P!WaitQueue |-> <<>>] \in [P!WaitQueue -> Seq(Thread)]
    BY <1>2 DEF P!ThreadState
  <2>2. Untimed = [state |-> Untimed.state, ready |-> Untimed.ready, sleeping |-> Untimed.sleeping,
                   wq |-> Untimed.wq, current |-> Untimed.current]
    BY DEF Untimed
  <2>3. QED  BY <1>3, <2>1, <2>2, Zenon DEF P!SchedulerState
<1>5. P!ReadyConsistent(Untimed)
  BY <1>2, <1>3 DEF P!ReadyConsistent, P!Range, Range, P!IsInjective, IsInjective
<1>6. P!WaitConsistent(Untimed)
  BY <1>3 DEF P!WaitConsistent, P!Range, P!IsInjective
<1>7. P!SleepConsistent(Untimed) /\ P!RunConsistent(Untimed)
  BY <1>3 DEF P!SleepConsistent, P!RunConsistent
<1>8. QED  BY <1>2, <1>3, <1>4, <1>5, <1>6, <1>7 DEF UntimedInv, P!Consistent

\* Every step is a step of Scheduler or leaves the threads alone.
LEMMA UntimedNext == UntimedInv /\ [TimeNext]_vars => ScheduledRight
<1> SUFFICES ASSUME UntimedInv, [TimeNext]_vars PROVE ScheduledRight
  OBVIOUS
<1>1. /\ current \in Thread /\ Untimed.current = current
      /\ Untimed \in P!SchedulerState /\ P!Consistent(Untimed) /\ Queue \in P!WaitQueue
  BY DEF UntimedInv, Untimed, P!WaitQueue
<1>0. PICK yes, no : yes = TRUE /\ no = FALSE
  BY Zenon
<1>2. CASE Tick
  <2>1. UNCHANGED <<state, ready, wq, current>> /\ DOMAIN left' = DOMAIN left
    BY <1>2, SMTT(30) DEF Tick
  <2>2. UNCHANGED Untimed
    BY <2>1 DEF Untimed
  <2>3. QED  BY <2>2, NothingScheduled
<1>3. ASSUME NEW preempt, NEW inCall,
             ScheduleAndUpdateThreads(preempt, "kReady", {}, left, wq, inCall)
      PROVE  ScheduledRight
  <2>1. UNCHANGED Untimed \/ \E w : Called(w, "kReady", {}, Entered(DOMAIN left, wq))
    BY <1>3, CallUntimed
  <2>2. QED  BY <2>1, NothingScheduled, StaysReady, SMTT(30)
<1>4. CASE TimerRoutine
  BY <1>3, <1>4, Zenon DEF TimerRoutine
<1>5. CASE Yield
  BY <1>3, <1>5, Zenon DEF Yield
<1>6. ASSUME NEW n \in Sleeps, NanoSleepUntil(n) PROVE ScheduledRight
  <2>1. PICK asleep :
            asleep = [t \in DOMAIN left \cup {current} |-> IF t = current THEN n ELSE left[t]]
    BY Zenon
  <2>2. PICK all : all = DOMAIN left \cup {current}
    BY Zenon
  <2>3. DOMAIN asleep = all /\ ScheduleAndUpdateThreads(yes, "kSleeping", {}, asleep, wq, yes)
    BY <1>0, <1>6, <2>1, <2>2, Zenon DEF NanoSleepUntil
  <2>4. UNCHANGED Untimed \/ \E w : Called(w, "kSleeping", {}, Entered(all, wq))
    BY <2>2, <2>3, CallUntimed
  <2>5. Entered(all, wq) = P!SleepCurrent(Untimed)
    <3>1. Untimed.sleeping \cup {Untimed.current} = all
      BY <2>2 DEF Untimed
    <3>2. P!SleepCurrent(Untimed) = [Untimed EXCEPT !.sleeping = all]
      BY <3>1, Zenon DEF P!SleepCurrent
    <3>3. [Untimed EXCEPT !.sleeping = all] = Entered(all, wq)
      <4>1. Untimed = Fields(state, ready, DOMAIN left, QueueOf(wq), current)
        BY DEF Untimed, Fields, QueueOf
      <4>2. Entered(all, wq) = Fields(state, ready, all, QueueOf(wq), current)
        BY DEF Entered, Fields, QueueOf
      <4>3. QED  BY <4>1, <4>2, FieldReplaced
    <3>4. QED  BY <3>2, <3>3
  <2>6. P!Linked(P!SleepCurrent(Untimed), "kSleeping") /\ P!SleepCurrent(Untimed).current = current
    <3>1. P!SleepCurrent(Untimed).current = current
      BY DEF P!SleepCurrent, Untimed
    <3>2. QED  BY <1>1, <3>1, SlotsApart, P!SleepLinked, SMTT(30)
  <2>7. QED  BY <2>4, <2>5, <2>6, NothingScheduled, GivesUp
<1>7. CASE BlockOnWaitQueue
  <2>1. PICK list : list = Append(wq, current)
    BY Zenon
  <2>2. ScheduleAndUpdateThreads(yes, "kBlockedOnWaitQueue", {}, left, list, yes)
    BY <1>0, <1>7, <2>1, Zenon DEF BlockOnWaitQueue
  <2>3. UNCHANGED Untimed \/ \E w : Called(w, "kBlockedOnWaitQueue", {}, Entered(DOMAIN left, list))
    BY <2>2, CallUntimed
  <2>4. /\ Entered(DOMAIN left, list) = P!EnqueueCurrent(Untimed, Queue)
        /\ P!EnqueueCurrent(Untimed, Queue).current = current
    <3>1. Untimed = Fields(state, ready, DOMAIN left, QueueOf(wq), current)
      BY DEF Untimed, Fields, QueueOf
    <3>2. Entered(DOMAIN left, list) = Fields(state, ready, DOMAIN left, QueueOf(list), current)
      BY DEF Entered, Fields, QueueOf
    <3>3. /\ Untimed.wq[Queue] = wq
          /\ [Untimed EXCEPT !.wq[Queue] = list]
                = Fields(state, ready, DOMAIN left, QueueOf(list), current)
      BY <3>1, QueueReplaced
    <3>4. P!EnqueueCurrent(Untimed, Queue) = [Untimed EXCEPT !.wq[Queue] = list]
      BY <1>1, <2>1, <3>3, Zenon DEF P!EnqueueCurrent
    <3>5. Fields(state, ready, DOMAIN left, QueueOf(list), current).current = current
      BY DEF Fields
    <3>6. QED  BY <3>2, <3>3, <3>4, <3>5, Zenon
  <2>5. P!Linked(P!EnqueueCurrent(Untimed, Queue), "kBlockedOnWaitQueue")
    BY <1>1, SlotsApart, P!BlockLinked
  <2>6. QED  BY <2>3, <2>4, <2>5, NothingScheduled, GivesUp, SMTT(30)
<1>8. CASE ReleaseAndProcess
  <2>1. wq # <<>> /\ ScheduleAndUpdateThreads(FALSE, "kReady", {Head(wq)}, left, Tail(wq), TRUE)
    BY <1>8, Zenon DEF ReleaseAndProcess
  <2>2. Head(wq) \in Thread \ {current}
    <3>1. Untimed.wq[Queue] = wq /\ Untimed.wq \in [P!WaitQueue -> Seq(Thread)]
      BY <1>1 DEF Untimed, P!SchedulerState, P!WaitQueue
    <3>2. wq \in Seq(Thread)
      BY <1>1, <3>1
    <3>3. Head(wq) \in Thread /\ Head(wq) \in P!Range(wq)
      BY <2>1, <3>2, SMTT(30) DEF P!Range
    <3>4. Untimed.state[Head(wq)] = "kBlockedOnWaitQueue" /\ Untimed.state[current] = "kRunning"
      BY <1>1, <3>1, <3>3 DEF P!Consistent, P!WaitConsistent, P!RunConsistent
    <3>5. QED  BY <3>3, <3>4
  <2>3. PICK forced, rest : forced = {Head(wq)} /\ rest = Tail(wq)
    BY Zenon
  <2>4. /\ forced \subseteq Thread \ {current}
        /\ ScheduleAndUpdateThreads(no, "kReady", forced, left, rest, yes)
    BY <1>0, <2>1, <2>2, <2>3, Zenon
  <2>5. UNCHANGED Untimed \/ \E w : Called(w, "kReady", forced, Entered(DOMAIN left, rest))
    BY <2>4, CallUntimed
  <2>6. QED  BY <2>1, <2>3, <2>5, NothingScheduled, HandsOver, Zenon
<1>9. CASE ReleaseAll
  BY <1>9, AllReleased, SMTT(30)
<1>10. CASE UNCHANGED vars
  <2>1. UNCHANGED Untimed
    BY <1>10 DEF vars, Untimed
  <2>2. QED  BY <2>1, NothingScheduled
<1>11. QED  BY <1>2, <1>4, <1>5, <1>6, <1>7, <1>8, <1>9, <1>10, SMTT(30) DEF TimeNext

\* Whatever the times, every thread is in the one structure its state names:
\* the ready queue, the sleepers, the wait queue or the CPU.
THEOREM UntimedAlwaysConsistent == TimeSpec => []UntimedInv
<1>1. UntimedInv /\ [TimeNext]_vars => UntimedInv'
  BY UntimedNext DEF ScheduledRight
<1>2. QED  BY <1>1, UntimedInitially, PTL DEF TimeSpec

\* The scheduler with its clock implements the scheduler without one: each timer
\* interrupt, Yield, NanoSleepUntil, Block and release, at any time and with any
\* sleepers due, is a step of Scheduler or leaves the threads where they are.
THEOREM TimedImplementsUntimed == TimeSpec => ImplementsScheduler
<1>1. UntimedInv /\ [TimeNext]_vars => UntimedInv' /\ [UntimedStep]_Untimed
  BY UntimedNext DEF ScheduledRight
<1>2. QED  BY <1>1, UntimedInitially, PTL DEF TimeSpec, ImplementsScheduler
=============================================================================
