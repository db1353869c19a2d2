-------------------------- MODULE SchedulerProofs --------------------------
(***************************************************************************)
(* What the operators of Scheduler preserve, for any number of threads.    *)
(***************************************************************************)
EXTENDS Scheduler, SequenceTheorems, TLAPS

-----------------------------------------------------------------------------
(* Lists without duplicates. *)

\* A list of items of S without duplicates.
IsList(list, S) == list \in Seq(S) /\ IsInjective(list)

\* The empty list, and how a list is seen not to be empty.
LEMMA EmptyList ==
  ASSUME NEW S
  PROVE  /\ IsList(<<>>, S) /\ Range(<<>>) = {}
         /\ \A list \in Seq(S) : list # <<>> <=> Range(list) # {}
<1>1. IsList(<<>>, S) /\ Range(<<>>) = {}
  BY EmptySeq DEF IsList, IsInjective, Range
<1>2. ASSUME NEW list \in Seq(S), list # <<>> PROVE Range(list) # {}
  <2>1. 1 \in DOMAIN list
    BY <1>2, EmptySeq, LenProperties
  <2>2. QED  BY <2>1 DEF Range
<1>3. QED  BY <1>1, <1>2

\* Linking an item at the end of a list (PushBack, EnqueueLast).
LEMMA ListAppend ==
  ASSUME NEW S, NEW list, IsList(list, S), NEW x \in S, x \notin Range(list)
  PROVE  IsList(Append(list, x), S) /\ Range(Append(list, x)) = Range(list) \cup {x}
<1>1. /\ list \in Seq(S) /\ DOMAIN list = 1..Len(list) /\ Len(list) \in Nat
      /\ \A i \in DOMAIN list : list[i] # x
  BY LenProperties DEF IsList, Range
<1>2. /\ Append(list, x) \in Seq(S) /\ DOMAIN Append(list, x) = 1..Len(list)+1
      /\ \A i \in 1..Len(list) : Append(list, x)[i] = list[i]
      /\ Append(list, x)[Len(list)+1] = x
  BY <1>1, AppendProperties, LenProperties
<1>3. IsInjective(Append(list, x))
  BY <1>1, <1>2 DEF IsList, IsInjective
<1>4. Range(Append(list, x)) = Range(list) \cup {x}
  BY <1>1, <1>2 DEF Range
<1>5. QED  BY <1>2, <1>3, <1>4 DEF IsList

\* Moving one list behind another (the round-robin list receives several threads).
LEMMA ListConcat ==
  ASSUME NEW S, NEW l1, IsList(l1, S), NEW l2, IsList(l2, S), Range(l1) \cap Range(l2) = {}
  PROVE  IsList(l1 \o l2, S) /\ Range(l1 \o l2) = Range(l1) \cup Range(l2)
<1>1. /\ l1 \in Seq(S) /\ DOMAIN l1 = 1..Len(l1) /\ Len(l1) \in Nat
      /\ l2 \in Seq(S) /\ DOMAIN l2 = 1..Len(l2) /\ Len(l2) \in Nat
  BY LenProperties DEF IsList
<1>2. /\ l1 \o l2 \in Seq(S) /\ DOMAIN (l1 \o l2) = 1..Len(l1)+Len(l2)
      /\ \A i \in 1..Len(l1)+Len(l2) :
            (l1 \o l2)[i] = IF i <= Len(l1) THEN l1[i] ELSE l2[i - Len(l1)]
  BY <1>1, ConcatProperties, LenProperties
<1>3. ASSUME NEW i \in 1..Len(l1), NEW j \in 1..Len(l2) PROVE l1[i] # l2[j]
  BY <1>1 DEF Range
<1>4. IsInjective(l1 \o l2)
  <2> SUFFICES ASSUME NEW i \in 1..Len(l1)+Len(l2), NEW j \in 1..Len(l1)+Len(l2),
                      (l1 \o l2)[i] = (l1 \o l2)[j]
               PROVE  i = j
    BY <1>2 DEF IsInjective
  <2>1. CASE i <= Len(l1) /\ j <= Len(l1)
    BY <2>1, <1>1, <1>2 DEF IsList, IsInjective
  <2>2. CASE i > Len(l1) /\ j > Len(l1)
    <3>1. i - Len(l1) \in DOMAIN l2 /\ j - Len(l1) \in DOMAIN l2 /\ l2[i - Len(l1)] = l2[j - Len(l1)]
      BY <2>2, <1>1, <1>2
    <3>2. i - Len(l1) = j - Len(l1)
      BY <3>1 DEF IsList, IsInjective
    <3>3. QED  BY <3>2, <1>1
  <2>3. CASE i <= Len(l1) /\ j > Len(l1)
    <3>1. i \in 1..Len(l1) /\ j - Len(l1) \in 1..Len(l2)  BY <2>3, <1>1
    <3>2. QED  BY <3>1, <2>3, <1>1, <1>2, <1>3
  <2>4. CASE i > Len(l1) /\ j <= Len(l1)
    <3>1. j \in 1..Len(l1) /\ i - Len(l1) \in 1..Len(l2)  BY <2>4, <1>1
    <3>2. QED  BY <3>1, <2>4, <1>1, <1>2, <1>3
  <2>5. QED  BY <1>1, <2>1, <2>2, <2>3, <2>4
<1>5. QED  BY <1>2, <1>4, RangeConcatenation, <1>1 DEF IsList

\* Linking an item in front (PushFront, the cleaning stacks).
LEMMA ListCons ==
  ASSUME NEW S, NEW list, IsList(list, S), NEW x \in S, x \notin Range(list)
  PROVE  IsList(<<x>> \o list, S) /\ Range(<<x>> \o list) = Range(list) \cup {x}
<1>1. IsList(<<x>>, S) /\ Range(<<x>>) = {x}
  BY DEF IsList, IsInjective, Range
<1>2. QED  BY <1>1, ListConcat

\* Taking the first item (PopFront, Dequeue, Pop).
LEMMA ListTail ==
  ASSUME NEW S, NEW list, IsList(list, S), list # <<>>
  PROVE  /\ Head(list) \in S /\ Head(list) \in Range(list)
         /\ IsList(Tail(list), S) /\ Range(Tail(list)) = Range(list) \ {Head(list)}
<1>1. /\ list \in Seq(S) /\ DOMAIN list = 1..Len(list) /\ Len(list) \in Nat \ {0}
  BY LenProperties, EmptySeq DEF IsList
<1>2. /\ Head(list) \in S /\ Head(list) = list[1]
      /\ Tail(list) \in Seq(S) /\ DOMAIN Tail(list) = 1..Len(list)-1
      /\ \A i \in 1..Len(list)-1 : Tail(list)[i] = list[i+1]
  BY <1>1, HeadTailProperties, LenProperties
<1>3. Head(list) \in Range(list)
  BY <1>1, <1>2 DEF Range
<1>4. IsInjective(Tail(list))
  <2> SUFFICES ASSUME NEW i \in 1..Len(list)-1, NEW j \in 1..Len(list)-1,
                      Tail(list)[i] = Tail(list)[j]
               PROVE  i = j
    BY <1>2 DEF IsInjective
  <2>1. i+1 \in DOMAIN list /\ j+1 \in DOMAIN list /\ list[i+1] = list[j+1]
    BY <1>1, <1>2
  <2>2. i+1 = j+1
    BY <2>1 DEF IsList, IsInjective
  <2>3. QED  BY <2>2
<1>5. Range(Tail(list)) = Range(list) \ {Head(list)}
  <2>1. ASSUME NEW i \in 1..Len(list)-1
        PROVE  Tail(list)[i] \in Range(list) /\ Tail(list)[i] # Head(list)
    <3>1. i+1 \in DOMAIN list /\ 1 \in DOMAIN list /\ i+1 # 1  BY <1>1
    <3>2. list[i+1] # list[1]  BY <3>1 DEF IsList, IsInjective
    <3>3. QED  BY <1>2, <3>1, <3>2 DEF Range
  <2>2. ASSUME NEW i \in 1..Len(list), list[i] # Head(list)
        PROVE  list[i] \in Range(Tail(list))
    <3>1. i-1 \in 1..Len(list)-1 /\ i = (i-1)+1  BY <1>1, <1>2, <2>2
    <3>2. QED  BY <1>2, <3>1 DEF Range
  <2>3. QED  BY <1>1, <1>2, <2>1, <2>2 DEF Range
<1>6. QED  BY <1>2, <1>3, <1>4, <1>5 DEF IsList

\* Unlinking an item from the middle of a list (Remove).
LEMMA ListUnlink ==
  ASSUME NEW S, NEW list, IsList(list, S), NEW x
  PROVE  IsList(Unlink(list, x), S) /\ Range(Unlink(list, x)) = Range(list) \ {x}
<1>1. CASE x \notin Range(list)
  BY <1>1 DEF Unlink
<1>2. CASE x \in Range(list)
  <2> DEFINE k == CHOOSE i \in DOMAIN list : list[i] = x
             l1 == SubSeq(list, 1, k-1)
             l2 == SubSeq(list, k+1, Len(list))
  <2>1. list \in Seq(S) /\ DOMAIN list = 1..Len(list) /\ Len(list) \in Nat
    BY LenProperties DEF IsList
  <2>2. k \in 1..Len(list) /\ list[k] = x
    <3>1. \E i \in DOMAIN list : list[i] = x  BY <1>2 DEF Range
    <3>2. k \in DOMAIN list /\ list[k] = x  BY <3>1
    <3>3. QED  BY <3>2, <2>1
  <2> HIDE DEF k
  <2>3. /\ l1 \in Seq(S) /\ DOMAIN l1 = 1..k-1 /\ \A i \in 1..k-1 : l1[i] = list[i]
    <3>1. 1..k-1 \subseteq 1..Len(list) /\ k-1 \in Nat  BY <2>1, <2>2
    <3>2. \A i \in 1..k-1 : list[i] \in S  BY <2>1, <3>1, ElementOfSeq
    <3>3. QED  BY <2>1, <2>2, <3>1, <3>2
  <2>4. /\ l2 \in Seq(S) /\ DOMAIN l2 = 1..Len(list)-k
        /\ \A i \in 1..Len(list)-k : l2[i] = list[i+k]
    <3>1. \A i \in k+1..Len(list) : list[i] \in S  BY <2>1, <2>2, ElementOfSeq
    <3>2. QED  BY <2>1, <2>2, <3>1
  <2>5. \A i, j \in 1..Len(list) : list[i] = list[j] => i = j
    BY <2>1 DEF IsList, IsInjective
  <2> HIDE DEF l1, l2
  <2>6. IsList(l1, S) /\ IsList(l2, S)
    <3>1. IsInjective(l1)  BY <2>1, <2>2, <2>3, <2>5 DEF IsInjective
    <3>2. IsInjective(l2)
      <4> SUFFICES ASSUME NEW i \in 1..Len(list)-k, NEW j \in 1..Len(list)-k, l2[i] = l2[j]
                   PROVE  i = j
        BY <2>4 DEF IsInjective
      <4>1. i+k \in 1..Len(list) /\ j+k \in 1..Len(list) /\ list[i+k] = list[j+k]
        BY <2>1, <2>2, <2>4
      <4>2. i+k = j+k  BY <4>1, <2>5
      <4>3. QED  BY <4>2, <2>1, <2>2
    <3>3. QED  BY <2>3, <2>4, <3>1, <3>2 DEF IsList
  <2>7. ASSUME NEW i \in 1..k-1, NEW j \in 1..Len(list)-k PROVE l1[i] # l2[j]
    <3>1. i \in 1..Len(list) /\ j+k \in 1..Len(list) /\ i # j+k  BY <2>1, <2>2
    <3>2. QED  BY <3>1, <2>3, <2>4, <2>5
  <2>8. Range(l1) \cap Range(l2) = {}
    BY <2>3, <2>4, <2>7 DEF Range
  <2>9. Range(l1) \cup Range(l2) = Range(list) \ {x}
    <3>1. ASSUME NEW i \in 1..k-1 PROVE l1[i] \in Range(list) \ {x}
      <4>1. i \in 1..Len(list) /\ i # k  BY <2>1, <2>2
      <4>2. QED  BY <4>1, <2>1, <2>2, <2>3, <2>5 DEF Range
    <3>2. ASSUME NEW i \in 1..Len(list)-k PROVE l2[i] \in Range(list) \ {x}
      <4>1. i+k \in 1..Len(list) /\ i+k # k  BY <2>1, <2>2
      <4>2. QED  BY <4>1, <2>1, <2>2, <2>4, <2>5 DEF Range
    <3>3. ASSUME NEW i \in 1..Len(list), list[i] # x PROVE list[i] \in Range(l1) \cup Range(l2)
      <4>1. CASE i < k
        <5>1. i \in 1..k-1  BY <4>1, <2>1, <2>2
        <5>2. QED  BY <5>1, <2>3 DEF Range
      <4>2. CASE i > k
        <5>1. i-k \in 1..Len(list)-k /\ (i-k)+k = i  BY <4>2, <2>1, <2>2
        <5>2. QED  BY <5>1, <2>4 DEF Range
      <4>3. QED  BY <4>1, <4>2, <3>3, <2>1, <2>2
    <3>4. QED  BY <2>1, <2>3, <2>4, <3>1, <3>2, <3>3 DEF Range
  <2>10. Unlink(list, x) = l1 \o l2
    BY <1>2 DEF Unlink, k, l1, l2
  <2>11. QED  BY <2>6, <2>8, <2>9, <2>10, ListConcat
<1>3. QED  BY <1>1, <1>2

-----------------------------------------------------------------------------
(* The operators of the scheduler. *)

Runnable == {"kReady", "kRunning"}

\* The threads outside X neither end nor begin between s and s1, and none of them
\* that could run is put to sleep or blocked.
Frame(s, s1, X) ==
    \A t \in ThreadSlot \ X :
        /\ s.state[t] \in Live => s1.state[t] \in Live
        /\ s.state[t] \notin Live => s1.state[t] = s.state[t]
        /\ s.state[t] \in Runnable => s1.state[t] \in Runnable

\* Between the call that links the current thread into a queue and the context
\* switch, the thread is linked as if it already were in the state it gets.
Linked(s, threadState) ==
    LET view == [t \in ThreadSlot |-> IF t = s.current THEN threadState ELSE s.state[t]]
    IN  /\ s \in SchedulerState
        /\ s.current \in ThreadSlot
        /\ ReadyConsistent(s) /\ RunConsistent(s)
        /\ \A q \in WaitQueue : IsInjective(s.wq[q])
        /\ \A q, r \in WaitQueue : q # r => Range(s.wq[q]) \cap Range(s.wq[r]) = {}
        /\ \A t \in ThreadSlot : /\ view[t] = "kBlockedOnWaitQueue"
                                        <=> \E q \in WaitQueue : t \in Range(s.wq[q])
                                 /\ view[t] = "kSleeping" <=> t \in s.sleeping

\* A consistent scheduler is linked for a thread that enters no queue.
LEMMA ConsistentLinked ==
  ASSUME NEW s \in SchedulerState, Consistent(s), s.current \in ThreadSlot,
         NEW threadState \in ThreadState \ {"kSleeping", "kBlockedOnWaitQueue"}
  PROVE  Linked(s, threadState)
<1>1. s.state[s.current] = "kRunning"
  BY DEF Consistent, RunConsistent
<1>2. QED
  BY <1>1 DEF Linked, Consistent, WaitConsistent, SleepConsistent

\* A scheduler that is linked for the running current thread is consistent.
LEMMA LinkedConsistent ==
  ASSUME NEW s, Linked(s, "kReady")
  PROVE  s \in SchedulerState /\ Consistent(s)
<1>1. s.state[s.current] = "kRunning"
  BY DEF Linked, RunConsistent
<1>2. QED
  BY <1>1 DEF Linked, Consistent, WaitConsistent, SleepConsistent

\* NanoSleepUntil links the current thread into the sleep queue.
LEMMA SleepLinked ==
  ASSUME NEW s \in SchedulerState, Consistent(s), s.current \in ThreadSlot
  PROVE  Linked(SleepCurrent(s), "kSleeping")
<1>1. s.state[s.current] = "kRunning"
  BY DEF Consistent, RunConsistent
<1>2. SleepCurrent(s) \in SchedulerState
  BY DEF SchedulerState, SleepCurrent
<1>3. QED
  BY <1>1, <1>2 DEF Linked, Consistent, WaitConsistent, SleepConsistent, ReadyConsistent,
                    RunConsistent, SleepCurrent, SchedulerState

\* BlockOnWaitQueue links the current thread into a wait queue it is not in.
LEMMA BlockLinked ==
  ASSUME NEW s \in SchedulerState, Consistent(s), s.current \in ThreadSlot, NEW q \in WaitQueue
  PROVE  Linked(EnqueueCurrent(s, q), "kBlockedOnWaitQueue")
<1> DEFINE s1 == EnqueueCurrent(s, q)
<1>1. s.state[s.current] = "kRunning" /\ s.wq \in [WaitQueue -> Seq(ThreadSlot)]
  BY DEF Consistent, RunConsistent, SchedulerState
<1>2. \A r \in WaitQueue : s.current \notin Range(s.wq[r])
  BY <1>1 DEF Consistent, WaitConsistent
<1>3. IsList(Append(s.wq[q], s.current), ThreadSlot)
      /\ Range(Append(s.wq[q], s.current)) = Range(s.wq[q]) \cup {s.current}
  BY <1>1, <1>2, ListAppend DEF Consistent, WaitConsistent, IsList
<1>4. /\ s1.wq = [s.wq EXCEPT ![q] = Append(s.wq[q], s.current)] /\ s1.state = s.state
      /\ s1.ready = s.ready /\ s1.sleeping = s.sleeping /\ s1.current = s.current
      /\ s1 \in SchedulerState
  BY <1>3 DEF EnqueueCurrent, SchedulerState, IsList
<1> HIDE DEF s1
<1>5. \A r \in WaitQueue : Range(s1.wq[r]) = IF r = q THEN Range(s.wq[q]) \cup {s.current} ELSE Range(s.wq[r])
  BY <1>1, <1>3, <1>4
<1>6. \A r \in WaitQueue : IsInjective(s1.wq[r])
  BY <1>1, <1>3, <1>4 DEF Consistent, WaitConsistent, IsList
<1>7. \A r1, r2 \in WaitQueue : r1 # r2 => Range(s1.wq[r1]) \cap Range(s1.wq[r2]) = {}
  BY <1>2, <1>5 DEF Consistent, WaitConsistent
<1>8. \A t \in ThreadSlot :
        (t = s.current \/ s.state[t] = "kBlockedOnWaitQueue")
           <=> \E r \in WaitQueue : t \in Range(s1.wq[r])
  BY <1>5 DEF Consistent, WaitConsistent
<1>9. Linked(s1, "kBlockedOnWaitQueue")
  BY <1>1, <1>4, <1>6, <1>7, <1>8 DEF Linked, Consistent, SleepConsistent, ReadyConsistent,
                                      RunConsistent
<1>10. QED  BY <1>9 DEF s1

\* What WakeUpTasks finds due is asleep, and listed once.
LEMMA DueList ==
  ASSUME NEW s \in SchedulerState, NEW w \in DueSleepers(s)
  PROVE  IsList(w, ThreadSlot) /\ Range(w) \subseteq s.sleeping
<1>1. PICK m \in 0..Cardinality(s.sleeping) : w \in [1..m -> s.sleeping] /\ IsInjective(w)
  BY DEF DueSleepers, Injection
<1>2. m \in Nat
  BY <1>1
<1>3. w \in Seq(s.sleeping)
  BY <1>1, <1>2
<1>4. QED
  BY <1>1, <1>3, RangeOfSeq, SeqMonotonic DEF IsList, SchedulerState

\* WakeUpTasks moves the due sleepers from the sleep queue to the ready list.
LEMMA WakeUpLinked ==
  ASSUME NEW s, NEW threadState, Linked(s, threadState),
         NEW w \in DueSleepers(s), s.current \notin Range(w)
  PROVE  LET s1 == WakeUpTasks(s, w)
         IN  /\ Linked(s1, threadState)
             /\ s1.current = s.current /\ s1.wq = s.wq /\ s1.ready = s.ready \o w
             /\ Frame(s, s1, {})
<1> DEFINE s1 == WakeUpTasks(s, w)
<1>1. /\ s \in SchedulerState /\ IsList(s.ready, ThreadSlot)
      /\ \A t \in ThreadSlot : t \in Range(s.ready) <=> s.state[t] = "kReady"
      /\ \A t \in ThreadSlot : t \in Range(w) => s.state[t] = "kSleeping"
      /\ IsList(w, ThreadSlot) /\ Range(w) \subseteq s.sleeping
  BY DueList DEF Linked, SchedulerState, ReadyConsistent, IsList
<1>2. IsList(s.ready \o w, ThreadSlot) /\ Range(s.ready \o w) = Range(s.ready) \cup Range(w)
  <2>1. Range(s.ready) \subseteq ThreadSlot
    BY <1>1, RangeOfSeq DEF IsList
  <2>2. Range(s.ready) \cap Range(w) = {}
    BY <1>1, <2>1
  <2>3. QED  BY <1>1, <2>2, ListConcat
<1>3. /\ s1.wq = s.wq /\ s1.ready = s.ready \o w /\ s1.current = s.current
      /\ s1.sleeping = s.sleeping \ Range(w)
      /\ \A t \in ThreadSlot : s1.state[t] = IF t \in Range(w) THEN "kReady" ELSE s.state[t]
      /\ s1 \in SchedulerState
  BY <1>1, <1>2 DEF WakeUpTasks, SchedulerState, IsList, ThreadState
<1> HIDE DEF s1
<1>4. ReadyConsistent(s1)
  BY <1>1, <1>2, <1>3 DEF ReadyConsistent, IsList
<1>5. RunConsistent(s1)
  BY <1>1, <1>3 DEF RunConsistent, Linked
<1>6. Linked(s1, threadState)
  BY <1>1, <1>3, <1>4, <1>5 DEF Linked
<1>7. Frame(s, s1, {})
  BY <1>1, <1>3 DEF Frame, Live, Runnable
<1>8. QED  BY <1>3, <1>6, <1>7 DEF s1

\* The next thread has been taken out of its queue, the current one is linked.
Parting(s, next, threadState) ==
    LET view == [t \in ThreadSlot |-> IF t = s.current THEN threadState ELSE s.state[t]]
    IN  /\ s \in SchedulerState
        /\ s.current \in ThreadSlot /\ next \in ThreadSlot /\ next # s.current
        /\ RunConsistent(s)
        /\ IsInjective(s.ready)
        /\ \A q \in WaitQueue : IsInjective(s.wq[q])
        /\ \A q, r \in WaitQueue : q # r => Range(s.wq[q]) \cap Range(s.wq[r]) = {}
        /\ \A t \in ThreadSlot :
              /\ t \in Range(s.ready) <=> t # next /\ s.state[t] = "kReady"
              /\ (\E q \in WaitQueue : t \in Range(s.wq[q]))
                    <=> t # next /\ view[t] = "kBlockedOnWaitQueue"
              /\ t \in s.sleeping <=> t # next /\ view[t] = "kSleeping"

\* The context switch gives the leaving thread the state it is linked for.
LEMMA SwitchToConsistent ==
  ASSUME NEW s, NEW next, NEW threadState \in ThreadState \ {"kRunning"},
         Parting(s, next, threadState)
  PROVE  LET s1 == SwitchTo(s, next, threadState)
         IN  /\ s1 \in SchedulerState /\ Consistent(s1)
             /\ s1.current = next /\ s1.wq = s.wq
             /\ \A t \in ThreadSlot :
                   s1.state[t] = IF t = s.current THEN threadState
                                 ELSE IF t = next THEN "kRunning" ELSE s.state[t]
<1> DEFINE s1 == SwitchTo(s, next, threadState)
           c == s.current
<1>1. /\ s \in SchedulerState /\ c \in ThreadSlot /\ next \in ThreadSlot /\ next # c
      /\ s.state[c] = "kRunning" /\ IsList(s.ready, ThreadSlot) /\ c \notin Range(s.ready)
  BY DEF Parting, RunConsistent, IsList, SchedulerState
<1>2. /\ IsList(Append(s.ready, c), ThreadSlot)
      /\ Range(Append(s.ready, c)) = Range(s.ready) \cup {c}
  BY <1>1, ListAppend
<1>3. /\ s1 \in SchedulerState /\ s1.current = next /\ s1.wq = s.wq /\ s1.sleeping = s.sleeping
      /\ s1.state = [s.state EXCEPT ![next] = "kRunning", ![c] = threadState]
      /\ s1.ready = IF threadState = "kReady" THEN Append(s.ready, c) ELSE s.ready
  BY <1>1, <1>2 DEF SwitchTo, SchedulerState, IsList, ThreadState
<1>4. \A t \in ThreadSlot :
        s1.state[t] = IF t = c THEN threadState ELSE IF t = next THEN "kRunning" ELSE s.state[t]
  BY <1>1, <1>3 DEF SchedulerState
<1> HIDE DEF s1
<1>5. ReadyConsistent(s1)
  BY <1>1, <1>2, <1>3, <1>4 DEF ReadyConsistent, Parting, IsList
<1>6. WaitConsistent(s1)
  BY <1>1, <1>3, <1>4 DEF WaitConsistent, Parting
<1>7. SleepConsistent(s1)
  BY <1>1, <1>3, <1>4 DEF SleepConsistent, Parting
<1>8. RunConsistent(s1)
  BY <1>1, <1>3, <1>4 DEF RunConsistent, Parting
<1>9. QED  BY <1>3, <1>4, <1>5, <1>6, <1>7, <1>8 DEF Consistent, s1

\* ScheduleAndUpdateThreads hands the core to the first ready thread.
LEMMA RescheduleConsistent ==
  ASSUME NEW s, NEW threadState \in ThreadState \ {"kRunning"}, Linked(s, threadState),
         NEW w \in DueSleepers(s), s.current \notin Range(w), ~NeedsIdle(s, w)
  PROVE  LET s1 == Reschedule(s, w, threadState)
         IN  /\ s1 \in SchedulerState /\ Consistent(s1)
             /\ s1.current \in ThreadSlot /\ s1.wq = s.wq
             /\ s1.state[s.current] = threadState
             /\ Frame(s, s1, {s.current})
<1> DEFINE s2 == WakeUpTasks(s, w)
           s3 == [s2 EXCEPT !.ready = Tail(@)]
           next == Head(s2.ready)
           s1 == SwitchTo(s3, next, threadState)
<1>1. /\ Linked(s2, threadState) /\ s2.current = s.current /\ s2.wq = s.wq /\ s2.ready # <<>>
      /\ Frame(s, s2, {})
  BY WakeUpLinked DEF NeedsIdle
<1> HIDE DEF s2
<1>2. Reschedule(s, w, threadState) = s1
  BY <1>1 DEF Reschedule, s2
<1>3. /\ next \in ThreadSlot /\ next \in Range(s2.ready) /\ s2.state[next] = "kReady"
      /\ IsList(Tail(s2.ready), ThreadSlot) /\ Range(Tail(s2.ready)) = Range(s2.ready) \ {next}
  <2>1. IsList(s2.ready, ThreadSlot)
    BY <1>1 DEF Linked, ReadyConsistent, IsList, SchedulerState
  <2>2. QED
    BY <1>1, <2>1, ListTail DEF Linked, ReadyConsistent
<1>4. /\ s3 \in SchedulerState /\ s3.ready = Tail(s2.ready) /\ s3.state = s2.state
      /\ s3.wq = s2.wq /\ s3.sleeping = s2.sleeping /\ s3.current = s2.current
  BY <1>1, <1>3 DEF Linked, SchedulerState, IsList
<1> HIDE DEF next, s3
<1>5. s2.state[s2.current] = "kRunning"
  BY <1>1 DEF Linked, RunConsistent
<1>6. Parting(s3, next, threadState)
  <2> DEFINE view == [t \in ThreadSlot |-> IF t = s3.current THEN threadState ELSE s3.state[t]]
  <2>1. next # s3.current /\ view[next] = "kReady"
    BY <1>3, <1>4, <1>5
  <2>2. ASSUME NEW t \in ThreadSlot
        PROVE  /\ t \in Range(s3.ready) <=> t # next /\ s3.state[t] = "kReady"
               /\ (\E q \in WaitQueue : t \in Range(s3.wq[q]))
                     <=> t # next /\ view[t] = "kBlockedOnWaitQueue"
               /\ t \in s3.sleeping <=> t # next /\ view[t] = "kSleeping"
    <3>1. /\ t \in Range(s2.ready) <=> s2.state[t] = "kReady"
          /\ view[t] = "kBlockedOnWaitQueue" <=> \E q \in WaitQueue : t \in Range(s2.wq[q])
          /\ view[t] = "kSleeping" <=> t \in s2.sleeping
      BY <1>1, <1>4 DEF Linked, ReadyConsistent
    <3>2. QED  BY <1>3, <1>4, <2>1, <3>1
  <2>3. RunConsistent(s3) /\ s3.current \in ThreadSlot
    BY <1>1, <1>4 DEF Linked, RunConsistent
  <2>4. /\ IsInjective(s3.ready) /\ \A q \in WaitQueue : IsInjective(s3.wq[q])
        /\ \A q, r \in WaitQueue : q # r => Range(s3.wq[q]) \cap Range(s3.wq[r]) = {}
    BY <1>1, <1>3, <1>4 DEF Linked, IsList
  <2>5. QED  BY <1>3, <1>4, <2>1, <2>2, <2>3, <2>4 DEF Parting
<1>7. /\ s1 \in SchedulerState /\ Consistent(s1) /\ s1.current = next /\ s1.wq = s.wq
      /\ \A t \in ThreadSlot :
            s1.state[t] = IF t = s.current THEN threadState
                          ELSE IF t = next THEN "kRunning" ELSE s2.state[t]
  BY <1>1, <1>4, <1>6, SwitchToConsistent
<1> HIDE DEF s1
<1>8. s.current \in ThreadSlot
  BY DEF Linked
<1>9. Frame(s, s1, {s.current})
  BY <1>1, <1>3, <1>7 DEF Frame, Live, Runnable
<1>10. s1.state[s.current] = threadState /\ s1.current \in ThreadSlot
  BY <1>3, <1>7, <1>8
<1>11. QED  BY <1>2, <1>7, <1>9, <1>10

\* A thread that stays ready may keep the core.
LEMMA YieldConsistent ==
  ASSUME NEW s \in SchedulerState, Consistent(s), s.current \in ThreadSlot,
         NEW w \in DueSleepers(s)
  PROVE  /\ s.current \notin Range(w)
         /\ LET s1 == Reschedule(s, w, "kReady")
            IN  /\ s1 \in SchedulerState /\ Consistent(s1)
                /\ s1.current \in ThreadSlot /\ s1.wq = s.wq
                /\ Frame(s, s1, {})
         /\ LET s1 == WakeUpTasks(s, w)
            IN  /\ s1 \in SchedulerState /\ Consistent(s1)
                /\ s1.current = s.current /\ s1.wq = s.wq
                /\ Frame(s, s1, {})
<1> DEFINE s1 == Reschedule(s, w, "kReady")
           s2 == WakeUpTasks(s, w)
<1>1. Linked(s, "kReady")
  BY ConsistentLinked DEF ThreadState
<1>2. s.state[s.current] = "kRunning" /\ s.current \notin Range(w)
  BY DueList DEF Consistent, RunConsistent, SleepConsistent
<1>3. s2 \in SchedulerState /\ Consistent(s2) /\ s2.current = s.current /\ s2.wq = s.wq
      /\ s2.ready = s.ready \o w /\ Frame(s, s2, {})
  BY <1>1, <1>2, WakeUpLinked, LinkedConsistent
<1>4. CASE ~NeedsIdle(s, w)
  <2>1. /\ s1 \in SchedulerState /\ Consistent(s1) /\ s1.current \in ThreadSlot /\ s1.wq = s.wq
        /\ s1.state[s.current] = "kReady" /\ Frame(s, s1, {s.current})
    BY <1>1, <1>2, <1>4, RescheduleConsistent DEF ThreadState
  <2> HIDE DEF s1
  <2>2. Frame(s, s1, {})
    BY <1>2, <2>1 DEF Frame, Live, Runnable
  <2>3. QED  BY <1>2, <1>3, <2>1, <2>2 DEF s1
<1>5. CASE NeedsIdle(s, w)
  <2>1. s1 = s2
    BY <1>3, <1>5 DEF Reschedule, NeedsIdle
  <2>2. QED  BY <1>2, <1>3, <2>1
<1>6. QED  BY <1>4, <1>5

\* ReleaseAll moves all waiters of a queue to the ready list.
LEMMA ReleaseAllConsistent ==
  ASSUME NEW s \in SchedulerState, Consistent(s), NEW q \in WaitQueue
  PROVE  LET s1 == ReleaseAll(s, q)
         IN  /\ s1 \in SchedulerState /\ Consistent(s1)
             /\ s1.current = s.current
             /\ s1.wq = [s.wq EXCEPT ![q] = <<>>]
             /\ Frame(s, s1, {})
<1> DEFINE s1 == ReleaseAll(s, q)
           W == Range(s.wq[q])
<1>1. /\ IsList(s.ready, ThreadSlot) /\ IsList(s.wq[q], ThreadSlot)
      /\ s.wq \in [WaitQueue -> Seq(ThreadSlot)]
      /\ W \subseteq ThreadSlot /\ Range(s.ready) \subseteq ThreadSlot
      /\ \A t \in ThreadSlot : t \in W => s.state[t] = "kBlockedOnWaitQueue"
      /\ \A t \in ThreadSlot : t \in Range(s.ready) <=> s.state[t] = "kReady"
  BY RangeOfSeq DEF SchedulerState, IsList, Consistent, WaitConsistent, ReadyConsistent
<1>2. IsList(s.ready \o s.wq[q], ThreadSlot) /\ Range(s.ready \o s.wq[q]) = Range(s.ready) \cup W
  <2>1. Range(s.ready) \cap W = {}
    BY <1>1
  <2>2. QED  BY <1>1, <2>1, ListConcat
<1>3. /\ s1.current = s.current /\ s1.sleeping = s.sleeping
      /\ s1.ready = s.ready \o s.wq[q]
      /\ s1.wq = [s.wq EXCEPT ![q] = <<>>]
      /\ \A t \in ThreadSlot : s1.state[t] = IF t \in W THEN "kReady" ELSE s.state[t]
      /\ s1 \in SchedulerState
  BY <1>1, <1>2, EmptyList DEF ReleaseAll, SchedulerState, IsList, ThreadState
<1> HIDE DEF s1
<1>4. \A r \in WaitQueue :
        /\ IsInjective(s1.wq[r])
        /\ Range(s1.wq[r]) = IF r = q THEN {} ELSE Range(s.wq[r])
  BY <1>1, <1>3, EmptyList DEF IsList, Consistent, WaitConsistent
<1>5. ReadyConsistent(s1)
  BY <1>1, <1>2, <1>3 DEF ReadyConsistent, IsList
<1>6. WaitConsistent(s1)
  <2>1. \A r1, r2 \in WaitQueue : r1 # r2 => Range(s1.wq[r1]) \cap Range(s1.wq[r2]) = {}
    BY <1>4 DEF Consistent, WaitConsistent
  <2>2. ASSUME NEW t \in ThreadSlot
        PROVE  s1.state[t] = "kBlockedOnWaitQueue" <=> \E r \in WaitQueue : t \in Range(s1.wq[r])
    <3>1. s.state[t] = "kBlockedOnWaitQueue" <=> \E r \in WaitQueue : t \in Range(s.wq[r])
      BY DEF Consistent, WaitConsistent
    <3>2. \A r \in WaitQueue : t \in W /\ r # q => t \notin Range(s.wq[r])
      BY DEF Consistent, WaitConsistent
    <3>3. QED  BY <1>3, <1>4, <3>1, <3>2
  <2>3. QED  BY <1>4, <2>1, <2>2 DEF WaitConsistent
<1>7. SleepConsistent(s1)
  BY <1>1, <1>3 DEF SleepConsistent, Consistent
<1>8. RunConsistent(s1)
  BY <1>1, <1>3 DEF RunConsistent, Consistent
<1>9. Frame(s, s1, {})
  BY <1>1, <1>3 DEF Frame, Live, Runnable
<1>10. QED  BY <1>3, <1>5, <1>6, <1>7, <1>8, <1>9 DEF Consistent, s1

\* ReleaseAndProcessAllBeforeProceeding hands the core to the first waiter.
LEMMA ReleaseFirstConsistent ==
  ASSUME NEW s \in SchedulerState, Consistent(s), s.current \in ThreadSlot,
         NEW w \in DueSleepers(s), NEW q \in WaitQueue, s.wq[q] # <<>>
  PROVE  LET s1 == ReleaseAndRunFirst(s, w, q)
         IN  /\ s1 \in SchedulerState /\ Consistent(s1)
             /\ s1.current \in ThreadSlot
             /\ \A r \in WaitQueue : s1.wq[r] # <<>> => s.wq[r] # <<>>
             /\ Frame(s, s1, {})
<1> DEFINE s2 == WakeUpTasks(s, w)
           s3 == [s2 EXCEPT !.wq[q] = Tail(@)]
           next == Head(s.wq[q])
           s1 == SwitchTo(s3, next, "kReady")
<1>1. /\ s2 \in SchedulerState /\ Consistent(s2) /\ s2.current = s.current /\ s2.wq = s.wq
      /\ Frame(s, s2, {})
  BY YieldConsistent
<1> HIDE DEF s2
<1>2. ReleaseAndRunFirst(s, w, q) = s1
  BY DEF ReleaseAndRunFirst, s2
<1>3. /\ s2.wq \in [WaitQueue -> Seq(ThreadSlot)] /\ IsList(s2.wq[q], ThreadSlot)
      /\ next \in ThreadSlot /\ next \in Range(s2.wq[q]) /\ s2.state[next] = "kBlockedOnWaitQueue"
      /\ IsList(Tail(s2.wq[q]), ThreadSlot)
      /\ Range(Tail(s2.wq[q])) = Range(s2.wq[q]) \ {next}
  <2>1. s2.wq \in [WaitQueue -> Seq(ThreadSlot)] /\ IsList(s2.wq[q], ThreadSlot)
    BY <1>1 DEF Consistent, WaitConsistent, IsList, SchedulerState
  <2>2. QED
    BY <1>1, <2>1, ListTail DEF Consistent, WaitConsistent
<1>4. /\ s3 \in SchedulerState /\ s3.wq = [s2.wq EXCEPT ![q] = Tail(s2.wq[q])]
      /\ s3.state = s2.state /\ s3.ready = s2.ready /\ s3.sleeping = s2.sleeping
      /\ s3.current = s2.current
  BY <1>1, <1>3 DEF SchedulerState, IsList
<1> HIDE DEF next, s3
<1>5. s2.state[s2.current] = "kRunning"
  BY <1>1 DEF Consistent, RunConsistent
<1>6. \A r \in WaitQueue :
        /\ IsInjective(s3.wq[r])
        /\ Range(s3.wq[r]) = IF r = q THEN Range(s2.wq[q]) \ {next} ELSE Range(s2.wq[r])
  BY <1>1, <1>3, <1>4 DEF IsList, Consistent, WaitConsistent
<1>7. Parting(s3, next, "kReady")
  <2> DEFINE view == [t \in ThreadSlot |-> IF t = s3.current THEN "kReady" ELSE s3.state[t]]
  <2>1. next # s3.current /\ s3.current \in ThreadSlot
    BY <1>1, <1>3, <1>4, <1>5
  <2>2. ASSUME NEW t \in ThreadSlot
        PROVE  /\ t \in Range(s3.ready) <=> t # next /\ s3.state[t] = "kReady"
               /\ (\E r \in WaitQueue : t \in Range(s3.wq[r]))
                     <=> t # next /\ view[t] = "kBlockedOnWaitQueue"
               /\ t \in s3.sleeping <=> t # next /\ view[t] = "kSleeping"
    <3>1. /\ t \in Range(s2.ready) <=> s2.state[t] = "kReady"
          /\ s2.state[t] = "kBlockedOnWaitQueue" <=> \E r \in WaitQueue : t \in Range(s2.wq[r])
          /\ s2.state[t] = "kSleeping" <=> t \in s2.sleeping
      BY <1>1 DEF Consistent, ReadyConsistent, WaitConsistent, SleepConsistent
    <3>2. \A r \in WaitQueue : r # q => next \notin Range(s2.wq[r])
      BY <1>1, <1>3 DEF Consistent, WaitConsistent
    <3>3. (\E r \in WaitQueue : t \in Range(s3.wq[r])) <=> t # next /\ s2.state[t] = "kBlockedOnWaitQueue"
      BY <1>6, <3>1, <3>2
    <3>4. QED  BY <1>3, <1>4, <1>5, <3>1, <3>3
  <2>3. RunConsistent(s3)
    BY <1>1, <1>4 DEF Consistent, RunConsistent
  <2>4. /\ IsInjective(s3.ready) /\ \A r \in WaitQueue : IsInjective(s3.wq[r])
        /\ \A r1, r2 \in WaitQueue : r1 # r2 => Range(s3.wq[r1]) \cap Range(s3.wq[r2]) = {}
    BY <1>1, <1>4, <1>6 DEF Consistent, ReadyConsistent, WaitConsistent
  <2>5. QED  BY <1>3, <1>4, <2>1, <2>2, <2>3, <2>4 DEF Parting
<1>8. /\ s1 \in SchedulerState /\ Consistent(s1) /\ s1.current = next /\ s1.wq = s3.wq
      /\ \A t \in ThreadSlot :
            s1.state[t] = IF t = s3.current THEN "kReady"
                          ELSE IF t = next THEN "kRunning" ELSE s3.state[t]
  BY <1>7, SwitchToConsistent DEF ThreadState
<1> HIDE DEF s1
<1>9. \A r \in WaitQueue : s1.wq[r] # <<>> => s.wq[r] # <<>>
  BY <1>1, <1>3, <1>4, <1>8
<1>10. Frame(s2, s1, {})
  BY <1>1, <1>3, <1>4, <1>5, <1>8 DEF Frame, Live, Runnable
<1>11. Frame(s, s1, {})
  BY <1>1, <1>10 DEF Frame, Live, Runnable
<1>12. QED  BY <1>2, <1>3, <1>8, <1>9, <1>11

\* CommitMurder unlinks a thread from its queue before it marks it terminated.
LEMMA RemoveThreadConsistent ==
  ASSUME NEW s \in SchedulerState, Consistent(s), NEW t \in ThreadSlot, Removable(s, t)
  PROVE  LET s1 == [RemoveThread(s, t) EXCEPT !.state[t] = "kTerminated"]
         IN  /\ s1 \in SchedulerState /\ Consistent(s1)
             /\ s1.current = s.current
             /\ \A q \in WaitQueue : s1.wq[q] # <<>> => s.wq[q] # <<>>
             /\ s1.state = [s.state EXCEPT ![t] = "kTerminated"]
<1> DEFINE s1 == [RemoveThread(s, t) EXCEPT !.state[t] = "kTerminated"]
<1>1. /\ IsList(s.ready, ThreadSlot)
      /\ s.wq \in [WaitQueue -> Seq(ThreadSlot)]
      /\ \A q \in WaitQueue : IsList(s.wq[q], ThreadSlot)
      /\ t \in Range(s.ready) <=> s.state[t] = "kReady"
      /\ t \in s.sleeping <=> s.state[t] = "kSleeping"
      /\ (\E q \in WaitQueue : t \in Range(s.wq[q])) <=> s.state[t] = "kBlockedOnWaitQueue"
  BY DEF SchedulerState, IsList, Consistent, ReadyConsistent, WaitConsistent, SleepConsistent
<1>2. IsList(Unlink(s.ready, t), ThreadSlot) /\ Range(Unlink(s.ready, t)) = Range(s.ready) \ {t}
  BY <1>1, ListUnlink
<1>3. \A q \in WaitQueue :
        IsList(Unlink(s.wq[q], t), ThreadSlot) /\ Range(Unlink(s.wq[q], t)) = Range(s.wq[q]) \ {t}
  BY <1>1, ListUnlink
<1>4. /\ s1 \in SchedulerState /\ s1.current = s.current
      /\ s1.state = [s.state EXCEPT ![t] = "kTerminated"]
      /\ s1.sleeping = s.sleeping \ {t}
      /\ IsList(s1.ready, ThreadSlot) /\ Range(s1.ready) = Range(s.ready) \ {t}
      /\ \A q \in WaitQueue : IsList(s1.wq[q], ThreadSlot) /\ Range(s1.wq[q]) = Range(s.wq[q]) \ {t}
  <2>1. CASE s.state[t] = "kSleeping"
    <3>1. s1 = [s EXCEPT !.sleeping = @ \ {t}, !.state[t] = "kTerminated"]
      BY <2>1 DEF RemoveThread
    <3> HIDE DEF s1
    <3>2. /\ s1.current = s.current /\ s1.state = [s.state EXCEPT ![t] = "kTerminated"]
          /\ s1.ready = s.ready /\ s1.sleeping = s.sleeping \ {t} /\ s1.wq = s.wq
          /\ s1 \in SchedulerState
      BY <1>1, <3>1 DEF SchedulerState, ThreadState, IsList
    <3>3. QED  BY <1>1, <2>1, <3>2
  <2>2. CASE s.state[t] = "kReady"
    <3>1. s1 = [s EXCEPT !.ready = Unlink(s.ready, t), !.state[t] = "kTerminated"]
      BY <2>2 DEF RemoveThread
    <3> HIDE DEF s1
    <3>2. /\ s1.current = s.current /\ s1.state = [s.state EXCEPT ![t] = "kTerminated"]
          /\ s1.ready = Unlink(s.ready, t) /\ s1.sleeping = s.sleeping /\ s1.wq = s.wq
          /\ s1 \in SchedulerState
      BY <1>1, <1>2, <3>1 DEF SchedulerState, ThreadState, IsList
    <3>3. QED  BY <1>1, <1>2, <2>2, <3>2
  <2>3. CASE s.state[t] = "kBlockedOnWaitQueue"
    <3>1. s1 = [s EXCEPT !.wq = [q \in WaitQueue |-> Unlink(s.wq[q], t)], !.state[t] = "kTerminated"]
      BY <2>3 DEF RemoveThread
    <3> HIDE DEF s1
    <3>2. /\ s1.current = s.current /\ s1.state = [s.state EXCEPT ![t] = "kTerminated"]
          /\ s1.ready = s.ready /\ s1.sleeping = s.sleeping
          /\ s1.wq = [q \in WaitQueue |-> Unlink(s.wq[q], t)]
          /\ s1 \in SchedulerState
      BY <1>1, <1>3, <3>1 DEF SchedulerState, ThreadState, IsList
    <3>3. QED  BY <1>1, <1>3, <2>3, <3>2
  <2>4. QED  BY <2>1, <2>2, <2>3 DEF Removable
<1> HIDE DEF s1
<1>5. \A u \in ThreadSlot : s1.state[u] = IF u = t THEN "kTerminated" ELSE s.state[u]
  BY <1>4 DEF SchedulerState
<1>6. ReadyConsistent(s1)
  BY <1>4, <1>5 DEF ReadyConsistent, Consistent, IsList
<1>7. WaitConsistent(s1)
  <2>1. \A q, r \in WaitQueue : q # r => Range(s1.wq[q]) \cap Range(s1.wq[r]) = {}
    BY <1>4 DEF WaitConsistent, Consistent
  <2>2. \A u \in ThreadSlot :
          s1.state[u] = "kBlockedOnWaitQueue" <=> \E q \in WaitQueue : u \in Range(s1.wq[q])
    BY <1>4, <1>5 DEF WaitConsistent, Consistent
  <2>3. QED  BY <1>4, <2>1, <2>2 DEF WaitConsistent, IsList
<1>8. SleepConsistent(s1)
  BY <1>4, <1>5 DEF SleepConsistent, Consistent
<1>9. RunConsistent(s1)
  BY <1>4, <1>5 DEF RunConsistent, Consistent, Removable
<1>10. ASSUME NEW q \in WaitQueue, s1.wq[q] # <<>> PROVE s.wq[q] # <<>>
  <2>1. s1.wq[q] \in Seq(ThreadSlot)
    BY <1>4 DEF IsList
  <2>2. Head(s1.wq[q]) \in Range(s1.wq[q])
    BY <2>1, <1>4, <1>10, ListTail
  <2>3. QED  BY <1>4, <2>2, EmptyList
<1>11. QED  BY <1>4, <1>6, <1>7, <1>8, <1>9, <1>10 DEF Consistent, s1

\* A thread that has ended is in no queue, so marking it terminated or freeing its
\* slot disturbs none.
LEMMA MarkConsistent ==
  ASSUME NEW s \in SchedulerState, Consistent(s), NEW t \in ThreadSlot,
         s.state[t] \notin Live, NEW threadState \in ThreadState \ Live
  PROVE  LET s1 == [s EXCEPT !.state[t] = threadState]
         IN  s1 \in SchedulerState /\ Consistent(s1)
<1> DEFINE s1 == [s EXCEPT !.state[t] = threadState]
<1>1. /\ s1 \in SchedulerState /\ s1.current = s.current /\ s1.ready = s.ready
      /\ s1.sleeping = s.sleeping /\ s1.wq = s.wq
      /\ \A u \in ThreadSlot : s1.state[u] = IF u = t THEN threadState ELSE s.state[u]
  BY DEF SchedulerState
<1> HIDE DEF s1
<1>2. QED
  <2>1. ReadyConsistent(s1)  BY <1>1 DEF ReadyConsistent, Consistent, Live
  <2>2. WaitConsistent(s1)  BY <1>1 DEF WaitConsistent, Consistent, Live
  <2>3. SleepConsistent(s1)  BY <1>1 DEF SleepConsistent, Consistent, Live
  <2>4. RunConsistent(s1)  BY <1>1 DEF RunConsistent, Consistent, Live
  <2>5. QED  BY <1>1, <2>1, <2>2, <2>3, <2>4 DEF Consistent, s1

\* A new thread is linked at the end of the round-robin list.
LEMMA AddReadyConsistent ==
  ASSUME NEW s \in SchedulerState, Consistent(s), NEW t \in ThreadSlot, s.state[t] = "kFree"
  PROVE  LET s1 == AddReadyThread(s, t)
         IN  /\ s1 \in SchedulerState /\ Consistent(s1)
             /\ s1.current = s.current /\ s1.wq = s.wq
             /\ s1.state = [s.state EXCEPT ![t] = "kReady"]
<1> DEFINE s1 == AddReadyThread(s, t)
<1>1. IsList(s.ready, ThreadSlot) /\ t \notin Range(s.ready)
  BY DEF SchedulerState, IsList, Consistent, ReadyConsistent
<1>2. IsList(Append(s.ready, t), ThreadSlot) /\ Range(Append(s.ready, t)) = Range(s.ready) \cup {t}
  BY <1>1, ListAppend
<1>3. /\ s1 \in SchedulerState /\ s1.current = s.current /\ s1.ready = Append(s.ready, t)
      /\ s1.sleeping = s.sleeping /\ s1.wq = s.wq
      /\ s1.state = [s.state EXCEPT ![t] = "kReady"]
      /\ \A u \in ThreadSlot : s1.state[u] = IF u = t THEN "kReady" ELSE s.state[u]
  BY <1>2 DEF AddReadyThread, SchedulerState, ThreadState, IsList
<1> HIDE DEF s1
<1>4. QED
  <2>1. ReadyConsistent(s1)  BY <1>2, <1>3 DEF ReadyConsistent, Consistent, IsList
  <2>2. WaitConsistent(s1)  BY <1>3 DEF WaitConsistent, Consistent
  <2>3. SleepConsistent(s1)  BY <1>3 DEF SleepConsistent, Consistent
  <2>4. RunConsistent(s1)  BY <1>3 DEF RunConsistent, Consistent
  <2>5. QED  BY <1>3, <2>1, <2>2, <2>3, <2>4 DEF Consistent, s1

\* The boot flow becomes the first thread.
LEMMA ConvertConsistent ==
  ASSUME NEW s \in SchedulerState, Consistent(s), s.current = NoThread, s.ready # <<>>
  PROVE  LET s1 == ConvertToScheduling(s)
         IN  /\ s1 \in SchedulerState /\ Consistent(s1)
             /\ s1.wq = s.wq
             /\ Frame(s, s1, {})
<1> DEFINE s1 == ConvertToScheduling(s)
           next == Head(s.ready)
<1>1. /\ next \in ThreadSlot /\ s.state[next] = "kReady"
      /\ IsList(Tail(s.ready), ThreadSlot) /\ Range(Tail(s.ready)) = Range(s.ready) \ {next}
  <2>1. IsList(s.ready, ThreadSlot)
    BY DEF SchedulerState, IsList, Consistent, ReadyConsistent
  <2>2. QED  BY <2>1, ListTail DEF Consistent, ReadyConsistent
<1> HIDE DEF next
<1>2. /\ s1 \in SchedulerState /\ s1.current = next /\ s1.ready = Tail(s.ready)
      /\ s1.sleeping = s.sleeping /\ s1.wq = s.wq
      /\ \A u \in ThreadSlot : s1.state[u] = IF u = next THEN "kRunning" ELSE s.state[u]
  BY <1>1 DEF ConvertToScheduling, SchedulerState, ThreadState, IsList, next
<1> HIDE DEF s1
<1>3. QED
  <2>1. ReadyConsistent(s1)  BY <1>1, <1>2 DEF ReadyConsistent, Consistent, IsList
  <2>2. WaitConsistent(s1)  BY <1>1, <1>2 DEF WaitConsistent, Consistent
  <2>3. SleepConsistent(s1)  BY <1>1, <1>2 DEF SleepConsistent, Consistent
  <2>4. RunConsistent(s1)  BY <1>1, <1>2, SlotAssumption DEF RunConsistent, Consistent
  <2>5. Frame(s, s1, {})  BY <1>1, <1>2 DEF Frame, Live, Runnable
  <2>6. QED  BY <1>2, <2>1, <2>2, <2>3, <2>4, <2>5 DEF Consistent, s1
=============================================================================
