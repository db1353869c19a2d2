---------------------------- MODULE TaskMgrSteps ----------------------------
(***************************************************************************)
(* The inductive invariant of the task manager in two halves, and what the *)
(* kinds of steps do to each of them: the books (lists, counters and the   *)
(* cleaning stack, which change when a thread begins, ends, is reaped or   *)
(* freed) and the places (where each thread is in its code).               *)
(*                                                                         *)
(* Then the actions in which no thread ends: scheduling, blocking, joining,*)
(* reaping, killing between two threads, creation.  One lemma per action.  *)
(***************************************************************************)
EXTENDS TaskMgr, SchedulerProofs, FiniteSetTheorems

\* The inductive invariant.
IInv ==
    /\ TypeOK
    /\ SchedulerConsistent
    /\ ListConsistent
    /\ CleanOnce
    /\ Accounting
    /\ OwnerExists
    /\ JoinersWaitOnLiving
    /\ WorkersRunnable
    /\ PointersKept
    /\ EndedProcessQuiet
    /\ AssertionsHold

-----------------------------------------------------------------------------
(* The part of the invariant that counts threads: what process, threadsToClean *)
(* and the wait queues of threads say of the threads that have not ended.      *)

\* The threads counted by live_threads, and those counted by threads_to_clean.
Unended(p) ==
    {t \in ThreadSlot : (Alive(t) \/ sched.state[t] = "kWaitingForJoin") /\ thread[t].owner = p}

Uncleaned(p) ==
    {t \in ThreadSlot : sched.state[t] = "kTerminated" /\ thread[t].owner = p}

Books == ListConsistent /\ CleanOnce /\ Accounting /\ OwnerExists /\ JoinersWaitOnLiving

\* Adding a thread to one of the counted sets, and taking one away.
LEMMA CountUp ==
  ASSUME NEW S \in SUBSET ThreadSlot, NEW t \in ThreadSlot, t \notin S
  PROVE  Cardinality(S \cup {t}) = Cardinality(S) + 1
<1>1. IsFiniteSet(S)
  BY BootAssumption, FS_Subset
<1>2. QED  BY <1>1, FS_AddElement

\* Taking a thread out of one of the counted sets.
LEMMA CountDown ==
  ASSUME NEW S \in SUBSET ThreadSlot, NEW t \in S
  PROVE  /\ Cardinality(S) \in Nat /\ Cardinality(S) >= 1
         /\ Cardinality(S \ {t}) = Cardinality(S) - 1
         /\ Cardinality(S) = 1 => S = {t}
<1>1. IsFiniteSet(S)
  BY BootAssumption, FS_Subset
<1>2. Cardinality(S \ {t}) = Cardinality(S) - 1 /\ IsFiniteSet(S \ {t})
  BY <1>1, FS_RemoveElement
<1>3. Cardinality(S) \in Nat /\ Cardinality(S \ {t}) \in Nat
  BY <1>1, <1>2, FS_CardinalityType
<1>4. Cardinality(S) = 1 => S \ {t} = {}
  BY <1>2, FS_EmptySet
<1>5. QED  BY <1>2, <1>3, <1>4

\* A counted set is empty when its counter is 0.
LEMMA CountNone ==
  ASSUME NEW S \in SUBSET ThreadSlot
  PROVE  Cardinality(S) \in Nat /\ (Cardinality(S) = 0 <=> S = {})
<1>1. IsFiniteSet(S)
  BY BootAssumption, FS_Subset
<1>2. QED  BY <1>1, FS_CardinalityType, FS_EmptySet

\* Between s and s1 no thread begins or ends.
SameLife(s, s1) ==
    \A t \in ThreadSlot : IF s.state[t] \in Live THEN s1.state[t] \in Live
                          ELSE s1.state[t] = s.state[t]

\* A step in which no thread begins or ends, that leaves the counters alone and frees
\* no process with threads.
LEMMA BooksKept ==
  ASSUME TypeOK, Books,
         SameLife(sched, sched'),
         \A t \in ThreadSlot : thread'[t].owner = thread[t].owner,
         \A p \in ProcessSlot : /\ process'[p].threads = process[p].threads
                                /\ process'[p].live = process[p].live
                                /\ process'[p].toClean = process[p].toClean,
         threadsToClean' = threadsToClean,
         \A t \in ThreadSlot : sched.state[t] # "kFree" => process'[thread[t].owner].state # "kFree",
         \A t \in ThreadSlot : sched'.wq[t] # <<>> => Alive(t)
  PROVE  Books'
<1>1. \A t \in ThreadSlot :
        /\ Alive(t)' <=> Alive(t)
        /\ ~Alive(t) => sched'.state[t] = sched.state[t]
        /\ sched'.state[t] = "kFree" <=> sched.state[t] = "kFree"
        /\ sched'.state[t] = "kTerminated" <=> sched.state[t] = "kTerminated"
        /\ sched'.state[t] = "kWaitingForJoin" <=> sched.state[t] = "kWaitingForJoin"
  BY DEF SameLife, Alive, Live
<1>2. ListConsistent'
  BY <1>1 DEF Books, ListConsistent
<1>3. CleanOnce'
  BY <1>1 DEF Books, CleanOnce
<1>4. Accounting'
  <2>1. \A p \in ProcessSlot : Unended(p)' = Unended(p) /\ Uncleaned(p)' = Uncleaned(p)
    BY <1>1 DEF Unended, Uncleaned
  <2>2. QED  BY <2>1, Zenon DEF Books, Accounting, Unended, Uncleaned
<1>5. OwnerExists' /\ JoinersWaitOnLiving'
  BY <1>1 DEF OwnerExists, JoinersWaitOnLiving
<1>6. QED  BY <1>2, <1>3, <1>4, <1>5 DEF Books

\* A slot becomes a thread of process p (CreateThread, Exec).
LEMMA BooksSpawn ==
  ASSUME TypeOK, Books, NEW t \in ThreadSlot, NEW p \in ProcessSlot, sched.state[t] = "kFree",
         sched'.state = [sched.state EXCEPT ![t] = "kReady"], sched'.wq = sched.wq,
         \A u \in ThreadSlot : thread'[u].owner = IF u = t THEN p ELSE thread[u].owner,
         \A q \in ProcessSlot \ {p} : process'[q] = process[q],
         process'[p].threads = <<t>> \o process[p].threads,
         process'[p].live = process[p].live + 1,
         process'[p].toClean = process[p].toClean,
         process'[p].state = "kReady",
         threadsToClean' = threadsToClean
  PROVE  Books'
<1>1. /\ Alive(t)' /\ ~Alive(t)
      /\ \A u \in ThreadSlot : sched'.state[u] = IF u = t THEN "kReady" ELSE sched.state[u]
      /\ \A u \in ThreadSlot \ {t} : Alive(u)' <=> Alive(u)
      /\ \A q \in ProcessSlot : process[q].threads \in Seq(ThreadSlot)
  BY Zenon DEF Alive, Live, TypeOK, SchedulerState
<1>2. ListConsistent'
  <2>1. IsList(process[p].threads, ThreadSlot) /\ t \notin Range(process[p].threads)
    BY <1>1 DEF Books, ListConsistent, IsList
  <2>2. IsInjective(process'[p].threads) /\ Range(process'[p].threads) = Range(process[p].threads) \cup {t}
    BY <2>1, ListCons DEF IsList
  <2>3. ASSUME NEW q \in ProcessSlot
        PROVE  /\ IsInjective(process'[q].threads)
               /\ Range(process'[q].threads) = {u \in ThreadSlot : Alive(u) /\ thread[u].owner = q}'
    <3>1. CASE q = p
      BY <1>1, <2>2, <3>1, Zenon DEF Books, ListConsistent
    <3>2. CASE q # p
      BY <1>1, <3>2 DEF Books, ListConsistent
    <3>3. QED  BY <3>1, <3>2
  <2>4. QED  BY <2>3 DEF ListConsistent
<1>3. CleanOnce'
  BY <1>1 DEF Books, CleanOnce
<1>4. Accounting'
  <2>1. \A q \in ProcessSlot : /\ Unended(q)' = IF q = p THEN Unended(q) \cup {t} ELSE Unended(q)
                               /\ Uncleaned(q)' = Uncleaned(q)
    BY <1>1 DEF Unended, Uncleaned
  <2>2. t \notin Unended(p) /\ Unended(p) \in SUBSET ThreadSlot
    BY <1>1 DEF Unended
  <2>3. Cardinality(Unended(p)') = Cardinality(Unended(p)) + 1
    BY <2>1, <2>2, CountUp
  <2>4. \A q \in ProcessSlot : /\ process[q].live = Cardinality(Unended(q))
                               /\ process[q].toClean = Cardinality(Uncleaned(q))
    BY Zenon DEF Books, Accounting, Unended, Uncleaned
  <2>5. ASSUME NEW q \in ProcessSlot
        PROVE  /\ process'[q].live = Cardinality(Unended(q)')
               /\ process'[q].toClean = Cardinality(Uncleaned(q)')
    <3>1. CASE q = p
      BY <2>1, <2>3, <2>4, <3>1
    <3>2. CASE q # p
      BY <2>1, <2>4, <3>2
    <3>3. QED  BY <3>1, <3>2
  <2>6. QED  BY <2>5, Zenon DEF Accounting, Unended, Uncleaned
<1>5. OwnerExists'
  <2>1. \A u \in ThreadSlot : thread[u].owner \in ProcessSlot
    BY DEF TypeOK
  <2>2. QED  BY <1>1, <2>1 DEF Books, OwnerExists
<1>6. JoinersWaitOnLiving'
  BY <1>1 DEF Books, JoinersWaitOnLiving
<1>7. QED  BY <1>2, <1>3, <1>4, <1>5, <1>6 DEF Books

\* Thread t of process p ends: it waits for its joiner or is for the ripper
\* (ThreadExit, CommitMurder).
LEMMA BooksEnd ==
  ASSUME TypeOK, Books, NEW t \in ThreadSlot, NEW p \in ProcessSlot, NEW gone \in BOOLEAN,
         Alive(t), thread[t].owner = p, thread' = thread,
         \A u \in ThreadSlot \ {t} : IF sched.state[u] \in Live THEN sched'.state[u] \in Live
                                     ELSE sched'.state[u] = sched.state[u],
         sched'.state[t] = IF gone THEN "kTerminated" ELSE "kWaitingForJoin",
         sched'.wq[t] = <<>>,
         \A u \in ThreadSlot : sched'.wq[u] # <<>> => sched.wq[u] # <<>>,
         \A q \in ProcessSlot \ {p} : process'[q] = process[q],
         IsList(process'[p].threads, ThreadSlot),
         Range(process'[p].threads) = Range(process[p].threads) \ {t},
         process'[p].live = process[p].live - (IF gone THEN 1 ELSE 0),
         process'[p].toClean = process[p].toClean + (IF gone THEN 1 ELSE 0),
         process'[p].state # "kFree",
         threadsToClean' = IF gone THEN <<t>> \o threadsToClean ELSE threadsToClean
  PROVE  Books'
<1>1. /\ ~Alive(t)' /\ sched.state[t] \notin {"kFree", "kTerminated", "kWaitingForJoin"}
      /\ \A u \in ThreadSlot \ {t} :
            /\ Alive(u)' <=> Alive(u)
            /\ sched'.state[u] = "kFree" <=> sched.state[u] = "kFree"
            /\ sched'.state[u] = "kTerminated" <=> sched.state[u] = "kTerminated"
            /\ sched'.state[u] = "kWaitingForJoin" <=> sched.state[u] = "kWaitingForJoin"
  BY DEF Alive, Live
<1>2. ListConsistent'
  <2>1. ASSUME NEW q \in ProcessSlot
        PROVE  /\ IsInjective(process'[q].threads)
               /\ Range(process'[q].threads) = {u \in ThreadSlot : Alive(u) /\ thread[u].owner = q}'
    BY <1>1 DEF Books, ListConsistent, IsList
  <2>2. QED  BY <2>1 DEF ListConsistent
<1>3. CleanOnce'
  <2>1. CASE gone
    <3>1. IsList(threadsToClean, ThreadSlot) /\ t \notin Range(threadsToClean)
      BY <1>1 DEF Books, CleanOnce, TypeOK, IsList
    <3>2. IsInjective(threadsToClean') /\ Range(threadsToClean') = Range(threadsToClean) \cup {t}
      BY <2>1, <3>1, ListCons DEF IsList
    <3>3. QED  BY <1>1, <2>1, <3>2 DEF Books, CleanOnce
  <2>2. CASE ~gone
    BY <1>1, <2>2 DEF Books, CleanOnce
  <2>3. QED  BY <2>1, <2>2
<1>4. Accounting'
  <2>1. \A q \in ProcessSlot :
          /\ Unended(q)' = IF q = p /\ gone THEN Unended(q) \ {t} ELSE Unended(q)
          /\ Uncleaned(q)' = IF q = p /\ gone THEN Uncleaned(q) \cup {t} ELSE Uncleaned(q)
    BY <1>1 DEF Unended, Uncleaned
  <2>2. /\ t \in Unended(p) /\ Unended(p) \in SUBSET ThreadSlot
        /\ t \notin Uncleaned(p) /\ Uncleaned(p) \in SUBSET ThreadSlot
    BY <1>1 DEF Unended, Uncleaned
  <2>3. /\ Cardinality(Unended(p) \ {t}) = Cardinality(Unended(p)) - 1
        /\ Cardinality(Uncleaned(p) \cup {t}) = Cardinality(Uncleaned(p)) + 1
    BY <2>2, CountUp, CountDown
  <2>4. \A q \in ProcessSlot : /\ process[q].live = Cardinality(Unended(q))
                               /\ process[q].toClean = Cardinality(Uncleaned(q))
                               /\ process[q].live \in Nat /\ process[q].toClean \in Nat
    BY Zenon DEF Books, Accounting, Unended, Uncleaned, TypeOK
  <2>5. \A q \in ProcessSlot : /\ process'[q].live = Cardinality(Unended(q)')
                               /\ process'[q].toClean = Cardinality(Uncleaned(q)')
    <3>1. CASE gone
      BY <2>1, <2>3, <2>4, <3>1, Zenon
    <3>2. CASE ~gone
      BY <2>1, <2>4, <3>2
    <3>3. QED  BY <3>1, <3>2
  <2>6. QED  BY <2>5, Zenon DEF Accounting, Unended, Uncleaned
<1>5. OwnerExists'
  <2>1. \A u \in ThreadSlot : thread[u].owner \in ProcessSlot
    BY DEF TypeOK
  <2>2. QED  BY <1>1, <2>1 DEF Books, OwnerExists
<1>6. JoinersWaitOnLiving'
  BY <1>1 DEF Books, JoinersWaitOnLiving
<1>7. QED  BY <1>2, <1>3, <1>4, <1>5, <1>6 DEF Books

\* A thread that waited for its joiner is handed to the ripper (JoinThread,
\* DetachThread).
LEMMA BooksReap ==
  ASSUME TypeOK, Books, NEW t \in ThreadSlot, sched.state[t] = "kWaitingForJoin",
         sched' = [sched EXCEPT !.state[t] = "kTerminated"], thread' = thread,
         process' = [process EXCEPT ![thread[t].owner] = CountTerminated(@)],
         threadsToClean' = <<t>> \o threadsToClean
  PROVE  Books'
<1> DEFINE p == thread[t].owner
<1>1. /\ ~Alive(t) /\ ~Alive(t)' /\ p \in ProcessSlot
      /\ \A u \in ThreadSlot : sched'.state[u] = IF u = t THEN "kTerminated" ELSE sched.state[u]
      /\ \A u \in ThreadSlot \ {t} : Alive(u)' <=> Alive(u)
      /\ sched'.wq = sched.wq
  BY DEF Alive, Live, TypeOK, SchedulerState
<1>2. /\ \A q \in ProcessSlot \ {p} : process'[q] = process[q]
      /\ process'[p].threads = process[p].threads /\ process'[p].state = process[p].state
      /\ process'[p].live = process[p].live - 1 /\ process'[p].toClean = process[p].toClean + 1
  BY <1>1 DEF TypeOK, CountTerminated
<1> HIDE DEF p
<1>3. ListConsistent'
  <2>1. ASSUME NEW q \in ProcessSlot
        PROVE  /\ IsInjective(process'[q].threads)
               /\ Range(process'[q].threads) = {u \in ThreadSlot : Alive(u) /\ thread[u].owner = q}'
    BY <1>1, <1>2 DEF Books, ListConsistent
  <2>2. QED  BY <2>1 DEF ListConsistent
<1>4. CleanOnce'
  <2>1. IsList(threadsToClean, ThreadSlot) /\ t \notin Range(threadsToClean)
    BY <1>1 DEF Books, CleanOnce, TypeOK, IsList
  <2>2. IsInjective(threadsToClean') /\ Range(threadsToClean') = Range(threadsToClean) \cup {t}
    BY <2>1, ListCons DEF IsList
  <2>3. QED  BY <1>1, <2>2 DEF Books, CleanOnce
<1>5. Accounting'
  <2>1. \A q \in ProcessSlot :
          /\ Unended(q)' = IF q = p THEN Unended(q) \ {t} ELSE Unended(q)
          /\ Uncleaned(q)' = IF q = p THEN Uncleaned(q) \cup {t} ELSE Uncleaned(q)
    BY <1>1 DEF Unended, Uncleaned, p
  <2>2. /\ t \in Unended(p) /\ Unended(p) \in SUBSET ThreadSlot
        /\ t \notin Uncleaned(p) /\ Uncleaned(p) \in SUBSET ThreadSlot
    BY <1>1 DEF Unended, Uncleaned, p
  <2>3. /\ Cardinality(Unended(p) \ {t}) = Cardinality(Unended(p)) - 1
        /\ Cardinality(Uncleaned(p) \cup {t}) = Cardinality(Uncleaned(p)) + 1
    BY <2>2, CountUp, CountDown, Zenon
  <2>4. \A q \in ProcessSlot : /\ process[q].live = Cardinality(Unended(q))
                               /\ process[q].toClean = Cardinality(Uncleaned(q))
    BY Zenon DEF Books, Accounting, Unended, Uncleaned
  <2>5. ASSUME NEW q \in ProcessSlot
        PROVE  /\ process'[q].live = Cardinality(Unended(q)')
               /\ process'[q].toClean = Cardinality(Uncleaned(q)')
    <3>1. CASE q = p
      BY <1>2, <2>1, <2>3, <2>4, <3>1, Zenon
    <3>2. CASE q # p
      BY <1>2, <2>1, <2>4, <3>2
    <3>3. QED  BY <3>1, <3>2
  <2>6. QED  BY <2>5, Zenon DEF Accounting, Unended, Uncleaned
<1>6. OwnerExists'
  <2>1. \A u \in ThreadSlot : thread[u].owner \in ProcessSlot
    BY DEF TypeOK
  <2>2. QED  BY <1>1, <1>2, <2>1 DEF Books, OwnerExists, p
<1>7. JoinersWaitOnLiving'
  BY <1>1 DEF Books, JoinersWaitOnLiving
<1>8. QED  BY <1>3, <1>4, <1>5, <1>6, <1>7 DEF Books

\* The ripper frees the thread on top of its stack (ThreadRipperClean_).
LEMMA BooksFree ==
  ASSUME TypeOK, Books, NEW t \in ThreadSlot, threadsToClean # <<>>, t = Head(threadsToClean),
         sched' = [sched EXCEPT !.state[t] = "kFree"],
         thread' = [thread EXCEPT ![t] = Undetached(BootOwner[t])],
         process' = [process EXCEPT ![thread[t].owner].toClean = @ - 1],
         threadsToClean' = Tail(threadsToClean)
  PROVE  Books'
<1> DEFINE p == thread[t].owner
<1>1. sched.state[t] = "kTerminated" /\ sched.wq[t] = <<>>
  <2>1. IsList(threadsToClean, ThreadSlot)
    BY DEF Books, CleanOnce, TypeOK, IsList
  <2>2. t \in Range(threadsToClean)
    BY <2>1, ListTail
  <2>3. sched.state[t] = "kTerminated"
    BY <2>2 DEF Books, CleanOnce
  <2>4. QED  BY <2>3 DEF Books, JoinersWaitOnLiving, Alive, Live
<1>2. /\ ~Alive(t) /\ ~Alive(t)' /\ p \in ProcessSlot
      /\ \A u \in ThreadSlot : sched'.state[u] = IF u = t THEN "kFree" ELSE sched.state[u]
      /\ \A u \in ThreadSlot \ {t} : (Alive(u)' <=> Alive(u)) /\ thread'[u] = thread[u]
      /\ sched'.wq = sched.wq
  BY <1>1, Zenon DEF Alive, Live, TypeOK, SchedulerState
<1>3. /\ \A q \in ProcessSlot \ {p} : process'[q] = process[q]
      /\ process'[p].threads = process[p].threads /\ process'[p].state = process[p].state
      /\ process'[p].live = process[p].live /\ process'[p].toClean = process[p].toClean - 1
  BY <1>2 DEF TypeOK
<1>4. ListConsistent'
  <2>1. ASSUME NEW q \in ProcessSlot
        PROVE  /\ IsInjective(process'[q].threads)
               /\ Range(process'[q].threads) = {u \in ThreadSlot : Alive(u) /\ thread[u].owner = q}'
    BY <1>2, <1>3 DEF Books, ListConsistent
  <2>2. QED  BY <2>1 DEF ListConsistent
<1>5. CleanOnce'
  <2>1. IsList(threadsToClean, ThreadSlot)
    BY DEF Books, CleanOnce, TypeOK, IsList
  <2>2. IsInjective(threadsToClean') /\ Range(threadsToClean') = Range(threadsToClean) \ {t}
    BY <2>1, ListTail DEF IsList
  <2>3. QED  BY <1>2, <2>2 DEF Books, CleanOnce
<1>6. Accounting'
  <2>1. \A q \in ProcessSlot :
          /\ Unended(q)' = Unended(q)
          /\ Uncleaned(q)' = IF q = p THEN Uncleaned(q) \ {t} ELSE Uncleaned(q)
    BY <1>1, <1>2 DEF Unended, Uncleaned
  <2>2. t \in Uncleaned(p) /\ Uncleaned(p) \in SUBSET ThreadSlot
    BY <1>1, <1>2 DEF Uncleaned
  <2>3. Cardinality(Uncleaned(p) \ {t}) = Cardinality(Uncleaned(p)) - 1
    BY <2>2, CountDown
  <2>4. \A q \in ProcessSlot : /\ process[q].live = Cardinality(Unended(q))
                               /\ process[q].toClean = Cardinality(Uncleaned(q))
    BY Zenon DEF Books, Accounting, Unended, Uncleaned
  <2> HIDE DEF p
  <2>5. ASSUME NEW q \in ProcessSlot
        PROVE  /\ process'[q].live = Cardinality(Unended(q)')
               /\ process'[q].toClean = Cardinality(Uncleaned(q)')
    <3>1. CASE q = p
      BY <1>3, <2>1, <2>3, <2>4, <3>1, Zenon
    <3>2. CASE q # p
      BY <1>3, <2>1, <2>4, <3>2, Zenon
    <3>3. QED  BY <3>1, <3>2
  <2>6. QED  BY <2>5, Zenon DEF Accounting, Unended, Uncleaned
<1>7. OwnerExists'
  <2>1. \A u \in ThreadSlot : thread[u].owner \in ProcessSlot
    BY DEF TypeOK
  <2>2. QED  BY <1>2, <1>3, <2>1 DEF Books, OwnerExists
<1>8. JoinersWaitOnLiving'
  BY <1>1, <1>2 DEF Books, JoinersWaitOnLiving
<1>9. QED  BY <1>4, <1>5, <1>6, <1>7, <1>8 DEF Books

-----------------------------------------------------------------------------
(* The part of the invariant that speaks of one thread at a time: where it is in *)
(* its code, what it points to, and the state of its process.                    *)

Place(t) ==
    LET at == resume[t].at
        of == resume[t].of
    IN  /\ t \in Workers => /\ sched.state[t] \in Runnable
                            /\ thread[t].owner = BootOwner[t]
                            /\ at \in {"Run", "ProcessRipperClean"}
        /\ at = "JoinThread" /\ of # NoThread => of \in ThreadSlot /\ sched.state[of] # "kFree"
        /\ at \in {"JoinProcess", "CommitMurder"} /\ of # NoThread =>
              of \in ProcessSlot /\ process[of].state # "kFree"
        /\ at = "CommitMurder" => of # thread[t].owner /\ of \notin KernelProcess
        /\ at = "ProcessRipperClean" =>
              t = ProcessRipper /\ of \in ProcessSlot /\ process[of].state # "kFree"
        /\ Alive(t) \/ at \in {"Run", "Elf64EntryPoint"}
        /\ Alive(t) => (Ended(process[thread[t].owner].state) <=> at = "CommitSuicide")

Places == \A t \in ThreadSlot : Place(t)

\* What the assumptions say about the workers and the null pointer.
LEMMA BootFacts ==
  /\ Workers \subseteq ThreadSlot /\ KernelProcess \subseteq ProcessSlot
  /\ ThreadRipper \in Workers /\ ProcessRipper \in Workers /\ ThreadRipper # ProcessRipper
  /\ \A t \in Workers : BootOwner[t] \in KernelProcess
  /\ NoThread \notin ThreadSlot /\ NoThread \notin ProcessSlot /\ NoThread \notin KernelProcess
  /\ ThreadSlot \cap ProcessSlot = {}
<1>1. Range(Boot) \subseteq ThreadSlot
  BY BootAssumption, RangeOfSeq
<1>2. BootProcess \subseteq ProcessSlot
  BY <1>1, BootAssumption DEF BootProcess
<1>3. QED
  BY <1>1, <1>2, BootAssumption, SlotAssumption DEF Workers

\* The part of the invariant that can be stated thread by thread.
LEMMA PlacesMeaning ==
  Places <=> WorkersRunnable /\ PointersKept /\ EndedProcessQuiet
<1>1. Places => WorkersRunnable
  BY BootFacts DEF Places, Place, WorkersRunnable, Runnable
<1>2. Places => PointersKept
  BY DEF Places, Place, PointersKept
<1>3. Places => EndedProcessQuiet
  BY DEF Places, Place, EndedProcessQuiet
<1>4. WorkersRunnable /\ PointersKept /\ EndedProcessQuiet => Places
  BY DEF Places, Place, WorkersRunnable, PointersKept, EndedProcessQuiet, Runnable
<1>5. QED  BY <1>1, <1>2, <1>3, <1>4

\* The invariant in the three groups the proofs work with, ...
LEMMA InvMeaning ==
  IInv <=> TypeOK /\ SchedulerConsistent /\ Books /\ Places /\ AssertionsHold
BY PlacesMeaning DEF IInv, Books

\* ... and how it follows from them after a step.
LEMMA InvMeaningPrime ==
  IInv' <=> TypeOK' /\ SchedulerConsistent' /\ Books' /\ Places' /\ AssertionsHold'
BY InvMeaning, PTL

\* No object is freed.
NothingFreed ==
    /\ \A t \in ThreadSlot : sched.state[t] # "kFree" => sched'.state[t] # "kFree"
    /\ \A p \in ProcessSlot : process[p].state # "kFree" => process'[p].state # "kFree"

\* A thread that a step leaves alone keeps its place.
LEMMA PlaceKept ==
  ASSUME TypeOK, NothingFreed, NEW t \in ThreadSlot, Place(t),
         resume'[t] = resume[t], thread'[t].owner = thread[t].owner,
         Alive(t)' <=> Alive(t),
         sched.state[t] \in Runnable => sched'.state[t] \in Runnable,
         Alive(t) => (Ended(process'[thread[t].owner].state) <=> Ended(process[thread[t].owner].state))
  PROVE  Place(t)'
BY DEF Place, NothingFreed

\* What is known of the current thread, and of one that makes a system call.
LEMMA CurrentFacts ==
  ASSUME IInv, panic = "none", Current # NoThread
  PROVE  /\ Current \in ThreadSlot /\ sched.state[Current] = "kRunning" /\ Alive(Current)
         /\ Owner \in ProcessSlot /\ process[Owner].state # "kFree"
         /\ Current \in Range(process[Owner].threads)
         /\ sched.ready # <<>>
<1>1. /\ Current \in ThreadSlot /\ sched.state[Current] = "kRunning" /\ Alive(Current)
      /\ Owner \in ProcessSlot
  BY DEF IInv, TypeOK, SchedulerState, Current, Owner, SchedulerConsistent, Consistent, RunConsistent,
         Alive, Live
<1>2. process[Owner].state # "kFree" /\ Current \in Range(process[Owner].threads)
  BY <1>1 DEF IInv, OwnerExists, ListConsistent, Owner
<1>3. \E t \in ThreadSlot : sched.state[t] = "kReady"
  <2>1. /\ sched.state[ThreadRipper] \in {"kReady", "kRunning"}
        /\ sched.state[ProcessRipper] \in {"kReady", "kRunning"}
    BY BootFacts DEF IInv, WorkersRunnable
  <2>2. ~(sched.state[ThreadRipper] = "kRunning" /\ sched.state[ProcessRipper] = "kRunning")
    BY BootFacts DEF IInv, SchedulerConsistent, Consistent, RunConsistent
  <2>3. QED  BY <2>1, <2>2, BootFacts
<1>4. sched.ready # <<>>
  BY <1>3, EmptyList DEF IInv, SchedulerConsistent, Consistent, ReadyConsistent
<1>5. QED  BY <1>1, <1>2, <1>4

\* A thread that makes a system call belongs to a process that is ready.
LEMMA CallerFacts ==
  ASSUME IInv, NEW call, Syscall(call)
  PROVE  /\ panic = "none" /\ Current # NoThread /\ resume[Current].at = "Run"
         /\ Current \notin Workers /\ process[Owner].state = "kReady"
<1>1. panic = "none" /\ Current # NoThread /\ resume[Current].at = "Run" /\ Owner \notin KernelProcess
  BY DEF Syscall, At
<1>2. Current \notin Workers
  BY <1>1, BootFacts DEF IInv, WorkersRunnable, Owner
<1>3. process[Owner].state # "kFree" /\ ~Ended(process[Owner].state) /\ Owner \in ProcessSlot
  BY <1>1, CurrentFacts DEF IInv, EndedProcessQuiet, Owner
<1>4. QED
  BY <1>1, <1>2, <1>3 DEF IInv, TypeOK, ProcessState, Ended

-----------------------------------------------------------------------------

\* A step in which no thread begins or ends and no process is freed.
LEMMA StepInv ==
  ASSUME IInv, TypeOK', Consistent(sched'), AssertionsHold', SameLife(sched, sched'),
         NEW X \in SUBSET ThreadSlot, \A t \in X : Place(t)',
         \A t \in ThreadSlot \ X :
            /\ resume'[t] = resume[t]
            /\ sched.state[t] \in Runnable => sched'.state[t] \in Runnable
            /\ Alive(t) => (Ended(process'[thread[t].owner].state)
                               <=> Ended(process[thread[t].owner].state)),
         \A t \in ThreadSlot : thread'[t].owner = thread[t].owner,
         \A t \in ThreadSlot : sched'.wq[t] # <<>> => Alive(t),
         \A p \in ProcessSlot : /\ process'[p].threads = process[p].threads
                                /\ process'[p].live = process[p].live
                                /\ process'[p].toClean = process[p].toClean
                                /\ process[p].state # "kFree" => process'[p].state # "kFree",
         threadsToClean' = threadsToClean
  PROVE  IInv'
<1>1. TypeOK /\ Books /\ Places
  BY InvMeaning
<1>2. NothingFreed
  BY DEF NothingFreed, SameLife, Live
<1>3. \A t \in ThreadSlot : sched.state[t] # "kFree" => process'[thread[t].owner].state # "kFree"
  BY <1>1 DEF Books, OwnerExists, TypeOK
<1>4. Books'
  BY <1>1, <1>3, BooksKept
<1>5. ASSUME NEW t \in ThreadSlot \ X PROVE Place(t)'
  <2>1. Alive(t)' <=> Alive(t)
    BY DEF SameLife, Alive, Live
  <2>2. Place(t)
    BY <1>1 DEF Places
  <2>3. QED  BY <1>1, <1>2, <2>1, <2>2, PlaceKept
<1>6. Places'
  BY <1>5 DEF Places
<1>7. QED  BY <1>4, <1>6, InvMeaningPrime DEF SchedulerConsistent

\* A scheduler call outside of which no thread begins or ends.
LEMMA FrameLife ==
  ASSUME NEW s, NEW s1, Frame(s, s1, {})
  PROVE  /\ SameLife(s, s1)
         /\ \A t \in ThreadSlot : s.state[t] \in Runnable => s1.state[t] \in Runnable
BY DEF Frame, SameLife

\* A step that only reschedules.
LEMMA ScheduleInv ==
  ASSUME IInv, TypeOK', Consistent(sched'), AssertionsHold', Frame(sched, sched', {}),
         \A t \in ThreadSlot : sched'.wq[t] # <<>> => sched.wq[t] # <<>>,
         thread' = thread, process' = process, threadsToClean' = threadsToClean, resume' = resume
  PROVE  IInv'
<1>1. \A t \in ThreadSlot : sched'.wq[t] # <<>> => Alive(t)
  BY DEF IInv, JoinersWaitOnLiving
<1>2. /\ SameLife(sched, sched')
      /\ \A t \in ThreadSlot : sched.state[t] \in Runnable => sched'.state[t] \in Runnable
  BY FrameLife
<1> DEFINE X == {}
<1>3. X \in SUBSET ThreadSlot /\ \A t \in X : Place(t)'
  OBVIOUS
<1> HIDE DEF X
<1>4. QED  BY <1>1, <1>2, <1>3, StepInv

\* A step that changes the place of one thread.
LEMMA OneStepInv ==
  ASSUME IInv, TypeOK', Consistent(sched'), AssertionsHold', SameLife(sched, sched'),
         NEW c \in ThreadSlot, Place(c)', NEW p, resume' = [resume EXCEPT ![c] = p],
         \A t \in ThreadSlot \ {c} :
            /\ sched.state[t] \in Runnable => sched'.state[t] \in Runnable
            /\ Alive(t) => (Ended(process'[thread[t].owner].state)
                               <=> Ended(process[thread[t].owner].state)),
         \A t \in ThreadSlot : thread'[t].owner = thread[t].owner,
         \A t \in ThreadSlot : sched'.wq[t] # <<>> => Alive(t),
         \A q \in ProcessSlot : /\ process'[q].threads = process[q].threads
                                /\ process'[q].live = process[q].live
                                /\ process'[q].toClean = process[q].toClean
                                /\ process[q].state # "kFree" => process'[q].state # "kFree",
         threadsToClean' = threadsToClean
  PROVE  IInv'
<1> DEFINE X == {c}
<1>1. X \in SUBSET ThreadSlot /\ \A t \in X : Place(t)'
  OBVIOUS
<1>2. \A t \in ThreadSlot \ X :
         /\ resume'[t] = resume[t]
         /\ sched.state[t] \in Runnable => sched'.state[t] \in Runnable
         /\ Alive(t) => (Ended(process'[thread[t].owner].state)
                            <=> Ended(process[thread[t].owner].state))
  BY DEF IInv, TypeOK
<1> HIDE DEF X
<1>3. QED  BY <1>1, <1>2, StepInv, Zenon

\* The kernel stops in an assertion that is not one of AssertionsHold.
LEMMA FailInv ==
  ASSUME IInv, NEW assertion \in Panics, Fail(assertion),
         assertion \notin {"RemoveThread", "Idle", "ThreadFree", "SpawnThread", "OwnerMissing"}
  PROVE  IInv'
<1>1. TypeOK /\ Consistent(sched) /\ Books
  BY InvMeaning DEF SchedulerConsistent
<1>2. TypeOK' /\ Consistent(sched') /\ AssertionsHold' /\ Frame(sched, sched', {})
  BY <1>1 DEF Fail, TypeOK, AssertionsHold, Frame
<1>3. QED  BY <1>2, ScheduleInv DEF Fail

\* ConvertToScheduling finds a worker to run.
LEMMA StartSchedulingInv ==
  ASSUME IInv, StartScheduling
  PROVE  IInv'
<1>1. TypeOK /\ Consistent(sched) /\ Books /\ sched \in SchedulerState
  BY InvMeaning DEF SchedulerConsistent, TypeOK
<1>2. sched.ready # <<>>
  <2>1. sched.state[ThreadRipper] = "kReady"
    BY <1>1, BootFacts DEF IInv, WorkersRunnable, StartScheduling, Consistent, RunConsistent, Current
  <2>2. QED  BY <1>1, <2>1, BootFacts, EmptyList DEF Consistent, ReadyConsistent
<1>3. /\ sched' \in SchedulerState /\ Consistent(sched') /\ sched'.wq = sched.wq
      /\ Frame(sched, sched', {})
  BY <1>1, <1>2, ConvertConsistent DEF StartScheduling, Current
<1>4. TypeOK' /\ AssertionsHold'
  BY <1>1, <1>3 DEF TypeOK, StartScheduling, AssertionsHold
<1>5. QED  BY <1>3, <1>4, ScheduleInv DEF StartScheduling

\* The timer interrupt.
LEMMA TimerInv ==
  ASSUME IInv, NEW sliceUsedUp \in BOOLEAN, Timer(sliceUsedUp)
  PROVE  IInv'
<1>1. TypeOK /\ Consistent(sched) /\ Books /\ sched \in SchedulerState
  BY InvMeaning DEF SchedulerConsistent, TypeOK
<1>2. sched.current \in ThreadSlot
  BY CurrentFacts DEF Timer, At, Current
<1>3. /\ sched' \in SchedulerState /\ Consistent(sched') /\ sched'.wq = sched.wq
      /\ Frame(sched, sched', {})
  BY <1>1, <1>2, YieldConsistent DEF Timer, TimerRoutine
<1>4. TypeOK' /\ AssertionsHold'
  BY <1>1, <1>3 DEF TypeOK, Timer, At, AssertionsHold
<1>5. QED  BY <1>3, <1>4, ScheduleInv DEF Timer

\* The workers' sched_yield.
LEMMA YieldInv ==
  ASSUME IInv, panic = "none", Current # NoThread,
         NEW w \in DueSleepers(sched), SwitchAway(sched, w, "kReady"),
         UNCHANGED <<thread, process, threadsToClean, processesToClean, resume>>
  PROVE  IInv'
<1>1. TypeOK /\ Consistent(sched) /\ Books /\ sched \in SchedulerState
  BY InvMeaning DEF SchedulerConsistent, TypeOK
<1>2. sched.current \in ThreadSlot
  BY CurrentFacts DEF Current
<1>3. /\ sched' \in SchedulerState /\ Consistent(sched') /\ sched'.wq = sched.wq
      /\ Frame(sched, sched', {})
  BY <1>1, <1>2, YieldConsistent DEF SwitchAway
<1>4. TypeOK' /\ AssertionsHold'
  BY <1>1, <1>3 DEF TypeOK, SwitchAway, AssertionsHold, Panics
<1>5. QED  BY <1>3, <1>4, ScheduleInv

\* A system call that puts the caller to sleep or blocks it; p is where it goes on.
LEMMA ParkInv ==
  ASSUME IInv, NEW call, Syscall(call), NEW c \in ThreadSlot, c = Current,
         NEW s, NEW threadState \in {"kSleeping", "kBlockedOnWaitQueue"},
         Linked(s, threadState), s.current = Current, s.state = sched.state, s.ready = sched.ready,
         \A t \in ThreadSlot : s.wq[t] # <<>> => Alive(t),
         NEW w \in DueSleepers(s), Current \notin Range(w), SwitchAway(s, w, threadState),
         NEW p \in Resume, resume' = [resume EXCEPT ![Current] = p],
         p.at \in {"Run", "JoinThread", "JoinProcess"},
         p.at = "JoinThread" => p.of \in ThreadSlot /\ sched.state[p.of] # "kFree",
         p.at = "JoinProcess" => p.of \in ProcessSlot /\ process[p.of].state # "kFree",
         UNCHANGED <<thread, process, threadsToClean, processesToClean>>
  PROVE  IInv'
<1>1. TypeOK /\ Places
  BY InvMeaning
<1>2. /\ panic = "none" /\ c \notin Workers /\ sched.ready # <<>>
      /\ Alive(c) /\ process[Owner].state = "kReady"
  BY CallerFacts, CurrentFacts
<1>3. ~NeedsIdle(s, w)
  <2>1. /\ s \in SchedulerState /\ w \in Seq(ThreadSlot)
    BY DueList DEF Linked, IsList
  <2>2. QED  BY <1>2, <2>1 DEF NeedsIdle, SchedulerState
<1>4. /\ sched' \in SchedulerState /\ Consistent(sched') /\ sched'.wq = s.wq
      /\ sched'.state[c] = threadState /\ Frame(s, sched', {c}) /\ panic' = "none"
  BY <1>3, RescheduleConsistent, ZenonT(60) DEF SwitchAway, ThreadState
<1>5. TypeOK' /\ AssertionsHold'
  BY <1>1, <1>2, <1>4 DEF TypeOK, AssertionsHold, Panics
<1>6. /\ SameLife(sched, sched')
      /\ \A t \in ThreadSlot \ {c} : sched.state[t] \in Runnable => sched'.state[t] \in Runnable
  BY <1>2, <1>4 DEF SameLife, Frame, Live, Alive
<1>7. Place(c)'
  <2>1. resume'[c] = p
    BY <1>1, <1>2 DEF TypeOK
  <2>2. /\ \A t \in ThreadSlot : sched.state[t] # "kFree" => sched'.state[t] # "kFree"
        /\ sched'.state[c] \in Live
    BY <1>4, <1>6 DEF SameLife, Live
  <2>3. ~Ended(process'[thread'[c].owner].state)
    BY <1>2 DEF Owner, Ended
  <2>4. QED  BY <1>2, <2>1, <2>2, <2>3 DEF Place, Alive
<1>8. \A t \in ThreadSlot : sched'.wq[t] # <<>> => Alive(t)
  BY <1>4
<1>9. QED  BY <1>4, <1>5, <1>6, <1>7, <1>8, OneStepInv, Zenon

\* SysNanoSleepUntil.
LEMMA NanoSleepInv ==
  ASSUME IInv, NanoSleep
  PROVE  IInv'
<1> DEFINE s == SleepCurrent(sched)
<1>1. TypeOK /\ Consistent(sched) /\ Books /\ sched \in SchedulerState
  BY InvMeaning DEF SchedulerConsistent, TypeOK
<1>2. Syscall("NanoSleep") /\ Current \in ThreadSlot /\ sched.current = Current
  BY CurrentFacts, CallerFacts DEF NanoSleep, Current
<1>3. /\ Linked(s, "kSleeping") /\ s.current = Current /\ s.state = sched.state
      /\ s.ready = sched.ready /\ s.wq = sched.wq
  BY <1>1, <1>2, SleepLinked DEF SleepCurrent, SchedulerState
<1>4. PICK w \in DueSleepers(s) :
        IF Current \in Range(w) THEN Fail("WakeUpTasks")
        ELSE /\ SwitchAway(s, w, "kSleeping")
             /\ UNCHANGED <<thread, process, threadsToClean, processesToClean, resume>>
  BY DEF NanoSleep
<1> HIDE DEF s
<1>5. CASE Current \in Range(w)
  BY <1>4, <1>5, FailInv DEF Panics
<1>6. CASE Current \notin Range(w)
  <2>1. /\ resume[Current] \in Resume /\ resume' = [resume EXCEPT ![Current] = resume[Current]]
        /\ resume[Current].at = "Run"
    BY <1>1, <1>2, <1>4, <1>6, CallerFacts DEF TypeOK
  <2>2. \A t \in ThreadSlot : s.wq[t] # <<>> => Alive(t)
    BY <1>1, <1>3 DEF Books, JoinersWaitOnLiving
  <2>3. QED  BY <1>2, <1>3, <1>4, <1>6, <2>1, <2>2, ParkInv, Zenon
<1>7. QED  BY <1>5, <1>6

\* JoinThread and JoinProcess link the caller into a wait queue.
LEMMA BlockInv ==
  ASSUME IInv, NEW call, Syscall(call), NEW q \in WaitQueue, q \in ThreadSlot => Alive(q),
         NEW w \in DueSleepers(EnqueueCurrent(sched, q)),
         SwitchAway(EnqueueCurrent(sched, q), w, "kBlockedOnWaitQueue"),
         NEW at \in {"JoinThread", "JoinProcess"},
         resume' = [resume EXCEPT ![Current] = [at |-> at, of |-> q]],
         at = "JoinThread" => q \in ThreadSlot,
         at = "JoinProcess" => q \in ProcessSlot /\ process[q].state # "kFree",
         UNCHANGED <<thread, process, threadsToClean, processesToClean>>
  PROVE  IInv'
<1> DEFINE s == EnqueueCurrent(sched, q)
           p == [at |-> at, of |-> q]
<1>1. TypeOK /\ Consistent(sched) /\ Books /\ sched \in SchedulerState
  BY InvMeaning DEF SchedulerConsistent, TypeOK
<1>2. Current \in ThreadSlot /\ sched.current = Current /\ sched.state[Current] = "kRunning"
  BY CurrentFacts, CallerFacts DEF Current
<1>3. /\ Linked(s, "kBlockedOnWaitQueue") /\ s.current = Current /\ s.state = sched.state
      /\ s.ready = sched.ready /\ s.sleeping = sched.sleeping
      /\ \A r \in WaitQueue : r # q => s.wq[r] = sched.wq[r]
  BY <1>1, <1>2, BlockLinked, Zenon DEF EnqueueCurrent, SchedulerState
<1>4. \A t \in ThreadSlot : s.wq[t] # <<>> => Alive(t)
  BY <1>1, <1>3 DEF Books, JoinersWaitOnLiving, WaitQueue
<1>5. Current \notin Range(w)
  <2>1. Range(w) \subseteq s.sleeping
    BY <1>3, DueList DEF Linked
  <2>2. QED  BY <1>1, <1>2, <1>3, <2>1 DEF Consistent, SleepConsistent
<1>6. /\ p \in Resume /\ p.at \in {"Run", "JoinThread", "JoinProcess"}
      /\ p.at = "JoinThread" => p.of \in ThreadSlot /\ sched.state[p.of] # "kFree"
      /\ p.at = "JoinProcess" => p.of \in ProcessSlot /\ process[p.of].state # "kFree"
  BY DEF Resume, WaitQueue, Alive, Live
<1> HIDE DEF s, p
<1>7. SwitchAway(s, w, "kBlockedOnWaitQueue") /\ w \in DueSleepers(s)
      /\ resume' = [resume EXCEPT ![Current] = p]
  BY DEF s, p
<1>8. QED  BY <1>2, <1>3, <1>4, <1>5, <1>6, <1>7, ParkInv, Zenon

\* JoinThread up to its context switch.
LEMMA JoinThreadInv ==
  ASSUME IInv, NEW x \in ThreadSlot, JoinThread(x)
  PROVE  IInv'
<1>1. Alive(x)
  BY DEF JoinThread, IInv, TypeOK, SchedulerState, ThreadState, Ended, Alive, Live
<1>2. PICK w \in DueSleepers(EnqueueCurrent(sched, x)) :
        SwitchAway(EnqueueCurrent(sched, x), w, "kBlockedOnWaitQueue")
  BY DEF JoinThread
<1>3. QED  BY <1>1, <1>2, BlockInv, Zenon DEF JoinThread, WaitQueue

\* JoinProcess up to its context switch.
LEMMA JoinProcessInv ==
  ASSUME IInv, NEW p \in ProcessSlot, JoinProcess(p)
  PROVE  IInv'
<1>1. PICK w \in DueSleepers(EnqueueCurrent(sched, p)) :
        SwitchAway(EnqueueCurrent(sched, p), w, "kBlockedOnWaitQueue")
  BY DEF JoinProcess
<1>2. p \notin ThreadSlot /\ p \in WaitQueue
  BY BootFacts DEF WaitQueue
<1>3. QED  BY <1>1, <1>2, BlockInv, Zenon DEF JoinProcess

\* The current thread moves on in its code and nothing else happens.
LEMMA MoveInv ==
  ASSUME IInv, panic = "none", Current # NoThread, NEW c \in ThreadSlot, c = Current,
         NEW p \in Resume, resume' = [resume EXCEPT ![c] = p], Place(c)',
         processesToClean' \in Seq(ProcessSlot),
         UNCHANGED <<sched, thread, process, threadsToClean, panic>>
  PROVE  IInv'
<1>1. TypeOK' /\ Consistent(sched') /\ AssertionsHold' /\ SameLife(sched, sched')
  BY DEF IInv, TypeOK, SchedulerConsistent, AssertionsHold, SameLife
<1>2. \A t \in ThreadSlot : sched'.wq[t] # <<>> => Alive(t)
  BY DEF IInv, JoinersWaitOnLiving
<1>3. QED  BY <1>1, <1>2, OneStepInv, Zenon

\* The current thread returns to its own code.
LEMMA RunPlace ==
  ASSUME IInv, NEW c \in ThreadSlot, Alive(c), resume'[c].at = "Run", sched'.state = sched.state,
         thread'[c].owner = thread[c].owner, ~Ended(process'[thread[c].owner].state)
  PROVE  Place(c)'
BY DEF IInv, WorkersRunnable, Place, Alive, Runnable

\* The loader jumps to user space.
LEMMA Elf64EntryPointInv ==
  ASSUME IInv, Elf64EntryPoint
  PROVE  IInv'
<1>1. PICK c \in ThreadSlot : c = Current /\ Alive(c) /\ panic = "none"
  BY CurrentFacts DEF Elf64EntryPoint, At
<1>2. Run \in Resume /\ Run.at = "Run"
  BY DEF Run, Resume
<1>3. resume' = [resume EXCEPT ![c] = Run] /\ resume'[c] = Run
  BY <1>1 DEF Elf64EntryPoint, IInv, TypeOK
<1>4. ~Ended(process[thread[c].owner].state)
  BY <1>1 DEF IInv, EndedProcessQuiet, Elf64EntryPoint, At
<1>5. Place(c)'
  BY <1>1, <1>2, <1>3, <1>4, RunPlace DEF Elf64EntryPoint
<1>6. QED  BY <1>1, <1>2, <1>3, <1>5, MoveInv, Zenon DEF Elf64EntryPoint, At, IInv, TypeOK

\* The checks at the start of CommitMurder(Pid).
LEMMA CommitMurderInv ==
  ASSUME IInv, NEW p \in ProcessSlot \ KernelProcess, CommitMurder(p)
  PROVE  IInv'
<1> DEFINE r == [at |-> "CommitMurder", of |-> p]
<1>1. Syscall("Kill")
  BY DEF CommitMurder
<1>2. PICK c \in ThreadSlot : c = Current /\ Alive(c) /\ panic = "none"
  BY <1>1, CallerFacts, CurrentFacts
<1>3. c \notin Workers /\ ~Ended(process[thread[c].owner].state)
  BY <1>1, <1>2, CallerFacts DEF Owner, Ended
<1>4. r \in Resume /\ resume' = [resume EXCEPT ![c] = r] /\ resume'[c] = r
  BY <1>2 DEF Resume, CommitMurder, IInv, TypeOK
<1>5. Place(c)'
  BY <1>2, <1>3, <1>4 DEF Place, CommitMurder, Alive, Owner
<1>6. QED  BY <1>2, <1>4, <1>5, MoveInv, Zenon DEF CommitMurder, Syscall, At, IInv, TypeOK

\* The process ripper takes an entry off its stack.
LEMMA ProcessRipperPopInv ==
  ASSUME IInv, ProcessRipperPop
  PROVE  IInv'
<1> DEFINE p == Head(processesToClean)
           r == [at |-> "ProcessRipperClean", of |-> p]
<1>1. /\ panic = "none" /\ Current # NoThread /\ Current = ProcessRipper
      /\ processesToClean # <<>> /\ processesToClean \in Seq(ProcessSlot)
  BY DEF ProcessRipperPop, Worker, At, IInv, TypeOK
<1>2. p \in ProcessSlot /\ Tail(processesToClean) \in Seq(ProcessSlot)
  BY <1>1
<1>3. CASE process[p].state = "kFree"
  BY <1>3, FailInv DEF ProcessRipperPop, Panics
<1>4. CASE process[p].state # "kFree"
  <2>1. PICK c \in ThreadSlot : c = Current /\ Alive(c)
    BY <1>1, CurrentFacts
  <2> HIDE DEF p
  <2>2. r \in Resume /\ resume' = [resume EXCEPT ![c] = r] /\ resume'[c] = r
        /\ processesToClean' = Tail(processesToClean)
        /\ UNCHANGED <<sched, thread, process, threadsToClean, panic>>
    BY <1>2, <1>4, <2>1 DEF Resume, ProcessRipperPop, IInv, TypeOK, p
  <2>3. /\ sched.state[c] \in Runnable /\ thread[c].owner = BootOwner[c]
        /\ ~Ended(process[thread[c].owner].state)
    BY <1>1, <2>1, BootFacts DEF IInv, WorkersRunnable, EndedProcessQuiet, Runnable,
                                 ProcessRipperPop, Worker, At
  <2>4. Place(c)'
    BY <1>1, <1>2, <1>4, <2>1, <2>2, <2>3 DEF Place, Alive
  <2>5. QED  BY <1>1, <1>2, <2>1, <2>2, <2>4, MoveInv, Zenon
<1>5. QED  BY <1>3, <1>4

\* The continuation of a thread that is in no kernel function.
LEMMA RunAt == Run \in Resume /\ Run.at = "Run"
BY DEF Run, Resume

\* A process that has ended, or has no thread left, is handed to the process ripper
\* by the current thread, which goes on with its own code.
LEMMA HandOverInv ==
  ASSUME IInv, panic = "none", Current # NoThread, NEW q \in ProcessSlot, process[q].state # "kFree",
         Ended(process[q].state) \/ process[q].threads = <<>>,
         HandToProcessRipper(q), resume[Current].at # "CommitSuicide",
         NEW r \in Resume, r.at = "Run", resume' = [resume EXCEPT ![Current] = r],
         UNCHANGED <<sched, thread, threadsToClean>>
  PROVE  IInv'
<1>1. PICK c \in ThreadSlot : c = Current /\ Alive(c)
  BY CurrentFacts
<1>2. \A p \in ProcessSlot :
        /\ process'[p].state = IF p = q THEN "kTerminated" ELSE process[p].state
        /\ process'[p].threads = process[p].threads
        /\ process'[p].live = process[p].live
        /\ process'[p].toClean = process[p].toClean
  BY Zenon DEF HandToProcessRipper, IInv, TypeOK
<1>3. TypeOK' /\ AssertionsHold'
  <2>1. processesToClean' \in Seq(ProcessSlot) /\ panic' \in {"none", "StackOverflow"}
    BY DEF HandToProcessRipper, IInv, TypeOK
  <2>2. process' \in [ProcessSlot -> [state : ProcessState, live : Nat, toClean : Nat,
                                      threads : Seq(ThreadSlot)]]
    BY Zenon DEF HandToProcessRipper, IInv, TypeOK, ProcessState
  <2>3. resume' \in [ThreadSlot -> Resume]
    BY <1>1 DEF IInv, TypeOK
  <2>4. QED  BY <2>1, <2>2, <2>3, Zenon DEF IInv, TypeOK, Panics, AssertionsHold
<1>4. \A t \in ThreadSlot :
        Alive(t) => (Ended(process'[thread[t].owner].state) <=> Ended(process[thread[t].owner].state))
  <2>1. \A t \in ThreadSlot : Alive(t) /\ thread[t].owner = q => process[q].threads # <<>>
    BY EmptyList DEF IInv, ListConsistent
  <2>2. \A t \in ThreadSlot : thread[t].owner \in ProcessSlot
    BY DEF IInv, TypeOK
  <2>3. QED  BY <1>2, <2>1, <2>2 DEF Ended
<1>5. Place(c)'
  <2>1. resume'[c].at = "Run"
    BY <1>1 DEF IInv, TypeOK
  <2>2. ~Ended(process'[thread[c].owner].state)
    BY <1>1, <1>4 DEF IInv, EndedProcessQuiet
  <2>3. QED  BY <1>1, <2>1, <2>2, RunPlace
<1>6. Consistent(sched') /\ SameLife(sched, sched')
  BY DEF IInv, SchedulerConsistent, SameLife
<1>7. \A t \in ThreadSlot : sched'.wq[t] # <<>> => Alive(t)
  BY DEF IInv, JoinersWaitOnLiving
<1>8. resume' = [resume EXCEPT ![c] = r]
  BY <1>1
<1>9. \A p \in ProcessSlot : /\ process'[p].threads = process[p].threads
                             /\ process'[p].live = process[p].live
                             /\ process'[p].toClean = process[p].toClean
                             /\ process[p].state # "kFree" => process'[p].state # "kFree"
  BY <1>2
<1>10. \A t \in ThreadSlot \ {c} :
         /\ sched.state[t] \in Runnable => sched'.state[t] \in Runnable
         /\ Alive(t) => (Ended(process'[thread[t].owner].state)
                            <=> Ended(process[thread[t].owner].state))
  BY <1>4
<1>11. QED  BY <1>3, <1>5, <1>6, <1>7, <1>8, <1>9, <1>10, OneStepInv, Zenon

\* The end of CommitMurder(Pid).
LEMMA MurderEndInv ==
  ASSUME IInv, MurderEnd
  PROVE  IInv'
<1>1. PICK c \in ThreadSlot : /\ c = Current /\ Alive(c) /\ panic = "none" /\ Current # NoThread
                              /\ resume[c].at = "CommitMurder" /\ Victim = resume[c].of
  BY CurrentFacts DEF MurderEnd, At, Victim
<1>2. Victim \in ProcessSlot /\ process[Victim].state # "kFree"
  BY <1>1 DEF MurderEnd, IInv, PointersKept
<1>3. CASE process[Victim].state # "kTerminated"
  BY <1>1, <1>2, <1>3, RunAt, HandOverInv, Zenon DEF MurderEnd
<1>4. CASE process[Victim].state = "kTerminated"
  <2>1. resume' = [resume EXCEPT ![c] = Run] /\ resume'[c].at = "Run" /\ Run \in Resume
    BY <1>1 DEF MurderEnd, IInv, TypeOK, Run, Resume
  <2>2. ~Ended(process[thread[c].owner].state)
    BY <1>1 DEF IInv, EndedProcessQuiet
  <2>3. UNCHANGED <<sched, thread, process, threadsToClean, processesToClean, panic>>
    BY <1>4 DEF MurderEnd
  <2>4. Place(c)'
    BY <1>1, <2>1, <2>2, <2>3, RunPlace
  <2>5. QED  BY <1>1, <2>1, <2>3, <2>4, MoveInv, Zenon DEF IInv, TypeOK
<1>5. QED  BY <1>3, <1>4

\* CommitMurder(Pid) runs a joiner of its victim.
LEMMA MurderReleaseInv ==
  ASSUME IInv, MurderRelease
  PROVE  IInv'
<1>1. PICK c \in ThreadSlot : /\ c = Current /\ Alive(c) /\ panic = "none" /\ Current # NoThread
                              /\ resume[c].at = "CommitMurder" /\ Victim = resume[c].of
  BY CurrentFacts DEF MurderRelease, At, Victim
<1>2. Victim \in ProcessSlot /\ Victim \in WaitQueue
  BY <1>1 DEF MurderRelease, IInv, PointersKept, WaitQueue
<1>3. CASE ~Ended(process[Victim].state)
  BY <1>3, FailInv DEF MurderRelease, Panics
<1>4. CASE Ended(process[Victim].state)
  <2>1. /\ sched' \in SchedulerState /\ Consistent(sched') /\ Frame(sched, sched', {})
        /\ \A r \in WaitQueue : sched'.wq[r] # <<>> => sched.wq[r] # <<>>
    BY <1>1, <1>2, <1>4, ReleaseFirstConsistent
       DEF MurderRelease, IInv, SchedulerConsistent, TypeOK, Current
  <2>2. UNCHANGED <<thread, process, threadsToClean, processesToClean, resume, panic>>
    BY <1>4 DEF MurderRelease
  <2>3. TypeOK' /\ AssertionsHold'
    BY <2>1, <2>2 DEF IInv, TypeOK, AssertionsHold
  <2>4. QED  BY <2>1, <2>2, <2>3, ScheduleInv DEF WaitQueue
<1>5. QED  BY <1>3, <1>4

\* JoinProcess of a process that has ended.
LEMMA JoinEndedProcessInv ==
  ASSUME IInv, NEW p \in ProcessSlot, JoinEndedProcess(p)
  PROVE  IInv'
<1>1. /\ panic = "none" /\ Current # NoThread /\ resume[Current].at = "Run" /\ Current \in ThreadSlot
  BY CallerFacts, CurrentFacts DEF JoinEndedProcess
<1>2. Current \notin Workers /\ process[Owner].state = "kReady" /\ Alive(Current)
  BY <1>1, CallerFacts, CurrentFacts DEF JoinEndedProcess
<1>3. /\ process[p].state = "kWaitingForJoin" /\ HandToProcessRipper(p)
      /\ UNCHANGED <<sched, thread, threadsToClean, resume>>
  BY DEF JoinEndedProcess
<1>4. resume[Current] \in Resume /\ resume' = [resume EXCEPT ![Current] = resume[Current]]
  BY <1>1, <1>3 DEF IInv, TypeOK
<1>5. QED  BY <1>1, <1>2, <1>3, <1>4, HandOverInv, Zenon DEF Ended

\* The rest of JoinProcess.
LEMMA JoinProcessResumedInv ==
  ASSUME IInv, JoinProcessResumed
  PROVE  IInv'
<1>1. PICK c \in ThreadSlot : /\ c = Current /\ Alive(c) /\ panic = "none" /\ Current # NoThread
                              /\ resume[c].at = "JoinProcess"
  BY CurrentFacts DEF JoinProcessResumed, At
<1> DEFINE p == resume[Current].of
<1>2. p # NoThread => p \in ProcessSlot /\ process[p].state # "kFree"
  BY <1>1 DEF IInv, PointersKept
<1> HIDE DEF p
<1>3. CASE p = NoThread
  <2>1. Fail("UseAfterFree")
    BY <1>3 DEF JoinProcessResumed, p
  <2>2. QED  BY <2>1, FailInv DEF Panics
<1>4. CASE p # NoThread /\ process[p].state = "kWaitingForJoin"
  <2>1. /\ HandToProcessRipper(p) /\ resume' = [resume EXCEPT ![Current] = Run]
        /\ UNCHANGED <<sched, thread, threadsToClean>>
    BY <1>4 DEF JoinProcessResumed, p
  <2>2. QED  BY <1>1, <1>2, <1>4, <2>1, RunAt, HandOverInv, Zenon DEF Ended
<1>5. CASE p # NoThread /\ process[p].state = "kTerminated"
  <2>1. /\ resume' = [resume EXCEPT ![c] = Run]
        /\ UNCHANGED <<sched, thread, process, threadsToClean, processesToClean, panic>>
    BY <1>1, <1>5 DEF JoinProcessResumed, p
  <2>2. resume'[c].at = "Run" /\ ~Ended(process[thread[c].owner].state)
    BY <1>1, <2>1, RunAt DEF IInv, TypeOK, EndedProcessQuiet
  <2>3. Place(c)'
    BY <1>1, <2>1, <2>2, RunPlace
  <2>4. QED  BY <1>1, <2>1, <2>3, RunAt, MoveInv, Zenon DEF IInv, TypeOK
<1>6. CASE p # NoThread /\ process[p].state \notin {"kWaitingForJoin", "kTerminated"}
  <2>1. Fail("JoinProcess")
    BY <1>6 DEF JoinProcessResumed, p
  <2>2. QED  BY <2>1, FailInv DEF Panics
<1>7. QED  BY <1>3, <1>4, <1>5, <1>6

\* A thread whose state is not free is counted once by its process.
LEMMA CountedOnce ==
  ASSUME IInv, NEW t \in ThreadSlot, Alive(t) \/ sched.state[t] = "kWaitingForJoin"
  PROVE  LET p == thread[t].owner
         IN  /\ p \in ProcessSlot /\ process[p].live \in Nat /\ process[p].live >= 1
             /\ process[p].live = 1 => Unended(p) = {t}
<1> DEFINE p == thread[t].owner
<1>1. p \in ProcessSlot /\ t \in Unended(p) /\ Unended(p) \in SUBSET ThreadSlot
  BY DEF IInv, TypeOK, Unended
<1>2. process[p].live = Cardinality(Unended(p))
  BY <1>1, Zenon DEF IInv, Accounting, Unended
<1>3. QED  BY <1>1, <1>2, CountDown, Zenon

\* The rest of JoinThread and DetachThread.
LEMMA ReapInv ==
  ASSUME IInv, panic = "none", Current # NoThread, resume[Current].at # "CommitSuicide",
         NEW x \in ThreadSlot, sched.state[x] = "kWaitingForJoin", ReapThread(x),
         NEW r \in Resume, r.at = "Run", resume' = [resume EXCEPT ![Current] = r]
  PROVE  IInv'
<1> DEFINE p == thread[x].owner
<1>1. PICK c \in ThreadSlot : c = Current /\ Alive(c)
  BY CurrentFacts
<1>2. p \in ProcessSlot /\ process[p].live \in Nat /\ process[p].live >= 1
  BY CountedOnce
<1>3. /\ sched' = [sched EXCEPT !.state[x] = "kTerminated"]
      /\ threadsToClean' = <<x>> \o threadsToClean
      /\ process' = [process EXCEPT ![p] = CountTerminated(@)]
      /\ UNCHANGED <<thread, processesToClean, panic>>
  BY DEF ReapThread, HandToThreadRipper
<1>4. sched' \in SchedulerState /\ Consistent(sched')
  BY <1>3, MarkConsistent, Zenon DEF IInv, TypeOK, SchedulerConsistent, ThreadState, Live
<1>5. TypeOK' /\ AssertionsHold'
  <2>1. process[p].live - 1 \in Nat /\ process[p].toClean + 1 \in Nat
    BY <1>2 DEF IInv, TypeOK
  <2>2. process' \in [ProcessSlot -> [state : ProcessState, live : Nat, toClean : Nat,
                                      threads : Seq(ThreadSlot)]]
    BY <1>2, <1>3, <2>1, Zenon DEF IInv, TypeOK, CountTerminated
  <2>3. threadsToClean' \in Seq(ThreadSlot)
    BY <1>3 DEF IInv, TypeOK
  <2>4. resume' \in [ThreadSlot -> Resume]
    BY <1>1 DEF IInv, TypeOK
  <2>5. QED  BY <1>3, <1>4, <2>2, <2>3, <2>4 DEF IInv, TypeOK, AssertionsHold
<1>6. Books'
  BY <1>3, BooksReap, InvMeaning, Zenon
<1>7. /\ \A t \in ThreadSlot : sched'.state[t] = IF t = x THEN "kTerminated" ELSE sched.state[t]
      /\ \A q \in ProcessSlot : process'[q].state = process[q].state
      /\ \A t \in ThreadSlot : resume'[t] = IF t = c THEN r ELSE resume[t]
      /\ \A t \in ThreadSlot : thread[t].owner \in ProcessSlot
  BY <1>1, <1>2, <1>3 DEF IInv, TypeOK, SchedulerState, CountTerminated
<1>8. NothingFreed /\ \A t \in ThreadSlot : Alive(t)' <=> Alive(t)
  BY <1>7 DEF NothingFreed, Alive, Live
<1>9. ASSUME NEW t \in ThreadSlot, t # c PROVE Place(t)'
  <2>1. Place(t) /\ TypeOK
    BY InvMeaning DEF Places
  <2>2. sched.state[t] \in Runnable => sched'.state[t] \in Runnable
    BY <1>7 DEF Runnable
  <2>3. QED  BY <1>3, <1>7, <1>8, <1>9, <2>1, <2>2, PlaceKept
<1>10. Place(c)'
  <2>1. /\ sched'.state[c] = sched.state[c] /\ c # x
        /\ ~Ended(process'[thread[c].owner].state)
    BY <1>1, <1>7 DEF Alive, Live, IInv, EndedProcessQuiet
  <2>2. Place(c)
    BY InvMeaning DEF Places
  <2>3. QED  BY <1>1, <1>3, <1>7, <2>1, <2>2 DEF Place, Alive
<1>11. Places'
  BY <1>9, <1>10 DEF Places
<1>12. QED  BY <1>4, <1>5, <1>6, <1>11, InvMeaningPrime DEF SchedulerConsistent

\* JoinThread of a thread that has ended.
LEMMA JoinEndedThreadInv ==
  ASSUME IInv, NEW x \in ThreadSlot, JoinEndedThread(x)
  PROVE  IInv'
<1>1. /\ panic = "none" /\ Current # NoThread /\ resume[Current].at = "Run" /\ Current \in ThreadSlot
  BY CallerFacts, CurrentFacts DEF JoinEndedThread
<1>2. resume[Current] \in Resume /\ resume' = [resume EXCEPT ![Current] = resume[Current]]
  BY <1>1 DEF IInv, TypeOK, JoinEndedThread
<1>3. QED  BY <1>1, <1>2, ReapInv, Zenon DEF JoinEndedThread

\* The rest of JoinThread.
LEMMA JoinThreadResumedInv ==
  ASSUME IInv, JoinThreadResumed
  PROVE  IInv'
<1>1. PICK c \in ThreadSlot : /\ c = Current /\ Alive(c) /\ panic = "none" /\ Current # NoThread
                              /\ resume[c].at = "JoinThread"
  BY CurrentFacts DEF JoinThreadResumed, At
<1> DEFINE x == resume[Current].of
<1>2. x # NoThread => x \in ThreadSlot
  BY <1>1 DEF IInv, PointersKept
<1> HIDE DEF x
<1>3. CASE x = NoThread
  <2>1. Fail("UseAfterFree")
    BY <1>3 DEF JoinThreadResumed, x
  <2>2. QED  BY <2>1, FailInv DEF Panics
<1>4. CASE x # NoThread /\ sched.state[x] = "kWaitingForJoin"
  <2>1. ReapThread(x) /\ resume' = [resume EXCEPT ![Current] = Run]
    BY <1>4 DEF JoinThreadResumed, x
  <2>2. QED  BY <1>1, <1>2, <1>4, <2>1, RunAt, ReapInv, Zenon
<1>5. CASE x # NoThread /\ sched.state[x] = "kTerminated"
  <2>1. /\ resume' = [resume EXCEPT ![c] = Run]
        /\ UNCHANGED <<sched, thread, process, threadsToClean, processesToClean, panic>>
    BY <1>1, <1>5 DEF JoinThreadResumed, x
  <2>2. resume'[c].at = "Run" /\ ~Ended(process[thread[c].owner].state)
    BY <1>1, <2>1, RunAt DEF IInv, TypeOK, EndedProcessQuiet
  <2>3. Place(c)'
    BY <1>1, <2>1, <2>2, RunPlace
  <2>4. QED  BY <1>1, <2>1, <2>3, RunAt, MoveInv, Zenon DEF IInv, TypeOK
<1>6. CASE x # NoThread /\ sched.state[x] \notin {"kWaitingForJoin", "kTerminated"}
  <2>1. Fail("JoinThread")
    BY <1>6 DEF JoinThreadResumed, x
  <2>2. QED  BY <2>1, FailInv DEF Panics
<1>7. QED  BY <1>3, <1>4, <1>5, <1>6

\* DetachThread, of a living or of an ended thread.
LEMMA DetachThreadInv ==
  ASSUME IInv, NEW x \in ThreadSlot, DetachThread(x)
  PROVE  IInv'
<1>1. PICK c \in ThreadSlot : c = Current /\ panic = "none" /\ Current # NoThread /\ resume[c].at = "Run"
  BY CallerFacts, CurrentFacts DEF DetachThread
<1>2. resume[c] \in Resume /\ resume' = [resume EXCEPT ![c] = resume[c]]
  BY <1>1 DEF IInv, TypeOK, DetachThread
<1>3. CASE sched.state[x] = "kWaitingForJoin"
  BY <1>1, <1>2, <1>3, ReapInv, Zenon DEF DetachThread
<1>4. CASE sched.state[x] # "kWaitingForJoin"
  <2>1. /\ thread' = [thread EXCEPT ![x].detached = TRUE]
        /\ UNCHANGED <<sched, process, threadsToClean, processesToClean, panic, resume>>
    BY <1>4 DEF DetachThread
  <2>2. TypeOK' /\ Consistent(sched') /\ AssertionsHold' /\ SameLife(sched, sched')
    BY <2>1, Zenon DEF IInv, TypeOK, SchedulerConsistent, AssertionsHold, SameLife
  <2>3. \A t \in ThreadSlot : thread'[t].owner = thread[t].owner
    BY <2>1 DEF IInv, TypeOK
  <2>4. \A t \in ThreadSlot : sched'.wq[t] # <<>> => Alive(t)
    BY <2>1 DEF IInv, JoinersWaitOnLiving
  <2>5. Place(c)'
    <3>1. Place(c)
      BY InvMeaning DEF Places
    <3>2. QED  BY <2>1, <2>3, <3>1 DEF Place, Alive
  <2>6. QED  BY <1>2, <2>1, <2>2, <2>3, <2>4, <2>5, OneStepInv
<1>5. QED  BY <1>3, <1>4

\* A new thread is ready in a process that has not ended.
LEMMA SpawnInv ==
  ASSUME IInv, panic = "none", NEW t \in ThreadSlot, NEW p \in ProcessSlot, sched.state[t] = "kFree",
         sched' = AddReadyThread(sched, t),
         NEW detached \in BOOLEAN, thread' = [thread EXCEPT ![t] = [owner |-> p, detached |-> detached]],
         NEW pcb, process' = [process EXCEPT ![p] = pcb], ~Ended(process[p].state),
         pcb \in [state : ProcessState, live : Nat, toClean : Nat, threads : Seq(ThreadSlot)],
         pcb.state = "kReady", pcb.live = process[p].live + 1, pcb.toClean = process[p].toClean,
         pcb.threads = <<t>> \o process[p].threads,
         NEW r \in Resume, r.at \in {"Run", "Elf64EntryPoint"}, resume' = [resume EXCEPT ![t] = r],
         UNCHANGED <<threadsToClean, processesToClean, panic>>
  PROVE  IInv'
<1>1. TypeOK /\ Books /\ Places /\ sched \in SchedulerState /\ Consistent(sched)
  BY InvMeaning DEF TypeOK, SchedulerConsistent
<1>2. /\ sched' \in SchedulerState /\ Consistent(sched')
      /\ sched'.wq = sched.wq /\ sched'.state = [sched.state EXCEPT ![t] = "kReady"]
  BY <1>1, AddReadyConsistent, Zenon
<1>3. pcb.state # "kFree"
  OBVIOUS
<1>4. /\ \A q \in ProcessSlot : process'[q] = IF q = p THEN pcb ELSE process[q]
      /\ \A u \in ThreadSlot : thread'[u].owner = IF u = t THEN p ELSE thread[u].owner
      /\ \A u \in ThreadSlot : resume'[u] = IF u = t THEN r ELSE resume[u]
      /\ \A u \in ThreadSlot : sched'.state[u] = IF u = t THEN "kReady" ELSE sched.state[u]
      /\ \A u \in ThreadSlot : thread[u].owner \in ProcessSlot
  BY <1>1, <1>2, Zenon DEF TypeOK, SchedulerState
<1>5. TypeOK' /\ AssertionsHold'
  <2>1. process' \in [ProcessSlot -> [state : ProcessState, live : Nat, toClean : Nat,
                                      threads : Seq(ThreadSlot)]]
    BY <1>1, <1>3 DEF TypeOK
  <2>2. thread' \in [ThreadSlot -> [owner : ProcessSlot, detached : BOOLEAN]]
    BY <1>1 DEF TypeOK
  <2>3. resume' \in [ThreadSlot -> Resume]
    BY <1>1 DEF TypeOK
  <2>4. QED  BY <1>1, <1>2, <2>1, <2>2, <2>3 DEF TypeOK, AssertionsHold
<1>6. Books'
  <2>1. /\ process'[p].threads = <<t>> \o process[p].threads /\ process'[p].live = process[p].live + 1
        /\ process'[p].toClean = process[p].toClean /\ process'[p].state = "kReady"
        /\ \A q \in ProcessSlot \ {p} : process'[q] = process[q]
    BY <1>3, <1>4
  <2>2. QED  BY <1>1, <1>2, <1>4, <2>1, BooksSpawn, Zenon
<1>7. NothingFreed /\ \A u \in ThreadSlot \ {t} : Alive(u)' <=> Alive(u)
  BY <1>3, <1>4 DEF NothingFreed, Alive
<1>8. ASSUME NEW u \in ThreadSlot, u # t PROVE Place(u)'
  <2>1. Place(u)
    BY <1>1 DEF Places
  <2>2. sched.state[u] \in Runnable => sched'.state[u] \in Runnable
    BY <1>4, <1>8
  <2>3. Ended(process'[thread[u].owner].state) <=> Ended(process[thread[u].owner].state)
    BY <1>3, <1>4 DEF Ended
  <2>4. QED  BY <1>1, <1>4, <1>7, <1>8, <2>1, <2>2, <2>3, PlaceKept
<1>9. Place(t)'
  <2>1. t \notin Workers
    BY <1>1, Zenon DEF Places, Place, Runnable
  <2>2. Alive(t)' /\ ~Ended(process'[thread'[t].owner].state)
    BY <1>3, <1>4 DEF Alive, Live, Ended
  <2>3. QED  BY <1>4, <2>1, <2>2 DEF Place
<1>10. QED  BY <1>2, <1>5, <1>6, <1>8, <1>9, InvMeaningPrime DEF Places, SchedulerConsistent

\* SysThreadCreate.
LEMMA CreateThreadInv ==
  ASSUME IInv, CreateThread
  PROVE  IInv'
<1>1. panic = "none" /\ Owner \in ProcessSlot /\ process[Owner].state = "kReady"
  BY CallerFacts, CurrentFacts DEF CreateThread
<1>2. CASE FreeThreads = {}
  BY <1>1, <1>2, FailInv DEF CreateThread, Panics
<1>3. CASE FreeThreads # {}
  <2>1. PICK t \in FreeThreads :
          /\ sched' = AddReadyThread(sched, t)
          /\ thread' = [thread EXCEPT ![t] = Undetached(Owner)]
          /\ process' = [process EXCEPT ![Owner].live = @ + 1, ![Owner].threads = <<t>> \o @]
          /\ resume' = [resume EXCEPT ![t] = Run]
          /\ UNCHANGED <<threadsToClean, processesToClean, panic>>
    BY <1>1, <1>3, Zenon DEF CreateThread
  <2>2. t \in ThreadSlot /\ sched.state[t] = "kFree"
    BY DEF FreeThreads
  <2> DEFINE pcb == [process[Owner] EXCEPT !.live = @ + 1, !.threads = <<t>> \o @]
  <2>3. process' = [process EXCEPT ![Owner] = pcb]
    BY <1>1, <2>1, Zenon DEF IInv, TypeOK
  <2>4. /\ pcb \in [state : ProcessState, live : Nat, toClean : Nat, threads : Seq(ThreadSlot)]
        /\ pcb.state = "kReady" /\ pcb.live = process[Owner].live + 1
        /\ pcb.toClean = process[Owner].toClean /\ pcb.threads = <<t>> \o process[Owner].threads
    <3>1. process[Owner] \in [state : ProcessState, live : Nat, toClean : Nat, threads : Seq(ThreadSlot)]
      BY <1>1 DEF IInv, TypeOK
    <3>2. process[Owner].live + 1 \in Nat /\ <<t>> \o process[Owner].threads \in Seq(ThreadSlot)
      BY <2>2, <3>1
    <3>3. QED  BY <1>1, <3>1, <3>2, Zenon
  <2> HIDE DEF pcb
  <2>5. Undetached(Owner) = [owner |-> Owner, detached |-> FALSE] /\ ~Ended(process[Owner].state)
    BY <1>1 DEF Undetached, Ended
  <2>6. QED  BY <1>1, <2>1, <2>2, <2>3, <2>4, <2>5, RunAt, SpawnInv, Zenon
<1>4. QED  BY <1>2, <1>3

\* A free process has no thread, so it is spawned into as if it existed.
LEMMA FreeProcessEmpty ==
  ASSUME IInv, NEW p \in ProcessSlot, process[p].state = "kFree"
  PROVE  process[p].threads = <<>> /\ process[p].live = 0 /\ process[p].toClean = 0
<1>1. \A t \in ThreadSlot : sched.state[t] # "kFree" => thread[t].owner # p
  BY DEF IInv, OwnerExists
<1>2. Unended(p) = {} /\ Uncleaned(p) = {}
  BY <1>1 DEF Unended, Uncleaned, Alive, Live
<1>3. process[p].live = 0 /\ process[p].toClean = 0
  <2>1. process[p].live = Cardinality(Unended(p)) /\ process[p].toClean = Cardinality(Uncleaned(p))
    BY DEF IInv, Accounting, Unended, Uncleaned
  <2>2. QED  BY <1>2, <2>1, CountNone
<1>4. Range(process[p].threads) = {}
  BY <1>1 DEF IInv, ListConsistent, Alive, Live
<1>5. process[p].threads = <<>>
  <2>1. process[p].threads \in Seq(ThreadSlot)
    BY DEF IInv, TypeOK
  <2>2. process[p].threads # <<>> => Head(process[p].threads) \in Range(process[p].threads)
    BY <2>1, ListTail DEF IInv, ListConsistent, IsList
  <2>3. QED  BY <1>4, <2>2
<1>6. QED  BY <1>3, <1>5

\* SysExec.
LEMMA ExecInv ==
  ASSUME IInv, NEW async \in BOOLEAN, Exec(async)
  PROVE  IInv'
<1>1. panic = "none"
  BY DEF Exec, Syscall, At
<1>2. CASE FreeProcesses = {} \/ FreeThreads = {}
  BY <1>2, FailInv DEF Exec, Panics
<1>3. CASE ~(FreeProcesses = {} \/ FreeThreads = {})
  <2>1. PICK p \in FreeProcesses, t \in FreeThreads :
          /\ sched' = AddReadyThread(sched, t)
          /\ thread' = [thread EXCEPT ![t] = [owner |-> p, detached |-> async]]
          /\ process' = [process EXCEPT ![p] = FreshProcess(t)]
          /\ resume' = [resume EXCEPT ![t] = [Run EXCEPT !.at = "Elf64EntryPoint"]]
          /\ UNCHANGED <<threadsToClean, processesToClean, panic>>
    BY <1>3 DEF Exec
  <2>2. /\ p \in ProcessSlot /\ process[p].state = "kFree" /\ ~Ended(process[p].state)
        /\ t \in ThreadSlot /\ sched.state[t] = "kFree"
    BY DEF FreeProcesses, FreeThreads, Ended
  <2>3. /\ FreshProcess(t) \in [state : ProcessState, live : Nat, toClean : Nat,
                                threads : Seq(ThreadSlot)]
        /\ FreshProcess(t).state = "kReady" /\ FreshProcess(t).live = process[p].live + 1
        /\ FreshProcess(t).toClean = process[p].toClean
        /\ FreshProcess(t).threads = <<t>> \o process[p].threads
    <3>1. <<t>> \o <<>> = <<t>> /\ <<t>> \in Seq(ThreadSlot)
      BY <2>2
    <3>2. QED  BY <2>2, <3>1, FreeProcessEmpty DEF FreshProcess, ProcessState
  <2> DEFINE r == [Run EXCEPT !.at = "Elf64EntryPoint"]
  <2>4. r \in Resume /\ r.at = "Elf64EntryPoint"
    BY DEF Run, Resume
  <2> HIDE DEF r
  <2>5. resume' = [resume EXCEPT ![t] = r]
    BY <2>1 DEF r
  <2>6. QED  BY <1>1, <2>1, <2>2, <2>3, <2>4, <2>5, SpawnInv, Zenon
<1>4. QED  BY <1>2, <1>3
=============================================================================
