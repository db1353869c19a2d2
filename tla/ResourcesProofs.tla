---------------------------- MODULE ResourcesProofs ----------------------------
(* Proofs about what processes hold (Resources): the two levels of reference   *)
(* counts of the open files are exact, pipes belong to the living, a process   *)
(* that is gone holds nothing, and the buffers of the window manager are those *)
(* of its sessions. For any number of processes, descriptors, entries, files   *)
(* and sessions.                                                               *)
EXTENDS Resources, FilesProofs, SequenceTheorems

--------------------------------------------------------------------------------
(* The sessions of the window manager.                                         *)

Session == [buffer : Buffer, owner_pid : Slot \X Nat, focused_pid : Slot \X Nat]

\* Each buffer is in one session, and the session on the screen is in the list.
ListOK ==
    /\ sessions \in Seq(Session)
    /\ \A k, m \in 1..Len(sessions) : sessions[k].buffer = sessions[m].buffer => k = m
    /\ buffers = {sessions[k].buffer : k \in 1..Len(sessions)}
    /\ ScreenShowsASession

\* The list without its k-th session.
LEMMA Removed ==
    ASSUME NEW S, NEW s \in Seq(S), NEW k \in 1..Len(s), NEW r, r = Unlinked(s, k)
    PROVE  /\ r \in Seq(S) /\ Len(r) = Len(s) - 1
           /\ \A j \in 1..Len(r) : r[j] = s[IF j < k THEN j ELSE j + 1]
<1>1. Len(s) \in Nat /\ k \in Int /\ 1 <= k /\ k <= Len(s)
  BY LenProperties
<1> DEFINE a == SubSeq(s, 1, k - 1)
           b == SubSeq(s, k + 1, Len(s))
<1>2. /\ a \in Seq(S) /\ Len(a) = k - 1
      /\ \A j \in 1..k - 1 : a[j] = s[j]
  BY <1>1, SubSeqProperties
<1>3. /\ b \in Seq(S) /\ Len(b) = Len(s) - k
      /\ \A j \in 1..Len(s) - k : b[j] = s[k + j]
  BY <1>1, SubSeqProperties
<1> HIDE DEF a, b
<1>4. r = a \o b
  BY DEF Unlinked, a, b
<1>5. /\ r \in Seq(S) /\ Len(r) = Len(s) - 1
      /\ \A j \in 1..Len(s) - 1 : r[j] = IF j <= k - 1 THEN a[j] ELSE b[j - (k - 1)]
  <2>1. /\ r \in Seq(S) /\ Len(r) = Len(a) + Len(b)
        /\ \A j \in 1..Len(a) + Len(b) : r[j] = IF j <= Len(a) THEN a[j] ELSE b[j - Len(a)]
    <3>1. a \in Seq(S) /\ b \in Seq(S)
      BY <1>2, <1>3
    <3> QED
      BY <1>4, <3>1, ConcatProperties, Zenon
  <2>2. Len(a) = k - 1 /\ Len(b) = Len(s) - k /\ Len(a) + Len(b) = Len(s) - 1
    BY <1>1, <1>2, <1>3
  <2> QED
    BY <2>1, <2>2
<1>6. ASSUME NEW j \in 1..Len(r)
      PROVE  r[j] = s[IF j < k THEN j ELSE j + 1]
  <2>1. CASE j < k
    BY <1>1, <1>2, <1>5, <2>1
  <2>2. CASE ~(j < k)
    <3>1. j - (k - 1) \in 1..Len(s) - k /\ k + (j - (k - 1)) = j + 1
      BY <1>1, <1>5, <2>2
    <3> QED
      BY <1>1, <1>3, <1>5, <2>2, <3>1
  <2> QED
    BY <2>1, <2>2
<1> QED
  BY <1>5, <1>6

\* The first session in the list of a process, which SessionsOf finds.
LEMMA FirstOf ==
    ASSUME NEW K, K \subseteq DOMAIN sessions, K # {}, sessions \in Seq(Session)
    PROVE  Min(K) \in K /\ Min(K) \in 1..Len(sessions)
<1>1. DOMAIN sessions = 1..Len(sessions) /\ K \subseteq Nat
  BY LenProperties
<1> QED
  BY <1>1, LeastOne

\* SwitchToNextSession finds a session in the list, and not the one on the screen
\* unless it is the only one.
LEMMA NextInList ==
    ASSUME ListOK, sessions # <<>>, NEW k \in 1..Len(sessions),
           active_session = sessions[k].buffer
    PROVE  \E m \in 1..Len(sessions) :
              NextSession = sessions[m].buffer /\ (m = k => Len(sessions) = 1)
<1>1. /\ sessions \in Seq(Session) /\ Len(sessions) \in Nat \ {0}
      /\ DOMAIN sessions = 1..Len(sessions)
  BY LenProperties, EmptySeq DEF ListOK
<1>2. active_session # NoBuffer
  <2>1. sessions[k] \in Session
    BY <1>1, ElementOfSeq
  <2> QED
    BY <2>1, SessionsAssumption DEF Session
<1>3. IndexOf(active_session) = k
  BY <1>1 DEF IndexOf, ListOK
<1>4. NextSession = sessions[(k % Len(sessions)) + 1].buffer
  BY <1>2, <1>3 DEF NextSession
<1>5. /\ (k % Len(sessions)) + 1 \in 1..Len(sessions)
      /\ (k % Len(sessions)) + 1 = k => Len(sessions) = 1
  <2>1. PICK n : n = Len(sessions)
    OBVIOUS
  <2>2. n \in Nat \ {0} /\ k \in 1..n
    BY <1>1, <2>1
  <2>3. CASE k < n
    <3>1. k % n = k
      BY <2>2, <2>3
    <3> QED
      BY <2>1, <2>2, <2>3, <3>1
  <2>4. CASE k = n
    <3>1. k % n = 0
      BY <2>2, <2>4
    <3> QED
      BY <2>1, <2>2, <2>4, <3>1
  <2> QED
    BY <2>2, <2>3, <2>4
<1> QED
  BY <1>4, <1>5

\* The key of the window manager: the next session comes to the front.
LEMMA SwitchKeeps ==
    ASSUME ListOK, SwitchToNextSession
    PROVE  ListOK'
<1>1. sessions' = sessions /\ buffers' = buffers /\ active_session' = NextSession
  BY DEF SwitchToNextSession
<1>2. DOMAIN sessions = 1..Len(sessions)
  BY LenProperties DEF ListOK
<1>3. ScreenShowsASession'
  <2>1. CASE sessions = <<>>
    BY <1>1, <2>1 DEF NextSession, ListOK, ScreenShowsASession
  <2>2. CASE sessions # <<>>
    <3>1. PICK k \in 1..Len(sessions) : active_session = sessions[k].buffer
      BY <1>2, <2>2 DEF ListOK, ScreenShowsASession
    <3>2. \E m \in 1..Len(sessions) : NextSession = sessions[m].buffer
      BY <2>2, <3>1, NextInList
    <3> QED
      BY <1>1, <1>2, <2>2, <3>2 DEF ScreenShowsASession
  <2> QED
    BY <2>1, <2>2
<1> QED
  BY <1>1, <1>3 DEF ListOK

\* CreateSession puts a buffer that no session has at the end of the list.
LEMMA CreateKeeps ==
    ASSUME ListOK, NEW pid \in Slot \X Nat, CreateSession(pid)
    PROVE  ListOK'
<1>1. PICK b \in Buffer \ buffers :
         /\ buffers' = buffers \cup {b}
         /\ sessions' = Append(sessions, [buffer |-> b, owner_pid |-> pid, focused_pid |-> pid])
         /\ active_session' = b
  BY DEF CreateSession
<1>2. PICK n, new : n = Len(sessions) /\ new = [buffer |-> b, owner_pid |-> pid, focused_pid |-> pid]
  BY Zenon
<1>3. new \in Session /\ new.buffer = b
  BY <1>2 DEF Session
<1>4. sessions \in Seq(Session) /\ n \in Nat
  BY <1>2, LenProperties DEF ListOK
<1>5. /\ sessions' \in Seq(Session) /\ Len(sessions') = n + 1 /\ sessions' # <<>>
      /\ \A k \in 1..n : sessions'[k] = sessions[k]
      /\ sessions'[n + 1] = new
      /\ DOMAIN sessions' = 1..n + 1
  <2>1. sessions' = Append(sessions, new)
    BY <1>1, <1>2
  <2>2. sessions' \in Seq(Session) /\ Len(sessions') = n + 1 /\ sessions' # <<>>
    BY <1>2, <1>3, <1>4, <2>1, AppendProperties
  <2>3. /\ \A k \in 1..n : sessions'[k] = sessions[k]
        /\ sessions'[n + 1] = new
    BY <1>2, <1>3, <1>4, <2>1, AppendProperties
  <2> QED
    BY <2>2, <2>3, LenProperties
<1>6. \A k \in 1..n : sessions[k].buffer \in buffers
  BY <1>2 DEF ListOK
<1>7. \A k, m \in 1..n + 1 : sessions'[k].buffer = sessions'[m].buffer => k = m
  <2>1. \A k, m \in 1..n : sessions[k].buffer = sessions[m].buffer => k = m
    BY <1>2 DEF ListOK
  <2>2. \A k \in 1..n + 1 : k \in 1..n \/ k = n + 1
    BY <1>4
  <2>3. \A k \in 1..n : sessions'[k].buffer # b
    BY <1>5, <1>6
  <2> QED
    BY <1>3, <1>5, <2>1, <2>2, <2>3
<1>8. buffers' = {sessions'[k].buffer : k \in 1..n + 1}
  <2>1. buffers = {sessions[k].buffer : k \in 1..n}
    BY <1>2 DEF ListOK
  <2>2. \A k \in 1..n + 1 : k \in 1..n \/ k = n + 1
    BY <1>4
  <2>3. 1..n \subseteq 1..n + 1 /\ n + 1 \in 1..n + 1
    BY <1>4
  <2>4. ASSUME NEW x \in buffers' PROVE \E k \in 1..n + 1 : x = sessions'[k].buffer
    BY <1>1, <1>3, <1>5, <2>1, <2>3
  <2>5. ASSUME NEW k \in 1..n + 1 PROVE sessions'[k].buffer \in buffers'
    BY <1>1, <1>3, <1>5, <1>6, <2>2
  <2> QED
    BY <2>4, <2>5
<1>9. ScreenShowsASession'
  <2>1. n + 1 \in DOMAIN sessions' /\ sessions'[n + 1].buffer = active_session'
    BY <1>1, <1>3, <1>4, <1>5
  <2> QED
    BY <1>5, <2>1 DEF ScreenShowsASession
<1> QED
  BY <1>5, <1>7, <1>8, <1>9 DEF ListOK

\* SetFocus changes who gets the keys, and no buffer or owner.
LEMMA FocusKeeps ==
    ASSUME ListOK, NEW caller, NEW pid \in Slot \X Nat, SetFocus(caller, pid)
    PROVE  /\ ListOK' /\ Len(sessions') = Len(sessions)
           /\ \A k \in 1..Len(sessions) : sessions'[k].owner_pid = sessions[k].owner_pid
<1>1. /\ sessions \in Seq(Session) /\ Len(sessions) \in Nat /\ DOMAIN sessions = 1..Len(sessions)
      /\ \A k \in 1..Len(sessions) : sessions[k] \in Session
  BY LenProperties, ElementOfSeq DEF ListOK
<1>2. active_session' = active_session /\ buffers' = buffers
  BY DEF SetFocus
<1> DEFINE Kept == /\ sessions' \in Seq(Session) /\ Len(sessions') = Len(sessions)
                   /\ DOMAIN sessions' = 1..Len(sessions)
                   /\ \A k \in 1..Len(sessions) :
                         /\ sessions'[k].owner_pid = sessions[k].owner_pid
                         /\ sessions'[k].buffer = sessions[k].buffer
<1>3. Kept
  <2>1. CASE sessions' = sessions
    BY <1>1, <2>1
  <2>2. ASSUME NEW n \in 1..Len(sessions), sessions' = [sessions EXCEPT ![n].focused_pid = pid]
        PROVE  Kept
    <3>1. PICK x : x = [sessions[n] EXCEPT !.focused_pid = pid]
      BY Zenon
    <3>2. x \in Session /\ x.owner_pid = sessions[n].owner_pid /\ x.buffer = sessions[n].buffer
      BY <1>1, <3>1, Zenon DEF Session
    <3>3. sessions' = [sessions EXCEPT ![n] = x]
      BY <1>1, <2>2, <3>1
    <3>4. sessions' \in Seq(Session) /\ Len(sessions') = Len(sessions)
      BY <1>1, <3>2, <3>3, ExceptSeq
    <3>5. \A k \in 1..Len(sessions) : sessions'[k] = IF k = n THEN x ELSE sessions[k]
      BY <1>1, <3>3
    <3> QED
      BY <3>2, <3>4, <3>5, LenProperties
  <2> DEFINE mine == {k \in DOMAIN sessions :
                         caller \in {sessions[k].owner_pid, sessions[k].focused_pid}}
  <2>3. CASE mine = {}
    BY <2>1, <2>3, SMTT(30) DEF SetFocus
  <2>4. CASE mine # {}
    <3>1. Min(mine) \in 1..Len(sessions)
      BY <1>1, <2>4, FirstOf, Zenon
    <3>2. sessions' = [sessions EXCEPT ![Min(mine)].focused_pid = pid]
      BY <2>4 DEF SetFocus
    <3> QED
      BY <2>2, <3>1, <3>2
  <2> QED
    BY <2>3, <2>4
<1>4. {sessions'[k].buffer : k \in 1..Len(sessions)} = {sessions[k].buffer : k \in 1..Len(sessions)}
  BY <1>3
<1>5. sessions' = <<>> <=> sessions = <<>>
  BY <1>1, <1>3, EmptySeq
<1> QED
  BY <1>1, <1>2, <1>3, <1>4, <1>5, SMTT(30) DEF ListOK, ScreenShowsASession

\* ReleaseSession takes one session of the process out of the list, and its buffer
\* back, after the screen has left it.
LEMMA ReleaseKeeps ==
    ASSUME ListOK, NEW pid, ReleaseSession(pid)
    PROVE  /\ ListOK'
           /\ \/ sessions' = sessions /\ SessionsOf(pid) = {}
              \/ \E k \in SessionsOf(pid) : k \in 1..Len(sessions) /\ sessions' = Unlinked(sessions, k)
<1>1. CASE SessionsOf(pid) = {}
  <2>1. sessions' = sessions /\ buffers' = buffers /\ active_session' = active_session
    BY <1>1 DEF ReleaseSession, sessionsVars
  <2> QED
    BY <1>1, <2>1 DEF ListOK, ScreenShowsASession
<1>2. CASE SessionsOf(pid) # {}
  <2>1. /\ sessions \in Seq(Session) /\ Len(sessions) \in Nat /\ DOMAIN sessions = 1..Len(sessions)
    BY LenProperties DEF ListOK
  <2>2. PICK n, k, b : n = Len(sessions) /\ k = Min(SessionsOf(pid)) /\ b = sessions[k].buffer
    BY Zenon
  <2>3. k \in SessionsOf(pid) /\ k \in 1..n /\ n \in Nat
    BY <1>2, <2>1, <2>2, FirstOf, Zenon DEF SessionsOf
  <2>4. /\ active_session' = CASE ~(active_session = b) -> active_session
                               [] active_session = b /\ NextSession = b -> NoBuffer
                               [] OTHER -> NextSession
        /\ buffers' = buffers \ {b}
        /\ sessions' = Unlinked(sessions, k)
    BY <1>2, <2>2 DEF ReleaseSession
  <2>5. /\ sessions' \in Seq(Session) /\ Len(sessions') = n - 1
        /\ \A j \in 1..n - 1 : sessions'[j] = sessions[IF j < k THEN j ELSE j + 1]
    <3>1. PICK s, r : s = sessions /\ r = sessions'
      OBVIOUS
    <3>2. s \in Seq(Session) /\ k \in 1..Len(s) /\ r = Unlinked(s, k)
      BY <2>1, <2>2, <2>3, <2>4, <3>1
    <3>3. /\ r \in Seq(Session) /\ Len(r) = Len(s) - 1
          /\ \A j \in 1..Len(r) : r[j] = s[IF j < k THEN j ELSE j + 1]
      BY <3>2, Removed
    <3> QED
      BY <2>2, <3>1, <3>3
  <2>6. \A x, y \in 1..n : sessions[x].buffer = sessions[y].buffer => x = y
    BY <2>2 DEF ListOK
  <2>7. ASSUME NEW m \in 1..n, m # k
        PROVE  \E j \in 1..n - 1 : sessions'[j] = sessions[m]
    <3>1. CASE m < k
      <4>1. m \in 1..n - 1
        BY <2>3, <3>1
      <4> QED
        BY <2>5, <3>1, <4>1
    <3>2. CASE m > k
      <4>1. m - 1 \in 1..n - 1 /\ ~(m - 1 < k) /\ (m - 1) + 1 = m
        BY <2>3, <3>2
      <4> QED
        BY <2>5, <4>1
    <3> QED
      BY <2>3, <2>7, <3>1, <3>2
  <2>8. \A j \in 1..n - 1 : \E m \in 1..n : m # k /\ m = (IF j < k THEN j ELSE j + 1)
                                             /\ sessions'[j] = sessions[m]
    <3>1. ASSUME NEW j \in 1..n - 1, NEW m, m = IF j < k THEN j ELSE j + 1
          PROVE  m \in 1..n /\ m # k
      BY <2>3, <3>1
    <3> QED
      BY <2>5, <3>1
  <2>9. \A x, y \in 1..n - 1 : sessions'[x].buffer = sessions'[y].buffer => x = y
    <3>1. ASSUME NEW x \in 1..n - 1, NEW y \in 1..n - 1,
                 sessions'[x].buffer = sessions'[y].buffer
          PROVE  x = y
      <4>1. PICK m \in 1..n : m = (IF x < k THEN x ELSE x + 1) /\ sessions'[x] = sessions[m]
        BY <2>8
      <4>2. PICK o \in 1..n : o = (IF y < k THEN y ELSE y + 1) /\ sessions'[y] = sessions[o]
        BY <2>8
      <4>3. m = o
        BY <2>6, <3>1, <4>1, <4>2
      <4> QED
        BY <2>3, <4>1, <4>2, <4>3
    <3> QED
      BY <3>1
  <2>10. buffers' = {sessions'[j].buffer : j \in 1..n - 1}
    <3>1. buffers = {sessions[m].buffer : m \in 1..n}
      BY <2>2 DEF ListOK
    <3>2. ASSUME NEW x \in buffers' PROVE \E j \in 1..n - 1 : x = sessions'[j].buffer
      <4>1. PICK m \in 1..n : x = sessions[m].buffer /\ m # k
        BY <2>2, <2>4, <3>1
      <4> QED
        BY <2>7, <4>1
    <3>3. ASSUME NEW j \in 1..n - 1 PROVE sessions'[j].buffer \in buffers'
      <4>1. PICK m \in 1..n : m # k /\ sessions'[j] = sessions[m]
        BY <2>8
      <4>2. sessions[m].buffer # b
        BY <2>2, <2>3, <2>6, <4>1
      <4> QED
        BY <2>4, <3>1, <4>1, <4>2
    <3> QED
      BY <3>2, <3>3
  <2>11. ScreenShowsASession'
    <3>1. sessions # <<>>
      BY <2>2, <2>3, EmptySeq
    <3>2. PICK a \in 1..n : active_session = sessions[a].buffer
      BY <2>1, <2>2, <3>1 DEF ListOK, ScreenShowsASession
    <3>3. DOMAIN sessions' = 1..n - 1
      BY <2>5, LenProperties
    <3>4. ASSUME NEW m \in 1..n, m # k, active_session' = sessions[m].buffer
          PROVE  ScreenShowsASession'
      <4>1. PICK j \in 1..n - 1 : sessions'[j] = sessions[m]
        BY <2>7, <3>4
      <4>2. sessions' # <<>>
        BY <2>3, <2>5, <4>1, EmptySeq
      <4> QED
        BY <3>3, <3>4, <4>1, <4>2 DEF ScreenShowsASession
    <3>5. CASE active_session # b
      <4>1. active_session' = active_session /\ a # k
        BY <2>2, <2>4, <3>2, <3>5
      <4> QED
        BY <3>2, <3>4, <4>1
    <3>6. CASE active_session = b
      <4>1. PICK m \in 1..n : NextSession = sessions[m].buffer /\ (m = k => n = 1)
        BY <2>2, <2>3, <3>1, <3>6, NextInList
      <4>2. CASE m = k
        <5>1. active_session' = NoBuffer
          BY <2>2, <2>4, <3>6, <4>1, <4>2, SMTT(30)
        <5>2. sessions' = <<>>
          BY <2>5, <4>1, <4>2, EmptySeq
        <5> QED
          BY <5>1, <5>2 DEF ScreenShowsASession
      <4>3. CASE m # k
        <5>1. NextSession # b
          BY <2>2, <2>3, <2>6, <4>1, <4>3, SMTT(30)
        <5>2. active_session' = sessions[m].buffer
          BY <2>4, <3>6, <4>1, <5>1
        <5> QED
          BY <3>4, <4>3, <5>2
      <4> QED
        BY <4>2, <4>3
    <3> QED
      BY <3>5, <3>6
  <2>12. ListOK'
    BY <2>5, <2>9, <2>10, <2>11 DEF ListOK
  <2> QED
    BY <2>2, <2>3, <2>4, <2>12
<1> QED
  BY <1>1, <1>2

\* As many buffers as sessions.
LEMMA BuffersCounted ==
    ASSUME ListOK
    PROVE  BuffersInSessions
<1>1. sessions \in Seq(Session) /\ Len(sessions) \in Nat /\ DOMAIN sessions = 1..Len(sessions)
  BY LenProperties DEF ListOK
<1> DEFINE at == [k \in 1..Len(sessions) |-> sessions[k].buffer]
<1>2. at \in Bijection(1..Len(sessions), buffers)
  <2>1. at \in [1..Len(sessions) -> buffers]
    BY DEF ListOK
  <2>2. \A k, m \in 1..Len(sessions) : at[k] = at[m] => k = m
    BY DEF ListOK
  <2>3. \A b \in buffers : \E k \in 1..Len(sessions) : at[k] = b
    BY DEF ListOK
  <2> HIDE DEF at
  <2> QED
    BY <2>1, <2>2, <2>3 DEF Bijection, Injection, IsInjective, Surjection
<1>3. Cardinality(buffers) = Len(sessions)
  BY <1>1, <1>2, FS_CountingElements DEF ExistsBijection
<1> QED
  BY <1>1, <1>3, Zenon DEF ListOK, BuffersInSessions

--------------------------------------------------------------------------------
(* The invariant of the sessions, whatever programs do.                        *)

PidsOK == process \in [Slot -> Nat] /\ process_counter \in Nat \ {0}

SessionsInv == PidsOK /\ ListOK

\* Every step keeps the pids what they are.
LEMMA PidsStep ==
    ASSUME PidsOK, ResourcesNext \/ UNCHANGED vars
    PROVE  PidsOK'
<1>1. \/ process' = process /\ process_counter' = process_counter
      \/ process' = process /\ process_counter' = process_counter + 1
      \/ \E i \in Slot : /\ process' \in {[process EXCEPT ![i] = 0],
                                          [process EXCEPT ![i] = process_counter]}
                         /\ process_counter' \in {process_counter, process_counter + 1}
  <2>1. ASSUME NEW i \in Slot, PrepareProcess(i)
        PROVE  /\ process' \in {[process EXCEPT ![i] = 0], [process EXCEPT ![i] = process_counter]}
               /\ process_counter' = process_counter + 1
    <3>1. /\ process' = [process EXCEPT ![i] = IF OpenStdPipes(Tables, i).fds[i][0] = None
                                               THEN 0 ELSE process_counter]
          /\ process_counter' = process_counter + 1
      BY <2>1 DEF PrepareProcess
    <3> QED
      BY <3>1, Zenon
  <2>2. PrepareProcessFails => process' = process /\ process_counter' = process_counter + 1
    BY DEF PrepareProcessFails
  <2>3. ASSUME NEW i \in Slot, CleanupProcess(i)
        PROVE  process' = [process EXCEPT ![i] = 0] /\ process_counter' = process_counter
    BY <2>3 DEF CleanupProcess
  <2>4. ASSUME NEW i \in Slot, FdCall(i) \/ CreateGraphicSession(i) \/ FocusTransfer(i)
        PROVE  process' = process /\ process_counter' = process_counter
    BY <2>4 DEF FdCall, CreateGraphicSession, FocusTransfer
  <2>5. Tab \/ UNCHANGED vars => process' = process /\ process_counter' = process_counter
    BY DEF Tab, vars
  <2> QED
    BY <2>1, <2>2, <2>3, <2>4, <2>5, SMTT(30) DEF ResourcesNext
<1> QED
  BY <1>1 DEF PidsOK

\* Every step keeps the sessions and their buffers together.
LEMMA ListStep ==
    ASSUME SessionsInv, ResourcesNext \/ UNCHANGED vars
    PROVE  ListOK'
<1>1. ASSUME NEW i \in Slot PROVE PidOf(i) \in Slot \X Nat
  BY DEF SessionsInv, PidsOK, PidOf
<1>2. ASSUME UNCHANGED sessionsVars PROVE ListOK'
  BY <1>2 DEF SessionsInv, ListOK, ScreenShowsASession, sessionsVars
<1>3. ASSUME NEW i \in Slot, PrepareProcess(i) \/ PrepareProcessFails \/ FdCall(i)
      PROVE  ListOK'
  BY <1>2, <1>3 DEF PrepareProcess, PrepareProcessFails, FdCall
<1>4. ASSUME NEW i \in Slot, CleanupProcess(i)
      PROVE  ListOK'
  BY <1>4, ReleaseKeeps DEF CleanupProcess, SessionsInv
<1>5. ASSUME NEW i \in Slot, CreateGraphicSession(i)
      PROVE  ListOK'
  BY <1>1, <1>2, <1>5, CreateKeeps DEF CreateGraphicSession, SessionsInv
<1>6. ASSUME NEW i \in Slot, FocusTransfer(i)
      PROVE  ListOK'
  BY <1>1, <1>6, FocusKeeps DEF FocusTransfer, SessionsInv
<1>7. ASSUME Tab
      PROVE  ListOK'
  BY <1>7, SwitchKeeps DEF Tab, SessionsInv
<1>8. ASSUME UNCHANGED vars
      PROVE  ListOK'
  BY <1>2, <1>8 DEF vars
<1>9. PrepareProcessFails => \E i \in Slot : PrepareProcessFails
  BY DEF PrepareProcessFails
<1> QED
  BY <1>3, <1>4, <1>5, <1>6, <1>7, <1>8, <1>9, SMTT(30) DEF ResourcesNext

LEMMA SessionsInitially == ResourcesInit => SessionsInv
<1> SUFFICES ASSUME ResourcesInit PROVE SessionsInv
  OBVIOUS
<1>1. PidsOK
  BY DEF ResourcesInit, PidsOK
<1>2. sessions = <<>> /\ buffers = {} /\ active_session = NoBuffer
  BY DEF ResourcesInit, SessionsInit
<1>3. sessions \in Seq(Session) /\ Len(sessions) = 0 /\ 1..Len(sessions) = {}
  BY <1>2, EmptySeq
<1>4. ListOK
  BY <1>2, <1>3 DEF ListOK, ScreenShowsASession
<1> QED
  BY <1>1, <1>4 DEF SessionsInv

\* The window manager takes a buffer from the page allocator for every session and
\* gives it back with the session, and shows a session that exists: in whatever
\* order processes create sessions, pass the focus, and are cleaned up, and
\* whenever the key is pressed, for any number of processes, buffers and nodes.
THEOREM BuffersAlwaysInSessions == ResourcesSpec => []BuffersInSessions
<1>1. SessionsInv /\ [ResourcesNext]_vars => SessionsInv'
  BY PidsStep, ListStep DEF SessionsInv
<1>2. SessionsInv => BuffersInSessions
  BY BuffersCounted DEF SessionsInv
<1> QED
  BY <1>1, <1>2, SessionsInitially, PTL DEF ResourcesSpec

--------------------------------------------------------------------------------
(* The invariant of the tables, as long as no file is opened that is open.     *)

TablesInv ==
    /\ PidsOK /\ FilesInv(Tables)
    /\ \A i \in Slot : ~Live(i) => fds[i] = EmptyTable

LEMMA Became ==
    ASSUME NEW u, FilesInv(u), TablesBecome(u)
    PROVE  FilesInv(Tables') /\ fds' = u.fds /\ failed' = u.failed
<1>1. u = [fds |-> u.fds, entries |-> u.entries, files |-> u.files, failed |-> u.failed]
  BY TablesParts DEF FilesInv
<1>2. Tables' = u
  BY <1>1 DEF TablesBecome, Tables
<1> QED
  BY <1>2 DEF TablesBecome

\* The descriptor calls of the process in slot i, without Open of an open file.
LEMMA FdCallKeeps ==
    ASSUME TablesInv, "reopen" \notin Habits, NEW i \in Slot, FdCall(i)
    PROVE  FilesInv(Tables') /\ \A j \in Slot \ {i} : fds'[j] = fds[j]
<1>1. FilesInv(Tables) /\ Tables.fds = fds
  BY DEF TablesInv, Tables
<1>2. ASSUME NEW u, TablesBecome(u), FilesInv(u), \A j \in Slot \ {i} : u.fds[j] = fds[j]
      PROVE  FilesInv(Tables') /\ \A j \in Slot \ {i} : fds'[j] = fds[j]
  BY <1>2, Became
<1>3. ASSUME NEW p \in Path, OpenNew(i, p)
      PROVE  FilesInv(Tables') /\ \A j \in Slot \ {i} : fds'[j] = fds[j]
  <2>1. PICK f, u : /\ f = CHOOSE g \in FreeFiles(Tables) : TRUE
                    /\ u = OpenEntry(GetOrCreate(Tables, p, f), i, f)
    OBVIOUS
  <2>2. f \in FreeFiles(Tables) /\ Find(Tables, p) = {} /\ TablesBecome(u)
    BY <1>3, <2>1 DEF OpenNew
  <2>3. FilesInv(u) /\ \A j \in Slot \ {i} : u.fds[j] = Tables.fds[j]
    BY <1>1, <2>1, <2>2, OpenKeeps
  <2> QED
    BY <1>1, <1>2, <2>2, <2>3
<1>4. ASSUME NEW fd \in Fd, Close(i, fd)
      PROVE  FilesInv(Tables') /\ \A j \in Slot \ {i} : fds'[j] = fds[j]
  <2>1. PICK u : u = ResetFd(Tables, i, fd)
    OBVIOUS
  <2>2. Tables.fds[i][fd] # None /\ TablesBecome(u)
    BY <1>1, <1>4, <2>1 DEF Close
  <2>3. FilesInv(u) /\ u.fds = [fds EXCEPT ![i][fd] = None]
    BY <1>1, <2>1, <2>2, ResetFdKeeps
  <2>4. fds \in [Slot -> [Fd -> Entry \cup {None}]]
    BY <1>1, TablesParts DEF FilesInv
  <2>5. \A j \in Slot \ {i} : u.fds[j] = fds[j]
    BY <2>3, <2>4
  <2> QED
    BY <1>2, <2>2, <2>3, <2>5, Zenon
<1>5. ASSUME NEW fd \in Fd, Dup(i, fd)
      PROVE  FilesInv(Tables') /\ \A j \in Slot \ {i} : fds'[j] = fds[j]
  <2>1. PICK to, u : to = Min(FreeFds(Tables, i)) /\ u = Duplicate(Tables, i, fd, to)
    OBVIOUS
  <2>2. Tables.fds[i][fd] # None /\ TablesBecome(u) /\ FreeFds(Tables, i) # {}
    BY <1>1, <1>5, <2>1 DEF Dup
  <2>3. to \in FreeFds(Tables, i)
    <3>1. FreeFds(Tables, i) \in SUBSET Nat
      BY FilesAssumption DEF FreeFds, Fd
    <3> QED
      BY <2>1, <2>2, <3>1, LeastOne
  <2>4. to \in Fd /\ Tables.fds[i][to] = None
    BY <2>3 DEF FreeFds
  <2>5. FilesInv(u) /\ \A j \in Slot \ {i} : u.fds[j] = Tables.fds[j]
    BY <1>1, <2>1, <2>2, <2>4, DuplicateKeeps, SMTT(30)
  <2> QED
    BY <1>1, <1>2, <2>2, <2>5
<1>6. ASSUME NEW fd \in Fd, NEW to \in Fd, DupTo(i, fd, to)
      PROVE  FilesInv(Tables') /\ \A j \in Slot \ {i} : fds'[j] = fds[j]
  <2>1. PICK u : u = DuplicateFdTo(Tables, i, fd, to)
    OBVIOUS
  <2>2. Tables.fds[i][fd] # None /\ TablesBecome(u)
    BY <1>1, <1>6, <2>1 DEF DupTo
  <2>3. FilesInv(u) /\ \A j \in Slot \ {i} : u.fds[j] = Tables.fds[j]
    BY <1>1, <2>1, <2>2, DuplicateToKeeps
  <2> QED
    BY <1>1, <1>2, <2>2, <2>3
<1> QED
  BY <1>3, <1>4, <1>5, <1>6 DEF FdCall

LEMMA TablesStep ==
    ASSUME TablesInv, "reopen" \notin Habits, ResourcesNext \/ UNCHANGED vars
    PROVE  TablesInv'
<1>1. PidsOK'
  BY PidsStep DEF TablesInv
<1>2. /\ FilesInv(Tables) /\ Tables.fds = fds /\ process \in [Slot -> Nat]
      /\ \A i \in Slot : process[i] = 0 => fds[i] = EmptyTable
  BY DEF TablesInv, Tables, PidsOK, Live
<1> DEFINE Goal == FilesInv(Tables') /\ \A i \in Slot : process'[i] = 0 => fds'[i] = EmptyTable
<1>3. ASSUME fds' = fds, entries' = entries, files' = files, process' = process,
             failed' \in SUBSET {"zero", "sessions"}, "zero" \notin failed'
      PROVE  Goal
  <2>1. PICK t, u : t = Tables /\ u = Tables'
    OBVIOUS
  <2>2. /\ u.fds = t.fds /\ u.entries = t.entries /\ u.files = t.files /\ u.failed = failed'
        /\ u = [fds |-> u.fds, entries |-> u.entries, files |-> u.files, failed |-> u.failed]
    BY <1>3, <2>1 DEF Tables
  <2>3. FilesInv(t)
    BY <1>2, <2>1
  <2>4. u \in TablesType
    <3>1. /\ t.fds \in [Slot -> [Fd -> Entry \cup {None}]] /\ t.entries \in [Entry -> EntrySlot]
          /\ t.files \in [File -> FileSlot]
      BY <2>3, TablesParts DEF FilesInv
    <3> QED
      BY <1>3, <2>2, <3>1 DEF TablesType
  <2>5. ASSUME NEW e \in Entry PROVE EntryOK(u, e)
    <3>1. Naming(u, e) = Naming(t, e) /\ EntryOK(t, e)
      BY <2>2, <2>3 DEF Naming, FilesInv
    <3> QED
      BY <2>2, <3>1 DEF EntryOK
  <2>6. \A f \in File : FileOK(u, f)
    BY <2>2, <2>3 DEF FilesInv, FileOK, Using
  <2>7. FilesInv(u)
    BY <1>3, <2>2, <2>3, <2>4, <2>5, <2>6, SMTT(30) DEF FilesInv
  <2> QED
    BY <1>2, <1>3, <2>1, <2>7
<1>4. failed \in SUBSET {"zero", "sessions"} /\ "zero" \notin failed
  BY <1>2 DEF FilesInv, TablesType, Tables
<1>5. ASSUME NEW i \in Slot, PrepareProcess(i)
      PROVE  Goal
  <2>1. PICK u : u = OpenStdPipes(Tables, i)
    OBVIOUS
  <2>2. /\ process[i] = 0 /\ TablesBecome(u) /\ process_counter # 0
        /\ process' = [process EXCEPT ![i] = IF u.fds[i][0] = None THEN 0 ELSE process_counter]
    BY <1>5, <2>1 DEF PrepareProcess, Live, TablesInv, PidsOK
  <2>3. /\ FilesInv(u) /\ \A j \in Slot \ {i} : u.fds[j] = fds[j]
        /\ u.fds[i][0] = None => u.fds[i] = EmptyTable
    BY <1>2, <2>1, <2>2, OpenStdPipesKeeps
  <2>4. FilesInv(Tables') /\ fds' = u.fds
    BY <2>2, <2>3, Became
  <2>5. ASSUME NEW j \in Slot, process'[j] = 0 PROVE fds'[j] = EmptyTable
    BY <1>2, <2>2, <2>3, <2>4, <2>5, SMTT(30)
  <2> QED
    BY <2>4, <2>5
<1>6. ASSUME NEW i \in Slot, CleanupProcess(i)
      PROVE  Goal
  <2>1. PICK u : u = DeleteFdTable(Tables, i)
    OBVIOUS
  <2>2. TablesBecome(u) /\ process' = [process EXCEPT ![i] = 0]
    BY <1>6, <2>1 DEF CleanupProcess
  <2>3. FilesInv(u) /\ u.fds = [fds EXCEPT ![i] = EmptyTable]
    BY <1>2, <2>1, DeleteKeeps
  <2>4. FilesInv(Tables') /\ fds' = [fds EXCEPT ![i] = EmptyTable]
    BY <2>2, <2>3, Became
  <2>5. fds \in [Slot -> [Fd -> Entry \cup {None}]]
    BY <1>2, TablesParts DEF FilesInv
  <2>6. ASSUME NEW j \in Slot, process'[j] = 0 PROVE fds'[j] = EmptyTable
    BY <1>2, <2>2, <2>4, <2>5, <2>6, SMTT(30)
  <2> QED
    BY <2>4, <2>6
<1>7. ASSUME NEW i \in Slot, FdCall(i)
      PROVE  Goal
  <2>1. FilesInv(Tables') /\ \A j \in Slot \ {i} : fds'[j] = fds[j]
    BY <1>7, FdCallKeeps
  <2>2. process' = process /\ process[i] # 0
    BY <1>7 DEF FdCall, Live
  <2> QED
    BY <1>2, <2>1, <2>2
<1>8. ASSUME NEW i \in Slot, CreateGraphicSession(i)
      PROVE  Goal
  <2>1. /\ fds' = fds /\ entries' = entries /\ files' = files /\ process' = process
        /\ failed' \in {failed, failed \cup {"sessions"}}
    BY <1>8 DEF CreateGraphicSession
  <2> QED
    BY <1>3, <1>4, <2>1
<1>9. ASSUME \/ PrepareProcessFails \/ Tab \/ UNCHANGED vars
             \/ \E i \in Slot : FocusTransfer(i)
      PROVE  Goal
  <2>1. UNCHANGED <<fds, entries, files, failed, process>>
    BY <1>9 DEF PrepareProcessFails, Tab, vars, FocusTransfer, filesVars
  <2> QED
    BY <1>3, <1>4, <2>1
<1>10. Goal
  BY <1>5, <1>6, <1>7, <1>8, <1>9, SMTT(30) DEF ResourcesNext
<1> QED
  BY <1>1, <1>10 DEF TablesInv, Live

LEMMA TablesInitially == ResourcesInit => TablesInv
<1> SUFFICES ASSUME ResourcesInit PROVE TablesInv
  OBVIOUS
<1>1. PidsOK
  BY DEF ResourcesInit, PidsOK
<1>2. PICK t : t = Tables
  OBVIOUS
<1>3. /\ t = [fds |-> [i \in Slot |-> EmptyTable], entries |-> [e \in Entry |-> FreeEntry],
              files |-> [f \in File |-> FreeFile], failed |-> {}]
  BY <1>2 DEF ResourcesInit, FilesInit, Tables
<1>4. t \in TablesType
  <2>1. EmptyTable \in [Fd -> Entry \cup {None}]
    BY DEF EmptyTable
  <2> QED
    BY <1>3, <2>1, SlotTypes DEF TablesType
<1>5. ASSUME NEW e \in Entry PROVE EntryOK(t, e)
  <2>1. None \notin Entry /\ None \notin Pipe
    BY FilesAssumption
  <2>2. Naming(t, e) = {}
    BY <1>3, <2>1 DEF Naming, EmptyTable
  <2>3. t.entries[e] = FreeEntry
    BY <1>3
  <2> QED
    BY <2>1, <2>2, <2>3, SlotTypes, FS_EmptySet, SMTT(30) DEF EntryOK
<1>6. ASSUME NEW f \in File PROVE FileOK(t, f) /\ t.files[f].path = None
  <2>1. None \notin File
    BY FilesAssumption
  <2>2. Using(t, f) = {}
    BY <1>3, <2>1, SlotTypes DEF Using
  <2>3. t.files[f] = FreeFile
    BY <1>3
  <2> QED
    BY <2>2, <2>3, SlotTypes, FS_EmptySet DEF FileOK
<1>7. FilesInv(Tables)
  BY <1>2, <1>3, <1>4, <1>5, <1>6, SMTT(30) DEF FilesInv
<1>8. \A i \in Slot : fds[i] = EmptyTable
  BY DEF ResourcesInit, FilesInit
<1> QED
  BY <1>1, <1>7, <1>8 DEF TablesInv

\* OpenFileEntry::ref_count_ and File::ref_count_ are exact through every open,
\* close, dup and dup2, the partial opening of the standard pipes when the open
\* file table runs full, and the deletion of the table of a process: Release never
\* finds a count of zero. For any sizes of the tables, if no process opens a file
\* that is open (SharedFile shows what happens otherwise).
THEOREM ReferencesAlwaysCounted ==
    ASSUME "reopen" \notin Habits
    PROVE  ResourcesSpec => []ReferencesCounted
<1>1. TablesInv /\ [ResourcesNext]_vars => TablesInv'
  BY TablesStep
<1>2. TablesInv => ReferencesCounted
  <2> SUFFICES ASSUME TablesInv PROVE ReferencesCounted
    OBVIOUS
  <2>1. PICK t : t = Tables
    OBVIOUS
  <2>2. t.fds = fds /\ t.entries = entries /\ t.files = files /\ t.failed = failed /\ FilesInv(t)
    BY <2>1 DEF Tables, TablesInv
  <2>3. \A e \in Entry : Naming(t, e) = DescriptorsOf(e)
    BY <2>2 DEF Naming, DescriptorsOf
  <2>4. EntriesCounted
    BY <2>2, <2>3 DEF EntriesCounted, FilesInv, EntryOK
  <2>5. FilesCounted
    <3>1. \A f \in File : Using(t, f) = {e \in Entry : entries[e].handle = f}
      BY <2>2 DEF Using
    <3> QED
      BY <2>2, <3>1, Zenon DEF FilesCounted, FilesInv, FileOK
  <2>6. NeverBelowZero
    BY <2>2 DEF NeverBelowZero, FilesInv
  <2> QED
    BY <2>4, <2>5, <2>6 DEF ReferencesCounted
<1> QED
  BY <1>1, <1>2, TablesInitially, PTL DEF ResourcesSpec

\* A pipe lives in its Process: an entry that names it belongs to the process
\* that owns it, and to no other, and is gone when CleanupProcess has freed the
\* slot, so that a later process in the slot never finds it.
THEOREM PipesAlwaysOfTheLiving ==
    ASSUME "reopen" \notin Habits
    PROVE  ResourcesSpec => []PipesOfTheLiving
<1>1. TablesInv /\ [ResourcesNext]_vars => TablesInv'
  BY TablesStep
<1>2. TablesInv => PipesOfTheLiving
  <2> SUFFICES ASSUME TablesInv, NEW e \in Entry, entries[e].handle \in Pipe
               PROVE  /\ Live(entries[e].handle[1])
                      /\ \A d \in DescriptorsOf(e) : d[1] = entries[e].handle[1]
    BY DEF PipesOfTheLiving
  <2>1. PICK t : t = Tables
    OBVIOUS
  <2>2. t.fds = fds /\ t.entries = entries /\ EntryOK(t, e)
    BY <2>1 DEF Tables, TablesInv, FilesInv
  <2>3. Naming(t, e) = DescriptorsOf(e)
    BY <2>2 DEF Naming, DescriptorsOf
  <2>4. \A d \in DescriptorsOf(e) : d[1] = entries[e].handle[1]
    BY <2>2, <2>3 DEF EntryOK
  <2>5. entries[e].handle # None
    BY FilesAssumption
  <2>6. PICK d \in DescriptorsOf(e) : TRUE
    BY <2>2, <2>3, <2>5 DEF EntryOK
  <2>7. d \in Slot \X Fd /\ fds[d[1]][d[2]] = e
    BY DEF DescriptorsOf
  <2>8. fds[d[1]] # EmptyTable
    BY <2>7, FilesAssumption DEF EmptyTable
  <2>9. Live(d[1])
    BY <2>7, <2>8 DEF TablesInv
  <2> QED
    BY <2>4, <2>6, <2>9
<1> QED
  BY <1>1, <1>2, TablesInitially, PTL DEF ResourcesSpec

--------------------------------------------------------------------------------
(* The owners of sessions, as long as no process asks for a second session:    *)
(* ReleaseSession gives back one.                                              *)

OwnersInv ==
    /\ SessionsInv
    /\ \A k \in 1..Len(sessions) :
          /\ sessions[k].owner_pid[2] # 0
          /\ process[sessions[k].owner_pid[1]] = sessions[k].owner_pid[2]
    /\ \A k, m \in 1..Len(sessions) : sessions[k].owner_pid = sessions[m].owner_pid => k = m

LEMMA OwnersStep ==
    ASSUME OwnersInv, "second" \notin Habits, ResourcesNext \/ UNCHANGED vars
    PROVE  OwnersInv'
<1>1. SessionsInv'
  BY PidsStep, ListStep DEF OwnersInv, SessionsInv
<1>2. /\ process \in [Slot -> Nat] /\ sessions \in Seq(Session)
      /\ Len(sessions) \in Nat /\ DOMAIN sessions = 1..Len(sessions)
      /\ \A k \in 1..Len(sessions) : sessions[k].owner_pid \in Slot \X Nat
  <2>1. process \in [Slot -> Nat] /\ sessions \in Seq(Session)
    BY DEF OwnersInv, SessionsInv, PidsOK, ListOK
  <2>2. ASSUME NEW k \in 1..Len(sessions) PROVE sessions[k].owner_pid \in Slot \X Nat
    <3>1. sessions[k] \in Session
      BY <2>1, ElementOfSeq
    <3> QED
      BY <3>1 DEF Session
  <2> QED
    BY <2>1, <2>2, LenProperties
<1>3. /\ \A k \in 1..Len(sessions) :
            /\ sessions[k].owner_pid[2] # 0
            /\ process[sessions[k].owner_pid[1]] = sessions[k].owner_pid[2]
      /\ \A k, m \in 1..Len(sessions) : sessions[k].owner_pid = sessions[m].owner_pid => k = m
  BY DEF OwnersInv
<1> DEFINE Owned == \A k \in 1..Len(sessions') :
                       /\ sessions'[k].owner_pid[2] # 0
                       /\ process'[sessions'[k].owner_pid[1]] = sessions'[k].owner_pid[2]
           Once == \A k, m \in 1..Len(sessions') :
                       sessions'[k].owner_pid = sessions'[m].owner_pid => k = m
<1>4. ASSUME Len(sessions') = Len(sessions), process' = process,
             \A k \in 1..Len(sessions) : sessions'[k].owner_pid = sessions[k].owner_pid
      PROVE  Owned /\ Once
  BY <1>3, <1>4
<1>5. ASSUME NEW i \in Slot, PrepareProcess(i)
      PROVE  Owned /\ Once
  <2>1. sessions' = sessions /\ process[i] = 0 /\ \A j \in Slot \ {i} : process'[j] = process[j]
    BY <1>2, <1>5 DEF PrepareProcess, Live, sessionsVars
  <2>2. \A k \in 1..Len(sessions) : sessions[k].owner_pid[1] \in Slot \ {i}
    BY <1>2, <1>3, <2>1, SMTT(30)
  <2> QED
    BY <1>3, <2>1, <2>2
<1>6. ASSUME NEW i \in Slot, CleanupProcess(i)
      PROVE  Owned /\ Once
  <2>1. \A j \in Slot \ {i} : process'[j] = process[j]
    BY <1>2, <1>6 DEF CleanupProcess
  <2>2. ASSUME NEW k \in 1..Len(sessions), k \notin SessionsOf(PidOf(i))
        PROVE  sessions[k].owner_pid[1] \in Slot \ {i}
    <3>1. sessions[k].owner_pid # <<i, process[i]>>
      BY <1>2, <2>2 DEF SessionsOf, PidOf
    <3>2. sessions[k].owner_pid[1] # i
      BY <1>2, <1>3, <3>1
    <3> QED
      BY <1>2, <3>2
  <2>3. CASE sessions' = sessions /\ SessionsOf(PidOf(i)) = {}
    BY <1>3, <2>1, <2>2, <2>3, SMTT(30)
  <2>4. ASSUME NEW k \in SessionsOf(PidOf(i)), k \in 1..Len(sessions),
               sessions' = Unlinked(sessions, k)
        PROVE  Owned /\ Once
    <3>1. PICK n, s, r : n = Len(sessions) /\ s = sessions /\ r = sessions'
      BY Zenon
    <3>2. /\ Len(r) = n - 1 /\ n \in Nat /\ k \in 1..n
          /\ \A j \in 1..n - 1 : r[j] = s[IF j < k THEN j ELSE j + 1]
      <4>1. s \in Seq(Session) /\ k \in 1..Len(s) /\ r = Unlinked(s, k)
        BY <1>2, <2>4, <3>1
      <4>2. Len(r) = Len(s) - 1 /\ \A j \in 1..Len(r) : r[j] = s[IF j < k THEN j ELSE j + 1]
        BY <4>1, Removed
      <4> QED
        BY <1>2, <2>4, <3>1, <4>2, SMTT(30)
    <3>3. ASSUME NEW j \in 1..n - 1, NEW m, m = IF j < k THEN j ELSE j + 1
          PROVE  m \in 1..n /\ m # k /\ r[j] = s[m]
      BY <3>2, <3>3
    <3>4. \A m \in 1..n : m # k => m \notin SessionsOf(PidOf(i))
      BY <1>3, <2>4, <3>1, <3>2, SMTT(30) DEF SessionsOf
    <3>5. Owned
      <4>1. ASSUME NEW j \in 1..n - 1
            PROVE  /\ r[j].owner_pid[2] # 0
                   /\ process'[r[j].owner_pid[1]] = r[j].owner_pid[2]
        <5>1. PICK m \in 1..n : m # k /\ r[j] = s[m]
          BY <3>3
        <5>2. s[m].owner_pid[1] \in Slot \ {i}
          BY <2>2, <3>1, <3>4, <5>1, SMTT(30)
        <5>3. process'[s[m].owner_pid[1]] = process[s[m].owner_pid[1]]
          BY <2>1, <5>2
        <5>4. s[m].owner_pid[2] # 0 /\ process[s[m].owner_pid[1]] = s[m].owner_pid[2]
          BY <1>3, <3>1
        <5> QED
          BY <5>1, <5>3, <5>4
      <4> QED
        BY <3>1, <3>2, <4>1
    <3>6. Once
      <4>1. ASSUME NEW x \in 1..n - 1, NEW y \in 1..n - 1, r[x].owner_pid = r[y].owner_pid
            PROVE  x = y
        <5>1. PICK m, o : m = (IF x < k THEN x ELSE x + 1) /\ o = (IF y < k THEN y ELSE y + 1)
          OBVIOUS
        <5>2. m \in 1..n /\ r[x] = s[m] /\ o \in 1..n /\ r[y] = s[o]
          BY <3>3, <5>1
        <5>3. m = o
          BY <1>3, <3>1, <4>1, <5>2, SMTT(30)
        <5> QED
          BY <3>2, <5>1, <5>3
      <4> QED
        BY <3>1, <3>2, <4>1
    <3> QED
      BY <3>5, <3>6
  <2> QED
    BY <1>6, <2>3, <2>4, ReleaseKeeps DEF CleanupProcess, OwnersInv, SessionsInv
<1>7. ASSUME NEW i \in Slot, CreateGraphicSession(i)
      PROVE  Owned /\ Once
  <2>1. SessionsOf(PidOf(i)) = {} /\ process[i] # 0 /\ process' = process
    BY <1>7 DEF CreateGraphicSession, Live
  <2>2. CASE UNCHANGED sessionsVars
    BY <1>4, <2>1, <2>2 DEF sessionsVars
  <2>3. CASE CreateSession(PidOf(i))
    <3>1. PICK b, new : /\ new = [buffer |-> b, owner_pid |-> PidOf(i), focused_pid |-> PidOf(i)]
                        /\ sessions' = Append(sessions, new) /\ b \in Buffer
      BY <2>3 DEF CreateSession
    <3>2. PICK n : n = Len(sessions)
      BY Zenon
    <3>3. new \in Session /\ new.owner_pid = <<i, process[i]>>
      BY <1>2, <3>1 DEF Session, PidOf
    <3>4. /\ Len(sessions') = n + 1 /\ n \in Nat
          /\ \A k \in 1..n : sessions'[k] = sessions[k]
          /\ sessions'[n + 1] = new
      BY <1>2, <3>1, <3>2, <3>3, AppendProperties, SMTT(30)
    <3>5. \A k \in 1..n + 1 : k \in 1..n \/ k = n + 1
      BY <3>4
    <3>6. \A k \in 1..n : sessions[k].owner_pid # new.owner_pid
      BY <1>2, <2>1, <3>2, <3>3, SMTT(30) DEF SessionsOf, PidOf
    <3>7. new.owner_pid[2] # 0 /\ process[new.owner_pid[1]] = new.owner_pid[2]
      BY <2>1, <3>3
    <3>8. Owned
      BY <1>3, <2>1, <3>2, <3>4, <3>5, <3>7, SMTT(30)
    <3>9. Once
      BY <1>3, <3>2, <3>4, <3>5, <3>6, SMTT(30)
    <3> QED
      BY <3>8, <3>9
  <2> QED
    BY <1>7, <2>2, <2>3 DEF CreateGraphicSession
<1>8. ASSUME NEW i \in Slot, FocusTransfer(i)
      PROVE  Owned /\ Once
  <2>1. PICK j \in Slot : SetFocus(PidOf(i), PidOf(j)) /\ process' = process
    BY <1>8 DEF FocusTransfer
  <2>2. PidOf(j) \in Slot \X Nat
    BY <1>2 DEF PidOf
  <2>3. /\ Len(sessions') = Len(sessions)
        /\ \A k \in 1..Len(sessions) : sessions'[k].owner_pid = sessions[k].owner_pid
    BY <2>1, <2>2, FocusKeeps DEF OwnersInv, SessionsInv
  <2> QED
    BY <1>4, <2>1, <2>3
<1>9. ASSUME PrepareProcessFails \/ Tab \/ UNCHANGED vars \/ \E i \in Slot : FdCall(i)
      PROVE  Owned /\ Once
  <2>1. sessions' = sessions /\ process' = process
    BY <1>9 DEF PrepareProcessFails, Tab, SwitchToNextSession, vars, FdCall, sessionsVars
  <2> QED
    BY <1>4, <2>1
<1>10. Owned /\ Once
  BY <1>5, <1>6, <1>7, <1>8, <1>9, SMTT(30) DEF ResourcesNext
<1> QED
  BY <1>1, <1>10 DEF OwnersInv

LEMMA OwnersInitially == ResourcesInit => OwnersInv
<1> SUFFICES ASSUME ResourcesInit PROVE OwnersInv
  OBVIOUS
<1>1. SessionsInv
  BY SessionsInitially
<1>2. sessions = <<>>
  BY DEF ResourcesInit, SessionsInit
<1>3. 1..Len(sessions) = {}
  BY <1>2
<1> QED
  BY <1>1, <1>3 DEF OwnersInv

\* CleanupProcess leaves nothing of a process behind: its table of descriptors is
\* empty until PrepareProcess takes the slot again, and no session has an owner
\* but the living process with that very pid. If no process opens a file that is
\* open, or creates a second session.
THEOREM GoneAlwaysHoldsNothing ==
    ASSUME Habits = {}
    PROVE  ResourcesSpec => []GoneHoldsNothing
<1>1. TablesInv /\ OwnersInv /\ [ResourcesNext]_vars => TablesInv' /\ OwnersInv'
  BY TablesStep, OwnersStep
<1>2. TablesInv /\ OwnersInv => GoneHoldsNothing
  <2> SUFFICES ASSUME TablesInv, OwnersInv PROVE GoneHoldsNothing
    OBVIOUS
  <2>1. DOMAIN sessions = 1..Len(sessions)
    BY LenProperties DEF OwnersInv, SessionsInv, ListOK
  <2> QED
    BY <2>1 DEF TablesInv, OwnersInv, GoneHoldsNothing
<1> QED
  BY <1>1, <1>2, TablesInitially, OwnersInitially, PTL DEF ResourcesSpec
================================================================================
