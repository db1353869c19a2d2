------------------------- MODULE TraceBufferProofs -------------------------
(***************************************************************************)
(* Proofs about the ring buffer of the trace log: its space is accounted   *)
(* for, and it implements the log that prints every trace whole, once and  *)
(* in order (TraceLog).  Both for every size of the buffer, of a batch and *)
(* of the traces, as long as the ripper does not dump in the middle of the *)
(* worker's dump (Overlap = FALSE).                                        *)
(***************************************************************************)
EXTENDS TraceBuffer, SequenceTheorems, TLAPS

Cell == 0..(kSize - 1)

BufferTypeOK ==
    /\ bytes_left \in 0..kSize
    /\ head \in Cell /\ tail \in Cell
    /\ buffer \in [Cell -> Nat \X Nat]
    /\ dump \in [pc : {"idle", "print", "push", "release"}, todo : 0..kSize, tail : Cell]
    /\ number \in 0..(Numbers - 1)

\* While a dump is on, there is something left to print, all of it is counted
\* as used, and the worker's copy of the tail is the tail it will push.
DumpInStep ==
    /\ dump.pc # "idle" => dump.todo \in 1..(kSize - bytes_left)
    /\ dump.pc = "push" => dump.tail = tail

\* The inductive invariant.
TraceInv == BufferTypeOK /\ DumpInStep /\ SpaceAccounted

-----------------------------------------------------------------------------
(***************************************************************************)
(* Positions in the ring.                                                  *)
(***************************************************************************)

\* kSize and kBatchSize are positive, and so is the length of a trace, which is
\* less than kSize.
LEMMA Constants ==
    /\ kSize \in Nat \ {0} /\ kBatchSize \in Nat \ {0} /\ Numbers \in Nat \ {0}
    /\ \A size \in Sizes : size \in 1..(kSize - 1)
  BY SizeAssumption

\* What % kSize does to a position that was moved by at most kSize either way.
LEMMA Wrap ==
    /\ \A a \in 0..(kSize - 1) : a % kSize = a
    /\ \A a \in kSize..(2 * kSize - 1) : a % kSize = a - kSize
    /\ \A a \in (-kSize)..(-1) : a % kSize = a + kSize
<1>1. \A a \in 0..(kSize - 1) : a % kSize = a
  BY Constants
<1>2. \A a \in kSize..(2 * kSize - 1) : a % kSize = a - kSize
  BY Constants
<1>3. \A a \in (-kSize)..(-1) : a % kSize = a + kSize
  BY Constants
<1> QED
  BY <1>1, <1>2, <1>3

\* When n of the u bytes from t on are printed, the end of the rest stays.
LEMMA Advance ==
    ASSUME NEW t \in Cell, NEW u \in 0..kSize, NEW n \in 0..u
    PROVE  (((t + n) % kSize) + (u - n)) % kSize = (t + u) % kSize
<1> USE Constants DEF Cell
<1>1. CASE t + n < kSize
  BY <1>1, Wrap
<1>2. CASE t + n >= kSize
  <2>1. (t + n) % kSize = t + n - kSize
    BY <1>2, Wrap
  <2>2. (t + u) % kSize = t + u - kSize /\ t + u - kSize \in 0..(kSize - 1)
    BY <1>2, Wrap
  <2>3. (t + n - kSize) + (u - n) = t + u - kSize
    OBVIOUS
  <2> QED
    BY <2>1, <2>2, <2>3, Wrap
<1> QED
  BY <1>1, <1>2

\* The batch of a dump in progress, and where what is not printed begins.
LEMMA RingBounds ==
    ASSUME TraceInv
    PROVE  /\ Batch \in 0..dump.todo
           /\ dump.pc # "idle" => Batch \in 1..(kSize - bytes_left)
           /\ Unreleased \in 0..(kSize - bytes_left)
           /\ First \in Cell
<1>1. /\ Batch \in 0..dump.todo
      /\ dump.pc # "idle" => Batch \in 1..(kSize - bytes_left)
  BY Constants DEF TraceInv, BufferTypeOK, DumpInStep, Batch
<1>2. Unreleased \in 0..(kSize - bytes_left)
  BY <1>1, Constants DEF TraceInv, BufferTypeOK, Unreleased
<1>3. dump.tail \in Cell /\ tail \in Cell /\ Batch \in Int
  BY <1>1 DEF TraceInv, BufferTypeOK
<1>4. First \in Cell
  BY <1>3, Constants DEF First, Cell
<1> QED
  BY <1>1, <1>2, <1>4

-----------------------------------------------------------------------------
(***************************************************************************)
(* The invariant.                                                          *)
(***************************************************************************)

LEMMA InitInv == TraceInit => TraceInv
<1> SUFFICES ASSUME TraceInit PROVE TraceInv
  OBVIOUS
<1>1. BufferTypeOK
  BY Constants DEF TraceInit, BufferTypeOK, Cell
<1>2. DumpInStep
  BY DEF TraceInit, DumpInStep
<1>3. SpaceAccounted
  BY Constants, Wrap DEF TraceInit, SpaceAccounted, Unprinted, Unreleased, First
<1> QED
  BY <1>1, <1>2, <1>3 DEF TraceInv

\* A writer changes neither where the unprinted bytes begin nor what is being
\* released.
LEMMA CommitSpace ==
    ASSUME TraceInv, NEW size \in Sizes, CommitToLog(size)
    PROVE  Unprinted' = Unprinted + size /\ First' = First
<1>1. size \in Nat /\ bytes_left \in Nat /\ bytes_left' = bytes_left - size /\ dump' = dump /\ tail' = tail
  BY Constants DEF TraceInv, BufferTypeOK, CommitToLog
<1>2. Batch' = Batch
  BY <1>1 DEF Batch
<1>3. Unreleased' = Unreleased /\ First' = First
  BY <1>1, <1>2 DEF Unreleased, First
<1> QED
  BY <1>1, <1>3, RingBounds, Constants DEF Unprinted

\* A trace is written behind the others.
LEMMA CommitInv ==
    ASSUME TraceInv, NEW size \in Sizes, CommitToLog(size)
    PROVE  TraceInv'
<1> USE Constants
<1>1. size \in 1..(kSize - 1) /\ bytes_left >= size
  BY DEF TraceInv, BufferTypeOK, CommitToLog, Fits
<1>2. BufferTypeOK'
  <2>1. \A i \in Cell : ((i - head) % kSize) + 1 \in Nat
    BY DEF TraceInv, BufferTypeOK, Cell
  <2>2. buffer' \in [Cell -> Nat \X Nat]
    BY <2>1 DEF TraceInv, BufferTypeOK, CommitToLog
  <2>3. bytes_left' \in 0..kSize /\ head' \in Cell /\ number' \in 0..(Numbers - 1)
    BY <1>1, SMTT(30) DEF TraceInv, BufferTypeOK, CommitToLog, Cell
  <2> QED
    BY <2>2, <2>3 DEF TraceInv, BufferTypeOK, CommitToLog
<1>3. DumpInStep'
  BY <1>1 DEF TraceInv, BufferTypeOK, DumpInStep, CommitToLog
<1>4. SpaceAccounted'
  <2>1. Unprinted' = Unprinted + size /\ First' = First
    BY CommitSpace
  <2>2. Unprinted + size <= kSize
    BY <1>1, RingBounds DEF TraceInv, BufferTypeOK, Unprinted
  <2>3. Unprinted \in 0..kSize /\ (First + Unprinted) % kSize = head
    BY DEF TraceInv, SpaceAccounted
  <2>4. (First + (Unprinted + size)) % kSize = (head + size) % kSize
    BY <1>1, <2>2, <2>3, RingBounds, Wrap DEF Cell
  <2> QED
    BY <1>1, <2>1, <2>2, <2>3, <2>4 DEF SpaceAccounted, CommitToLog
<1> QED
  BY <1>2, <1>3, <1>4 DEF TraceInv

\* The worker counts, prints, moves the tail and releases: what is not printed
\* goes on from where the last batch ended.
LEMMA DumperInv ==
    ASSUME TraceInv, Dumper
    PROVE  TraceInv'
<1> USE Constants
<1>0. /\ dump \in [pc : {"idle", "print", "push", "release"}, todo : 0..kSize, tail : Cell]
      /\ bytes_left \in 0..kSize /\ tail \in Cell /\ Cell = 0..(kSize - 1)
      /\ Unprinted \in 0..kSize /\ (First + Unprinted) % kSize = head
  BY DEF TraceInv, BufferTypeOK, SpaceAccounted, Cell
<1>1. CASE DumpStart
  <2>1. BufferTypeOK'
    BY <1>0, <1>1 DEF TraceInv, BufferTypeOK, DumpStart
  <2>2. DumpInStep'
    BY <1>0, <1>1 DEF DumpInStep, DumpStart
  <2>3. Unprinted' = Unprinted /\ First' = First
    BY <1>0, <1>1 DEF DumpStart, Unprinted, Unreleased, First
  <2> QED
    BY <1>0, <1>1, <2>1, <2>2, <2>3 DEF TraceInv, SpaceAccounted, DumpStart
<1>2. CASE PrintBatch
  <2>1. /\ dump'.pc = "push" /\ dump'.todo = dump.todo /\ dump'.tail = tail
        /\ Batch' = Batch /\ Batch \in 1..(kSize - bytes_left)
    BY <1>0, <1>2, RingBounds DEF PrintBatch, Batch
  <2>2. BufferTypeOK'
    BY <1>0, <1>2, Zenon DEF TraceInv, BufferTypeOK, PrintBatch
  <2>3. DumpInStep'
    BY <1>0, <1>2, <2>1 DEF TraceInv, DumpInStep, PrintBatch
  <2>4. /\ First' = (tail + Batch) % kSize /\ First = tail
        /\ Unprinted' = Unprinted - Batch /\ Unprinted = kSize - bytes_left
    BY <1>0, <1>2, <2>1 DEF PrintBatch, Unprinted, Unreleased, First
  <2>5. Unprinted' \in 0..kSize /\ (First' + Unprinted') % kSize = head
    <3>1. Batch \in 0..Unprinted
      BY <1>0, <2>1, <2>4
    <3>2. (((tail + Batch) % kSize) + (Unprinted - Batch)) % kSize = head
      BY <1>0, <2>4, <3>1, Advance
    <3>3. Unprinted - Batch \in 0..kSize
      BY <1>0, <3>1
    <3> QED
      BY <2>4, <3>2, <3>3
  <2> QED
    BY <1>2, <2>2, <2>3, <2>5 DEF TraceInv, SpaceAccounted, PrintBatch
<1>3. CASE PushTail
  <2>1. /\ dump'.pc = "release" /\ dump'.todo = dump.todo
        /\ Batch' = Batch /\ Batch \in 1..(kSize - bytes_left)
    BY <1>0, <1>3, RingBounds DEF PushTail, Batch
  <2>2. tail' \in Cell
    BY <1>0, <1>3, <2>1 DEF PushTail
  <2>3. BufferTypeOK'
    BY <1>0, <1>3, <2>2, Zenon DEF TraceInv, BufferTypeOK, PushTail
  <2>4. DumpInStep'
    BY <1>0, <1>3, <2>1 DEF TraceInv, DumpInStep, PushTail
  <2>5. First' = First /\ Unprinted' = Unprinted
    BY <1>0, <1>3, <2>1 DEF PushTail, Unprinted, Unreleased, First
  <2> QED
    BY <1>0, <1>3, <2>3, <2>4, <2>5 DEF TraceInv, SpaceAccounted, PushTail
<1>4. CASE Release
  <2>1. /\ Batch \in 1..(kSize - bytes_left) /\ Batch <= dump.todo
        /\ dump.pc = "release" /\ dump'.pc \in {"idle", "print"}
        /\ dump.todo \in 1..(kSize - bytes_left)
        /\ dump'.todo = dump.todo - Batch /\ bytes_left' = bytes_left + Batch
        /\ dump'.pc = "print" => dump'.todo >= 1
    BY <1>0, <1>4, RingBounds DEF TraceInv, DumpInStep, Release
  <2>2. BufferTypeOK'
    <3>1. dump' \in [pc : {"idle", "print", "push", "release"}, todo : 0..kSize, tail : Cell]
      BY <1>0, <1>4, <2>1 DEF Release
    <3> QED
      BY <1>0, <1>4, <2>1, <3>1, SMTT(30) DEF TraceInv, BufferTypeOK, Release
  <2>3. DumpInStep'
    BY <1>0, <2>1 DEF DumpInStep
  <2>4. First' = First /\ Unprinted' = Unprinted
    BY <1>0, <1>4, <2>1 DEF Release, Unprinted, Unreleased, First
  <2> QED
    BY <1>0, <1>4, <2>2, <2>3, <2>4 DEF TraceInv, SpaceAccounted, Release
<1> QED
  BY <1>1, <1>2, <1>3, <1>4 DEF Dumper

\* The ripper prints everything at once.
LEMMA RipperInv ==
    ASSUME TraceInv, RipperDump, Overlap = FALSE
    PROVE  TraceInv'
<1> USE Constants
<1>1. dump.pc = "idle" /\ dump' = dump /\ bytes_left' = kSize
  BY DEF RipperDump
<1>2. BufferTypeOK'
  BY DEF TraceInv, BufferTypeOK, RipperDump, Cell
<1>3. DumpInStep'
  BY <1>1 DEF DumpInStep
<1>4. /\ First = tail /\ First' = tail'
      /\ Unprinted = kSize - bytes_left /\ Unprinted' = 0
  BY <1>1 DEF TraceInv, BufferTypeOK, First, Unprinted, Unreleased
<1>5. tail' = head /\ head' = head /\ head \in Cell
  BY <1>4 DEF TraceInv, BufferTypeOK, SpaceAccounted, RipperDump
<1>6. SpaceAccounted'
  BY <1>4, <1>5, Wrap DEF SpaceAccounted, Cell
<1> QED
  BY <1>2, <1>3, <1>6 DEF TraceInv

LEMMA StepInv ==
    ASSUME TraceInv, [TraceNext]_vars, Overlap = FALSE
    PROVE  TraceInv'
<1>1. CASE UNCHANGED vars
  BY <1>1 DEF vars, TraceInv, BufferTypeOK, DumpInStep, SpaceAccounted, Unprinted,
              Unreleased, First, Batch
<1> QED
  BY <1>1, CommitInv, DumperInv, RipperInv, Zenon DEF TraceNext

\* bytes_left, head and tail stay in step through every interleaving of writers,
\* the worker's batches and the ripper's dump: CommitToLogPtrSingleCore never
\* overwrites a trace that DumpBufferSingleCore has not printed.
THEOREM SpaceAlwaysAccounted ==
    ASSUME Overlap = FALSE
    PROVE  TraceSpec => []SpaceAccounted
<1>1. TraceInv /\ [TraceNext]_vars => TraceInv'
  BY StepInv, Zenon
<1>2. TraceInv => SpaceAccounted
  BY DEF TraceInv
<1> QED
  BY InitInv, <1>1, <1>2, PTL DEF TraceSpec

-----------------------------------------------------------------------------
(***************************************************************************)
(* The log.                                                                *)
(***************************************************************************)

Byte == Nat \X Nat

\* From a position that is a bytes behind t to one that is b bytes behind it.
LEMMA Distance ==
    ASSUME NEW t \in Cell, NEW a \in Cell, NEW b \in 0..kSize
    PROVE  (((t + a) % kSize) - ((t + b) % kSize)) % kSize
              = IF a < b THEN a - b + kSize ELSE a - b
<1> USE Constants DEF Cell
<1>1. (t + a) % kSize = IF t + a < kSize THEN t + a ELSE t + a - kSize
  BY Wrap
<1>2. (t + b) % kSize = IF t + b < kSize THEN t + b ELSE t + b - kSize
  BY Wrap
<1> DEFINE d == ((t + a) % kSize) - ((t + b) % kSize)
<1>3. d \in {a - b, a - b - kSize, a - b + kSize} /\ d \in (1 - kSize)..(kSize - 1)
  BY <1>1, <1>2
<1>4. d % kSize = IF d < 0 THEN d + kSize ELSE d
  BY <1>3, Wrap
<1> HIDE DEF d
<1>5. d % kSize = IF a < b THEN a - b + kSize ELSE a - b
  BY <1>3, <1>4
<1> QED
  BY <1>5 DEF d

\* n cells of the ring as a sequence.
LEMMA CellsSeq ==
    ASSUME buffer \in [Cell -> Byte], NEW t \in Cell, NEW n \in 0..kSize
    PROVE  /\ Cells(t, n) \in Seq(Byte) /\ Len(Cells(t, n)) = n
           /\ \A i \in 1..n : Cells(t, n)[i] = buffer[(t + i - 1) % kSize]
<1>1. \A i \in 1..n : (t + i - 1) % kSize \in Cell
  BY Constants DEF Cell
<1>2. Cells(t, n) \in [1..n -> Byte]
  BY <1>1 DEF Cells
<1>3. Cells(t, n) \in Seq(Byte)
  BY <1>2, SeqDef, Constants
<1>4. DOMAIN Cells(t, n) = 1..Len(Cells(t, n)) /\ Len(Cells(t, n)) \in Nat
  BY <1>3, LenProperties
<1>5. Len(Cells(t, n)) = n
  BY <1>2, <1>4, Constants
<1> QED
  BY <1>3, <1>5 DEF Cells

\* Cells are printed from the front.
LEMMA CellsSplit ==
    ASSUME buffer \in [Cell -> Byte], NEW t \in Cell, NEW u \in 0..kSize, NEW n \in 0..u
    PROVE  /\ Cells(t, n) = SubSeq(Cells(t, u), 1, n)
           /\ Cells((t + n) % kSize, u - n)
                = SubSeq(Cells(t, u), n + 1, Len(Cells(t, u)))
<1> USE Constants
<1> DEFINE all == Cells(t, u)
           rest == (t + n) % kSize
<1>1. rest \in Cell /\ n \in 0..kSize /\ u - n \in 0..kSize
  BY DEF Cell
<1>2. all \in Seq(Byte) /\ Len(all) = u /\ \A i \in 1..u : all[i] = buffer[(t + i - 1) % kSize]
  BY CellsSeq
<1>3. \A i \in 1..u : all[i] \in Byte
  BY <1>2, ElementOfSeq
<1>4. Cells(t, n) = SubSeq(all, 1, n)
  <2>1. /\ SubSeq(all, 1, n) \in Seq(Byte) /\ Len(SubSeq(all, 1, n)) = n
        /\ \A i \in 1..n : SubSeq(all, 1, n)[i] = all[i]
    <3>1. \A i \in 1..n : all[i] \in Byte
      BY <1>3
    <3> QED
      BY <3>1, SubSeqProperties
  <2>2. /\ Cells(t, n) \in Seq(Byte) /\ Len(Cells(t, n)) = n
        /\ \A i \in 1..n : Cells(t, n)[i] = buffer[(t + i - 1) % kSize]
    BY <1>1, CellsSeq
  <2>3. \A i \in 1..n : Cells(t, n)[i] = SubSeq(all, 1, n)[i]
    BY <1>2, <2>1, <2>2, SMTT(30)
  <2> QED
    BY <2>1, <2>2, <2>3, SeqEqual
<1>5. Cells(rest, u - n) = SubSeq(all, n + 1, u)
  <2>1. /\ SubSeq(all, n + 1, u) \in Seq(Byte) /\ Len(SubSeq(all, n + 1, u)) = u - n
        /\ \A i \in 1..(u - n) : SubSeq(all, n + 1, u)[i] = all[n + i]
    <3>1. \A i \in (n + 1)..u : all[i] \in Byte
      BY <1>3
    <3> QED
      BY <3>1, SubSeqProperties
  <2>2. /\ Cells(rest, u - n) \in Seq(Byte) /\ Len(Cells(rest, u - n)) = u - n
        /\ \A i \in 1..(u - n) : Cells(rest, u - n)[i] = buffer[(rest + i - 1) % kSize]
    BY <1>1, CellsSeq, Zenon
  <2>3. ASSUME NEW i \in 1..(u - n)
        PROVE  (rest + i - 1) % kSize = (t + (n + i) - 1) % kSize
    <3>1. (rest + ((n + i - 1) - n)) % kSize = (t + (n + i - 1)) % kSize
      BY Advance
    <3> QED
      BY <3>1, <1>1 DEF Cell
  <2>4. ASSUME NEW i \in 1..(u - n)
        PROVE  Cells(rest, u - n)[i] = SubSeq(all, n + 1, u)[i]
    <3>1. n + i \in 1..u
      OBVIOUS
    <3>2. all[n + i] = buffer[(t + (n + i) - 1) % kSize]
      BY <1>2, <3>1
    <3> QED
      BY <2>1, <2>2, <2>3, <3>2
  <2> QED
    BY <2>1, <2>2, <2>4, SeqEqual
<1> QED
  BY <1>2, <1>4, <1>5

\* What was written and not printed.
LEMMA QueueLen ==
    ASSUME TraceInv
    PROVE  /\ Cells(First, Unprinted) \in Seq(Byte)
           /\ Len(Cells(First, Unprinted)) = Unprinted
           /\ \A i \in 1..Unprinted :
                  Cells(First, Unprinted)[i] = buffer[(First + i - 1) % kSize]
  BY RingBounds, CellsSeq DEF TraceInv, BufferTypeOK, SpaceAccounted, Byte

\* A writer touches no cell that waits to be printed and appends its trace, also
\* across the end of the buffer.
LEMMA CommitWrites ==
    ASSUME TraceInv, TraceInv', NEW size \in Sizes, CommitToLog(size)
    PROVE  Log!Write
<1> USE Constants
<1> DEFINE queue == Cells(First, Unprinted)
           trace == TraceBytes(number, size)
<1>1. /\ size \in 1..(kSize - 1) /\ First \in Cell /\ Unprinted \in 0..kSize
      /\ head = (First + Unprinted) % kSize /\ number \in 0..(Numbers - 1)
      /\ DOMAIN buffer = Cell
  BY RingBounds DEF TraceInv, BufferTypeOK, SpaceAccounted
<1>2. Unprinted' = Unprinted + size /\ First' = First /\ Unprinted + size \in 0..kSize
  <2>1. Unprinted' = Unprinted + size /\ First' = First
    BY CommitSpace
  <2> QED
    BY <2>1 DEF TraceInv, SpaceAccounted
<1>3. queue \in Seq(Byte) /\ Len(queue) = Unprinted
      /\ \A i \in 1..Unprinted : queue[i] = buffer[(First + i - 1) % kSize]
  BY QueueLen
<1>4. queue' \in Seq(Byte) /\ Len(queue') = Unprinted + size
      /\ \A i \in 1..(Unprinted + size) : queue'[i] = buffer'[(First + i - 1) % kSize]
  <2>1. buffer' \in [Cell -> Byte]
    BY DEF TraceInv, BufferTypeOK, Byte
  <2>2. queue' = [i \in 1..(Unprinted + size) |-> buffer'[(First + i - 1) % kSize]]
    BY <1>2 DEF Cells
  <2>3. \A i \in 1..(Unprinted + size) : (First + i - 1) % kSize \in Cell
    BY <1>1, <1>2 DEF Cell
  <2>4. queue' \in [1..(Unprinted + size) -> Byte]
    BY <2>1, <2>2, <2>3
  <2>5. queue' \in Seq(Byte)
    BY <1>2, <2>4, SeqDef
  <2>6. DOMAIN queue' = 1..Len(queue') /\ Len(queue') \in Nat
    BY <2>5, LenProperties
  <2>7. Len(queue') = Unprinted + size
    BY <1>2, <2>4, <2>6
  <2> QED
    BY <2>2, <2>5, <2>7, Zenon
<1>5. trace \in Seq(Byte) /\ Len(trace) = size
      /\ \A i \in 1..size : trace[i] = <<number, i>>
  <2>1. trace \in [1..size -> Byte]
    BY <1>1 DEF TraceBytes, Byte
  <2>2. trace \in Seq(Byte)
    BY <1>1, <2>1, SeqDef
  <2>3. DOMAIN trace = 1..Len(trace) /\ Len(trace) \in Nat
    BY <2>2, LenProperties
  <2>4. Len(trace) = size
    BY <1>1, <2>1, <2>3
  <2> QED
    BY <2>2, <2>4 DEF TraceBytes
<1>6. ASSUME NEW i \in 1..(Unprinted + size)
      PROVE  queue'[i] = IF i <= Unprinted THEN queue[i] ELSE trace[i - Unprinted]
  <2> DEFINE p == (First + i - 1) % kSize
  <2>1. p \in Cell /\ i - 1 \in Cell /\ p = (First + (i - 1)) % kSize
    BY <1>1, <1>2 DEF Cell
  <2>2. (p - head) % kSize
           = IF i - 1 < Unprinted THEN i - 1 - Unprinted + kSize ELSE i - 1 - Unprinted
    BY <1>1, <2>1, Distance
  <2>3. buffer'[p] = IF (p - head) % kSize < size THEN <<number, ((p - head) % kSize) + 1>>
                                                 ELSE buffer[p]
    BY <1>1, <2>1 DEF CommitToLog
  <2> HIDE DEF p, queue, trace
  <2>4. CASE i <= Unprinted
    BY <1>1, <1>2, <1>3, <1>4, <2>2, <2>3, <2>4 DEF p
  <2>5. CASE i > Unprinted
    <3>1. buffer'[p] = <<number, i - Unprinted>>
      BY <1>1, <1>2, <2>2, <2>3, <2>5
    <3>2. i - Unprinted \in 1..size
      BY <1>1, <2>5
    <3>3. trace[i - Unprinted] = <<number, i - Unprinted>>
      BY <1>5, <3>2
    <3>4. queue'[i] = buffer'[p]
      BY <1>4 DEF p
    <3> QED
      BY <1>1, <2>5, <3>1, <3>3, <3>4
  <2> QED
    BY <1>1, <2>4, <2>5
<1>7. queue' = queue \o trace
  <2> HIDE DEF queue, trace
  <2>1. /\ queue \o trace \in Seq(Byte) /\ Len(queue \o trace) = Unprinted + size
        /\ \A i \in 1..(Unprinted + size) :
               (queue \o trace)[i] = IF i <= Unprinted THEN queue[i] ELSE trace[i - Unprinted]
    BY <1>3, <1>5, ConcatProperties, Zenon
  <2> QED
    BY <1>4, <1>6, <2>1, SeqEqual, Zenon
<1>8. out' = out
  BY DEF CommitToLog
<1> DEFINE Trace == {TraceBytes(n, sz) : n \in 0..(Numbers - 1), sz \in Sizes}
<1>9. trace \in Trace
  BY <1>1
<1>10. Log!Write <=> \E x \in Trace : queue' = queue \o x /\ out' = out
  BY DEF Log!Write
<1> HIDE DEF Trace
<1> QED
  BY <1>7, <1>8, <1>9, <1>10, Zenon

\* The dumper's steps on the log: PrintBatch prints and drops the first batch, the
\* others change neither what was printed nor what waits.
LEMMA DumperPrints ==
    ASSUME TraceInv, Dumper
    PROVE  Log!Dump \/ UNCHANGED <<Cells(First, Unprinted), out>>
<1> USE Constants
<1>0. /\ dump \in [pc : {"idle", "print", "push", "release"}, todo : 0..kSize, tail : Cell]
      /\ bytes_left \in 0..kSize /\ tail \in Cell /\ Unprinted \in 0..kSize
      /\ buffer \in [Cell -> Byte]
  BY DEF TraceInv, BufferTypeOK, SpaceAccounted, Byte
<1>1. ASSUME buffer' = buffer, First' = First, Unprinted' = Unprinted, out' = out
      PROVE  UNCHANGED <<Cells(First, Unprinted), out>>
  BY <1>1 DEF Cells
<1>2. CASE DumpStart
  BY <1>0, <1>1, <1>2 DEF DumpStart, Unprinted, Unreleased, First
<1>3. CASE PrintBatch
  <2>1. /\ dump.pc = "print" /\ dump'.pc = "push" /\ dump'.tail = tail
        /\ Batch' = Batch /\ Batch \in 1..(kSize - bytes_left)
        /\ buffer' = buffer /\ bytes_left' = bytes_left
    BY <1>0, <1>3, RingBounds DEF PrintBatch, Batch
  <2>2. /\ First = tail /\ First' = (tail + Batch) % kSize
        /\ Unprinted' = Unprinted - Batch /\ Batch \in 1..Unprinted
    BY <1>0, <2>1 DEF Unprinted, Unreleased, First
  <2>3. Cells(First, Unprinted)' = Cells((tail + Batch) % kSize, Unprinted - Batch)
    BY <2>1, <2>2 DEF Cells
  <2>4. /\ Cells(tail, Batch) = SubSeq(Cells(tail, Unprinted), 1, Batch)
        /\ Cells((tail + Batch) % kSize, Unprinted - Batch)
             = SubSeq(Cells(tail, Unprinted), Batch + 1, Len(Cells(tail, Unprinted)))
    <3>1. Batch \in 0..Unprinted
      BY <1>0, <2>2
    <3> QED
      BY <1>0, <3>1, CellsSplit, Zenon
  <2>5. out' = Cells(tail, Batch)
    BY <1>3 DEF PrintBatch
  <2>6. Batch \in 1..Len(Cells(First, Unprinted))
    BY <2>2, QueueLen
  <2> QED
    BY <2>2, <2>3, <2>4, <2>5, <2>6 DEF Log!Dump
<1>4. CASE PushTail
  <2>1. dump.pc = "push" /\ dump'.pc = "release" /\ Batch' = Batch
    BY <1>0, <1>4 DEF PushTail, Batch
  <2> QED
    BY <1>0, <1>1, <1>4, <2>1 DEF PushTail, Unprinted, Unreleased, First
<1>5. CASE Release
  <2>1. /\ dump.pc = "release" /\ dump'.pc \in {"idle", "print"}
        /\ bytes_left' = bytes_left + Batch /\ Batch \in Nat
    BY <1>0, <1>5, RingBounds DEF Release
  <2>2. First' = First /\ Unprinted' = Unprinted
    BY <1>0, <1>5, <2>1 DEF Release, Unprinted, Unreleased, First
  <2> QED
    BY <1>1, <1>5, <2>2 DEF Release
<1> QED
  BY <1>2, <1>3, <1>4, <1>5 DEF Dumper

LEMMA RipperPrints ==
    ASSUME TraceInv, TraceInv', RipperDump, Overlap = FALSE
    PROVE  Log!Dump
<1> USE Constants
<1>1. /\ First = tail /\ Unprinted = kSize - bytes_left /\ Unprinted' = 0
      /\ Unprinted \in 1..kSize /\ tail \in Cell /\ buffer \in [Cell -> Byte]
  BY DEF TraceInv, BufferTypeOK, SpaceAccounted, RipperDump, First, Unprinted, Unreleased, Byte
<1>2. /\ out' = Cells(First, Unprinted)
      /\ Cells(First, Unprinted) \in Seq(Byte) /\ Len(Cells(First, Unprinted)) = Unprinted
  BY <1>1, QueueLen DEF RipperDump
<1>3. Cells(First, Unprinted)' = <<>>
  <2>1. Cells(First, Unprinted)' \in Seq(Byte) /\ Len(Cells(First, Unprinted)') = 0
    <3>1. Cells(First, Unprinted)' = [i \in 1..0 |-> buffer'[(First' + i - 1) % kSize]]
      BY <1>1 DEF Cells
    <3> QED
      BY <3>1
  <2> QED
    BY <2>1, EmptySeq
<1>4. out' = SubSeq(Cells(First, Unprinted), 1, Unprinted)
  BY <1>2, SubSeqFull
<1>5. SubSeq(Cells(First, Unprinted), Unprinted + 1, Len(Cells(First, Unprinted))) = <<>>
  BY <1>1, <1>2, SubSeqEmpty
<1>6. Unprinted \in 1..Len(Cells(First, Unprinted))
  BY <1>1, <1>2
<1> QED
  BY <1>3, <1>4, <1>5, <1>6, Zenon DEF Log!Dump

\* The ring buffer implements TraceLog: whatever the sizes, and wherever writers
\* interrupt the dump, traces come out whole, once and in the order of writing.
THEOREM PrintsInOrder ==
    ASSUME Overlap = FALSE
    PROVE  TraceSpec => ImplementsTraceLog
<1>1. TraceInit => Log!LogInit
  <2> SUFFICES ASSUME TraceInit PROVE Log!LogInit
    OBVIOUS
  <2>1. Unprinted = 0 /\ out = <<>>
    BY Constants DEF TraceInit, Unprinted, Unreleased
  <2>2. Cells(First, Unprinted) = <<>>
    <3>1. Cells(First, Unprinted) \in Seq(Byte) /\ Len(Cells(First, Unprinted)) = 0
      BY <2>1, InitInv, QueueLen
    <3> QED
      BY <3>1, EmptySeq
  <2> QED
    BY <2>1, <2>2 DEF Log!LogInit
<1>2. TraceInv /\ [TraceNext]_vars => TraceInv'
  BY StepInv, Zenon
<1>3. TraceInv /\ TraceInv' /\ [TraceNext]_vars
        => [Log!Write \/ Log!Dump]_<<Cells(First, Unprinted), out>>
  <2>1. ASSUME UNCHANGED vars
        PROVE  UNCHANGED <<Cells(First, Unprinted), out>>
    BY <2>1 DEF vars, Cells, First, Unprinted, Unreleased, Batch
  <2> QED
    BY <2>1, CommitWrites, DumperPrints, RipperPrints, Zenon DEF TraceNext
<1> QED
  BY InitInv, <1>1, <1>2, <1>3, PTL DEF TraceSpec, ImplementsTraceLog, Log!LogSpec
=============================================================================
