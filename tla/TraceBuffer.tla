---------------------------- MODULE TraceBuffer ----------------------------
(***************************************************************************)
(* The ring buffer of the kernel's trace log (kernel/src/trace.cpp) in the *)
(* stage with one core and interrupts.  Writers are interrupt handlers and *)
(* code that runs with interrupts off, so that a trace is written without  *)
(* interruption; but it may come at any point of a dump by the trace       *)
(* dumper, a worker that is preempted like any thread.  The thread ripper  *)
(* also dumps, with interrupts off.  Threads that trace with interrupts on *)
(* are left out: nothing orders them (README, section 6).                  *)
(*                                                                         *)
(* A byte of the log is <<number of the trace, position>>.                 *)
(***************************************************************************)
EXTENDS Integers, Sequences

CONSTANTS
    kSize, kBatchSize,
    Sizes,       \* of traces, at most kSingleTraceMaxSize
    Numbers,     \* traces are numbered modulo this
    Overlap      \* whether the ripper may dump in the middle of the worker's dump

ASSUME SizeAssumption ==
    /\ {kSize, kBatchSize, Numbers} \subseteq Nat \ {0} /\ Overlap \in BOOLEAN
    /\ \A n \in Sizes : n \in 1..(kSize - 1)

VARIABLES
    bytes_left, head, tail, buffer,
    dump,     \* the worker: where it is, its bytes_to_write and its tail
    number,   \* of the next trace
    out       \* what was printed last

vars == <<bytes_left, head, tail, buffer, dump, number, out>>

TraceBytes(n, size) == [i \in 1..size |-> <<n, i>>]

Cells(from, n) == [i \in 1..n |-> buffer[(from + i - 1) % kSize]]

TraceInit ==
    /\ bytes_left = kSize /\ head = 0 /\ tail = 0
    /\ buffer = [i \in 0..(kSize - 1) |-> <<0, 0>>]
    /\ dump = [pc |-> "idle", todo |-> 0, tail |-> 0]
    /\ number = 0 /\ out = <<>>

-----------------------------------------------------------------------------
\* (mutant) Allocating one byte too many is not noticed.
FitsBarely(size) == bytes_left - size >= -1

Fits(size) == bytes_left - size >= 0

\* (mutant) A trace that crosses the end goes on from its start, not from its second part.
CommitToLogRestarts(size) ==
    /\ Fits(size)
    /\ bytes_left' = bytes_left - size
    /\ head' = (head + size) % kSize
    /\ buffer' = [i \in DOMAIN buffer |->
           IF (i - head) % kSize < size THEN <<number, IF i < head THEN i + 1 ELSE i - head + 1>>
                                        ELSE buffer[i]]
    /\ number' = (number + 1) % Numbers
    /\ UNCHANGED <<tail, dump, out>>

\* CommitToLogPtrSingleCore; without room it leaves everything as it was.  Nobody
\* changes head between the load and the compare-exchange.
CommitToLog(size) ==
    /\ Fits(size)
    /\ bytes_left' = bytes_left - size
    /\ head' = (head + size) % kSize
    /\ buffer' = [i \in DOMAIN buffer |->
           IF (i - head) % kSize < size THEN <<number, ((i - head) % kSize) + 1>> ELSE buffer[i]]
    /\ number' = (number + 1) % Numbers
    /\ UNCHANGED <<tail, dump, out>>

\* DumpBufferSingleCore by the worker: the bytes to write are counted once ...
DumpStart ==
    /\ dump.pc = "idle" /\ bytes_left < kSize
    /\ dump' = [pc |-> "print", todo |-> kSize - bytes_left, tail |-> 0]
    /\ UNCHANGED <<bytes_left, head, tail, buffer, number, out>>

Batch == IF dump.todo < kBatchSize THEN dump.todo ELSE kBatchSize

\* ... and printed in batches.
PrintBatch ==
    /\ dump.pc = "print"
    /\ out' = Cells(tail, Batch)
    /\ dump' = [dump EXCEPT !.pc = "push", !.tail = tail]
    /\ UNCHANGED <<bytes_left, head, tail, buffer, number>>

PushTail ==
    /\ dump.pc = "push"
    /\ tail' = (dump.tail + Batch) % kSize
    /\ dump' = [dump EXCEPT !.pc = "release"]
    /\ UNCHANGED <<bytes_left, head, buffer, number, out>>

\* (mutant) The bytes to write are counted again after every batch.
ReleaseRecounts ==
    /\ dump.pc = "release"
    /\ bytes_left' = bytes_left + Batch
    /\ dump' = [pc |-> IF bytes_left' < kSize THEN "print" ELSE "idle",
                todo |-> kSize - bytes_left', tail |-> 0]
    /\ UNCHANGED <<head, tail, buffer, number, out>>

Release ==
    /\ dump.pc = "release"
    /\ bytes_left' = bytes_left + Batch
    /\ dump' = [pc |-> IF dump.todo > Batch THEN "print" ELSE "idle",
                todo |-> dump.todo - Batch, tail |-> 0]
    /\ UNCHANGED <<head, tail, buffer, number, out>>

\* The whole of DumpBufferSingleCore, in ThreadRipperClean_.
RipperDump ==
    /\ dump.pc = "idle" \/ Overlap
    /\ bytes_left < kSize
    /\ out' = Cells(tail, kSize - bytes_left)
    /\ tail' = (tail + kSize - bytes_left) % kSize
    /\ bytes_left' = kSize
    /\ UNCHANGED <<head, buffer, dump, number>>

Dumper == DumpStart \/ PrintBatch \/ PushTail \/ Release

TraceNext == (\E size \in Sizes : CommitToLog(size)) \/ Dumper \/ RipperDump

\* The worker gets the core again and again.
TraceSpec == TraceInit /\ [][TraceNext]_vars /\ WF_vars(Dumper)

-----------------------------------------------------------------------------
\* What the worker has printed and not released, and where the rest begins.
Unreleased == IF dump.pc \in {"push", "release"} THEN Batch ELSE 0
First == IF dump.pc = "push" THEN (dump.tail + Batch) % kSize ELSE tail
Unprinted == kSize - bytes_left - Unreleased

(***************************************************************************)
(* bytes_left is exact: it counts the bytes outside tail..head, except for *)
(* the batch the worker is about to release.  So a trace never overwrites  *)
(* one that is not printed (CommitToLogPtrSingleCore, DumpBufferSingleCore).*)
(***************************************************************************)
SpaceAccounted ==
    /\ Unprinted \in 0..kSize
    /\ (First + Unprinted) % kSize = head

(***************************************************************************)
(* Traces come out whole, once and in order, with interrupt handlers       *)
(* writing in the middle of a dump and at the end of the buffer.           *)
(***************************************************************************)
Log == INSTANCE TraceLog WITH
    queue <- Cells(First, Unprinted),
    Trace <- {TraceBytes(n, size) : n \in 0..(Numbers - 1), size \in Sizes}

ImplementsTraceLog == Log!LogSpec

(***************************************************************************)
(* A dump ends, however much is traced meanwhile ("to not write infinite", *)
(* DumpBufferSingleCore): the worker comes to its Yield.                   *)
(***************************************************************************)
DumpEnds == dump.pc # "idle" ~> dump.pc = "idle"
=============================================================================
