--------------------------- MODULE MCTraceBuffer ---------------------------
(***************************************************************************)
(* A buffer of six bytes that is dumped in batches of two.                 *)
(***************************************************************************)
EXTENDS TraceBuffer

MCSizes == {1, 3}
=============================================================================
