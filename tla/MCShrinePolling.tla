--------------------------- MODULE MCShrinePolling ---------------------------
(* ShrinePolling for three weeks of six ticks. *)
EXTENDS ShrinePolling
=============================================================================
