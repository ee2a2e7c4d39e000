--------------------------- MODULE MCSampleBuffer ---------------------------
(* Small instances of SampleBuffer: no buffer at all, one slot, and rings   *)
(* that wrap twice and more within the bound.                               *)
EXTENDS SampleBuffer

MCSizes == {0, 1, 2, 3}
MCValues == {0, 1}
=============================================================================
