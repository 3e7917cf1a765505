----------------------------- MODULE MCAcquisition -----------------------------
(* A finite instance of Acquisition. *)
EXTENDS Acquisition

CONSTANTS rera, q1, q2
=============================================================================
