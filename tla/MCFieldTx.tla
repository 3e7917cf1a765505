------------------------------- MODULE MCFieldTx -------------------------------
(* A finite instance of FieldTx. *)
EXTENDS FieldTx, TLC

CONSTANTS p1, p2, p3, p4, rera, site, manual, low, high, r1, r2, d1, d2, vera

MCPriority == <<rera, site>>

\* Keys, values and requests are interchangeable, and no property is a liveness property.
MCSymmetry ==
  Permutations(PointId) \cup Permutations(Requests) \cup Permutations(Values)
=============================================================================
