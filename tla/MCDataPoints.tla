----------------------------- MODULE MCDataPoints -----------------------------
(* Finite instances of DataPoints. *)
EXTENDS DataPoints, TLC

CONSTANTS p1, p2, p3, p4, p5, rera, developer_site, document, manual, low, high, rob

\* The seeded priority of unit_count; documents and overrides come from unlisted sources.
MCPriority == <<rera, developer_site>>

Symmetry == Permutations(PointId) \cup Permutations(Values)
=============================================================================
