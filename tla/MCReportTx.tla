------------------------------ MODULE MCReportTx ------------------------------
(* Finite instances of ReportTx. *)
EXTENDS ReportTx, FiniteSets, TLC

CONSTANTS v1, v2, v3, s1, t1, t2, t3, j1, j2, ann, rob, a, b

\* t1 passes against the first snapshot and t2 against the second; t3 against neither.
MCTraceable == {<<t1, j1>>, <<t2, j2>>}

MCIncomplete == {j2}

\* Bound: one version is worked on; a second is there to be forked from and superseded,
\* is generated with a passing text and keeps it.
Touched(v) ==
  \E s \in Sections : \/ section[v][s].edited # NoText
                      \/ section[v][s].acknowledged_by # Nobody
                      \/ section[v][s].generated_status = "failed"

OneVersionTouched == \A v, w \in Rows : Touched(v) /\ Touched(w) => v = w

\* Bound: the project's data moves forward only, and only while no version is worked on:
\* what it can disturb is the gate and the assembly of a generation.
DataMovesForward ==
  /\ world = j2 => \A v \in Rows : ~Touched(v)
  /\ world = j1 => \A v \in Rows : row[v].json = j1

Symmetry == Permutations(VersionId) \cup Permutations(Requests)
=============================================================================
