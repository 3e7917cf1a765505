-------------------------- MODULE MCReportLifecycle --------------------------
(* Finite instances of ReportLifecycle. *)
EXTENDS ReportLifecycle, FiniteSets, TLC

CONSTANTS v1, v2, v3, s1, s2, t1, t2, t3, j1, j2, ann, rob

\* t1 agrees with the first snapshot only, t2 with the second only, t3 with neither:
\* whichever snapshot is frozen, one text passes, and one failing text can replace another.
MCTraceable == {<<t1, j1>>, <<t2, j2>>}

MCIncomplete == {j2}

\* Bound: the third version is there for the numbering, the chain and the pointer; it
\* is generated with passing texts and never edited.
ThirdVersionPlain ==
  \A v \in Rows : row[v].number >= 3 =>
    /\ row[v].json = j1
    /\ \A s \in Sections : section[v][s].generated = t1 /\ section[v][s].edited = NoText

\* Bound: t3 is an analyst's text, written into the first version only, and there against the first snapshot.
ThirdTextRare ==
  \A v \in Rows, s \in Sections :
    /\ section[v][s].generated # t3
    /\ section[v][s].edited = t3 => row[v].number = 1 /\ row[v].json = j1

\* Version keys are interchangeable, and so are sections.
Symmetry == Permutations(VersionId) \cup Permutations(Sections)
=============================================================================
