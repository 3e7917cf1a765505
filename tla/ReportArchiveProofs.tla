------------------------ MODULE ReportArchiveProofs -------------------------
(***************************************************************************)
(* The handlers of ReportLifecycle implement PublishedArchive, for any     *)
(* number of versions, sections, texts, snapshots and users.               *)
(***************************************************************************)
EXTENDS ReportLifecycleProofs

Open == \E v \in Rows : row[v].status \in NonTerminal

\* The maximum and the choice in the mapping are determined: the edition issued last is
\* the version numbered last, and a published version is filed under its own number.
MappingDetermined ==
  /\ Rows = {} => Issued = 0
  /\ \A v \in Rows : IsLatest(v) => Issued = row[v].number
  /\ DOMAIN Archived = {row[v].number : v \in Published}
  /\ Archived = [n \in DOMAIN Archived |-> Archived[n]]
  /\ \A v \in Published : Archived[row[v].number] = file[v]

LEMMA MappingFacts == Versions => MappingDetermined
<1> SUFFICES ASSUME Versions PROVE MappingDetermined
  OBVIOUS
<1>1. \A v \in Rows : row[v].number \in Nat
  BY DEF Versions, TypeOK, VersionRow
<1>2. ASSUME NEW v \in Rows, IsLatest(v) PROVE Issued = row[v].number
  <2> DEFINE w == CHOOSE x \in Rows : IsLatest(x)
  <2>1. w \in Rows /\ IsLatest(w) /\ Rows # {}
    BY <1>2
  <2>2. Issued = row[w].number
    BY <2>1 DEF Issued
  <2> HIDE DEF w
  <2>3. row[w].number <= row[v].number /\ row[v].number <= row[w].number
    BY <1>2, <2>1 DEF IsLatest
  <2> QED BY <1>1, <2>1, <2>2, <2>3
<1>3. /\ DOMAIN Archived = {row[v].number : v \in Published}
      /\ Archived = [n \in DOMAIN Archived |-> Archived[n]]
  BY DEF Archived
<1>4. ASSUME NEW v \in Published PROVE Archived[row[v].number] = file[v]
  <2> DEFINE w == CHOOSE x \in Published : row[x].number = row[v].number
  <2>1. w \in Published /\ row[w].number = row[v].number
    OBVIOUS
  <2>2. Archived[row[v].number] = file[w]
    BY DEF Archived
  <2> HIDE DEF w
  <2>3. w = v
    BY <2>1 DEF Versions, VersionChain, Published
  <2> QED BY <2>2, <2>3
<1> QED BY <1>2, <1>3, <1>4 DEF MappingDetermined, Issued

\* The archive depends on the published versions, their numbers and their PDFs only.
LEMMA ArchiveKept ==
  ASSUME MappingDetermined, MappingDetermined', Published' = Published,
         \A v \in Published : row'[v].number = row[v].number /\ file'[v] = file[v]
  PROVE  Archived' = Archived
<1>1. DOMAIN Archived' = DOMAIN Archived
  BY DEF MappingDetermined
<1>2. ASSUME NEW n \in DOMAIN Archived PROVE Archived'[n] = Archived[n]
  <2>1. PICK v \in Published : n = row[v].number
    BY DEF MappingDetermined
  <2>2. Archived[n] = file[v] /\ Archived'[n] = file'[v]
    BY <2>1 DEF MappingDetermined
  <2> QED BY <2>1, <2>2
<1>3. Archived' = [n \in DOMAIN Archived' |-> Archived'[n]]
  BY DEF MappingDetermined
<1> QED BY <1>1, <1>2, <1>3 DEF MappingDetermined

LEMMA ArchiveInit == Init => Archive!Init
BY DEF Init, Archive!Init, Issued, Archived, Published, Rows


LEMMA ArchiveStep ==
  ASSUME Versions, Versions', Contents, MappingDetermined, MappingDetermined', [Next]_vars
  PROVE  [Archive!Next]_(Archive!vars)
<1>1. /\ \A w \in Rows : row[w] \in VersionRow /\ row[w].number \in Nat
      /\ row \in [Rows -> VersionRow]
  BY DEF Versions, TypeOK, VersionRow
<1>2. \A w \in Published : row'[w] = row[w] /\ file'[w] = file[w]
  BY FrozenStep DEF Contents, PublishedPdfIsCurrent, Published
<1>3. ASSUME Published' = Published PROVE Archived' = Archived
  BY <1>2, <1>3, ArchiveKept
<1>4. ASSUME NEW u \in Analysts, NEW v \in VersionId, NEW prev \in Rows \cup {NoVersion},
             NEW json \in Snapshots, NEW force \in BOOLEAN, NEW drafts \in Page,
             GenerateReport(u, v, prev, json, force, drafts)
      PROVE  Archive!OpenEdition
  <2>1. v \notin Rows /\ current' = v /\ IsLatest(prev) /\ v # NoVersion /\ NoVersion \notin Rows
    BY <1>4, TablesAssumption DEF GenerateReport, Versions, TypeOK
  <2>2. DOMAIN Superseding(prev) = Rows
    BY NewRowTypes DEF Versions
  <2>3. /\ Rows' = Rows \cup {v} /\ row'[v] = NewVersion(u, prev, json, force, drafts)
        /\ \A w \in Rows : row'[w] = Superseding(prev)[w]
    BY <1>4, <2>1, <2>2 DEF GenerateReport, Insert, Rows
  <2>4. row'[v].status \in {"draft", "failed"} /\ row'[v].number = NextNumber(prev)
    BY <2>3 DEF NewVersion
  <2>5. \A w \in Rows : row'[w].status = "published" => row[w].status = "published"
    BY <1>1, <2>3 DEF Superseding, VersionRow
  <2>6. Published' = Published
    <3>1. ASSUME NEW w \in Published PROVE w \in Published'
      BY <1>2, <2>3 DEF Published
    <3>2. ASSUME NEW w \in Published' PROVE w \in Published
      <4>1. w \in Rows' /\ row'[w].status = "published"
        BY DEF Published
      <4> QED BY <2>3, <2>4, <2>5, <4>1 DEF Published
    <3> QED BY <3>1, <3>2
  <2>7. Issued' = NextNumber(prev)
    <3>1. IsLatest(v)'
      BY <2>1, <2>3 DEF Versions, OneOpenVersion
    <3> QED BY <2>3, <2>4, <3>1 DEF MappingDetermined
  <2>8. NextNumber(prev) = Issued + 1
    BY <1>1, <2>1 DEF NextNumber, IsLatest, MappingDetermined
  <2>9. Open'
    BY <2>3, <2>4 DEF Open, NonTerminal
  <2>10. Archived' = Archived
    BY <1>3, <2>6
  <2> QED BY <2>7, <2>8, <2>9, <2>10 DEF Archive!OpenEdition, Open
<1>5. ASSUME NEW u \in Reviewers, NEW v \in Rows, Approve(u, v),
             NEW doc \in Page, doc = Rendered(v)
      PROVE  Archive!Publish(doc)
  <2>1. /\ Rows' = Rows /\ current' = v /\ row[v].status = "in_review"
        /\ file' = Insert(file, v, Rendered(v))
    BY <1>5 DEF Approve, Rows
  <2>2. /\ \A w \in Rows : w # v => row'[w] = row[w]
        /\ row'[v].status = "published" /\ row'[v].number = row[v].number
    BY <1>1, <1>5 DEF Approve, VersionRow
  <2>3. IsLatest(v) /\ IsLatest(v)'
    BY <2>1 DEF Versions, OneOpenVersion, NonTerminal
  <2>4. Issued = row[v].number /\ Issued' = row[v].number
    BY <2>1, <2>2, <2>3 DEF MappingDetermined
  <2>5. Open /\ ~Open'
    BY <2>1, <2>2 DEF Versions, OneOpenVersion, Open, NonTerminal
  <2>6. Published' = Published \cup {v} /\ v \notin Published
    BY <2>1, <2>2 DEF Published
  <2>7. file'[v] = Rendered(v)
    BY <2>1 DEF Insert
  <2>8. DOMAIN Archived' = DOMAIN Archived \cup {Issued}
    BY <1>2, <2>2, <2>4, <2>6 DEF MappingDetermined
  <2>9. Archived'[Issued] = Rendered(v)
    BY <2>2, <2>4, <2>6, <2>7 DEF MappingDetermined
  <2>10. ASSUME NEW n \in DOMAIN Archived PROVE n # Issued /\ Archived'[n] = Archived[n]
    <3>1. PICK w \in Published : n = row[w].number
      BY DEF MappingDetermined
    <3>2. w # v /\ row[w].number # row[v].number
      BY <2>6 DEF Versions, VersionChain, Published
    <3>3. Archived[n] = file[w] /\ Archived'[n] = file'[w] /\ file'[w] = file[w]
      BY <1>2, <2>6, <3>1 DEF MappingDetermined
    <3> QED BY <2>4, <3>1, <3>2, <3>3
  <2>11. Archived' = [n \in DOMAIN Archived \cup {Issued} |->
                        IF n = Issued THEN Rendered(v) ELSE Archived[n]]
    <3>1. Archived' = [n \in DOMAIN Archived' |-> Archived'[n]]
      BY DEF MappingDetermined
    <3> QED BY <2>8, <2>9, <2>10, <3>1
  <2> QED BY <1>5, <2>4, <2>5, <2>11 DEF Archive!Publish, Open
<1>6. ASSUME NEW v \in Rows, NEW st \in {"draft", "in_review"}, row[v].status \in NonTerminal,
             row' = [row EXCEPT ![v].status = st]
      PROVE  UNCHANGED Archive!vars
  <2>1. Rows' = Rows
    BY <1>6 DEF Rows
  <2>2. \A w \in Rows : /\ row'[w].number = row[w].number
                        /\ row'[w].status \in NonTerminal <=> row[w].status \in NonTerminal
                        /\ row'[w].status = "published" <=> row[w].status = "published"
    BY <1>1, <1>6 DEF VersionRow, NonTerminal
  <2>3. Open' <=> Open
    BY <2>1, <2>2 DEF Open
  <2>4. Published' = Published
    BY <2>1, <2>2 DEF Published
  <2>5. Issued' = Issued
    <3>1. PICK w \in Rows : IsLatest(w)
      BY DEF Versions, OneOpenVersion, IsLatest
    <3>2. IsLatest(w)'
      BY <2>1, <2>2, <3>1 DEF IsLatest
    <3> QED BY <2>1, <2>2, <3>1, <3>2 DEF MappingDetermined
  <2> QED BY <1>3, <2>3, <2>4, <2>5 DEF Archive!vars, Open
<1>7. ASSUME row' = row PROVE UNCHANGED Archive!vars
  <2>1. Rows' = Rows
    BY <1>7 DEF Rows
  <2>2. Published' = Published
    BY <1>7, <2>1 DEF Published
  <2>3. Issued' = Issued
    BY <1>7, <2>1 DEF Issued, IsLatest
  <2>4. Open' <=> Open
    BY <1>7, <2>1 DEF Open
  <2> QED BY <1>3, <2>2, <2>3, <2>4 DEF Archive!vars, Open
<1>8. ASSUME NEW u \in Analysts, NEW v \in Rows, SubmitForReview(u, v)
      PROVE  UNCHANGED Archive!vars
  BY <1>6, <1>8 DEF SubmitForReview, NonTerminal
<1>9. ASSUME NEW u \in Reviewers, NEW v \in Rows, Reject(u, v) PROVE UNCHANGED Archive!vars
  BY <1>6, <1>9 DEF Reject, NonTerminal
<1>10. ASSUME NEW v \in Rows, NEW u \in Reviewers, Approve(u, v) PROVE Archive!Next
  <2>1. PICK doc \in Page : doc = Rendered(v)
    BY RenderedType DEF Contents
  <2>2. Archive!Publish(doc)
    BY <1>5, <1>10, <2>1
  <2> QED BY <2>2 DEF Archive!Next
<1>11. CASE Generation
  BY <1>4, <1>11 DEF Generation, Archive!Next
<1>12. CASE Reviewing
  BY <1>7, <1>8, <1>9, <1>10, <1>12 DEF Reviewing, ApproveAborted
<1>13. CASE Editing \/ (\E u \in Analysts : GenerateAborted(u)) \/ UNCHANGED vars
  BY <1>7, <1>13 DEF Editing, EditSection, AcknowledgeFailure, GenerateAborted, vars
<1> QED BY <1>11, <1>12, <1>13 DEF Next

\* The report component implements the archive: readers see numbered editions, opened one
\* after the other, each filed once under its number and never changed or withdrawn.
THEOREM Implementation == Spec => ImplementsArchive
<1>1. Versions /\ Versions' /\ Contents /\ MappingDetermined /\ MappingDetermined' /\ [Next]_vars
        => [Archive!Next]_(Archive!vars)
  BY ArchiveStep
<1> QED
  BY <1>1, ArchiveInit, MappingFacts, VersionsInit, VersionsStep, ContentsInit, ContentsStep, PTL
  DEF Spec, ImplementsArchive, Archive!Spec
=============================================================================
