------------------------ MODULE ReportLifecycleProofs ------------------------
(***************************************************************************)
(* Theorems about ReportLifecycle, for any number of versions, sections,   *)
(* texts, snapshots and users.                                             *)
(***************************************************************************)
EXTENDS ReportLifecycle, TLAPS

\* Adding a row to a table (create_report_version and the like) keeps the rows it had.
LEMMA InsertFacts ==
  ASSUME NEW table, NEW key, NEW value
  PROVE  /\ DOMAIN Insert(table, key, value) = DOMAIN table \cup {key}
         /\ Insert(table, key, value)[key] = value
         /\ \A k \in DOMAIN table : k # key => Insert(table, key, value)[k] = table[k]
BY DEF Insert

\* A table of rows of type T is still one after a row of type T is added.
LEMMA InsertType ==
  ASSUME NEW T, NEW table, NEW key, NEW value \in T, table \in [DOMAIN table -> T]
  PROVE  Insert(table, key, value) \in [DOMAIN Insert(table, key, value) -> T]
BY DEF Insert

(***************************************************************************)
(* Types.                                                                  *)
(***************************************************************************)

\* A new version row and its sections are well typed.
LEMMA NewRowTypes ==
  ASSUME TypeOK, NEW u \in Analysts, NEW prev \in Rows \cup {NoVersion}, NEW json \in Snapshots,
         NEW force \in BOOLEAN, NEW drafts \in Page
  PROVE  /\ NewVersion(u, prev, json, force, drafts) \in VersionRow
         /\ [s \in Sections |-> NewSection(drafts[s], json)] \in [Sections -> SectionRow]
         /\ Superseding(prev) \in [Rows -> VersionRow]
         /\ DOMAIN Superseding(prev) = Rows
<1>1. NextNumber(prev) \in Nat \ {0}
  BY TablesAssumption DEF TypeOK, NextNumber, VersionRow, Rows
<1>2. NewVersion(u, prev, json, force, drafts) \in VersionRow
  BY <1>1 DEF TypeOK, NewVersion, VersionRow, Statuses
<1>3. [s \in Sections |-> NewSection(drafts[s], json)] \in [Sections -> SectionRow]
  BY DEF NewSection, SectionRow, Validate, Page
<1>4. Superseding(prev) \in [Rows -> VersionRow] /\ DOMAIN Superseding(prev) = Rows
  BY DEF TypeOK, Superseding, VersionRow, Statuses, Rows
<1> QED BY <1>2, <1>3, <1>4

\* Writing columns of one version row, or of one of its sections, keeps the tables typed.
LEMMA StatusType ==
  ASSUME TypeOK, NEW v \in Rows, NEW st \in Statuses,
         row' = [row EXCEPT ![v].status = st]
  PROVE  Rows' = Rows /\ row' \in [Rows -> VersionRow]
<1>1. row \in [Rows -> VersionRow] /\ row[v] \in VersionRow
  BY DEF TypeOK
<1>2. [row[v] EXCEPT !.status = st] \in VersionRow
  BY <1>1 DEF VersionRow
<1>3. row' \in [Rows -> VersionRow]
  BY <1>1, <1>2
<1> QED BY <1>3 DEF Rows

LEMMA PublishedType ==
  ASSUME TypeOK, NEW v \in Rows, NEW u \in Reviewers,
         row' = [row EXCEPT ![v].status = "published", ![v].published_by = u]
  PROVE  Rows' = Rows /\ row' \in [Rows -> VersionRow]
<1>1. row \in [Rows -> VersionRow] /\ row[v] \in VersionRow
  BY DEF TypeOK
<1>2. [row[v] EXCEPT !.status = "published", !.published_by = u] \in VersionRow
  BY <1>1 DEF VersionRow, Statuses
<1>3. row' \in [Rows -> VersionRow]
  BY <1>1, <1>2
<1> QED BY <1>3 DEF Rows

LEMMA SectionType ==
  ASSUME TypeOK, NEW v \in Rows, NEW s \in Sections, NEW sec \in SectionRow,
         section' = [section EXCEPT ![v][s] = sec]
  PROVE  section' \in [Rows -> [Sections -> SectionRow]]
BY DEF TypeOK

\* What a version's sections show is a page.
LEMMA RenderedType ==
  ASSUME TypeOK, NEW v \in Rows
  PROVE  Rendered(v) \in Page
BY DEF TypeOK, Rendered, Page, EffectiveText, SectionRow

\* The section row an edit writes, and the one an acknowledgement writes.
Edited(sec, u, text, json) ==
  [sec EXCEPT !.edited = text, !.edited_status = Validate(text, json), !.edited_by = u,
              !.acknowledged_by = Nobody, !.note = NoText]

Acknowledged(sec, u) == [sec EXCEPT !.acknowledged_by = u, !.note = EffectiveText(sec)]

LEMMA EditedSection ==
  ASSUME NEW sec \in SectionRow, NEW u \in Analysts, NEW text \in Texts, NEW json
  PROVE  /\ Edited(sec, u, text, json) \in SectionRow
         /\ Edited(sec, u, text, json).generated = sec.generated
         /\ Edited(sec, u, text, json).generated_status = sec.generated_status
         /\ Edited(sec, u, text, json).edited = text
         /\ Edited(sec, u, text, json).edited_status = Validate(text, json)
         /\ Edited(sec, u, text, json).acknowledged_by = Nobody
BY DEF Edited, SectionRow, Validate

LEMMA AcknowledgedSection ==
  ASSUME NEW sec \in SectionRow, NEW u \in Analysts
  PROVE  /\ Acknowledged(sec, u) \in SectionRow
         /\ Acknowledged(sec, u).generated = sec.generated
         /\ Acknowledged(sec, u).generated_status = sec.generated_status
         /\ Acknowledged(sec, u).edited = sec.edited
         /\ Acknowledged(sec, u).edited_status = sec.edited_status
         /\ Acknowledged(sec, u).acknowledged_by = u
         /\ Acknowledged(sec, u).note = EffectiveText(sec)
<1>1. EffectiveText(sec) \in Texts
  BY DEF EffectiveText, SectionRow
<1> QED BY <1>1 DEF Acknowledged, SectionRow

\* The tables' section rows are typed, and the two actions write those rows.
LEMMA SectionSteps ==
  ASSUME TypeOK, NEW v \in Rows, NEW s \in Sections, NEW u \in Analysts
  PROVE  /\ section[v][s] \in SectionRow
         /\ \A text \in Texts : EditSection(u, v, s, text) =>
              section' = [section EXCEPT ![v][s] = Edited(section[v][s], u, text, row[v].json)]
         /\ AcknowledgeFailure(u, v, s) =>
              section' = [section EXCEPT ![v][s] = Acknowledged(section[v][s], u)]
BY DEF TypeOK, EditSection, AcknowledgeFailure, Edited, Acknowledged

LEMMA TypeInit == Init => TypeOK
BY DEF Init, TypeOK, Rows

LEMMA TypeStep == TypeOK /\ [Next]_vars => TypeOK'
<1> SUFFICES ASSUME TypeOK, [Next]_vars PROVE TypeOK'
  OBVIOUS
<1>1. ASSUME NEW u \in Analysts, NEW v \in VersionId, NEW prev \in Rows \cup {NoVersion},
             NEW json \in Snapshots, NEW force \in BOOLEAN, NEW drafts \in Page,
             GenerateReport(u, v, prev, json, force, drafts)
      PROVE  TypeOK'
  <2> DEFINE old == Superseding(prev)
             new == NewVersion(u, prev, json, force, drafts)
  <2>1. Rows' = Rows \cup {v} /\ row' \in [Rows' -> VersionRow]
    <3>1. new \in VersionRow /\ old \in [DOMAIN old -> VersionRow] /\ DOMAIN old = Rows
      BY NewRowTypes
    <3>2. row' = Insert(old, v, new)
      BY <1>1 DEF GenerateReport
    <3> HIDE DEF old, new
    <3>3. DOMAIN row' = Rows \cup {v}
      BY <3>1, <3>2, InsertFacts
    <3>4. row' \in [DOMAIN row' -> VersionRow]
      BY <3>1, <3>2, InsertType
    <3> QED BY <3>3, <3>4 DEF Rows
  <2>2. section' \in [Rows' -> [Sections -> SectionRow]]
    <3>1. DOMAIN section = Rows /\ section \in [DOMAIN section -> [Sections -> SectionRow]]
      BY DEF TypeOK
    <3> DEFINE page == [s \in Sections |-> NewSection(drafts[s], json)]
    <3>2. page \in [Sections -> SectionRow]
      BY NewRowTypes
    <3>3. section' = Insert(section, v, page)
      BY <1>1 DEF GenerateReport
    <3> HIDE DEF page
    <3>4. DOMAIN section' = Rows'
      BY <2>1, <3>1, <3>3, InsertFacts
    <3>5. section' \in [DOMAIN section' -> [Sections -> SectionRow]]
      BY <3>1, <3>2, <3>3, InsertType
    <3> QED BY <3>4, <3>5
  <2> QED BY <1>1, <2>1, <2>2 DEF GenerateReport, TypeOK
<1>2. ASSUME NEW u \in Analysts, GenerateAborted(u) PROVE TypeOK'
  BY <1>2 DEF GenerateAborted, TypeOK, Rows
<1>3. ASSUME NEW u \in Analysts, NEW v \in Rows, NEW s \in Sections, NEW text \in Texts,
             EditSection(u, v, s, text)
      PROVE  TypeOK'
  <2>1. UNCHANGED <<row, file, current>>
    BY <1>3 DEF EditSection
  <2> QED BY <1>3, <2>1, EditedSection, SectionSteps, SectionType DEF TypeOK, Rows
<1>4. ASSUME NEW u \in Analysts, NEW v \in Rows, NEW s \in Sections, AcknowledgeFailure(u, v, s)
      PROVE  TypeOK'
  <2>1. UNCHANGED <<row, file, current>>
    BY <1>4 DEF AcknowledgeFailure
  <2> QED BY <1>4, <2>1, AcknowledgedSection, SectionSteps, SectionType DEF TypeOK, Rows
<1>5. ASSUME NEW u \in Analysts, NEW v \in Rows, SubmitForReview(u, v) PROVE TypeOK'
  BY <1>5, StatusType DEF SubmitForReview, TypeOK, Statuses
<1>6. ASSUME NEW u \in Reviewers, NEW v \in Rows, Approve(u, v) \/ ApproveAborted(u, v)
      PROVE  TypeOK'
  <2>1. file' = Insert(file, v, Rendered(v)) /\ section' = section
    BY <1>6 DEF Approve, ApproveAborted
  <2>2. Rows' = Rows /\ row' \in [Rows -> VersionRow]
    <3>1. CASE Approve(u, v)
      BY <3>1, PublishedType DEF Approve
    <3>2. CASE ApproveAborted(u, v)
      BY <3>2 DEF ApproveAborted, TypeOK, Rows
    <3> QED BY <1>6, <3>1, <3>2
  <2>3. DOMAIN file' \subseteq Rows /\ file' \in [DOMAIN file' -> Page]
    <3> DEFINE page == Rendered(v)
    <3>1. page \in Page /\ file' = Insert(file, v, page)
      BY <2>1, RenderedType
    <3> HIDE DEF page
    <3>2. DOMAIN file' = DOMAIN file \cup {v}
      BY <3>1, InsertFacts
    <3>3. file \in [DOMAIN file -> Page] /\ DOMAIN file \subseteq Rows
      BY DEF TypeOK
    <3>4. file' \in [DOMAIN file' -> Page]
      BY <3>1, <3>3, InsertType
    <3> QED BY <3>2, <3>3, <3>4
  <2>4. current' \in {v, current}
    BY <1>6 DEF Approve, ApproveAborted
  <2> QED BY <2>1, <2>2, <2>3, <2>4 DEF TypeOK
<1>7. ASSUME NEW u \in Reviewers, NEW v \in Rows, Reject(u, v) PROVE TypeOK'
  BY <1>7, StatusType DEF Reject, TypeOK, Statuses
<1>8. CASE UNCHANGED vars
  BY <1>8 DEF vars, TypeOK, Rows
<1> QED
  BY <1>1, <1>2, <1>3, <1>4, <1>5, <1>6, <1>7, <1>8
  DEF Next, Generation, Editing, Reviewing

\* In every reachable state of the report component, for every instance, the tables, the
\* stored PDFs and the pointer have their types and rows and sections correspond.
THEOREM TypeCorrect == Spec => []TypeOK
BY TypeInit, TypeStep, PTL DEF Spec

(***************************************************************************)
(* Versions: one is open at most, and they form one chain.                 *)
(***************************************************************************)
Versions == TypeOK /\ OneOpenVersion /\ VersionChain

\* A step that neither adds a version, nor renumbers one, nor reopens one.
LEMMA ChainKept ==
  ASSUME OneOpenVersion, VersionChain, Rows' = Rows,
         \A w \in Rows :
           /\ row'[w].number = row[w].number
           /\ row'[w].supersedes = row[w].supersedes
           /\ row'[w].status \in NonTerminal => row[w].status \in NonTerminal,
         Rows # {} => IsLatest(current')
  PROVE  OneOpenVersion' /\ VersionChain'
<1>1. ASSUME NEW w PROVE IsLatest(w) <=> IsLatest(w)'
  BY DEF IsLatest
<1>2. OneOpenVersion'
  <2>1. \A w \in Rows : row'[w].status \in NonTerminal => IsLatest(w)'
    BY <1>1 DEF OneOpenVersion
  <2>2. IsLatest(current') <=> IsLatest(current)'
    BY DEF IsLatest
  <2> QED BY <2>1, <2>2 DEF OneOpenVersion
<1>3. VersionChain'
  BY DEF VersionChain
<1> QED BY <1>2, <1>3

\* The new version is numbered past every other, follows the last one and is alone open.
LEMMA ChainGrows ==
  ASSUME Versions, NEW u \in Analysts, NEW v \in VersionId, NEW prev \in Rows \cup {NoVersion},
         NEW json \in Snapshots, NEW force \in BOOLEAN, NEW drafts \in Page,
         GenerateReport(u, v, prev, json, force, drafts)
  PROVE  OneOpenVersion' /\ VersionChain'
<1> DEFINE old == Superseding(prev)
           new == NewVersion(u, prev, json, force, drafts)
<1>1. /\ \A w \in Rows : row[w] \in VersionRow /\ row[w].number \in Nat \ {0}
      /\ v \notin Rows /\ NoVersion \notin Rows /\ v # NoVersion
  BY TablesAssumption DEF Versions, TypeOK, VersionRow, GenerateReport
<1>2. IF Rows = {} THEN prev = NoVersion
      ELSE prev \in Rows /\ \A w \in Rows : row[w].number <= row[prev].number
  BY DEF GenerateReport, IsLatest
<1>3. new.number = NextNumber(prev) /\ new.supersedes = prev
  BY DEF NewVersion
<1>4. /\ NextNumber(prev) \in Nat \ {0}
      /\ \A w \in Rows : row[w].number < NextNumber(prev)
      /\ IF prev = NoVersion THEN NextNumber(prev) = 1
         ELSE prev \in Rows /\ NextNumber(prev) = row[prev].number + 1
  BY <1>1, <1>2 DEF NextNumber
<1>5. /\ DOMAIN old = Rows
      /\ \A w \in Rows : old[w].number = row[w].number /\ old[w].supersedes = row[w].supersedes
  BY <1>1 DEF Superseding, VersionRow, Versions, TypeOK
<1>6. \A w \in Rows : old[w].status \notin NonTerminal
  <2> SUFFICES ASSUME NEW w \in Rows, old[w].status \in NonTerminal PROVE FALSE
    OBVIOUS
  <2>1. prev \in Rows
    BY <1>2
  <2>2. row[w].status \in NonTerminal /\ w # prev
    BY <1>1, <2>1 DEF Superseding, NonTerminal, VersionRow, Versions, TypeOK
  <2>3. \A x \in Rows : row[x].number <= row[w].number
    BY <2>2 DEF Versions, OneOpenVersion, IsLatest
  <2>4. row[w].number = row[prev].number
    BY <1>1, <1>2, <2>1, <2>3
  <2> QED BY <2>1, <2>2, <2>4 DEF Versions, VersionChain
<1>7. row' = Insert(old, v, new) /\ current' = v
  BY DEF GenerateReport
<1> HIDE DEF old, new
<1>8. /\ Rows' = Rows \cup {v} /\ row'[v] = new
      /\ \A w \in Rows : row'[w] = old[w]
  <2>1. DOMAIN row' = DOMAIN old \cup {v} /\ row'[v] = new
    BY <1>7 DEF Insert
  <2>2. \A w \in DOMAIN old : w # v => row'[w] = old[w]
    BY <1>7 DEF Insert
  <2> QED BY <1>1, <1>5, <2>1, <2>2 DEF Rows
<1>9. IsLatest(v)'
  BY <1>1, <1>3, <1>4, <1>5, <1>8 DEF IsLatest
<1>10. \A w \in Rows' : row'[w].status \in NonTerminal => w = v
  BY <1>6, <1>8
<1>11. OneOpenVersion'
  BY <1>7, <1>9, <1>10 DEF OneOpenVersion
<1>12. VersionChain'
  <2>1. \A w \in Rows : row'[w].number = row[w].number /\ row'[w].supersedes = row[w].supersedes
    BY <1>5, <1>8
  <2>2. row'[v].number = NextNumber(prev) /\ row'[v].supersedes = prev
    BY <1>3, <1>8
  <2>3. \A w, x \in Rows' : row'[w].number = row'[x].number => w = x
    BY <1>1, <1>4, <1>8, <2>1, <2>2 DEF Versions, VersionChain
  <2>4. \A w \in Rows' : IF row'[w].number = 1 THEN row'[w].supersedes = NoVersion
                        ELSE /\ row'[w].supersedes \in Rows'
                             /\ row'[w].number = row'[row'[w].supersedes].number + 1
    <3>1. ASSUME NEW w \in Rows
          PROVE  IF row'[w].number = 1 THEN row'[w].supersedes = NoVersion
                 ELSE /\ row'[w].supersedes \in Rows'
                      /\ row'[w].number = row'[row'[w].supersedes].number + 1
      BY <1>8, <2>1 DEF Versions, VersionChain
    <3>2. IF row'[v].number = 1 THEN row'[v].supersedes = NoVersion
          ELSE /\ row'[v].supersedes \in Rows'
               /\ row'[v].number = row'[row'[v].supersedes].number + 1
      BY <1>1, <1>4, <1>8, <2>1, <2>2
    <3> QED BY <1>8, <3>1, <3>2
  <2> QED BY <2>3, <2>4 DEF VersionChain
<1> QED BY <1>11, <1>12

LEMMA VersionsInit == Init => Versions
BY DEF Init, Versions, TypeOK, OneOpenVersion, VersionChain, Rows

LEMMA VersionsStep == Versions /\ [Next]_vars => Versions'
<1> SUFFICES ASSUME Versions, [Next]_vars PROVE Versions'
  OBVIOUS
<1>1. TypeOK /\ TypeOK'
  BY TypeStep DEF Versions
<1>2. \A w \in Rows : row[w] \in VersionRow
  BY <1>1 DEF TypeOK
<1>3. ASSUME NEW u \in Analysts, NEW v \in VersionId, NEW prev \in Rows \cup {NoVersion},
             NEW json \in Snapshots, NEW force \in BOOLEAN, NEW drafts \in Page,
             GenerateReport(u, v, prev, json, force, drafts)
      PROVE  Versions'
  BY <1>1, <1>3, ChainGrows DEF Versions
<1>4. ASSUME NEW u \in Analysts, GenerateAborted(u) PROVE Versions'
  <2>1. UNCHANGED row /\ Rows' = Rows
    BY <1>4 DEF GenerateAborted, Rows
  <2>2. Rows # {} => current \in VersionId
    BY <1>1 DEF Versions, OneOpenVersion, IsLatest, TypeOK
  <2>3. Rows = {}
    BY <1>4, <2>2, TablesAssumption DEF GenerateAborted
  <2> QED BY <1>1, <2>1, <2>3, ChainKept DEF Versions
<1>5. ASSUME UNCHANGED <<row, current>> PROVE Versions'
  <2>1. Rows' = Rows
    BY <1>5 DEF Rows
  <2> QED BY <1>1, <1>5, <2>1, ChainKept DEF Versions, OneOpenVersion
<1>6. ASSUME NEW v \in Rows, NEW st \in {"draft", "in_review"}, row[v].status \in NonTerminal,
             row' = [row EXCEPT ![v].status = st], UNCHANGED current
      PROVE  Versions'
  <2>1. Rows' = Rows
    BY <1>6 DEF Rows
  <2>2. \A w \in Rows : /\ row'[w].number = row[w].number
                        /\ row'[w].supersedes = row[w].supersedes
                        /\ row'[w].status \in NonTerminal => row[w].status \in NonTerminal
    BY <1>2, <1>6 DEF VersionRow, Rows
  <2> QED BY <1>1, <1>6, <2>1, <2>2, ChainKept DEF Versions, OneOpenVersion
<1>7. ASSUME NEW u \in Reviewers, NEW v \in Rows, Approve(u, v) PROVE Versions'
  <2>1. Rows' = Rows
    BY <1>7 DEF Approve, Rows
  <2>2. \A w \in Rows : /\ row'[w].number = row[w].number
                        /\ row'[w].supersedes = row[w].supersedes
                        /\ row'[w].status \in NonTerminal => row[w].status \in NonTerminal
    BY <1>2, <1>7 DEF Approve, VersionRow, Rows, NonTerminal
  <2>3. current' = v /\ IsLatest(v)
    BY <1>7 DEF Approve, Versions, OneOpenVersion, NonTerminal
  <2> QED BY <1>1, <2>1, <2>2, <2>3, ChainKept DEF Versions
<1>8. ASSUME NEW u \in Analysts, NEW v \in Rows, SubmitForReview(u, v) PROVE Versions'
  BY <1>6, <1>8 DEF SubmitForReview, NonTerminal
<1>9. ASSUME NEW u \in Reviewers, NEW v \in Rows, Reject(u, v) PROVE Versions'
  BY <1>6, <1>9 DEF Reject, NonTerminal
<1> QED
  BY <1>3, <1>4, <1>5, <1>7, <1>8, <1>9
  DEF Next, Generation, Editing, Reviewing, EditSection, AcknowledgeFailure, ApproveAborted, vars

\* While requests do not overlap, a report has one open version at most, the one numbered
\* last, and reports.current_version_id points at the version numbered last.
THEOREM OneVersionOpen == Spec => []OneOpenVersion
<1>1. Versions => OneOpenVersion
  BY DEF Versions
<1> QED BY <1>1, VersionsInit, VersionsStep, PTL DEF Spec

\* The versions of a report are numbered without gap or repetition along
\* supersedes_version_id.
THEOREM VersionsChained == Spec => []VersionChain
<1>1. Versions => VersionChain
  BY DEF Versions
<1> QED BY <1>1, VersionsInit, VersionsStep, PTL DEF Spec

(***************************************************************************)
(* What a step may do to a version that exists.                            *)
(***************************************************************************)

\* The columns generation wrote, of a version and of its sections, never change.
LEMMA OriginalStep ==
  ASSUME TypeOK, [Next]_vars
  PROVE  \A v \in Rows :
           /\ row'[v].json = row[v].json
           /\ \A s \in Sections :
                /\ section'[v][s].generated = section[v][s].generated
                /\ section'[v][s].generated_status = section[v][s].generated_status
<1> SUFFICES ASSUME NEW w \in Rows
             PROVE  /\ row'[w].json = row[w].json
                    /\ \A s \in Sections :
                         /\ section'[w][s].generated = section[w][s].generated
                         /\ section'[w][s].generated_status = section[w][s].generated_status
  OBVIOUS
<1>1. /\ row \in [Rows -> VersionRow] /\ row[w] \in VersionRow
      /\ section \in [Rows -> [Sections -> SectionRow]]
      /\ section[w] \in [Sections -> SectionRow]
  BY DEF TypeOK
<1>2. ASSUME NEW u \in Analysts, NEW v \in VersionId, NEW prev \in Rows \cup {NoVersion},
             NEW json \in Snapshots, NEW force \in BOOLEAN, NEW drafts \in Page,
             GenerateReport(u, v, prev, json, force, drafts)
      PROVE  row'[w] = Superseding(prev)[w] /\ section'[w] = section[w]
  <2>1. v # w /\ w \in DOMAIN section /\ w \in DOMAIN Superseding(prev)
    BY <1>1, <1>2, NewRowTypes DEF GenerateReport
  <2> QED BY <1>2, <2>1 DEF GenerateReport, Insert
<1>3. ASSUME NEW prev \in Rows \cup {NoVersion}
      PROVE  Superseding(prev)[w].json = row[w].json
  BY <1>1 DEF Superseding, VersionRow
<1>4. ASSUME NEW v \in Rows, NEW s \in Sections, NEW sec \in SectionRow,
             section' = [section EXCEPT ![v][s] = sec],
             sec.generated = section[v][s].generated,
             sec.generated_status = section[v][s].generated_status
      PROVE  \A x \in Sections :
               /\ section'[w][x].generated = section[w][x].generated
               /\ section'[w][x].generated_status = section[w][x].generated_status
  BY <1>1, <1>4
<1> DEFINE Kept == \A x \in Sections :
                     /\ section'[w][x].generated = section[w][x].generated
                     /\ section'[w][x].generated_status = section[w][x].generated_status
<1>5. ASSUME NEW v \in Rows, NEW s \in Sections, NEW u \in Analysts, NEW text \in Texts,
             EditSection(u, v, s, text)
      PROVE  row' = row /\ Kept
  <2> DEFINE sec == Edited(section[v][s], u, text, row[v].json)
  <2>1. section' = [section EXCEPT ![v][s] = sec]
    BY <1>5, SectionSteps
  <2>2. /\ sec \in SectionRow /\ sec.generated = section[v][s].generated
        /\ sec.generated_status = section[v][s].generated_status
    BY EditedSection, SectionSteps
  <2> HIDE DEF sec
  <2> QED BY <1>4, <1>5, <2>1, <2>2 DEF EditSection
<1>6. ASSUME NEW v \in Rows, NEW s \in Sections, NEW u \in Analysts, AcknowledgeFailure(u, v, s)
       PROVE  row' = row /\ Kept
  <2> DEFINE sec == Acknowledged(section[v][s], u)
  <2>1. section' = [section EXCEPT ![v][s] = sec]
    BY <1>6, SectionSteps
  <2>2. /\ sec \in SectionRow /\ sec.generated = section[v][s].generated
        /\ sec.generated_status = section[v][s].generated_status
    BY AcknowledgedSection, SectionSteps
  <2> HIDE DEF sec
  <2> QED BY <1>4, <1>6, <2>1, <2>2 DEF AcknowledgeFailure
<1>7. ASSUME NEW v \in Rows, NEW u, SubmitForReview(u, v) \/ Reject(u, v)
      PROVE  row'[w].json = row[w].json /\ section' = section
  BY <1>1, <1>7 DEF SubmitForReview, Reject, VersionRow
<1>8. ASSUME NEW v \in Rows, NEW u, Approve(u, v)
      PROVE  row'[w].json = row[w].json /\ section' = section
  BY <1>1, <1>8 DEF Approve, VersionRow
<1>9. ASSUME NEW v \in Rows, NEW u, ApproveAborted(u, v)
      PROVE  row' = row /\ section' = section
  BY <1>9 DEF ApproveAborted
<1>10. ASSUME NEW u \in Analysts, GenerateAborted(u) PROVE UNCHANGED <<row, section>>
  BY <1>10 DEF GenerateAborted
<1>11. CASE Editing
  BY <1>5, <1>6, <1>11 DEF Editing
<1> QED
  BY <1>2, <1>3, <1>7, <1>8, <1>9, <1>10, <1>11 DEF Next, Generation, Reviewing, vars

\* A published version's row, what its sections show and its PDF never change: edits and
\* regenerations, and approvals of other versions, leave them alone.
LEMMA FrozenStep ==
  ASSUME TypeOK, [Next]_vars, NEW w \in Rows, row[w].status = "published",
         w \in DOMAIN file
  PROVE  /\ row'[w] = row[w]
         /\ Rendered(w)' = Rendered(w)
         /\ \A s \in Sections : EffectiveStatus(section'[w][s]) = EffectiveStatus(section[w][s])
         /\ file'[w] = file[w]
<1>1. /\ row \in [Rows -> VersionRow]
      /\ section \in [Rows -> [Sections -> SectionRow]]
      /\ section[w] \in [Sections -> SectionRow]
      /\ DOMAIN file \subseteq Rows
  BY DEF TypeOK
<1> DEFINE Same == /\ \A s \in Sections :
                        /\ EffectiveText(section'[w][s]) = EffectiveText(section[w][s])
                        /\ EffectiveStatus(section'[w][s]) = EffectiveStatus(section[w][s])
<1>2. ASSUME Same PROVE Rendered(w)' = Rendered(w)
  BY <1>2 DEF Rendered
<1>3. ASSUME NEW u \in Analysts, NEW v \in VersionId, NEW prev \in Rows \cup {NoVersion},
             NEW json \in Snapshots, NEW force \in BOOLEAN, NEW drafts \in Page,
             GenerateReport(u, v, prev, json, force, drafts)
      PROVE  row'[w] = row[w] /\ section'[w] = section[w] /\ file' = file
  <2>1. v # w /\ w \in DOMAIN section /\ w \in DOMAIN Superseding(prev)
    BY <1>1, <1>3, NewRowTypes DEF GenerateReport
  <2>2. Superseding(prev)[w] = row[w]
    BY <1>1 DEF Superseding, NonTerminal
  <2> QED BY <1>3, <2>1, <2>2 DEF GenerateReport, Insert
<1>4. ASSUME NEW v \in Rows, NEW s \in Sections, NEW u \in Analysts, NEW text \in Texts,
             EditSection(u, v, s, text)
      PROVE  row'[w] = row[w] /\ section'[w] = section[w] /\ file' = file
  BY <1>1, <1>4 DEF EditSection
<1>5. ASSUME NEW v \in Rows, NEW s \in Sections, NEW u \in Analysts, AcknowledgeFailure(u, v, s)
      PROVE  row' = row /\ Same /\ file' = file
  BY <1>1, <1>5 DEF AcknowledgeFailure, EffectiveText, EffectiveStatus, SectionRow
<1>6. ASSUME NEW v \in Rows, NEW u, SubmitForReview(u, v) \/ Reject(u, v)
      PROVE  row'[w] = row[w] /\ section' = section /\ file' = file
  BY <1>1, <1>6 DEF SubmitForReview, Reject
<1>7. ASSUME NEW v \in Rows, NEW u, Approve(u, v) \/ ApproveAborted(u, v)
      PROVE  row'[w] = row[w] /\ section' = section /\ file'[w] = file[w]
  <2>1. v # w
    BY <1>7 DEF Approve, ApproveAborted
  <2> QED BY <1>1, <1>7, <2>1 DEF Approve, ApproveAborted, Insert
<1> QED
  BY <1>2, <1>3, <1>4, <1>5, <1>6, <1>7
  DEF Next, Generation, GenerateAborted, Editing, Reviewing, vars

(***************************************************************************)
(* Contents: what was reviewed, and what was printed.                      *)
(* ReviewedTextAccounted is not inductive: that a section is not           *)
(* unacknowledged says something of its text only while each stored        *)
(* verdict is its text's, and each acknowledgement was given to the text   *)
(* that is shown (SectionRight).                                           *)
(***************************************************************************)
SectionRight(sec, json) ==
  /\ sec.generated_status = Validate(sec.generated, json)
  /\ sec.edited # NoText => sec.edited_status = Validate(sec.edited, json)
  /\ sec.acknowledged_by # Nobody => sec.note = EffectiveText(sec)

Verdicts == \A v \in Rows : \A s \in Sections : SectionRight(section[v][s], row[v].json)

Cleared ==
  \A v \in Rows : row[v].status \in {"in_review", "published"} =>
    \A s \in Sections : ~Unacknowledged(section[v][s])

Contents == TypeOK /\ Verdicts /\ Cleared /\ PublishedPdfIsCurrent

LEMMA ContentsAccount == Contents => ReviewedTextAccounted
<1> SUFFICES ASSUME Contents, NEW v \in Rows, row[v].status \in {"in_review", "published"},
                    NEW s \in Sections
             PROVE  Accounted(v, s)
  BY DEF ReviewedTextAccounted
<1>1. SectionRight(section[v][s], row[v].json) /\ ~Unacknowledged(section[v][s])
  BY DEF Contents, Verdicts, Cleared
<1> QED
  BY <1>1 DEF SectionRight, Unacknowledged, EffectiveStatus, EffectiveText, Validate, Accounted

\* Each section a step writes is right, and one an analyst has just dealt with is cleared.
LEMMA NewSectionRight ==
  ASSUME NEW text \in Texts, NEW json
  PROVE  SectionRight(NewSection(text, json), json)
BY DEF SectionRight, NewSection

LEMMA EditedRight ==
  ASSUME NEW sec \in SectionRow, NEW json, SectionRight(sec, json), NEW u \in Analysts,
         NEW text \in Texts
  PROVE  SectionRight(Edited(sec, u, text, json), json)
BY EditedSection DEF SectionRight

LEMMA AcknowledgedRight ==
  ASSUME NEW sec \in SectionRow, NEW json, SectionRight(sec, json), NEW u \in Analysts
  PROVE  /\ SectionRight(Acknowledged(sec, u), json)
         /\ ~Unacknowledged(Acknowledged(sec, u))
         /\ EffectiveText(Acknowledged(sec, u)) = EffectiveText(sec)
<1>1. u # Nobody
  BY TablesAssumption
<1> QED
  BY <1>1, AcknowledgedSection DEF SectionRight, Unacknowledged, EffectiveText

LEMMA ContentsInit == Init => Contents
BY DEF Init, Contents, TypeOK, Verdicts, Cleared, PublishedPdfIsCurrent, Rows

LEMMA ContentsStep == Contents /\ [Next]_vars => Contents'
<1> SUFFICES ASSUME Contents, [Next]_vars PROVE Contents'
  OBVIOUS
<1>1. TypeOK /\ TypeOK'
  BY TypeStep DEF Contents
<1>2. /\ row \in [Rows -> VersionRow]
      /\ section \in [Rows -> [Sections -> SectionRow]]
      /\ DOMAIN file \subseteq Rows
  BY <1>1 DEF TypeOK
<1>3. \A w \in Rows : row'[w].json = row[w].json
  BY <1>1, OriginalStep
<1>4. \A w \in Rows : row[w].status = "published" =>
        /\ row'[w] = row[w] /\ w \in DOMAIN file
        /\ file'[w] = file[w] /\ Rendered(w)' = Rendered(w)
  BY <1>1, FrozenStep DEF Contents, PublishedPdfIsCurrent
<1>5. ASSUME NEW u \in Analysts, NEW v \in VersionId, NEW prev \in Rows \cup {NoVersion},
             NEW json \in Snapshots, NEW force \in BOOLEAN, NEW drafts \in Page,
             GenerateReport(u, v, prev, json, force, drafts)
      PROVE  Contents'
  <2> DEFINE new == NewVersion(u, prev, json, force, drafts)
             page == [s \in Sections |-> NewSection(drafts[s], json)]
  <2>1. v \notin Rows /\ DOMAIN section = Rows /\ DOMAIN Superseding(prev) = Rows
    BY <1>1, <1>2, <1>5, NewRowTypes DEF GenerateReport
  <2>2. Rows' = Rows \cup {v} /\ row'[v] = new /\ section'[v] = page /\ file' = file
    BY <1>5, <2>1 DEF GenerateReport, Insert, Rows
  <2>3. \A w \in Rows : section'[w] = section[w] /\ row'[w] = Superseding(prev)[w]
    BY <1>5, <2>1 DEF GenerateReport, Insert
  <2>4. \A w \in Rows : row'[w].status \in {row[w].status, "superseded"}
    BY <1>2, <2>3 DEF Superseding, VersionRow
  <2>5. new.json = json /\ new.status \in {"draft", "failed"}
    BY DEF NewVersion
  <2>6. \A s \in Sections : page[s] = NewSection(drafts[s], json) /\ drafts[s] \in Texts
    BY DEF Page
  <2> HIDE DEF new, page
  <2>7. Verdicts'
    BY <1>3, <2>2, <2>3, <2>5, <2>6, NewSectionRight DEF Contents, Verdicts
  <2>8. Cleared'
    BY <2>2, <2>3, <2>4, <2>5 DEF Contents, Cleared, Unacknowledged, EffectiveStatus
  <2>9. PublishedPdfIsCurrent'
    BY <1>4, <2>2, <2>4, <2>5 DEF Contents, PublishedPdfIsCurrent
  <2> QED BY <1>1, <2>7, <2>8, <2>9 DEF Contents
<1>6. ASSUME NEW v \in Rows, NEW s \in Sections, NEW sec \in SectionRow,
             section' = [section EXCEPT ![v][s] = sec], UNCHANGED <<row, file>>,
             SectionRight(sec, row[v].json),
             row[v].status = "draft" \/ ~Unacknowledged(sec)
      PROVE  Contents'
  <2>1. Rows' = Rows
    BY <1>6 DEF Rows
  <2>2. \A w \in Rows : \A x \in Sections :
          section'[w][x] = IF w = v /\ x = s THEN sec ELSE section[w][x]
    BY <1>2, <1>6
  <2>3. Verdicts'
    BY <1>6, <2>1, <2>2 DEF Contents, Verdicts
  <2>4. Cleared'
    BY <1>6, <2>1, <2>2 DEF Contents, Cleared
  <2>5. PublishedPdfIsCurrent'
    BY <1>4, <1>6, <2>1 DEF Contents, PublishedPdfIsCurrent
  <2> QED BY <1>1, <2>3, <2>4, <2>5 DEF Contents
<1>7. ASSUME NEW v \in Rows, NEW s \in Sections, NEW u \in Analysts, NEW text \in Texts,
             EditSection(u, v, s, text)
      PROVE  Contents'
  <2> DEFINE sec == Edited(section[v][s], u, text, row[v].json)
  <2>1. section' = [section EXCEPT ![v][s] = sec]
    BY <1>1, <1>7, SectionSteps
  <2>2. UNCHANGED <<row, file>> /\ row[v].status = "draft"
    BY <1>7 DEF EditSection
  <2>3. sec \in SectionRow /\ SectionRight(sec, row[v].json)
    BY <1>1, SectionSteps, EditedSection, EditedRight DEF Contents, Verdicts
  <2> HIDE DEF sec
  <2> QED BY <1>6, <2>1, <2>2, <2>3
<1>8. ASSUME NEW v \in Rows, NEW s \in Sections, NEW u \in Analysts, AcknowledgeFailure(u, v, s)
      PROVE  Contents'
  <2> DEFINE sec == Acknowledged(section[v][s], u)
  <2>1. section' = [section EXCEPT ![v][s] = sec]
    BY <1>1, <1>8, SectionSteps
  <2>2. UNCHANGED <<row, file>>
    BY <1>8 DEF AcknowledgeFailure
  <2>3. sec \in SectionRow /\ SectionRight(sec, row[v].json) /\ ~Unacknowledged(sec)
    BY <1>1, SectionSteps, AcknowledgedSection, AcknowledgedRight DEF Contents, Verdicts
  <2> HIDE DEF sec
  <2> QED BY <1>6, <2>1, <2>2, <2>3
<1>9. ASSUME NEW v \in Rows, NEW st \in Statuses \ {"published"}, UNCHANGED <<section, file>>,
             row' = [row EXCEPT ![v].status = st],
             st = "in_review" => \A s \in Sections : ~Unacknowledged(section[v][s])
      PROVE  Contents'
  <2>1. Rows' = Rows
    BY <1>9 DEF Rows
  <2>2. \A w \in Rows : row'[w].status = IF w = v THEN st ELSE row[w].status
    BY <1>2, <1>9 DEF VersionRow
  <2>3. Verdicts'
    BY <1>3, <1>9, <2>1 DEF Contents, Verdicts
  <2>4. Cleared'
    BY <1>9, <2>1, <2>2 DEF Contents, Cleared
  <2>5. PublishedPdfIsCurrent'
    BY <1>4, <1>9, <2>1, <2>2 DEF Contents, PublishedPdfIsCurrent
  <2> QED BY <1>1, <2>3, <2>4, <2>5 DEF Contents
<1>10. ASSUME NEW u \in Analysts, NEW v \in Rows, SubmitForReview(u, v) PROVE Contents'
  <2>1. /\ UNCHANGED <<section, file>> /\ row' = [row EXCEPT ![v].status = "in_review"]
        /\ \A s \in Sections : ~Unacknowledged(section[v][s])
    BY <1>10 DEF SubmitForReview
  <2>2. "in_review" \in Statuses \ {"published"}
    BY DEF Statuses
  <2> QED BY <1>9, <2>1, <2>2
<1>11. ASSUME NEW u \in Reviewers, NEW v \in Rows, Reject(u, v) PROVE Contents'
  <2>1. UNCHANGED <<section, file>> /\ row' = [row EXCEPT ![v].status = "draft"]
    BY <1>11 DEF Reject
  <2>2. "draft" \in Statuses \ {"published"}
    BY DEF Statuses
  <2> QED BY <1>9, <2>1, <2>2
<1>12. ASSUME NEW u \in Reviewers, NEW v \in Rows, Approve(u, v) \/ ApproveAborted(u, v)
       PROVE  Contents'
  <2>1. /\ section' = section /\ row[v].status = "in_review"
        /\ file' = Insert(file, v, Rendered(v))
    BY <1>12 DEF Approve, ApproveAborted
  <2>2. Rows' = Rows
    BY <1>12 DEF Approve, ApproveAborted, Rows
  <2>3. \A w \in Rows : w # v => row'[w] = row[w]
    BY <1>2, <1>12 DEF Approve, ApproveAborted
  <2>4. v \in DOMAIN file' /\ file'[v] = Rendered(v) /\ DOMAIN file \subseteq DOMAIN file'
    BY <2>1 DEF Insert
  <2>5. Rendered(v)' = Rendered(v)
    BY <2>1 DEF Rendered
  <2>6. Verdicts'
    BY <1>3, <2>1, <2>2 DEF Contents, Verdicts
  <2>7. Cleared'
    BY <2>1, <2>2, <2>3 DEF Contents, Cleared
  <2>8. PublishedPdfIsCurrent'
    BY <1>4, <2>2, <2>3, <2>4, <2>5 DEF Contents, PublishedPdfIsCurrent
  <2> QED BY <1>1, <2>6, <2>7, <2>8 DEF Contents
<1>13. ASSUME UNCHANGED <<row, section, file>> PROVE Contents'
  <2>1. Rows' = Rows
    BY <1>13 DEF Rows
  <2>2. Verdicts' /\ Cleared'
    BY <1>13, <2>1 DEF Contents, Verdicts, Cleared
  <2>3. PublishedPdfIsCurrent'
    BY <1>4, <1>13, <2>1 DEF Contents, PublishedPdfIsCurrent
  <2> QED BY <1>1, <2>2, <2>3 DEF Contents
<1> QED
  BY <1>5, <1>7, <1>8, <1>10, <1>11, <1>12, <1>13
  DEF Next, Generation, GenerateAborted, Editing, Reviewing, vars

\* Along any path of edits, acknowledgements, rejections and resubmissions, a text under
\* review or published traces to its version's data or was acknowledged for what it says.
THEOREM ReviewedTextsAccounted == Spec => []ReviewedTextAccounted
BY ContentsInit, ContentsStep, ContentsAccount, PTL DEF Spec

\* The PDF of a published version shows exactly its sections' effective texts, also after
\* approvals whose commit failed.
THEOREM PdfsCurrent == Spec => []PublishedPdfIsCurrent
<1>1. Contents => PublishedPdfIsCurrent
  BY DEF Contents
<1> QED BY <1>1, ContentsInit, ContentsStep, PTL DEF Spec

\* Once published, a version's row, texts, verdicts and PDF never change.
THEOREM PublishedStaysFrozen == Spec => PublishedFrozen
<1>1. Contents /\ [Next]_vars =>
        [\A v \in Rows : row[v].status = "published" =>
           /\ row'[v] = row[v]
           /\ Rendered(v)' = Rendered(v)
           /\ \A s \in Sections : EffectiveStatus(section'[v][s]) = EffectiveStatus(section[v][s])
           /\ file'[v] = file[v]]_vars
  BY FrozenStep DEF Contents, PublishedPdfIsCurrent
<1> QED BY <1>1, ContentsInit, ContentsStep, PTL DEF Spec, PublishedFrozen

\* What generation wrote of a version stays inspectable for ever.
THEOREM OriginalsStay == Spec => OriginalKept
<1>1. TypeOK /\ [Next]_vars =>
        [\A v \in Rows :
           /\ row'[v].json = row[v].json
           /\ \A s \in Sections :
                /\ section'[v][s].generated = section[v][s].generated
                /\ section'[v][s].generated_status = section[v][s].generated_status]_vars
  BY OriginalStep
<1> QED BY <1>1, TypeCorrect, PTL DEF Spec, OriginalKept
=============================================================================
