---------------------------- MODULE ReportTxProofs ----------------------------
(***************************************************************************)
(* Theorems about ReportTx, for any number of overlapping requests,        *)
(* versions, sections, texts, snapshots and users.                         *)
(***************************************************************************)
EXTENDS ReportTx, ReportLifecycleProofs

(***************************************************************************)
(* What a request holds at each of its steps.                              *)
(***************************************************************************)
Generating ==
  [op : {"generate", "generate_ready"}, alone : BOOLEAN, user : Analysts,
   overridden : BOOLEAN, creates : BOOLEAN]

Writing ==
  [op : {"generate_flush", "generate_llm"}, alone : BOOLEAN, user : Analysts,
   json : Snapshots, overridden : BOOLEAN, prev : VersionId \cup {NoVersion},
   number : Nat \ {0}, updates : BOOLEAN]

OnSection ==
  [op : {"edit", "acknowledge"}, alone : BOOLEAN, v : VersionId, s : Sections,
   seen : SectionRow, new : SectionRow]

OnStatus == [op : {"submit", "reject"}, alone : BOOLEAN, v : VersionId]

Approving ==
  [op : {"approve", "approve_saved"}, alone : BOOLEAN, user : Reviewers, v : VersionId,
   page : Page, seen : VersionId \cup {NoVersion, NoReport}]

Held == Generating \cup Writing \cup OnSection \cup OnStatus \cup Approving

WritingOps == {"generate_flush", "generate_llm"}
VersionOps == {"edit", "acknowledge", "submit", "reject", "approve", "approve_saved"}

\* What a request relies on among the committed rows: the version it is about exists, the
\* number it took still is the one behind the version it supersedes, the version it has
\* locked is not published, and the PDF it has saved is there.
Sound(r) ==
  LET q == req[r] IN
    /\ q = Idle \/ q \in Held
    /\ q.op \in WritingOps =>
         /\ q.prev \in Rows \cup {NoVersion}
         /\ q.number = NextNumber(q.prev)
         /\ q.updates => q.prev \in Rows
    /\ q.op = "generate_llm" /\ q.updates => row[q.prev].status # "published"
    /\ q.op \in VersionOps => q.v \in Rows
    /\ q.op = "approve_saved" => q.v \in DOMAIN file

TxBasis ==
  /\ TypeOK
  /\ world \in Snapshots
  /\ \A r \in Requests : Sound(r)
  /\ req = [r \in Requests |-> req[r]]

LEMMA IdleNotHeld ==
  Idle \notin Held /\ Idle.op = "idle" /\ \A q \in Held : q.op # "idle"
BY DEF Idle, Held, Generating, Writing, OnSection, OnStatus, Approving

\* Losing its history flag changes nothing else of what a request holds.
LEMMA DisturbedFacts ==
  ASSUME NEW q \in Held, NEW b \in BOOLEAN
  PROVE  LET d == [q EXCEPT !.alone = b] IN
           /\ d \in Held /\ d.op = q.op
           /\ q.op \in WritingOps =>
                d.prev = q.prev /\ d.number = q.number /\ d.updates = q.updates
           /\ q.op \in VersionOps => d.v = q.v
<1>1. CASE q \in Generating
  BY <1>1 DEF Held, Generating, WritingOps, VersionOps
<1>2. CASE q \in Writing
  BY <1>2 DEF Held, Writing, WritingOps, VersionOps
<1>3. CASE q \in OnSection
  BY <1>3 DEF Held, OnSection, WritingOps, VersionOps
<1>4. CASE q \in OnStatus
  BY <1>4 DEF Held, OnStatus, WritingOps, VersionOps
<1>5. CASE q \in Approving
  BY <1>5 DEF Held, Approving, WritingOps, VersionOps
<1> QED BY <1>1, <1>2, <1>3, <1>4, <1>5 DEF Held

\* A flush leaves a section row.
LEMMA MergeType ==
  ASSUME NEW stored \in SectionRow, NEW loaded \in SectionRow, NEW changed \in SectionRow
  PROVE  Merge(stored, loaded, changed) \in SectionRow
BY DEF Merge, SectionRow

\* Rows stay, with their numbers; a row a generation has locked is not published; PDFs stay.
Kept ==
  /\ Rows \subseteq Rows'
  /\ \A v \in Rows : row'[v].number = row[v].number
  /\ \A v \in Rows : Locked(v) /\ row[v].status # "published" => row'[v].status # "published"
  /\ DOMAIN file \subseteq DOMAIN file'

\* A request that does not step keeps what it relies on.
LEMMA SoundStays ==
  ASSUME TypeOK, Kept, NEW r \in Requests, Sound(r),
         req'[r] = req[r] \/ (Busy(r) /\ req'[r] = [req[r] EXCEPT !.alone = FALSE])
  PROVE  Sound(r)'
<1>1. /\ req'[r] = Idle \/ req'[r] \in Held
      /\ req'[r].op = req[r].op
      /\ req[r].op \in WritingOps => /\ req'[r].prev = req[r].prev
                                     /\ req'[r].number = req[r].number
                                     /\ req'[r].updates = req[r].updates
      /\ req[r].op \in VersionOps => req'[r].v = req[r].v
  <2>1. CASE req'[r] = req[r]
    BY <2>1 DEF Sound
  <2>2. CASE Busy(r) /\ req'[r] = [req[r] EXCEPT !.alone = FALSE]
    <3>1. req[r] \in Held
      BY <2>2, IdleNotHeld DEF Sound, Busy
    <3> QED BY <2>2, <3>1, DisturbedFacts
  <2> QED BY <2>1, <2>2
<1>2. NoVersion \notin Rows /\ NoVersion \notin VersionId
  BY TablesAssumption DEF TypeOK
<1>3. ASSUME req'[r].op \in WritingOps
      PROVE  /\ req'[r].prev \in Rows' \cup {NoVersion}
             /\ req'[r].number = NextNumber(req[r].prev)'
             /\ req'[r].updates => req'[r].prev \in Rows'
  <2>1. /\ req[r].prev \in Rows \cup {NoVersion} /\ req[r].number = NextNumber(req[r].prev)
        /\ req[r].updates => req[r].prev \in Rows
    BY <1>1, <1>3 DEF Sound
  <2>2. req'[r].prev = req[r].prev /\ req'[r].number = req[r].number /\ req'[r].updates = req[r].updates
    BY <1>1, <1>3
  <2> QED BY <2>1, <2>2, <1>2 DEF Kept, NextNumber
<1>4. ASSUME req'[r].op = "generate_llm", req'[r].updates
      PROVE  row'[req'[r].prev].status # "published"
  <2>1. req[r].op = "generate_llm" /\ req[r].updates /\ req'[r].prev = req[r].prev
    BY <1>1, <1>4 DEF WritingOps
  <2>2. req[r].prev \in Rows /\ row[req[r].prev].status # "published" /\ Locked(req[r].prev)
    BY <2>1 DEF Sound, WritingOps, Locked
  <2> QED BY <2>1, <2>2 DEF Kept
<1>5. req'[r].op \in VersionOps => req'[r].v \in Rows'
  BY <1>1 DEF Sound, Kept
<1>6. req'[r].op = "approve_saved" => req'[r].v \in (DOMAIN file)'
  BY <1>1 DEF Sound, Kept, VersionOps
<1> QED BY <1>1, <1>3, <1>4, <1>5, <1>6 DEF Sound

(***************************************************************************)
(* What every step does to the version rows: they keep their numbers and   *)
(* their links, a published one is left as it is, and one that becomes     *)
(* published has its PDF.                                                  *)
(***************************************************************************)
Others(r) ==
  \A p \in Requests \ {r} :
    req'[p] = req[p] \/ (Busy(p) /\ req'[p] = [req[p] EXCEPT !.alone = FALSE])

Rightly ==
  /\ Kept
  /\ PublishedHasPdf'
  /\ NumbersFollowChain'
  /\ \A v \in Rows : row[v].status = "published" => row'[v] = row[v]

TxInv == TxBasis /\ PublishedHasPdf /\ NumbersFollowChain

LEMMA BasisStays ==
  ASSUME TxBasis, Kept, NEW r \in Requests, Others(r), Sound(r)',
         TypeOK', world' \in Snapshots, req' = [p \in Requests |-> req'[p]]
  PROVE  TxBasis'
BY SoundStays DEF TxBasis, Others

LEMMA RowsUntouched ==
  ASSUME TxInv, row' = row, DOMAIN file \subseteq DOMAIN file'
  PROVE  Rightly
BY DEF TxInv, Rightly, Kept, PublishedHasPdf, NumbersFollowChain, Rows

\* A review's UPDATE of one row.
LEMMA RowUpdated ==
  ASSUME TxInv, NEW v \in Rows, NEW new \in VersionRow, row' = [row EXCEPT ![v] = new],
         new.number = row[v].number, new.supersedes = row[v].supersedes,
         CanUpdate(v), new.status = "published" => v \in DOMAIN file,
         DOMAIN file' = DOMAIN file
  PROVE  Rightly
<1>1. Rows' = Rows /\ row'[v] = new /\ \A w \in Rows \ {v} : row'[w] = row[w]
  BY DEF Rows
<1>2. Kept
  BY <1>1 DEF Kept, CanUpdate
<1>3. PublishedHasPdf'
  BY <1>1 DEF TxInv, PublishedHasPdf
<1>4. \A w \in Rows : row[w].status = "published" => row'[w] = row[w]
  BY <1>1 DEF CanUpdate, TriggerRaises
<1>5. \A w \in Rows : row'[w].number = row[w].number /\ row'[w].supersedes = row[w].supersedes
  BY <1>1
<1>6. NumbersFollowChain'
  BY <1>1, <1>5 DEF TxInv, NumbersFollowChain
<1> QED BY <1>2, <1>3, <1>4, <1>6 DEF Rightly

\* generate_report's last flush and its commit.
LEMMA RowGenerated ==
  ASSUME TxInv, NEW r \in Requests, NEW v \in VersionId, NEW drafts \in Page,
         CommitGenerate(r, v, drafts)
  PROVE  Rightly /\ TypeOK'
<1> DEFINE q == req[r]
           new == FlushedVersion(q, drafts)
           old == AfterSuperseding(q)
<1>1. TypeOK /\ Sound(r) /\ q.op = "generate_llm" /\ v \notin Rows
  BY DEF TxInv, TxBasis, CommitGenerate
<1>2. q \in Writing
  BY <1>1, IdleNotHeld DEF Sound, Held, Generating, OnSection, OnStatus, Approving
<1>3. /\ q.prev \in Rows \cup {NoVersion} /\ q.number = NextNumber(q.prev)
      /\ q.updates => q.prev \in Rows /\ row[q.prev].status # "published"
  BY <1>1 DEF Sound, WritingOps
<1>4. new \in VersionRow /\ new.number = q.number /\ new.supersedes = q.prev /\ new.status # "published"
  BY <1>2 DEF FlushedVersion, VersionRow, Writing, Statuses
<1>5. ASSUME NEW w \in Rows
      PROVE  /\ old[w] \in VersionRow
             /\ old[w].number = row[w].number /\ old[w].supersedes = row[w].supersedes
             /\ old[w].status = "published" => row[w].status = "published"
             /\ row[w].status = "published" => old[w] = row[w]
             /\ row[w].status # "published" => old[w].status # "published"
  <2>1. row[w] \in VersionRow
    BY <1>1, <1>5 DEF TypeOK
  <2>2. CASE q.updates /\ w = q.prev
    <3>1. old[w] = [row[w] EXCEPT !.status = "superseded"]
      BY <2>2, <1>1, <1>5 DEF AfterSuperseding, TypeOK
    <3> QED BY <3>1, <2>1, <2>2, <1>3 DEF VersionRow, Statuses
  <2>3. CASE ~(q.updates /\ w = q.prev)
    <3>1. old[w] = row[w]
      BY <2>3, <1>1, <1>5 DEF AfterSuperseding, TypeOK
    <3> QED BY <3>1, <2>1
  <2> QED BY <2>2, <2>3
<1>6. DOMAIN old = Rows
  BY <1>1 DEF AfterSuperseding, Rows, TypeOK
<1>7. row' = Insert(old, v, new) /\ UNCHANGED <<file, world>> /\ current' = v
  BY DEF CommitGenerate
<1> HIDE DEF old, new
<1>8. Rows' = Rows \cup {v} /\ row'[v] = new /\ \A w \in Rows : row'[w] = old[w]
  BY <1>1, <1>6, <1>7 DEF Rows, Insert
<1>9. Kept
  BY <1>5, <1>7, <1>8 DEF Kept
<1>10. PublishedHasPdf'
  BY <1>4, <1>5, <1>7, <1>8 DEF TxInv, PublishedHasPdf
<1>11. NumbersFollowChain'
  <2>1. ASSUME NEW w \in Rows
        PROVE  IF row'[w].supersedes = NoVersion THEN row'[w].number = 1
               ELSE /\ row'[w].supersedes \in Rows'
                    /\ row'[w].number = row'[row'[w].supersedes].number + 1
    BY <2>1, <1>5, <1>8 DEF TxInv, NumbersFollowChain
  <2>2. IF new.supersedes = NoVersion THEN new.number = 1
        ELSE /\ new.supersedes \in Rows'
             /\ new.number = row'[new.supersedes].number + 1
    BY <1>3, <1>4, <1>5, <1>8 DEF NextNumber
  <2> QED BY <2>1, <2>2, <1>8 DEF NumbersFollowChain
<1>12. Rightly
  BY <1>5, <1>8, <1>9, <1>10, <1>11 DEF Rightly
<1>13. row' \in [Rows' -> VersionRow]
  <2>1. row' = [w \in Rows' |-> row'[w]]
    BY <1>7, <1>6, <1>8 DEF Insert, Rows
  <2> QED BY <2>1, <1>4, <1>5, <1>8
<1>14. section' \in [Rows' -> [Sections -> SectionRow]]
  <2>1. [s \in Sections |-> NewSection(drafts[s], q.json)] \in [Sections -> SectionRow]
    BY DEF NewSection, SectionRow, Validate, Page
  <2>2. section' = Insert(section, v, [s \in Sections |-> NewSection(drafts[s], q.json)])
    BY DEF CommitGenerate
  <2>3. DOMAIN section = Rows /\ section \in [DOMAIN section -> [Sections -> SectionRow]]
    BY <1>1 DEF TypeOK
  <2> QED BY <2>1, <2>2, <2>3, <1>8 DEF Insert
<1>15. TypeOK'
  BY <1>1, <1>7, <1>8, <1>13, <1>14 DEF TypeOK
<1> QED BY <1>12, <1>15

\* Beginning a request, and what a request does to its own entry.
LEMMA StartFacts ==
  ASSUME TxBasis, NEW r \in Requests, NEW fields \in Held, Start(r, fields)
  PROVE  /\ req' = [p \in Requests |-> req'[p]] /\ Others(r)
         /\ \E b \in BOOLEAN : req'[r] = [fields EXCEPT !.alone = b]
         /\ req'[r] \in Held /\ req'[r].op = fields.op
         /\ fields.op \in VersionOps => req'[r].v = fields.v
<1>1. /\ req' = [p \in Requests |-> req'[p]]
      /\ \E b \in BOOLEAN : req'[r] = [fields EXCEPT !.alone = b]
  BY DEF Start
<1>2. Others(r)
  <2>1. \A p \in Requests : ~Busy(p) => req[p] = Idle
    BY IdleNotHeld DEF TxBasis, Sound, Busy, Held, Generating, Writing, OnSection, OnStatus, Approving
  <2> QED BY <2>1 DEF Start, Others
<1> QED BY <1>1, <1>2, DisturbedFacts

LEMMA StepFacts ==
  ASSUME TxBasis, NEW r \in Requests, NEW q, req' = [req EXCEPT ![r] = q]
  PROVE  req' = [p \in Requests |-> req'[p]] /\ Others(r) /\ req'[r] = q
BY DEF TxBasis, Others

LEMMA FinishFacts ==
  ASSUME TxBasis, NEW r \in Requests, Finish(r)
  PROVE  req' = [p \in Requests |-> req'[p]] /\ Others(r) /\ Sound(r)'
<1>1. req' = [p \in Requests |-> req'[p]] /\ Others(r) /\ req'[r] = Idle
  BY StepFacts DEF Finish
<1> QED BY <1>1, IdleNotHeld DEF Sound, WritingOps, VersionOps

\* A step that reads: nothing but the request and what it holds changes.
LEMMA Reads ==
  ASSUME TxInv, NEW r \in Requests, UNCHANGED <<row, section, file, world>>,
         current' \in VersionId \cup {NoVersion, NoReport},
         req' = [p \in Requests |-> req'[p]], Others(r), Sound(r)'
  PROVE  TxInv' /\ Rightly
<1>1. Rightly
  BY RowsUntouched
<1>2. TypeOK'
  BY DEF TxInv, TxBasis, TypeOK, Rows
<1>3. TxBasis'
  BY <1>1, <1>2, BasisStays DEF Rightly, TxInv, TxBasis
<1> QED BY <1>1, <1>3 DEF TxInv, Rightly

\* A request about a version, begun.
LEMMA BegunOnVersion ==
  ASSUME TxInv, NEW r \in Requests, NEW fields \in Held, Start(r, fields),
         fields.op \in VersionOps \ {"approve_saved"}, fields.v \in Rows,
         UNCHANGED <<row, section, file, current, world>>
  PROVE  TxInv' /\ Rightly
<1>1. /\ req' = [p \in Requests |-> req'[p]] /\ Others(r)
      /\ req'[r] \in Held /\ req'[r].op = fields.op /\ req'[r].v = fields.v
  BY StartFacts DEF TxInv
<1>2. Sound(r)'
  BY <1>1 DEF Sound, VersionOps, WritingOps, Rows
<1> QED BY <1>1, <1>2, Reads DEF TxInv, TxBasis, TypeOK

LEMMA TxInvInit == TxInit => TxInv
<1> SUFFICES ASSUME TxInit PROVE TxInv
  OBVIOUS
<1>1. TypeOK /\ Rows = {}
  BY TypeInit DEF TxInit, Init, Rows
<1>2. req = [r \in Requests |-> req[r]] /\ \A r \in Requests : Sound(r)
  BY IdleNotHeld DEF TxInit, Sound, WritingOps, VersionOps
<1> QED BY <1>1, <1>2 DEF TxInit, TxInv, TxBasis, PublishedHasPdf, NumbersFollowChain

LEMMA TxStep == TxInv /\ [TxNext]_txVars => TxInv' /\ Rightly
<1> SUFFICES ASSUME TxInv, [TxNext]_txVars PROVE TxInv' /\ Rightly
  OBVIOUS
<1>1. /\ TypeOK /\ world \in Snapshots /\ \A p \in Requests : Sound(p)
      /\ req = [p \in Requests |-> req[p]]
  BY DEF TxInv, TxBasis
<1>2. TxBasis /\ Rows \subseteq VersionId /\ current \in VersionId \cup {NoVersion, NoReport}
  BY <1>1 DEF TxInv, TypeOK
<1>3. ASSUME NEW v \in Rows
      PROVE  row[v] \in VersionRow /\ \A s \in Sections : section[v][s] \in SectionRow
  BY <1>1 DEF TypeOK
\* generate_report
<1>4. ASSUME NEW r \in Requests, NEW u \in Analysts, NEW force \in BOOLEAN,
             BeginGenerate(r, u, force)
      PROVE  TxInv' /\ Rightly
  <2> DEFINE fields == [op |-> "generate", alone |-> TRUE, user |-> u,
                        overridden |-> world \in Incomplete /\ force,
                        creates |-> current = NoReport]
  <2>1. fields \in Held /\ fields.op = "generate"
    BY DEF Held, Generating
  <2>2. Start(r, fields) /\ UNCHANGED <<row, section, file, current, world>>
    BY <1>4 DEF BeginGenerate
  <2> HIDE DEF fields
  <2>3. /\ req' = [p \in Requests |-> req'[p]] /\ Others(r)
        /\ req'[r] \in Held /\ req'[r].op = "generate"
    BY <2>1, <2>2, <1>2, StartFacts
  <2>4. Sound(r)'
    BY <2>3 DEF Sound, WritingOps, VersionOps
  <2> QED BY <2>2, <2>3, <2>4, <1>2, Reads
<1>5. ASSUME NEW r \in Requests, CommitEngines(r)
      PROVE  TxInv' /\ Rightly
  <2>1. req[r] \in Generating
    BY <1>1, <1>5, IdleNotHeld
       DEF CommitEngines, Sound, Held, Writing, OnSection, OnStatus, Approving
  <2> DEFINE q == [req[r] EXCEPT !.op = "generate_ready"]
  <2>2. q \in Held /\ q.op = "generate_ready"
    BY <2>1 DEF Held, Generating
  <2>3. req' = [req EXCEPT ![r] = q]
    BY <1>1, <1>5 DEF CommitEngines
  <2> HIDE DEF q
  <2>4. req' = [p \in Requests |-> req'[p]] /\ Others(r) /\ req'[r] = q
    BY <2>3, <1>2, StepFacts
  <2>5. Sound(r)'
    BY <2>2, <2>4 DEF Sound, WritingOps, VersionOps
  <2>6. UNCHANGED <<row, section, file, world>> /\ current' \in VersionId \cup {NoVersion, NoReport}
    BY <1>2, <1>5 DEF CommitEngines
  <2> QED BY <2>4, <2>5, <2>6, Reads
<1>6. ASSUME NEW r \in Requests, NEW prev \in Rows \cup {NoVersion}, Assemble(r, prev)
      PROVE  TxInv' /\ Rightly
  <2>1. req[r] \in Generating
    BY <1>1, <1>6, IdleNotHeld
       DEF Assemble, Sound, Held, Writing, OnSection, OnStatus, Approving
  <2> DEFINE q == [op |-> "generate_flush", alone |-> req[r].alone, user |-> req[r].user,
                   json |-> world, overridden |-> req[r].overridden, prev |-> prev,
                   number |-> NextNumber(prev),
                   updates |-> prev \in Rows /\ row[prev].status \in NonTerminal]
  <2>2. NextNumber(prev) \in Nat \ {0}
    <3>1. prev # NoVersion => row[prev].number \in Nat \ {0}
      BY <1>3 DEF VersionRow
    <3> QED BY <3>1 DEF NextNumber
  <2>3. q \in Writing
    BY <2>1, <2>2, <1>1, <1>2 DEF Writing, Generating
  <2>4. /\ q.op = "generate_flush" /\ q.prev = prev /\ q.number = NextNumber(prev)
        /\ q.updates => prev \in Rows
    OBVIOUS
  <2>5. req' = [req EXCEPT ![r] = q] /\ UNCHANGED <<row, section, file, current, world>>
    BY <1>1, <1>6 DEF Assemble
  <2> HIDE DEF q
  <2>6. req' = [p \in Requests |-> req'[p]] /\ Others(r) /\ req'[r] = q
    BY <2>5, <1>2, StepFacts
  <2>7. NextNumber(req[r].prev)' = NextNumber(prev) /\ Rows' = Rows
    <3>1. row' = row
      BY <2>5
    <3> QED BY <3>1, <2>4, <2>6 DEF NextNumber, Rows
  <2>8. Sound(r)'
    BY <2>3, <2>4, <2>5, <2>6, <2>7 DEF Sound, WritingOps, VersionOps, Held, NextNumber
  <2> QED BY <2>5, <2>6, <2>8, <1>2, Reads
<1>7. ASSUME NEW r \in Requests, Flush(r)
      PROVE  TxInv' /\ Rightly
  <2>1. req[r] \in Writing
    BY <1>1, <1>7, IdleNotHeld
       DEF Flush, Sound, Held, Generating, OnSection, OnStatus, Approving
  <2> DEFINE q == [req[r] EXCEPT !.op = "generate_llm"]
  <2>2. /\ q \in Writing /\ q.op = "generate_llm" /\ q.prev = req[r].prev
        /\ q.number = req[r].number /\ q.updates = req[r].updates
    BY <2>1 DEF Writing
  <2>3. req' = [req EXCEPT ![r] = q] /\ UNCHANGED <<row, section, file, current, world>>
    BY <1>1, <1>7 DEF Flush
  <2> HIDE DEF q
  <2>4. req' = [p \in Requests |-> req'[p]] /\ Others(r) /\ req'[r] = q
    BY <2>3, <1>2, StepFacts
  <2>5. /\ q.prev \in Rows \cup {NoVersion} /\ q.number = NextNumber(q.prev)
        /\ q.updates => q.prev \in Rows /\ row[q.prev].status # "published"
    BY <1>1, <1>7, <2>2 DEF Sound, Flush, WritingOps, CanUpdate, TriggerRaises
  <2>6. Sound(r)'
    BY <2>2, <2>3, <2>4, <2>5 DEF Sound, WritingOps, VersionOps, Held, NextNumber, Rows
  <2> QED BY <2>3, <2>4, <2>6, <1>2, Reads
<1>8. ASSUME NEW r \in Requests, NEW v \in VersionId, NEW drafts \in Page,
             CommitGenerate(r, v, drafts)
      PROVE  TxInv' /\ Rightly
  <2>1. Rightly /\ TypeOK'
    BY <1>8, RowGenerated
  <2>2. Finish(r) /\ world' = world
    BY <1>8 DEF CommitGenerate
  <2>3. TxBasis'
    BY <2>1, <2>2, <1>1, <1>2, FinishFacts, BasisStays DEF Rightly
  <2> QED BY <2>1, <2>3 DEF TxInv, Rightly
\* edit_section, acknowledge_section_guardrail_failure
<1>9. ASSUME NEW r \in Requests, NEW u \in Analysts, NEW v \in Rows, NEW s \in Sections,
             NEW text \in Texts, BeginEdit(r, u, v, s, text)
      PROVE  TxInv' /\ Rightly
  <2> DEFINE new    == Edited(section[v][s], u, text, row[v].json)
             fields == [op |-> "edit", alone |-> TRUE, v |-> v, s |-> s,
                        seen |-> section[v][s], new |-> new]
  <2>1. Start(r, fields) /\ UNCHANGED <<row, section, file, current, world>>
    BY <1>9 DEF BeginEdit, Edited
  <2>2. new \in SectionRow
    BY <1>3, EditedSection
  <2> HIDE DEF new
  <2>3. fields \in Held /\ fields.op = "edit" /\ fields.v = v
    BY <2>2, <1>2, <1>3 DEF Held, OnSection
  <2> QED BY <2>1, <2>3, BegunOnVersion DEF VersionOps
<1>10. ASSUME NEW r \in Requests, NEW u \in Analysts, NEW v \in Rows, NEW s \in Sections,
              BeginAcknowledge(r, u, v, s)
       PROVE  TxInv' /\ Rightly
  <2> DEFINE new    == Acknowledged(section[v][s], u)
             fields == [op |-> "acknowledge", alone |-> TRUE, v |-> v, s |-> s,
                        seen |-> section[v][s], new |-> new]
  <2>1. Start(r, fields) /\ UNCHANGED <<row, section, file, current, world>>
    BY <1>10 DEF BeginAcknowledge, Acknowledged
  <2>2. new \in SectionRow
    BY <1>3, AcknowledgedSection
  <2> HIDE DEF new
  <2>3. fields \in Held /\ fields.op = "acknowledge" /\ fields.v = v
    BY <2>2, <1>2, <1>3 DEF Held, OnSection
  <2> QED BY <2>1, <2>3, BegunOnVersion DEF VersionOps
<1>11. ASSUME NEW r \in Requests, CommitSection(r)
       PROVE  TxInv' /\ Rightly
  <2> DEFINE q == req[r]
  <2>1. q \in OnSection /\ q.v \in Rows
    BY <1>1, <1>11, IdleNotHeld
       DEF CommitSection, Sound, VersionOps, Held, Generating, Writing, OnStatus, Approving
  <2>2. Merge(section[q.v][q.s], q.seen, q.new) \in SectionRow
    BY <2>1, <1>3, MergeType DEF OnSection
  <2>3. /\ section' = [section EXCEPT ![q.v][q.s] = Merge(section[q.v][q.s], q.seen, q.new)]
        /\ Finish(r) /\ UNCHANGED <<row, file, current, world>>
    BY <1>1, <2>1, <1>11 DEF CommitSection, TypeOK, OnSection
  <2>4. section' \in [Rows -> [Sections -> SectionRow]]
    BY <2>1, <2>2, <2>3, <1>1, SectionType DEF OnSection
  <2>5. TypeOK'
    BY <2>3, <2>4, <1>1 DEF TypeOK, Rows
  <2>6. Rightly
    BY <2>3, RowsUntouched
  <2>7. TxBasis'
    BY <2>3, <2>5, <2>6, <1>1, <1>2, FinishFacts, BasisStays DEF Rightly
  <2> QED BY <2>6, <2>7 DEF TxInv, Rightly
\* submit_for_review, decide_review
<1>12. ASSUME NEW r \in Requests, NEW u, NEW v \in Rows,
              BeginSubmit(r, u, v) \/ BeginReject(r, u, v)
       PROVE  TxInv' /\ Rightly
  <2>1. CASE BeginSubmit(r, u, v)
    <3> DEFINE fields == [op |-> "submit", alone |-> TRUE, v |-> v]
    <3>1. fields \in Held /\ fields.op = "submit" /\ fields.v = v
      BY <1>2 DEF Held, OnStatus
    <3>2. Start(r, fields) /\ UNCHANGED <<row, section, file, current, world>>
      BY <2>1 DEF BeginSubmit
    <3> QED BY <3>1, <3>2, BegunOnVersion DEF VersionOps
  <2>2. CASE BeginReject(r, u, v)
    <3> DEFINE fields == [op |-> "reject", alone |-> TRUE, v |-> v]
    <3>1. fields \in Held /\ fields.op = "reject" /\ fields.v = v
      BY <1>2 DEF Held, OnStatus
    <3>2. Start(r, fields) /\ UNCHANGED <<row, section, file, current, world>>
      BY <2>2 DEF BeginReject
    <3> QED BY <3>1, <3>2, BegunOnVersion DEF VersionOps
  <2> QED BY <1>12, <2>1, <2>2
<1>13. ASSUME NEW r \in Requests, NEW u \in Reviewers, NEW v \in Rows, BeginApprove(r, u, v)
       PROVE  TxInv' /\ Rightly
  <2> DEFINE fields == [op |-> "approve", alone |-> TRUE, user |-> u, v |-> v,
                        page |-> Rendered(v), seen |-> current]
  <2>1. Rendered(v) \in Page
    BY <1>1, RenderedType
  <2>2. fields \in Held /\ fields.op = "approve" /\ fields.v = v
    BY <2>1, <1>2 DEF Held, Approving
  <2>3. Start(r, fields) /\ UNCHANGED <<row, section, file, current, world>>
    BY <1>13 DEF BeginApprove
  <2> QED BY <2>2, <2>3, BegunOnVersion DEF VersionOps
\* The UPDATEs of a version's status.
<1>14. ASSUME NEW r \in Requests, NEW v \in Rows, NEW new \in VersionRow,
              row' = [row EXCEPT ![v] = new],
              new.number = row[v].number, new.supersedes = row[v].supersedes,
              CanUpdate(v), new.status = "published" => v \in DOMAIN file,
              UNCHANGED <<section, file, world>>,
              current' \in VersionId \cup {NoVersion, NoReport}, Finish(r)
       PROVE  TxInv' /\ Rightly
  <2>1. Rightly
    BY <1>14, RowUpdated
  <2>2. Rows' = Rows /\ row' \in [Rows -> VersionRow]
    BY <1>14, <1>1 DEF Rows, TypeOK
  <2>3. TypeOK'
    BY <2>2, <1>1, <1>14 DEF TypeOK
  <2>4. TxBasis'
    BY <2>1, <2>3, <1>1, <1>2, <1>14, FinishFacts, BasisStays DEF Rightly
  <2> QED BY <2>1, <2>4 DEF TxInv, Rightly
<1>15. ASSUME NEW r \in Requests, CommitSubmit(r) \/ CommitReject(r)
       PROVE  TxInv' /\ Rightly
  <2> DEFINE v == req[r].v
  <2>1. v \in Rows /\ CanUpdate(v)
    BY <1>1, <1>15 DEF CommitSubmit, CommitReject, Sound, VersionOps
  <2>2. PICK st \in {"in_review", "draft"} : row' = [row EXCEPT ![v].status = st]
    BY <1>15 DEF CommitSubmit, CommitReject
  <2> DEFINE new == [row[v] EXCEPT !.status = st]
  <2>3. /\ new \in VersionRow /\ new.number = row[v].number /\ new.supersedes = row[v].supersedes
        /\ new.status # "published"
    BY <2>1, <1>3 DEF VersionRow, Statuses
  <2>4. row' = [row EXCEPT ![v] = new]
    BY <2>1, <2>2
  <2>5. Finish(r) /\ UNCHANGED <<section, file, current, world>>
    BY <1>15 DEF CommitSubmit, CommitReject
  <2> HIDE DEF v, new
  <2> QED BY <2>1, <2>3, <2>4, <2>5, <1>2, <1>14
<1>16. ASSUME NEW r \in Requests, SavePdf(r)
       PROVE  TxInv' /\ Rightly
  <2>1. req[r] \in Approving /\ req[r].v \in Rows
    BY <1>1, <1>16, IdleNotHeld
       DEF SavePdf, Sound, VersionOps, Held, Generating, Writing, OnSection, OnStatus
  <2> DEFINE q == [req[r] EXCEPT !.op = "approve_saved"]
  <2>2. q \in Held /\ q.op = "approve_saved" /\ q.v = req[r].v /\ req[r].page \in Page
    BY <2>1 DEF Held, Approving
  <2>3. /\ req' = [req EXCEPT ![r] = q] /\ UNCHANGED <<row, section, current, world>>
        /\ file' = Insert(file, req[r].v, req[r].page)
    BY <1>1, <1>16 DEF SavePdf
  <2> HIDE DEF q
  <2>4. req' = [p \in Requests |-> req'[p]] /\ Others(r) /\ req'[r] = q
    BY <2>3, <1>2, StepFacts
  <2>5. /\ DOMAIN file' = DOMAIN file \cup {req[r].v}
        /\ file' \in [DOMAIN file' -> Page]
    BY <2>2, <2>3, <1>1 DEF Insert, TypeOK
  <2>6. TypeOK'
    BY <2>1, <2>3, <2>5, <1>1 DEF TypeOK, Rows
  <2>7. Rightly
    BY <2>3, <2>5, RowsUntouched
  <2>8. Sound(r)'
    BY <2>1, <2>2, <2>3, <2>4, <2>5 DEF Sound, WritingOps, VersionOps, Rows
  <2>9. TxBasis'
    BY <2>3, <2>4, <2>6, <2>7, <2>8, <1>1, <1>2, BasisStays DEF Rightly
  <2> QED BY <2>7, <2>9 DEF TxInv, Rightly
<1>17. ASSUME NEW r \in Requests, CommitApprove(r)
       PROVE  TxInv' /\ Rightly
  <2> DEFINE v == req[r].v
  <2>1. v \in Rows /\ CanUpdate(v) /\ v \in DOMAIN file /\ req[r] \in Approving
    BY <1>1, <1>17, IdleNotHeld
       DEF CommitApprove, Sound, VersionOps, Held, Generating, Writing, OnSection, OnStatus
  <2> DEFINE new == [row[v] EXCEPT !.status = "published", !.published_by = req[r].user]
  <2>2. new \in VersionRow /\ new.number = row[v].number /\ new.supersedes = row[v].supersedes
    <3>1. row[v] \in VersionRow /\ req[r].user \in Reviewers
      BY <2>1, <1>3 DEF Approving
    <3> HIDE DEF v
    <3> QED BY <3>1 DEF VersionRow, Statuses
  <2>3. row' = [row EXCEPT ![v] = new]
    BY <2>1, <1>1, <1>17 DEF CommitApprove, TypeOK
  <2>4. /\ Finish(r) /\ UNCHANGED <<section, file, world>>
        /\ current' \in VersionId \cup {NoVersion, NoReport}
    BY <1>2, <2>1, <1>17 DEF CommitApprove
  <2> HIDE DEF v, new
  <2> QED BY <2>1, <2>2, <2>3, <2>4, <1>14
\* Failures, and the project's data.
<1>18. ASSUME NEW r \in Requests, RequestFails(r)
       PROVE  TxInv' /\ Rightly
  <2>1. Finish(r) /\ UNCHANGED <<row, section, file, current, world>>
    BY <1>18 DEF RequestFails
  <2> QED BY <2>1, <1>2, FinishFacts, Reads
<1>19. ASSUME NEW json \in Snapshots, WorldChanges(json)
       PROVE  TxInv' /\ Rightly
  <2>1. UNCHANGED <<row, section, file, current>> /\ world' \in Snapshots
    BY <1>19 DEF WorldChanges
  <2>2. Rightly
    BY <2>1, RowsUntouched
  <2>3. ASSUME NEW p \in Requests
        PROVE  Sound(p)'
    <3>1. ~Busy(p) => req[p] = Idle
      BY <1>1, IdleNotHeld DEF Sound, Busy
    <3>2. req'[p] = req[p] \/ (Busy(p) /\ req'[p] = [req[p] EXCEPT !.alone = FALSE])
      BY <3>1, <1>19 DEF WorldChanges
    <3> QED BY <3>2, <2>2, <1>1, SoundStays DEF Rightly
  <2>4. TypeOK'
    BY <2>1, <1>1 DEF TypeOK, Rows
  <2>5. req' = [p \in Requests |-> req'[p]]
    BY <1>19 DEF WorldChanges
  <2> QED BY <2>1, <2>2, <2>3, <2>4, <2>5 DEF TxInv, TxBasis, Rightly
<1>20. CASE UNCHANGED txVars
  <2>1. UNCHANGED <<row, section, file, current, world, req>>
    BY <1>20 DEF txVars
  <2>2. Rightly
    BY <2>1, RowsUntouched
  <2>3. TypeOK' /\ \A p \in Requests : Sound(p)'
    BY <2>1, <2>2, <1>1, SoundStays DEF TypeOK, Rows, Rightly
  <2> QED BY <2>1, <2>2, <2>3, <1>1 DEF TxInv, TxBasis, Rightly
<1> QED BY <1>4, <1>5, <1>6, <1>7, <1>8, <1>9, <1>10, <1>11, <1>12, <1>13, <1>15, <1>16,
           <1>17, <1>18, <1>19, <1>20 DEF TxNext, Begin, Continue

(***************************************************************************)
(* What holds however requests overlap.                                    *)
(***************************************************************************)

\* Tables and requests in progress keep their types, and a request is about rows that exist.
THEOREM TxTypeCorrect == TxSpec => []TxTypeOK
<1>1. TxInv => TxTypeOK
  <2> SUFFICES ASSUME TxInv PROVE TxTypeOK
    OBVIOUS
  <2>1. ASSUME NEW r \in Requests
        PROVE  /\ req[r].op \in {"idle", "generate", "generate_ready", "generate_flush",
                                 "generate_llm"} \cup VersionOps
               /\ req[r].op \in VersionOps => req[r].v \in Rows
    BY IdleNotHeld DEF TxInv, TxBasis, Sound, Held, Generating, Writing, OnSection, OnStatus,
                       Approving, VersionOps
  <2> QED BY <2>1 DEF TxInv, TxBasis, TxTypeOK, VersionOps
<1> QED BY <1>1, TxInvInit, TxStep, PTL DEF TxSpec

\* decide_review saves the PDF before it commits, and nothing takes a PDF away: a published
\* version has one, however approvals overlap or die half-way.
THEOREM PublishedVersionsHavePdfs == TxSpec => []PublishedHasPdf
<1>1. TxInv => PublishedHasPdf
  BY DEF TxInv
<1> QED BY <1>1, TxInvInit, TxStep, PTL DEF TxSpec

\* Overlapping generate_report requests may fork the chain of versions, but each version is
\* numbered one above the one it supersedes.
THEOREM NumbersStayOnChain == TxSpec => []NumbersFollowChain
<1>1. TxInv => NumbersFollowChain
  BY DEF TxInv
<1> QED BY <1>1, TxInvInit, TxStep, PTL DEF TxSpec

\* The trigger of migration fb6c16e56730, and the lock a generation holds from its flush to
\* its commit, keep the row of a published version as it is.
THEOREM PublishedRowStaysFrozen == TxSpec => PublishedRowFrozen
<1>1. TxInv /\ [TxNext]_txVars =>
        [\A v \in Rows : row[v].status = "published" => row'[v] = row[v]]_txVars
  BY TxStep DEF Rightly
<1> QED BY <1>1, TxInvInit, TxStep, PTL DEF TxSpec, PublishedRowFrozen

(***************************************************************************)
(* A request no other request overlaps.  Until it ends, nothing it has     *)
(* read has changed: its guards still hold, what it will write follows     *)
(* from what is committed, and no one else is busy.                        *)
(***************************************************************************)
UpToDate(q) ==
  /\ q.op \in {"generate", "generate_ready"} => (q.overridden <=> world \in Incomplete)
  /\ q.op \in WritingOps =>
       /\ q.overridden <=> q.json \in Incomplete
       /\ IsLatest(q.prev)
       /\ q.updates <=> q.prev \in Rows /\ row[q.prev].status \in NonTerminal
  /\ q.op = "edit" =>
       /\ row[q.v].status = "draft" /\ q.seen = section[q.v][q.s]
       /\ \E u \in Analysts, text \in Texts : q.new = Edited(q.seen, u, text, row[q.v].json)
  /\ q.op = "acknowledge" =>
       /\ EffectiveStatus(q.seen) = "failed" /\ q.seen = section[q.v][q.s]
       /\ \E u \in Analysts : q.new = Acknowledged(q.seen, u)
  /\ q.op = "submit" =>
       /\ row[q.v].status = "draft" /\ \A s \in Sections : ~Unacknowledged(section[q.v][s])
       /\ Analysts # {}
  /\ q.op = "reject" => row[q.v].status = "in_review" /\ Reviewers # {}
  /\ q.op \in {"approve", "approve_saved"} =>
       row[q.v].status = "in_review" /\ q.page = Rendered(q.v) /\ q.seen = current
  /\ q.op = "approve_saved" => q.v \in DOMAIN file /\ file[q.v] = q.page

AloneUpToDate ==
  \A r \in Requests : Busy(r) /\ req[r].alone =>
    /\ \A p \in Requests \ {r} : ~Busy(p)
    /\ UpToDate(req[r])

SerialInv == TxInv /\ AloneUpToDate

LEMMA Kinds ==
  ASSUME TxBasis, NEW r \in Requests
  PROVE  /\ req[r].op \in {"generate", "generate_ready"} => req[r] \in Generating
         /\ req[r].op \in WritingOps => req[r] \in Writing
         /\ req[r].op \in {"edit", "acknowledge"} => req[r] \in OnSection
         /\ req[r].op \in {"submit", "reject"} => req[r] \in OnStatus
         /\ req[r].op \in {"approve", "approve_saved"} => req[r] \in Approving
         /\ Busy(r) => req[r] \in Held
<1>1. req[r] = Idle \/ req[r] \in Held
  BY DEF TxBasis, Sound
<1>2. req[r] = Idle => req[r].op = "idle"
  BY IdleNotHeld
<1> QED BY <1>1, <1>2 DEF Held, Generating, Writing, OnSection, OnStatus, Approving, WritingOps, Busy

\* The history flag is nothing a request goes by.
LEMMA FlagIsHistory ==
  ASSUME NEW q \in Held, NEW b \in BOOLEAN, UpToDate(q)
  PROVE  UpToDate([q EXCEPT !.alone = b])
<1>1. CASE q \in Generating
  BY <1>1 DEF Generating, WritingOps, UpToDate
<1>2. CASE q \in Writing
  BY <1>2 DEF Writing, WritingOps, UpToDate
<1>3. CASE q \in OnSection
  BY <1>3 DEF OnSection, WritingOps, UpToDate
<1>4. CASE q \in OnStatus
  BY <1>4 DEF OnStatus, WritingOps, UpToDate
<1>5. CASE q \in Approving
  BY <1>5 DEF Approving, WritingOps, UpToDate
<1> QED BY <1>1, <1>2, <1>3, <1>4, <1>5 DEF Held

\* A request begun on its own is up to date; the others are not on their own any more.
LEMMA BegunUpToDate ==
  ASSUME TxBasis, NEW r \in Requests, NEW fields \in Held, Start(r, fields), UpToDate(fields),
         UNCHANGED <<row, section, file, current, world>>
  PROVE  AloneUpToDate'
<1>1. PICK b \in BOOLEAN : req'[r] = [fields EXCEPT !.alone = b] /\ (b => \A p \in Requests \ {r} : ~Busy(p))
  BY DEF Start
<1> DEFINE q == [fields EXCEPT !.alone = b]
<1>2. q \in Held /\ q.alone = b /\ UpToDate(q)
  <2>1. q.alone = b
    BY DEF Held, Generating, Writing, OnSection, OnStatus, Approving
  <2> QED BY <2>1, DisturbedFacts, FlagIsHistory
<1>3. req'[r] = q
  BY <1>1
<1> HIDE DEF q
<1>4. UpToDate(req[r])'
  BY <1>2, <1>3 DEF UpToDate, IsLatest, Rows, Rendered
<1>5. ASSUME NEW p \in Requests \ {r}
      PROVE  ~(Busy(p)' /\ req'[p].alone) /\ (~Busy(p) => ~Busy(p)')
  <2>1. CASE Busy(p)
    <3>1. req[p] \in Held /\ req'[p] = [req[p] EXCEPT !.alone = FALSE]
      BY <2>1, Kinds DEF Start
    <3>2. req'[p].alone = FALSE
      BY <3>1 DEF Held, Generating, Writing, OnSection, OnStatus, Approving
    <3> QED BY <2>1, <3>2
  <2>2. CASE ~Busy(p)
    <3>1. req'[p] = Idle
      BY <2>2 DEF Start
    <3> QED BY <3>1, IdleNotHeld DEF Busy
  <2> QED BY <2>1, <2>2
<1>6. req'[r].alone => \A p \in Requests \ {r} : ~Busy(p)'
  BY <1>1, <1>2, <1>3, <1>5
<1> QED BY <1>4, <1>5, <1>6 DEF AloneUpToDate

\* A busy request's own step leaves no other one alone, since none is while it is busy.
LEMMA OwnStep ==
  ASSUME TxBasis, AloneUpToDate, NEW r \in Requests, Busy(r), Others(r),
         Busy(r)' /\ req'[r].alone => req[r].alone /\ UpToDate(req[r])'
  PROVE  AloneUpToDate'
<1>1. ASSUME NEW p \in Requests \ {r}
      PROVE  ~(Busy(p)' /\ req'[p].alone) /\ (~Busy(p) => ~Busy(p)')
  <2>1. CASE req'[p] = req[p]
    <3>1. ~(Busy(p) /\ req[p].alone)
      BY DEF AloneUpToDate
    <3> QED BY <2>1, <3>1 DEF Busy
  <2>2. CASE Busy(p) /\ req'[p] = [req[p] EXCEPT !.alone = FALSE]
    <3>1. req[p] \in Held
      BY <2>2, Kinds
    <3>2. req'[p].alone = FALSE
      BY <2>2, <3>1 DEF Held, Generating, Writing, OnSection, OnStatus, Approving
    <3> QED BY <2>2, <3>2
  <2> QED BY <2>1, <2>2 DEF Others
<1>2. Busy(r)' /\ req'[r].alone => \A p \in Requests \ {r} : ~Busy(p)'
  BY <1>1 DEF AloneUpToDate
<1> QED BY <1>1, <1>2 DEF AloneUpToDate

LEMMA SerialInit == TxInit => SerialInv
<1>1. TxInit => \A r \in Requests : ~Busy(r)
  BY IdleNotHeld DEF TxInit, Busy
<1> QED BY <1>1, TxInvInit DEF SerialInv, AloneUpToDate

\* What the requests read holds of what they hold.
LEMMA SerialBegin ==
  ASSUME SerialInv, NEW r \in Requests, Begin(r)
  PROVE  AloneUpToDate' /\ UNCHANGED vars
<1>1. TxBasis /\ TypeOK /\ Rows \subseteq VersionId /\ world \in Snapshots
  BY DEF SerialInv, TxInv, TxBasis, TypeOK
<1>2. ASSUME NEW v \in Rows, NEW s \in Sections
      PROVE  section[v][s] \in SectionRow
  BY <1>1 DEF TypeOK
<1>3. ASSUME NEW u \in Analysts, NEW force \in BOOLEAN, BeginGenerate(r, u, force)
      PROVE  AloneUpToDate' /\ UNCHANGED vars
  <2> DEFINE fields == [op |-> "generate", alone |-> TRUE, user |-> u,
                        overridden |-> world \in Incomplete /\ force,
                        creates |-> current = NoReport]
  <2>1. fields \in Held
    BY DEF Held, Generating
  <2>2. UpToDate(fields)
    BY <1>3 DEF UpToDate, BeginGenerate, WritingOps
  <2>3. Start(r, fields) /\ UNCHANGED <<row, section, file, current, world>>
    BY <1>3 DEF BeginGenerate
  <2> QED BY <2>1, <2>2, <2>3, <1>1, BegunUpToDate DEF vars
<1>4. ASSUME NEW u \in Analysts, NEW v \in Rows, NEW s \in Sections, NEW text \in Texts,
             BeginEdit(r, u, v, s, text)
      PROVE  AloneUpToDate' /\ UNCHANGED vars
  <2> DEFINE new    == Edited(section[v][s], u, text, row[v].json)
             fields == [op |-> "edit", alone |-> TRUE, v |-> v, s |-> s,
                        seen |-> section[v][s], new |-> new]
  <2>1. Start(r, fields) /\ row[v].status = "draft"
        /\ UNCHANGED <<row, section, file, current, world>>
    BY <1>4 DEF BeginEdit, Edited
  <2>2. new \in SectionRow
    BY <1>2, EditedSection
  <2>3. \E a \in Analysts, x \in Texts : new = Edited(section[v][s], a, x, row[v].json)
    OBVIOUS
  <2> HIDE DEF new
  <2>4. fields \in Held
    BY <2>2, <1>1, <1>2 DEF Held, OnSection
  <2>5. UpToDate(fields)
    BY <2>1, <2>3 DEF UpToDate, WritingOps
  <2> QED BY <2>1, <2>4, <2>5, <1>1, BegunUpToDate DEF vars
<1>5. ASSUME NEW u \in Analysts, NEW v \in Rows, NEW s \in Sections, BeginAcknowledge(r, u, v, s)
      PROVE  AloneUpToDate' /\ UNCHANGED vars
  <2> DEFINE new    == Acknowledged(section[v][s], u)
             fields == [op |-> "acknowledge", alone |-> TRUE, v |-> v, s |-> s,
                        seen |-> section[v][s], new |-> new]
  <2>1. Start(r, fields) /\ EffectiveStatus(section[v][s]) = "failed"
        /\ UNCHANGED <<row, section, file, current, world>>
    BY <1>5 DEF BeginAcknowledge, Acknowledged
  <2>2. new \in SectionRow
    BY <1>2, AcknowledgedSection
  <2>3. \E a \in Analysts : new = Acknowledged(section[v][s], a)
    OBVIOUS
  <2> HIDE DEF new
  <2>4. fields \in Held
    BY <2>2, <1>1, <1>2 DEF Held, OnSection
  <2>5. UpToDate(fields)
    BY <2>1, <2>3 DEF UpToDate, WritingOps
  <2> QED BY <2>1, <2>4, <2>5, <1>1, BegunUpToDate DEF vars
<1>6. ASSUME NEW u \in Analysts, NEW v \in Rows, BeginSubmit(r, u, v)
      PROVE  AloneUpToDate' /\ UNCHANGED vars
  <2> DEFINE fields == [op |-> "submit", alone |-> TRUE, v |-> v]
  <2>1. fields \in Held
    BY <1>1 DEF Held, OnStatus
  <2>2. UpToDate(fields)
    BY <1>6 DEF UpToDate, BeginSubmit, WritingOps
  <2>3. Start(r, fields) /\ UNCHANGED <<row, section, file, current, world>>
    BY <1>6 DEF BeginSubmit
  <2> QED BY <2>1, <2>2, <2>3, <1>1, BegunUpToDate DEF vars
<1>7. ASSUME NEW u \in Reviewers, NEW v \in Rows, BeginReject(r, u, v)
      PROVE  AloneUpToDate' /\ UNCHANGED vars
  <2> DEFINE fields == [op |-> "reject", alone |-> TRUE, v |-> v]
  <2>1. fields \in Held
    BY <1>1 DEF Held, OnStatus
  <2>2. UpToDate(fields)
    BY <1>7 DEF UpToDate, BeginReject, WritingOps
  <2>3. Start(r, fields) /\ UNCHANGED <<row, section, file, current, world>>
    BY <1>7 DEF BeginReject
  <2> QED BY <2>1, <2>2, <2>3, <1>1, BegunUpToDate DEF vars
<1>8. ASSUME NEW u \in Reviewers, NEW v \in Rows, BeginApprove(r, u, v)
      PROVE  AloneUpToDate' /\ UNCHANGED vars
  <2> DEFINE fields == [op |-> "approve", alone |-> TRUE, user |-> u, v |-> v,
                        page |-> Rendered(v), seen |-> current]
  <2>1. fields \in Held
    BY <1>1, RenderedType DEF Held, Approving, TypeOK
  <2>2. UpToDate(fields)
    BY <1>8 DEF UpToDate, BeginApprove, WritingOps
  <2>3. Start(r, fields) /\ UNCHANGED <<row, section, file, current, world>>
    BY <1>8 DEF BeginApprove
  <2> QED BY <2>1, <2>2, <2>3, <1>1, BegunUpToDate DEF vars
<1> QED BY <1>3, <1>4, <1>5, <1>6, <1>7, <1>8 DEF Begin

\* The steps of a request that goes on keep it up to date; the others end it.
LEMMA SerialContinue ==
  ASSUME SerialInv, NEW r \in Requests, Continue(r)
  PROVE  AloneUpToDate' /\ Busy(r)
<1>1. TxBasis /\ AloneUpToDate
  BY DEF SerialInv, TxInv
<1>2. Busy(r)
  BY DEF Continue, CommitEngines, Assemble, Flush, CommitGenerate, CommitSection, CommitSubmit,
         CommitReject, SavePdf, CommitApprove, Busy
<1>3. CASE Finish(r)
  <2>1. Others(r) /\ req'[r] = Idle
    BY <1>1, <1>3, StepFacts DEF Finish
  <2>2. ~Busy(r)'
    BY <2>1, IdleNotHeld DEF Busy
  <2> QED BY <2>1, <2>2, <1>1, <1>2, OwnStep
<1> PICK old : old = req[r]
  OBVIOUS
<1>4. ASSUME NEW q, req' = [req EXCEPT ![r] = q], q.alone = old.alone,
             old.alone => UpToDate(old), old.alone => UpToDate(q)'
      PROVE  AloneUpToDate'
  <2>1. Others(r) /\ req'[r] = q
    BY <1>1, <1>4, StepFacts
  <2>2. UpToDate(req[r])' <=> UpToDate(q)'
    BY <2>1
  <2>3. req'[r].alone => req[r].alone /\ UpToDate(req[r])'
    BY <2>1, <2>2, <1>4
  <2> QED BY <2>1, <2>3, <1>1, <1>2, OwnStep
<1>5. old.alone => UpToDate(old)
  BY <1>1, <1>2 DEF AloneUpToDate
<1>6. CASE CommitEngines(r)
  <2> DEFINE q == [old EXCEPT !.op = "generate_ready"]
  <2>1. old \in Generating /\ req' = [req EXCEPT ![r] = q] /\ world' = world
    BY <1>1, <1>6, Kinds DEF CommitEngines
  <2>2. q.alone = old.alone /\ q.op = "generate_ready" /\ q.overridden = old.overridden
    BY <2>1 DEF Generating
  <2> HIDE DEF q
  <2>3. old.alone => UpToDate(q)'
    BY <2>1, <2>2, <1>5 DEF UpToDate, Generating, WritingOps
  <2> QED BY <2>1, <2>2, <2>3, <1>2, <1>4, <1>5
<1>7. ASSUME NEW prev \in Rows \cup {NoVersion}, Assemble(r, prev)
      PROVE  AloneUpToDate'
  <2> PICK q : q = [op |-> "generate_flush", alone |-> old.alone, user |-> old.user,
                    json |-> world, overridden |-> old.overridden, prev |-> prev,
                    number |-> NextNumber(prev),
                    updates |-> prev \in Rows /\ row[prev].status \in NonTerminal]
    OBVIOUS
  <2>1. old \in Generating /\ req' = [req EXCEPT ![r] = q] /\ UNCHANGED <<row, world>>
    BY <1>1, <1>7, Kinds DEF Assemble
  <2>2. old.alone => /\ q.op = "generate_flush"
                     /\ q.overridden <=> q.json \in Incomplete
                     /\ IsLatest(q.prev)
                     /\ q.updates <=> q.prev \in Rows /\ row[q.prev].status \in NonTerminal
    BY <1>5, <1>7 DEF UpToDate, Assemble
  <2>3. q.alone = old.alone /\ q.op = "generate_flush"
    OBVIOUS
  <2>4. old.alone => UpToDate(q)'
    BY <2>1, <2>2, <2>3 DEF UpToDate, WritingOps, IsLatest, Rows
  <2> QED BY <2>1, <2>3, <2>4, <1>4, <1>5
<1>8. CASE Flush(r)
  <2> DEFINE q == [old EXCEPT !.op = "generate_llm"]
  <2>1. old \in Writing /\ req' = [req EXCEPT ![r] = q] /\ UNCHANGED <<row, world>>
    BY <1>1, <1>8, Kinds DEF Flush, WritingOps
  <2>2. /\ q.alone = old.alone /\ q.op = "generate_llm" /\ q.overridden = old.overridden
        /\ q.json = old.json /\ q.prev = old.prev /\ q.updates = old.updates
    BY <2>1 DEF Writing
  <2> HIDE DEF q
  <2>3. old.alone => UpToDate(q)'
    BY <2>1, <2>2, <1>5 DEF UpToDate, Writing, WritingOps, IsLatest, Rows
  <2> QED BY <2>1, <2>2, <2>3, <1>2, <1>4, <1>5
<1>9. CASE SavePdf(r)
  <2> DEFINE q == [old EXCEPT !.op = "approve_saved"]
  <2>1. /\ old \in Approving /\ old.op = "approve" /\ req' = [req EXCEPT ![r] = q]
        /\ UNCHANGED <<row, section, current, world>> /\ file' = Insert(file, old.v, old.page)
    BY <1>1, <1>9, Kinds DEF SavePdf
  <2>2. /\ q.alone = old.alone /\ q.op = "approve_saved" /\ q.v = old.v /\ q.page = old.page
        /\ q.seen = old.seen
    BY <2>1 DEF Approving
  <2> HIDE DEF q
  <2>3. old.v \in DOMAIN file' /\ file'[old.v] = old.page
    BY <2>1 DEF Insert
  <2>4. old.alone => UpToDate(q)'
    BY <2>1, <2>2, <2>3, <1>5 DEF UpToDate, WritingOps, Rendered
  <2> QED BY <2>1, <2>2, <2>4, <1>2, <1>4, <1>5
<1>10. Finish(r) \/ CommitEngines(r) \/ (\E prev \in Rows \cup {NoVersion} : Assemble(r, prev))
       \/ Flush(r) \/ SavePdf(r)
  BY DEF Continue, CommitGenerate, CommitSection, CommitSubmit, CommitReject, CommitApprove
<1> QED BY <1>2, <1>3, <1>6, <1>7, <1>8, <1>9, <1>10

LEMMA SerialStep == SerialInv /\ [TxNext]_txVars => SerialInv'
<1> SUFFICES ASSUME SerialInv, [TxNext]_txVars PROVE SerialInv'
  OBVIOUS
<1>1. TxInv'
  BY TxStep DEF SerialInv
<1> SUFFICES AloneUpToDate'
  BY <1>1 DEF SerialInv
<1>2. TxBasis /\ AloneUpToDate
  BY DEF SerialInv, TxInv
<1>3. ASSUME NEW r \in Requests, RequestFails(r)
      PROVE  AloneUpToDate'
  <2>1. Others(r) /\ req'[r] = Idle /\ Busy(r)
    BY <1>2, <1>3, StepFacts DEF RequestFails, Finish
  <2>2. ~Busy(r)'
    BY <2>1, IdleNotHeld DEF Busy
  <2> QED BY <2>1, <2>2, <1>2, OwnStep
<1>4. ASSUME NEW json \in Snapshots, WorldChanges(json)
      PROVE  AloneUpToDate'
  <2>1. ASSUME NEW p \in Requests
        PROVE  ~(Busy(p)' /\ req'[p].alone)
    <3>1. CASE Busy(p)
      <4>1. req[p] \in Held /\ req'[p] = [req[p] EXCEPT !.alone = FALSE]
        BY <1>2, <1>4, <3>1, Kinds DEF WorldChanges
      <4> QED BY <4>1 DEF Held, Generating, Writing, OnSection, OnStatus, Approving
    <3>2. CASE ~Busy(p)
      <4>1. req'[p] = Idle
        BY <1>4, <3>2 DEF WorldChanges
      <4> QED BY <4>1, IdleNotHeld DEF Busy
    <3> QED BY <3>1, <3>2
  <2> QED BY <2>1 DEF AloneUpToDate
<1>5. CASE UNCHANGED txVars
  <2>1. UNCHANGED <<row, section, file, current, world>> /\ req' = req
    BY <1>5 DEF txVars
  <2>2. ASSUME NEW q, UpToDate(q)
        PROVE  UpToDate(q)'
    BY <2>1, <2>2 DEF UpToDate, IsLatest, Rows, Rendered
  <2>3. ASSUME NEW r \in Requests, req'[r].op # "idle", req'[r].alone
        PROVE  (\A p \in Requests \ {r} : req'[p].op = "idle") /\ UpToDate(req[r])'
    <3> PICK q : q = req[r]
      OBVIOUS
    <3>1. UpToDate(q) /\ (\A p \in Requests \ {r} : req[p].op = "idle")
      BY <1>2, <2>1, <2>3 DEF AloneUpToDate, Busy
    <3>2. UpToDate(q)'
      BY <3>1, <2>2
    <3>3. UpToDate(req[r])'
      BY <2>1, <3>2
    <3> QED BY <2>1, <3>1, <3>3
  <2> QED BY <2>3 DEF AloneUpToDate, Busy
<1>6. ASSUME NEW r \in Requests, Begin(r)
      PROVE  AloneUpToDate'
  BY <1>6, SerialBegin
<1>7. ASSUME NEW r \in Requests, Continue(r)
      PROVE  AloneUpToDate'
  BY <1>7, SerialContinue
<1> QED BY <1>3, <1>4, <1>5, <1>6, <1>7 DEF TxNext

(***************************************************************************)
(* Each step of such a request is the step of ReportLifecycle its handler  *)
(* is there, or changes no table.                                          *)
(***************************************************************************)
\* A flush of an object whose row has not moved writes the object.
LEMMA MergeOfSeen ==
  ASSUME NEW sec \in SectionRow, NEW new \in SectionRow
  PROVE  Merge(sec, sec, new) = new
BY DEF Merge, SectionRow

LEMMA CommitGenerateIsLifecycle ==
  ASSUME TxInv, NEW r \in Requests, UpToDate(req[r]), NEW v \in VersionId, NEW drafts \in Page,
         CommitGenerate(r, v, drafts)
  PROVE  Generation
<1> PICK q : q = req[r]
  OBVIOUS
<1>1. q \in Writing /\ q.op = "generate_llm"
  BY Kinds DEF TxInv, CommitGenerate, WritingOps
<1>2. q.prev \in Rows \cup {NoVersion} /\ q.number = NextNumber(q.prev)
  BY <1>1 DEF TxInv, TxBasis, Sound, WritingOps
<1>3. /\ q.overridden <=> q.json \in Incomplete
      /\ IsLatest(q.prev)
      /\ q.updates <=> q.prev \in Rows /\ row[q.prev].status \in NonTerminal
  BY <1>1 DEF UpToDate, WritingOps
<1>4. q.user \in Analysts /\ q.json \in Snapshots /\ q.overridden \in BOOLEAN
  BY <1>1 DEF Writing
<1>5. AfterSuperseding(q) = Superseding(q.prev)
  BY <1>3 DEF AfterSuperseding, Superseding
<1>6. q.overridden = (q.json \in Incomplete /\ TRUE)
  BY <1>3, <1>4
<1>7. FlushedVersion(q, drafts) = NewVersion(q.user, q.prev, q.json, TRUE, drafts)
  BY <1>2, <1>6 DEF FlushedVersion, NewVersion
<1>8. GenerateReport(q.user, v, q.prev, q.json, TRUE, drafts)
  BY <1>3, <1>4, <1>5, <1>7 DEF CommitGenerate, GenerateReport
<1> QED BY <1>2, <1>4, <1>8 DEF Generation

LEMMA CommitSectionIsLifecycle ==
  ASSUME TxInv, NEW r \in Requests, UpToDate(req[r]), CommitSection(r)
  PROVE  Editing
<1> PICK q : q = req[r]
  OBVIOUS
<1>1. q \in OnSection /\ q.op \in {"edit", "acknowledge"}
  BY Kinds DEF TxInv, CommitSection
<1>2. q.v \in Rows /\ q.s \in Sections /\ q.seen \in SectionRow /\ q.new \in SectionRow
  BY <1>1 DEF TxInv, TxBasis, Sound, VersionOps, OnSection
<1>3. q.seen = section[q.v][q.s]
  BY <1>1 DEF UpToDate
<1>4. section' = [section EXCEPT ![q.v][q.s] = q.new] /\ UNCHANGED <<row, file, current>>
  <2>1. /\ section' = [section EXCEPT ![q.v][q.s] = Merge(section[q.v][q.s], q.seen, q.new)]
        /\ UNCHANGED <<row, file, current>>
    BY <1>2 DEF CommitSection, TxInv, TxBasis, TypeOK
  <2>2. Merge(section[q.v][q.s], q.seen, q.new) = q.new
    BY <1>2, <1>3, MergeOfSeen
  <2> QED BY <2>1, <2>2
<1>5. CASE q.op = "edit"
  <2>1. PICK u \in Analysts, text \in Texts : q.new = Edited(q.seen, u, text, row[q.v].json)
    BY <1>5 DEF UpToDate
  <2>2. row[q.v].status = "draft"
    BY <1>5 DEF UpToDate
  <2>3. EditSection(u, q.v, q.s, text)
    BY <1>2, <1>3, <1>4, <2>1, <2>2 DEF EditSection, Edited, TxInv, TxBasis, TypeOK
  <2> QED BY <1>2, <2>3 DEF Editing
<1>6. CASE q.op = "acknowledge"
  <2>1. PICK u \in Analysts : q.new = Acknowledged(q.seen, u)
    BY <1>6 DEF UpToDate
  <2>2. EffectiveStatus(section[q.v][q.s]) = "failed"
    BY <1>3, <1>6 DEF UpToDate
  <2>3. AcknowledgeFailure(u, q.v, q.s)
    BY <1>2, <1>3, <1>4, <2>1, <2>2 DEF AcknowledgeFailure, Acknowledged, TxInv, TxBasis, TypeOK
  <2> QED BY <1>2, <2>3 DEF Editing
<1> QED BY <1>1, <1>5, <1>6

\* The analyst of a submission and the reviewer of a rejection leave no trace in the columns
\* kept, so the request does not hold them and any analyst or reviewer will do.
LEMMA ReviewIsLifecycle ==
  ASSUME TxInv, NEW r \in Requests, UpToDate(req[r]),
         CommitSubmit(r) \/ CommitReject(r) \/ SavePdf(r) \/ CommitApprove(r)
  PROVE  Reviewing
<1> PICK q : q = req[r]
  OBVIOUS
<1>1. q.v \in Rows
  BY DEF TxInv, TxBasis, Sound, VersionOps, CommitSubmit, CommitReject, SavePdf, CommitApprove
<1>2. CASE CommitSubmit(r)
  <2>1. PICK u : u \in Analysts
    BY <1>2 DEF UpToDate, CommitSubmit
  <2>2. SubmitForReview(u, q.v)
    BY <1>2, <2>1 DEF CommitSubmit, SubmitForReview, UpToDate
  <2> QED BY <1>1, <2>1, <2>2 DEF Reviewing
<1>3. CASE CommitReject(r)
  <2>1. PICK u : u \in Reviewers
    BY <1>3 DEF UpToDate, CommitReject
  <2>2. Reject(u, q.v)
    BY <1>3, <2>1 DEF CommitReject, Reject, UpToDate
  <2> QED BY <1>1, <2>1, <2>2 DEF Reviewing
<1>4. ASSUME SavePdf(r) \/ CommitApprove(r)
      PROVE  /\ q.user \in Reviewers /\ row[q.v].status = "in_review"
             /\ q.page = Rendered(q.v) /\ q.seen = current
  <2>1. q \in Approving /\ q.op \in {"approve", "approve_saved"}
    BY <1>4, Kinds DEF TxInv, SavePdf, CommitApprove
  <2> QED BY <2>1 DEF UpToDate, Approving
<1>5. CASE SavePdf(r)
  <2>1. ApproveAborted(q.user, q.v)
    BY <1>4, <1>5 DEF SavePdf, ApproveAborted
  <2> QED BY <1>1, <1>4, <1>5, <2>1 DEF Reviewing
<1>6. CASE CommitApprove(r)
  <2>1. q.v \in DOMAIN file /\ file[q.v] = Rendered(q.v)
    BY <1>6 DEF CommitApprove, UpToDate
  <2>2. file = Insert(file, q.v, Rendered(q.v))
    BY <2>1 DEF Insert, TxInv, TxBasis, TypeOK
  <2>3. Approve(q.user, q.v)
    BY <1>4, <1>6, <2>2 DEF CommitApprove, Approve
  <2> QED BY <1>1, <1>4, <1>6, <2>3 DEF Reviewing
<1> QED BY <1>2, <1>3, <1>5, <1>6

LEMMA ContinueIsLifecycle ==
  ASSUME TxInv, NEW r \in Requests, UpToDate(req[r]), Continue(r)
  PROVE  [Next]_vars
<1>1. CASE CommitEngines(r)
  <2>1. CASE req[r].creates
    <3>1. GenerateAborted(req[r].user)
      BY <1>1, <2>1, Kinds DEF CommitEngines, GenerateAborted, Generating, TxInv
    <3>2. req[r].user \in Analysts
      BY <1>1, Kinds DEF CommitEngines, Generating, TxInv
    <3> QED BY <3>1, <3>2 DEF Next
  <2>2. CASE ~req[r].creates
    BY <1>1, <2>2 DEF CommitEngines, vars
  <2> QED BY <2>1, <2>2
<1>2. CASE (\E prev \in Rows \cup {NoVersion} : Assemble(r, prev)) \/ Flush(r)
  BY <1>2 DEF Assemble, Flush, vars
<1>3. ASSUME NEW v \in VersionId, NEW drafts \in Page, CommitGenerate(r, v, drafts)
      PROVE  Next
  BY <1>3, CommitGenerateIsLifecycle DEF Next
<1>4. CASE CommitSection(r)
  BY <1>4, CommitSectionIsLifecycle DEF Next
<1>5. CASE CommitSubmit(r) \/ CommitReject(r) \/ SavePdf(r) \/ CommitApprove(r)
  BY <1>5, ReviewIsLifecycle DEF Next
<1> QED BY <1>1, <1>2, <1>3, <1>4, <1>5 DEF Continue

\* While a request that is alone is busy, whatever steps is that request, or changes no table.
LEMMA AloneStep ==
  ASSUME SerialInv, [TxNext]_txVars, NEW r \in Requests, Busy(r), req[r].alone
  PROVE  [Next]_vars
<1>1. TxInv /\ UpToDate(req[r]) /\ \A p \in Requests \ {r} : ~Busy(p)
  BY DEF SerialInv, AloneUpToDate
<1>2. ASSUME NEW p \in Requests, Begin(p)
      PROVE  UNCHANGED vars
  BY <1>2, SerialBegin
<1>3. ASSUME NEW p \in Requests, Continue(p)
      PROVE  [Next]_vars
  <2>1. p = r
    BY <1>1, <1>3, SerialContinue
  <2> QED BY <1>1, <1>3, <2>1, ContinueIsLifecycle
<1>4. ASSUME NEW p \in Requests, RequestFails(p)
      PROVE  UNCHANGED vars
  BY <1>4 DEF RequestFails, vars
<1>5. ASSUME NEW json \in Snapshots, WorldChanges(json)
      PROVE  UNCHANGED vars
  BY <1>5 DEF WorldChanges, vars
<1>6. CASE UNCHANGED txVars
  BY <1>6 DEF txVars, vars
<1> QED BY <1>2, <1>3, <1>4, <1>5, <1>6 DEF TxNext

\* The steps of a generate_report, edit_section, acknowledge, submit_for_review or
\* decide_review request that overlaps no other have the effect ReportLifecycle gives them.
THEOREM AloneRequestsAreSerial == TxSpec => SerialWhenAlone
<1>1. SerialInv /\ [TxNext]_txVars =>
        [\A r \in Requests : req'[r] # req[r] /\ Busy(r) /\ req[r].alone => [Next]_vars]_txVars
  BY AloneStep
<1> QED BY <1>1, SerialInit, SerialStep, PTL DEF TxSpec, SerialWhenAlone

\* A request no other overlaps takes tables in order to tables in order, also after requests
\* that did overlap: what goes wrong with an open version, with the chain, with an unread
\* verdict or with a PDF goes wrong in a step of a request another one overlaps.
THEOREM AloneRequestsKeepOrder ==
  TxSpec =>
    [][\A r \in Requests : Busy(r) /\ req[r].alone =>
         (Versions => Versions') /\ (Contents => Contents')]_txVars
<1>1. SerialInv /\ [TxNext]_txVars =>
        [\A r \in Requests : Busy(r) /\ req[r].alone =>
           (Versions => Versions') /\ (Contents => Contents')]_txVars
  BY AloneStep, VersionsStep, ContentsStep
<1> QED BY <1>1, SerialInit, SerialStep, PTL DEF TxSpec

\* As long as requests come one at a time, and the project's data moves between them, the
\* split handlers implement the atomic ones ...
NoOverlap == \A r \in Requests : Busy(r) => req[r].alone

THEOREM WithoutOverlapLifecycle == TxSpec /\ []NoOverlap => Spec
<1>1. SerialInv /\ NoOverlap /\ [TxNext]_txVars => [Next]_vars
  <2> SUFFICES ASSUME SerialInv, NoOverlap, [TxNext]_txVars PROVE [Next]_vars
    OBVIOUS
  <2>1. ASSUME NEW r \in Requests, Busy(r)
        PROVE  [Next]_vars
    BY <2>1, AloneStep DEF NoOverlap
  <2>2. CASE \A r \in Requests : ~Busy(r)
    <3>1. ASSUME NEW r \in Requests, Begin(r)
          PROVE  UNCHANGED vars
      BY <3>1, SerialBegin
    <3>2. ASSUME NEW r \in Requests, Continue(r) \/ RequestFails(r)
          PROVE  FALSE
      BY <2>2, <3>2, SerialContinue DEF RequestFails
    <3>3. ASSUME NEW json \in Snapshots, WorldChanges(json)
          PROVE  UNCHANGED vars
      BY <3>3 DEF WorldChanges, vars
    <3>4. CASE UNCHANGED txVars
      BY <3>4 DEF txVars, vars
    <3> QED BY <3>1, <3>2, <3>3, <3>4 DEF TxNext
  <2> QED BY <2>1, <2>2
<1>2. TxInit => Init
  BY DEF TxInit
<1> QED BY <1>1, <1>2, SerialInit, SerialStep, PTL DEF TxSpec, Spec

\* ... and so keep what the atomic ones keep: one open version, one chain of numbers, no
\* unaccounted text before a reviewer, published PDFs that show what is published.
THEOREM WithoutOverlapInOrder ==
  TxSpec /\ []NoOverlap =>
    [](OneOpenVersion /\ VersionChain /\ ReviewedTextAccounted /\ PublishedPdfIsCurrent)
BY WithoutOverlapLifecycle, OneVersionOpen, VersionsChained, ReviewedTextsAccounted, PdfsCurrent,
   PTL
===============================================================================
