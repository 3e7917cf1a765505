--------------------------- MODULE ReportLifecycle ---------------------------
(***************************************************************************)
(* The life cycle of one project's report (app/reporting/service.py), with *)
(* each request handler taken as one atomic step: what the code guarantees *)
(* while requests on a project do not overlap.  ReportTx splits the same   *)
(* handlers into their reads and their commits.                            *)
(*                                                                         *)
(* Columns no property depends on (timestamps, review comments, provider   *)
(* names, guardrail reports) are left out.                                 *)
(***************************************************************************)
EXTENDS Integers, Tables

CONSTANTS
  VersionId,   \* primary keys report_versions rows may get; bounds the number of versions
  Sections,    \* SECTION_NAMES
  Texts,       \* section texts an LLM or an analyst may write
  Snapshots,   \* values generated_json may take
  Traceable,   \* the <<text, snapshot>> pairs guardrail.validate passes
  Incomplete,  \* snapshots for which check_completeness reports an issue
  Analysts,    \* users with report.create, report.edit_draft, report.submit_review
  Reviewers,   \* users with report.approve_publish, report.reject
  NoVersion, NoReport, NoText, Nobody  \* SQL NULLs and the missing reports row

ASSUME TablesAssumption ==
  /\ NoVersion \notin VersionId
  /\ NoReport \notin VersionId \cup {NoVersion}
  /\ NoText \notin Texts
  /\ Nobody \notin Analysts \cup Reviewers
  /\ Incomplete \subseteq Snapshots

VARIABLES
  row,      \* report_versions
  section,  \* report_sections of each version
  file,     \* rendered PDFs in object storage, by version
  current   \* reports.current_version_id, or NoReport before the reports row exists

vars == <<row, section, file, current>>

Rows == DOMAIN row

Statuses == {"draft", "failed", "in_review", "published", "superseded"}

\* GENERATING is overwritten before the only commit that would show it.
NonTerminal == {"draft", "failed", "in_review"}

VersionRow ==
  [status        : Statuses,
   number        : Nat \ {0},
   json          : Snapshots,
   overridden    : BOOLEAN,
   created_by    : Analysts,
   published_by  : Reviewers \cup {Nobody},
   supersedes    : VersionId \cup {NoVersion}]

\* note stands for guardrail_acknowledgment_note: the text it was written about.
SectionRow ==
  [generated        : Texts,
   generated_status : {"passed", "failed"},
   edited           : Texts \cup {NoText},
   edited_status    : {"passed", "failed", "none"},
   edited_by        : Analysts \cup {Nobody},
   acknowledged_by  : Analysts \cup {Nobody},
   note             : Texts \cup {NoText}]

Page == [Sections -> Texts]

(***************************************************************************)
(* The guardrail and the columns derived from a section row.               *)
(***************************************************************************)
Validate(text, json) == IF <<text, json>> \in Traceable THEN "passed" ELSE "failed"

EffectiveText(sec) == IF sec.edited # NoText THEN sec.edited ELSE sec.generated

EffectiveStatus(sec) == IF sec.edited # NoText THEN sec.edited_status ELSE sec.generated_status

Unacknowledged(sec) == EffectiveStatus(sec) = "failed" /\ sec.acknowledged_by = Nobody

Rendered(v) == [s \in Sections |-> EffectiveText(section[v][s])]

\* Fault: the query's order_by loses its desc().
IsLatestAscending(v) ==
  IF Rows = {} THEN v = NoVersion
  ELSE v \in Rows /\ \A w \in Rows : row[v].number <= row[w].number

\* v is what get_latest_report_version may return: a row with the highest number (any
\* of them, should several share it), or None when there is no row.
IsLatest(v) ==
  IF Rows = {} THEN v = NoVersion
  ELSE v \in Rows /\ \A w \in Rows : row[w].number <= row[v].number

NextNumber(prev) == IF prev = NoVersion THEN 1 ELSE row[prev].number + 1

(***************************************************************************)
(* generate_report.  The bounded regeneration loop ends with a text that   *)
(* passed, or with the last of three that failed: either way with some     *)
(* text and that text's verdict.                                           *)
(***************************************************************************)
NewSection(text, json) ==
  [generated        |-> text,
   generated_status |-> Validate(text, json),
   edited           |-> NoText,
   edited_status    |-> "none",
   edited_by        |-> Nobody,
   acknowledged_by  |-> Nobody,
   note             |-> NoText]

\* Fault: the status assignment after the section loop is lost.
NewVersionLeftGenerating(u, prev, json, force, drafts) ==
  [status       |-> "generating",
   number       |-> NextNumber(prev),
   json         |-> json,
   overridden   |-> json \in Incomplete /\ force,
   created_by   |-> u,
   published_by |-> Nobody,
   supersedes   |-> prev]

NewVersion(u, prev, json, force, drafts) ==
  [status       |-> IF \A s \in Sections : Validate(drafts[s], json) = "passed"
                    THEN "draft" ELSE "failed",
   number       |-> NextNumber(prev),
   json         |-> json,
   overridden   |-> json \in Incomplete /\ force,
   created_by   |-> u,
   published_by |-> Nobody,
   supersedes   |-> prev]

\* Fault: IN_REVIEW and FAILED are missing from _NON_TERMINAL_STATUSES.
SupersedingDraftsOnly(prev) ==
  IF prev \in Rows /\ row[prev].status = "draft"
  THEN [row EXCEPT ![prev].status = "superseded"] ELSE row

\* Fault: regeneration also marks the published version it follows.
SupersedingPublished(prev) ==
  IF prev \in Rows THEN [row EXCEPT ![prev].status = "superseded"] ELSE row

\* The table after the version generation replaces, if still open, is closed.
Superseding(prev) ==
  IF prev \in Rows /\ row[prev].status \in NonTerminal
  THEN [row EXCEPT ![prev].status = "superseded"] ELSE row

GenerateReport(u, v, prev, json, force, drafts) ==
  /\ u \in Analysts
  /\ v \notin Rows
  /\ json \in Incomplete => force
  /\ IsLatest(prev)
  /\ row' = Insert(Superseding(prev), v, NewVersion(u, prev, json, force, drafts))
  /\ section' = Insert(section, v, [s \in Sections |-> NewSection(drafts[s], json)])
  /\ current' = v
  /\ UNCHANGED file

\* An engine, the assembly or the LLM provider raises after run_all_engines has
\* committed: of this request only a first reports row survives the rollback.
GenerateAborted(u) ==
  /\ u \in Analysts
  /\ current = NoReport
  /\ current' = NoVersion
  /\ UNCHANGED <<row, section, file>>

(***************************************************************************)
(* edit_section and acknowledge_section_guardrail_failure.                 *)
(***************************************************************************)
\* Fault: an edit inherits the acknowledgement of the text it replaces.
EditKeepsAcknowledgement(u, v, s, text) ==
  /\ u \in Analysts
  /\ row[v].status = "draft"
  /\ section' = [section EXCEPT ![v][s] =
                   [@ EXCEPT !.edited = text,
                             !.edited_status = Validate(text, row[v].json),
                             !.edited_by = u]]
  /\ UNCHANGED <<row, file, current>>

\* Fault: an edit overwrites the generated text.
EditInPlace(u, v, s, text) ==
  /\ u \in Analysts
  /\ row[v].status = "draft"
  /\ section' = [section EXCEPT ![v][s] =
                   [NewSection(text, row[v].json) EXCEPT !.edited_by = u]]
  /\ UNCHANGED <<row, file, current>>

EditSection(u, v, s, text) ==
  /\ u \in Analysts
  /\ row[v].status = "draft"
  /\ section' = [section EXCEPT ![v][s] =
                   [@ EXCEPT !.edited = text,
                             !.edited_status = Validate(text, row[v].json),
                             !.edited_by = u,
                             !.acknowledged_by = Nobody,
                             !.note = NoText]]
  /\ UNCHANGED <<row, file, current>>

AcknowledgeFailure(u, v, s) ==
  /\ u \in Analysts
  /\ EffectiveStatus(section[v][s]) = "failed"
  /\ section' = [section EXCEPT ![v][s] =
                   [@ EXCEPT !.acknowledged_by = u, !.note = EffectiveText(section[v][s])]]
  /\ UNCHANGED <<row, file, current>>

(***************************************************************************)
(* submit_for_review and decide_review.                                    *)
(***************************************************************************)
SubmitForReview(u, v) ==
  /\ u \in Analysts
  /\ row[v].status = "draft"
  /\ \A s \in Sections : ~Unacknowledged(section[v][s])
  /\ row' = [row EXCEPT ![v].status = "in_review"]
  /\ UNCHANGED <<section, file, current>>

\* Fault: a PDF already in storage is taken for this approval's.
ApproveReusesFile(u, v) ==
  /\ u \in Reviewers
  /\ row[v].status = "in_review"
  /\ file' = IF v \in DOMAIN file THEN file ELSE Insert(file, v, Rendered(v))
  /\ row' = [row EXCEPT ![v].status = "published", ![v].published_by = u]
  /\ current' = v
  /\ UNCHANGED section

\* Fault: only published versions are refused, not every one out of review.
ApproveUnlessPublished(u, v) ==
  /\ u \in Reviewers
  /\ row[v].status # "published"
  /\ file' = Insert(file, v, Rendered(v))
  /\ row' = [row EXCEPT ![v].status = "published", ![v].published_by = u]
  /\ current' = v
  /\ UNCHANGED section

Approve(u, v) ==
  /\ u \in Reviewers
  /\ row[v].status = "in_review"
  /\ file' = Insert(file, v, Rendered(v))
  /\ row' = [row EXCEPT ![v].status = "published", ![v].published_by = u]
  /\ current' = v
  /\ UNCHANGED section

\* The PDF is in object storage and the commit that should follow fails.
ApproveAborted(u, v) ==
  /\ u \in Reviewers
  /\ row[v].status = "in_review"
  /\ file' = Insert(file, v, Rendered(v))
  /\ UNCHANGED <<row, section, current>>

Reject(u, v) ==
  /\ u \in Reviewers
  /\ row[v].status = "in_review"
  /\ row' = [row EXCEPT ![v].status = "draft"]
  /\ UNCHANGED <<section, file, current>>

(***************************************************************************)
(* The specification.                                                      *)
(***************************************************************************)
Init ==
  /\ row = [v \in {} |-> NoVersion]
  /\ section = [v \in {} |-> NoVersion]
  /\ file = [v \in {} |-> NoVersion]
  /\ current = NoReport

Generation ==
  \E u \in Analysts, v \in VersionId, prev \in Rows \cup {NoVersion} :
    \E json \in Snapshots, force \in BOOLEAN, drafts \in Page :
      GenerateReport(u, v, prev, json, force, drafts)

Editing ==
  \E u \in Analysts, v \in Rows, s \in Sections :
    \/ \E text \in Texts : EditSection(u, v, s, text)
    \/ AcknowledgeFailure(u, v, s)

Reviewing ==
  \E v \in Rows :
    \/ \E u \in Analysts : SubmitForReview(u, v)
    \/ \E u \in Reviewers : Approve(u, v) \/ ApproveAborted(u, v) \/ Reject(u, v)

Next ==
  \/ Generation
  \/ \E u \in Analysts : GenerateAborted(u)
  \/ Editing
  \/ Reviewing

Spec == Init /\ [][Next]_vars

(***************************************************************************)
(* Properties.                                                             *)
(***************************************************************************)

\* Every row of the tables, the stored PDFs and the pointer have their types,
\* and each version row has exactly its section rows.
TypeOK ==
  /\ Rows \subseteq VersionId
  /\ row \in [Rows -> VersionRow]
  /\ section \in [Rows -> [Sections -> SectionRow]]
  /\ DOMAIN file \subseteq Rows
  /\ file \in [DOMAIN file -> Page]
  /\ current \in VersionId \cup {NoVersion, NoReport}

\* generate_report, submit_for_review and decide_review together keep at most one
\* version of a report open for work, namely the one numbered last, and
\* current_version_id points at the version numbered last whatever its status.
OneOpenVersion ==
  /\ \A v \in Rows : row[v].status \in NonTerminal => IsLatest(v)
  /\ \A v, w \in Rows : row[v].status \in NonTerminal /\ row[w].status \in NonTerminal => v = w
  /\ Rows # {} => IsLatest(current)

\* The versions of a report form one chain: numbers 1, 2, 3, ... are each given
\* once, and supersedes_version_id is the version numbered just before.
VersionChain ==
  /\ \A v, w \in Rows : row[v].number = row[w].number => v = w
  /\ \A v \in Rows :
       IF row[v].number = 1 THEN row[v].supersedes = NoVersion
       ELSE /\ row[v].supersedes \in Rows
            /\ row[v].number = row[row[v].supersedes].number + 1

\* A text is accounted for when the guardrail passes it against the version's own
\* frozen generated_json, or an analyst acknowledged the failure of this very text.
Accounted(v, s) ==
  LET sec == section[v][s]
  IN  \/ <<EffectiveText(sec), row[v].json>> \in Traceable
      \/ sec.acknowledged_by # Nobody /\ sec.note = EffectiveText(sec)

\* Nothing reaches a reviewer or the Investment Committee, by any path of edits,
\* acknowledgements, rejections and resubmissions, with a figure in it that neither
\* traces to the frozen data nor was acknowledged for that text.
ReviewedTextAccounted ==
  \A v \in Rows : row[v].status \in {"in_review", "published"} =>
    \A s \in Sections : Accounted(v, s)

\* The PDF of a published version exists and shows exactly the effective text of its
\* sections, even when an earlier approval saved a PDF and then failed to commit.
PublishedPdfIsCurrent ==
  \A v \in Rows : row[v].status = "published" =>
    v \in DOMAIN file /\ file[v] = Rendered(v)

\* SAD S16 gives a failed version "a defined recovery path (manual rewrite)": some
\* analyst can write over a section of it.  edit_section accepts drafts only.
FailedIsRewritable ==
  \A v \in Rows : row[v].status = "failed" =>
    \E u \in Analysts, s \in Sections, text \in Texts : ENABLED EditSection(u, v, s, text)

\* No step, of any handler, changes the row of a published version, the text or the
\* verdict of one of its sections, or its PDF.
PublishedFrozen ==
  [][\A v \in Rows : row[v].status = "published" =>
       /\ row'[v] = row[v]
       /\ Rendered(v)' = Rendered(v)
       /\ \A s \in Sections : EffectiveStatus(section'[v][s]) = EffectiveStatus(section[v][s])
       /\ file'[v] = file[v]]_vars

\* What the LLM wrote and the guardrail said of it stays inspectable for ever, and so
\* does the frozen input: edits overlay them and regeneration leaves them alone.
OriginalKept ==
  [][\A v \in Rows :
       /\ row'[v].json = row[v].json
       /\ \A s \in Sections :
            /\ section'[v][s].generated = section[v][s].generated
            /\ section'[v][s].generated_status = section[v][s].generated_status]_vars

(***************************************************************************)
(* The editions a reader sees: numbers stand for versions.                 *)
(***************************************************************************)
Published == {v \in Rows : row[v].status = "published"}

Issued == IF Rows = {} THEN 0 ELSE row[CHOOSE v \in Rows : IsLatest(v)].number

Archived ==
  [n \in {row[v].number : v \in Published} |->
     file[CHOOSE v \in Published : row[v].number = n]]

Archive == INSTANCE PublishedArchive WITH
  Documents <- Page,
  issued <- Issued,
  open <- \E v \in Rows : row[v].status \in NonTerminal,
  archive <- Archived

\* The handlers implement the archive of numbered editions: every step opens the next
\* edition, files the open one for good, or shows a reader no change at all.
ImplementsArchive == Archive!Spec
=============================================================================
