------------------------------- MODULE ReportTx -------------------------------
(***************************************************************************)
(* The report handlers as the database sees them: a request reads the rows *)
(* it needs into its session, decides on what it read, and later commits   *)
(* what it changed; other requests read and commit in between.             *)
(*                                                                         *)
(* The session is READ COMMITTED, no handler locks or re-reads a row, and  *)
(* a flush sends only the columns whose value differs from the one loaded  *)
(* (Merge).  A flushed UPDATE holds its row until the transaction ends,    *)
(* which matters to generate_report alone: it flushes before the LLM calls *)
(* and commits after them.  The trigger of migration fb6c16e56730 refuses  *)
(* any UPDATE of a published report_versions row.                          *)
(***************************************************************************)
EXTENDS ReportLifecycle

CONSTANT Requests   \* requests on this project that can be in progress at once

VARIABLES
  world,   \* the snapshot assemble_report_json would build now
  req      \* what each request in progress has read so far

txVars == <<row, section, file, current, world, req>>

Idle == [op |-> "idle"]

Busy(r) == req[r].op # "idle"

\* A new request; alone stays TRUE while no other request overlaps it.
Start(r, fields) ==
  /\ ~Busy(r)
  /\ req' = [q \in Requests |->
               IF q = r THEN [fields EXCEPT !.alone = \A p \in Requests \ {r} : ~Busy(p)]
               ELSE IF Busy(q) THEN [req[q] EXCEPT !.alone = FALSE] ELSE Idle]

Finish(r) == req' = [req EXCEPT ![r] = Idle]

\* Fault: a column set to None is left out of the UPDATE.
MergeSkipsNulls(stored, loaded, changed) ==
  [c \in DOMAIN stored |-> IF changed[c] # loaded[c] /\ changed[c] \notin {NoText, Nobody}
                           THEN changed[c] ELSE stored[c]]

\* What a flush of the object loaded as `loaded` and now `changed` leaves in a row.
Merge(stored, loaded, changed) ==
  [c \in DOMAIN stored |-> IF changed[c] # loaded[c] THEN changed[c] ELSE stored[c]]

\* Fault: the trigger was never installed.
NoTrigger(v) == FALSE

\* trg_report_versions_immutable raises on an UPDATE of v; the transaction then
\* rolls back, which is RequestFails.
TriggerRaises(v) == row[v].status = "published"

\* A generate_report waiting for its LLM holds the row it marked superseded.
Locked(v) == \E r \in Requests : req[r].op = "generate_llm" /\ req[r].updates /\ req[r].prev = v

CanUpdate(v) == ~Locked(v) /\ ~TriggerRaises(v)

(***************************************************************************)
(* generate_report: the gate, the commits of the engines and scenarios     *)
(* (with a first reports row), the assembly and the read of the latest     *)
(* version, the flush, and the commit after the last section.              *)
(***************************************************************************)
BeginGenerate(r, u, force) ==
  /\ u \in Analysts
  /\ world \in Incomplete => force
  /\ Start(r, [op |-> "generate", alone |-> TRUE, user |-> u,
               overridden |-> world \in Incomplete /\ force, creates |-> current = NoReport])
  /\ UNCHANGED <<row, section, file, current, world>>

\* canonical_project_id is unique: of two requests that found no reports row only
\* the first to commit one gets past this point.
CommitEngines(r) ==
  /\ req[r].op = "generate"
  /\ req[r].creates => current = NoReport
  /\ req' = [req EXCEPT ![r].op = "generate_ready"]
  /\ current' = IF req[r].creates THEN NoVersion ELSE current
  /\ UNCHANGED <<row, section, file, world>>

Assemble(r, prev) ==
  /\ req[r].op = "generate_ready"
  /\ IsLatest(prev)
  /\ req' = [req EXCEPT ![r] =
       [op |-> "generate_flush", alone |-> @.alone, user |-> @.user, json |-> world,
        overridden |-> @.overridden, prev |-> prev, number |-> NextNumber(prev),
        updates |-> prev \in Rows /\ row[prev].status \in NonTerminal]]
  /\ UNCHANGED <<row, section, file, current, world>>

Flush(r) ==
  /\ req[r].op = "generate_flush"
  /\ req[r].updates => CanUpdate(req[r].prev)
  /\ req' = [req EXCEPT ![r].op = "generate_llm"]
  /\ UNCHANGED <<row, section, file, current, world>>

\* Fault: the status assignment after the section loop is lost.
FlushedVersionLeftGenerating(q, drafts) ==
  [status |-> "generating", number |-> q.number, json |-> q.json, overridden |-> q.overridden,
   created_by |-> q.user, published_by |-> Nobody, supersedes |-> q.prev]

\* The new row, as request q read and drafted it.
FlushedVersion(q, drafts) ==
  [status |-> IF \A s \in Sections : Validate(drafts[s], q.json) = "passed"
              THEN "draft" ELSE "failed",
   number |-> q.number, json |-> q.json, overridden |-> q.overridden,
   created_by |-> q.user, published_by |-> Nobody, supersedes |-> q.prev]

AfterSuperseding(q) ==
  IF q.updates THEN [row EXCEPT ![q.prev].status = "superseded"] ELSE row

\* Fault: the number is taken from the latest version at the end, the pointer is not.
CommitGenerateRenumbered(r, v, drafts) ==
  LET q == req[r]
      number == NextNumber(CHOOSE w \in Rows \cup {NoVersion} : IsLatest(w))
  IN
    /\ q.op = "generate_llm"
    /\ v \notin Rows
    /\ row' = Insert(AfterSuperseding(q), v, [FlushedVersion(q, drafts) EXCEPT !.number = number])
    /\ section' = Insert(section, v, [s \in Sections |-> NewSection(drafts[s], q.json)])
    /\ current' = v
    /\ Finish(r)
    /\ UNCHANGED <<file, world>>

CommitGenerate(r, v, drafts) ==
  LET q == req[r] IN
    /\ q.op = "generate_llm"
    /\ v \notin Rows
    /\ row' = Insert(AfterSuperseding(q), v, FlushedVersion(q, drafts))
    /\ section' = Insert(section, v, [s \in Sections |-> NewSection(drafts[s], q.json)])
    /\ current' = v
    /\ Finish(r)
    /\ UNCHANGED <<file, world>>

(***************************************************************************)
(* edit_section and acknowledge_section_guardrail_failure.                 *)
(***************************************************************************)
BeginEdit(r, u, v, s, text) ==
  /\ u \in Analysts
  /\ row[v].status = "draft"
  /\ Start(r, [op |-> "edit", alone |-> TRUE, v |-> v, s |-> s, seen |-> section[v][s],
               new |-> [section[v][s] EXCEPT !.edited = text,
                                             !.edited_status = Validate(text, row[v].json),
                                             !.edited_by = u,
                                             !.acknowledged_by = Nobody,
                                             !.note = NoText]])
  /\ UNCHANGED <<row, section, file, current, world>>

BeginAcknowledge(r, u, v, s) ==
  /\ u \in Analysts
  /\ EffectiveStatus(section[v][s]) = "failed"
  /\ Start(r, [op |-> "acknowledge", alone |-> TRUE, v |-> v, s |-> s, seen |-> section[v][s],
               new |-> [section[v][s] EXCEPT !.acknowledged_by = u,
                                             !.note = EffectiveText(section[v][s])]])
  /\ UNCHANGED <<row, section, file, current, world>>

CommitSection(r) ==
  LET q == req[r] IN
    /\ q.op \in {"edit", "acknowledge"}
    /\ section' = [section EXCEPT ![q.v][q.s] = Merge(@, q.seen, q.new)]
    /\ Finish(r)
    /\ UNCHANGED <<row, file, current, world>>

(***************************************************************************)
(* submit_for_review and decide_review.                                    *)
(***************************************************************************)
BeginSubmit(r, u, v) ==
  /\ u \in Analysts
  /\ row[v].status = "draft"
  /\ \A s \in Sections : ~Unacknowledged(section[v][s])
  /\ Start(r, [op |-> "submit", alone |-> TRUE, v |-> v])
  /\ UNCHANGED <<row, section, file, current, world>>

CommitSubmit(r) ==
  LET q == req[r] IN
    /\ q.op = "submit"
    /\ CanUpdate(q.v)
    /\ row' = [row EXCEPT ![q.v].status = "in_review"]
    /\ Finish(r)
    /\ UNCHANGED <<section, file, current, world>>

BeginReject(r, u, v) ==
  /\ u \in Reviewers
  /\ row[v].status = "in_review"
  /\ Start(r, [op |-> "reject", alone |-> TRUE, v |-> v])
  /\ UNCHANGED <<row, section, file, current, world>>

CommitReject(r) ==
  LET q == req[r] IN
    /\ q.op = "reject"
    /\ CanUpdate(q.v)
    /\ row' = [row EXCEPT ![q.v].status = "draft"]
    /\ Finish(r)
    /\ UNCHANGED <<section, file, current, world>>

BeginApprove(r, u, v) ==
  /\ u \in Reviewers
  /\ row[v].status = "in_review"
  /\ Start(r, [op |-> "approve", alone |-> TRUE, user |-> u, v |-> v, page |-> Rendered(v),
               seen |-> current])
  /\ UNCHANGED <<row, section, file, current, world>>

SavePdf(r) ==
  LET q == req[r] IN
    /\ q.op = "approve"
    /\ file' = Insert(file, q.v, q.page)
    /\ req' = [req EXCEPT ![r].op = "approve_saved"]
    /\ UNCHANGED <<row, section, current, world>>

\* Fault: the approval may commit before its PDF is saved.
CommitApproveUnsaved(r) ==
  LET q == req[r] IN
    /\ q.op \in {"approve", "approve_saved"}
    /\ CanUpdate(q.v)
    /\ row' = [row EXCEPT ![q.v].status = "published", ![q.v].published_by = q.user]
    /\ current' = IF q.seen # q.v THEN q.v ELSE current
    /\ Finish(r)
    /\ UNCHANGED <<section, file, world>>

\* current_version_id is sent only if it was not v when the reports row was loaded.
CommitApprove(r) ==
  LET q == req[r] IN
    /\ q.op = "approve_saved"
    /\ CanUpdate(q.v)
    /\ row' = [row EXCEPT ![q.v].status = "published", ![q.v].published_by = q.user]
    /\ current' = IF q.seen # q.v THEN q.v ELSE current
    /\ Finish(r)
    /\ UNCHANGED <<section, file, world>>

(***************************************************************************)
(* A request ends without committing: an exception, the trigger, a unique  *)
(* violation, or the server dying under it.  And the project's data moves  *)
(* under an acquisition, an override or the clock.                         *)
(***************************************************************************)
RequestFails(r) ==
  /\ Busy(r)
  /\ Finish(r)
  /\ UNCHANGED <<row, section, file, current, world>>

WorldChanges(json) ==
  /\ json # world
  /\ world' = json
  /\ req' = [q \in Requests |-> IF Busy(q) THEN [req[q] EXCEPT !.alone = FALSE] ELSE Idle]
  /\ UNCHANGED <<row, section, file, current>>

TxInit ==
  /\ Init
  /\ world \in Snapshots
  /\ req = [r \in Requests |-> Idle]

Begin(r) ==
  \/ \E u \in Analysts, force \in BOOLEAN : BeginGenerate(r, u, force)
  \/ \E u \in Analysts, v \in Rows :
       \/ \E s \in Sections, text \in Texts : BeginEdit(r, u, v, s, text)
       \/ \E s \in Sections : BeginAcknowledge(r, u, v, s)
       \/ BeginSubmit(r, u, v)
  \/ \E u \in Reviewers, v \in Rows : BeginReject(r, u, v) \/ BeginApprove(r, u, v)

Continue(r) ==
  \/ CommitEngines(r)
  \/ \E prev \in Rows \cup {NoVersion} : Assemble(r, prev)
  \/ Flush(r)
  \/ \E v \in VersionId, drafts \in Page : CommitGenerate(r, v, drafts)
  \/ CommitSection(r) \/ CommitSubmit(r) \/ CommitReject(r) \/ SavePdf(r) \/ CommitApprove(r)

TxNext ==
  \/ \E r \in Requests : Begin(r) \/ Continue(r) \/ RequestFails(r)
  \/ \E json \in Snapshots : WorldChanges(json)

TxSpec == TxInit /\ [][TxNext]_txVars

(***************************************************************************)
(* Properties that survive overlapping requests.                           *)
(***************************************************************************)

\* The tables keep their types and every request in progress is about rows that exist.
TxTypeOK ==
  /\ TypeOK
  /\ world \in Snapshots
  /\ \A r \in Requests :
       /\ req[r].op \in {"idle", "generate", "generate_ready", "generate_flush", "generate_llm",
                         "edit", "acknowledge", "submit", "reject", "approve", "approve_saved"}
       /\ req[r].op \in {"edit", "acknowledge", "submit", "reject", "approve", "approve_saved"}
            => req[r].v \in Rows

\* However requests overlap, the row of a published version never changes again.
PublishedRowFrozen ==
  [][\A v \in Rows : row[v].status = "published" => row'[v] = row[v]]_txVars

\* However approvals overlap or die half-way, a published version has a PDF to download.
PublishedHasPdf ==
  \A v \in Rows : row[v].status = "published" => v \in DOMAIN file

\* Overlapping generations may fork the chain of versions but never tie it in a knot: a
\* version is numbered one above the version it supersedes.
NumbersFollowChain ==
  \A v \in Rows :
    IF row[v].supersedes = NoVersion THEN row[v].number = 1
    ELSE /\ row[v].supersedes \in Rows
         /\ row[v].number = row[row[v].supersedes].number + 1

\* A request no other request overlaps has, step by step, the effect ReportLifecycle
\* gives it: the atomic model is what the handlers do when they are not disturbed.
SerialWhenAlone ==
  [][\A r \in Requests : req'[r] # req[r] /\ Busy(r) /\ req[r].alone => [Next]_vars]_txVars

(***************************************************************************)
(* Properties that the documentation states and overlapping requests break.*)
(***************************************************************************)

\* edit_section: "an edit is held to the identical traceability standard as LLM output,
\* not a lesser one": the verdict stored beside an edited text is that text's.
EditedVerdictIsOfText ==
  \A v \in Rows, s \in Sections :
    LET sec == section[v][s]
    IN  sec.edited # NoText => sec.edited_status = Validate(sec.edited, row[v].json)

\* ADR-010: "transitions are enforced server-side ... invalid transitions rejected": a
\* version is published out of review only, and a superseded version is finished.
ValidTransitions ==
  [][\A v \in Rows :
       <<row[v].status, row'[v].status>> \in
         {<<st, st>> : st \in Statuses}
           \cup {<<st, "superseded">> : st \in NonTerminal}
           \cup {<<"draft", "in_review">>, <<"in_review", "draft">>,
                 <<"in_review", "published">>}]_txVars
==============================================================================
