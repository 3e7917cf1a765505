-------------------------------- MODULE FieldTx --------------------------------
(***************************************************************************)
(* The writers of one field as the database sees them.  An acquisition     *)
(* writes it once for each source that delivers it, a document ingestion   *)
(* at most once, an override once; each in one transaction, which reads    *)
(* the current row, decides on what it read, flushes, and goes on to other *)
(* fields and sources before it commits.                                   *)
(*                                                                         *)
(* Sessions are READ COMMITTED: a SELECT sees what is committed and what   *)
(* its own transaction flushed.  A flushed UPDATE holds its row to the end *)
(* of the transaction; nothing else is locked, so an INSERT beside it is   *)
(* not.  A SELECT for the current row that finds two raises.               *)
(***************************************************************************)
EXTENDS DataPoints

CONSTANTS
  Requests,   \* requests on this field that can be in progress at once
  DocId,      \* storage keys of uploads, each a new UUID; bounds their number
  MaxBegun    \* bound: transactions begun

ASSUME TxAssumption == MaxBegun \in Nat

VARIABLES
  stored,     \* keys of the files in object storage
  document,   \* documents rows, each with its ocr_jobs row
  req,        \* requests in progress
  begun,      \* history: how many there were
  late        \* history: rows of transactions others overtook by committing first

fieldVars == <<point, log, detail>>
txVars == <<fieldVars, stored, document, req, begun, late>>

DocumentRow ==
  [job  : {"success", "failed"},
   rows : SUBSET PointId]          \* data_points rows with this job's id

Idle == [op |-> "idle"]

Busy(r) == req[r].op # "idle"

At(r, step) == Busy(r) /\ req[r].step = step

New(r) ==
  /\ ~Busy(r)
  /\ begun < MaxBegun
  /\ begun' = begun + 1

Step(r, q) == req' = [req EXCEPT ![r] = q]

\* Between writes nothing of the last one is remembered.
NoWrite == [src |-> Manual, value |-> NoPoint, seen |-> NoPoint, loaded |-> NoPoint]

\* A transaction that has written nothing; todo are the writers it may still write as.
Begin(r, op, todo) ==
  /\ New(r)
  /\ Step(r, [op |-> op, step |-> IF op = "ingest" THEN "save" ELSE "next", todo |-> todo,
              write |-> NoWrite, doc |-> NoPoint, rows |-> [p \in {} |-> NoPoint],
              lost |-> [p \in {} |-> NoPoint], entries |-> {}, overtaken |-> FALSE])
  /\ UNCHANGED <<fieldVars, stored, document, late>>

(***************************************************************************)
(* What a transaction sees, and what it decides.                           *)
(***************************************************************************)
Losing(table, lost) ==
  [p \in DOMAIN table |->
     IF p \in DOMAIN lost THEN [table[p] EXCEPT !.is_current = FALSE, !.status = lost[p]]
     ELSE table[p]]

Visible(r) ==
  IF ~Busy(r) THEN point ELSE
  LET committed == Losing(point, req[r].lost)
      own == req[r].rows
  IN  [p \in DOMAIN committed \cup DOMAIN own |-> IF p \in DOMAIN own THEN own[p] ELSE committed[p]]

VisibleLog(r) == IF Busy(r) THEN log \cup req[r].entries ELSE log

\* An override's details are written with its row.
VisibleDetail(r) ==
  IF Busy(r) /\ req[r].op = "override"
  THEN [p \in DOMAIN detail \cup DOMAIN req[r].rows |->
          IF p \in DOMAIN detail THEN detail[p] ELSE [reviewed_by |-> Nobody, approved |-> FALSE]]
  ELSE detail

CurrentIn(table) == {p \in DOMAIN table : table[p].is_current}

\* The row an UPDATE of another transaction holds until it ends.
Locked(r, p) == \E o \in Requests \ {r} : Busy(o) /\ p \in DOMAIN req[o].lost

\* How the write of q stands to the row it has loaded.
Outcome(q) ==
  IF q.write.seen = NoPoint THEN "first"
  ELSE IF q.op = "override" THEN "overridden"
  ELSE IF q.write.loaded.source = q.write.src THEN "superseded"
  ELSE IF Rank(q.write.src) < Rank(q.write.loaded.source) THEN "wins"
  ELSE "loses"

StatusOfLoser(q) ==
  IF Outcome(q) \in {"overridden", "superseded"} THEN Outcome(q)
  ELSE IF q.write.loaded.value = q.write.value THEN "corroborated"
  ELSE "conflicting"

\* Fault: the current row loses its place to a delivery that does not take it.
UpdatesAlways(q) == Outcome(q) # "first"

\* The current row is updated in any case but these.
Updates(q) == Outcome(q) \notin {"first", "loses"}

\* Fault: the first row of a field is version zero.
NewRowFromZero(q) ==
  LET status == IF Outcome(q) = "loses" THEN StatusOfLoser(q) ELSE "active" IN
    [source     |-> q.write.src,
     value      |-> q.write.value,
     version    |-> IF q.write.seen = NoPoint THEN 0 ELSE q.write.loaded.version + 1,
     previous   |-> q.write.seen,
     status     |-> status,
     is_current |-> status = "active"]

NewRow(q) ==
  LET status == IF Outcome(q) = "loses" THEN StatusOfLoser(q) ELSE "active" IN
    [source     |-> q.write.src,
     value      |-> q.write.value,
     version    |-> IF q.write.seen = NoPoint THEN 1 ELSE q.write.loaded.version + 1,
     previous   |-> q.write.seen,
     status     |-> status,
     is_current |-> status = "active"]

\* Fault: sources that agree are logged as a conflict.
EntriesAlways(q, p) ==
  IF Outcome(q) \in {"wins", "loses"}
  THEN {IF Outcome(q) = "wins" THEN <<p, q.write.seen>> ELSE <<q.write.seen, p>>}
  ELSE {}

Entries(q, p) ==
  IF Outcome(q) \in {"wins", "loses"} /\ q.write.loaded.value # q.write.value
  THEN {IF Outcome(q) = "wins" THEN <<p, q.write.seen>> ELSE <<q.write.seen, p>>}
  ELSE {}

(***************************************************************************)
(* write_field and write_override.                                         *)
(***************************************************************************)
\* A source delivers the field; get_current_data_point finds one row or none, or raises.
ReadCurrent(r, src, value, seen) ==
  /\ At(r, "next")
  /\ src \in req[r].todo
  /\ CurrentIn(Visible(r)) = IF seen = NoPoint THEN {} ELSE {seen}
  /\ Step(r, [req[r] EXCEPT !.step = "flush", !.todo = @ \ {src},
                            !.write = [src |-> src, value |-> value, seen |-> seen,
                                       loaded |-> IF seen = NoPoint THEN NoPoint
                                                  ELSE Visible(r)[seen]]])
  /\ UNCHANGED <<fieldVars, stored, document, late, begun>>

\* Fault: the row that lost its place is not flushed.
FlushInsertOnly(r, p) ==
  LET q == req[r] IN
    /\ At(r, "flush")
    /\ p \notin Points /\ \A o \in Requests : Busy(o) => p \notin DOMAIN req[o].rows
    /\ Step(r, [q EXCEPT !.step = "next", !.write = NoWrite, !.rows = Insert(@, p, NewRow(q)),
                         !.entries = @ \cup Entries(q, p)])
    /\ UNCHANGED <<fieldVars, stored, document, late, begun>>

\* The UPDATE waits for its row; the row it may be of this transaction's own.
Flush(r, p) ==
  LET q == req[r]
      own == q.write.seen \in DOMAIN q.rows
  IN
    /\ At(r, "flush")
    /\ p \notin Points /\ \A o \in Requests : Busy(o) => p \notin DOMAIN req[o].rows
    /\ Updates(q) => ~Locked(r, q.write.seen)
    /\ Step(r, [q EXCEPT
         !.step = "next", !.write = NoWrite,
         !.rows = Insert(IF Updates(q) /\ own
                         THEN Losing(@, [l \in {q.write.seen} |-> StatusOfLoser(q)]) ELSE @,
                         p, NewRow(q)),
         !.lost = IF Updates(q) /\ ~own THEN Insert(@, q.write.seen, StatusOfLoser(q)) ELSE @,
         !.entries = @ \cup Entries(q, p)])
    /\ UNCHANGED <<fieldVars, stored, document, late, begun>>

(***************************************************************************)
(* ingest_document, up to what it writes.                                  *)
(***************************************************************************)
\* Fault: the file is stored once the rows are committed, if all goes well.
SaveFileLater(r, d, text) ==
  /\ At(r, "save")
  /\ d \notin stored
  /\ \A o \in Requests : Busy(o) => req[o].doc # d
  /\ Step(r, [req[r] EXCEPT !.doc = d, !.step = IF text THEN "next" ELSE "failed"])
  /\ UNCHANGED <<fieldVars, stored, document, late, begun>>

\* The upload is stored and read; text is whether the OCR engine gets through.
SaveFile(r, d, text) ==
  /\ At(r, "save")
  /\ d \notin stored
  /\ stored' = stored \cup {d}
  /\ Step(r, [req[r] EXCEPT !.doc = d, !.step = IF text THEN "next" ELSE "failed"])
  /\ UNCHANGED <<fieldVars, document, late, begun>>

(***************************************************************************)
(* The ends of a transaction.  Rows the source did not deliver, or whose   *)
(* field the document does not show, are left unwritten.                   *)
(***************************************************************************)
\* It has read the field, or the sign-off of one of its overrides.
Touched(q) == q.step \in {"flush", "signed"} \/ DOMAIN q.rows # {}

Wrote(q) == q.op = "review" \/ DOMAIN q.rows # {}

\* If it wrote, those that had touched the field before have now been overtaken.
Ends(r) ==
  req' = [o \in Requests |->
            IF o = r THEN Idle
            ELSE IF Busy(o) /\ Touched(req[o]) /\ Wrote(req[r])
                 THEN [req[o] EXCEPT !.overtaken = TRUE]
            ELSE req[o]]

Commit(r) ==
  LET q == req[r] IN
    /\ At(r, "next") \/ At(r, "failed")
    /\ q.op = "override" => q.todo = {}
    /\ point' = Visible(r)
    /\ log' = VisibleLog(r)
    /\ detail' = VisibleDetail(r)
    /\ late' = IF q.overtaken THEN late \cup DOMAIN q.rows ELSE late
    /\ document' = IF q.op = "ingest"
                   THEN Insert(document, q.doc,
                               [job |-> IF q.step = "failed" THEN "failed" ELSE "success",
                                rows |-> DOMAIN q.rows])
                   ELSE document
    /\ Ends(r)
    /\ UNCHANGED <<stored, begun>>

\* Fault: the check that the override has not been reviewed is left out.
BeginReviewAgain(r, u, p, approved) ==
  /\ New(r)
  /\ RequiresReview
  /\ Step(r, [op |-> "review", step |-> "signed", point |-> p, overtaken |-> FALSE,
              signed |-> [reviewed_by |-> u, approved |-> approved],
              rows |-> [l \in {} |-> NoPoint], lost |-> [l \in {} |-> NoPoint],
              entries |-> {}, doc |-> NoPoint])
  /\ UNCHANGED <<fieldVars, stored, document, late>>

\* review_override: the sign-off read as missing is written whatever is there by then.
BeginReview(r, u, p, approved) ==
  /\ New(r)
  /\ RequiresReview
  /\ detail[p].reviewed_by = Nobody
  /\ Step(r, [op |-> "review", step |-> "signed", point |-> p, overtaken |-> FALSE,
              signed |-> [reviewed_by |-> u, approved |-> approved],
              rows |-> [l \in {} |-> NoPoint], lost |-> [l \in {} |-> NoPoint],
              entries |-> {}, doc |-> NoPoint])
  /\ UNCHANGED <<fieldVars, stored, document, late>>

CommitReview(r) ==
  /\ At(r, "signed")
  /\ detail' = [detail EXCEPT ![req[r].point] = req[r].signed]
  /\ Ends(r)
  /\ UNCHANGED <<point, log, stored, document, late, begun>>

\* Two current rows, a value that does not convert, a broken connection: all is undone but
\* the file.
Abort(r) ==
  /\ Busy(r)
  /\ Step(r, Idle)
  /\ UNCHANGED <<fieldVars, stored, document, late, begun>>

TxInit ==
  /\ Init
  /\ stored = {}
  /\ document = [d \in {} |-> NoPoint]
  /\ begun = 0
  /\ late = {}
  /\ req = [r \in Requests |-> Idle]

TxStep(r) ==
  \/ Begin(r, "acquire", Sources \ {Manual})
  \/ \E src \in Sources : Begin(r, "ingest", {src})
  \/ Begin(r, "override", {Manual})
  \/ \E src \in Sources, value \in Values, seen \in PointId \cup {NoPoint} :
       ReadCurrent(r, src, value, seen)
  \/ \E p \in PointId : Flush(r, p)
  \/ \E d \in DocId, text \in BOOLEAN : SaveFile(r, d, text)
  \/ \E u \in Reviewers, p \in DOMAIN detail, approved \in BOOLEAN :
       BeginReview(r, u, p, approved)
  \/ Commit(r)
  \/ CommitReview(r)
  \/ Abort(r)

TxNext == \E r \in Requests : TxStep(r)

TxSpec == TxInit /\ [][TxNext]_txVars

(***************************************************************************)
(* Properties.                                                             *)
(***************************************************************************)

\* The tables keep their types however writers overlap; no row is held by two of them.
TxTypeOK ==
  /\ TypeOK
  /\ begun \in 0 .. MaxBegun
  /\ late \subseteq Points
  /\ document \in [DOMAIN document -> DocumentRow]
  /\ \A r, o \in Requests : r # o /\ Busy(r) /\ Busy(o) =>
       /\ DOMAIN req[r].rows \intersect DOMAIN req[o].rows = {}
       /\ DOMAIN req[r].lost \intersect DOMAIN req[o].lost = {}

\* get_current_data_point assumes one current row.  A second one only ever comes from a
\* transaction that was overtaken: of the rows the others wrote at most one is current.
SecondOnlyWhenOvertaken == Cardinality(CurrentIn(point) \ late) <= 1

\* A field that has a value in force keeps one, whatever overlaps and whatever is undone;
\* and what overlap doubled nothing takes back.
NeverFewerCurrent ==
  [][Cardinality(CurrentIn(point')) >= Cardinality(CurrentIn(point))]_txVars

OvertakenEnds == \E r \in Requests : Busy(r) /\ req[r].overtaken /\ req'[r] = Idle

\* Append-only under overlap: no row's content changes, none is made current again, no log
\* entry goes; why a row lost its place and how an override was reviewed are said anew only
\* by a transaction that was overtaken.
HistoryKept ==
  [][/\ \A p \in Points :
          /\ point'[p] = [point[p] EXCEPT !.is_current = point'[p].is_current,
                                          !.status = point'[p].status]
          /\ point'[p] # point[p] => ~point'[p].is_current
          /\ point'[p] # point[p] => point[p].is_current \/ OvertakenEnds
     /\ log \subseteq log'
     /\ \A p \in DOMAIN detail :
          detail[p].reviewed_by # Nobody /\ detail'[p] # detail[p] => OvertakenEnds]_txVars

\* A document on record has its file, whichever step failed; an OCR job that failed left no
\* values, and the values of one that succeeded are there.
DocumentsWhole ==
  \A d \in DOMAIN document :
    /\ d \in stored
    /\ document[d].rows \subseteq Points
    /\ document[d].job = "failed" => document[d].rows = {}

\* From the moment it reads the field, a transaction nobody overtakes takes, on what it sees,
\* the steps of DataPoints, one for each write and sign-off; its commit shows everyone what
\* it saw, and if it ends otherwise it leaves nothing.
Seen(r) == INSTANCE DataPoints WITH
  point <- Visible(r), log <- VisibleLog(r), detail <- VisibleDetail(r)

SerialUntilOvertaken ==
  [][\A r \in Requests :
       Busy(r) /\ ~req[r].overtaken /\ (req'[r] = Idle \/ ~req'[r].overtaken) =>
         \/ UNCHANGED <<Visible(r), VisibleLog(r), VisibleDetail(r)>>
         \/ req'[r] = Idle /\ UNCHANGED fieldVars
         \/ req'[r] = req[r] /\ ~Touched(req[r])
         \/ Seen(r)!Next]_txVars
=============================================================================
