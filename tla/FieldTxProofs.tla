---------------------------- MODULE FieldTxProofs ----------------------------
(***************************************************************************)
(* Theorems about FieldTx, for any number of overlapping writers, rows,    *)
(* sources, values and documents.                                          *)
(***************************************************************************)
EXTENDS FieldTx, FiniteSetTheorems, TLAPS

(***************************************************************************)
(* What a transaction holds.                                               *)
(***************************************************************************)
Statuses == {"active", "superseded", "corroborated", "conflicting", "overridden"}

RowTable == UNION {[S -> PointRow] : S \in SUBSET PointId}

LossTable == UNION {[S -> Statuses \ {"active"}] : S \in SUBSET PointId}

WriteRecord ==
  [src : Sources, value : Values \cup {NoPoint}, seen : PointId \cup {NoPoint},
   loaded : PointRow \cup {NoPoint}]

Writer ==
  [op : {"acquire", "ingest", "override"}, step : {"save", "next", "flush", "failed"},
   todo : SUBSET Sources, write : WriteRecord, doc : DocId \cup {NoPoint},
   rows : RowTable, lost : LossTable, entries : SUBSET (PointId \X PointId),
   overtaken : BOOLEAN]

NoRows == [p \in {} |-> NoPoint]

Signer ==
  [op : {"review"}, step : {"signed"}, point : PointId, overtaken : BOOLEAN,
   signed : DetailRow, rows : {NoRows}, lost : {NoRows}, entries : {{}}, doc : {NoPoint}]

OwnCurrent(q) == {p \in DOMAIN q.rows : q.rows[p].is_current}

\* Its rows are new and link to rows there are; of those it took out of force, which is at
\* most one, it has put one in force; and what it has read as current is what it has put
\* in force, if it has.
Whole(q) ==
  LET own == DOMAIN q.rows IN
    /\ own \intersect Points = {} /\ IsFiniteSet(own)
    /\ DOMAIN q.lost \subseteq Points
    /\ \A p \in own : q.rows[p].previous \in Points \cup own \cup {NoPoint}
    /\ q.entries \subseteq (Points \cup own) \X (Points \cup own)
    /\ q.op = "override" =>
         /\ q.todo \subseteq {Manual} /\ q.step \in {"next", "flush"}
         /\ q.step = "flush" => q.write.src = Manual
         /\ \A p \in own : q.rows[p].source = Manual
    /\ q.op = "acquire" => q.step \in {"next", "flush"}
    /\ q.op = "ingest" /\ q.step # "save" => q.doc \in stored
    /\ q.step \in {"save", "failed"} => own = {}
    /\ own = {} => q.entries = {}
    /\ \A p, o \in OwnCurrent(q) : p = o
    /\ \A p, o \in DOMAIN q.lost : p = o
    /\ DOMAIN q.lost # {} => OwnCurrent(q) # {}
    /\ q.step = "flush" =>
         /\ q.write.value \in Values
         /\ q.write.seen \in Points \cup own \cup {NoPoint}
         /\ q.write.seen # NoPoint => q.write.loaded \in PointRow
         /\ q.write.seen \in own => q.write.loaded = q.rows[q.write.seen]
         /\ \A p \in own : q.rows[p].is_current <=> p = q.write.seen

\* A transaction nobody has overtaken: what it read as current is all that is, beside what it
\* has taken out of force, and still reads as it did.
Fresh(q) ==
  /\ \A p \in DOMAIN q.lost : point[p].is_current
  /\ OwnCurrent(q) # {} => CurrentIn(point) \subseteq DOMAIN q.lost
  /\ q.step = "flush" =>
       /\ CurrentIn(point) \ DOMAIN q.lost \subseteq {q.write.seen}
       /\ q.write.seen \in Points => /\ point[q.write.seen].is_current
                                     /\ q.write.loaded = point[q.write.seen]

Signs(q) ==
  /\ RequiresReview /\ q.signed.reviewed_by \in Reviewers
  /\ q.point \in DOMAIN detail
  /\ ~q.overtaken => detail[q.point].reviewed_by = Nobody

Sound(q) ==
  \/ q = Idle
  \/ q \in Writer /\ Whole(q) /\ (~q.overtaken => Fresh(q))
  \/ q \in Signer /\ Signs(q)

Apart ==
  \A r, o \in Requests : r # o /\ Busy(r) /\ Busy(o) =>
    /\ DOMAIN req[r].rows \intersect DOMAIN req[o].rows = {}
    /\ DOMAIN req[r].lost \intersect DOMAIN req[o].lost = {}

TxInv ==
  /\ TypeOK
  /\ IsFiniteSet(Points)
  /\ begun \in 0 .. MaxBegun
  /\ late \subseteq Points
  /\ \A p, o \in CurrentIn(point) \ late : p = o
  /\ document \in [DOMAIN document -> DocumentRow]
  /\ DocumentsWhole
  /\ req = [r \in Requests |-> req[r]]
  /\ \A r \in Requests : Sound(req[r])
  /\ Apart

LEMMA Kinds ==
  /\ Idle.op = "idle"
  /\ \A q \in Writer : q.op \in {"acquire", "ingest", "override"} /\ q # Idle
  /\ \A q \in Signer : /\ q.op = "review" /\ q.step = "signed" /\ q # Idle /\ q \notin Writer
                       /\ DOMAIN q.rows = {} /\ DOMAIN q.lost = {}
<1>1. Idle.op = "idle"
  BY DEF Idle
<1>2. \A q \in Writer : q.op \in {"acquire", "ingest", "override"}
  BY DEF Writer
<1>3. \A q \in Signer : /\ q.op = "review" /\ q.step = "signed"
                        /\ DOMAIN q.rows = {} /\ DOMAIN q.lost = {}
  BY DEF Signer, NoRows
<1> QED BY <1>1, <1>2, <1>3

\* The guards tell the kinds apart.
LEMMA AtFacts ==
  ASSUME TxInv, NEW r \in Requests
  PROVE  /\ req[r] = Idle <=> ~Busy(r)
         /\ Busy(r) <=> req[r] \in Writer \cup Signer
         /\ At(r, "signed") => req[r] \in Signer /\ Signs(req[r])
         /\ \A step \in {"save", "next", "flush", "failed"} :
              At(r, step) => /\ req[r] \in Writer /\ Whole(req[r]) /\ req[r].step = step
                             /\ ~req[r].overtaken => Fresh(req[r])
<1>1. Sound(req[r])
  BY DEF TxInv
<1>2. \A q \in Writer : q.step # "signed"
  BY DEF Writer
<1> QED BY <1>1, <1>2, Kinds DEF Sound, Busy, At

LEMMA TableFacts ==
  /\ \A T \in RowTable : T \in [DOMAIN T -> PointRow] /\ DOMAIN T \subseteq PointId
  /\ \A T \in LossTable : T \in [DOMAIN T -> Statuses \ {"active"}] /\ DOMAIN T \subseteq PointId
  /\ \A T : T \in [DOMAIN T -> PointRow] /\ DOMAIN T \subseteq PointId => T \in RowTable
  /\ \A T : T \in [DOMAIN T -> Statuses \ {"active"}] /\ DOMAIN T \subseteq PointId
              => T \in LossTable
BY DEF RowTable, LossTable

\* The rows that are left of a table when some lose their place.
LosesOnly(T, L, N) ==
  /\ DOMAIN N = DOMAIN T /\ N \in [DOMAIN T -> PointRow]
  /\ \A p \in DOMAIN T :
       /\ N[p].source = T[p].source /\ N[p].previous = T[p].previous
       /\ N[p] = [T[p] EXCEPT !.is_current = N[p].is_current, !.status = N[p].status]
       /\ p \notin DOMAIN L => N[p] = T[p]
       /\ p \in DOMAIN L => ~N[p].is_current

LEMMA LosingFacts ==
  ASSUME NEW T, T \in [DOMAIN T -> PointRow], NEW L,
         \A p \in DOMAIN T \intersect DOMAIN L : L[p] \in Statuses \ {"active"}
  PROVE  LosesOnly(T, L, Losing(T, L))
<1> DEFINE N == Losing(T, L)
<1>1. DOMAIN N = DOMAIN T
  BY DEF Losing
<1>2. ASSUME NEW p \in DOMAIN T
      PROVE  /\ N[p] \in PointRow /\ N[p].source = T[p].source /\ N[p].previous = T[p].previous
             /\ N[p] = [T[p] EXCEPT !.is_current = N[p].is_current, !.status = N[p].status]
             /\ p \notin DOMAIN L => N[p] = T[p]
             /\ p \in DOMAIN L => ~N[p].is_current
  <2>1. CASE p \in DOMAIN L
    <3>1. N[p] = [T[p] EXCEPT !.is_current = FALSE, !.status = L[p]]
      BY <2>1 DEF Losing
    <3>2. T[p] \in PointRow /\ L[p] \in Statuses
      BY <2>1
    <3> HIDE DEF N
    <3> QED BY <2>1, <3>1, <3>2 DEF PointRow, Statuses
  <2>2. CASE p \notin DOMAIN L
    <3>1. N[p] = T[p] /\ T[p] \in PointRow
      BY <2>2 DEF Losing
    <3> HIDE DEF N
    <3> QED BY <2>2, <3>1 DEF PointRow
  <2> QED BY <2>1, <2>2
<1>3. N = [p \in DOMAIN T |-> N[p]]
  BY DEF Losing
<1> HIDE DEF N
<1>4. N \in [DOMAIN T -> PointRow]
  BY <1>2, <1>3
<1> QED BY <1>1, <1>2, <1>4 DEF N, LosesOnly

(***************************************************************************)
(* Steps that leave the committed rows alone.                              *)
(***************************************************************************)
LEMMA SoundStays ==
  ASSUME NEW x, Sound(x), UNCHANGED <<point, detail>>, stored \subseteq stored'
  PROVE  Sound(x)'
BY DEF Sound, Whole, Fresh, Signs, Points, CurrentIn

LEMMA TxFrame ==
  ASSUME TxInv, NEW r \in Requests, NEW q, Step(r, q),
         UNCHANGED <<point, log, detail, document, late>>,
         stored \subseteq stored', begun' \in 0 .. MaxBegun, Sound(q)',
         q # Idle => \A o \in Requests \ {r} : Busy(o) =>
           /\ DOMAIN q.rows \intersect DOMAIN req[o].rows = {}
           /\ DOMAIN q.lost \intersect DOMAIN req[o].lost = {}
  PROVE  TxInv'
<1>1. /\ req' = [o \in Requests |-> req'[o]] /\ req'[r] = q
      /\ \A o \in Requests \ {r} : req'[o] = req[o]
  BY DEF TxInv, Step
<1>2. \A o \in Requests : Sound(req[o])'
  <2>1. ASSUME NEW o \in Requests, NEW x, x = req'[o]
        PROVE  Sound(x)'
    <3>1. CASE o = r
      BY <1>1, <2>1, <3>1
    <3>2. CASE o # r
      <4>1. Sound(x)
        BY <1>1, <2>1, <3>2 DEF TxInv
      <4> QED BY <4>1, SoundStays
    <3> QED BY <3>1, <3>2
  <2> QED BY <2>1
<1>3. Apart'
  <2>1. \A o \in Requests \ {r} : Busy(o)' <=> Busy(o)
    BY <1>1 DEF Busy
  <2>2. Busy(r)' => q # Idle
    BY <1>1, Kinds DEF Busy
  <2> QED BY <1>1, <2>1, <2>2 DEF Apart, TxInv
<1>4. TypeOK' /\ IsFiniteSet(Points)' /\ DocumentsWhole'
  BY DEF TxInv, TypeOK, Points, DocumentsWhole
<1>5. late' \subseteq Points' /\ (\A p, o \in (CurrentIn(point) \ late)' : p = o)
      /\ document' \in [DOMAIN document' -> DocumentRow]
  BY DEF TxInv, Points, CurrentIn, DocumentRow
<1> QED BY <1>1, <1>2, <1>3, <1>4, <1>5 DEF TxInv

LEMMA InvBegin ==
  ASSUME TxInv, NEW r \in Requests, NEW op \in {"acquire", "ingest", "override"},
         NEW todo \in SUBSET Sources, op = "override" => todo \subseteq {Manual}, Begin(r, op, todo)
  PROVE  TxInv'
<1> DEFINE step == IF op = "ingest" THEN "save" ELSE "next"
           q == [op |-> op, step |-> step, todo |-> todo,
                 write |-> NoWrite, doc |-> NoPoint, rows |-> NoRows,
                 lost |-> NoRows, entries |-> {}, overtaken |-> FALSE]
<1>1. /\ Step(r, q) /\ UNCHANGED <<point, log, detail, document, late, stored>>
      /\ begun' = begun + 1 /\ begun < MaxBegun
  BY DEF Begin, New, NoRows, fieldVars
<1>2. begun' \in 0 .. MaxBegun
  BY <1>1, TxAssumption DEF TxInv
<1>3. NoRows \in RowTable /\ NoRows \in LossTable /\ DOMAIN NoRows = {} /\ NoWrite \in WriteRecord
  <2>1. DOMAIN NoRows = {} /\ NoRows \in [{} -> PointRow] /\ NoRows \in [{} -> Statuses \ {"active"}]
    BY DEF NoRows
  <2>2. NoRows \in RowTable /\ NoRows \in LossTable
    BY <2>1, TableFacts
  <2>3. NoWrite \in WriteRecord
    BY FieldAssumption DEF NoWrite, WriteRecord
  <2> QED BY <2>1, <2>2, <2>3
<1>4. q \in Writer
  BY <1>3 DEF Writer
<1>5. /\ q.op = op /\ q.step = step /\ q.todo = todo /\ q.rows = NoRows /\ q.lost = NoRows
      /\ q.entries = {} /\ q.overtaken = FALSE
  OBVIOUS
<1> HIDE DEF q
<1>6. OwnCurrent(q) = {} /\ DOMAIN q.rows = {} /\ DOMAIN q.lost = {}
  BY <1>3, <1>5 DEF OwnCurrent
<1>7. Whole(q) /\ Fresh(q)
  BY <1>5, <1>6, FS_EmptySet DEF Whole, Fresh
<1>8. Sound(q)
  BY <1>4, <1>7 DEF Sound
<1>9. Sound(q)'
  BY <1>1, <1>8, SoundStays
<1> QED BY <1>1, <1>2, <1>6, <1>9, TxFrame

LEMMA InvBeginReview ==
  ASSUME TxInv, NEW r \in Requests, NEW u \in Reviewers, NEW p \in DOMAIN detail,
         NEW approved \in BOOLEAN, BeginReview(r, u, p, approved)
  PROVE  TxInv'
<1> DEFINE q == [op |-> "review", step |-> "signed", point |-> p, overtaken |-> FALSE,
                 signed |-> [reviewed_by |-> u, approved |-> approved],
                 rows |-> NoRows, lost |-> NoRows, entries |-> {}, doc |-> NoPoint]
<1>1. /\ Step(r, q) /\ UNCHANGED <<point, log, detail, document, late, stored>>
      /\ begun' = begun + 1 /\ begun < MaxBegun /\ detail[p].reviewed_by = Nobody
      /\ RequiresReview
  BY DEF BeginReview, New, NoRows, fieldVars
<1>2. begun' \in 0 .. MaxBegun
  BY <1>1, TxAssumption DEF TxInv
<1>3. q \in Signer
  BY <1>1 DEF Signer, DetailRow, TxInv, TypeOK
<1>4. Signs(q)
  BY <1>1 DEF Signs, TxInv, TypeOK
<1>7. Sound(q)
  BY <1>3, <1>4 DEF Sound
<1> HIDE DEF q
<1>5. Sound(q)'
  BY <1>1, <1>7, SoundStays
<1>6. DOMAIN q.rows = {} /\ DOMAIN q.lost = {}
  BY <1>3, Kinds
<1> QED BY <1>1, <1>2, <1>5, <1>6, TxFrame

LEMMA InvAbort ==
  ASSUME TxInv, NEW r \in Requests, Abort(r)
  PROVE  TxInv'
<1>1. Sound(Idle)' /\ UNCHANGED <<point, log, detail, document, late, stored, begun>>
  BY DEF Sound, Abort, fieldVars
<1> QED BY <1>1, TxFrame DEF Abort, TxInv

LEMMA InvSaveFile ==
  ASSUME TxInv, NEW r \in Requests, NEW d \in DocId, NEW text \in BOOLEAN, SaveFile(r, d, text)
  PROVE  TxInv'
<1> DEFINE step == IF text THEN "next" ELSE "failed"
<1> SUFFICES ASSUME NEW w, w = req[r], NEW q, q = [w EXCEPT !.doc = d, !.step = step]
             PROVE  TxInv'
  OBVIOUS
<1>1. /\ Step(r, q) /\ UNCHANGED <<point, log, detail, document, late, begun>>
      /\ stored' = stored \cup {d}
  BY DEF SaveFile, fieldVars
<1>2. w \in Writer /\ Whole(w) /\ (~w.overtaken => Fresh(w)) /\ w.step = "save" /\ Busy(r)
  BY AtFacts DEF SaveFile, At
<1>3. /\ q \in Writer /\ q.op = w.op /\ q.step = step /\ q.todo = w.todo /\ q.rows = w.rows
      /\ q.lost = w.lost /\ q.entries = w.entries /\ q.overtaken = w.overtaken /\ q.doc = d
  BY <1>2 DEF Writer
<1>4. w.op = "ingest" /\ OwnCurrent(q) = OwnCurrent(w)
  BY <1>2, <1>3 DEF Whole, Writer, OwnCurrent
<1>5. Whole(q)'
  BY <1>1, <1>2, <1>3, <1>4 DEF Whole, Points, OwnCurrent
<1>6. ~q.overtaken => Fresh(q)'
  BY <1>1, <1>2, <1>3, <1>4 DEF Fresh, OwnCurrent, CurrentIn, Points
<1>7. Sound(q)'
  BY <1>3, <1>5, <1>6 DEF Sound
<1>8. \A o \in Requests \ {r} : Busy(o) =>
           /\ DOMAIN q.rows \intersect DOMAIN req[o].rows = {}
           /\ DOMAIN q.lost \intersect DOMAIN req[o].lost = {}
  BY <1>2, <1>3 DEF TxInv, Apart
<1> QED BY <1>1, <1>7, <1>8, TxFrame DEF TxInv

(***************************************************************************)
(* What a transaction sees, and its writes.                                *)
(***************************************************************************)
\* V is the committed table with the rows and the losses of q.
Shows(q, V) ==
  LET own == DOMAIN q.rows
  IN  /\ DOMAIN V = Points \cup own /\ V \in [Points \cup own -> PointRow]
      /\ \A p \in own : V[p] = q.rows[p]
      /\ \A p \in Points :
           /\ V[p].source = point[p].source /\ V[p].previous = point[p].previous
           /\ V[p] = [point[p] EXCEPT !.is_current = V[p].is_current, !.status = V[p].status]
           /\ p \notin DOMAIN q.lost => V[p] = point[p]
           /\ p \in DOMAIN q.lost => ~V[p].is_current
      /\ CurrentIn(V) = (CurrentIn(point) \ DOMAIN q.lost) \cup OwnCurrent(q)

LEMMA VisibleFacts ==
  ASSUME TxInv, NEW r \in Requests, NEW q, q = req[r], q \in Writer, Whole(q)
  PROVE  Shows(q, Visible(r))
<1> DEFINE own == DOMAIN q.rows
           N == Losing(point, q.lost)
           V == Visible(r)
<1>1. Busy(r) /\ own \intersect Points = {} /\ q.rows \in [own -> PointRow]
  <2>1. q.rows \in RowTable
    BY DEF Writer
  <2> QED BY <2>1, TableFacts, Kinds, AtFacts DEF Whole
<1>2. point \in [Points -> PointRow] /\ DOMAIN point = Points
  BY DEF TxInv, TypeOK, Points
<1>3. \A p \in DOMAIN point \intersect DOMAIN q.lost : q.lost[p] \in Statuses \ {"active"}
  <2>1. q.lost \in LossTable
    BY DEF Writer
  <2> QED BY <2>1, TableFacts
<1>4. /\ DOMAIN N = Points /\ N \in [Points -> PointRow]
      /\ \A p \in Points :
           /\ N[p].source = point[p].source /\ N[p].previous = point[p].previous
           /\ N[p] = [point[p] EXCEPT !.is_current = N[p].is_current, !.status = N[p].status]
           /\ p \notin DOMAIN q.lost => N[p] = point[p]
           /\ p \in DOMAIN q.lost => ~N[p].is_current
  <2>1. LosesOnly(point, q.lost, N)
    BY <1>2, <1>3, LosingFacts
  <2> HIDE DEF N
  <2> QED BY <1>2, <2>1 DEF LosesOnly
<1>5. V = [p \in Points \cup own |-> IF p \in own THEN q.rows[p] ELSE N[p]]
  <2>1. V = [p \in DOMAIN N \cup own |-> IF p \in own THEN q.rows[p] ELSE N[p]]
    BY <1>1 DEF Visible
  <2> QED BY <1>4, <2>1
<1> HIDE DEF N, V
<1>6. DOMAIN V = Points \cup own /\ V \in [Points \cup own -> PointRow]
  BY <1>1, <1>4, <1>5
<1>7. (\A p \in own : V[p] = q.rows[p]) /\ \A p \in Points : V[p] = N[p]
  BY <1>1, <1>5
<1>8. CurrentIn(V) = (CurrentIn(point) \ DOMAIN q.lost) \cup OwnCurrent(q)
  <2>1. CurrentIn(V) = {p \in Points \cup own : V[p].is_current}
    BY <1>6 DEF CurrentIn
  <2>2. CurrentIn(point) = {p \in Points : point[p].is_current}
    BY <1>2 DEF CurrentIn
  <2>3. \A p \in Points : N[p].is_current <=> p \notin DOMAIN q.lost /\ point[p].is_current
    BY <1>4
  <2> QED BY <1>1, <1>7, <2>1, <2>2, <2>3 DEF OwnCurrent
<1> QED BY <1>4, <1>6, <1>7, <1>8 DEF V, Shows

LEMMA InvReadCurrent ==
  ASSUME TxInv, NEW r \in Requests, NEW src \in Sources, NEW value \in Values,
         NEW seen \in PointId \cup {NoPoint}, ReadCurrent(r, src, value, seen)
  PROVE  TxInv'
<1> SUFFICES ASSUME NEW w, w = req[r], NEW write,
                    write = [src |-> src, value |-> value, seen |-> seen,
                             loaded |-> IF seen = NoPoint THEN NoPoint ELSE Visible(r)[seen]],
                    NEW q,
                    q = [w EXCEPT !.step = "flush", !.todo = @ \ {src}, !.write = write]
             PROVE  TxInv'
  OBVIOUS
<1>1. /\ Step(r, q) /\ UNCHANGED <<point, log, detail, document, late, stored, begun>>
      /\ src \in w.todo /\ CurrentIn(Visible(r)) = IF seen = NoPoint THEN {} ELSE {seen}
  BY DEF ReadCurrent, fieldVars
<1>2. w \in Writer /\ Whole(w) /\ (~w.overtaken => Fresh(w)) /\ w.step = "next" /\ Busy(r)
  BY AtFacts DEF ReadCurrent, At
<1>3. NoPoint \notin Points /\ NoPoint \notin DOMAIN w.rows
  <2>1. w.rows \in RowTable
    BY <1>2 DEF Writer
  <2> QED BY <2>1, TableFacts, FieldAssumption DEF TxInv, TypeOK
<1>4. /\ Visible(r) \in [Points \cup DOMAIN w.rows -> PointRow]
      /\ CurrentIn(Visible(r)) = (CurrentIn(point) \ DOMAIN w.lost) \cup OwnCurrent(w)
      /\ DOMAIN Visible(r) = Points \cup DOMAIN w.rows
      /\ \A p \in DOMAIN w.rows : Visible(r)[p] = w.rows[p]
      /\ \A p \in Points \ DOMAIN w.lost : Visible(r)[p] = point[p]
  <2>1. Shows(w, Visible(r))
    BY <1>2, VisibleFacts
  <2> QED BY <2>1 DEF Shows
<1>5. /\ seen \in Points \cup DOMAIN w.rows \cup {NoPoint}
      /\ CurrentIn(point) \ DOMAIN w.lost \subseteq {seen} \ {NoPoint}
      /\ OwnCurrent(w) \subseteq {seen} \ {NoPoint}
      /\ seen # NoPoint => seen \in (CurrentIn(point) \ DOMAIN w.lost) \cup OwnCurrent(w)
  <2>1. CurrentIn(point) \subseteq Points /\ OwnCurrent(w) \subseteq DOMAIN w.rows
    BY DEF CurrentIn, OwnCurrent, Points
  <2> QED BY <1>1, <1>3, <1>4, <2>1
<1>6. write \in WriteRecord /\ (seen # NoPoint => write.loaded \in PointRow)
  <2>1. seen # NoPoint => Visible(r)[seen] \in PointRow
    BY <1>4, <1>5
  <2> QED BY <2>1 DEF WriteRecord
<1>7. /\ q \in Writer /\ q.op = w.op /\ q.step = "flush" /\ q.todo = w.todo \ {src}
      /\ q.rows = w.rows /\ q.lost = w.lost /\ q.entries = w.entries
      /\ q.overtaken = w.overtaken /\ q.doc = w.doc /\ q.write = write
  BY <1>2, <1>6 DEF Writer
<1>8. write.src = src /\ write.value = value /\ write.seen = seen
  OBVIOUS
<1>9. OwnCurrent(q) = OwnCurrent(w)
  BY <1>7 DEF OwnCurrent
<1>10. \A p \in DOMAIN w.rows : w.rows[p].is_current <=> p = seen
  <2>1. CurrentIn(point) \intersect DOMAIN w.rows = {}
    BY <1>2 DEF Whole, CurrentIn, Points
  <2> QED BY <1>3, <1>5, <2>1 DEF OwnCurrent
<1>11. Whole(q)
  <2>1. seen \in DOMAIN w.rows => write.loaded = w.rows[seen]
    BY <1>3, <1>4
  <2> QED BY <1>1, <1>2, <1>5, <1>6, <1>7, <1>8, <1>9, <1>10, <2>1 DEF Whole
<1>12. ~q.overtaken => Fresh(q)
  <2>1. seen \in Points => point[seen].is_current /\ write.loaded = point[seen]
    <3>1. OwnCurrent(w) \intersect Points = {}
      BY <1>2 DEF Whole, OwnCurrent
    <3>2. seen \in Points => seen \in CurrentIn(point) \ DOMAIN w.lost
      BY <1>3, <1>5, <3>1
    <3> QED BY <1>3, <1>4, <3>2 DEF CurrentIn
  <2> QED BY <1>2, <1>5, <1>7, <1>8, <1>9, <2>1 DEF Fresh
<1>13. Sound(q)'
  BY <1>1, <1>7, <1>11, <1>12, SoundStays DEF Sound
<1>14. \A o \in Requests \ {r} : Busy(o) =>
           /\ DOMAIN q.rows \intersect DOMAIN req[o].rows = {}
           /\ DOMAIN q.lost \intersect DOMAIN req[o].lost = {}
  BY <1>2, <1>7 DEF TxInv, Apart
<1> QED BY <1>1, <1>13, <1>14, TxFrame DEF TxInv

\* What write_field and write_override decide on what they have read.
LEMMA OutcomeFacts ==
  ASSUME NEW q, q \in Writer, q.step = "flush", q.write.value \in Values,
         q.write.seen # NoPoint => q.write.loaded \in PointRow
  PROVE  /\ StatusOfLoser(q) \in Statuses \ {"active"}
         /\ Updates(q) => q.write.seen # NoPoint
         /\ LET new == NewRow(q) IN
              /\ new \in PointRow /\ new.source = q.write.src /\ new.previous = q.write.seen
              /\ new.is_current <=> Updates(q) \/ q.write.seen = NoPoint
         /\ \A p : Entries(q, p) \subseteq {<<p, q.write.seen>>, <<q.write.seen, p>>}
                   /\ (Entries(q, p) # {} => q.write.seen # NoPoint)
<1>1. Outcome(q) \in {"first", "overridden", "superseded", "wins", "loses"}
      /\ (Outcome(q) = "first" <=> q.write.seen = NoPoint)
  BY DEF Outcome
<1>2. StatusOfLoser(q) \in Statuses \ {"active"}
  BY DEF StatusOfLoser, Statuses
<1>3. q.write.src \in Sources /\ q.write.seen \in PointId \cup {NoPoint}
  BY DEF Writer, WriteRecord
<1>4. NewRow(q) \in PointRow
  <2>1. q.write.seen # NoPoint => q.write.loaded.version + 1 \in Nat \ {0}
    BY DEF PointRow
  <2> HIDE DEF StatusOfLoser
  <2> QED BY <1>2, <1>3, <2>1 DEF NewRow, PointRow, Statuses
<1>5. /\ NewRow(q).source = q.write.src /\ NewRow(q).previous = q.write.seen
      /\ NewRow(q).is_current <=> Outcome(q) # "loses"
  BY <1>2 DEF NewRow
<1>6. Updates(q) <=> Outcome(q) \notin {"first", "loses"}
  BY DEF Updates
<1>7. \A p : Entries(q, p) \subseteq {<<p, q.write.seen>>, <<q.write.seen, p>>}
             /\ (Entries(q, p) # {} => q.write.seen # NoPoint)
  BY <1>1 DEF Entries
<1> QED BY <1>1, <1>2, <1>4, <1>5, <1>6, <1>7

LEMMA InsertFacts ==
  ASSUME NEW T, NEW k, NEW v
  PROVE  /\ DOMAIN Insert(T, k, v) = DOMAIN T \cup {k}
         /\ Insert(T, k, v)[k] = v
         /\ \A x \in DOMAIN T : x # k => Insert(T, k, v)[x] = T[x]
BY DEF Insert

LEMMA InsertType ==
  ASSUME NEW S, NEW D, NEW T \in [D -> S], NEW k, NEW v \in S
  PROVE  Insert(T, k, v) \in [D \cup {k} -> S]
BY DEF Insert

\* The transaction's rows and its losses once its write is flushed as p.
RowsBefore(w) ==
  IF Updates(w) /\ w.write.seen \in DOMAIN w.rows
  THEN Losing(w.rows, [l \in {w.write.seen} |-> StatusOfLoser(w)]) ELSE w.rows

RowsAfter(w, p) == Insert(RowsBefore(w), p, NewRow(w))

LostAfter(w) ==
  IF Updates(w) /\ w.write.seen \notin DOMAIN w.rows
  THEN Insert(w.lost, w.write.seen, StatusOfLoser(w)) ELSE w.lost

LEMMA WriterFacts ==
  ASSUME TxInv, NEW w \in Writer, Whole(w)
  PROVE  /\ w.rows \in [DOMAIN w.rows -> PointRow] /\ DOMAIN w.rows \subseteq PointId
         /\ w.lost \in [DOMAIN w.lost -> Statuses \ {"active"}] /\ DOMAIN w.lost \subseteq Points
         /\ w.entries \subseteq (Points \cup DOMAIN w.rows) \X (Points \cup DOMAIN w.rows)
         /\ w.op \in {"acquire", "ingest", "override"} /\ w.todo \subseteq Sources
         /\ DOMAIN w.rows \intersect Points = {} /\ IsFiniteSet(DOMAIN w.rows)
         /\ NoPoint \notin Points \cup DOMAIN w.rows /\ Points \subseteq PointId
<1>1. w.rows \in RowTable /\ w.lost \in LossTable /\ w.todo \subseteq Sources
  BY DEF Writer
<1>2. DOMAIN w.rows \subseteq PointId /\ Points \subseteq PointId
  BY <1>1, TableFacts DEF TxInv, TypeOK
<1> QED BY <1>1, <1>2, TableFacts, Kinds, FieldAssumption DEF Whole

\* What a flushed write makes of the transaction's rows and losses.
Flushed(w, p, rows, L) ==
  LET own == DOMAIN w.rows
      seen == w.write.seen
  IN  /\ DOMAIN rows = own \cup {p} /\ rows \in [own \cup {p} -> PointRow]
      /\ rows[p].source = w.write.src /\ rows[p].previous = seen
      /\ rows[p].is_current <=> Updates(w) \/ seen = NoPoint
      /\ \A x \in own : /\ rows[x].source = w.rows[x].source
                        /\ rows[x].previous = w.rows[x].previous
                        /\ rows[x].is_current <=> x = seen /\ ~Updates(w)
      /\ L \in [DOMAIN L -> Statuses \ {"active"}]
      /\ DOMAIN L = IF Updates(w) /\ seen \notin own THEN DOMAIN w.lost \cup {seen}
                    ELSE DOMAIN w.lost
      /\ Updates(w) => seen \in Points \cup own
      /\ w.entries \cup Entries(w, p) \subseteq
           (Points \cup (own \cup {p})) \X (Points \cup (own \cup {p}))

LEMMA FlushFacts ==
  ASSUME TxInv, NEW w \in Writer, Whole(w), w.step = "flush", NEW p \in PointId,
         p \notin Points, p \notin DOMAIN w.rows
  PROVE  Flushed(w, p, RowsAfter(w, p), LostAfter(w))
<1> PICK seen : seen = w.write.seen
  OBVIOUS
<1> PICK own : own = DOMAIN w.rows
  OBVIOUS
<1> PICK rows : rows = RowsAfter(w, p)
  OBVIOUS
<1> PICK L : L = LostAfter(w)
  OBVIOUS
<1> PICK st : st = StatusOfLoser(w)
  OBVIOUS
<1> PICK new : new = NewRow(w)
  OBVIOUS
<1> PICK T : T = w.rows
  OBVIOUS
<1> PICK R : R = RowsBefore(w)
  OBVIOUS
<1>1. /\ w.write.value \in Values /\ seen \in Points \cup own \cup {NoPoint}
      /\ seen # NoPoint => w.write.loaded \in PointRow
      /\ \A x \in own : T[x].is_current <=> x = seen
  BY DEF Whole
<1>2. /\ st \in Statuses \ {"active"} /\ (Updates(w) => seen # NoPoint)
      /\ new \in PointRow /\ new.source = w.write.src /\ new.previous = seen
      /\ new.is_current <=> Updates(w) \/ seen = NoPoint
      /\ Entries(w, p) \subseteq {<<p, seen>>, <<seen, p>>}
      /\ Entries(w, p) # {} => seen # NoPoint
  BY <1>1, OutcomeFacts
<1>3. T \in [own -> PointRow] /\ DOMAIN T = own
  BY WriterFacts
<1>4. /\ DOMAIN R = own /\ R \in [own -> PointRow]
      /\ \A x \in own : R[x].source = T[x].source /\ R[x].previous = T[x].previous
      /\ \A x \in own : R[x].is_current <=> x = seen /\ ~Updates(w)
  <2>1. CASE Updates(w) /\ seen \in own
    <3> PICK F : F = [l \in {seen} |-> st]
      OBVIOUS
    <3>1. DOMAIN F = {seen} /\ F[seen] \in Statuses \ {"active"}
      BY <1>2
    <3>2. R = Losing(T, F)
      BY <2>1 DEF RowsBefore
    <3>3. \A x \in DOMAIN T \intersect DOMAIN F : F[x] \in Statuses \ {"active"}
      BY <3>1
    <3>4. T \in [DOMAIN T -> PointRow]
      BY <1>3
    <3>5. LosesOnly(T, F, R)
      BY <3>2, <3>3, <3>4, LosingFacts
    <3> QED BY <1>1, <1>3, <2>1, <3>1, <3>5 DEF LosesOnly
  <2>2. CASE ~(Updates(w) /\ seen \in own)
    <3>1. R = T
      BY <2>2 DEF RowsBefore
    <3> QED BY <1>1, <1>3, <2>2, <3>1
  <2> QED BY <2>1, <2>2
<1>5. /\ DOMAIN rows = own \cup {p} /\ rows \in [own \cup {p} -> PointRow]
      /\ rows[p] = new /\ \A x \in own : rows[x] = R[x]
  <2>1. rows = Insert(R, p, new)
    BY DEF RowsAfter
  <2>2. Insert(R, p, new) \in [own \cup {p} -> PointRow]
    BY <1>2, <1>4, InsertType
  <2>3. DOMAIN Insert(R, p, new) = DOMAIN R \cup {p} /\ Insert(R, p, new)[p] = new
    BY DEF Insert
  <2>5. \A x \in DOMAIN R : x # p => Insert(R, p, new)[x] = R[x]
    BY DEF Insert
  <2>4. p \notin own
    OBVIOUS
  <2> QED BY <1>4, <2>1, <2>2, <2>3, <2>4, <2>5
<1>6. /\ L \in [DOMAIN L -> Statuses \ {"active"}]
      /\ DOMAIN L = IF Updates(w) /\ seen \notin own THEN DOMAIN w.lost \cup {seen}
                    ELSE DOMAIN w.lost
  <2> PICK lost : lost = w.lost
    OBVIOUS
  <2>1. lost \in [DOMAIN lost -> Statuses \ {"active"}]
    BY WriterFacts
  <2>2. CASE Updates(w) /\ seen \notin own
    <3>1. L = Insert(lost, seen, st)
      BY <2>2 DEF LostAfter
    <3>2. Insert(lost, seen, st) \in [DOMAIN lost \cup {seen} -> Statuses \ {"active"}]
      BY <1>2, <2>1, InsertType
    <3> QED BY <2>2, <3>1, <3>2, InsertFacts
  <2>3. CASE ~(Updates(w) /\ seen \notin own)
    <3>1. L = lost
      BY <2>3 DEF LostAfter
    <3> QED BY <2>1, <2>3, <3>1
  <2> QED BY <2>2, <2>3
<1>7. w.entries \cup Entries(w, p) \subseteq
        (Points \cup (own \cup {p})) \X (Points \cup (own \cup {p}))
  <2>1. w.entries \subseteq (Points \cup own) \X (Points \cup own)
    BY WriterFacts
  <2> QED BY <1>1, <1>2, <2>1
<1>8. Updates(w) => seen \in Points \cup own
  BY <1>1, <1>2
<1> QED BY <1>2, <1>4, <1>5, <1>6, <1>7, <1>8 DEF Flushed

LEMMA InvFlush ==
  ASSUME TxInv, NEW r \in Requests, NEW p \in PointId, Flush(r, p)
  PROVE  TxInv'
<1> SUFFICES ASSUME NEW w, w = req[r], NEW q,
                    q = [w EXCEPT !.step = "next", !.write = NoWrite, !.rows = RowsAfter(w, p),
                                  !.lost = LostAfter(w), !.entries = w.entries \cup Entries(w, p)]
             PROVE  TxInv'
  OBVIOUS
<1>1. /\ Step(r, q) /\ UNCHANGED <<point, log, detail, document, late, stored, begun>>
      /\ p \notin Points /\ \A o \in Requests : Busy(o) => p \notin DOMAIN req[o].rows
      /\ Updates(w) => ~Locked(r, w.write.seen)
  BY DEF Flush, fieldVars, RowsBefore, RowsAfter, LostAfter
<1>2. w \in Writer /\ Whole(w) /\ (~w.overtaken => Fresh(w)) /\ w.step = "flush" /\ Busy(r)
  BY AtFacts DEF Flush, At
<1> SUFFICES ASSUME NEW seen, w.write.seen = seen, NEW own, DOMAIN w.rows = own,
                    NEW updates, updates = Updates(w),
                    NEW rows, RowsAfter(w, p) = rows, NEW L, LostAfter(w) = L,
                    NEW entries, entries = w.entries \cup Entries(w, p)
             PROVE  TxInv'
  OBVIOUS
<1>3. /\ DOMAIN rows = own \cup {p} /\ rows \in [own \cup {p} -> PointRow]
      /\ rows[p].source = w.write.src /\ rows[p].previous = seen
      /\ rows[p].is_current <=> updates \/ seen = NoPoint
      /\ \A x \in own : /\ rows[x].source = w.rows[x].source
                        /\ rows[x].previous = w.rows[x].previous
                        /\ rows[x].is_current <=> x = seen /\ ~updates
      /\ L \in [DOMAIN L -> Statuses \ {"active"}]
      /\ DOMAIN L = IF updates /\ seen \notin own THEN DOMAIN w.lost \cup {seen}
                    ELSE DOMAIN w.lost
      /\ updates => seen \in Points \cup own
      /\ entries \subseteq (Points \cup (own \cup {p})) \X (Points \cup (own \cup {p}))
  <2>1. p \notin DOMAIN w.rows
    BY <1>1, <1>2
  <2>2. Flushed(w, p, rows, L)
    BY <1>1, <1>2, <2>1, FlushFacts
  <2> QED BY <2>2 DEF Flushed
<1>4. /\ w.rows \in [own -> PointRow] /\ own \subseteq PointId
      /\ DOMAIN w.lost \subseteq Points /\ own \intersect Points = {} /\ IsFiniteSet(own)
      /\ NoPoint \notin Points \cup own /\ Points \subseteq PointId
      /\ w.op \in {"acquire", "ingest", "override"}
  BY <1>2, WriterFacts
<1>5. p \notin own
  BY <1>1, <1>2
<1>6. /\ q \in Writer /\ q.op = w.op /\ q.step = "next" /\ q.todo = w.todo
      /\ q.rows = rows /\ q.lost = L /\ q.entries = entries
      /\ q.overtaken = w.overtaken /\ q.doc = w.doc
  <2>1. rows \in RowTable /\ L \in LossTable
    BY <1>3, <1>4, TableFacts
  <2>2. NoWrite \in WriteRecord
    BY FieldAssumption DEF NoWrite, WriteRecord
  <2>3. entries \in SUBSET (PointId \X PointId)
    BY <1>3, <1>4
  <2> QED BY <1>2, <2>1, <2>2, <2>3 DEF Writer
<1>7. /\ seen \in Points \cup own \cup {NoPoint}
      /\ \A x \in own : w.rows[x].is_current <=> x = seen
      /\ DOMAIN w.lost # {} => OwnCurrent(w) # {}
      /\ \A x, o \in DOMAIN w.lost : x = o
      /\ \A x \in own : w.rows[x].previous \in Points \cup own \cup {NoPoint}
      /\ w.op = "override" => /\ w.todo \subseteq {Manual} /\ w.write.src = Manual
                              /\ \A x \in own : w.rows[x].source = Manual
      /\ w.op = "ingest" => w.doc \in stored
  BY <1>2 DEF Whole
<1>8. /\ OwnCurrent(q) = {x \in own \cup {p} : rows[x].is_current}
      /\ OwnCurrent(w) = {x \in own : x = seen}
  BY <1>3, <1>6, <1>7 DEF OwnCurrent
<1>9. /\ \A x, o \in OwnCurrent(q) : x = o
      /\ OwnCurrent(q) # {} => updates \/ seen = NoPoint \/ seen \in own
      /\ updates \/ seen \in own => OwnCurrent(q) # {}
      /\ DOMAIN w.lost # {} => seen \in own
  BY <1>3, <1>4, <1>5, <1>7, <1>8
<1>10. /\ \A x, o \in DOMAIN L : x = o
       /\ DOMAIN L # {} => OwnCurrent(q) # {}
       /\ DOMAIN L \subseteq Points
  BY <1>3, <1>4, <1>7, <1>9
<1>11. Whole(q)
  <2>1. (own \cup {p}) \intersect Points = {} /\ IsFiniteSet(own \cup {p})
    BY <1>1, <1>4, FS_AddElement
  <2>2. \A x \in own \cup {p} : rows[x].previous \in Points \cup (own \cup {p}) \cup {NoPoint}
    BY <1>3, <1>7
  <2>3. w.op = "override" => \A x \in own \cup {p} : rows[x].source = Manual
    BY <1>3, <1>7
  <2> QED BY <1>3, <1>6, <1>7, <1>9, <1>10, <2>1, <2>2, <2>3 DEF Whole
<1>12. ~w.overtaken => Fresh(q)
  <2> SUFFICES ASSUME ~w.overtaken
               PROVE  Fresh(q)
    OBVIOUS
  <2>1. /\ \A x \in DOMAIN w.lost : point[x].is_current
        /\ OwnCurrent(w) # {} => CurrentIn(point) \subseteq DOMAIN w.lost
        /\ CurrentIn(point) \ DOMAIN w.lost \subseteq {seen}
        /\ seen \in Points => point[seen].is_current
    BY <1>2 DEF Fresh
  <2>2. \A x \in DOMAIN L : point[x].is_current
    BY <1>3, <2>1
  <2>3. OwnCurrent(q) # {} => CurrentIn(point) \subseteq DOMAIN L
    <3>1. CurrentIn(point) \subseteq Points
      BY DEF CurrentIn, Points
    <3>2. CASE seen \in own
      BY <1>3, <1>8, <2>1, <3>2
    <3>3. CASE seen = NoPoint
      BY <1>3, <1>4, <2>1, <3>1, <3>3
    <3>4. CASE updates /\ seen \notin own
      BY <1>3, <2>1, <3>4
    <3> QED BY <1>9, <3>2, <3>3, <3>4
  <2> QED BY <1>6, <2>2, <2>3 DEF Fresh
<1>13. Sound(q)'
  BY <1>1, <1>6, <1>11, <1>12, SoundStays DEF Sound
<1>14. ASSUME NEW o \in Requests \ {r}, Busy(o)
       PROVE  /\ DOMAIN q.rows \intersect DOMAIN req[o].rows = {}
              /\ DOMAIN q.lost \intersect DOMAIN req[o].lost = {}
  <2>1. /\ own \intersect DOMAIN req[o].rows = {}
        /\ DOMAIN w.lost \intersect DOMAIN req[o].lost = {}
    BY <1>2, <1>14 DEF TxInv, Apart
  <2>2. updates => seen \notin DOMAIN req[o].lost
    BY <1>1, <1>14 DEF Locked
  <2>3. p \notin DOMAIN req[o].rows
    BY <1>1, <1>14
  <2> QED BY <1>3, <1>6, <2>1, <2>2, <2>3
<1> QED BY <1>1, <1>13, <1>14, TxFrame DEF TxInv

(***************************************************************************)
(* The ends of a transaction.                                              *)
(***************************************************************************)
\* A transaction that is overtaken stays sound, though not fresh.
LEMMA SoundOvertaken ==
  ASSUME NEW x, Sound(x), x # Idle, NEW y, y = [x EXCEPT !.overtaken = TRUE],
         Points \subseteq Points', DOMAIN detail \subseteq DOMAIN detail', stored \subseteq stored',
         DOMAIN x.rows \intersect Points' = {}
  PROVE  /\ Sound(y)'
         /\ y.op = x.op /\ y.rows = x.rows /\ y.lost = x.lost
<1>1. CASE x \in Writer /\ Whole(x)
  <2>1. /\ y \in Writer /\ y.op = x.op /\ y.step = x.step /\ y.todo = x.todo /\ y.write = x.write
        /\ y.doc = x.doc /\ y.rows = x.rows /\ y.lost = x.lost /\ y.entries = x.entries
        /\ y.overtaken
    BY <1>1 DEF Writer
  <2>2. OwnCurrent(y) = OwnCurrent(x)
    BY <2>1 DEF OwnCurrent
  <2>3. Whole(y)'
    <3>1. /\ DOMAIN y.rows \intersect Points' = {} /\ IsFiniteSet(DOMAIN y.rows)
          /\ DOMAIN y.lost \subseteq Points'
          /\ \A p \in DOMAIN y.rows : y.rows[p].previous \in Points' \cup DOMAIN y.rows \cup {NoPoint}
          /\ y.entries \subseteq (Points' \cup DOMAIN y.rows) \X (Points' \cup DOMAIN y.rows)
      BY <1>1, <2>1 DEF Whole
    <3>2. y.step = "flush" => y.write.seen \in Points' \cup DOMAIN y.rows \cup {NoPoint}
      BY <1>1, <2>1 DEF Whole
    <3>3. /\ y.op = "override" =>
               /\ y.todo \subseteq {Manual} /\ y.step \in {"next", "flush"}
               /\ y.step = "flush" => y.write.src = Manual
               /\ \A p \in DOMAIN y.rows : y.rows[p].source = Manual
          /\ y.op = "acquire" => y.step \in {"next", "flush"}
          /\ y.op = "ingest" /\ y.step # "save" => y.doc \in stored'
          /\ y.step \in {"save", "failed"} => DOMAIN y.rows = {}
          /\ DOMAIN y.rows = {} => y.entries = {}
      BY <1>1, <2>1 DEF Whole
    <3>4. /\ \A p, o \in OwnCurrent(y) : p = o
          /\ \A p, o \in DOMAIN y.lost : p = o
          /\ DOMAIN y.lost # {} => OwnCurrent(y) # {}
      BY <1>1, <2>1, <2>2 DEF Whole
    <3>5. y.step = "flush" =>
               /\ y.write.value \in Values
               /\ y.write.seen # NoPoint => y.write.loaded \in PointRow
               /\ y.write.seen \in DOMAIN y.rows => y.write.loaded = y.rows[y.write.seen]
               /\ \A p \in DOMAIN y.rows : y.rows[p].is_current <=> p = y.write.seen
      BY <1>1, <2>1 DEF Whole
    <3> QED BY <3>1, <3>2, <3>3, <3>4, <3>5 DEF Whole
  <2> QED BY <2>1, <2>3 DEF Sound
<1>2. CASE x \in Signer /\ Signs(x)
  <2>1. /\ y \in Signer /\ y.point = x.point /\ y.overtaken
        /\ y.op = x.op /\ y.rows = x.rows /\ y.lost = x.lost
    BY <1>2 DEF Signer
  <2>2. Signs(y)'
    BY <1>2, <2>1 DEF Signs
  <2> QED BY <2>1, <2>2 DEF Sound
<1> QED BY <1>1, <1>2 DEF Sound

\* One that has not touched the field yet holds nothing that a commit could disturb.
LEMMA SoundUntouched ==
  ASSUME NEW x, Sound(x), x # Idle, ~Touched(x), Points \subseteq Points', stored \subseteq stored'
  PROVE  Sound(x)'
<1>1. x \in Writer /\ Whole(x) /\ DOMAIN x.rows = {} /\ x.step # "flush"
  BY Kinds DEF Sound, Touched
<1>2. OwnCurrent(x) = {} /\ DOMAIN x.lost = {}
  BY <1>1 DEF OwnCurrent, Whole
<1>3. Whole(x)'
  <2>1. /\ x.op = "override" =>
               /\ x.todo \subseteq {Manual} /\ x.step \in {"next", "flush"}
        /\ x.op = "acquire" => x.step \in {"next", "flush"}
        /\ x.op = "ingest" /\ x.step # "save" => x.doc \in stored'
        /\ x.entries = {} /\ IsFiniteSet(DOMAIN x.rows)
    BY <1>1 DEF Whole
  <2> QED BY <1>1, <1>2, <2>1 DEF Whole
<1>4. Fresh(x)'
  BY <1>1, <1>2 DEF Fresh
<1> QED BY <1>1, <1>3, <1>4 DEF Sound

LEMMA EndsFacts ==
  ASSUME TxInv, NEW r \in Requests, Ends(r),
         Points \subseteq Points', DOMAIN detail \subseteq DOMAIN detail', stored' = stored,
         \A o \in Requests \ {r} : Busy(o) => DOMAIN req[o].rows \intersect Points' = {},
         Wrote(req[r]) \/ UNCHANGED <<point, detail>>
  PROVE  /\ req' = [o \in Requests |-> req'[o]]
         /\ \A o \in Requests : Sound(req[o])'
         /\ Apart'
<1>1. req' = [o \in Requests |-> req'[o]] /\ req'[r] = Idle
  BY DEF Ends
<1>2. \A o \in Requests \ {r} :
        req'[o] = IF Busy(o) /\ Touched(req[o]) /\ Wrote(req[r])
                  THEN [req[o] EXCEPT !.overtaken = TRUE] ELSE req[o]
  BY DEF Ends
<1>3. ASSUME NEW o \in Requests \ {r}, Busy(o), NEW y, y = req'[o]
      PROVE  /\ Sound(y)'
             /\ y.op = req[o].op /\ y.rows = req[o].rows /\ y.lost = req[o].lost
  <2> PICK x : x = req[o]
    OBVIOUS
  <2>1. Sound(x) /\ x # Idle /\ DOMAIN x.rows \intersect Points' = {}
    BY <1>3, Kinds DEF TxInv, Busy
  <2>2. CASE Touched(x) /\ Wrote(req[r])
    <3>1. y = [x EXCEPT !.overtaken = TRUE]
      BY <1>2, <1>3, <2>2
    <3> QED BY <2>1, <3>1, SoundOvertaken
  <2>3. CASE ~Touched(x)
    <3>1. y = x
      BY <1>2, <1>3, <2>3
    <3> QED BY <2>1, <2>3, <3>1, SoundUntouched
  <2>4. CASE ~Wrote(req[r])
    <3>1. y = x
      BY <1>2, <1>3, <2>4
    <3> QED BY <2>1, <2>4, <3>1, SoundStays
  <2> QED BY <2>2, <2>3, <2>4
<1>4. ASSUME NEW o \in Requests, NEW y, y = req'[o]
      PROVE  Sound(y)'
  <2>1. CASE o # r /\ Busy(o)
    BY <1>3, <1>4, <2>1
  <2>2. CASE ~(o # r /\ Busy(o))
    <3>1. y = Idle
      BY <1>1, <1>2, <1>4, <2>2, AtFacts
    <3> QED BY <3>1 DEF Sound
  <2> QED BY <2>1, <2>2
<1>5. \A o \in Requests : Busy(o)' => /\ o # r /\ Busy(o)
                                      /\ req'[o].rows = req[o].rows /\ req'[o].lost = req[o].lost
  BY <1>1, <1>2, <1>3, Kinds DEF Busy
<1>6. Apart'
  BY <1>5 DEF Apart, TxInv
<1> QED BY <1>1, <1>4, <1>6

LEMMA InvCommitReview ==
  ASSUME TxInv, NEW r \in Requests, CommitReview(r)
  PROVE  TxInv'
<1> PICK q : q = req[r]
  OBVIOUS
<1>1. /\ Ends(r) /\ UNCHANGED <<point, log, stored, document, late, begun>>
      /\ detail' = [detail EXCEPT ![q.point] = q.signed]
  BY DEF CommitReview
<1>2. q \in Signer /\ Signs(q)
  BY AtFacts DEF CommitReview
<1>3. DOMAIN detail' = DOMAIN detail /\ detail' \in [DOMAIN detail -> DetailRow]
  <2>1. q.signed \in DetailRow
    BY <1>2 DEF Signer
  <2> QED BY <1>1, <2>1 DEF TxInv, TypeOK
<1>4. Points' = Points /\ CurrentIn(point') = CurrentIn(point)
  BY <1>1 DEF Points, CurrentIn
<1>5. \A o \in Requests \ {r} : Busy(o) => DOMAIN req[o].rows \intersect Points' = {}
  <2>1. \A x \in Writer \cup Signer : Sound(x) => DOMAIN x.rows \intersect Points = {}
    BY Kinds DEF Sound, Whole
  <2> QED BY <1>4, <2>1, AtFacts DEF TxInv
<1>9. Wrote(req[r])
  BY <1>2, Kinds DEF Wrote
<1>6. /\ req' = [o \in Requests |-> req'[o]]
      /\ \A o \in Requests : Sound(req[o])'
      /\ Apart'
  BY <1>1, <1>3, <1>4, <1>5, <1>9, EndsFacts
<1>7. TypeOK'
  BY <1>1, <1>3, <1>4 DEF TxInv, TypeOK
<1>8. DocumentsWhole' /\ IsFiniteSet(Points') /\ begun' \in 0 .. MaxBegun /\ late' \subseteq Points'
      /\ (\A p, o \in (CurrentIn(point) \ late)' : p = o)
      /\ document' \in [DOMAIN document' -> DocumentRow]
  BY <1>1, <1>4 DEF TxInv, DocumentsWhole, DocumentRow
<1> QED BY <1>6, <1>7, <1>8 DEF TxInv

\* A transaction that has written nothing commits nothing of the field.
LEMMA CommitOfNothing ==
  ASSUME TxInv, NEW r \in Requests, Commit(r)
  PROVE  Wrote(req[r]) \/ UNCHANGED fieldVars
<1> PICK q : q = req[r]
  OBVIOUS
<1>1. point' = Visible(r) /\ log' = VisibleLog(r) /\ detail' = VisibleDetail(r)
  BY DEF Commit
<1>2. q \in Writer /\ Whole(q) /\ Busy(r)
  BY AtFacts DEF Commit, At
<1> SUFFICES ASSUME DOMAIN q.rows = {}
             PROVE  UNCHANGED fieldVars
  BY DEF Wrote
<1>3. DOMAIN q.lost = {} /\ q.entries = {}
  BY <1>2 DEF Whole, OwnCurrent
<1>4. point = [p \in DOMAIN point |-> point[p]] /\ detail = [p \in DOMAIN detail |-> detail[p]]
  BY DEF TxInv, TypeOK
<1>5. Visible(r) = point
  BY <1>2, <1>3, <1>4 DEF Visible, Losing
<1>6. VisibleDetail(r) = detail
  BY <1>4 DEF VisibleDetail
<1>7. VisibleLog(r) = log
  BY <1>2, <1>3 DEF VisibleLog
<1> QED BY <1>1, <1>5, <1>6, <1>7 DEF fieldVars

LEMMA InvCommit ==
  ASSUME TxInv, NEW r \in Requests, Commit(r)
  PROVE  TxInv'
<1> PICK q : q = req[r]
  OBVIOUS
<1> PICK own : own = DOMAIN q.rows
  OBVIOUS
<1>1. /\ Ends(r) /\ UNCHANGED <<stored, begun>>
      /\ point' = Visible(r) /\ log' = VisibleLog(r) /\ detail' = VisibleDetail(r)
      /\ late' = IF q.overtaken THEN late \cup own ELSE late
      /\ document' = IF q.op = "ingest"
                     THEN Insert(document, q.doc,
                                 [job |-> IF q.step = "failed" THEN "failed" ELSE "success",
                                  rows |-> own])
                     ELSE document
  BY DEF Commit
<1>2. /\ q \in Writer /\ Whole(q) /\ (~q.overtaken => Fresh(q))
      /\ q.step \in {"next", "failed"} /\ Busy(r)
  BY AtFacts DEF Commit, At
<1>3. /\ q.rows \in [own -> PointRow] /\ own \subseteq PointId
      /\ own \intersect Points = {} /\ IsFiniteSet(own) /\ Points \subseteq PointId
      /\ q.entries \subseteq (Points \cup own) \X (Points \cup own)
  BY <1>2, WriterFacts
<1>4. /\ Points' = Points \cup own /\ point' \in [Points \cup own -> PointRow]
      /\ \A p \in own : point'[p] = q.rows[p]
      /\ \A p \in Points : point'[p].source = point[p].source /\ point'[p].previous = point[p].previous
      /\ CurrentIn(point') = (CurrentIn(point) \ DOMAIN q.lost) \cup OwnCurrent(q)
  <2>1. Shows(q, point')
    BY <1>1, <1>2, VisibleFacts
  <2> QED BY <2>1 DEF Shows, Points
<1>5. /\ DOMAIN detail \subseteq DOMAIN detail'
      /\ DOMAIN detail' \subseteq {p \in Points' : point'[p].source = Manual}
      /\ detail' \in [DOMAIN detail' -> DetailRow]
  <2>1. /\ DOMAIN detail \subseteq {p \in Points : point[p].source = Manual}
        /\ detail \in [DOMAIN detail -> DetailRow]
    BY DEF TxInv, TypeOK
  <2>2. CASE q.op = "override"
    <3>1. detail' = [p \in DOMAIN detail \cup own |->
                       IF p \in DOMAIN detail THEN detail[p]
                       ELSE [reviewed_by |-> Nobody, approved |-> FALSE]]
      BY <1>1, <1>2, <2>2 DEF VisibleDetail
    <3>2. \A p \in own : point'[p].source = Manual
      BY <1>2, <1>4, <2>2 DEF Whole
    <3>3. [reviewed_by |-> Nobody, approved |-> FALSE] \in DetailRow
      BY DEF DetailRow
    <3> QED BY <1>4, <2>1, <3>1, <3>2, <3>3
  <2>3. CASE q.op # "override"
    <3>1. detail' = detail
      BY <1>1, <1>2, <2>3 DEF VisibleDetail
    <3> QED BY <1>4, <2>1, <3>1
  <2> QED BY <2>2, <2>3
<1>6. TypeOK'
  <2>1. \A p \in Points' : point'[p].previous \in Points' \cup {NoPoint}
    BY <1>2, <1>4 DEF Whole, TxInv, TypeOK
  <2>2. log' = log \cup q.entries
    BY <1>1, <1>2 DEF VisibleLog
  <2>3. log' \subseteq Points' \X Points'
    BY <1>3, <1>4, <2>2 DEF TxInv, TypeOK
  <2>4. Points' \subseteq PointId /\ point' \in [Points' -> PointRow]
    BY <1>3, <1>4
  <2> QED BY <1>5, <2>1, <2>3, <2>4 DEF TypeOK
<1>7. IsFiniteSet(Points') /\ late' \subseteq Points'
  BY <1>1, <1>3, <1>4, FS_Union DEF TxInv
<1>8. \A p, o \in CurrentIn(point') \ late' : p = o
  <2>1. OwnCurrent(q) \subseteq own
    BY DEF OwnCurrent
  <2>2. CASE q.overtaken
    BY <1>1, <1>4, <2>1, <2>2 DEF TxInv
  <2>3. CASE ~q.overtaken /\ OwnCurrent(q) # {}
    <3>1. CurrentIn(point') = OwnCurrent(q)
      BY <1>2, <1>4, <2>3 DEF Fresh
    <3> QED BY <1>2, <3>1 DEF Whole
  <2>4. CASE ~q.overtaken /\ OwnCurrent(q) = {}
    BY <1>1, <1>4, <2>4 DEF TxInv
  <2> QED BY <2>2, <2>3, <2>4
<1>9. document' \in [DOMAIN document' -> DocumentRow] /\ DocumentsWhole'
  <2>1. document \in [DOMAIN document -> DocumentRow] /\ DocumentsWhole
    BY DEF TxInv
  <2>2. CASE q.op = "ingest"
    <3> PICK row : row = [job |-> IF q.step = "failed" THEN "failed" ELSE "success", rows |-> own]
      OBVIOUS
    <3>1. row \in DocumentRow /\ row.rows = own /\ (row.job = "failed" => own = {})
      BY <1>2, <1>3 DEF DocumentRow, Whole
    <3>2. q.doc \in stored'
      BY <1>1, <1>2, <2>2 DEF Whole
    <3>3. /\ DOMAIN document' = DOMAIN document \cup {q.doc}
          /\ \A d \in DOMAIN document' : document'[d] = row \/ (d \in DOMAIN document /\ document'[d] = document[d])
          /\ document' \in [DOMAIN document' -> DocumentRow]
      BY <1>1, <2>1, <2>2, <3>1 DEF Insert
    <3>4. DocumentsWhole'
      BY <1>1, <1>4, <2>1, <3>1, <3>2, <3>3 DEF DocumentsWhole
    <3> QED BY <3>3, <3>4
  <2>3. CASE q.op # "ingest"
    <3>1. document' = document
      BY <1>1, <2>3
    <3> QED BY <1>1, <1>4, <2>1, <3>1 DEF DocumentsWhole, DocumentRow
  <2> QED BY <2>2, <2>3
<1>10. /\ req' = [o \in Requests |-> req'[o]]
       /\ \A o \in Requests : Sound(req[o])'
       /\ Apart'
  <2>1. \A o \in Requests \ {r} : Busy(o) => DOMAIN req[o].rows \intersect Points' = {}
    <3>1. \A x \in Writer \cup Signer : Sound(x) => DOMAIN x.rows \intersect Points = {}
      BY Kinds DEF Sound, Whole
    <3>2. \A o \in Requests \ {r} : Busy(o) => DOMAIN req[o].rows \intersect own = {}
      BY <1>2 DEF TxInv, Apart
    <3> QED BY <1>4, <3>1, <3>2, AtFacts DEF TxInv
  <2>2. Points \subseteq Points' /\ stored' = stored
    BY <1>1, <1>4
  <2>3. Wrote(q) \/ UNCHANGED <<point, detail>>
    BY CommitOfNothing DEF fieldVars
  <2> QED BY <1>1, <1>5, <2>1, <2>2, <2>3, EndsFacts
<1>11. begun' \in 0 .. MaxBegun
  BY <1>1 DEF TxInv
<1> QED BY <1>6, <1>7, <1>8, <1>9, <1>10, <1>11 DEF TxInv

(***************************************************************************)
(* The invariant holds.                                                    *)
(***************************************************************************)
LEMMA TxInvInit == TxInit => TxInv
<1> SUFFICES ASSUME TxInit
             PROVE  TxInv
  OBVIOUS
<1>1. /\ point = NoRows /\ log = {} /\ detail = NoRows /\ stored = {} /\ document = NoRows
      /\ begun = 0 /\ late = {} /\ req = [r \in Requests |-> Idle]
  BY DEF TxInit, Init, NoRows
<1>2. DOMAIN NoRows = {} /\ \A S : NoRows \in [{} -> S]
  BY DEF NoRows
<1>3. TypeOK
  BY <1>1, <1>2 DEF TypeOK, Points
<1>4. IsFiniteSet(Points) /\ CurrentIn(point) = {} /\ late \subseteq Points
  BY <1>1, <1>2, FS_EmptySet DEF Points, CurrentIn
<1>5. begun \in 0 .. MaxBegun
  BY <1>1, TxAssumption
<1>6. DocumentsWhole /\ document \in [DOMAIN document -> DocumentRow]
  BY <1>1, <1>2 DEF DocumentsWhole
<1>7. /\ req = [r \in Requests |-> req[r]]
      /\ \A r \in Requests : Sound(req[r])
      /\ Apart
  BY <1>1, Kinds DEF Sound, Apart, Busy
<1> QED BY <1>3, <1>4, <1>5, <1>6, <1>7 DEF TxInv

LEMMA TxInvStep == TxInv /\ [TxNext]_txVars => TxInv'
<1> SUFFICES ASSUME TxInv, [TxNext]_txVars
             PROVE  TxInv'
  OBVIOUS
<1>1. CASE UNCHANGED txVars
  <2>1. UNCHANGED <<point, log, detail, stored, document, req, begun, late>>
    BY <1>1 DEF txVars, fieldVars
  <2>2. \A o \in Requests : Sound(req[o])'
    <3>1. ASSUME NEW o \in Requests, NEW x, x = req'[o]
          PROVE  Sound(x)'
      BY <2>1, <3>1, SoundStays DEF TxInv
    <3> QED BY <3>1
  <2> QED BY <2>1, <2>2 DEF TxInv, TypeOK, Points, DetailRow, PointRow, CurrentIn, DocumentRow,
                            DocumentsWhole, Apart, Busy
<1>2. ASSUME NEW r \in Requests, Begin(r, "acquire", Sources \ {Manual})
      PROVE  TxInv'
  BY <1>2, InvBegin
<1>3. ASSUME NEW r \in Requests, NEW src \in Sources, Begin(r, "ingest", {src})
      PROVE  TxInv'
  BY <1>3, InvBegin
<1>4. ASSUME NEW r \in Requests, Begin(r, "override", {Manual})
      PROVE  TxInv'
  BY <1>4, InvBegin, FieldAssumption
<1>5. ASSUME NEW r \in Requests, NEW src \in Sources, NEW value \in Values,
             NEW seen \in PointId \cup {NoPoint}, ReadCurrent(r, src, value, seen)
      PROVE  TxInv'
  BY <1>5, InvReadCurrent
<1>6. ASSUME NEW r \in Requests, NEW p \in PointId, Flush(r, p)
      PROVE  TxInv'
  BY <1>6, InvFlush
<1>7. ASSUME NEW r \in Requests, NEW d \in DocId, NEW text \in BOOLEAN, SaveFile(r, d, text)
      PROVE  TxInv'
  BY <1>7, InvSaveFile
<1>8. ASSUME NEW r \in Requests, NEW u \in Reviewers, NEW p \in DOMAIN detail,
             NEW approved \in BOOLEAN, BeginReview(r, u, p, approved)
      PROVE  TxInv'
  BY <1>8, InvBeginReview
<1>9. ASSUME NEW r \in Requests, Commit(r)
      PROVE  TxInv'
  BY <1>9, InvCommit
<1>10. ASSUME NEW r \in Requests, CommitReview(r)
       PROVE  TxInv'
  BY <1>10, InvCommitReview
<1>11. ASSUME NEW r \in Requests, Abort(r)
       PROVE  TxInv'
  BY <1>11, InvAbort
<1> QED BY <1>1, <1>2, <1>3, <1>4, <1>5, <1>6, <1>7, <1>8, <1>9, <1>10, <1>11 DEF TxNext, TxStep

LEMMA TxInvAlways == TxSpec => []TxInv
<1> QED BY TxInvInit, TxInvStep, PTL DEF TxSpec

(***************************************************************************)
(* What a step may never do.                                               *)
(***************************************************************************)
\* Only the ends of a transaction touch the committed rows.
LEMMA OnlyEndsWrite ==
  ASSUME TxInv, [TxNext]_txVars
  PROVE  \/ UNCHANGED fieldVars
         \/ \E r \in Requests : Commit(r) \/ CommitReview(r)
BY DEF TxNext, TxStep, txVars, Begin, ReadCurrent, Flush, SaveFile, BeginReview, Abort

\* What is committed: what the transaction showed, beside what there was.
LEMMA CommitShows ==
  ASSUME TxInv, NEW r \in Requests, NEW q, q = req[r], Commit(r)
  PROVE  /\ q \in Writer /\ Whole(q) /\ (~q.overtaken => Fresh(q)) /\ Busy(r)
         /\ Shows(q, point') /\ req'[r] = Idle
         /\ log \subseteq log' /\ \A p \in DOMAIN detail : detail'[p] = detail[p]
<1>1. point' = Visible(r) /\ log' = VisibleLog(r) /\ detail' = VisibleDetail(r) /\ Ends(r)
  BY DEF Commit
<1>2. q \in Writer /\ Whole(q) /\ (~q.overtaken => Fresh(q)) /\ Busy(r)
  BY AtFacts DEF Commit, At
<1>3. Shows(q, point')
  BY <1>1, <1>2, VisibleFacts
<1>4. log \subseteq log' /\ \A p \in DOMAIN detail : detail'[p] = detail[p]
  BY <1>1 DEF VisibleLog, VisibleDetail
<1>5. req'[r] = Idle
  BY <1>1 DEF Ends
<1> QED BY <1>2, <1>3, <1>4, <1>5

LEMMA CommitKeepsCurrent ==
  ASSUME TxInv, NEW r \in Requests, Commit(r)
  PROVE  Cardinality(CurrentIn(point')) >= Cardinality(CurrentIn(point))
<1> PICK q : q = req[r]
  OBVIOUS
<1> PICK C : C = CurrentIn(point)
  OBVIOUS
<1> PICK lost : lost = DOMAIN q.lost
  OBVIOUS
<1> PICK mine : mine = OwnCurrent(q)
  OBVIOUS
<1>1. Whole(q) /\ CurrentIn(point') = (C \ lost) \cup mine
  BY CommitShows DEF Shows
<1>2. /\ C \subseteq Points /\ IsFiniteSet(C) /\ Cardinality(C) \in Nat
      /\ mine \intersect C = {} /\ IsFiniteSet(mine)
  <2>1. C \subseteq Points /\ mine \subseteq DOMAIN q.rows
    BY DEF CurrentIn, OwnCurrent, Points
  <2>2. IsFiniteSet(C) /\ IsFiniteSet(mine)
    BY <1>1, <2>1, FS_Subset DEF TxInv, Whole
  <2> QED BY <1>1, <2>1, <2>2, FS_CardinalityType DEF Whole
<1>3. /\ \A p, o \in lost : p = o
      /\ lost # {} => mine # {}
  BY <1>1 DEF Whole
<1> PICK D : D = (C \ lost) \cup mine
  OBVIOUS
<1>4. IsFiniteSet(D) /\ Cardinality(D) \in Nat
  <2>1. IsFiniteSet(C \ lost)
    BY <1>2, FS_Subset
  <2>2. IsFiniteSet(D)
    BY <1>2, <2>1, FS_Union
  <2> QED BY <2>2, FS_CardinalityType
<1>5. CASE lost = {}
  <2>1. C \subseteq D
    BY <1>5
  <2>2. Cardinality(C) <= Cardinality(D)
    BY <1>4, <2>1, FS_Subset
  <2> QED BY <1>1, <1>2, <1>4, <2>2
<1>6. CASE lost # {}
  <2> PICK l \in lost : TRUE
    BY <1>6
  <2> PICK m \in mine : TRUE
    BY <1>3, <1>6
  <2>1. (C \ {l}) \cup {m} \subseteq D /\ m \notin C \ {l}
    BY <1>2, <1>3
  <2>2. /\ IsFiniteSet(C \ {l}) /\ Cardinality(C \ {l}) \in Nat
        /\ Cardinality(C \ {l}) = IF l \in C THEN Cardinality(C) - 1 ELSE Cardinality(C)
    BY <1>2, FS_RemoveElement, FS_CardinalityType
  <2>3. Cardinality((C \ {l}) \cup {m}) = Cardinality(C \ {l}) + 1
    BY <2>1, <2>2, FS_AddElement
  <2>4. Cardinality((C \ {l}) \cup {m}) <= Cardinality(D)
    BY <1>4, <2>1, FS_Subset
  <2>5. Cardinality(C) <= Cardinality(D)
    BY <1>2, <1>4, <2>2, <2>3, <2>4
  <2> QED BY <1>1, <1>2, <1>4, <2>5
<1> QED BY <1>5, <1>6

LEMMA CommitKeepsHistory ==
  ASSUME TxInv, NEW r \in Requests, Commit(r)
  PROVE  /\ \A p \in Points :
              /\ point'[p] = [point[p] EXCEPT !.is_current = point'[p].is_current,
                                              !.status = point'[p].status]
              /\ point'[p] # point[p] => ~point'[p].is_current
              /\ point'[p] # point[p] => point[p].is_current \/ OvertakenEnds
         /\ log \subseteq log'
         /\ \A p \in DOMAIN detail : detail'[p] = detail[p]
<1> PICK q : q = req[r]
  OBVIOUS
<1>1. /\ Whole(q) /\ (~q.overtaken => Fresh(q)) /\ Busy(r) /\ Shows(q, point') /\ req'[r] = Idle
      /\ log \subseteq log' /\ \A p \in DOMAIN detail : detail'[p] = detail[p]
  BY CommitShows
<1>2. ASSUME NEW p \in Points
      PROVE  /\ point'[p] = [point[p] EXCEPT !.is_current = point'[p].is_current,
                                             !.status = point'[p].status]
             /\ point'[p] # point[p] => ~point'[p].is_current
             /\ point'[p] # point[p] => point[p].is_current \/ OvertakenEnds
  <2>1. /\ point'[p] = [point[p] EXCEPT !.is_current = point'[p].is_current,
                                        !.status = point'[p].status]
        /\ p \notin DOMAIN q.lost => point'[p] = point[p]
        /\ p \in DOMAIN q.lost => ~point'[p].is_current
    BY <1>1, <1>2 DEF Shows
  <2>2. q.overtaken => OvertakenEnds
    BY <1>1 DEF OvertakenEnds
  <2>3. ~q.overtaken /\ p \in DOMAIN q.lost => point[p].is_current
    BY <1>1 DEF Fresh
  <2> QED BY <2>1, <2>2, <2>3
<1> QED BY <1>1, <1>2

LEMMA ReviewKeepsHistory ==
  ASSUME TxInv, NEW r \in Requests, CommitReview(r)
  PROVE  /\ UNCHANGED <<point, log>>
         /\ \A p \in DOMAIN detail :
              detail[p].reviewed_by # Nobody /\ detail'[p] # detail[p] => OvertakenEnds
<1> PICK q : q = req[r]
  OBVIOUS
<1>1. /\ Ends(r) /\ UNCHANGED <<point, log>>
      /\ detail' = [detail EXCEPT ![q.point] = q.signed]
  BY DEF CommitReview
<1>2. Signs(q) /\ Busy(r)
  BY AtFacts DEF CommitReview, At
<1>3. \A p \in DOMAIN detail : p # q.point => detail'[p] = detail[p]
  BY <1>1
<1>4. q.overtaken => OvertakenEnds
  BY <1>1, <1>2 DEF Ends, OvertakenEnds
<1> QED BY <1>1, <1>2, <1>3, <1>4 DEF Signs

LEMMA PointRowEta ==
  \A row \in PointRow : row = [row EXCEPT !.is_current = row.is_current, !.status = row.status]
BY DEF PointRow

LEMMA HistoryStep ==
  ASSUME TxInv, [TxNext]_txVars
  PROVE  /\ Cardinality(CurrentIn(point')) >= Cardinality(CurrentIn(point))
         /\ \A p \in Points :
              /\ point'[p] = [point[p] EXCEPT !.is_current = point'[p].is_current,
                                              !.status = point'[p].status]
              /\ point'[p] # point[p] => ~point'[p].is_current
              /\ point'[p] # point[p] => point[p].is_current \/ OvertakenEnds
         /\ log \subseteq log'
         /\ \A p \in DOMAIN detail :
              detail[p].reviewed_by # Nobody /\ detail'[p] # detail[p] => OvertakenEnds
<1>1. Cardinality(CurrentIn(point)) \in Nat
  BY FS_Subset, FS_CardinalityType DEF CurrentIn, TxInv, Points
<1>2. ASSUME point' = point
      PROVE  /\ Cardinality(CurrentIn(point')) >= Cardinality(CurrentIn(point))
             /\ \A p \in Points :
                  /\ point'[p] = [point[p] EXCEPT !.is_current = point'[p].is_current,
                                                  !.status = point'[p].status]
                  /\ point'[p] = point[p]
  <2>1. CurrentIn(point') = CurrentIn(point)
    BY <1>2
  <2>2. \A p \in Points : point[p] \in PointRow
    BY DEF TxInv, TypeOK
  <2>3. Cardinality(CurrentIn(point')) >= Cardinality(CurrentIn(point))
    BY <1>1, <2>1
  <2>4. ASSUME NEW p \in Points
        PROVE  point'[p] = [point[p] EXCEPT !.is_current = point'[p].is_current,
                                            !.status = point'[p].status]
    BY <1>2, <2>2, PointRowEta
  <2> QED BY <1>2, <2>3, <2>4
<1>3. CASE UNCHANGED fieldVars
  BY <1>2, <1>3 DEF fieldVars
<1>4. CASE \E r \in Requests : Commit(r)
  BY <1>4, CommitKeepsCurrent, CommitKeepsHistory
<1>5. CASE \E r \in Requests : CommitReview(r)
  BY <1>2, <1>5, ReviewKeepsHistory
<1> QED BY <1>3, <1>4, <1>5, OnlyEndsWrite

(***************************************************************************)
(* The theorems.                                                           *)
(***************************************************************************)
\* The tables keep their types and no row is held by two transactions.
THEOREM TypesUnderOverlap == TxSpec => []TxTypeOK
<1>1. TxInv => TxTypeOK
  BY DEF TxInv, TxTypeOK, Apart
<1> QED BY <1>1, TxInvAlways, PTL

\* Of the rows written by transactions nobody overtook, at most one is current, so
\* get_current_data_point finds two only after an overlap.
THEOREM TwoCurrentTakeOverlap == TxSpec => []SecondOnlyWhenOvertaken
<1>1. TxInv => SecondOnlyWhenOvertaken
  <2> SUFFICES ASSUME TxInv
               PROVE  Cardinality(CurrentIn(point) \ late) <= 1
    BY DEF SecondOnlyWhenOvertaken
  <2> PICK C : C = CurrentIn(point) \ late
    OBVIOUS
  <2>1. \A p, o \in C : p = o
    BY DEF TxInv
  <2>2. CASE C = {}
    <3>1. Cardinality({}) = 0
      BY FS_EmptySet
    <3> QED BY <2>2, <3>1
  <2>3. CASE C # {}
    <3> PICK c \in C : TRUE
      BY <2>3
    <3>1. C = {c}
      BY <2>1
    <3>2. Cardinality({c}) = 1
      BY FS_Singleton
    <3> QED BY <3>1, <3>2
  <2> QED BY <2>2, <2>3
<1> QED BY <1>1, TxInvAlways, PTL

\* ingest_document stores the file first, so that a document on record has its file and,
\* just when its job succeeded, its values.
THEOREM DocumentsHaveFiles == TxSpec => []DocumentsWhole
<1>1. TxInv => DocumentsWhole
  BY DEF TxInv
<1> QED BY <1>1, TxInvAlways, PTL

\* However writers overlap and whatever is rolled back, a field with a value keeps one.
THEOREM ValueStaysInForce == TxSpec => NeverFewerCurrent
<1>1. TxInv /\ [TxNext]_txVars =>
        [Cardinality(CurrentIn(point')) >= Cardinality(CurrentIn(point))]_txVars
  BY HistoryStep
<1> QED BY <1>1, TxInvAlways, PTL DEF TxSpec, NeverFewerCurrent

\* What is committed is only ever added to: a row can lose its place, and only a transaction
\* that was overtaken can say anew why it did, or replace a sign-off.
THEOREM HistoryOnlyGrows == TxSpec => HistoryKept
<1>1. TxInv /\ [TxNext]_txVars =>
        [/\ \A p \in Points :
              /\ point'[p] = [point[p] EXCEPT !.is_current = point'[p].is_current,
                                              !.status = point'[p].status]
              /\ point'[p] # point[p] => ~point'[p].is_current
              /\ point'[p] # point[p] => point[p].is_current \/ OvertakenEnds
         /\ log \subseteq log'
         /\ \A p \in DOMAIN detail :
              detail[p].reviewed_by # Nobody /\ detail'[p] # detail[p] => OvertakenEnds]_txVars
  BY HistoryStep
<1> QED BY <1>1, TxInvAlways, PTL DEF TxSpec, HistoryKept

(***************************************************************************)
(* A transaction nobody has overtaken, on what it sees.                    *)
(***************************************************************************)
\* What it shows of its writes, the rows it has not written being as committed.
ShownBy(q) ==
  LET committed == Losing(point, q.lost)
  IN  [p \in DOMAIN committed \cup DOMAIN q.rows |->
         IF p \in DOMAIN q.rows THEN q.rows[p] ELSE committed[p]]

Retired(T, c, status) ==
  [p \in DOMAIN T |-> IF p = c THEN [T[p] EXCEPT !.is_current = FALSE, !.status = status]
                      ELSE T[p]]

LEMMA RetiredIsExcept ==
  ASSUME NEW T, T = [p \in DOMAIN T |-> T[p]], NEW c \in DOMAIN T, NEW status
  PROVE  [T EXCEPT ![c].is_current = FALSE, ![c].status = status] = Retired(T, c, status)
BY DEF Retired

\* get_current_data_point, called again before the flush, would find the row that was loaded,
\* as it was loaded.
LEMMA SeenCurrent ==
  ASSUME TxInv, NEW r \in Requests, NEW w, w = req[r], At(r, "flush"), ~w.overtaken
  PROVE  /\ w \in Writer /\ Whole(w) /\ Busy(r)
         /\ w.write.seen \in DOMAIN Visible(r) \cup {NoPoint} /\ NoPoint \notin DOMAIN Visible(r)
         /\ CurrentIn(Visible(r)) = {w.write.seen} \ {NoPoint}
         /\ w.write.seen # NoPoint => w.write.loaded = Visible(r)[w.write.seen]
         /\ w.write.seen \notin DOMAIN w.lost
<1> PICK V : V = Visible(r)
  OBVIOUS
<1> PICK seen : seen = w.write.seen
  OBVIOUS
<1> PICK own : own = DOMAIN w.rows
  OBVIOUS
<1>1. w \in Writer /\ Whole(w) /\ w.step = "flush" /\ Fresh(w) /\ Busy(r)
  BY AtFacts DEF At
<1>2. Shows(w, V)
  BY <1>1, VisibleFacts
<1>3. /\ DOMAIN V = Points \cup own /\ own \intersect Points = {}
      /\ \A p \in own : V[p] = w.rows[p]
      /\ \A p \in Points : p \notin DOMAIN w.lost => V[p] = point[p]
      /\ CurrentIn(V) = (CurrentIn(point) \ DOMAIN w.lost) \cup OwnCurrent(w)
  BY <1>1, <1>2 DEF Shows, Whole
<1>4. NoPoint \notin Points \cup own
  BY <1>1, WriterFacts
<1>5. /\ seen \in Points \cup own \cup {NoPoint}
      /\ seen \in own => w.write.loaded = w.rows[seen]
      /\ \A p \in own : w.rows[p].is_current <=> p = seen
      /\ DOMAIN w.lost # {} => OwnCurrent(w) # {}
      /\ DOMAIN w.lost \subseteq Points
  BY <1>1 DEF Whole
<1>6. /\ CurrentIn(point) \ DOMAIN w.lost \subseteq {seen}
      /\ seen \in Points => point[seen].is_current /\ w.write.loaded = point[seen]
  BY <1>1 DEF Fresh
<1>7. OwnCurrent(w) = {seen} \intersect own
  BY <1>5 DEF OwnCurrent
<1>8. seen \notin DOMAIN w.lost
  BY <1>3, <1>5, <1>7
<1>9. seen \in Points => seen \in CurrentIn(point)
  BY <1>6 DEF CurrentIn, Points
<1>10. CurrentIn(point) \subseteq Points
  BY DEF CurrentIn, Points
<1>11. CurrentIn(V) = {seen} \ {NoPoint}
  BY <1>3, <1>4, <1>5, <1>6, <1>7, <1>8, <1>9, <1>10
<1>12. seen # NoPoint => w.write.loaded = V[seen]
  BY <1>3, <1>5, <1>6, <1>8
<1> QED BY <1>1, <1>3, <1>4, <1>5, <1>8, <1>11, <1>12

AfterWrite(r, w, p) ==
  Insert(IF Updates(w) THEN Retired(Visible(r), w.write.seen, StatusOfLoser(w)) ELSE Visible(r),
         p, NewRow(w))

\* One flush is one write on what the transaction sees.
LEMMA ShownAfter ==
  ASSUME TxInv, NEW r \in Requests, NEW w, w = req[r], At(r, "flush"), ~w.overtaken,
         NEW p \in PointId, p \notin DOMAIN Visible(r),
         NEW q, q.rows = RowsAfter(w, p), q.lost = LostAfter(w)
  PROVE  ShownBy(q) = AfterWrite(r, w, p)
<1> PICK V : V = Visible(r)
  OBVIOUS
<1> PICK seen : seen = w.write.seen
  OBVIOUS
<1> PICK st : st = StatusOfLoser(w)
  OBVIOUS
<1> PICK own : own = DOMAIN w.rows
  OBVIOUS
<1> PICK new : new = NewRow(w)
  OBVIOUS
<1> PICK S : S = ShownBy(q)
  OBVIOUS
<1> PICK base : base = IF Updates(w) THEN Retired(V, seen, st) ELSE V
  OBVIOUS
<1>1. /\ w \in Writer /\ Whole(w) /\ Busy(r) /\ seen \in DOMAIN V \cup {NoPoint}
      /\ seen \notin DOMAIN w.lost
  BY SeenCurrent
<1>2. V = [x \in Points \cup own |-> IF x \in own THEN w.rows[x] ELSE Losing(point, w.lost)[x]]
  BY <1>1 DEF Visible, Losing, Points
<1>3. Updates(w) => seen \in Points \cup own
  BY <1>1, <1>2, OutcomeFacts DEF Whole, At
<1>4. DOMAIN q.rows = own \cup {p} /\ q.rows[p] = new
  BY DEF RowsAfter, RowsBefore, Losing, Insert
<1>5. S = [x \in Points \cup (own \cup {p}) |->
             IF x \in own \cup {p} THEN q.rows[x] ELSE Losing(point, q.lost)[x]]
  BY <1>4 DEF ShownBy, Losing, Points
<1>6. DOMAIN base = Points \cup own
  BY <1>2 DEF Retired
<1>7. ASSUME NEW x \in own
      PROVE  q.rows[x] = base[x]
  <2>1. x # p /\ x \in DOMAIN V /\ V[x] = w.rows[x]
    BY <1>2
  <2>2. q.rows[x] = RowsBefore(w)[x]
    BY <2>1 DEF RowsAfter, Insert, RowsBefore, Losing
  <2>3. CASE Updates(w) /\ seen \in own
    BY <2>1, <2>2, <2>3 DEF RowsBefore, Losing, Retired
  <2>4. CASE ~(Updates(w) /\ seen \in own)
    BY <2>1, <2>2, <2>4 DEF RowsBefore, Retired
  <2> QED BY <2>3, <2>4
<1>8. ASSUME NEW x \in Points, x \notin own
      PROVE  Losing(point, q.lost)[x] = base[x]
  <2>1. x \in DOMAIN V /\ V[x] = Losing(point, w.lost)[x] /\ x \in DOMAIN point
    BY <1>2, <1>8 DEF Points
  <2>2. CASE Updates(w) /\ seen \notin own
    <3>1. q.lost = Insert(w.lost, seen, st)
      BY <2>2 DEF LostAfter
    <3>2. CASE x = seen
      BY <1>1, <2>1, <2>2, <3>1, <3>2 DEF Losing, Insert, Retired
    <3>3. CASE x # seen
      BY <2>1, <2>2, <3>1, <3>3 DEF Losing, Insert, Retired
    <3> QED BY <3>2, <3>3
  <2>3. CASE ~(Updates(w) /\ seen \notin own)
    <3>1. q.lost = w.lost
      BY <2>3 DEF LostAfter
    <3> QED BY <1>8, <2>1, <2>3, <3>1 DEF Retired
  <2> QED BY <2>2, <2>3
<1>9. p \notin Points /\ p \notin own
  BY <1>2
<1>10. S = [x \in Points \cup own \cup {p} |-> IF x = p THEN new ELSE base[x]]
  BY <1>4, <1>5, <1>7, <1>8, <1>9
<1> QED BY <1>6, <1>10 DEF Insert, AfterWrite

NotReviewed == [reviewed_by |-> Nobody, approved |-> FALSE]

LEMMA FlushShows ==
  ASSUME TxInv, NEW r \in Requests, NEW w, w = req[r], ~w.overtaken, NEW p \in PointId, Flush(r, p)
  PROVE  /\ At(r, "flush") /\ p \notin DOMAIN Visible(r)
         /\ Visible(r)' = AfterWrite(r, w, p)
         /\ VisibleLog(r)' = VisibleLog(r) \cup Entries(w, p)
         /\ VisibleDetail(r)' = IF w.op = "override"
                                THEN Insert(VisibleDetail(r), p, NotReviewed)
                                ELSE VisibleDetail(r)
<1> SUFFICES ASSUME NEW q,
                    q = [w EXCEPT !.step = "next", !.write = NoWrite, !.rows = RowsAfter(w, p),
                                  !.lost = LostAfter(w), !.entries = w.entries \cup Entries(w, p)]
             PROVE  /\ At(r, "flush") /\ p \notin DOMAIN Visible(r)
                    /\ Visible(r)' = AfterWrite(r, w, p)
                    /\ VisibleLog(r)' = VisibleLog(r) \cup Entries(w, p)
                    /\ VisibleDetail(r)' = IF w.op = "override"
                                           THEN Insert(VisibleDetail(r), p, NotReviewed)
                                           ELSE VisibleDetail(r)
  OBVIOUS
<1>1. /\ At(r, "flush") /\ Step(r, q) /\ UNCHANGED <<point, log, detail>>
      /\ p \notin Points /\ \A o \in Requests : Busy(o) => p \notin DOMAIN req[o].rows
  BY DEF Flush, RowsAfter, RowsBefore, LostAfter, fieldVars
<1>2. w \in Writer /\ Whole(w) /\ Busy(r)
  BY <1>1, SeenCurrent
<1>3. /\ q.op = w.op /\ q.rows = RowsAfter(w, p) /\ q.lost = LostAfter(w)
      /\ q.entries = w.entries \cup Entries(w, p)
  BY <1>2 DEF Writer
<1>4. DOMAIN Visible(r) = Points \cup DOMAIN w.rows
  BY <1>2, VisibleFacts DEF Shows
<1>5. p \notin DOMAIN Visible(r)
  BY <1>1, <1>2, <1>4
<1>6. req'[r] = q
  BY <1>1 DEF Step, TxInv
<1>7. w.op # "idle" /\ Busy(r)'
  BY <1>2, <1>3, <1>6, Kinds DEF Busy
<1>8. Visible(r)' = ShownBy(q)
  BY <1>1, <1>6, <1>7 DEF Visible, ShownBy, Losing
<1>9. ShownBy(q) = AfterWrite(r, w, p)
  <2>1. At(r, "flush") /\ q.rows = RowsAfter(w, p) /\ q.lost = LostAfter(w)
    BY <1>1, <1>3
  <2> QED BY <1>5, <2>1, ShownAfter
<1>10. VisibleLog(r)' = VisibleLog(r) \cup Entries(w, p)
  BY <1>1, <1>2, <1>3, <1>6, <1>7 DEF VisibleLog
<1>11. VisibleDetail(r)' = IF w.op = "override" THEN Insert(VisibleDetail(r), p, NotReviewed)
                           ELSE VisibleDetail(r)
  <2>1. CASE w.op = "override"
    <3>1. DOMAIN detail \subseteq Points
      BY DEF TxInv, TypeOK
    <3>2. DOMAIN q.rows = DOMAIN w.rows \cup {p}
      BY <1>3 DEF RowsAfter, RowsBefore, Losing, Insert
    <3>3. VisibleDetail(r)' = [x \in DOMAIN detail \cup (DOMAIN w.rows \cup {p}) |->
                                 IF x \in DOMAIN detail THEN detail[x] ELSE NotReviewed]
      BY <1>1, <1>3, <1>6, <1>7, <2>1, <3>2 DEF VisibleDetail, NotReviewed
    <3>4. VisibleDetail(r) = [x \in DOMAIN detail \cup DOMAIN w.rows |->
                                IF x \in DOMAIN detail THEN detail[x] ELSE NotReviewed]
      BY <1>2, <2>1 DEF VisibleDetail, NotReviewed
    <3> QED BY <1>1, <2>1, <3>1, <3>3, <3>4 DEF Insert
  <2>2. CASE w.op # "override"
    BY <1>1, <1>3, <1>6, <2>2 DEF VisibleDetail
  <2> QED BY <2>1, <2>2
<1> QED BY <1>1, <1>5, <1>8, <1>9, <1>10, <1>11

\* A flush is write_field or write_override, taken alone, on what the transaction sees.
LEMMA FlushIsOneWrite ==
  ASSUME TxInv, NEW r \in Requests, ~req[r].overtaken, NEW p \in PointId, Flush(r, p)
  PROVE  Seen(r)!Next
<1> PICK w : w = req[r]
  OBVIOUS
<1> PICK src : src = w.write.src
  OBVIOUS
<1> PICK value : value = w.write.value
  OBVIOUS
<1> PICK seen : seen = w.write.seen
  OBVIOUS
<1> PICK st : st = StatusOfLoser(w)
  OBVIOUS
<1>1. /\ At(r, "flush") /\ p \notin DOMAIN Visible(r)
      /\ Visible(r)' = AfterWrite(r, w, p)
      /\ VisibleLog(r)' = VisibleLog(r) \cup Entries(w, p)
      /\ VisibleDetail(r)' = IF w.op = "override"
                             THEN Insert(VisibleDetail(r), p, NotReviewed)
                             ELSE VisibleDetail(r)
  BY FlushShows
<1>2. /\ w \in Writer /\ Whole(w) /\ w.step = "flush"
      /\ seen \in DOMAIN Visible(r) \cup {NoPoint} /\ NoPoint \notin DOMAIN Visible(r)
      /\ CurrentIn(Visible(r)) = {seen} \ {NoPoint}
      /\ seen # NoPoint => w.write.loaded = Visible(r)[seen]
  BY <1>1, SeenCurrent DEF At
<1>3. src \in Sources /\ value \in Values /\ (w.op = "override" => src = Manual)
      /\ Manual \in Sources
  BY <1>2, FieldAssumption DEF Writer, WriteRecord, Whole
<1>4. Visible(r) \in [DOMAIN Visible(r) -> PointRow]
  BY <1>2, VisibleFacts DEF Shows
<1>5. Visible(r) = [x \in DOMAIN Visible(r) |-> Visible(r)[x]]
  BY <1>4
<1>6. Seen(r)!Current = seen
  BY <1>2 DEF Seen!Current, Seen!Points, CurrentIn
<1>7. seen # NoPoint =>
        \A s : Seen(r)!Retiring(s) = Retired(Visible(r), seen, s)
  BY <1>2, <1>5, <1>6, RetiredIsExcept DEF Seen!Retiring
<1>8. NewRow(w) = Seen(r)!NewPoint(src, value, IF Outcome(w) = "loses" THEN st ELSE "active")
  BY <1>2, <1>6 DEF NewRow, Seen!NewPoint
<1>9. Visible(r)' = Insert(IF Updates(w) THEN Seen(r)!Retiring(st) ELSE Visible(r), p, NewRow(w))
  <2>1. Updates(w) => seen # NoPoint
    BY DEF Updates, Outcome
  <2> QED BY <1>1, <1>7, <2>1 DEF AfterWrite
<1>10. p \notin Seen(r)!Points
  BY <1>1 DEF Seen!Points
<1>11. ASSUME seen # NoPoint
       PROVE  /\ Visible(r)[seen] = w.write.loaded
              /\ Seen(r)!Agree(value) <=> w.write.loaded.value = value
              /\ Seen(r)!LoserStatus(value) =
                   IF w.write.loaded.value = value THEN "corroborated" ELSE "conflicting"
              /\ Seen(r)!NewWins(src) <=> Rank(src) < Rank(w.write.loaded.source)
  <2>1. Visible(r)[seen] = w.write.loaded
    BY <1>2, <1>11
  <2>2. Seen(r)!Agree(value) <=> w.write.loaded.value = value
    BY <1>6, <2>1 DEF Seen!Agree
  <2>3. Seen(r)!LoserStatus(value) =
          IF w.write.loaded.value = value THEN "corroborated" ELSE "conflicting"
    BY <2>2 DEF Seen!LoserStatus
  <2>4. ASSUME NEW s
        PROVE  Seen(r)!Rank(s) = Rank(s)
    BY DEF Seen!Rank, Rank, Seen!Cardinality, Cardinality
  <2>5. Seen(r)!NewWins(src) <=> Rank(src) < Rank(w.write.loaded.source)
    BY <1>6, <2>1, <2>4 DEF Seen!NewWins
  <2> QED BY <2>1, <2>2, <2>3, <2>5
<1>12. /\ w.op = "override" => Outcome(w) \in {"first", "overridden"}
       /\ w.op # "override" => Outcome(w) \in {"first", "superseded", "wins", "loses"}
       /\ Outcome(w) = "first" <=> seen = NoPoint
       /\ Outcome(w) \in {"superseded", "wins", "loses"} =>
            (Outcome(w) = "superseded" <=> w.write.loaded.source = src)
       /\ Outcome(w) \in {"wins", "loses"} =>
            (Outcome(w) = "wins" <=> Rank(src) < Rank(w.write.loaded.source))
  BY DEF Outcome
<1>13. CASE w.op = "override"
  <2>1. Outcome(w) # "loses" /\ src = Manual /\ (Updates(w) <=> seen # NoPoint)
    BY <1>3, <1>12, <1>13 DEF Updates
  <2>2. st = "overridden" \/ seen = NoPoint
    BY <1>12, <1>13 DEF StatusOfLoser
  <2>3. Visible(r)' = Insert(IF seen = NoPoint THEN Visible(r) ELSE Seen(r)!Retiring("overridden"),
                             p, Seen(r)!NewPoint(Manual, value, "active"))
    BY <1>8, <1>9, <2>1, <2>2
  <2>4. VisibleLog(r)' = VisibleLog(r)
    BY <1>1, <1>12, <1>13 DEF Entries
  <2>5. VisibleDetail(r)' = Insert(VisibleDetail(r), p, [reviewed_by |-> Nobody, approved |-> FALSE])
    BY <1>1, <1>13 DEF NotReviewed
  <2>6. Seen(r)!SubmitOverride(p, value)
    BY <1>6, <1>10, <2>3, <2>4, <2>5 DEF Seen!SubmitOverride, Seen!Insert, Insert
  <2> QED BY <1>3, <2>6 DEF Seen!Next
<1>14. CASE w.op # "override"
  <2>1. VisibleDetail(r)' = VisibleDetail(r)
    BY <1>1, <1>14
  <2>2. ASSUME Outcome(w) = "first"
        PROVE  Seen(r)!FirstValue(p, src, value)
    <3>1. ~Updates(w) /\ VisibleLog(r)' = VisibleLog(r) /\ seen = NoPoint
      BY <1>1, <1>12, <2>2 DEF Updates, Entries
    <3>2. Visible(r)' = Insert(Visible(r), p, Seen(r)!NewPoint(src, value, "active"))
      BY <1>8, <1>9, <2>2, <3>1
    <3> QED BY <1>6, <3>1, <3>2 DEF Seen!FirstValue, Seen!Insert, Insert
  <2>3. ASSUME Outcome(w) = "superseded"
        PROVE  Seen(r)!Refresh(p, src, value)
    <3>1. Updates(w) /\ VisibleLog(r)' = VisibleLog(r) /\ st = "superseded"
      BY <1>1, <2>3 DEF Updates, Entries, StatusOfLoser
    <3>2. Visible(r)' = Insert(Seen(r)!Retiring("superseded"), p,
                               Seen(r)!NewPoint(src, value, "active"))
      BY <1>8, <1>9, <2>3, <3>1
    <3>3. seen # NoPoint /\ Visible(r)[seen].source = src
      BY <1>11, <1>12, <2>3
    <3> QED BY <1>6, <3>1, <3>2, <3>3 DEF Seen!Refresh, Seen!Insert, Insert
  <2>4. ASSUME Outcome(w) \in {"wins", "loses"}
        PROVE  /\ seen # NoPoint /\ Visible(r)[seen].source # src
               /\ Seen(r)!NewWins(src) <=> Outcome(w) = "wins"
               /\ st = Seen(r)!LoserStatus(value)
               /\ Outcome(w) = "wins" => Seen(r)!LogUnlessAgreed(p, seen, value)
               /\ Outcome(w) = "loses" => Seen(r)!LogUnlessAgreed(seen, p, value)
    <3>1. seen # NoPoint /\ Visible(r)[seen].source # src
      BY <1>11, <1>12, <2>4
    <3>2. Seen(r)!NewWins(src) <=> Outcome(w) = "wins"
      BY <1>11, <1>12, <2>4, <3>1
    <3>3. st = Seen(r)!LoserStatus(value)
      BY <1>11, <2>4, <3>1 DEF StatusOfLoser
    <3>4. Seen(r)!Agree(value) <=> w.write.loaded.value = value
      BY <1>11, <3>1
    <3>5. Outcome(w) = "wins" => Seen(r)!LogUnlessAgreed(p, seen, value)
      BY <1>1, <2>4, <3>4 DEF Entries, Seen!LogUnlessAgreed
    <3>6. Outcome(w) = "loses" => Seen(r)!LogUnlessAgreed(seen, p, value)
      BY <1>1, <2>4, <3>4 DEF Entries, Seen!LogUnlessAgreed
    <3> QED BY <3>1, <3>2, <3>3, <3>5, <3>6
  <2>5. ASSUME Outcome(w) = "wins"
        PROVE  Seen(r)!NewcomerWins(p, src, value)
    <3>1. Visible(r)' = Insert(Seen(r)!Retiring(st), p, Seen(r)!NewPoint(src, value, "active"))
      BY <1>8, <1>9, <2>5 DEF Updates
    <3> QED BY <1>6, <2>4, <2>5, <3>1 DEF Seen!NewcomerWins, Seen!Insert, Insert
  <2>6. ASSUME Outcome(w) = "loses"
        PROVE  Seen(r)!NewcomerLoses(p, src, value)
    <3>1. Visible(r)' = Insert(Visible(r), p, Seen(r)!NewPoint(src, value, st))
      BY <1>8, <1>9, <2>6 DEF Updates
    <3> QED BY <1>6, <2>4, <2>6, <3>1 DEF Seen!NewcomerLoses, Seen!Insert, Insert
  <2>7. Seen(r)!WriteField(p, src, value)
    BY <1>10, <1>12, <1>14, <2>1, <2>2, <2>3, <2>5, <2>6 DEF Seen!WriteField
  <2> QED BY <1>3, <2>7 DEF Seen!Next
<1> QED BY <1>13, <1>14

SeesTheSame(r) ==
  /\ Visible(r)' = Visible(r)
  /\ VisibleLog(r)' = VisibleLog(r)
  /\ VisibleDetail(r)' = VisibleDetail(r)

\* Rolled back, or not involved: its view stays.
LEMMA ViewStays ==
  ASSUME NEW r \in Requests, UNCHANGED fieldVars, Busy(r), Busy(r)',
         req'[r].op = req[r].op, req'[r].rows = req[r].rows, req'[r].lost = req[r].lost,
         req'[r].entries = req[r].entries
  PROVE  SeesTheSame(r)
BY DEF SeesTheSame, Visible, VisibleLog, VisibleDetail, Losing, Busy, fieldVars

\* Commit shows everyone what the transaction saw.
LEMMA CommitPublishes ==
  ASSUME TxInv, NEW r \in Requests, Commit(r)
  PROVE  SeesTheSame(r)
<1>1. point' = Visible(r) /\ log' = VisibleLog(r) /\ detail' = VisibleDetail(r) /\ Ends(r)
  BY DEF Commit
<1>2. ~Busy(r)'
  BY <1>1, Kinds DEF Ends, Busy
<1>3. Visible(r)' = point' /\ VisibleLog(r)' = log' /\ VisibleDetail(r)' = detail'
  BY <1>2 DEF Visible, VisibleLog, VisibleDetail
<1> QED BY <1>1, <1>3 DEF SeesTheSame

\* The sign-off of a transaction nobody has overtaken is given once.
LEMMA SignOffIsReview ==
  ASSUME TxInv, NEW r \in Requests, ~req[r].overtaken, CommitReview(r)
  PROVE  Seen(r)!Next
<1> PICK q : q = req[r]
  OBVIOUS
<1>1. q \in Signer /\ Signs(q) /\ Busy(r)
  BY AtFacts DEF CommitReview, At
<1>2. /\ RequiresReview /\ q.signed.reviewed_by \in Reviewers /\ q.point \in DOMAIN detail
      /\ detail[q.point].reviewed_by = Nobody
  BY <1>1 DEF Signs
<1>3. /\ q.op = "review" /\ q.rows = NoRows /\ q.lost = NoRows /\ q.entries = {}
      /\ q.signed \in DetailRow
  BY <1>1 DEF Signer
<1>4. /\ detail' = [detail EXCEPT ![q.point] = q.signed] /\ Ends(r)
      /\ UNCHANGED <<point, log>>
  BY DEF CommitReview
<1>5. ~Busy(r)'
  BY <1>4, Kinds DEF Ends, Busy
<1>6. Visible(r)' = point /\ VisibleLog(r)' = log /\ VisibleDetail(r)' = detail'
  BY <1>4, <1>5 DEF Visible, VisibleLog, VisibleDetail
<1>7. Visible(r) = point
  <2>1. point = [p \in DOMAIN point |-> point[p]]
    BY DEF TxInv, TypeOK
  <2>2. DOMAIN NoRows = {}
    BY DEF NoRows
  <2> QED BY <1>1, <1>3, <2>1, <2>2 DEF Visible, Losing
<1>8. VisibleLog(r) = log /\ VisibleDetail(r) = detail
  BY <1>1, <1>3 DEF VisibleLog, VisibleDetail
<1>9. q.signed = [reviewed_by |-> q.signed.reviewed_by, approved |-> q.signed.approved]
      /\ q.signed.approved \in BOOLEAN
  BY <1>3 DEF DetailRow
<1>10. Seen(r)!ReviewOverride(q.signed.reviewed_by, q.point, q.signed.approved)
  BY <1>2, <1>4, <1>6, <1>7, <1>8, <1>9 DEF Seen!ReviewOverride
<1> QED BY <1>2, <1>8, <1>9, <1>10 DEF Seen!Next

\* What a step of o is to a request r that nobody has overtaken by then.
LEMMA ActorStep ==
  ASSUME TxInv, NEW o \in Requests, TxStep(o), NEW r \in Requests, Busy(r), ~req[r].overtaken,
         req'[r] = Idle \/ ~req'[r].overtaken
  PROVE  \/ SeesTheSame(r)
         \/ req'[r] = Idle /\ UNCHANGED fieldVars
         \/ req'[r] = req[r] /\ ~Touched(req[r])
         \/ o = r /\ Seen(r)!Next
<1> DEFINE Serial == \/ SeesTheSame(r)
                     \/ req'[r] = Idle /\ UNCHANGED fieldVars
                     \/ req'[r] = req[r] /\ ~Touched(req[r])
                     \/ o = r /\ Seen(r)!Next
<1>1. req = [x \in Requests |-> req[x]] /\ req[r] \in Writer \cup Signer
  BY AtFacts DEF TxInv
<1>2. ASSUME req'[r] = req[r], UNCHANGED fieldVars
      PROVE  Serial
  <2>1. Busy(r)'
    BY <1>2 DEF Busy
  <2>2. SeesTheSame(r)
    BY <1>2, <2>1, ViewStays
  <2> QED BY <2>2
<1>3. ASSUME NEW q, Step(o, q), UNCHANGED fieldVars,
             o = r => \/ q = Idle
                      \/ /\ q.op = req[r].op /\ q.rows = req[r].rows
                         /\ q.lost = req[r].lost /\ q.entries = req[r].entries
      PROVE  Serial
  <2>1. CASE o # r
    BY <1>1, <1>2, <1>3, <2>1 DEF Step
  <2>2. CASE o = r
    <3>1. req'[r] = q
      BY <1>1, <1>3, <2>2 DEF Step
    <3>2. CASE q = Idle
      BY <1>3, <3>1, <3>2
    <3>3. CASE q # Idle
      BY <1>3, <2>2, <3>1, <3>3, ViewStays DEF Busy
    <3> QED BY <3>2, <3>3
  <2> QED BY <2>1, <2>2
<1>4. ASSUME Ends(o), o # r, Wrote(req[o]) \/ UNCHANGED fieldVars
      PROVE  Serial
  <2>1. req'[r] = IF Touched(req[r]) /\ Wrote(req[o])
                  THEN [req[r] EXCEPT !.overtaken = TRUE] ELSE req[r]
    BY <1>4 DEF Ends
  <2>2. CASE Touched(req[r]) /\ Wrote(req[o])
    <3>1. req'[r] = [req[r] EXCEPT !.overtaken = TRUE]
      BY <2>1, <2>2
    <3>2. req'[r].overtaken /\ req'[r].op = req[r].op
      BY <1>1, <3>1 DEF Writer, Signer
    <3>3. FALSE
      BY <3>2, Kinds DEF Busy
    <3> QED BY <3>3
  <2>3. CASE ~Touched(req[r])
    BY <2>1, <2>3
  <2>4. CASE ~Wrote(req[o])
    BY <1>2, <1>4, <2>1, <2>4
  <2> QED BY <2>2, <2>3, <2>4
<1> HIDE DEF Serial
<1>6. ASSUME \/ \E op, todo : Begin(o, op, todo)
             \/ \E u \in Reviewers, p \in DOMAIN detail, approved \in BOOLEAN :
                  BeginReview(o, u, p, approved)
      PROVE  Serial
  <2>1. o # r
    BY <1>6 DEF Begin, BeginReview, New
  <2>2. UNCHANGED fieldVars /\ \E q : Step(o, q)
    BY <1>6 DEF Begin, BeginReview
  <2> QED BY <1>3, <2>1, <2>2
<1>7. ASSUME NEW src \in Sources, NEW value \in Values,
             NEW seen \in PointId \cup {NoPoint}, ReadCurrent(o, src, value, seen)
      PROVE  Serial
  <2>1. UNCHANGED fieldVars /\ At(o, "next")
    BY <1>7 DEF ReadCurrent
  <2>3. o = r => req[r] \in Writer
    BY <2>1, AtFacts
  <2> PICK read : read = [src |-> src, value |-> value, seen |-> seen,
                          loaded |-> IF seen = NoPoint THEN NoPoint ELSE Visible(o)[seen]]
    OBVIOUS
  <2>2. Step(o, [req[o] EXCEPT !.step = "flush", !.todo = req[o].todo \ {src}, !.write = read])
    BY <1>7 DEF ReadCurrent
  <2> QED BY <1>3, <2>1, <2>2, <2>3 DEF Writer
<1>8. ASSUME NEW d \in DocId, NEW text \in BOOLEAN, SaveFile(o, d, text)
      PROVE  Serial
  <2> PICK step : step = IF text THEN "next" ELSE "failed"
    OBVIOUS
  <2>1. At(o, "save") /\ UNCHANGED fieldVars /\ Step(o, [req[o] EXCEPT !.doc = d, !.step = step])
    BY <1>8 DEF SaveFile
  <2>2. o = r => req[r] \in Writer
    BY <2>1, AtFacts
  <2> QED BY <1>3, <2>1, <2>2 DEF Writer
<1>9. ASSUME NEW p \in PointId, Flush(o, p)
      PROVE  Serial
  <2>1. CASE o = r
    BY <1>9, <2>1, FlushIsOneWrite DEF Serial
  <2>2. CASE o # r
    <3>1. UNCHANGED fieldVars /\ \E q : Step(o, q)
      BY <1>9 DEF Flush
    <3> QED BY <1>3, <2>2, <3>1
  <2> QED BY <2>1, <2>2
<1>10. ASSUME Commit(o)
       PROVE  Serial
  <2>1. CASE o = r
    BY <1>10, <2>1, CommitPublishes DEF Serial
  <2>2. CASE o # r
    BY <1>4, <1>10, <2>2, CommitOfNothing DEF Commit
  <2> QED BY <2>1, <2>2
<1>11. ASSUME CommitReview(o)
       PROVE  Serial
  <2>1. CASE o = r
    BY <1>11, <2>1, SignOffIsReview DEF Serial
  <2>2. CASE o # r
    <3>1. Ends(o) /\ Wrote(req[o])
      BY <1>11, AtFacts, Kinds DEF CommitReview, Wrote
    <3> QED BY <1>4, <2>2, <3>1
  <2> QED BY <2>1, <2>2
<1>12. ASSUME Abort(o)
       PROVE  Serial
  <2>1. UNCHANGED fieldVars /\ Step(o, Idle)
    BY <1>12 DEF Abort
  <2> QED BY <1>3, <2>1
<1> QED BY <1>6, <1>7, <1>8, <1>9, <1>10, <1>11, <1>12 DEF Serial, TxStep

LEMMA SerialStep ==
  ASSUME TxInv, [TxNext]_txVars, NEW r \in Requests, Busy(r), ~req[r].overtaken,
         req'[r] = Idle \/ ~req'[r].overtaken
  PROVE  \/ SeesTheSame(r)
         \/ req'[r] = Idle /\ UNCHANGED fieldVars
         \/ req'[r] = req[r] /\ ~Touched(req[r])
         \/ Seen(r)!Next
<1>1. ASSUME UNCHANGED txVars
      PROVE  SeesTheSame(r)
  BY <1>1, ViewStays DEF txVars, Busy
<1> QED BY <1>1, ActorStep DEF TxNext

\* A transaction nobody has overtaken is serial: write for write and sign-off for sign-off
\* it takes the steps of DataPoints on what it sees, though others read, flush and roll back
\* around it; its commit shows what it saw, and its rollback leaves nothing.
THEOREM AloneUntilOvertaken == TxSpec => SerialUntilOvertaken
<1>1. TxInv /\ [TxNext]_txVars =>
        [\A r \in Requests :
           Busy(r) /\ ~req[r].overtaken /\ (req'[r] = Idle \/ ~req'[r].overtaken) =>
             \/ UNCHANGED <<Visible(r), VisibleLog(r), VisibleDetail(r)>>
             \/ req'[r] = Idle /\ UNCHANGED fieldVars
             \/ req'[r] = req[r] /\ ~Touched(req[r])
             \/ Seen(r)!Next]_txVars
  BY SerialStep DEF SeesTheSame
<1> QED BY <1>1, TxInvAlways, PTL DEF TxSpec, SerialUntilOvertaken

(***************************************************************************)
(* What DataPoints promises, of the committed tables and of what a         *)
(* transaction sees.  turn says who moves next: any behaviour of TxSpec is *)
(* one of TurnSpec if turn moves to each request just before its step.     *)
(***************************************************************************)
VARIABLE turn

TurnNext ==
  \/ TxStep(turn) /\ turn' = turn
  \/ turn' \in Requests /\ UNCHANGED txVars

TurnSpec == TxInit /\ turn \in Requests /\ [][TurnNext]_<<txVars, turn>>

Committed == INSTANCE DataPointsProofs

Turn == INSTANCE DataPointsProofs WITH
  point <- Visible(turn), log <- VisibleLog(turn), detail <- VisibleDetail(turn)

On(pt, lg, dt) == INSTANCE DataPoints WITH point <- pt, log <- lg, detail <- dt

KeptOn(pt, lg, dt) ==
  /\ On(pt, lg, dt)!TypeOK
  /\ On(pt, lg, dt)!OneCurrent
  /\ On(pt, lg, dt)!LogMatchesPoints
  /\ On(pt, lg, dt)!VersionLine
  /\ On(pt, lg, dt)!PriorityStanding

ViewKept(r) == KeptOn(Visible(r), VisibleLog(r), VisibleDetail(r))

\* Until a transaction commits rows though it was overtaken, every table is in order: the
\* committed one, and what those see that nobody has overtaken.
KeptUntilOvertaken ==
  late = {} =>
    /\ KeptOn(point, log, detail)
    /\ \A r \in Requests : Busy(r) /\ ~req[r].overtaken => ViewKept(r)

LEMMA KeptCommitted ==
  ASSUME NEW pt, NEW lg, NEW dt
  PROVE  /\ pt = point /\ lg = log /\ dt = detail => (Committed!Kept <=> KeptOn(pt, lg, dt))
         /\ pt = point' /\ lg = log' /\ dt = detail' => (Committed!Kept' <=> KeptOn(pt, lg, dt))
<1>1. ASSUME pt = point, lg = log, dt = detail
      PROVE  Committed!Kept <=> KeptOn(pt, lg, dt)
  BY <1>1 DEF KeptOn, Committed!Kept, Committed!Basis, Committed!TypeOK, On!TypeOK,
    Committed!OneCurrent, On!OneCurrent, Committed!LogMatchesPoints, On!LogMatchesPoints,
    Committed!VersionLine, On!VersionLine, Committed!PriorityStanding, On!PriorityStanding,
    Committed!Points, On!Points, Committed!Current, On!Current, Committed!Rank, On!Rank,
    Committed!SinceOverride, On!SinceOverride, Committed!EverCurrent, On!EverCurrent,
    Committed!Cardinality, On!Cardinality, Committed!PointRow, On!PointRow, Committed!DetailRow,
    On!DetailRow
<1>2. ASSUME pt = point', lg = log', dt = detail'
      PROVE  Committed!Kept' <=> KeptOn(pt, lg, dt)
  BY <1>2 DEF KeptOn, Committed!Kept, Committed!Basis, Committed!TypeOK, On!TypeOK,
    Committed!OneCurrent, On!OneCurrent, Committed!LogMatchesPoints, On!LogMatchesPoints,
    Committed!VersionLine, On!VersionLine, Committed!PriorityStanding, On!PriorityStanding,
    Committed!Points, On!Points, Committed!Current, On!Current, Committed!Rank, On!Rank,
    Committed!SinceOverride, On!SinceOverride, Committed!EverCurrent, On!EverCurrent,
    Committed!Cardinality, On!Cardinality, Committed!PointRow, On!PointRow, Committed!DetailRow,
    On!DetailRow
<1> QED BY <1>1, <1>2

LEMMA KeptTurn ==
  ASSUME NEW pt, NEW lg, NEW dt
  PROVE  /\ pt = Visible(turn) /\ lg = VisibleLog(turn) /\ dt = VisibleDetail(turn) =>
              (Turn!Kept <=> KeptOn(pt, lg, dt))
         /\ pt = Visible(turn)' /\ lg = VisibleLog(turn)' /\ dt = VisibleDetail(turn)' =>
              (Turn!Kept' <=> KeptOn(pt, lg, dt))
<1>1. ASSUME pt = Visible(turn), lg = VisibleLog(turn), dt = VisibleDetail(turn)
      PROVE  Turn!Kept <=> KeptOn(pt, lg, dt)
  BY <1>1 DEF KeptOn, Turn!Kept, Turn!Basis, Turn!TypeOK, On!TypeOK, Turn!OneCurrent, On!OneCurrent,
    Turn!LogMatchesPoints, On!LogMatchesPoints, Turn!VersionLine, On!VersionLine,
    Turn!PriorityStanding, On!PriorityStanding, Turn!Points, On!Points, Turn!Current, On!Current,
    Turn!Rank, On!Rank, Turn!SinceOverride, On!SinceOverride, Turn!EverCurrent, On!EverCurrent,
    Turn!Cardinality, On!Cardinality, Turn!PointRow, On!PointRow, Turn!DetailRow, On!DetailRow
<1>2. ASSUME pt = Visible(turn)', lg = VisibleLog(turn)', dt = VisibleDetail(turn)'
      PROVE  Turn!Kept' <=> KeptOn(pt, lg, dt)
  BY <1>2 DEF KeptOn, Turn!Kept, Turn!Basis, Turn!TypeOK, On!TypeOK, Turn!OneCurrent, On!OneCurrent,
    Turn!LogMatchesPoints, On!LogMatchesPoints, Turn!VersionLine, On!VersionLine,
    Turn!PriorityStanding, On!PriorityStanding, Turn!Points, On!Points, Turn!Current, On!Current,
    Turn!Rank, On!Rank, Turn!SinceOverride, On!SinceOverride, Turn!EverCurrent, On!EverCurrent,
    Turn!Cardinality, On!Cardinality, Turn!PointRow, On!PointRow, Turn!DetailRow, On!DetailRow
<1> QED BY <1>1, <1>2

\* The step of a request is that of the one whose turn it is.
SameView(r) ==
  /\ Visible(r) = Visible(turn) /\ Visible(r)' = Visible(turn)'
  /\ VisibleLog(r) = VisibleLog(turn) /\ VisibleLog(r)' = VisibleLog(turn)'
  /\ VisibleDetail(r) = VisibleDetail(turn) /\ VisibleDetail(r)' = VisibleDetail(turn)'

LEMMA TurnViews ==
  ASSUME NEW r \in Requests, turn = r, turn' = r
  PROVE  SameView(r)
<1>1. Visible(r)' = Visible(turn)'
  BY DEF Visible, Busy, Losing
<1>2. VisibleLog(r)' = VisibleLog(turn)'
  BY DEF VisibleLog, Busy
<1>3. VisibleDetail(r)' = VisibleDetail(turn)'
  BY DEF VisibleDetail, Busy
<1> QED BY <1>1, <1>2, <1>3 DEF SameView

LEMMA TurnMoves ==
  ASSUME NEW r \in Requests, SameView(r), Seen(r)!Next
  PROVE  Turn!Next
<1>1. Seen(r)!Points = Turn!Points /\ Seen(r)!Current = Turn!Current
  BY DEF SameView, Seen!Points, Turn!Points, Seen!Current, Turn!Current
<1>2. ASSUME NEW s
      PROVE  /\ Seen(r)!Agree(s) <=> Turn!Agree(s)
             /\ Seen(r)!LoserStatus(s) = Turn!LoserStatus(s)
             /\ Seen(r)!Retiring(s) = Turn!Retiring(s)
  BY <1>1 DEF SameView, Seen!Agree, Turn!Agree, Seen!LoserStatus, Turn!LoserStatus,
    Seen!Retiring, Turn!Retiring
<1>3. ASSUME NEW src, NEW value, NEW status
      PROVE  Seen(r)!NewPoint(src, value, status) = Turn!NewPoint(src, value, status)
  BY <1>1 DEF SameView, Seen!NewPoint, Turn!NewPoint
<1>4. ASSUME NEW src
      PROVE  Seen(r)!NewWins(src) <=> Turn!NewWins(src)
  BY <1>1 DEF SameView, Seen!NewWins, Turn!NewWins, Seen!Rank, Turn!Rank, Seen!Cardinality,
    Turn!Cardinality
<1>5. ASSUME NEW a, NEW b, NEW value
      PROVE  Seen(r)!LogUnlessAgreed(a, b, value) <=> Turn!LogUnlessAgreed(a, b, value)
  BY <1>2 DEF SameView, Seen!LogUnlessAgreed, Turn!LogUnlessAgreed
<1>6. ASSUME NEW t, NEW k, NEW v
      PROVE  Seen(r)!Insert(t, k, v) = Turn!Insert(t, k, v)
  BY DEF Seen!Insert, Turn!Insert
<1>7. ASSUME NEW p, NEW src, NEW value
      PROVE  /\ Seen(r)!FirstValue(p, src, value) <=> Turn!FirstValue(p, src, value)
             /\ Seen(r)!Refresh(p, src, value) <=> Turn!Refresh(p, src, value)
             /\ Seen(r)!NewcomerWins(p, src, value) <=> Turn!NewcomerWins(p, src, value)
             /\ Seen(r)!NewcomerLoses(p, src, value) <=> Turn!NewcomerLoses(p, src, value)
  <2>1. Seen(r)!FirstValue(p, src, value) <=> Turn!FirstValue(p, src, value)
    BY <1>1, <1>3, <1>6 DEF SameView, Seen!FirstValue, Turn!FirstValue
  <2>2. Seen(r)!Refresh(p, src, value) <=> Turn!Refresh(p, src, value)
    BY <1>1, <1>2, <1>3, <1>6 DEF SameView, Seen!Refresh, Turn!Refresh
  <2>3. Seen(r)!NewcomerWins(p, src, value) <=> Turn!NewcomerWins(p, src, value)
    BY <1>1, <1>2, <1>3, <1>4, <1>5, <1>6 DEF SameView, Seen!NewcomerWins, Turn!NewcomerWins
  <2>4. Seen(r)!NewcomerLoses(p, src, value) <=> Turn!NewcomerLoses(p, src, value)
    BY <1>1, <1>2, <1>3, <1>4, <1>5, <1>6 DEF SameView, Seen!NewcomerLoses, Turn!NewcomerLoses
  <2> QED BY <2>1, <2>2, <2>3, <2>4
<1>8. ASSUME NEW p, NEW src, NEW value, Seen(r)!WriteField(p, src, value)
      PROVE  Turn!WriteField(p, src, value)
  BY <1>1, <1>7, <1>8 DEF SameView, Seen!WriteField, Turn!WriteField
<1>9. ASSUME NEW p, NEW value, Seen(r)!SubmitOverride(p, value)
      PROVE  Turn!SubmitOverride(p, value)
  BY <1>1, <1>2, <1>3, <1>6, <1>9 DEF SameView, Seen!SubmitOverride, Turn!SubmitOverride
<1>10. ASSUME NEW u, NEW p, NEW approved, Seen(r)!ReviewOverride(u, p, approved)
       PROVE  Turn!ReviewOverride(u, p, approved)
  BY <1>10 DEF SameView, Seen!ReviewOverride, Turn!ReviewOverride
<1>11. VisibleDetail(r) = VisibleDetail(turn)
  BY DEF SameView
<1> QED BY <1>8, <1>9, <1>10, <1>11 DEF Seen!Next, Turn!Next

LEMMA CommittedTypes ==
  /\ TypeOK' => Committed!TypeOK'
  /\ Init => Committed!Init
<1>1. TypeOK' => Committed!TypeOK'
  BY DEF TypeOK, Committed!TypeOK, Points, Committed!Points, PointRow, Committed!PointRow,
    DetailRow, Committed!DetailRow
<1>2. Init => Committed!Init
  BY DEF Init, Committed!Init
<1> QED BY <1>1, <1>2

\* Once overtaken, overtaken until it ends; and a request begins with nothing of its own.
Continues(r) ==
  /\ Busy(r) /\ req[r].overtaken => req'[r].overtaken
  /\ ~Busy(r) => DOMAIN req'[r].rows = {} /\ req'[r].step # "flush"

LEMMA RequestStep ==
  ASSUME TxInv, NEW o \in Requests, TxStep(o), NEW r \in Requests, Busy(r)'
  PROVE  Continues(r)
<1>1. req = [x \in Requests |-> req[x]] /\ (Busy(r) => req[r] \in Writer \cup Signer)
  BY AtFacts DEF TxInv
<1>2. ASSUME req'[r] = req[r]
      PROVE  Continues(r)
  BY <1>2 DEF Busy, Continues
<1>3. ASSUME NEW q, Step(o, q)
      PROVE  /\ o # r => req'[r] = req[r]
             /\ o = r => req'[r] = q
  BY <1>1, <1>3 DEF Step
<1>4. ASSUME NEW op, NEW todo, Begin(o, op, todo)
      PROVE  Continues(r)
  <2> PICK q : q = [op |-> op, step |-> IF op = "ingest" THEN "save" ELSE "next", todo |-> todo,
                    write |-> NoWrite, doc |-> NoPoint, rows |-> [p \in {} |-> NoPoint],
                    lost |-> [p \in {} |-> NoPoint], entries |-> {}, overtaken |-> FALSE]
    OBVIOUS
  <2>1. Step(o, q) /\ ~Busy(o)
    BY <1>4 DEF Begin, New
  <2>2. DOMAIN q.rows = {} /\ q.step # "flush"
    OBVIOUS
  <2> QED BY <1>2, <1>3, <2>1, <2>2 DEF Continues
<1>5. ASSUME NEW u, NEW p, NEW approved, BeginReview(o, u, p, approved)
      PROVE  Continues(r)
  <2> PICK q : q = [op |-> "review", step |-> "signed", point |-> p, overtaken |-> FALSE,
                    signed |-> [reviewed_by |-> u, approved |-> approved],
                    rows |-> [l \in {} |-> NoPoint], lost |-> [l \in {} |-> NoPoint],
                    entries |-> {}, doc |-> NoPoint]
    OBVIOUS
  <2>1. Step(o, q) /\ ~Busy(o)
    BY <1>5 DEF BeginReview, New
  <2>2. DOMAIN q.rows = {} /\ q.step # "flush"
    OBVIOUS
  <2> QED BY <1>2, <1>3, <2>1, <2>2 DEF Continues
<1>6. ASSUME NEW q, Step(o, q), Busy(o), q.overtaken = req[o].overtaken \/ q = Idle
      PROVE  Continues(r)
  BY <1>2, <1>3, <1>6, Kinds DEF Busy, Continues
<1>7. ASSUME Ends(o), Busy(o)
      PROVE  Continues(r)
  <2>1. o # r
    BY <1>7, Kinds DEF Ends, Busy
  <2>2. CASE req'[r] = req[r]
    BY <1>2, <2>2
  <2>3. CASE req'[r] # req[r]
    <3>1. Busy(r) /\ req'[r] = [req[r] EXCEPT !.overtaken = TRUE]
      BY <1>7, <2>1, <2>3 DEF Ends
    <3>2. req'[r].overtaken
      BY <1>1, <3>1 DEF Writer, Signer
    <3> QED BY <3>1, <3>2 DEF Continues
  <2> QED BY <2>2, <2>3
<1>8. ASSUME NEW src, NEW value, NEW seen, ReadCurrent(o, src, value, seen)
      PROVE  Continues(r)
  <2> PICK read : read = [src |-> src, value |-> value, seen |-> seen,
                          loaded |-> IF seen = NoPoint THEN NoPoint ELSE Visible(o)[seen]]
    OBVIOUS
  <2> PICK q : q = [req[o] EXCEPT !.step = "flush", !.todo = req[o].todo \ {src}, !.write = read]
    OBVIOUS
  <2>1. Step(o, q) /\ At(o, "next")
    BY <1>8 DEF ReadCurrent
  <2>2. req[o] \in Writer /\ Busy(o)
    BY <2>1, AtFacts DEF At
  <2> QED BY <1>6, <2>1, <2>2 DEF Writer
<1>9. ASSUME NEW p, Flush(o, p)
      PROVE  Continues(r)
  <2> PICK w : w = req[o]
    OBVIOUS
  <2> PICK q : q = [w EXCEPT !.step = "next", !.write = NoWrite, !.rows = RowsAfter(w, p),
                             !.lost = LostAfter(w), !.entries = w.entries \cup Entries(w, p)]
    OBVIOUS
  <2>1. Step(o, q) /\ At(o, "flush")
    BY <1>9 DEF Flush, RowsAfter, RowsBefore, LostAfter
  <2>2. w \in Writer /\ Busy(o)
    BY <2>1, AtFacts DEF At
  <2> QED BY <1>6, <2>1, <2>2 DEF Writer
<1>10. ASSUME NEW d, NEW text, SaveFile(o, d, text)
       PROVE  Continues(r)
  <2> PICK step : step = IF text THEN "next" ELSE "failed"
    OBVIOUS
  <2> PICK q : q = [req[o] EXCEPT !.doc = d, !.step = step]
    OBVIOUS
  <2>1. Step(o, q) /\ At(o, "save")
    BY <1>10 DEF SaveFile
  <2>2. req[o] \in Writer /\ Busy(o)
    BY <2>1, AtFacts DEF At
  <2> QED BY <1>6, <2>1, <2>2 DEF Writer
<1>11. ASSUME Commit(o) \/ CommitReview(o)
       PROVE  Continues(r)
  BY <1>7, <1>11 DEF Commit, CommitReview, At
<1>12. ASSUME Abort(o)
       PROVE  Continues(r)
  BY <1>6, <1>12 DEF Abort
<1> QED BY <1>4, <1>5, <1>8, <1>9, <1>10, <1>11, <1>12 DEF TxStep

\* A transaction without rows sees what is committed.
LEMMA SeesCommitted ==
  ASSUME TxInv', NEW r \in Requests, Busy(r)', DOMAIN req'[r].rows = {}
  PROVE  Visible(r)' = point' /\ VisibleLog(r)' = log' /\ VisibleDetail(r)' = detail'
<1> PICK q : q = req'[r]
  OBVIOUS
<1>1. Sound(q)' /\ q # Idle
  BY Kinds DEF TxInv, Busy
<1>2. DOMAIN q.lost = {} /\ q.entries = {}
  <2>1. CASE q \in Writer /\ Whole(q)'
    BY <2>1 DEF Whole, OwnCurrent
  <2>2. CASE q \in Signer
    BY <2>2, Kinds DEF Signer
  <2> QED BY <1>1, <2>1, <2>2 DEF Sound
<1>3. /\ point' = [p \in DOMAIN point' |-> point'[p]]
      /\ detail' = [p \in DOMAIN detail' |-> detail'[p]]
  BY DEF TxInv, TypeOK
<1>4. Visible(r)' = point'
  BY <1>2, <1>3 DEF Visible, Losing
<1>5. VisibleLog(r)' = log'
  BY <1>2 DEF VisibleLog
<1>6. VisibleDetail(r)' = detail'
  BY <1>3 DEF VisibleDetail
<1> QED BY <1>4, <1>5, <1>6

\* What the commits do to the tables in force.
LEMMA CommitKeeps ==
  ASSUME TxInv, TxInv', KeptUntilOvertaken, late' = {}, NEW o \in Requests,
         UNCHANGED fieldVars \/ Commit(o) \/ CommitReview(o),
         NEW pt, pt = point', NEW lg, lg = log', NEW dt, dt = detail', late = {}
  PROVE  KeptOn(pt, lg, dt)
<1>1. KeptOn(point, log, detail)
  BY DEF KeptUntilOvertaken
<1>2. CASE UNCHANGED fieldVars
  BY <1>1, <1>2 DEF fieldVars
<1>3. CASE Commit(o) /\ ~req[o].overtaken
  <2>1. /\ pt = Visible(o) /\ lg = VisibleLog(o) /\ dt = VisibleDetail(o) /\ Busy(o)
    BY <1>3 DEF Commit, At
  <2>2. ViewKept(o)
    BY <1>3, <2>1 DEF KeptUntilOvertaken
  <2> QED BY <2>1, <2>2 DEF ViewKept
<1>4. CASE Commit(o) /\ req[o].overtaken
  <2>1. DOMAIN req[o].rows = {}
    BY <1>4 DEF Commit
  <2>2. req[o].op # "review"
    BY <1>4, AtFacts, Kinds DEF Commit
  <2>3. UNCHANGED fieldVars
    BY <1>4, <2>1, <2>2, CommitOfNothing DEF Wrote
  <2> QED BY <1>2, <2>3
<1>5. CASE CommitReview(o)
  <2>1. UNCHANGED <<point, log>> /\ DOMAIN detail' = DOMAIN detail
    BY <1>5 DEF CommitReview
  <2>2. Committed!TypeOK'
    BY CommittedTypes DEF TxInv
  <2>3. Committed!Kept
    BY <1>1, KeptCommitted
  <2>4. Committed!Kept'
    BY <2>1, <2>2, <2>3, FieldAssumption, Committed!KeptReviewed
  <2> QED BY <2>4, KeptCommitted
<1> QED BY <1>2, <1>3, <1>4, <1>5

\* And the step of one request to what another, or itself, sees.
LEMMA ViewsStay ==
  ASSUME TxInv, TxInv', NEW o \in Requests, TxStep(o), turn = o, turn' = o,
         KeptOn(point, log, detail),
         NEW r \in Requests, Busy(r)', ~req'[r].overtaken,
         Busy(r) /\ ~req[r].overtaken => ViewKept(r),
         NEW pt, pt = point', NEW lg, lg = log', NEW dt, dt = detail', KeptOn(pt, lg, dt)
  PROVE  ViewKept(r)'
<1> PICK v : v = Visible(r)'
  OBVIOUS
<1> PICK l : l = VisibleLog(r)'
  OBVIOUS
<1> PICK d : d = VisibleDetail(r)'
  OBVIOUS
<1> SUFFICES KeptOn(v, l, d)
  BY DEF ViewKept
<1>1. Continues(r)
  BY RequestStep
<1>2. ASSUME DOMAIN req'[r].rows = {}
      PROVE  KeptOn(v, l, d)
  <2>1. v = pt /\ l = lg /\ d = dt
    BY <1>2, SeesCommitted
  <2> QED BY <2>1
<1>3. CASE ~Busy(r)
  BY <1>1, <1>2, <1>3 DEF Continues
<1>4. CASE Busy(r)
  <2>1. ~req[r].overtaken /\ ViewKept(r)
    BY <1>1, <1>4 DEF Continues
  <2>2. CASE SeesTheSame(r)
    <3>1. v = Visible(r) /\ l = VisibleLog(r) /\ d = VisibleDetail(r)
      BY <2>2 DEF SeesTheSame
    <3> QED BY <2>1, <3>1 DEF ViewKept
  <2>3. CASE req'[r] = req[r] /\ ~Touched(req[r])
    BY <1>2, <2>3 DEF Touched
  <2>4. CASE o = r /\ Seen(r)!Next
    <3>1. SameView(r)
      BY <2>4, TurnViews
    <3>2. Turn!Next
      BY <2>4, <3>1, TurnMoves
    <3> PICK w : w = Visible(turn)
      OBVIOUS
    <3> PICK m : m = VisibleLog(turn)
      OBVIOUS
    <3> PICK e : e = VisibleDetail(turn)
      OBVIOUS
    <3>3. KeptOn(w, m, e)
      BY <2>1, <3>1 DEF ViewKept, SameView
    <3>4. Turn!Kept
      BY <3>3, KeptTurn
    <3>5. Turn!Kept'
      BY <3>2, <3>4, FieldAssumption, Turn!KeptStep
    <3>6. v = Visible(turn)' /\ l = VisibleLog(turn)' /\ d = VisibleDetail(turn)'
      BY <3>1 DEF SameView
    <3> QED BY <3>5, <3>6, KeptTurn
  <2>5. req'[r] # Idle
    BY Kinds DEF Busy
  <2> QED BY <1>4, <2>1, <2>2, <2>3, <2>4, <2>5, ActorStep
<1> QED BY <1>3, <1>4

LEMMA KeptUntilStep ==
  ASSUME TxInv, TxInv', turn \in Requests, KeptUntilOvertaken, [TurnNext]_<<txVars, turn>>
  PROVE  KeptUntilOvertaken'
<1> SUFFICES ASSUME late' = {}
             PROVE  /\ KeptOn(point, log, detail)'
                    /\ \A r \in Requests : Busy(r)' /\ ~req'[r].overtaken => ViewKept(r)'
  BY DEF KeptUntilOvertaken
<1>1. CASE UNCHANGED txVars
  <2>1. late = {} /\ UNCHANGED <<point, log, detail>> /\ req' = req
    BY <1>1 DEF txVars, fieldVars
  <2>2. ASSUME NEW r \in Requests, Busy(r)', ~req'[r].overtaken
        PROVE  ViewKept(r)'
    <3>1. SeesTheSame(r)
      BY <2>1, <2>2, ViewStays DEF fieldVars, Busy
    <3>2. ViewKept(r)
      BY <2>1, <2>2 DEF KeptUntilOvertaken, Busy
    <3> QED BY <3>1, <3>2 DEF ViewKept, SeesTheSame
  <2> QED BY <2>1, <2>2 DEF KeptUntilOvertaken
<1>2. CASE TxStep(turn) /\ turn' = turn
  <2> PICK o \in Requests : o = turn
    OBVIOUS
  <2>1. TxStep(o)
    BY <1>2
  <2>2. \/ UNCHANGED fieldVars /\ late' = late
        \/ Commit(o) \/ CommitReview(o)
    BY <2>1 DEF TxStep, Begin, ReadCurrent, Flush, SaveFile, BeginReview, Abort
  <2>3. late = {}
    BY <2>2 DEF Commit, CommitReview
  <2> PICK pt : pt = point'
    OBVIOUS
  <2> PICK lg : lg = log'
    OBVIOUS
  <2> PICK dt : dt = detail'
    OBVIOUS
  <2>4. KeptOn(pt, lg, dt)
    BY <2>2, <2>3, CommitKeeps
  <2>5. KeptOn(point, log, detail) /\
        \A r \in Requests : Busy(r) /\ ~req[r].overtaken => ViewKept(r)
    BY <2>3 DEF KeptUntilOvertaken
  <2>6. ASSUME NEW r \in Requests, Busy(r)', ~req'[r].overtaken
        PROVE  ViewKept(r)'
    BY <1>2, <2>1, <2>4, <2>5, <2>6, ViewsStay
  <2> QED BY <2>4, <2>6
<1> QED BY <1>1, <1>2 DEF TurnNext

\* The turns are only another way of writing TxSpec.
THEOREM TurnsAreSteps == TurnSpec => TxSpec
<1>1. ASSUME turn \in Requests, [TurnNext]_<<txVars, turn>>
      PROVE  [TxNext]_txVars /\ (turn \in Requests)'
  BY <1>1 DEF TurnNext, TxNext
<1> QED BY <1>1, PTL DEF TurnSpec, TxSpec

\* While every transaction that commits rows has been overtaken by no other, the committed
\* tables, and what each of the transactions sees, are as DataPoints promises: one current
\* row, one line of versions, a log that matches the rows, and the best source in force.
THEOREM SerialTablesInOrder ==
  TurnSpec => [](late = {} => OneCurrent /\ VersionLine /\ LogMatchesPoints /\ PriorityStanding)
<1>1. TxInit => KeptUntilOvertaken
  <2> SUFFICES ASSUME TxInit
               PROVE  /\ KeptOn(point, log, detail)
                      /\ \A r \in Requests : ~Busy(r)
    BY DEF KeptUntilOvertaken
  <2>1. Committed!Kept
    BY FieldAssumption, CommittedTypes, Committed!KeptInit DEF TxInit
  <2>2. \A r \in Requests : ~Busy(r)
    BY Kinds DEF TxInit, Busy
  <2> QED BY <2>1, <2>2, KeptCommitted
<1>2. ASSUME turn \in Requests, [TurnNext]_<<txVars, turn>>
      PROVE  (turn \in Requests)'
  BY <1>2 DEF TurnNext
<1>3. KeptUntilOvertaken =>
        (late = {} => OneCurrent /\ VersionLine /\ LogMatchesPoints /\ PriorityStanding)
  <2> SUFFICES ASSUME KeptOn(point, log, detail)
               PROVE  OneCurrent /\ VersionLine /\ LogMatchesPoints /\ PriorityStanding
    BY DEF KeptUntilOvertaken
  <2> QED BY DEF KeptOn, On!OneCurrent, OneCurrent, On!VersionLine, VersionLine,
            On!LogMatchesPoints, LogMatchesPoints, On!PriorityStanding, PriorityStanding,
            On!Points, Points, On!Current, Current, On!Rank, Rank, On!SinceOverride,
            SinceOverride, On!EverCurrent, EverCurrent, On!Cardinality, Cardinality
<1>4. TxInv /\ TxInv' /\ turn \in Requests /\ KeptUntilOvertaken /\ [TurnNext]_<<txVars, turn>>
        => KeptUntilOvertaken'
  BY KeptUntilStep
<1> QED BY <1>1, <1>2, <1>3, <1>4, TurnsAreSteps, TxInvAlways, PTL DEF TurnSpec, TxSpec
=============================================================================
