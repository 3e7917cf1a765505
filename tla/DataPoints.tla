------------------------------ MODULE DataPoints ------------------------------
(***************************************************************************)
(* The versioned values of one field of one project: conflict resolution   *)
(* between sources (app/acquisition/normalization.py) and manual overrides *)
(* with their sign-off (app/acquisition/override_service.py).  One step is *)
(* one call that writes the field, taken alone; a source that fails, is    *)
(* skipped or does not know the field writes nothing and takes no step.    *)
(***************************************************************************)
EXTENDS Integers, Sequences, FiniteSets, Tables

CONSTANTS
  PointId,         \* primary keys data_points rows may get; bounds the number of writes
  Sources,         \* data_sources, each with a source_type of its own
  Manual,          \* the reserved manual_override source
  Values,          \* values the field may have, after conversion to its value_type
  Priority,        \* field_catalog.source_priority, best source first
  RequiresReview,  \* field_catalog.requires_override_review
  Reviewers,       \* users with datapoint.review_override
  NoPoint,         \* no current row; a NULL previous_data_point_id
  Nobody           \* a NULL reviewed_by

ASSUME FieldAssumption ==
  /\ NoPoint \notin PointId
  /\ Manual \in Sources
  /\ Priority \in Seq(Sources)
  /\ RequiresReview \in BOOLEAN
  /\ Nobody \notin Reviewers

VARIABLES
  point,   \* data_points rows of the field
  log,     \* conflict_resolution_logs: <<winning, losing>> data point
  detail   \* manual_override_details, by data_point_id

vars == <<point, log, detail>>

Points == DOMAIN point

PointRow ==
  [source     : Sources,
   value      : Values,
   version    : Nat \ {0},
   previous   : PointId \cup {NoPoint},
   status     : {"active", "superseded", "corroborated", "conflicting", "overridden"},
   is_current : BOOLEAN]

DetailRow == [reviewed_by : Reviewers \cup {Nobody}, approved : BOOLEAN]

\* get_current_data_point.
Current ==
  IF \E p \in Points : point[p].is_current
  THEN CHOOSE p \in Points : point[p].is_current
  ELSE NoPoint

\* _priority_rank: how many places lead the list without being src's, which is its index,
\* or the length of a list it is not in.
Rank(src) ==
  Cardinality({i \in DOMAIN Priority : \A j \in 1 .. i : Priority[j] # src})

\* Fault: the latest delivery wins, whatever the field's priorities.
NewWinsAlways(src) == TRUE

\* A tie between two sources the list does not rank leaves the existing value.
NewWins(src) == Rank(src) < Rank(point[Current].source)

Agree(value) == point[Current].value = value

\* Fault: versions count from zero.
NewPointFromZero(src, value, status) ==
  [source     |-> src,
   value      |-> value,
   version    |-> IF Current = NoPoint THEN 0 ELSE point[Current].version + 1,
   previous   |-> Current,
   status     |-> status,
   is_current |-> status = "active"]

NewPoint(src, value, status) ==
  [source     |-> src,
   value      |-> value,
   version    |-> IF Current = NoPoint THEN 1 ELSE point[Current].version + 1,
   previous   |-> Current,
   status     |-> status,
   is_current |-> status = "active"]

\* The table once the current row has lost its place.
Retiring(status) ==
  [point EXCEPT ![Current].is_current = FALSE, ![Current].status = status]

LoserStatus(value) == IF Agree(value) THEN "corroborated" ELSE "conflicting"

LogUnlessAgreed(winner, loser, value) ==
  log' = IF Agree(value) THEN log ELSE log \cup {<<winner, loser>>}

(***************************************************************************)
(* write_field: a source delivers the field, in a structured fetch or in a *)
(* document.                                                               *)
(***************************************************************************)
FirstValue(p, src, value) ==
  /\ Current = NoPoint
  /\ point' = Insert(point, p, NewPoint(src, value, "active"))
  /\ UNCHANGED log

\* Fault: the row a refresh supersedes keeps its is_current flag.
RefreshKeepsFlag(p, src, value) ==
  /\ Current # NoPoint
  /\ point[Current].source = src
  /\ point' = Insert([point EXCEPT ![Current].status = "superseded"], p,
                     NewPoint(src, value, "active"))
  /\ UNCHANGED log

Refresh(p, src, value) ==
  /\ Current # NoPoint
  /\ point[Current].source = src
  /\ point' = Insert(Retiring("superseded"), p, NewPoint(src, value, "active"))
  /\ UNCHANGED log

\* Fault: an agreeing delivery updates the row it displaces instead of keeping it.
NewcomerRewritesLoser(p, src, value) ==
  /\ Current # NoPoint
  /\ point[Current].source # src
  /\ NewWins(src)
  /\ point' = Insert([Retiring(LoserStatus(value)) EXCEPT ![Current].value = value], p,
                     NewPoint(src, value, "active"))
  /\ LogUnlessAgreed(p, Current, value)

NewcomerWins(p, src, value) ==
  /\ Current # NoPoint
  /\ point[Current].source # src
  /\ NewWins(src)
  /\ point' = Insert(Retiring(LoserStatus(value)), p, NewPoint(src, value, "active"))
  /\ LogUnlessAgreed(p, Current, value)

\* Fault: the log names the delivery that lost as the winner.
NewcomerLosesMislogged(p, src, value) ==
  /\ Current # NoPoint
  /\ point[Current].source # src
  /\ ~NewWins(src)
  /\ point' = Insert(point, p, NewPoint(src, value, LoserStatus(value)))
  /\ LogUnlessAgreed(p, Current, value)

NewcomerLoses(p, src, value) ==
  /\ Current # NoPoint
  /\ point[Current].source # src
  /\ ~NewWins(src)
  /\ point' = Insert(point, p, NewPoint(src, value, LoserStatus(value)))
  /\ LogUnlessAgreed(Current, p, value)

\* A document may name any data source as its own, the manual one included.
WriteField(p, src, value) ==
  /\ p \notin Points
  /\ \/ FirstValue(p, src, value)
     \/ Refresh(p, src, value)
     \/ NewcomerWins(p, src, value)
     \/ NewcomerLoses(p, src, value)
  /\ UNCHANGED detail

(***************************************************************************)
(* submit_override with write_override, and review_override.               *)
(***************************************************************************)
\* Fault: an override starts a history of its own.
OverrideUnlinked(p, value) ==
  /\ p \notin Points
  /\ point' = Insert(IF Current = NoPoint THEN point ELSE Retiring("overridden"), p,
                     [NewPoint(Manual, value, "active") EXCEPT !.previous = NoPoint])
  /\ detail' = Insert(detail, p, [reviewed_by |-> Nobody, approved |-> FALSE])
  /\ UNCHANGED log

SubmitOverride(p, value) ==
  /\ p \notin Points
  /\ point' = Insert(IF Current = NoPoint THEN point ELSE Retiring("overridden"), p,
                     NewPoint(Manual, value, "active"))
  /\ detail' = Insert(detail, p, [reviewed_by |-> Nobody, approved |-> FALSE])
  /\ UNCHANGED log

\* A rejection is recorded and leaves the value in force.
ReviewOverride(u, p, approved) ==
  /\ RequiresReview
  /\ detail[p].reviewed_by = Nobody
  /\ detail' = [detail EXCEPT ![p] = [reviewed_by |-> u, approved |-> approved]]
  /\ UNCHANGED <<point, log>>

Init ==
  /\ point = [p \in {} |-> NoPoint]
  /\ log = {}
  /\ detail = [p \in {} |-> NoPoint]

Next ==
  \/ \E p \in PointId, src \in Sources, value \in Values : WriteField(p, src, value)
  \/ \E p \in PointId, value \in Values : SubmitOverride(p, value)
  \/ \E u \in Reviewers, p \in DOMAIN detail, approved \in BOOLEAN :
       ReviewOverride(u, p, approved)

Spec == Init /\ [][Next]_vars

(***************************************************************************)
(* Properties.                                                             *)
(***************************************************************************)

\* Every row of the three tables has its type, and links lead to rows that exist.
TypeOK ==
  /\ Points \subseteq PointId
  /\ point \in [Points -> PointRow]
  /\ \A p \in Points : point[p].previous \in Points \cup {NoPoint}
  /\ log \subseteq Points \X Points
  /\ DOMAIN detail \subseteq {p \in Points : point[p].source = Manual}
  /\ detail \in [DOMAIN detail -> DetailRow]

\* A field that was ever written has exactly one current row, the only one marked
\* active, whatever mix of sources and overrides wrote it: get_current_data_point
\* finds one row and never raises.
OneCurrent ==
  /\ \A p, q \in Points : point[p].is_current /\ point[q].is_current => p = q
  /\ \A p \in Points : point[p].is_current <=> point[p].status = "active"
  /\ Points # {} => Current # NoPoint

\* The rows that have been current: the one that is, and every one a write followed.
EverCurrent == {p \in Points : point[p].is_current \/ \E q \in Points : point[q].previous = p}

\* The values that were ever in force form one line, overrides included: linked from
\* one first value, under version numbers that never repeat, the current one last.
\* Losing deliveries hang off the line and share numbers with it.
VersionLine ==
  /\ \A p \in Points :
       IF point[p].previous = NoPoint THEN point[p].version = 1
       ELSE point[p].version = point[point[p].previous].version + 1
  /\ \A p, q \in EverCurrent : point[p].version = point[q].version => p = q
  /\ \A p \in EverCurrent : point[p].version <= point[Current].version

\* The conflict log and the rows tell the same story: a row is marked conflicting just
\* when the log names it the loser, against a row of another source, ranked no worse,
\* that held another value.
LogMatchesPoints ==
  /\ {p \in Points : point[p].status = "conflicting"} = {entry[2] : entry \in log}
  /\ \A entry \in log :
       LET winner == point[entry[1]]
           loser  == point[entry[2]]
       IN  /\ winner.source # loser.source
           /\ winner.value # loser.value
           /\ Rank(winner.source) <= Rank(loser.source)

\* Rows written after the last override: their version is above every override's.
SinceOverride == {p \in Points : \A o \in DOMAIN detail : point[p].version > point[o].version}

\* Between overrides the value in force is the newest one delivered by the best-ranked
\* source that delivered any, in whatever order and however often the sources report.
PriorityStanding ==
  \A p \in SinceOverride :
    /\ Rank(point[Current].source) <= Rank(point[p].source)
    /\ p # Current /\ point[p].source = point[Current].source =>
         point[p].version < point[Current].version

\* History is append-only: a row only ever loses its place, once, and keeps all it says
\* of the value; a log entry stays; a sign-off is given once.
HistoryFrozen ==
  [][/\ \A p \in Points :
          /\ point'[p] # point[p] => point[p].is_current
          /\ point'[p] = [point[p] EXCEPT !.is_current = point'[p].is_current,
                                          !.status = point'[p].status]
     /\ log \subseteq log'
     /\ \A p \in DOMAIN detail : detail[p].reviewed_by # Nobody => detail'[p] = detail[p]]_vars

\* README "always wins over automated conflict resolution": once an override is in
\* force, no other source puts another value in its place.
OverrideWins ==
  [][\A p \in DOMAIN detail : point[p].is_current =>
       \A q \in DOMAIN point' : point'[q].is_current =>
         point'[q].source = Manual \/ point'[q].value = point[p].value]_vars

\* The last word of the source of p: it wrote nothing after p.
LastWord(p) ==
  \A q \in Points : q # p /\ point[q].source = point[p].source =>
    point[q].version < point[p].version

\* assembly._data_point_json puts a discrepancy block beside the current value when the
\* log has an entry it won.
Discloses == \E entry \in log : entry[1] = Current

\* PRD S11.2: a source that last said something else, and was overruled, is disclosed.
DiscrepancyDisclosed ==
  \A p \in Points :
    point[p].status = "conflicting" /\ LastWord(p) /\ ~Agree(point[p].value) => Discloses
=============================================================================
