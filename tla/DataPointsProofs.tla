--------------------------- MODULE DataPointsProofs ---------------------------
(***************************************************************************)
(* Theorems about DataPoints, for any number of sources, values, priorities *)
(* and writes.                                                             *)
(***************************************************************************)
EXTENDS DataPoints, FiniteSetTheorems, WellFoundedInduction, TLAPS

\* A table of rows of type T is still one after a row of type T is added.
LEMMA InsertType ==
  ASSUME NEW T, NEW table, NEW key, NEW value \in T, table \in [DOMAIN table -> T]
  PROVE  Insert(table, key, value) \in [DOMAIN Insert(table, key, value) -> T]
BY DEF Insert

\* A rank is a natural number: the list of priorities is finite.
LEMMA RankType ==
  ASSUME NEW src
  PROVE  Rank(src) \in Nat
<1> DEFINE lead == {i \in DOMAIN Priority : \A j \in 1 .. i : Priority[j] # src}
<1>1. Len(Priority) \in Nat /\ DOMAIN Priority = 1 .. Len(Priority)
  BY FieldAssumption
<1>2. IsFiniteSet(1 .. Len(Priority))
  BY <1>1, FS_Interval
<1>3. IsFiniteSet(lead)
  BY <1>1, <1>2, FS_Subset
<1> QED BY <1>3, FS_CardinalityType DEF Rank

(***************************************************************************)
(* Current names the one row marked current, if there is one.              *)
(***************************************************************************)
LEMMA CurrentFacts ==
  ASSUME TypeOK, OneCurrent
  PROVE  /\ Current = NoPoint <=> Points = {}
         /\ Current # NoPoint => /\ Current \in Points
                                 /\ point[Current] \in PointRow
                                 /\ point[Current].status = "active"
         /\ \A q \in Points : point[q].is_current <=> q = Current
<1>1. NoPoint \notin Points
  BY FieldAssumption DEF TypeOK
<1>2. Current # NoPoint => Current \in Points /\ point[Current].is_current
  BY DEF Current
<1>3. Points = {} => Current = NoPoint
  BY DEF Current
<1>4. ASSUME NEW q \in Points, point[q].is_current
      PROVE  q = Current
  <2>1. Current # NoPoint
    BY DEF OneCurrent
  <2> QED BY <1>2, <1>4, <2>1 DEF OneCurrent
<1>5. ASSUME NEW q \in Points, q = Current
      PROVE  point[q].is_current
  BY <1>1, <1>2, <1>5
<1> QED BY <1>2, <1>3, <1>4, <1>5 DEF OneCurrent, TypeOK

(***************************************************************************)
(* Every write either puts a new row in the current one's place, with the  *)
(* old one (if any) left in status st, or adds a row that never was current.*)
(***************************************************************************)
Writes(p, src, value) == p \in PointId \ Points /\ src \in Sources /\ value \in Values

TakesOver(p, src, value, st) ==
  /\ Writes(p, src, value)
  /\ st \in {"superseded", "corroborated", "conflicting", "overridden"}
  /\ point' = Insert(IF Current = NoPoint THEN point ELSE Retiring(st), p,
                     NewPoint(src, value, "active"))

StaysOut(p, src, value) ==
  /\ Writes(p, src, value)
  /\ Current # NoPoint
  /\ point' = Insert(point, p, NewPoint(src, value, LoserStatus(value)))

\* The new row's columns.
LEMMA NewPointFacts ==
  ASSUME TypeOK, OneCurrent, NEW src \in Sources, NEW value \in Values,
         NEW status \in {"active", "corroborated", "conflicting"}
  PROVE  LET new == NewPoint(src, value, status)
         IN  /\ new \in PointRow
             /\ new.source = src /\ new.value = value /\ new.status = status
             /\ new.previous = Current
             /\ new.is_current <=> status = "active"
             /\ new.version = IF Current = NoPoint THEN 1 ELSE point[Current].version + 1
<1>1. Current \in PointId \cup {NoPoint}
  BY CurrentFacts DEF TypeOK
<1>2. Current # NoPoint => point[Current].version \in Nat \ {0}
  BY CurrentFacts DEF PointRow
<1> DEFINE new == NewPoint(src, value, status)
<1>3. /\ new.source = src /\ new.value = value /\ new.status = status
      /\ new.previous = Current
      /\ new.version = IF Current = NoPoint THEN 1 ELSE point[Current].version + 1
  BY DEF NewPoint
<1>4. new.is_current <=> status = "active"
  BY DEF NewPoint
<1>5. (IF Current = NoPoint THEN 1 ELSE point[Current].version + 1) \in Nat \ {0}
  BY <1>2
<1>6. new \in PointRow
  BY <1>1, <1>5 DEF NewPoint, PointRow
<1> QED BY <1>3, <1>4, <1>6

\* What Retiring does to the table.
LEMMA RetiringFacts ==
  ASSUME TypeOK, OneCurrent, Current # NoPoint,
         NEW st \in {"superseded", "corroborated", "conflicting", "overridden"}
  PROVE  /\ DOMAIN Retiring(st) = Points
         /\ Retiring(st) \in [Points -> PointRow]
         /\ Retiring(st)[Current] =
              [point[Current] EXCEPT !.is_current = FALSE, !.status = st]
         /\ \A q \in Points : q # Current => Retiring(st)[q] = point[q]
<1>1. Current \in Points /\ point[Current] \in PointRow
  BY CurrentFacts
<1> DEFINE old == [point[Current] EXCEPT !.is_current = FALSE, !.status = st]
<1>2. old \in PointRow
  BY <1>1 DEF PointRow
<1>3. Retiring(st) = [point EXCEPT ![Current] = old]
  BY <1>1 DEF Retiring, TypeOK, PointRow
<1> QED BY <1>1, <1>2, <1>3 DEF TypeOK

\* A row takes over: it is the only current row afterwards, and the others stand as they
\* were but for the place the old current row lost.
LEMMA TakesOverFacts ==
  ASSUME TypeOK, OneCurrent, NEW p, NEW src, NEW value, NEW st, TakesOver(p, src, value, st)
  PROVE  /\ p \notin Points /\ Points' = Points \cup {p}
         /\ point' \in [Points' -> PointRow]
         /\ point'[p] = NewPoint(src, value, "active")
         /\ \A q \in Points : q # Current => point'[q] = point[q]
         /\ \A q \in Points : q = Current =>
              point'[q] = [point[q] EXCEPT !.is_current = FALSE, !.status = st]
         /\ OneCurrent'
         /\ Current' = p
<1> DEFINE new == NewPoint(src, value, "active")
           base == IF Current = NoPoint THEN point ELSE Retiring(st)
<1>1. /\ p \in PointId /\ p \notin Points /\ src \in Sources /\ value \in Values
      /\ st \in {"superseded", "corroborated", "conflicting", "overridden"}
      /\ point' = Insert(base, p, new)
  BY DEF TakesOver, Writes
<1>2. /\ new \in PointRow /\ new.is_current /\ new.status = "active"
  BY <1>1, NewPointFacts
<1>3. /\ DOMAIN base = Points
      /\ base \in [Points -> PointRow]
      /\ \A q \in Points : q # Current => base[q] = point[q]
      /\ \A q \in Points : q = Current =>
           base[q] = [point[q] EXCEPT !.is_current = FALSE, !.status = st]
  <2>1. CASE Current = NoPoint
    BY <2>1, CurrentFacts DEF TypeOK, Points
  <2>2. CASE Current # NoPoint
    BY <1>1, <2>2, RetiringFacts
  <2> QED BY <2>1, <2>2
<1> HIDE DEF new, base
<1>4. /\ Points' = Points \cup {p}
      /\ point'[p] = new
      /\ \A q \in Points : point'[q] = base[q]
  BY <1>1, <1>3 DEF Insert, Points
<1>5. point' \in [Points' -> PointRow]
  <2>1. base \in [DOMAIN base -> PointRow]
    BY <1>3
  <2>2. Insert(base, p, new) \in [DOMAIN Insert(base, p, new) -> PointRow]
    BY <1>2, <2>1, InsertType
  <2> QED BY <1>1, <2>2 DEF Points
<1>6. \A q \in Points : ~point'[q].is_current /\ point'[q].status # "active"
  <2> SUFFICES ASSUME NEW q \in Points
               PROVE  ~point'[q].is_current /\ point'[q].status # "active"
    OBVIOUS
  <2>1. point[q] \in PointRow
    BY DEF TypeOK
  <2>2. CASE q = Current
    <3>1. point'[q] = [point[q] EXCEPT !.is_current = FALSE, !.status = st]
      BY <1>3, <1>4, <2>2
    <3>2. point'[q].is_current = FALSE /\ point'[q].status = st
      BY <2>1, <3>1 DEF PointRow
    <3> QED BY <1>1, <3>2
  <2>3. CASE q # Current
    <3>1. point'[q] = point[q] /\ ~point[q].is_current
      BY <1>3, <1>4, <2>3, CurrentFacts
    <3> QED BY <3>1 DEF OneCurrent
  <2> QED BY <2>2, <2>3
<1>7. p # NoPoint
  BY <1>1, FieldAssumption
<1>8. Current' = p
  BY <1>2, <1>4, <1>6 DEF Current
<1>9. OneCurrent'
  BY <1>2, <1>4, <1>6, <1>7, <1>8 DEF OneCurrent
<1> QED BY <1>1, <1>3, <1>4, <1>5, <1>8, <1>9 DEF new

\* A row stays out: nothing else changes.
LEMMA StaysOutFacts ==
  ASSUME TypeOK, OneCurrent, NEW p, NEW src, NEW value, StaysOut(p, src, value)
  PROVE  /\ p \notin Points /\ Points' = Points \cup {p}
         /\ point' \in [Points' -> PointRow]
         /\ point'[p] = NewPoint(src, value, LoserStatus(value))
         /\ \A q \in Points : point'[q] = point[q]
         /\ OneCurrent'
         /\ Current' = Current
<1> DEFINE new == NewPoint(src, value, LoserStatus(value))
<1>1. /\ p \in PointId /\ p \notin Points /\ src \in Sources /\ value \in Values
      /\ point' = Insert(point, p, new)
  BY DEF StaysOut, Writes
<1>2. LoserStatus(value) \in {"corroborated", "conflicting"}
  BY DEF LoserStatus
<1>3. new \in PointRow /\ ~new.is_current /\ new.status # "active"
  BY <1>1, <1>2, NewPointFacts
<1>4. point \in [DOMAIN point -> PointRow]
  BY DEF TypeOK, Points
<1> HIDE DEF new
<1>5. /\ Points' = Points \cup {p}
      /\ point'[p] = new
      /\ \A q \in Points : point'[q] = point[q]
  BY <1>1 DEF Insert, Points
<1>6. point' \in [Points' -> PointRow]
  BY <1>1, <1>3, <1>4, InsertType DEF Points
<1>7. Current # NoPoint /\ Current \in Points
  BY CurrentFacts DEF StaysOut
<1>8. \A q \in Points' : point'[q].is_current <=> q = Current
  BY <1>1, <1>3, <1>5, <1>7, CurrentFacts
<1>9. Current' = Current
  BY <1>5, <1>7, <1>8 DEF Current
<1>10. OneCurrent'
  BY <1>3, <1>5, <1>7, <1>8, <1>9 DEF OneCurrent
<1> QED BY <1>1, <1>5, <1>6, <1>9, <1>10 DEF new

\* What both kinds of write have in common: one more row, linked to the current one, and
\* no row loses what it says of the value.
Adds(p, src, value) ==
  /\ p \in PointId /\ p \notin Points /\ Points' = Points \cup {p}
  /\ point' \in [Points' -> PointRow]
  /\ point'[p].source = src /\ point'[p].value = value /\ point'[p].previous = Current
  /\ point'[p].version = IF Current = NoPoint THEN 1 ELSE point[Current].version + 1
  /\ \A q \in Points : /\ point'[q].source = point[q].source
                       /\ point'[q].value = point[q].value
                       /\ point'[q].version = point[q].version
                       /\ point'[q].previous = point[q].previous

LEMMA TakesOverAdds ==
  ASSUME TypeOK, OneCurrent, NEW p, NEW src, NEW value, NEW st, TakesOver(p, src, value, st)
  PROVE  Adds(p, src, value)
<1>1. p \in PointId /\ src \in Sources /\ value \in Values
  BY DEF TakesOver, Writes
<1>2. \A q \in Points : /\ point'[q].source = point[q].source
                        /\ point'[q].value = point[q].value
                        /\ point'[q].version = point[q].version
                        /\ point'[q].previous = point[q].previous
  <2> SUFFICES ASSUME NEW q \in Points
               PROVE  /\ point'[q].source = point[q].source
                      /\ point'[q].value = point[q].value
                      /\ point'[q].version = point[q].version
                      /\ point'[q].previous = point[q].previous
    OBVIOUS
  <2>1. point[q] \in PointRow
    BY DEF TypeOK
  <2>2. \/ point'[q] = point[q]
        \/ point'[q] = [point[q] EXCEPT !.is_current = FALSE, !.status = st]
    BY TakesOverFacts
  <2> QED BY <2>1, <2>2 DEF PointRow
<1>3. /\ p \notin Points /\ Points' = Points \cup {p}
      /\ point' \in [Points' -> PointRow]
      /\ point'[p] = NewPoint(src, value, "active")
  BY TakesOverFacts
<1>4. /\ point'[p].source = src /\ point'[p].value = value /\ point'[p].previous = Current
      /\ point'[p].version = IF Current = NoPoint THEN 1 ELSE point[Current].version + 1
  BY <1>1, <1>3, NewPointFacts
<1> QED BY <1>1, <1>2, <1>3, <1>4 DEF Adds

LEMMA StaysOutAdds ==
  ASSUME TypeOK, OneCurrent, NEW p, NEW src, NEW value, StaysOut(p, src, value)
  PROVE  Adds(p, src, value)
<1>1. p \in PointId /\ src \in Sources /\ value \in Values
  BY DEF StaysOut, Writes
<1>2. LoserStatus(value) \in {"active", "corroborated", "conflicting"}
  BY DEF LoserStatus
<1>3. point'[p] = NewPoint(src, value, LoserStatus(value))
  BY StaysOutFacts
<1>4. /\ point'[p].source = src /\ point'[p].value = value /\ point'[p].previous = Current
      /\ point'[p].version = IF Current = NoPoint THEN 1 ELSE point[Current].version + 1
  BY <1>1, <1>2, <1>3, NewPointFacts
<1>5. /\ p \notin Points /\ Points' = Points \cup {p}
      /\ point' \in [Points' -> PointRow]
      /\ \A q \in Points : point'[q] = point[q]
  BY StaysOutFacts
<1> QED BY <1>1, <1>4, <1>5 DEF Adds

\* The four paths of write_field, and an override, as one of the two kinds.
LEMMA WriteFieldKinds ==
  ASSUME NEW p \in PointId, NEW src \in Sources, NEW value \in Values,
         WriteField(p, src, value)
  PROVE  (\E st : TakesOver(p, src, value, st)) \/ StaysOut(p, src, value)
<1>1. Writes(p, src, value)
  BY DEF WriteField, Writes
<1>2. CASE FirstValue(p, src, value)
  <2>1. TakesOver(p, src, value, "superseded")
    BY <1>1, <1>2 DEF FirstValue, TakesOver
  <2> QED BY <2>1
<1>3. CASE Refresh(p, src, value)
  <2>1. TakesOver(p, src, value, "superseded")
    BY <1>1, <1>3 DEF Refresh, TakesOver
  <2> QED BY <2>1
<1>4. CASE NewcomerWins(p, src, value)
  <2>1. TakesOver(p, src, value, LoserStatus(value))
    BY <1>1, <1>4 DEF NewcomerWins, TakesOver, LoserStatus
  <2> QED BY <2>1
<1>5. CASE NewcomerLoses(p, src, value)
  BY <1>1, <1>5 DEF NewcomerLoses, StaysOut
<1> QED BY <1>2, <1>3, <1>4, <1>5 DEF WriteField

LEMMA OverrideKind ==
  ASSUME NEW p \in PointId, NEW value \in Values, SubmitOverride(p, value)
  PROVE  TakesOver(p, Manual, value, "overridden")
BY FieldAssumption DEF SubmitOverride, TakesOver, Writes

(***************************************************************************)
(* Types and the one current row.                                          *)
(***************************************************************************)
\* What a write leaves in the log and the override details stays typed.
LEMMA WriteKeepsTypes ==
  ASSUME TypeOK, OneCurrent, NEW p, NEW src, NEW value, Adds(p, src, value),
         log' \subseteq log \cup {<<p, Current>>, <<Current, p>>},
         log' # log => Current # NoPoint,
         \/ detail' = detail
         \/ src = Manual /\ detail' = Insert(detail, p, [reviewed_by |-> Nobody, approved |-> FALSE])
  PROVE  TypeOK'
<1>1. Points' \subseteq PointId /\ point' \in [Points' -> PointRow]
  BY DEF Adds, TypeOK
<1>2. Current \in Points \cup {NoPoint}
  BY CurrentFacts
<1>3. \A q \in Points' : point'[q].previous \in Points' \cup {NoPoint}
  BY <1>2 DEF Adds, TypeOK
<1>4. log' \subseteq Points' \X Points'
  BY <1>2 DEF Adds, TypeOK
<1>5. DOMAIN detail' \subseteq {q \in Points' : point'[q].source = Manual}
  BY DEF Adds, TypeOK, Insert
<1>6. detail' \in [DOMAIN detail' -> DetailRow]
  <2>1. [reviewed_by |-> Nobody, approved |-> FALSE] \in DetailRow
    BY DEF DetailRow
  <2>2. detail \in [DOMAIN detail -> DetailRow]
    BY DEF TypeOK
  <2> QED BY <2>1, <2>2, InsertType
<1> QED BY <1>1, <1>3, <1>4, <1>5, <1>6 DEF TypeOK

Basis == TypeOK /\ OneCurrent

\* What each step does, in the terms above.
LEMMA Steps ==
  ASSUME Basis, Next
  PROVE  \/ \E p \in PointId, src \in Sources, value \in Values :
              WriteField(p, src, value) /\ Adds(p, src, value) /\ Basis'
         \/ \E p \in PointId, value \in Values :
              SubmitOverride(p, value) /\ Adds(p, Manual, value) /\ Basis'
         \/ /\ \E u \in Reviewers, p \in DOMAIN detail, approved \in BOOLEAN :
                  ReviewOverride(u, p, approved)
            /\ UNCHANGED <<point, log>> /\ Basis'
<1>1. ASSUME NEW p \in PointId, NEW src \in Sources, NEW value \in Values,
             WriteField(p, src, value)
      PROVE  Adds(p, src, value) /\ Basis'
  <2>1. Adds(p, src, value) /\ OneCurrent'
    <3>1. CASE StaysOut(p, src, value)
      BY <3>1, StaysOutAdds, StaysOutFacts DEF Basis
    <3>2. ASSUME NEW st, TakesOver(p, src, value, st)
          PROVE  Adds(p, src, value) /\ OneCurrent'
      BY <3>2, TakesOverAdds, TakesOverFacts DEF Basis
    <3> QED BY <1>1, <3>1, <3>2, WriteFieldKinds
  <2>2. /\ log' \subseteq log \cup {<<p, Current>>, <<Current, p>>}
        /\ log' # log => Current # NoPoint
        /\ detail' = detail
    BY <1>1 DEF WriteField, FirstValue, Refresh, NewcomerWins, NewcomerLoses, LogUnlessAgreed
  <2>3. TypeOK'
    BY <2>1, <2>2, WriteKeepsTypes DEF Basis
  <2> QED BY <2>1, <2>3 DEF Basis
<1>2. ASSUME NEW p \in PointId, NEW value \in Values, SubmitOverride(p, value)
      PROVE  Adds(p, Manual, value) /\ Basis'
  <2>1. Adds(p, Manual, value) /\ OneCurrent'
    BY <1>2, OverrideKind, TakesOverAdds, TakesOverFacts DEF Basis
  <2>2. TypeOK'
    BY <1>2, <2>1, WriteKeepsTypes DEF Basis, SubmitOverride
  <2> QED BY <2>1, <2>2 DEF Basis
<1>3. ASSUME NEW u \in Reviewers, NEW p \in DOMAIN detail, NEW approved \in BOOLEAN,
             ReviewOverride(u, p, approved)
      PROVE  UNCHANGED <<point, log>> /\ Basis'
  <2>1. UNCHANGED <<point, log>> /\ detail' = [detail EXCEPT ![p] =
                                               [reviewed_by |-> u, approved |-> approved]]
    BY <1>3 DEF ReviewOverride
  <2>2. DOMAIN detail' = DOMAIN detail /\ detail' \in [DOMAIN detail -> DetailRow]
    BY <2>1 DEF Basis, TypeOK, DetailRow
  <2> QED BY <2>1, <2>2 DEF Basis, TypeOK, OneCurrent, Current, Points
<1> QED BY <1>1, <1>2, <1>3 DEF Next

LEMMA BasisStable ==
  ASSUME Basis, [Next]_vars
  PROVE  Basis'
<1>1. CASE Next
  BY <1>1, Steps
<1>2. CASE UNCHANGED vars
  BY <1>2 DEF vars, Basis, TypeOK, OneCurrent, Current, Points
<1> QED BY <1>1, <1>2

LEMMA BasisHolds == Spec => []Basis
<1>1. Init => Basis
  BY DEF Init, Basis, TypeOK, OneCurrent, Current, Points
<1> QED BY <1>1, BasisStable, PTL DEF Spec

\* Rows, log and override details keep their types whatever sources, documents and
\* analysts write.
THEOREM TypeCorrect == Spec => []TypeOK
BY BasisHolds, PTL DEF Basis

\* write_field and write_override together keep exactly one current row of a field that
\* was ever written.
THEOREM OneCurrentRow == Spec => []OneCurrent
BY BasisHolds, PTL DEF Basis

(***************************************************************************)
(* History is append-only.                                                 *)
(***************************************************************************)
Frozen ==
  /\ \A p \in Points :
       /\ point'[p] # point[p] => point[p].is_current
       /\ point'[p] = [point[p] EXCEPT !.is_current = point'[p].is_current,
                                       !.status = point'[p].status]
  /\ log \subseteq log'
  /\ \A p \in DOMAIN detail : detail[p].reviewed_by # Nobody => detail'[p] = detail[p]

LEMMA TakesOverFreezes ==
  ASSUME Basis, NEW p, NEW src, NEW value, NEW st, TakesOver(p, src, value, st),
         NEW q \in Points
  PROVE  /\ point'[q] # point[q] => point[q].is_current
         /\ point'[q] = [point[q] EXCEPT !.is_current = point'[q].is_current,
                                         !.status = point'[q].status]
<1>1. point[q] \in PointRow
  BY DEF Basis, TypeOK
<1>2. CASE q = Current
  <2>1. point'[q] = [point[q] EXCEPT !.is_current = FALSE, !.status = st]
    BY <1>2, TakesOverFacts DEF Basis
  <2>2. point[q].is_current
    BY <1>2, CurrentFacts DEF Basis
  <2> QED BY <1>1, <2>1, <2>2 DEF PointRow
<1>3. CASE q # Current
  <2>1. point'[q] = point[q]
    BY <1>3, TakesOverFacts DEF Basis
  <2> QED BY <1>1, <2>1 DEF PointRow
<1> QED BY <1>2, <1>3

LEMMA StaysOutFreezes ==
  ASSUME Basis, NEW p, NEW src, NEW value, StaysOut(p, src, value), NEW q \in Points
  PROVE  /\ point'[q] # point[q] => point[q].is_current
         /\ point'[q] = [point[q] EXCEPT !.is_current = point'[q].is_current,
                                         !.status = point'[q].status]
<1>1. point[q] \in PointRow
  BY DEF Basis, TypeOK
<1>2. point'[q] = point[q]
  BY StaysOutFacts DEF Basis
<1> QED BY <1>1, <1>2 DEF PointRow

LEMMA FrozenStep ==
  ASSUME Basis, Next
  PROVE  Frozen
<1>1. ASSUME NEW p \in PointId, NEW src \in Sources, NEW value \in Values,
             WriteField(p, src, value)
      PROVE  Frozen
  <2>1. log \subseteq log' /\ detail' = detail
    BY <1>1 DEF WriteField, FirstValue, Refresh, NewcomerWins, NewcomerLoses, LogUnlessAgreed
  <2>2. CASE StaysOut(p, src, value)
    BY <2>1, <2>2, StaysOutFreezes DEF Frozen
  <2>3. ASSUME NEW st, TakesOver(p, src, value, st)
        PROVE  Frozen
    BY <2>1, <2>3, TakesOverFreezes DEF Frozen
  <2> QED BY <1>1, <2>2, <2>3, WriteFieldKinds
<1>2. ASSUME NEW p \in PointId, NEW value \in Values, SubmitOverride(p, value)
      PROVE  Frozen
  <2>1. TakesOver(p, Manual, value, "overridden")
    BY <1>2, OverrideKind
  <2>2. p \notin DOMAIN detail
    BY <1>2 DEF SubmitOverride, Basis, TypeOK
  <2>3. log' = log /\ \A q \in DOMAIN detail : detail'[q] = detail[q]
    BY <1>2, <2>2 DEF SubmitOverride, Insert
  <2> QED BY <2>1, <2>3, TakesOverFreezes DEF Frozen
<1>3. ASSUME NEW u \in Reviewers, NEW p \in DOMAIN detail, NEW approved \in BOOLEAN,
             ReviewOverride(u, p, approved)
      PROVE  Frozen
  <2>1. \A q \in Points : point[q] \in PointRow
    BY DEF Basis, TypeOK
  <2>2. /\ UNCHANGED <<point, log>> /\ detail[p].reviewed_by = Nobody
        /\ detail' = [detail EXCEPT ![p] = [reviewed_by |-> u, approved |-> approved]]
    BY <1>3 DEF ReviewOverride
  <2>3. \A q \in Points : point'[q] = [point[q] EXCEPT !.is_current = point'[q].is_current,
                                                      !.status = point'[q].status]
    BY <2>1, <2>2 DEF PointRow
  <2> QED BY <2>2, <2>3 DEF Frozen
<1> QED BY <1>1, <1>2, <1>3 DEF Next

\* No write, override or sign-off rewrites what a row says, removes a log entry or
\* repeats a sign-off.
THEOREM HistoryStaysFrozen == Spec => HistoryFrozen
<1>1. Basis /\ [Next]_vars =>
        [/\ \A p \in Points :
              /\ point'[p] # point[p] => point[p].is_current
              /\ point'[p] = [point[p] EXCEPT !.is_current = point'[p].is_current,
                                              !.status = point'[p].status]
         /\ log \subseteq log'
         /\ \A p \in DOMAIN detail :
              detail[p].reviewed_by # Nobody => detail'[p] = detail[p]]_vars
  BY FrozenStep DEF Frozen
<1> QED BY <1>1, BasisHolds, PTL DEF Spec, HistoryFrozen

(***************************************************************************)
(* The conflict log and the rows.                                          *)
(***************************************************************************)
\* Conflicting marks the rows that the log names losers.
LEMMA LoserRows ==
  ASSUME LogMatchesPoints, TypeOK, NEW q
  PROVE  q \in Points /\ point[q].status = "conflicting" <=> \E entry \in log : entry[2] = q
<1>1. q \in {r \in Points : point[r].status = "conflicting"}
        <=> q \in {entry[2] : entry \in log}
  BY DEF LogMatchesPoints
<1> QED BY <1>1

\* An old entry says the same of the rows after a write.
LEMMA OldEntries ==
  ASSUME Basis, LogMatchesPoints, NEW p, NEW src, NEW value, Adds(p, src, value),
         NEW entry \in log
  PROVE  /\ point'[entry[1]].source # point'[entry[2]].source
         /\ point'[entry[1]].value # point'[entry[2]].value
         /\ Rank(point'[entry[1]].source) <= Rank(point'[entry[2]].source)
<1>1. entry[1] \in Points /\ entry[2] \in Points
  BY DEF Basis, TypeOK
<1>2. \A q \in {entry[1], entry[2]} :
        point'[q].source = point[q].source /\ point'[q].value = point[q].value
  BY <1>1 DEF Adds
<1> QED BY <1>2 DEF LogMatchesPoints

\* A write that logs nothing and marks no row conflicting keeps log and rows in step.
LEMMA LogStands ==
  ASSUME Basis, LogMatchesPoints, NEW p, NEW src, NEW value, Adds(p, src, value),
         log' = log,
         \A q \in Points' : point'[q].status = "conflicting" <=>
                              q \in Points /\ point[q].status = "conflicting"
  PROVE  LogMatchesPoints'
<1>1. Points \subseteq Points'
  BY DEF Adds
<1>2. {q \in Points' : point'[q].status = "conflicting"} =
        {q \in Points : point[q].status = "conflicting"}
  BY <1>1
<1>3. {entry[2] : entry \in log'} = {entry[2] : entry \in log}
  OBVIOUS
<1>4. {q \in Points' : point'[q].status = "conflicting"} = {entry[2] : entry \in log'}
  BY <1>2, <1>3 DEF LogMatchesPoints
<1> QED BY <1>4, OldEntries DEF LogMatchesPoints, Rank

\* So does one that logs a conflict and marks its loser.
LEMMA LogGrows ==
  ASSUME Basis, LogMatchesPoints, NEW p, NEW src, NEW value, Adds(p, src, value),
         NEW winner, NEW loser \in Points', log' = log \cup {<<winner, loser>>},
         \A q \in Points' : point'[q].status = "conflicting" <=>
                              q = loser \/ (q \in Points /\ point[q].status = "conflicting"),
         point'[winner].source # point'[loser].source,
         point'[winner].value # point'[loser].value,
         Rank(point'[winner].source) <= Rank(point'[loser].source)
  PROVE  LogMatchesPoints'
<1>1. Points \subseteq Points'
  BY DEF Adds
<1>2. ASSUME NEW q
      PROVE  q \in {r \in Points' : point'[r].status = "conflicting"}
               <=> q \in {entry[2] : entry \in log'}
  <2>1. q \in Points /\ point[q].status = "conflicting" <=> \E entry \in log : entry[2] = q
    BY LoserRows DEF Basis
  <2>2. ASSUME q = loser
        PROVE  \E entry \in log' : entry[2] = q
    <3>1. <<winner, loser>> \in log' /\ <<winner, loser>>[2] = q
      BY <2>2
    <3> QED BY <3>1
  <2>3. (\E entry \in log' : entry[2] = q) <=> q = loser \/ \E entry \in log : entry[2] = q
    BY <2>2
  <2> QED BY <1>1, <2>1, <2>3
<1>3. {q \in Points' : point'[q].status = "conflicting"} = {entry[2] : entry \in log'}
  BY <1>2
<1>4. \A entry \in log' : entry \in log \/ (entry[1] = winner /\ entry[2] = loser)
  OBVIOUS
<1>5. ASSUME NEW entry \in log'
      PROVE  /\ point'[entry[1]].source # point'[entry[2]].source
             /\ point'[entry[1]].value # point'[entry[2]].value
             /\ Rank(point'[entry[1]].source) <= Rank(point'[entry[2]].source)
  <2>1. CASE entry \in log
    BY <2>1, OldEntries
  <2>2. CASE entry[1] = winner /\ entry[2] = loser
    BY <2>2
  <2> QED BY <1>4, <2>1, <2>2
<1> QED BY <1>3, <1>5 DEF LogMatchesPoints, Rank

\* What a write marks conflicting.
LEMMA MarkedByTakingOver ==
  ASSUME Basis, NEW p, NEW src, NEW value, NEW st, TakesOver(p, src, value, st),
         NEW q \in Points'
  PROVE  point'[q].status = "conflicting" <=>
           \/ q = Current /\ q \in Points /\ st = "conflicting"
           \/ q \in Points /\ point[q].status = "conflicting"
<1>1. /\ p \in PointId /\ src \in Sources /\ value \in Values
      /\ p \notin Points /\ Points' = Points \cup {p}
      /\ point'[p] = NewPoint(src, value, "active")
      /\ \A r \in Points : r # Current => point'[r] = point[r]
      /\ \A r \in Points : r = Current =>
           point'[r] = [point[r] EXCEPT !.is_current = FALSE, !.status = st]
  BY TakesOverFacts DEF Basis, TakesOver, Writes
<1>2. CASE q = p
  <2>1. \A s : NewPoint(src, value, s).status = s
    BY DEF NewPoint
  <2> QED BY <1>1, <1>2, <2>1
<1>3. CASE q \in Points /\ q = Current
  <2>1. point[q] \in PointRow
    BY <1>3 DEF Basis, TypeOK
  <2>2. point[q].status = "active"
    BY <1>1, <1>3, CurrentFacts, FieldAssumption DEF Basis, TypeOK
  <2>3. point'[q].status = st
    BY <1>1, <1>3, <2>1 DEF PointRow
  <2> QED BY <1>3, <2>2, <2>3
<1>4. CASE q \in Points /\ q # Current
  BY <1>1, <1>4
<1> QED BY <1>1, <1>2, <1>3, <1>4

LEMMA MarkedByStayingOut ==
  ASSUME Basis, NEW p, NEW src, NEW value, StaysOut(p, src, value), NEW q \in Points'
  PROVE  point'[q].status = "conflicting" <=>
           \/ q = p /\ ~Agree(value)
           \/ q \in Points /\ point[q].status = "conflicting"
<1>1. /\ p \in PointId /\ src \in Sources /\ value \in Values
      /\ p \notin Points /\ Points' = Points \cup {p}
      /\ point'[p] = NewPoint(src, value, LoserStatus(value))
      /\ \A r \in Points : point'[r] = point[r]
  BY StaysOutFacts DEF Basis, StaysOut, Writes
<1>2. point'[p].status = LoserStatus(value)
  BY <1>1 DEF NewPoint
<1> QED BY <1>1, <1>2 DEF LoserStatus

LEMMA LogStep ==
  ASSUME Basis, LogMatchesPoints, Next
  PROVE  LogMatchesPoints'
<1>1. ASSUME NEW p \in PointId, NEW src \in Sources, NEW value \in Values,
             WriteField(p, src, value), Adds(p, src, value)
      PROVE  LogMatchesPoints'
  <2>0. Writes(p, src, value)
    BY <1>1 DEF WriteField, Writes
  <2>1. CASE FirstValue(p, src, value)
    <3>1. TakesOver(p, src, value, "superseded")
      BY <2>0, <2>1 DEF FirstValue, TakesOver
    <3>2. log' = log
      BY <2>1 DEF FirstValue
    <3> QED BY <1>1, <3>1, <3>2, MarkedByTakingOver, LogStands
  <2>2. CASE Refresh(p, src, value)
    <3>1. TakesOver(p, src, value, "superseded")
      BY <2>0, <2>2 DEF Refresh, TakesOver
    <3>2. log' = log
      BY <2>2 DEF Refresh
    <3> QED BY <1>1, <3>1, <3>2, MarkedByTakingOver, LogStands
  <2>3. CASE NewcomerWins(p, src, value)
    <3>1. TakesOver(p, src, value, LoserStatus(value)) /\ Current # NoPoint
      BY <2>0, <2>3 DEF NewcomerWins, TakesOver, LoserStatus
    <3>2. CASE Agree(value)
      <4>1. log' = log /\ LoserStatus(value) # "conflicting"
        BY <2>3, <3>2 DEF NewcomerWins, LogUnlessAgreed, LoserStatus
      <4> QED BY <1>1, <3>1, <4>1, MarkedByTakingOver, LogStands
    <3>3. CASE ~Agree(value)
      <4>1. log' = log \cup {<<p, Current>>} /\ LoserStatus(value) = "conflicting"
        BY <2>3, <3>3 DEF NewcomerWins, LogUnlessAgreed, LoserStatus
      <4>2. /\ Current \in Points /\ Current \in Points'
            /\ \A q \in Points' : point'[q].status = "conflicting" <=>
                 q = Current \/ (q \in Points /\ point[q].status = "conflicting")
        BY <1>1, <3>1, <4>1, MarkedByTakingOver, CurrentFacts DEF Basis, Adds
      <4>3. /\ point'[p].source = src /\ point'[p].value = value
            /\ point'[Current].source = point[Current].source
            /\ point'[Current].value = point[Current].value
        BY <1>1, <3>1, CurrentFacts DEF Adds, Basis
      <4>4. /\ src # point[Current].source /\ value # point[Current].value
            /\ Rank(src) < Rank(point[Current].source)
        BY <2>3, <3>3 DEF NewcomerWins, NewWins, Agree
      <4>5. Rank(src) <= Rank(point[Current].source)
        BY <4>4, RankType
      <4> QED BY <1>1, <4>1, <4>2, <4>3, <4>4, <4>5, LogGrows
    <3> QED BY <3>2, <3>3
  <2>4. CASE NewcomerLoses(p, src, value)
    <3>1. StaysOut(p, src, value) /\ Current # NoPoint
      BY <2>0, <2>4 DEF NewcomerLoses, StaysOut
    <3>4. CASE Agree(value)
      <4>1. log' = log /\ LoserStatus(value) # "conflicting"
        BY <2>4, <3>4 DEF NewcomerLoses, LogUnlessAgreed, LoserStatus
      <4> QED BY <1>1, <3>1, <3>4, <4>1, MarkedByStayingOut, LogStands
    <3>5. CASE ~Agree(value)
      <4>1. log' = log \cup {<<Current, p>>} /\ LoserStatus(value) = "conflicting"
        BY <2>4, <3>5 DEF NewcomerLoses, LogUnlessAgreed, LoserStatus
      <4>2. /\ p \in Points'
            /\ \A q \in Points' : point'[q].status = "conflicting" <=>
                 q = p \/ (q \in Points /\ point[q].status = "conflicting")
        BY <1>1, <3>1, <3>5, MarkedByStayingOut DEF Adds
      <4>3. /\ point'[p].source = src /\ point'[p].value = value
            /\ point'[Current].source = point[Current].source
            /\ point'[Current].value = point[Current].value
        BY <1>1, <3>1, CurrentFacts DEF Adds, Basis
      <4>4. /\ src # point[Current].source /\ value # point[Current].value
            /\ ~(Rank(src) < Rank(point[Current].source))
        BY <2>4, <3>5 DEF NewcomerLoses, NewWins, Agree
      <4>5. Rank(point[Current].source) <= Rank(src)
        BY <4>4, RankType
      <4> QED BY <1>1, <4>1, <4>2, <4>3, <4>4, <4>5, LogGrows
    <3> QED BY <3>4, <3>5
  <2> QED BY <1>1, <2>1, <2>2, <2>3, <2>4 DEF WriteField
<1>2. ASSUME NEW p \in PointId, NEW value \in Values, SubmitOverride(p, value),
             Adds(p, Manual, value)
      PROVE  LogMatchesPoints'
  <2>1. TakesOver(p, Manual, value, "overridden")
    BY <1>2, OverrideKind
  <2>2. log' = log
    BY <1>2 DEF SubmitOverride
  <2> QED BY <1>2, <2>1, <2>2, MarkedByTakingOver, LogStands
<1>3. ASSUME UNCHANGED <<point, log>>
      PROVE  LogMatchesPoints'
  BY <1>3 DEF LogMatchesPoints, Points, Rank
<1> QED BY <1>1, <1>2, <1>3, Steps

\* write_field, whatever order the sources report in, logs a conflict just when it marks
\* the row that lost it.
THEOREM LogStaysWithPoints == Spec => []LogMatchesPoints
<1>1. Init => LogMatchesPoints
  BY DEF Init, LogMatchesPoints, Points
<1>2. Basis /\ LogMatchesPoints /\ [Next]_vars => LogMatchesPoints'
  <2>1. ASSUME LogMatchesPoints, UNCHANGED vars
        PROVE  LogMatchesPoints'
    BY <2>1 DEF vars, LogMatchesPoints, Points, Rank
  <2> QED BY <2>1, LogStep
<1> QED BY <1>1, <1>2, BasisHolds, PTL DEF Spec

(***************************************************************************)
(* The line of values that were ever in force.                             *)
(***************************************************************************)
\* A write links its row to the line's end, so no other row joins the line.
LEMMA LineGrows ==
  ASSUME Basis, NEW p, NEW src, NEW value, Adds(p, src, value), Basis',
         Current' \in {p, Current}
  PROVE  EverCurrent' \cap Points = EverCurrent /\ (p \in EverCurrent' => Current' = p)
<1>1. /\ p \in PointId /\ p \notin Points /\ Points' = Points \cup {p}
      /\ point'[p].previous = Current
      /\ \A q \in Points : point'[q].previous = point[q].previous
  BY DEF Adds
<1>2. \A q \in Points : point[q].previous \in Points \cup {NoPoint}
  BY DEF Basis, TypeOK
<1>3. p # NoPoint /\ NoPoint \notin Points
  BY <1>1, FieldAssumption DEF Basis, TypeOK
<1>4. \A q \in Points : point[q].is_current <=> q = Current
  BY CurrentFacts DEF Basis
<1>5. \A q \in Points' : point'[q].is_current <=> q = Current'
  <2>1. TypeOK' /\ OneCurrent'
    BY DEF Basis
  <2>2. Current' \in Points' /\ point'[Current'].is_current
    <3>1. Current' # NoPoint
      BY <1>1, <2>1 DEF OneCurrent
    <3> QED BY <3>1 DEF Current
  <2> QED BY <2>1, <2>2 DEF OneCurrent
<1>6. ASSUME NEW q \in Points
      PROVE  q \in EverCurrent' <=> q \in EverCurrent
  <2>1. q \in EverCurrent' <=>
          point'[q].is_current \/ \E r \in Points' : point'[r].previous = q
    BY <1>1 DEF EverCurrent
  <2>2. q \in EverCurrent <=> point[q].is_current \/ \E r \in Points : point[r].previous = q
    BY DEF EverCurrent
  <2>3. (\E r \in Points' : point'[r].previous = q) <=>
          q = Current \/ \E r \in Points : point[r].previous = q
    BY <1>1
  <2>4. point'[q].is_current => q = Current
    BY <1>1, <1>5
  <2> QED BY <1>4, <2>1, <2>2, <2>3, <2>4
<1>7. ASSUME p \in EverCurrent', Current' # p
      PROVE  FALSE
  <2>1. PICK r \in Points' : point'[r].previous = p
    BY <1>1, <1>5, <1>7 DEF EverCurrent
  <2>2. CASE r = p
    <3>1. Current = p
      BY <1>1, <2>1, <2>2
    <3> QED BY <1>7, <3>1
  <2>3. CASE r \in Points
    BY <1>1, <1>2, <1>3, <2>1, <2>3
  <2> QED BY <1>1, <2>2, <2>3
<1>8. EverCurrent \subseteq Points
  BY DEF EverCurrent
<1> QED BY <1>6, <1>7, <1>8

\* No version is more than one past the current row's.
LEMMA VersionsBounded ==
  ASSUME Basis, VersionLine, NEW q \in Points
  PROVE  /\ Current # NoPoint
         /\ point[q].version \in Nat /\ point[Current].version \in Nat
         /\ point[q].version <= point[Current].version + 1
<1>1. /\ Current # NoPoint /\ Current \in Points
      /\ point[q] \in PointRow /\ point[Current] \in PointRow
  BY CurrentFacts DEF Basis, TypeOK
<1>2. point[q].version \in Nat \ {0} /\ point[Current].version \in Nat \ {0}
  BY <1>1 DEF PointRow
<1>3. CASE point[q].previous = NoPoint
  <2>1. point[q].version = 1
    BY <1>3 DEF VersionLine
  <2> QED BY <1>1, <1>2, <2>1
<1>4. CASE point[q].previous # NoPoint
  <2> DEFINE r == point[q].previous
  <2>1. r \in Points /\ point[r] \in PointRow
    BY <1>4 DEF Basis, TypeOK
  <2>2. r \in EverCurrent
    BY <2>1 DEF EverCurrent
  <2>3. point[r].version \in Nat
    BY <2>1 DEF PointRow
  <2>4. point[q].version = point[r].version + 1 /\ point[r].version <= point[Current].version
    BY <1>4, <2>2 DEF VersionLine
  <2> QED BY <1>1, <1>2, <2>3, <2>4
<1> QED BY <1>3, <1>4

LEMMA LineStep ==
  ASSUME Basis, VersionLine, NEW p, NEW src, NEW value, Adds(p, src, value), Basis',
         Current' \in {p, Current}
  PROVE  VersionLine'
<1>1. /\ p \in PointId /\ p \notin Points /\ Points' = Points \cup {p}
      /\ point'[p].previous = Current
      /\ point'[p].version = IF Current = NoPoint THEN 1 ELSE point[Current].version + 1
      /\ \A q \in Points : /\ point'[q].previous = point[q].previous
                           /\ point'[q].version = point[q].version
  BY DEF Adds
<1>2. Current # NoPoint => Current \in Points
  BY CurrentFacts DEF Basis
<1>3. ASSUME NEW q \in Points'
      PROVE  IF point'[q].previous = NoPoint THEN point'[q].version = 1
             ELSE point'[q].version = point'[point'[q].previous].version + 1
  <2>1. CASE q = p
    BY <1>1, <1>2, <2>1
  <2>2. CASE q \in Points
    <3>1. point[q].previous # NoPoint => point[q].previous \in Points
      BY <2>2 DEF Basis, TypeOK
    <3>2. IF point[q].previous = NoPoint THEN point[q].version = 1
          ELSE point[q].version = point[point[q].previous].version + 1
      BY <2>2 DEF VersionLine
    <3> QED BY <1>1, <2>2, <3>1, <3>2
  <2> QED BY <1>1, <2>1, <2>2
<1>4. EverCurrent' \cap Points = EverCurrent /\ (p \in EverCurrent' => Current' = p)
  BY LineGrows
<1>5. EverCurrent' \subseteq Points'
  BY DEF EverCurrent
<1>6. ASSUME NEW q \in EverCurrent
      PROVE  /\ q \in Points /\ Current # NoPoint
             /\ point[q].version \in Nat /\ point[Current].version \in Nat
             /\ point[q].version <= point[Current].version
  <2>1. q \in Points
    BY DEF EverCurrent
  <2>2. point[q].version <= point[Current].version
    BY DEF VersionLine
  <2> QED BY <2>1, <2>2, VersionsBounded
<1>7. \A q, r \in EverCurrent' : point'[q].version = point'[r].version => q = r
  <2>1. \A q, r \in EverCurrent : point[q].version = point[r].version => q = r
    BY DEF VersionLine
  <2>2. \A q \in EverCurrent' : q = p \/ q \in EverCurrent
    BY <1>1, <1>4, <1>5
  <2>3. \A q \in EverCurrent : point'[q].version = point[q].version
    BY <1>1, <1>6
  <2>4. \A q \in EverCurrent : point'[q].version # point'[p].version
    BY <1>1, <1>6
  <2> QED BY <2>1, <2>2, <2>3, <2>4
<1>8. \A q \in EverCurrent' : point'[q].version <= point'[Current'].version
  <2> SUFFICES ASSUME NEW q \in EverCurrent'
               PROVE  point'[q].version <= point'[Current'].version
    OBVIOUS
  <2>1. point'[q].version \in Nat /\ point'[p].version \in Nat
    BY <1>1, <1>5 DEF Adds, PointRow
  <2>2. CASE q = p
    BY <1>4, <2>1, <2>2
  <2>3. CASE q \in EverCurrent
    <3>1. point'[q].version = point[q].version
      BY <1>1, <1>6, <2>3
    <3>2. CASE Current' = p
      BY <1>1, <1>6, <2>3, <3>1, <3>2
    <3>3. CASE Current' = Current
      <4>1. Current \in Points
        BY <1>2, <1>6, <2>3
      <4> QED BY <1>1, <1>6, <2>3, <3>1, <3>3, <4>1
    <3> QED BY <3>2, <3>3
  <2> QED BY <1>1, <1>4, <1>5, <2>2, <2>3
<1> QED BY <1>3, <1>7, <1>8 DEF VersionLine

\* Where the current row is after each write.
LEMMA CurrentMoves ==
  ASSUME Basis, NEW p \in PointId, NEW src \in Sources, NEW value \in Values
  PROVE  /\ WriteField(p, src, value) => Current' \in {p, Current}
         /\ WriteField(p, src, value) /\ ~NewcomerLoses(p, src, value) => Current' = p
         /\ WriteField(p, src, value) /\ NewcomerLoses(p, src, value) => Current' = Current
         /\ SubmitOverride(p, value) => Current' = p
<1>1. ASSUME NEW st, NEW s, TakesOver(p, s, value, st)
      PROVE  Current' = p
  BY <1>1, TakesOverFacts DEF Basis
<1>2. ASSUME WriteField(p, src, value), ~NewcomerLoses(p, src, value)
      PROVE  Current' = p
  <2>1. Writes(p, src, value)
    BY <1>2 DEF WriteField, Writes
  <2>2. CASE FirstValue(p, src, value)
    <3>1. TakesOver(p, src, value, "superseded")
      BY <2>1, <2>2 DEF FirstValue, TakesOver
    <3> QED BY <1>1, <3>1
  <2>3. CASE Refresh(p, src, value)
    <3>1. TakesOver(p, src, value, "superseded")
      BY <2>1, <2>3 DEF Refresh, TakesOver
    <3> QED BY <1>1, <3>1
  <2>4. CASE NewcomerWins(p, src, value)
    <3>1. TakesOver(p, src, value, LoserStatus(value))
      BY <2>1, <2>4 DEF NewcomerWins, TakesOver, LoserStatus
    <3> QED BY <1>1, <3>1
  <2> QED BY <1>2, <2>2, <2>3, <2>4 DEF WriteField
<1>3. ASSUME WriteField(p, src, value), NewcomerLoses(p, src, value)
      PROVE  Current' = Current
  <2>1. StaysOut(p, src, value)
    BY <1>3 DEF WriteField, Writes, NewcomerLoses, StaysOut
  <2> QED BY <2>1, StaysOutFacts DEF Basis
<1>4. SubmitOverride(p, value) => Current' = p
  BY <1>1, OverrideKind
<1> QED BY <1>2, <1>3, <1>4

LEMMA VersionStep ==
  ASSUME Basis, VersionLine, [Next]_vars
  PROVE  VersionLine'
<1>1. CASE UNCHANGED <<point, log>>
  BY <1>1 DEF VersionLine, EverCurrent, Current, Points
<1>2. CASE UNCHANGED vars
  BY <1>1, <1>2 DEF vars
<1>3. ASSUME NEW p \in PointId, NEW src \in Sources, NEW value \in Values,
             WriteField(p, src, value), Adds(p, src, value), Basis'
      PROVE  VersionLine'
  BY <1>3, CurrentMoves, LineStep
<1>4. ASSUME NEW p \in PointId, NEW value \in Values,
             SubmitOverride(p, value), Adds(p, Manual, value), Basis'
      PROVE  VersionLine'
  <2>1. Current' = p
    BY <1>4, FieldAssumption, CurrentMoves
  <2> QED BY <1>4, <2>1, LineStep
<1> QED BY <1>1, <1>2, <1>3, <1>4, Steps

\* Whatever mix of sources and analysts writes the field, the values once in force form
\* one line of versions without repeats.
THEOREM VersionsFormLine == Spec => []VersionLine
<1>1. Init => VersionLine
  BY DEF Init, VersionLine, EverCurrent, Points
<1> QED BY <1>1, VersionStep, BasisHolds, PTL DEF Spec

(***************************************************************************)
(* Priorities between overrides.                                           *)
(***************************************************************************)
\* No row is written since an override until the next delivery.
LEMMA OverrideRestarts ==
  ASSUME Basis, VersionLine, NEW p \in PointId, NEW value \in Values,
         SubmitOverride(p, value), Adds(p, Manual, value)
  PROVE  SinceOverride' = {}
<1>1. /\ p \notin Points /\ Points' = Points \cup {p}
      /\ point'[p].version = IF Current = NoPoint THEN 1 ELSE point[Current].version + 1
      /\ \A q \in Points : point'[q].version = point[q].version
  BY DEF Adds
<1>2. p \in DOMAIN detail'
  BY DEF SubmitOverride, Insert
<1>3. ASSUME NEW q \in Points', point'[q].version > point'[p].version
      PROVE  FALSE
  <2>1. CASE q = p
    <3>1. point'[p].version \in Nat
      BY DEF Adds, PointRow
    <3> QED BY <1>3, <2>1, <3>1
  <2>2. CASE q \in Points
    BY <1>1, <1>3, <2>2, VersionsBounded
  <2> QED BY <1>1, <2>1, <2>2
<1> QED BY <1>2, <1>3 DEF SinceOverride

\* A delivery leaves the rows written since the override so, and may add its own.
LEMMA SinceOverrideGrows ==
  ASSUME Basis, NEW p, NEW src, NEW value, Adds(p, src, value), detail' = detail
  PROVE  \A q \in Points : q \in SinceOverride' <=> q \in SinceOverride
<1>1. /\ Points' = Points \cup {p}
      /\ \A q \in Points : point'[q].version = point[q].version
  BY DEF Adds
<1>2. DOMAIN detail \subseteq Points
  BY DEF Basis, TypeOK
<1> QED BY <1>1, <1>2 DEF SinceOverride

LEMMA StandingAfterWrite ==
  ASSUME Basis, VersionLine, PriorityStanding,
         NEW p \in PointId, NEW src \in Sources, NEW value \in Values,
         WriteField(p, src, value), Adds(p, src, value), NEW q \in SinceOverride'
  PROVE  /\ Rank(point'[Current'].source) <= Rank(point'[q].source)
         /\ q # Current' /\ point'[q].source = point'[Current'].source =>
              point'[q].version < point'[Current'].version
<1>1. /\ p \notin Points /\ Points' = Points \cup {p} /\ point'[p].source = src
      /\ point'[p].version = IF Current = NoPoint THEN 1 ELSE point[Current].version + 1
      /\ \A r \in Points : /\ point'[r].source = point[r].source
                           /\ point'[r].version = point[r].version
  BY DEF Adds
<1>2. q = p \/ (q \in Points /\ q \in SinceOverride)
  <2>1. q \in Points'
    BY DEF SinceOverride
  <2>2. detail' = detail
    BY DEF WriteField
  <2> QED BY <1>1, <2>1, <2>2, SinceOverrideGrows
<1>3. Current # NoPoint => Current \in Points
  BY CurrentFacts DEF Basis
<1>4. ASSUME q \in Points, q \in SinceOverride
      PROVE  /\ Rank(point[Current].source) <= Rank(point[q].source)
             /\ q # Current /\ point[q].source = point[Current].source =>
                  point[q].version < point[Current].version
             /\ Current # NoPoint
             /\ point[q].version \in Nat /\ point[Current].version \in Nat
  BY <1>4, VersionsBounded DEF PriorityStanding
<1>5. \A s : Rank(s) \in Nat
  BY RankType
<1>6. CASE FirstValue(p, src, value)
  <2>1. Points = {} /\ Current' = p
    BY <1>6, CurrentMoves, CurrentFacts DEF Basis, FirstValue, NewcomerLoses
  <2> QED BY <1>2, <1>5, <2>1
<1>7. CASE Refresh(p, src, value)
  <2>1. Current' = p /\ src = point[Current].source /\ Current # NoPoint
    BY <1>7, CurrentMoves DEF Refresh, NewcomerLoses
  <2>2. CASE q = p
    BY <1>5, <2>1, <2>2
  <2>3. CASE q \in Points /\ q \in SinceOverride
    <3>1. Rank(point'[Current'].source) <= Rank(point'[q].source)
      BY <1>1, <1>4, <2>1, <2>3
    <3>2. ASSUME point[q].source = src
          PROVE  point[q].version < point[Current].version + 1
      BY <1>4, <2>1, <2>3, <3>2
    <3> QED BY <1>1, <2>1, <2>3, <3>1, <3>2
  <2> QED BY <1>2, <2>2, <2>3
<1>8. CASE NewcomerWins(p, src, value)
  <2>1. Current' = p /\ Rank(src) < Rank(point[Current].source)
    BY <1>8, CurrentMoves DEF NewcomerWins, NewcomerLoses, NewWins
  <2>2. CASE q = p
    BY <1>5, <2>1, <2>2
  <2>3. CASE q \in Points /\ q \in SinceOverride
    <3>1. Rank(src) < Rank(point[q].source)
      BY <1>4, <1>5, <2>1, <2>3
    <3>2. point[q].source # src
      BY <1>5, <3>1
    <3>3. Rank(src) <= Rank(point[q].source)
      BY <1>5, <3>1
    <3> QED BY <1>1, <2>1, <2>3, <3>2, <3>3
  <2> QED BY <1>2, <2>2, <2>3
<1>9. CASE NewcomerLoses(p, src, value)
  <2>1. /\ Current' = Current /\ Current \in Points /\ src # point[Current].source
        /\ ~(Rank(src) < Rank(point[Current].source))
    BY <1>3, <1>9, CurrentMoves DEF NewcomerLoses, NewWins
  <2>2. CASE q = p
    <3>1. Rank(point[Current].source) <= Rank(src)
      BY <1>5, <2>1
    <3> QED BY <1>1, <2>1, <2>2, <3>1
  <2>3. CASE q \in Points /\ q \in SinceOverride
    BY <1>1, <1>4, <2>1, <2>3
  <2> QED BY <1>2, <2>2, <2>3
<1> QED BY <1>6, <1>7, <1>8, <1>9 DEF WriteField

LEMMA StandingStep ==
  ASSUME Basis, VersionLine, PriorityStanding, [Next]_vars
  PROVE  PriorityStanding'
<1>1. ASSUME NEW p \in PointId, NEW src \in Sources, NEW value \in Values,
             WriteField(p, src, value), Adds(p, src, value)
      PROVE  PriorityStanding'
  <2>1. \A q \in SinceOverride' :
          /\ Rank(point'[Current'].source) <= Rank(point'[q].source)
          /\ q # Current' /\ point'[q].source = point'[Current'].source =>
               point'[q].version < point'[Current'].version
    BY <1>1, StandingAfterWrite
  <2> QED BY <2>1 DEF PriorityStanding, Rank
<1>2. ASSUME NEW p \in PointId, NEW value \in Values,
             SubmitOverride(p, value), Adds(p, Manual, value)
      PROVE  PriorityStanding'
  BY <1>2, OverrideRestarts DEF PriorityStanding
<1>3. ASSUME point' = point, DOMAIN detail' = DOMAIN detail
      PROVE  PriorityStanding'
  <2>1. Current' = Current
    BY <1>3 DEF Current, Points
  <2>2. SinceOverride' = SinceOverride
    BY <1>3 DEF SinceOverride, Points
  <2> QED BY <1>3, <2>1, <2>2 DEF PriorityStanding, Rank
<1>4. ASSUME NEW u \in Reviewers, NEW p \in DOMAIN detail, NEW approved \in BOOLEAN,
             ReviewOverride(u, p, approved)
      PROVE  PriorityStanding'
  BY <1>3, <1>4 DEF ReviewOverride
<1>5. CASE UNCHANGED vars
  BY <1>3, <1>5 DEF vars
<1> QED BY <1>1, <1>2, <1>4, <1>5, Steps

\* Since the last override the best-ranked source that delivered the field, with its
\* newest value, is the one in force, however deliveries are ordered and repeated.
THEOREM BestSourceStands == Spec => []PriorityStanding
<1>1. Init => PriorityStanding
  BY DEF Init, PriorityStanding, SinceOverride, Points
<1> QED BY <1>1, StandingStep, VersionsFormLine, BasisHolds, PTL DEF Spec

(***************************************************************************)
(* All the invariants of DataPoints together.                              *)
(***************************************************************************)
Kept == Basis /\ LogMatchesPoints /\ VersionLine /\ PriorityStanding

LEMMA KeptStep ==
  ASSUME Kept, Next
  PROVE  Kept'
<1>1. Basis' /\ LogMatchesPoints' /\ VersionLine' /\ PriorityStanding'
  BY BasisStable, LogStep, VersionStep, StandingStep DEF Kept
<1> QED BY <1>1 DEF Kept

\* Which sign-off stands is no part of them.
LEMMA KeptReviewed ==
  ASSUME Kept, UNCHANGED <<point, log>>, DOMAIN detail' = DOMAIN detail, TypeOK'
  PROVE  Kept'
<1>1. Current' = Current /\ Points' = Points /\ EverCurrent' = EverCurrent
      /\ SinceOverride' = SinceOverride
  BY DEF Current, Points, EverCurrent, SinceOverride
<1>2. OneCurrent'
  BY <1>1 DEF Kept, Basis, OneCurrent
<1>3. LogMatchesPoints'
  BY <1>1 DEF Kept, LogMatchesPoints, Rank
<1>4. VersionLine'
  BY <1>1 DEF Kept, VersionLine
<1>5. PriorityStanding'
  BY <1>1 DEF Kept, PriorityStanding, Rank
<1> QED BY <1>2, <1>3, <1>4, <1>5 DEF Kept, Basis

LEMMA KeptInit == Init => Kept
<1>1. Init => Basis
  BY DEF Init, Basis, TypeOK, OneCurrent, Current, Points
<1>2. Init => LogMatchesPoints /\ VersionLine /\ PriorityStanding
  BY DEF Init, LogMatchesPoints, VersionLine, EverCurrent, PriorityStanding, SinceOverride, Points
<1> QED BY <1>1, <1>2 DEF Kept

(***************************************************************************)
(* What a rank says of the list of priorities.                             *)
(***************************************************************************)
Listed(src) == \E i \in DOMAIN Priority : Priority[i] = src

FirstPlace(src, n) ==
  /\ n \in DOMAIN Priority
  /\ Priority[n] = src
  /\ \A j \in 1 .. n - 1 : Priority[j] # src

LEMMA ListedHasPlace ==
  ASSUME NEW src, Listed(src)
  PROVE  \E n \in DOMAIN Priority : FirstPlace(src, n)
<1> DEFINE at == {i \in DOMAIN Priority : Priority[i] = src}
<1>1. Len(Priority) \in Nat /\ DOMAIN Priority = 1 .. Len(Priority)
  BY FieldAssumption
<1>2. at \subseteq Nat /\ at # {}
  BY <1>1 DEF Listed
<1>3. PICK n \in at : \A k \in at : <<k, n>> \notin OpToRel(<, Nat)
  BY <1>2, NatLessThanWellFounded, WFMin
<1>4. \A k \in at : ~ (k < n)
  BY <1>2, <1>3 DEF OpToRel
<1>5. n \in 1 .. Len(Priority) /\ Priority[n] = src
  BY <1>1
<1>6. \A j \in 1 .. n - 1 : Priority[j] # src
  BY <1>1, <1>4, <1>5
<1> QED BY <1>1, <1>5, <1>6 DEF FirstPlace

\* _priority_rank is the place of the source's first mention counted from zero, and the
\* length of a list that does not mention it.
LEMMA RankIsPlace ==
  ASSUME NEW src
  PROVE  /\ \A n \in DOMAIN Priority : FirstPlace(src, n) => Rank(src) = n - 1
         /\ ~Listed(src) => Rank(src) = Len(Priority)
<1> DEFINE lead == {i \in DOMAIN Priority : \A j \in 1 .. i : Priority[j] # src}
<1>1. Len(Priority) \in Nat /\ DOMAIN Priority = 1 .. Len(Priority)
  BY FieldAssumption
<1>2. ASSUME NEW n \in DOMAIN Priority, FirstPlace(src, n)
      PROVE  Rank(src) = n - 1
  <2>1. n \in 1 .. Len(Priority) /\ n \in Nat
    BY <1>1
  <2>2. lead = 1 .. n - 1
    BY <1>1, <1>2, <2>1 DEF FirstPlace
  <2>3. Cardinality(1 .. n - 1) = n - 1
    BY <2>1, FS_Interval
  <2> QED BY <2>2, <2>3 DEF Rank
<1>3. ASSUME ~Listed(src)
      PROVE  Rank(src) = Len(Priority)
  <2>1. lead = 1 .. Len(Priority)
    BY <1>1, <1>3 DEF Listed
  <2>2. \A k \in Nat : Cardinality(1 .. k) = k
    BY FS_Interval
  <2>3. Cardinality(1 .. Len(Priority)) = Len(Priority)
    BY ONLY <1>1, <2>2
  <2> QED BY <2>1, <2>3 DEF Rank
<1> QED BY <1>2, <1>3

\* Two sources tie only when the list ranks neither: the best-ranked source of
\* PriorityStanding is one source, unless no source that delivered is ranked.
THEOREM TiesAreUnlisted ==
  ASSUME NEW src, NEW other, Rank(src) <= Rank(other), src # other
  PROVE  Rank(src) = Rank(other) <=> ~Listed(src)
<1>1. Len(Priority) \in Nat /\ DOMAIN Priority = 1 .. Len(Priority)
  BY FieldAssumption
<1>2. Rank(src) \in Nat /\ Rank(other) \in Nat
  BY RankType
<1>3. ASSUME Listed(src), Rank(src) = Rank(other)
      PROVE  FALSE
  <2>1. PICK n \in DOMAIN Priority : FirstPlace(src, n)
    BY <1>3, ListedHasPlace
  <2>2. Rank(other) = n - 1 /\ n \in 1 .. Len(Priority)
    BY <1>1, <1>3, <2>1, RankIsPlace
  <2>3. Listed(other)
    BY <1>1, <2>2, RankIsPlace
  <2>4. PICK m \in DOMAIN Priority : FirstPlace(other, m)
    BY <2>3, ListedHasPlace
  <2>5. Rank(other) = m - 1 /\ m \in 1 .. Len(Priority)
    BY <1>1, <2>4, RankIsPlace
  <2>6. m = n
    BY <2>2, <2>5
  <2> QED BY <2>1, <2>4, <2>6 DEF FirstPlace
<1>4. ASSUME ~Listed(src)
      PROVE  Rank(src) = Rank(other)
  <2>1. Rank(src) = Len(Priority)
    BY <1>4, RankIsPlace
  <2>2. Rank(other) <= Len(Priority)
    <3>1. CASE Listed(other)
      <4>1. PICK m \in DOMAIN Priority : FirstPlace(other, m)
        BY <3>1, ListedHasPlace
      <4>2. Rank(other) = m - 1 /\ m \in 1 .. Len(Priority)
        BY <1>1, <4>1, RankIsPlace
      <4> QED BY <1>1, <4>2
    <3>2. CASE ~Listed(other)
      BY <1>1, <3>2, RankIsPlace
    <3> QED BY <3>1, <3>2
  <2> QED BY <1>1, <1>2, <2>1, <2>2
<1> QED BY <1>3, <1>4

\* Since the last override no other source that delivered is ranked as well as the one in
\* force, and when that one is not ranked none of them is.
RankedBelow ==
  \A p \in SinceOverride :
    point[p].source # point[Current].source =>
      \/ Rank(point[Current].source) < Rank(point[p].source)
      \/ ~Listed(point[Current].source) /\ ~Listed(point[p].source)

THEOREM OneBestSource == Spec => []RankedBelow
<1>1. ASSUME PriorityStanding, NEW p \in SinceOverride,
             point[p].source # point[Current].source
      PROVE  \/ Rank(point[Current].source) < Rank(point[p].source)
             \/ ~Listed(point[Current].source) /\ ~Listed(point[p].source)
  <2> DEFINE best == point[Current].source  other == point[p].source
  <2>1. Rank(best) <= Rank(other)
    BY <1>1 DEF PriorityStanding
  <2>2. Rank(best) \in Nat /\ Rank(other) \in Nat
    BY RankType
  <2> HIDE DEF best, other
  <2>3. ASSUME Rank(best) = Rank(other), best # other
        PROVE  ~Listed(best) /\ ~Listed(other)
    <3>1. Rank(other) <= Rank(best)
      BY <2>2, <2>3
    <3>2. ~Listed(best)
      BY <2>1, <2>3, TiesAreUnlisted
    <3>3. ~Listed(other)
      BY <2>3, <3>1, TiesAreUnlisted
    <3> QED BY <3>2, <3>3
  <2>4. Rank(best) < Rank(other) \/ Rank(best) = Rank(other)
    BY <2>1, <2>2
  <2> QED BY <1>1, <2>3, <2>4 DEF best, other
<1>2. PriorityStanding => RankedBelow
  BY <1>1 DEF RankedBelow
<1> QED BY <1>2, BestSourceStands, PTL
=============================================================================
