--------------------------- MODULE AcquisitionProofs ---------------------------
(***************************************************************************)
(* Theorems about Acquisition, for any number of sources and requests, any *)
(* threshold, cooldown, limit and number of attempts.                      *)
(***************************************************************************)
EXTENDS Acquisition, FiniteSetTheorems, TLAPS

LEMMA HitBoundType == HitBound \in Nat
<1>1. Cardinality(Requests) \in Nat /\ Cardinality(Requests) # 0
  BY AcquisitionAssumption, FS_CardinalityType, FS_EmptySet
<1>2. Cardinality(Requests) - 1 \in Nat /\ MaxAttempts \in Nat
  BY <1>1, AcquisitionAssumption
<1>3. \A m, n \in Nat : m * n \in Nat
  OBVIOUS
<1> QED BY <1>2, <1>3 DEF HitBound

LEMMA UptoBounds ==
  ASSUME NEW bound \in Nat, NEW n \in Nat
  PROVE  Upto(bound, n) \in 0 .. bound /\ (n >= bound <=> Upto(bound, n) = bound)
BY DEF Upto

(***************************************************************************)
(* TypeOK is inductive once the attempts of a request that has not called  *)
(* yet are bounded too.                                                    *)
(***************************************************************************)
Asking == {"is_open", "opened_at", "try_acquire", "get_project"}

Typed ==
  /\ TypeOK
  /\ \A q \in Requests : req[q].step \in Asking => req[q].tries < MaxAttempts

\* A request that only moves to another step of the same source.
LEMMA GotoTyped ==
  ASSUME Typed, NEW q \in Requests, NEW to \in Steps, Goto(q, to),
         req[q].step \notin {"idle", "next"},
         to \in Asking => req[q].step \in Asking
  PROVE  /\ req' \in [Requests -> Request]
         /\ \A p \in Requests :
              /\ req'[p].step \in {"idle", "next"} \/ req'[p].source # NoSource
              /\ req'[p].step \in Asking => req'[p].tries < MaxAttempts
         /\ req'[q] = [req[q] EXCEPT !.step = to]
         /\ \A p \in Requests \ {q} : req'[p] = req[p]
<1>1. req \in [Requests -> Request]
  BY DEF Typed, TypeOK
<1>2. req[q] \in Request /\ req[q].source # NoSource
  BY <1>1 DEF Typed, TypeOK, At
<1>3. req' = [req EXCEPT ![q] = [req[q] EXCEPT !.step = to]]
  BY <1>1 DEF Goto
<1>4. [req[q] EXCEPT !.step = to] \in Request
  BY <1>2 DEF Request
<1>5. /\ [req[q] EXCEPT !.step = to].source = req[q].source
      /\ [req[q] EXCEPT !.step = to].tries = req[q].tries
      /\ [req[q] EXCEPT !.step = to].step = to
  BY <1>2 DEF Request
<1>6. /\ req'[q] = [req[q] EXCEPT !.step = to]
      /\ \A p \in Requests \ {q} : req'[p] = req[p]
      /\ req' \in [Requests -> Request]
  BY <1>1, <1>3, <1>4
<1>7. ASSUME NEW p \in Requests
      PROVE  /\ req'[p].step \in {"idle", "next"} \/ req'[p].source # NoSource
             /\ req'[p].step \in Asking => req'[p].tries < MaxAttempts
  <2>1. CASE p = q
    BY <2>1, <1>2, <1>5, <1>6 DEF Typed
  <2>2. CASE p # q
    BY <2>2, <1>6 DEF Typed, TypeOK, At
  <2> QED BY <2>1, <2>2
<1> QED BY <1>6, <1>7

LEMMA KeysTyped ==
  ASSUME GuardTypeOK, NEW s \in Sources
  PROVE  /\ IncrUsed(s) => used' \in [Sources -> 0 .. MaxCalls + 1]
         /\ IncrFailures(s) => failures' \in [Sources -> 0 .. Threshold]
         /\ SetOpen(s) => open' \subseteq Sources
         /\ SetOpenedAt(s) => opened' \in [Sources -> 0 .. Cooldown \cup {Never}]
         /\ DeleteKeys(s) => /\ open' \subseteq Sources
                            /\ failures' \in [Sources -> 0 .. Threshold]
                            /\ opened' \in [Sources -> 0 .. Cooldown \cup {Never}]
<1>1. MaxCalls + 1 \in Nat /\ Threshold \in Nat /\ Cooldown \in Nat
  BY GuardAssumption
<1>2. used[s] + 1 \in Nat /\ failures[s] + 1 \in Nat
  BY <1>1 DEF GuardTypeOK
<1>3. /\ Upto(MaxCalls + 1, used[s] + 1) \in 0 .. MaxCalls + 1
      /\ Upto(Threshold, failures[s] + 1) \in 0 .. Threshold
  BY <1>1, <1>2, UptoBounds
<1>4. IncrUsed(s) => used' \in [Sources -> 0 .. MaxCalls + 1]
  BY <1>3 DEF GuardTypeOK, IncrUsed
<1>5. IncrFailures(s) => failures' \in [Sources -> 0 .. Threshold]
  BY <1>3 DEF GuardTypeOK, IncrFailures
<1>6. 0 \in 0 .. Threshold /\ 0 \in 0 .. Cooldown
  BY <1>1
<1> QED BY <1>4, <1>5, <1>6 DEF GuardTypeOK, SetOpen, SetOpenedAt, DeleteKeys

LEMMA CalledTyped ==
  ASSUME hits \in [Sources -> 0 .. HitBound + 1], NEW s \in Sources, Called(s)
  PROVE  hits' \in [Sources -> 0 .. HitBound + 1]
<1>1. HitBound + 1 \in Nat /\ hits[s] + 1 \in Nat
  BY HitBoundType
<1>2. Upto(HitBound + 1, hits[s] + 1) \in 0 .. HitBound + 1
  BY <1>1, UptoBounds
<1>3. 0 \in 0 .. HitBound + 1
  BY <1>1
<1> QED BY <1>2, <1>3 DEF Called

\* Time changes no type.
LEMMA TimeTyped ==
  ASSUME GuardTypeOK, Tick \/ NewWindow
  PROVE  GuardTypeOK'
<1>1. Cooldown \in Nat /\ MaxCalls + 1 \in Nat
  BY GuardAssumption
<1>2. CASE Tick
  <2>1. ASSUME NEW s \in Sources, opened[s] # Never
        PROVE  Upto(Cooldown, opened[s] + 1) \in 0 .. Cooldown
    <3>1. opened[s] + 1 \in Nat
      BY <2>1, <1>1 DEF GuardTypeOK
    <3> QED BY <3>1, <1>1, UptoBounds
  <2>2. opened' \in [Sources -> 0 .. Cooldown \cup {Never}]
    BY <2>1, <1>2 DEF Tick
  <2> QED BY <2>2, <1>2 DEF GuardTypeOK, Tick
<1>3. CASE NewWindow
  BY <1>3, <1>1 DEF GuardTypeOK, NewWindow
<1> QED BY <1>2, <1>3

LEMMA TypedInit == Init => Typed
<1> SUFFICES ASSUME Init PROVE Typed
  OBVIOUS
<1>1. 0 \in 0 .. HitBound + 1 /\ 0 \in 0 .. Threshold /\ 0 \in 0 .. MaxCalls + 1 /\ 0 \in 0 .. MaxAttempts
  BY HitBoundType, GuardAssumption, AcquisitionAssumption
<1>2. Idle \in Request /\ Idle.step = "idle"
  BY <1>1 DEF Idle, Request, Steps
<1>3. GuardTypeOK
  BY <1>1 DEF Init, GuardInit, GuardTypeOK
<1>4. req \in [Requests -> Request] /\ \A q \in Requests : req[q].step = "idle"
  BY <1>2 DEF Init
<1>5. hits \in [Sources -> 0 .. HitBound + 1] /\ torn \in [Sources -> BOOLEAN]
  BY <1>1 DEF Init
<1> QED BY <1>3, <1>4, <1>5 DEF Typed, TypeOK, At, Asking

\* What a step leaves typed and bounded, part by part.
RequestsTyped ==
  /\ req \in [Requests -> Request]
  /\ \A p \in Requests :
       /\ req[p].step \in {"idle", "next"} \/ req[p].source # NoSource
       /\ req[p].step \in Asking => req[p].tries < MaxAttempts

LEMMA TypedParts ==
  Typed <=> /\ GuardTypeOK
            /\ RequestsTyped
            /\ hits \in [Sources -> 0 .. HitBound + 1]
            /\ torn \in [Sources -> BOOLEAN]
BY DEF Typed, TypeOK, RequestsTyped, At, Asking

\* Replacing one request's progress by another of its type.
LEMMA ReplacedTyped ==
  ASSUME RequestsTyped, NEW q \in Requests, NEW r \in Request,
         req' = [req EXCEPT ![q] = r],
         r.step \in {"idle", "next"} \/ r.source # NoSource,
         r.step \in Asking => r.tries < MaxAttempts
  PROVE  RequestsTyped'
<1>1. req' \in [Requests -> Request]
  BY DEF RequestsTyped
<1>2. ASSUME NEW p \in Requests
      PROVE  /\ req'[p].step \in {"idle", "next"} \/ req'[p].source # NoSource
             /\ req'[p].step \in Asking => req'[p].tries < MaxAttempts
  BY DEF RequestsTyped
<1> QED BY <1>1, <1>2 DEF RequestsTyped

LEMMA TypedStep == Typed /\ [Next]_vars => Typed'
<1> SUFFICES ASSUME Typed, [Next]_vars PROVE Typed'
  OBVIOUS
<1>1. GuardTypeOK /\ RequestsTyped
      /\ hits \in [Sources -> 0 .. HitBound + 1] /\ torn \in [Sources -> BOOLEAN]
  BY TypedParts
<1>2. NoSource \notin Sources /\ MaxAttempts \in Nat \ {0}
  BY AcquisitionAssumption
<1>3. ASSUME NEW q \in Requests
      PROVE  /\ req[q] \in Request
             /\ req[q].step \notin {"idle", "next"} => req[q].source \in Sources
             /\ req[q].tries \in 0 .. MaxAttempts
  BY <1>1 DEF RequestsTyped, Request
\* A step that only moves a request on.
<1>4. ASSUME NEW q \in Requests, NEW to \in Steps, Goto(q, to),
             req[q].step \notin {"idle", "next"}, to \in Asking => req[q].step \in Asking
      PROVE  RequestsTyped'
  BY <1>4, GotoTyped DEF RequestsTyped
<1>5. ASSUME NEW q \in Requests, NEW todo \in SUBSET Sources, Begin(q, todo)
      PROVE  Typed'
  <2>1. [req[q] EXCEPT !.step = "next", !.todo = todo] \in Request
    BY <1>3 DEF Request, Steps
  <2>2. req' = [req EXCEPT ![q] = [req[q] EXCEPT !.step = "next", !.todo = todo]]
    BY <1>5, <1>1 DEF Begin, RequestsTyped
  <2>3. [req[q] EXCEPT !.step = "next", !.todo = todo].step = "next"
    BY <1>3 DEF Request
  <2>4. RequestsTyped'
    BY <2>1, <2>2, <2>3, <1>1, ReplacedTyped DEF Asking
  <2> QED BY <1>5, <1>1, <2>4 DEF Begin, guardVars, history, Typed, TypeOK, GuardTypeOK, RequestsTyped, At, Asking
<1>6. ASSUME NEW q \in Requests, NEW s \in Sources, NextSource(q, s)
      PROVE  Typed'
  <2> DEFINE r == [req[q] EXCEPT !.step = "is_open", !.source = s, !.todo = @ \ {s}, !.tries = 0]
  <2>1. /\ r \in Request
        /\ r.source = s /\ r.tries = 0 /\ s # NoSource /\ r.tries < MaxAttempts
    <3>1. req[q].todo \ {s} \in SUBSET Sources /\ 0 \in 0 .. MaxAttempts
      BY <1>2, <1>3 DEF Request
    <3>2. r \in Request
      BY <3>1, <1>3 DEF Request, Steps
    <3>3. r.source = s /\ r.tries = 0
      BY <1>3 DEF Request
    <3>4. s # NoSource /\ 0 < MaxAttempts
      BY <1>2
    <3> QED BY <3>2, <3>3, <3>4
  <2>2. req' = [req EXCEPT ![q] = r]
    BY <1>6, <1>1 DEF NextSource, RequestsTyped
  <2>3. RequestsTyped'
    BY <2>1, <2>2, <1>1, ReplacedTyped
  <2> QED BY <1>6, <1>1, <2>3 DEF NextSource, guardVars, history, Typed, TypeOK, GuardTypeOK, RequestsTyped, At, Asking
<1>7. ASSUME NEW q \in Requests, Commit(q) \/ Abort(q)
      PROVE  Typed'
  <2>1. Idle \in Request /\ Idle.step = "idle"
    BY <1>2 DEF Idle, Request, Steps
  <2>2. req' = [req EXCEPT ![q] = Idle]
    BY <1>7 DEF Commit, Abort
  <2>3. RequestsTyped'
    BY <2>1, <2>2, <1>1, ReplacedTyped DEF Asking
  <2>4. torn' \in [Sources -> BOOLEAN]
    <3>1. CASE Commit(q)
      BY <3>1, <1>1 DEF Commit, history
    <3>2. CASE Abort(q)
      BY <3>2, <1>1 DEF Abort
    <3> QED BY <1>7, <3>1, <3>2
  <2>5. UNCHANGED <<guardVars, hits>>
    BY <1>7 DEF Commit, Abort, history
  <2> QED BY <2>5, <1>1, <2>3, <2>4 DEF guardVars, Typed, TypeOK, GuardTypeOK, RequestsTyped, At, Asking
<1>8. ASSUME NEW q \in Requests, ReadState(q) \/ ReadOpenedAt(q)
      PROVE  Typed'
  <2>1. RequestsTyped'
    BY <1>8, <1>4 DEF ReadState, ReadOpenedAt, At, Steps, Asking
  <2> QED BY <1>8, <1>1, <2>1 DEF ReadState, ReadOpenedAt, guardVars, history, Typed, TypeOK, GuardTypeOK, RequestsTyped, At, Asking
<1>9. ASSUME NEW q \in Requests, TryAcquire(q)
      PROVE  Typed'
  <2>1. RequestsTyped'
    BY <1>9, <1>4 DEF TryAcquire, At, Steps, Asking
  <2>2. used' \in [Sources -> 0 .. MaxCalls + 1]
    BY <1>9, <1>1, <1>3, KeysTyped DEF TryAcquire, At
  <2> QED BY <1>9, <1>1, <2>1, <2>2 DEF TryAcquire, history, Typed, TypeOK, GuardTypeOK, RequestsTyped, At, Asking
<1>10. ASSUME NEW q \in Requests, GetProject(q)
      PROVE  Typed'
  <2>1. Called(req[q].source) /\ req[q].step = "get_project" /\ UNCHANGED <<guardVars, torn>>
    BY <1>10 DEF GetProject, GetProjectSucceeds, GetProjectFailsForGood, GetProjectFailsForNow, At
  <2>2. hits' \in [Sources -> 0 .. HitBound + 1]
    BY <2>1, <1>1, <1>3, CalledTyped
  <2>3. RequestsTyped'
    <3>1. CASE GetProjectSucceeds(q) \/ GetProjectFailsForGood(q)
      BY <3>1, <1>4 DEF GetProjectSucceeds, GetProjectFailsForGood, At, Steps, Asking
    <3>2. CASE GetProjectFailsForNow(q)
      <4> DEFINE r == [req[q] EXCEPT !.tries = @ + 1,
                         !.step = IF req[q].tries + 1 < MaxAttempts THEN @ ELSE "incr"]
      <4>1. req[q].tries < MaxAttempts
        BY <2>1, <1>1 DEF RequestsTyped, Asking
      <4>2. req[q].tries + 1 \in 0 .. MaxAttempts
        BY <4>1, <1>2, <1>3
      <4>3. /\ r \in Request /\ r.source = req[q].source /\ r.tries = req[q].tries + 1
            /\ r.step = IF req[q].tries + 1 < MaxAttempts THEN "get_project" ELSE "incr"
        BY <4>2, <2>1, <1>3 DEF Request, Steps
      <4>4. req' = [req EXCEPT ![q] = r]
        BY <3>2, <1>1 DEF GetProjectFailsForNow, RequestsTyped
      <4>5. r.source # NoSource /\ (r.step \in Asking => r.tries < MaxAttempts)
        BY <4>3, <2>1, <1>2, <1>3 DEF Asking
      <4> HIDE DEF r
      <4> QED BY <4>3, <4>4, <4>5, <1>1, ReplacedTyped
    <3> QED BY <1>10, <3>1, <3>2 DEF GetProject
  <2> QED BY <1>1, <2>1, <2>2, <2>3 DEF guardVars, Typed, TypeOK, GuardTypeOK, RequestsTyped, At, Asking
<1>11. ASSUME NEW q \in Requests, RecordSuccess(q)
      PROVE  Typed'
  <2>1. req[q].source \in Sources
    BY <1>11, <1>3 DEF RecordSuccess, At
  <2>2. /\ [req[q] EXCEPT !.step = "next"] \in Request
        /\ [req[q] EXCEPT !.step = "next"].step = "next"
    BY <1>3 DEF Request, Steps
  <2>3. ASSUME NEW p \in Requests
        PROVE  /\ [req[p] EXCEPT !.intact = FALSE] \in Request
               /\ [req[p] EXCEPT !.intact = FALSE].step = req[p].step
               /\ [req[p] EXCEPT !.intact = FALSE].source = req[p].source
               /\ [req[p] EXCEPT !.intact = FALSE].tries = req[p].tries
    BY <1>3 DEF Request
  <2>4. ASSUME NEW p \in Requests
        PROVE  /\ req'[p] \in Request
               /\ req'[p].step \in {"idle", "next"} \/ req'[p].source # NoSource
               /\ req'[p].step \in Asking => req'[p].tries < MaxAttempts
    <3>1. req'[p] = IF p = q THEN [req[q] EXCEPT !.step = "next"]
                    ELSE IF p \in Opening(req[q].source) THEN [req[p] EXCEPT !.intact = FALSE]
                    ELSE req[p]
      BY <1>11 DEF RecordSuccess
    <3>2. CASE p = q
      BY <3>1, <3>2, <2>2 DEF Asking
    <3>3. CASE p # q
      BY <3>1, <3>3, <2>3, <1>1, <1>3 DEF RequestsTyped
    <3> QED BY <3>2, <3>3
  <2>5. RequestsTyped'
    <3>1. req' = [p \in Requests |-> req'[p]]
      BY <1>11 DEF RecordSuccess
    <3> QED BY <3>1, <2>4 DEF RequestsTyped
  <2>6. /\ hits' \in [Sources -> 0 .. HitBound + 1]
        /\ torn' \in [Sources -> BOOLEAN]
    <3>1. 0 \in 0 .. HitBound + 1
      BY HitBoundType
    <3> QED BY <3>1, <1>1, <1>11, <2>1 DEF RecordSuccess
  <2>7. open' \subseteq Sources /\ failures' \in [Sources -> 0 .. Threshold]
        /\ opened' \in [Sources -> 0 .. Cooldown \cup {Never}] /\ used' = used
    BY <1>1, <1>11, <2>1, KeysTyped DEF RecordSuccess
  <2> QED BY <1>1, <2>5, <2>6, <2>7 DEF Typed, TypeOK, GuardTypeOK, RequestsTyped, At, Asking
<1>12. ASSUME NEW q \in Requests, CountFailure(q)
      PROVE  Typed'
  <2> DEFINE to == IF failures[req[q].source] + 1 >= Threshold THEN "set_open" ELSE "next"
             r  == [req[q] EXCEPT !.intact = TRUE, !.step = to]
  <2>1. req[q].source \in Sources /\ req[q].step = "incr"
    BY <1>12, <1>3 DEF CountFailure, At
  <2>2. r \in Request /\ r.source = req[q].source /\ r.step = to
    BY <1>3 DEF Request, Steps
  <2>3. req' = [req EXCEPT ![q] = r]
    BY <1>12, <1>1 DEF CountFailure, RequestsTyped
  <2>4. RequestsTyped'
    <3>1. r.source # NoSource /\ r.step \notin Asking
      BY <2>1, <2>2, <1>2 DEF Asking
    <3> HIDE DEF r
    <3> QED BY <2>2, <2>3, <3>1, <1>1, ReplacedTyped
  <2>5. failures' \in [Sources -> 0 .. Threshold]
    BY <1>12, <1>1, <2>1, KeysTyped DEF CountFailure
  <2> QED BY <1>12, <1>1, <2>4, <2>5 DEF CountFailure, history, Typed, TypeOK, GuardTypeOK, RequestsTyped, At, Asking
<1>13. ASSUME NEW q \in Requests, MarkOpen(q) \/ StampOpen(q)
      PROVE  Typed'
  <2>1. req[q].source \in Sources /\ req[q].step \in {"set_open", "set_opened_at"}
    BY <1>13, <1>3 DEF MarkOpen, StampOpen, At
  <2>2. RequestsTyped'
    BY <1>13, <2>1, <1>4 DEF MarkOpen, StampOpen, Steps, Asking
  <2>3. CASE MarkOpen(q)
    <3>1. open' \subseteq Sources
      BY <2>3, <2>1, <1>1, KeysTyped DEF MarkOpen
    <3> QED BY <2>3, <3>1, <1>1, <2>2 DEF MarkOpen, history, Typed, TypeOK, GuardTypeOK, RequestsTyped, At, Asking
  <2>4. CASE StampOpen(q)
    <3>1. opened' \in [Sources -> 0 .. Cooldown \cup {Never}]
      BY <2>4, <2>1, <1>1, KeysTyped DEF StampOpen
    <3>2. torn' \in [Sources -> BOOLEAN]
      BY <2>4, <1>1, <1>3 DEF StampOpen, Request
    <3> QED BY <2>4, <3>1, <3>2, <1>1, <2>2 DEF StampOpen, Typed, TypeOK, GuardTypeOK, RequestsTyped, At, Asking
  <2> QED BY <1>13, <2>3, <2>4
<1>14. CASE Aging
  <2>1. GuardTypeOK'
    BY <1>14, <1>1, TimeTyped DEF Aging
  <2>2. hits' \in [Sources -> 0 .. HitBound + 1]
    <3>1. 0 \in 0 .. HitBound + 1
      BY HitBoundType
    <3> QED BY <3>1, <1>14, <1>1 DEF Aging
  <2> QED BY <1>14, <2>1, <2>2, <1>1 DEF Aging, Typed, TypeOK, RequestsTyped, At, Asking
<1>15. CASE WindowEnds
  <2>1. GuardTypeOK'
    BY <1>15, <1>1, TimeTyped DEF WindowEnds
  <2> QED BY <1>15, <2>1, <1>1 DEF WindowEnds, history, Typed, TypeOK, RequestsTyped, At, Asking
<1>16. CASE UNCHANGED vars
  BY <1>16, <1>1 DEF vars, guardVars, history, Typed, TypeOK, GuardTypeOK, RequestsTyped, At, Asking
<1> QED BY <1>5, <1>6, <1>7, <1>8, <1>9, <1>10, <1>11, <1>12, <1>13, <1>14, <1>15, <1>16
        DEF Next, Proceed

\* Keys and requests keep their types, and a request asks a source only while it has
\* attempts left: execute_get_project's retries are bounded however requests interleave.
THEOREM TypeCorrect == Spec => []TypeOK
<1>1. Typed => TypeOK
  BY DEF Typed
<1> QED BY TypedInit, TypedStep, <1>1, PTL DEF Spec

(***************************************************************************)
(* KeysAgree.  While a breaker is being opened its keys are apart; what is *)
(* known of a request that opens it, and that no success has overtaken, is *)
(* that the failures are at the threshold and, once marked, that they stay *)
(* marked.                                                                 *)
(***************************************************************************)
Opens(q, s) == req[q].source = s /\ req[q].step \in {"set_open", "set_opened_at"}

Together(s) ==
  /\ s \in open <=> failures[s] = Threshold
  /\ s \in open <=> opened[s] # Never

Settled(s) == (\A q \in Requests : ~Opens(q, s)) /\ ~torn[s] => Together(s)

Underway(q, s) ==
  Opens(q, s) /\ req[q].intact =>
    /\ failures[s] = Threshold
    /\ req[q].step = "set_opened_at" => s \in open

Keys ==
  /\ Typed
  /\ \A s \in Sources : Settled(s)
  /\ \A q \in Requests, s \in Sources : Underway(q, s)

LEMMA KeysAgreeMeans == Keys => KeysAgree
BY DEF Keys, Settled, Together, Opens, KeysAgree, Opening

\* A step that leaves the keys of s alone and ends no opening of s unnoticed.
LEMMA SettledStays ==
  ASSUME Keys, NEW s \in Sources,
         s \in open' <=> s \in open,
         failures'[s] = failures[s],
         opened'[s] = Never <=> opened[s] = Never,
         torn[s] => torn'[s],
         \A q \in Requests : Opens(q, s) => Opens(q, s)' \/ torn'[s]
  PROVE  Settled(s)'
BY DEF Keys, Settled, Together

\* A step that leaves the keys of s and the request alone.
LEMMA UnderwayStays ==
  ASSUME Keys, NEW s \in Sources, NEW q \in Requests,
         s \in open => s \in open',
         failures'[s] = failures[s],
         Opens(q, s)' /\ req'[q].intact =>
           /\ Opens(q, s) /\ req[q].intact
           /\ req'[q].step = "set_opened_at" => req[q].step = "set_opened_at"
  PROVE  Underway(q, s)'
BY DEF Keys, Underway

LEMMA KeysInit == Init => Keys
<1> SUFFICES ASSUME Init PROVE Keys
  OBVIOUS
<1>1. ASSUME NEW s \in Sources
      PROVE  Together(s)
  BY GuardAssumption DEF Init, GuardInit, Together
<1>2. ASSUME NEW q \in Requests
      PROVE  req[q].step = "idle"
  BY DEF Init, Idle
<1> QED BY <1>1, <1>2, TypedInit DEF Keys, Settled, Underway, Opens

\* The steps of a request that is not opening a breaker, before or after.
LEMMA KeysQuiet ==
  ASSUME Keys, Typed',
         UNCHANGED <<open, failures, torn>>,
         \A s \in Sources : opened'[s] = Never <=> opened[s] = Never,
         \A p \in Requests : \/ req'[p] = req[p]
                             \/ /\ req[p].step \notin {"set_open", "set_opened_at"}
                                /\ req'[p].step \notin {"set_open", "set_opened_at"}
  PROVE  Keys'
<1>1. ASSUME NEW s \in Sources
      PROVE  Settled(s)'
  BY <1>1, SettledStays DEF Opens
<1>2. ASSUME NEW s \in Sources, NEW q \in Requests
      PROVE  Underway(q, s)'
  BY <1>2, UnderwayStays DEF Opens
<1> QED BY <1>1, <1>2 DEF Keys

LEMMA KeysStep == Keys /\ [Next]_vars => Keys'
<1> SUFFICES ASSUME Keys, [Next]_vars PROVE Keys'
  OBVIOUS
<1>1. Typed /\ Typed'
  BY TypedStep DEF Keys
<1>2. req \in [Requests -> Request] /\ req' \in [Requests -> Request]
  BY <1>1 DEF Typed, TypeOK
<1>3. ASSUME NEW q \in Requests, req[q].step \notin {"idle", "next"}
      PROVE  req[q].source \in Sources
  BY <1>1, <1>2, <1>3 DEF Typed, TypeOK, At, Request
<1>4. /\ failures \in [Sources -> 0 .. Threshold]
      /\ opened \in [Sources -> 0 .. Cooldown \cup {Never}]
      /\ torn \in [Sources -> BOOLEAN] /\ open \subseteq Sources
      /\ Threshold \in Nat \ {0} /\ Never \notin Int
  BY <1>1, GuardAssumption DEF Typed, TypeOK, GuardTypeOK
\* A request that goes from one step to another, neither of them of an opening.
<1>move. ASSUME NEW q \in Requests, NEW to \in Steps \ {"set_open", "set_opened_at"}, Goto(q, to),
              req[q].step \notin {"set_open", "set_opened_at"},
              UNCHANGED <<open, failures, opened, torn>>
       PROVE  Keys'
  <2>1. req'[q].step = to /\ \A p \in Requests \ {q} : req'[p] = req[p]
    BY <1>move, <1>2 DEF Goto, Request
  <2> QED BY <2>1, <1>move, <1>1, KeysQuiet
<1>5. ASSUME NEW q \in Requests, NEW todo \in SUBSET Sources, Begin(q, todo)
      PROVE  Keys'
  BY <1>5, <1>1, <1>2, KeysQuiet DEF Begin, At, guardVars, history
<1>6. ASSUME NEW q \in Requests, NEW s \in Sources, NextSource(q, s)
      PROVE  Keys'
  BY <1>6, <1>1, <1>2, KeysQuiet DEF NextSource, At, guardVars, history
<1>7. ASSUME NEW q \in Requests, ReadState(q) \/ ReadOpenedAt(q) \/ TryAcquire(q)
      PROVE  Keys'
  BY <1>7, <1>move DEF ReadState, ReadOpenedAt, TryAcquire, Steps, At, guardVars, history
<1>8. ASSUME NEW q \in Requests, GetProject(q)
      PROVE  Keys'
  <2>1. CASE GetProjectSucceeds(q) \/ GetProjectFailsForGood(q)
    BY <2>1, <1>move DEF GetProjectSucceeds, GetProjectFailsForGood, Steps, At, guardVars
  <2>2. CASE GetProjectFailsForNow(q)
    <3>1. /\ req'[q].step \in {"get_project", "incr"} /\ req[q].step = "get_project"
          /\ \A p \in Requests \ {q} : req'[p] = req[p]
      BY <2>2, <1>2 DEF GetProjectFailsForNow, At, Request
    <3> QED BY <3>1, <2>2, <1>1, KeysQuiet DEF GetProjectFailsForNow, guardVars
  <2> QED BY <1>8, <2>1, <2>2 DEF GetProject
<1>9. ASSUME NEW q \in Requests, Commit(q)
      PROVE  Keys'
  BY <1>9, <1>1, <1>2, KeysQuiet DEF Commit, Idle, At, guardVars, history
<1>10. ASSUME NEW q \in Requests, Abort(q)
       PROVE  Keys'
  <2>1. /\ UNCHANGED <<open, failures, opened>>
        /\ req'[q].step = "idle" /\ \A p \in Requests \ {q} : req'[p] = req[p]
    BY <1>10, <1>2 DEF Abort, Idle, guardVars
  <2>2. ASSUME NEW s \in Sources
        PROVE  (torn[s] => torn'[s]) /\ (Opens(q, s) => torn'[s])
    BY <1>10, <1>4 DEF Abort, Opening, Opens
  <2>3. ASSUME NEW s \in Sources
        PROVE  Settled(s)'
    BY <2>1, <2>2, SettledStays DEF Opens
  <2>4. ASSUME NEW s \in Sources, NEW p \in Requests
        PROVE  Underway(p, s)'
    BY <2>1, UnderwayStays DEF Opens
  <2> QED BY <2>3, <2>4, <1>1 DEF Keys
<1>11. ASSUME NEW q \in Requests, RecordSuccess(q)
       PROVE  Keys'
  <2> DEFINE t == req[q].source
  <2>1. t \in Sources /\ req[q].step = "delete"
    BY <1>11, <1>3 DEF RecordSuccess, At
  <2>2. /\ open' = open \ {t}
        /\ failures'[t] = 0 /\ opened'[t] = Never
        /\ \A s \in Sources \ {t} : failures'[s] = failures[s] /\ opened'[s] = opened[s]
    BY <1>11, <1>4, <2>1 DEF RecordSuccess, DeleteKeys
  <2>3. /\ torn'[t] = (Opening(t) # {})
        /\ \A s \in Sources \ {t} : torn'[s] = torn[s]
    BY <1>11, <1>4, <2>1 DEF RecordSuccess
  <2>4. /\ req'[q].step = "next"
        /\ \A p \in Requests \ {q} :
             IF Opens(p, t) THEN req'[p] = [req[p] EXCEPT !.intact = FALSE]
             ELSE req'[p] = req[p]
    BY <1>11, <1>2 DEF RecordSuccess, Opening, Opens, Request
  <2>5. ASSUME NEW p \in Requests \ {q}
        PROVE  /\ req'[p].step = req[p].step /\ req'[p].source = req[p].source
               /\ Opens(p, t) => ~req'[p].intact
               /\ ~Opens(p, t) => req'[p] = req[p]
    BY <2>4, <1>2 DEF Request
  <2>6. ASSUME NEW s \in Sources
        PROVE  Settled(s)'
    <3>1. CASE s = t
      <4>1. CASE Opening(t) = {}
        <5>1. Together(s)'
          BY <3>1, <2>1, <2>2, <1>4 DEF Together
        <5> QED BY <5>1 DEF Settled
      <4>2. CASE Opening(t) # {}
        <5>1. torn'[s]
          BY <3>1, <4>2, <2>3
        <5> QED BY <5>1 DEF Settled
      <4> QED BY <4>1, <4>2
    <3>2. CASE s # t
      <4>1. \A p \in Requests : Opens(p, s) => Opens(p, s)'
        BY <2>1, <2>5 DEF Opens
      <4> QED BY <3>2, <2>2, <2>3, <4>1, SettledStays
    <3> QED BY <3>1, <3>2
  <2>7. ASSUME NEW s \in Sources, NEW p \in Requests
        PROVE  Underway(p, s)'
    <3>1. CASE p = q
      BY <3>1, <2>4 DEF Underway, Opens
    <3>2. CASE p # q /\ s = t
      BY <3>2, <2>5 DEF Underway, Opens
    <3>3. CASE p # q /\ s # t
      BY <3>3, <2>2, <2>5, UnderwayStays DEF Opens
    <3> QED BY <3>1, <3>2, <3>3
  <2> QED BY <2>6, <2>7, <1>1 DEF Keys
<1>12. ASSUME NEW q \in Requests, CountFailure(q)
       PROVE  Keys'
  <2> DEFINE t == req[q].source
  <2>1. t \in Sources /\ req[q].step = "incr"
    BY <1>12, <1>3 DEF CountFailure, At
  <2>2. /\ UNCHANGED <<open, opened, torn>>
        /\ failures'[t] = Upto(Threshold, failures[t] + 1)
        /\ \A s \in Sources \ {t} : failures'[s] = failures[s]
    BY <1>12, <1>4, <2>1 DEF CountFailure, IncrFailures, history
  <2>3. failures[t] \in Nat /\ failures[t] <= Threshold
    BY <1>4, <2>1
  <2>4. \A p \in Requests \ {q} : req'[p] = req[p]
    BY <1>12, <1>2 DEF CountFailure
  <2>5. /\ req'[q].source = t /\ req'[q].intact
        /\ req'[q].step = IF failures[t] + 1 >= Threshold THEN "set_open" ELSE "next"
    BY <1>12, <1>2 DEF CountFailure, Request
  <2>6. /\ failures[t] + 1 >= Threshold => failures'[t] = Threshold
        /\ failures[t] + 1 < Threshold => failures[t] # Threshold /\ failures'[t] # Threshold
    BY <2>2, <2>3, <1>4 DEF Upto
  <2>7. ASSUME NEW s \in Sources
        PROVE  Settled(s)'
    <3>1. CASE s # t
      BY <3>1, <2>1, <2>2, <2>4, SettledStays DEF Opens
    <3>2. CASE s = t /\ failures[t] + 1 >= Threshold
      BY <3>2, <2>5 DEF Settled, Opens
    <3>3. CASE s = t /\ ~(failures[t] + 1 >= Threshold)
      <4>1. \A p \in Requests : Opens(p, s)' <=> Opens(p, s)
        BY <3>3, <2>1, <2>4, <2>5 DEF Opens
      <4>2. failures[s] # Threshold /\ failures'[s] # Threshold
        BY <3>3, <2>3, <2>6, <1>4
      <4>3. Settled(s)
        BY DEF Keys
      <4> QED BY <3>3, <4>1, <4>2, <4>3, <2>2 DEF Settled, Together
    <3> QED BY <3>1, <3>2, <3>3
  <2>8. ASSUME NEW s \in Sources, NEW p \in Requests
        PROVE  Underway(p, s)'
    <3>1. CASE p = q
      BY <3>1, <2>5, <2>6 DEF Underway, Opens
    <3>2. CASE p # q
      <4>1. failures[s] = Threshold => failures'[s] = Threshold
        BY <2>2, <2>3, <2>6, <1>4
      <4> QED BY <3>2, <4>1, <2>2, <2>4 DEF Keys, Underway, Opens
    <3> QED BY <3>1, <3>2
  <2> QED BY <2>7, <2>8, <1>1 DEF Keys
<1>13. ASSUME NEW q \in Requests, MarkOpen(q)
       PROVE  Keys'
  <2> DEFINE t == req[q].source
  <2>1. t \in Sources /\ req[q].step = "set_open"
    BY <1>13, <1>3 DEF MarkOpen, At
  <2>2. open' = open \cup {t} /\ UNCHANGED <<failures, opened, torn>>
    BY <1>13 DEF MarkOpen, SetOpen, history
  <2>3. /\ req'[q].source = t /\ req'[q].intact = req[q].intact /\ req'[q].step = "set_opened_at"
        /\ \A p \in Requests \ {q} : req'[p] = req[p]
    BY <1>13, <1>2 DEF MarkOpen, Goto, Request
  <2>4. ASSUME NEW s \in Sources
        PROVE  Settled(s)'
    <3>1. CASE s = t
      BY <3>1, <2>3 DEF Settled, Opens
    <3>2. CASE s # t
      BY <3>2, <2>2, <2>3, SettledStays DEF Opens
    <3> QED BY <3>1, <3>2
  <2>5. ASSUME NEW s \in Sources, NEW p \in Requests
        PROVE  Underway(p, s)'
    BY <2>1, <2>2, <2>3 DEF Keys, Underway, Opens
  <2> QED BY <2>4, <2>5, <1>1 DEF Keys
<1>14. ASSUME NEW q \in Requests, StampOpen(q)
       PROVE  Keys'
  <2> DEFINE t == req[q].source
  <2>1. t \in Sources /\ req[q].step = "set_opened_at"
    BY <1>14, <1>3 DEF StampOpen, At
  <2>2. /\ UNCHANGED <<open, failures>>
        /\ opened'[t] = 0 /\ torn'[t] = ~req[q].intact
        /\ \A s \in Sources \ {t} : opened'[s] = opened[s] /\ torn'[s] = torn[s]
    BY <1>14, <1>4, <2>1 DEF StampOpen, SetOpenedAt
  <2>3. /\ req'[q].source = t /\ req'[q].step = "next"
        /\ \A p \in Requests \ {q} : req'[p] = req[p]
    BY <1>14, <1>2 DEF StampOpen, Goto, Request
  <2>4. ASSUME NEW s \in Sources
        PROVE  Settled(s)'
    <3>1. CASE s # t
      BY <3>1, <2>2, <2>3, SettledStays DEF Opens
    <3>2. CASE s = t /\ ~req[q].intact
      BY <3>2, <2>2 DEF Settled
    <3>3. CASE s = t /\ req[q].intact
      <4>1. t \in open /\ failures[t] = Threshold
        BY <3>3, <2>1 DEF Keys, Underway, Opens
      <4> QED BY <3>3, <4>1, <2>2, <1>4 DEF Settled, Together
    <3> QED BY <1>2, <3>1, <3>2, <3>3 DEF Request
  <2>5. ASSUME NEW s \in Sources, NEW p \in Requests
        PROVE  Underway(p, s)'
    BY <2>1, <2>2, <2>3 DEF Keys, Underway, Opens
  <2> QED BY <2>4, <2>5, <1>1 DEF Keys
<1>15. CASE Aging
  <2>1. ASSUME NEW s \in Sources
        PROVE  opened'[s] = Never <=> opened[s] = Never
    <3>1. opened'[s] = IF opened[s] = Never THEN Never ELSE Upto(Cooldown, opened[s] + 1)
      BY <1>15 DEF Aging, Tick
    <3>2. opened[s] # Never => Upto(Cooldown, opened[s] + 1) \in Int
      BY <1>4, GuardAssumption DEF Upto
    <3> QED BY <3>1, <3>2, <1>4
  <2> QED BY <2>1, <1>15, <1>1, KeysQuiet DEF Aging, Tick
<1>16. CASE WindowEnds
  BY <1>16, <1>1, KeysQuiet DEF WindowEnds, NewWindow, history
<1>17. CASE UNCHANGED vars
  BY <1>17, <1>1, KeysQuiet DEF vars, guardVars, history
<1> QED BY <1>5, <1>6, <1>7, <1>8, <1>9, <1>10, <1>11, <1>12, <1>13, <1>14, <1>15, <1>16, <1>17
        DEF Next, Proceed

\* However openings, successes and deaths of requests interleave, the three Redis keys of a
\* breaker agree unless its last opening was cut short (circuit_breaker.py).
THEOREM KeysStayTogether == Spec => []KeysAgree
<1> QED BY KeysInit, KeysStep, KeysAgreeMeans, PTL DEF Spec

(***************************************************************************)
(* LeftAlone.  While a breaker blocks, the calls made since it began to    *)
(* and the attempts still left to requests past the check stay within the  *)
(* attempts of all requests but one: the request that made it block.       *)
(***************************************************************************)
Attempts == Requests \X (1 .. MaxAttempts)

Past(q, s) == req[q].source = s /\ req[q].step \in {"try_acquire", "get_project"}

Left(s) == {a \in Attempts : Past(a[1], s) /\ a[2] > req[a[1]].tries}

CallsBounded(s) ==
  IF Blocked(s) THEN hits[s] + Cardinality(Left(s)) <= HitBound ELSE hits[s] = 0

Bounded == Typed /\ \A s \in Sources : CallsBounded(s)

LEMMA AttemptsFinite ==
  ASSUME NEW S \in SUBSET Attempts
  PROVE  IsFiniteSet(S) /\ Cardinality(S) \in Nat
<1>1. IsFiniteSet(1 .. MaxAttempts)
  BY AcquisitionAssumption, FS_Interval
<1>2. IsFiniteSet(Attempts)
  BY <1>1, AcquisitionAssumption, FS_Product DEF Attempts
<1> QED BY <1>2, FS_Subset, FS_CardinalityType

\* The attempts of all requests but one.
LEMMA AttemptsWithout ==
  ASSUME NEW S \in SUBSET Attempts, NEW q \in Requests, \A a \in S : a[1] # q
  PROVE  Cardinality(S) <= HitBound
<1> DEFINE others == Requests \ {q}
<1>1. IsFiniteSet(1 .. MaxAttempts) /\ Cardinality(1 .. MaxAttempts) = MaxAttempts
  BY AcquisitionAssumption, FS_Interval
<1>2. IsFiniteSet(others) /\ Cardinality(others) = Cardinality(Requests) - 1
  BY AcquisitionAssumption, FS_RemoveElement
<1>3. /\ IsFiniteSet(others \X (1 .. MaxAttempts))
      /\ Cardinality(others \X (1 .. MaxAttempts)) = HitBound
  BY <1>1, <1>2, FS_Product DEF HitBound
<1>4. S \subseteq others \X (1 .. MaxAttempts)
  BY DEF Attempts
<1> QED BY <1>3, <1>4, FS_Subset

LEMMA BoundedMeans == Bounded => LeftAlone
<1> SUFFICES ASSUME Bounded, NEW s \in Sources PROVE hits[s] <= HitBound
  BY DEF LeftAlone
<1>1. Left(s) \subseteq Attempts
  BY DEF Left
<1>2. Cardinality(Left(s)) \in Nat
  BY <1>1, AttemptsFinite
<1>3. hits[s] \in Nat
  BY HitBoundType DEF Bounded, Typed, TypeOK
<1> QED BY <1>2, <1>3, HitBoundType DEF Bounded, CallsBounded

\* No call of s, no request newly past the check while it blocks, and if it only begins to
\* block now, some request is not past the check.
LEMMA BoundedStays ==
  ASSUME Typed, Typed', NEW s \in Sources, CallsBounded(s),
         hits'[s] = IF Blocked(s)' THEN hits[s] ELSE 0,
         Blocked(s) => \A p \in Requests :
                         Past(p, s)' => Past(p, s) /\ req'[p].tries = req[p].tries,
         Blocked(s)' /\ ~Blocked(s) => \E p \in Requests : ~Past(p, s)'
  PROVE  CallsBounded(s)'
<1>1. Left(s) \in SUBSET Attempts /\ Left(s)' \in SUBSET Attempts
  BY DEF Left, Attempts
<1>2. /\ IsFiniteSet(Left(s)) /\ Cardinality(Left(s)) \in Nat
      /\ IsFiniteSet(Left(s)') /\ Cardinality(Left(s)') \in Nat
  BY <1>1, AttemptsFinite
<1>3. hits[s] \in Nat /\ HitBound \in Nat
  BY HitBoundType DEF Typed, TypeOK
<1>4. CASE ~Blocked(s)'
  BY <1>4 DEF CallsBounded
<1>5. CASE Blocked(s)' /\ Blocked(s)
  <2>1. Left(s)' \in SUBSET Left(s)
    BY <1>5 DEF Left, Attempts
  <2>2. Cardinality(Left(s)') <= Cardinality(Left(s))
    BY <2>1, <1>2, FS_Subset
  <2>3. HitBound' = HitBound
    BY DEF HitBound
  <2> QED BY <2>2, <2>3, <1>2, <1>3, <1>5 DEF CallsBounded
<1>6. CASE Blocked(s)' /\ ~Blocked(s)
  <2>1. PICK p \in Requests : ~Past(p, s)'
    BY <1>6
  <2>2. \A a \in Left(s)' : a[1] # p
    BY <2>1 DEF Left
  <2>3. Cardinality(Left(s)') <= HitBound
    BY <1>1, <2>2, AttemptsWithout
  <2>4. HitBound' = HitBound
    BY DEF HitBound
  <2> QED BY <2>3, <2>4, <1>2, <1>3, <1>6 DEF CallsBounded
<1> QED BY <1>4, <1>5, <1>6

\* A call of s while it blocks uses up an attempt of the request that makes it.
LEMMA BoundedCall ==
  ASSUME Typed, NEW q \in Requests, NEW s \in Sources, CallsBounded(s), Called(s),
         req[q].source = s, req[q].step = "get_project",
         UNCHANGED guardVars,
         \A p \in Requests \ {q} : req'[p] = req[p],
         Past(q, s)' => req'[q].tries = req[q].tries + 1
  PROVE  CallsBounded(s)'
<1> DEFINE spent == <<q, req[q].tries + 1>>
<1>1. Left(s) \in SUBSET Attempts /\ Left(s)' \in SUBSET Attempts
  BY DEF Left, Attempts
<1>2. /\ IsFiniteSet(Left(s)) /\ Cardinality(Left(s)) \in Nat
      /\ IsFiniteSet(Left(s)') /\ Cardinality(Left(s)') \in Nat
  BY <1>1, AttemptsFinite
<1>3. hits[s] \in Nat /\ HitBound \in Nat /\ HitBound' = HitBound
  BY HitBoundType DEF Typed, TypeOK, HitBound
<1>4. Blocked(s)' <=> Blocked(s)
  BY DEF Blocked, Cooling, guardVars
<1>5. hits'[s] = IF Blocked(s) THEN Upto(HitBound + 1, hits[s] + 1) ELSE 0
  BY DEF Called, Typed, TypeOK
<1>6. CASE ~Blocked(s)
  BY <1>4, <1>5, <1>6 DEF CallsBounded
<1>7. CASE Blocked(s)
  <2>1. req[q].tries \in Nat /\ req[q].tries < MaxAttempts
    BY DEF Typed, TypeOK, Asking, Request
  <2>2. spent \in Left(s)
    BY <2>1, AcquisitionAssumption DEF Left, Attempts, Past
  <2>3. ASSUME NEW a \in Left(s)'
        PROVE  a \in Left(s) /\ a # spent
    <3>1. /\ a \in Attempts /\ a = <<a[1], a[2]>> /\ a[1] \in Requests /\ a[2] \in 1 .. MaxAttempts
          /\ Past(a[1], s)' /\ a[2] > req'[a[1]].tries
      BY <2>3 DEF Left, Attempts
    <3>2. CASE a[1] = q
      <4>1. a[2] > req[q].tries + 1
        BY <3>1, <3>2
      <4> QED BY <3>1, <3>2, <4>1, <2>1, AcquisitionAssumption DEF Left, Past
    <3>3. CASE a[1] # q
      BY <3>1, <3>3 DEF Left, Past
    <3> QED BY <3>2, <3>3
  <2> HIDE DEF spent
  <2>4. /\ IsFiniteSet(Left(s) \ {spent})
        /\ Cardinality(Left(s) \ {spent}) = Cardinality(Left(s)) - 1
    BY <2>2, <1>2, FS_RemoveElement
  <2>5. Left(s)' \in SUBSET (Left(s) \ {spent})
    BY <2>3
  <2>6. Cardinality(Left(s)') <= Cardinality(Left(s)) - 1
    BY <2>4, <2>5, FS_Subset
  <2>7. hits[s] + Cardinality(Left(s)) <= HitBound
    BY <1>7 DEF CallsBounded
  <2>8. Upto(HitBound + 1, hits[s] + 1) = hits[s] + 1
    BY <2>6, <2>7, <1>2, <1>3 DEF Upto
  <2>9. hits'[s] + Cardinality(Left(s)') <= HitBound
    BY <2>6, <2>7, <2>8, <1>2, <1>3, <1>5, <1>7
  <2> QED BY <2>9, <1>3, <1>4, <1>7 DEF CallsBounded
<1> QED BY <1>6, <1>7

LEMMA BoundedStep == Bounded /\ [Next]_vars => Bounded'
<1> SUFFICES ASSUME Bounded, [Next]_vars, NEW s \in Sources PROVE CallsBounded(s)'
  BY TypedStep DEF Bounded
<1>1. Typed /\ Typed' /\ CallsBounded(s)
  BY TypedStep DEF Bounded
<1>2. req \in [Requests -> Request] /\ req' \in [Requests -> Request] /\ hits \in [Sources -> 0 .. HitBound + 1]
  BY <1>1 DEF Typed, TypeOK
<1>3. /\ open \subseteq Sources /\ opened \in [Sources -> 0 .. Cooldown \cup {Never}]
      /\ Cooldown \in Nat \ {0} /\ Never \notin Int
  BY <1>1, GuardAssumption DEF Typed, TypeOK, GuardTypeOK
\* Nothing is called, the breakers stay, and nobody gets past the check of a blocked one.
<1>4. ASSUME UNCHANGED <<open, opened>>, hits' = hits,
             Blocked(s) => \A p \in Requests :
                             Past(p, s)' => Past(p, s) /\ req'[p].tries = req[p].tries
      PROVE  CallsBounded(s)'
  <2>1. Blocked(s)' <=> Blocked(s)
    BY <1>4 DEF Blocked, Cooling
  <2>2. hits'[s] = IF Blocked(s)' THEN hits[s] ELSE 0
    BY <2>1, <1>1, <1>4 DEF CallsBounded
  <2> QED BY <2>1, <2>2, <1>1, <1>4, BoundedStays
<1>5. ASSUME NEW q \in Requests, NEW todo \in SUBSET Sources, Begin(q, todo)
      PROVE  CallsBounded(s)'
  <2>1. req'[q].step = "next" /\ \A p \in Requests \ {q} : req'[p] = req[p]
    BY <1>5, <1>2 DEF Begin, Request
  <2> QED BY <2>1, <1>4, <1>5 DEF Begin, Past, guardVars, history
<1>6. ASSUME NEW q \in Requests, NEW t \in Sources, NextSource(q, t)
      PROVE  CallsBounded(s)'
  <2>1. req'[q].step = "is_open" /\ \A p \in Requests \ {q} : req'[p] = req[p]
    BY <1>6, <1>2 DEF NextSource, Request
  <2> QED BY <2>1, <1>4, <1>6 DEF NextSource, Past, guardVars, history
<1>7. ASSUME NEW q \in Requests, Commit(q) \/ Abort(q)
      PROVE  CallsBounded(s)'
  <2>1. req'[q].step = "idle" /\ \A p \in Requests \ {q} : req'[p] = req[p]
    BY <1>7, <1>2 DEF Commit, Abort, Idle
  <2> QED BY <2>1, <1>4, <1>7 DEF Commit, Abort, Past, guardVars, history
<1>8. ASSUME NEW q \in Requests, ReadState(q)
      PROVE  CallsBounded(s)'
  <2>1. /\ req'[q].source = req[q].source
        /\ req'[q].step = IF req[q].source \in open THEN "opened_at" ELSE "try_acquire"
        /\ \A p \in Requests \ {q} : req'[p] = req[p]
    BY <1>8, <1>2 DEF ReadState, Goto, Request
  <2>2. Blocked(s) /\ req[q].source = s => ~Past(q, s)'
    BY <2>1 DEF Blocked, Past
  <2> QED BY <2>1, <2>2, <1>4, <1>8 DEF ReadState, Past, guardVars, history
<1>9. ASSUME NEW q \in Requests, ReadOpenedAt(q)
      PROVE  CallsBounded(s)'
  <2>1. /\ req'[q].source = req[q].source
        /\ req'[q].step = IF Cooling(req[q].source) THEN "next" ELSE "try_acquire"
        /\ \A p \in Requests \ {q} : req'[p] = req[p]
    BY <1>9, <1>2 DEF ReadOpenedAt, Goto, Request
  <2>2. Blocked(s) /\ req[q].source = s => ~Past(q, s)'
    BY <2>1 DEF Blocked, Past
  <2> QED BY <2>1, <2>2, <1>4, <1>9 DEF ReadOpenedAt, Past, guardVars, history
<1>10. ASSUME NEW q \in Requests, TryAcquire(q)
       PROVE  CallsBounded(s)'
  <2>1. /\ req'[q].source = req[q].source /\ req'[q].tries = req[q].tries
        /\ \A p \in Requests \ {q} : req'[p] = req[p]
    BY <1>10, <1>2 DEF TryAcquire, Goto, Request
  <2> QED BY <2>1, <1>4, <1>10 DEF TryAcquire, At, Past, history
<1>11. ASSUME NEW q \in Requests, GetProject(q)
       PROVE  CallsBounded(s)'
  <2>1. /\ Called(req[q].source) /\ req[q].step = "get_project" /\ UNCHANGED guardVars
        /\ \A p \in Requests \ {q} : req'[p] = req[p]
        /\ req'[q].source = req[q].source
        /\ req'[q].step = "get_project" => req'[q].tries = req[q].tries + 1
        /\ req'[q].step # "try_acquire"
    BY <1>11, <1>2 DEF GetProject, GetProjectSucceeds, GetProjectFailsForGood,
                       GetProjectFailsForNow, Goto, At, Request
  <2>2. CASE req[q].source = s
    BY <2>1, <2>2, <1>1, BoundedCall DEF Past
  <2>3. CASE req[q].source # s
    <3>1. hits'[s] = hits[s] /\ (Blocked(s)' <=> Blocked(s))
      BY <2>1, <2>3, <1>2 DEF Called, Blocked, Cooling, guardVars
    <3>2. hits'[s] = IF Blocked(s)' THEN hits[s] ELSE 0
      BY <3>1, <1>1 DEF CallsBounded
    <3>3. \A p \in Requests : Past(p, s)' => Past(p, s) /\ req'[p].tries = req[p].tries
      BY <2>1, <2>3 DEF Past
    <3> QED BY <3>1, <3>2, <3>3, <1>1, BoundedStays
  <2> QED BY <2>2, <2>3
<1>12. ASSUME NEW q \in Requests, RecordSuccess(q)
       PROVE  CallsBounded(s)'
  <2>1. req'[q].step = "next"
    BY <1>12, <1>2 DEF RecordSuccess, Request
  <2>2. ASSUME NEW p \in Requests \ {q}
        PROVE  /\ req'[p].step = req[p].step /\ req'[p].source = req[p].source
               /\ req'[p].tries = req[p].tries
    BY <1>12, <1>2 DEF RecordSuccess, Request
  <2>3. \A p \in Requests : Past(p, s)' => Past(p, s) /\ req'[p].tries = req[p].tries
    BY <2>1, <2>2 DEF Past
  <2>4. CASE req[q].source = s
    <3>1. ~Blocked(s)' /\ hits'[s] = 0
      BY <2>4, <1>12, <1>2 DEF RecordSuccess, DeleteKeys, Blocked
    <3> QED BY <3>1, <2>3, <1>1, BoundedStays
  <2>5. CASE req[q].source # s
    <3>1. hits'[s] = hits[s] /\ (Blocked(s)' <=> Blocked(s))
      BY <2>5, <1>12, <1>2, <1>3 DEF RecordSuccess, DeleteKeys, Blocked, Cooling
    <3>2. hits'[s] = IF Blocked(s)' THEN hits[s] ELSE 0
      BY <3>1, <1>1 DEF CallsBounded
    <3> QED BY <3>1, <3>2, <2>3, <1>1, BoundedStays
  <2> QED BY <2>4, <2>5
<1>13. ASSUME NEW q \in Requests, CountFailure(q)
       PROVE  CallsBounded(s)'
  <2>1. req'[q].step \in {"set_open", "next"} /\ \A p \in Requests \ {q} : req'[p] = req[p]
    BY <1>13, <1>2 DEF CountFailure, Request
  <2> QED BY <2>1, <1>4, <1>13 DEF CountFailure, Past, history
<1>14. ASSUME NEW q \in Requests, MarkOpen(q) \/ StampOpen(q)
       PROVE  CallsBounded(s)'
  <2>1. /\ req'[q].step \in {"set_opened_at", "next"}
        /\ \A p \in Requests \ {q} : req'[p] = req[p]
        /\ hits' = hits
    BY <1>14, <1>2 DEF MarkOpen, StampOpen, Goto, history, Request
  <2>2. Blocked(s) => Blocked(s)'
    <3>1. CASE MarkOpen(q)
      BY <3>1 DEF MarkOpen, SetOpen, Blocked, Cooling
    <3>2. CASE StampOpen(q)
      BY <3>2, <1>3 DEF StampOpen, SetOpenedAt, Blocked, Cooling
    <3> QED BY <1>14, <3>1, <3>2
  <2>3. hits'[s] = IF Blocked(s)' THEN hits[s] ELSE 0
    BY <2>1, <2>2, <1>1 DEF CallsBounded
  <2>4. ~Past(q, s)' /\ \A p \in Requests : Past(p, s)' => Past(p, s) /\ req'[p].tries = req[p].tries
    BY <2>1 DEF Past
  <2> QED BY <2>3, <2>4, <1>1, BoundedStays
<1>15. CASE Aging
  <2>1. req' = req /\ open' = open
    BY <1>15 DEF Aging, Tick
  <2>2. hits'[s] = IF Blocked(s)' THEN hits[s] ELSE 0
    BY <1>15 DEF Aging
  <2>3. Blocked(s)' => Blocked(s)
    <3>1. opened'[s] = IF opened[s] = Never THEN Never ELSE Upto(Cooldown, opened[s] + 1)
      BY <1>15 DEF Aging, Tick
    <3>2. opened[s] \in Int /\ opened[s] >= Cooldown => ~(Upto(Cooldown, opened[s] + 1) < Cooldown)
      BY <1>3 DEF Upto
    <3> QED BY <3>1, <3>2, <2>1, <1>3 DEF Blocked, Cooling
  <2> QED BY <2>1, <2>2, <2>3, <1>1, BoundedStays DEF Past
<1>16. CASE WindowEnds
  BY <1>16, <1>4 DEF WindowEnds, NewWindow, Past, history
<1>17. CASE UNCHANGED vars
  BY <1>17, <1>4 DEF vars, Past, guardVars, history
<1> QED BY <1>5, <1>6, <1>7, <1>8, <1>9, <1>10, <1>11, <1>12, <1>13, <1>14, <1>15, <1>16, <1>17
        DEF Next, Proceed

LEMMA BoundedInit == Init => Bounded
<1> SUFFICES ASSUME Init PROVE Bounded
  OBVIOUS
<1>1. ASSUME NEW s \in Sources
      PROVE  ~Blocked(s) /\ hits[s] = 0
  BY DEF Init, GuardInit, Blocked
<1> QED BY <1>1, TypedInit DEF Bounded, CallsBounded

\* While the breaker blocks a source, only requests that had passed the check before call
\* it, each for the attempts it has (ADR-005's shared breaker, orchestrator.py), for any
\* number of requests.
THEOREM BlockedSourceLeftAlone == Spec => []LeftAlone
<1> QED BY BoundedInit, BoundedStep, BoundedMeans, PTL DEF Spec

(***************************************************************************)
(* No request goes round in circles.  Work bounds the steps a request has  *)
(* still to take: those of the source it is asking, and those of as many   *)
(* sources as are left.                                                    *)
(***************************************************************************)
StepsAtSource(r) ==
  CASE r.step \in {"idle", "next"}             -> 0
    [] r.step \in {"set_opened_at", "delete"}  -> 1
    [] r.step = "set_open"                     -> 2
    [] r.step = "incr"                         -> 3
    [] r.step = "get_project"                  -> 3 + (MaxAttempts - r.tries)
    [] r.step = "try_acquire"                  -> 4 + MaxAttempts
    [] r.step = "opened_at"                    -> 5 + MaxAttempts
    [] r.step = "is_open"                      -> 6 + MaxAttempts

SourceSteps == MaxAttempts + 7

Work(r) ==
  IF r.step = "idle" THEN 0
  ELSE 1 + Cardinality(r.todo) * SourceSteps + StepsAtSource(r)

\* A request has begun with at most the work of all sources.  Each step of its own leaves
\* it less to do, and no step of another request and no passing of time gives it more.
StepsLeaveLess ==
  \A q \in Requests :
    /\ Work(req[q]) \in Nat
    /\ Proceed(q) => Work(req'[q]) < Work(req[q])
    /\ Work(req'[q]) <= IF At(q, "idle") THEN 1 + Cardinality(Sources) * SourceSteps
                        ELSE Work(req[q])

LEMMA FiniteTodo ==
  ASSUME NEW todo \in SUBSET Sources
  PROVE  /\ IsFiniteSet(todo)
         /\ Cardinality(todo) \in Nat
         /\ Cardinality(todo) * SourceSteps \in Nat
<1>1. IsFiniteSet(todo) /\ Cardinality(todo) \in Nat
  BY AcquisitionAssumption, FS_Subset, FS_CardinalityType
<1>2. SourceSteps \in Nat
  BY AcquisitionAssumption DEF SourceSteps
<1>3. \A m, n \in Nat : m * n \in Nat
  OBVIOUS
<1> QED BY <1>1, <1>2, <1>3

\* A request's progress as far as its work depends on it.
Measured(r) ==
  /\ r.step \in Steps
  /\ r.todo \in SUBSET Sources
  /\ r.tries \in 0 .. MaxAttempts

LEMMA StepsAtSourceType ==
  ASSUME NEW r, Measured(r)
  PROVE  StepsAtSource(r) \in 0 .. MaxAttempts + 6
<1>1. MaxAttempts \in Nat /\ r.tries \in 0 .. MaxAttempts
  BY AcquisitionAssumption DEF Measured
<1>2. CASE r.step \in {"idle", "next"}
  BY <1>1, <1>2 DEF StepsAtSource
<1>3. CASE r.step \in {"set_opened_at", "delete", "set_open", "incr"}
  BY <1>1, <1>3 DEF StepsAtSource
<1>4. CASE r.step \in {"get_project", "try_acquire", "opened_at", "is_open"}
  BY <1>1, <1>4 DEF StepsAtSource
<1> QED BY <1>2, <1>3, <1>4 DEF Measured, Steps

LEMMA WorkType ==
  ASSUME NEW r, Measured(r)
  PROVE  Work(r) \in Nat
<1>1. Cardinality(r.todo) * SourceSteps \in Nat
  BY FiniteTodo DEF Measured
<1>2. StepsAtSource(r) \in Nat
  BY StepsAtSourceType, AcquisitionAssumption
<1> QED BY <1>1, <1>2 DEF Work

\* At one source the work left is told by the step and the attempts.
LEMMA SameSource ==
  ASSUME NEW r, NEW to, Measured(r), Measured(to), to.todo = r.todo,
         r.step # "idle", to.step # "idle"
  PROVE  /\ StepsAtSource(to) < StepsAtSource(r) => Work(to) < Work(r)
         /\ StepsAtSource(to) = StepsAtSource(r) => Work(to) = Work(r)
<1>1. Cardinality(r.todo) * SourceSteps \in Nat
  BY FiniteTodo DEF Measured
<1>2. StepsAtSource(r) \in Int /\ StepsAtSource(to) \in Int
  BY StepsAtSourceType, AcquisitionAssumption
<1> DEFINE rest == Cardinality(r.todo) * SourceSteps
<1>3. Work(r) = 1 + rest + StepsAtSource(r) /\ Work(to) = 1 + rest + StepsAtSource(to)
  BY DEF Work
<1> HIDE DEF rest
<1>4. rest \in Nat
  BY <1>1 DEF rest
<1> QED BY <1>2, <1>3, <1>4

\* Turning to a source costs all the steps it may take, and takes it off the list.
LEMMA NextSourceLess ==
  ASSUME NEW r, NEW to, Measured(r), Measured(to), NEW s \in r.todo,
         r.step = "next", to.step = "is_open", to.todo = r.todo \ {s}
  PROVE  Work(to) < Work(r)
<1>1. IsFiniteSet(r.todo) /\ Cardinality(r.todo) \in Nat
  BY FiniteTodo DEF Measured
<1>2. Cardinality(to.todo) = Cardinality(r.todo) - 1
  BY <1>1, FS_RemoveElement
<1>3. SourceSteps \in Nat /\ SourceSteps = MaxAttempts + 7 /\ MaxAttempts \in Nat
  BY AcquisitionAssumption DEF SourceSteps
<1> DEFINE n == Cardinality(r.todo)
<1>4. \A i, k \in Nat : (i - 1) * k = i * k - k /\ i * k \in Nat
  OBVIOUS
<1>5. (n - 1) * SourceSteps = n * SourceSteps - SourceSteps /\ n * SourceSteps \in Nat
  BY <1>1, <1>3, <1>4
<1>6. Work(r) = 1 + n * SourceSteps + 0
  BY DEF Work, StepsAtSource
<1>7. Work(to) = 1 + (n - 1) * SourceSteps + (6 + MaxAttempts)
  BY <1>2 DEF Work, StepsAtSource
<1> DEFINE all == n * SourceSteps
<1>8. Work(to) = 1 + (all - SourceSteps) + (6 + MaxAttempts)
  BY <1>5, <1>7
<1> HIDE DEF all
<1>9. all \in Nat /\ Work(r) = 1 + all + 0
  BY <1>5, <1>6 DEF all
<1> QED BY <1>3, <1>8, <1>9

LEMMA RequestMeasured ==
  ASSUME Typed, NEW q \in Requests
  PROVE  Measured(req[q]) /\ (req[q].step = "get_project" => req[q].tries < MaxAttempts)
BY DEF Typed, TypeOK, Request, Measured, Asking

LEMMA RequestMeasuredNext ==
  ASSUME Typed', NEW q \in Requests
  PROVE  Measured(req'[q])
<1>1. req' \in [Requests -> Request]
  BY DEF Typed, TypeOK
<1> QED BY <1>1 DEF Request, Measured

\* A request that moves to a later step of the source it is asking.
LEMMA MovedOn ==
  ASSUME Typed, Typed', NEW q \in Requests, NEW to, Goto(q, to),
         req[q].step # "idle", to # "idle",
         StepsAtSource([req[q] EXCEPT !.step = to]) < StepsAtSource(req[q])
  PROVE  Work(req'[q]) < Work(req[q])
<1>1. req \in [Requests -> Request]
  BY DEF Typed, TypeOK
<1>2. req'[q] = [req[q] EXCEPT !.step = to]
  BY <1>1 DEF Goto
<1>3. req'[q].todo = req[q].todo /\ req'[q].step = to
  BY <1>1, <1>2 DEF Request
<1> QED BY <1>2, <1>3, RequestMeasured, RequestMeasuredNext, SameSource

LEMMA ProceedLeavesLess ==
  ASSUME Typed, Typed', NEW q \in Requests, Proceed(q)
  PROVE  Work(req'[q]) < Work(req[q])
<1>1. req \in [Requests -> Request] /\ req[q] \in Request
  BY DEF Typed, TypeOK
<1>2. MaxAttempts \in Nat \ {0}
  BY AcquisitionAssumption
<1>3. /\ Measured(req[q]) /\ Measured(req'[q])
      /\ req[q].step = "get_project" => req[q].tries < MaxAttempts
  BY RequestMeasured, RequestMeasuredNext
<1>4. req[q].tries \in 0 .. MaxAttempts
  BY <1>3 DEF Measured
\* What the steps count for, as the request moves.
<1>5. ASSUME NEW to
      PROVE  /\ [req[q] EXCEPT !.step = to].step = to
             /\ [req[q] EXCEPT !.step = to].tries = req[q].tries
  BY <1>1 DEF Request
<1>6. ASSUME NEW s \in Sources, NextSource(q, s)
      PROVE  Work(req'[q]) < Work(req[q])
  <2>1. /\ req[q].step = "next" /\ s \in req[q].todo
        /\ req'[q].step = "is_open" /\ req'[q].todo = req[q].todo \ {s}
    BY <1>1, <1>6 DEF NextSource, At, Request
  <2> QED BY <1>3, <2>1, NextSourceLess
<1>7. ASSUME ReadState(q)
      PROVE  Work(req'[q]) < Work(req[q])
  <2>1. req[q].step = "is_open"
    BY <1>7 DEF ReadState, At
  <2>2. PICK to \in {"opened_at", "try_acquire"} : Goto(q, to)
    BY <1>7 DEF ReadState
  <2>3. StepsAtSource([req[q] EXCEPT !.step = to]) < StepsAtSource(req[q])
    BY <1>2, <1>5, <2>1, <2>2 DEF StepsAtSource
  <2> QED BY <2>1, <2>2, <2>3, MovedOn
<1>8. ASSUME ReadOpenedAt(q)
      PROVE  Work(req'[q]) < Work(req[q])
  <2>1. req[q].step = "opened_at"
    BY <1>8 DEF ReadOpenedAt, At
  <2>2. PICK to \in {"next", "try_acquire"} : Goto(q, to)
    BY <1>8 DEF ReadOpenedAt
  <2>3. StepsAtSource([req[q] EXCEPT !.step = to]) < StepsAtSource(req[q])
    BY <1>2, <1>5, <2>1, <2>2 DEF StepsAtSource
  <2> QED BY <2>1, <2>2, <2>3, MovedOn
<1>9. ASSUME TryAcquire(q)
      PROVE  Work(req'[q]) < Work(req[q])
  <2>1. req[q].step = "try_acquire"
    BY <1>9 DEF TryAcquire, At
  <2>2. PICK to \in {"next", "get_project"} : Goto(q, to)
    BY <1>9 DEF TryAcquire
  <2>3. StepsAtSource([req[q] EXCEPT !.step = to]) < StepsAtSource(req[q])
    BY <1>2, <1>4, <1>5, <2>1, <2>2 DEF StepsAtSource
  <2> QED BY <2>1, <2>2, <2>3, MovedOn
<1>10. ASSUME GetProjectSucceeds(q) \/ GetProjectFailsForGood(q)
       PROVE  Work(req'[q]) < Work(req[q])
  <2>1. req[q].step = "get_project"
    BY <1>10 DEF GetProjectSucceeds, GetProjectFailsForGood, At
  <2>2. PICK to \in {"next", "delete"} : Goto(q, to)
    BY <1>10 DEF GetProjectSucceeds, GetProjectFailsForGood
  <2>3. StepsAtSource([req[q] EXCEPT !.step = to]) < StepsAtSource(req[q])
    BY <1>2, <1>4, <1>5, <2>1, <2>2 DEF StepsAtSource
  <2> QED BY <2>1, <2>2, <2>3, MovedOn
\* A failed attempt leaves one attempt fewer, or none and the failure to count.
<1>11. ASSUME GetProjectFailsForNow(q)
       PROVE  Work(req'[q]) < Work(req[q])
  <2>1. req[q].step = "get_project" /\ req[q].tries < MaxAttempts
    BY <1>3, <1>11 DEF GetProjectFailsForNow, At
  <2>2. /\ req'[q].tries = req[q].tries + 1 /\ req'[q].todo = req[q].todo
        /\ req'[q].step = IF req[q].tries + 1 < MaxAttempts THEN "get_project" ELSE "incr"
    BY <1>1, <1>11, <2>1 DEF GetProjectFailsForNow, Request
  <2>3. StepsAtSource(req'[q]) < StepsAtSource(req[q])
    BY <1>2, <1>4, <2>1, <2>2 DEF StepsAtSource
  <2> QED BY <1>3, <2>1, <2>2, <2>3, SameSource
<1>12. ASSUME RecordSuccess(q)
       PROVE  Work(req'[q]) < Work(req[q])
  <2>1. req[q].step = "delete"
    BY <1>12 DEF RecordSuccess, At
  <2>2. req'[q].step = "next" /\ req'[q].todo = req[q].todo
    BY <1>1, <1>12 DEF RecordSuccess, Request
  <2>3. StepsAtSource(req'[q]) < StepsAtSource(req[q])
    BY <2>1, <2>2 DEF StepsAtSource
  <2> QED BY <1>3, <2>1, <2>2, <2>3, SameSource
<1>13. ASSUME CountFailure(q)
       PROVE  Work(req'[q]) < Work(req[q])
  <2>1. req[q].step = "incr"
    BY <1>13 DEF CountFailure, At
  <2>2. req'[q].step \in {"set_open", "next"} /\ req'[q].todo = req[q].todo
    BY <1>1, <1>13 DEF CountFailure, Request
  <2>3. StepsAtSource(req'[q]) < StepsAtSource(req[q])
    BY <2>1, <2>2 DEF StepsAtSource
  <2> QED BY <1>3, <2>1, <2>2, <2>3, SameSource
<1>14. ASSUME MarkOpen(q) \/ StampOpen(q)
       PROVE  Work(req'[q]) < Work(req[q])
  <2>1. \/ req[q].step = "set_open" /\ Goto(q, "set_opened_at")
        \/ req[q].step = "set_opened_at" /\ Goto(q, "next")
    BY <1>14 DEF MarkOpen, StampOpen, At
  <2>2. PICK to \in {"set_opened_at", "next"} :
          /\ Goto(q, to)
          /\ \/ req[q].step = "set_open" /\ to = "set_opened_at"
             \/ req[q].step = "set_opened_at" /\ to = "next"
    BY <2>1
  <2>3. StepsAtSource([req[q] EXCEPT !.step = to]) < StepsAtSource(req[q])
    BY <1>5, <2>2 DEF StepsAtSource
  <2> QED BY <2>2, <2>3, MovedOn
<1>15. ASSUME Commit(q)
       PROVE  Work(req'[q]) < Work(req[q])
  <2>1. req[q].step = "next" /\ req'[q].step = "idle"
    BY <1>1, <1>15 DEF Commit, At, Idle
  <2>2. Cardinality(req[q].todo) * SourceSteps \in Nat
    BY <1>3, FiniteTodo DEF Measured
  <2>3. Work(req'[q]) = 0 /\ Work(req[q]) = 1 + Cardinality(req[q].todo) * SourceSteps + 0
    BY <2>1 DEF Work, StepsAtSource
  <2> QED BY <2>2, <2>3
<1> QED BY <1>6, <1>7, <1>8, <1>9, <1>10, <1>11, <1>12, <1>13, <1>14, <1>15
        DEF Proceed, GetProject

LEMMA SameWork ==
  ASSUME NEW r, NEW to, to.step = r.step, to.todo = r.todo, to.tries = r.tries
  PROVE  Work(to) = Work(r)
BY DEF Work, StepsAtSource

LEMMA BeginBounded ==
  ASSUME Typed, NEW q \in Requests, NEW todo \in SUBSET Sources, Begin(q, todo)
  PROVE  Work(req'[q]) <= 1 + Cardinality(Sources) * SourceSteps
<1>1. req'[q].step = "next" /\ req'[q].todo = todo
  BY DEF Begin, Typed, TypeOK, Request
<1>2. Work(req'[q]) = 1 + Cardinality(todo) * SourceSteps + 0
  BY <1>1 DEF Work, StepsAtSource
<1>3. /\ Cardinality(todo) \in Nat /\ Cardinality(Sources) \in Nat
      /\ Cardinality(todo) <= Cardinality(Sources)
  BY AcquisitionAssumption, FiniteTodo, FS_Subset
<1>4. SourceSteps \in Nat
  BY AcquisitionAssumption DEF SourceSteps
<1>5. \A m, n, k \in Nat : m <= n => m * k <= n * k /\ m * k \in Nat /\ n * k \in Nat
  OBVIOUS
<1>6. /\ Cardinality(todo) * SourceSteps <= Cardinality(Sources) * SourceSteps
      /\ Cardinality(todo) * SourceSteps \in Nat /\ Cardinality(Sources) * SourceSteps \in Nat
  BY <1>3, <1>4, <1>5
<1> QED BY <1>2, <1>6

\* A step of another request leaves a request alone but for what it hears of successes.
LEMMA OthersUntouched ==
  ASSUME Typed, NEW p \in Requests, NEW q \in Requests, p # q,
         \/ \E todo \in SUBSET Sources : Begin(p, todo)
         \/ Proceed(p)
         \/ Abort(p)
  PROVE  req'[q] \in {req[q], [req[q] EXCEPT !.intact = FALSE]}
<1>1. req \in [Requests -> Request] /\ req[q] \in Request
  BY DEF Typed, TypeOK
<1>2. ASSUME RecordSuccess(p)
      PROVE  req'[q] \in {req[q], [req[q] EXCEPT !.intact = FALSE]}
  BY <1>2 DEF RecordSuccess
<1>3. ASSUME \/ ReadState(p) \/ ReadOpenedAt(p) \/ TryAcquire(p)
             \/ GetProjectSucceeds(p) \/ GetProjectFailsForGood(p)
             \/ MarkOpen(p) \/ StampOpen(p)
      PROVE  req'[q] = req[q]
  <2>1. \E to \in Steps : Goto(p, to)
    BY <1>3 DEF ReadState, ReadOpenedAt, TryAcquire, GetProjectSucceeds,
                GetProjectFailsForGood, MarkOpen, StampOpen, Steps
  <2> QED BY <1>1, <2>1 DEF Goto
<1>4. ASSUME \/ \E s \in Sources : NextSource(p, s)
             \/ GetProjectFailsForNow(p) \/ CountFailure(p) \/ Commit(p)
             \/ Abort(p) \/ \E todo \in SUBSET Sources : Begin(p, todo)
      PROVE  req'[q] = req[q]
  BY <1>1, <1>4 DEF NextSource, GetProjectFailsForNow, CountFailure, Commit, Abort, Begin
<1> QED BY <1>2, <1>3, <1>4 DEF Proceed, GetProject

LEMMA OthersKeepWork ==
  ASSUME Typed, NEW p \in Requests, NEW q \in Requests, p # q,
         \/ \E todo \in SUBSET Sources : Begin(p, todo)
         \/ Proceed(p)
         \/ Abort(p)
  PROVE  Work(req'[q]) = Work(req[q])
<1>1. req[q] \in Request /\ req'[q] \in {req[q], [req[q] EXCEPT !.intact = FALSE]}
  BY OthersUntouched DEF Typed, TypeOK
<1>2. /\ req'[q].step = req[q].step /\ req'[q].todo = req[q].todo
      /\ req'[q].tries = req[q].tries
  BY <1>1 DEF Request
<1> QED BY <1>2, SameWork

LEMMA StepLeavesLess ==
  ASSUME Typed, Typed', [Next]_vars
  PROVE  StepsLeaveLess
<1> DEFINE most == 1 + Cardinality(Sources) * SourceSteps
<1> SUFFICES ASSUME NEW q \in Requests
             PROVE  /\ Work(req[q]) \in Nat
                    /\ Proceed(q) => Work(req'[q]) < Work(req[q])
                    /\ Work(req'[q]) <= IF At(q, "idle") THEN most ELSE Work(req[q])
  BY DEF StepsLeaveLess
<1>1. Work(req[q]) \in Nat /\ Work(req'[q]) \in Nat
  BY RequestMeasured, RequestMeasuredNext, WorkType
<1>2. most \in Nat
  BY FiniteTodo
<1>3. At(q, "idle") => Work(req[q]) = 0
  BY DEF At, Work
<1> HIDE DEF most
<1>4. ASSUME Work(req'[q]) = Work(req[q])
      PROVE  Work(req'[q]) <= IF At(q, "idle") THEN most ELSE Work(req[q])
  BY <1>1, <1>2, <1>3, <1>4
<1>5. ASSUME NEW todo \in SUBSET Sources, Begin(q, todo)
      PROVE  Work(req'[q]) <= IF At(q, "idle") THEN most ELSE Work(req[q])
  <2>1. At(q, "idle")
    BY <1>5 DEF Begin
  <2> QED BY <1>5, <2>1, BeginBounded DEF most
<1>6. Proceed(q) => Work(req'[q]) < Work(req[q])
  BY ProceedLeavesLess
<1>7. ASSUME Proceed(q)
      PROVE  Work(req'[q]) <= IF At(q, "idle") THEN most ELSE Work(req[q])
  BY <1>1, <1>2, <1>3, <1>6, <1>7
<1>8. ASSUME Abort(q)
      PROVE  Work(req'[q]) <= IF At(q, "idle") THEN most ELSE Work(req[q])
  <2>1. req'[q] = Idle
    BY <1>8 DEF Abort, Typed, TypeOK
  <2>2. Work(req'[q]) = 0
    BY <2>1 DEF Work, Idle
  <2> QED BY <1>1, <1>2, <2>2
<1>9. ASSUME req' = req
      PROVE  Work(req'[q]) <= IF At(q, "idle") THEN most ELSE Work(req[q])
  BY <1>4, <1>9
<1>10. ASSUME NEW p \in Requests,
              \/ \E todo \in SUBSET Sources : Begin(p, todo)
              \/ Proceed(p)
              \/ Abort(p)
       PROVE  Work(req'[q]) <= IF At(q, "idle") THEN most ELSE Work(req[q])
  <2>1. CASE p = q
    BY <1>5, <1>7, <1>8, <1>10, <2>1
  <2>2. CASE p # q
    BY <1>4, <1>10, <2>2, OthersKeepWork
  <2> QED BY <2>1, <2>2
<1>11. Work(req'[q]) <= IF At(q, "idle") THEN most ELSE Work(req[q])
  BY <1>9, <1>10 DEF Next, Aging, WindowEnds, vars
<1> QED BY <1>1, <1>6, <1>11

\* Sources are asked one after the other, each for a bounded number of steps, whatever they
\* answer and whatever other requests do to the keys: the safety half of RequestsEnd.
THEOREM NoRequestCircles == Spec => [][StepsLeaveLess]_vars
<1>1. Spec => []Typed
  BY TypedInit, TypedStep, PTL DEF Spec
<1>2. Typed /\ Typed' /\ [Next]_vars => [StepsLeaveLess]_vars
  BY StepLeavesLess
<1> QED BY <1>1, <1>2, PTL DEF Spec

(***************************************************************************)
(* No source is locked out.  A stamp set late starts the cooldown anew, but *)
(* only requests that had passed the check can still set one, and while the *)
(* source is blocked no request joins them.                                *)
(***************************************************************************)
PastCheck(s) ==
  {q \in Requests :
     /\ req[q].source = s
     /\ req[q].step \in {"try_acquire", "get_project", "delete", "incr",
                         "set_open", "set_opened_at"}}

\* Ticks for which s can at most still be blocked without a break.
TicksBlocked(s) == Cardinality(PastCheck(s)) * (Cooldown + 1) + (Cooldown - opened[s])

\* While a source stays blocked, the ticks it can remain so run out: each tick takes one,
\* and a stamp set anew gives back less than the request that set it could have.
BlockRunsOut ==
  \A s \in Sources :
    Blocked(s) =>
      /\ TicksBlocked(s) \in 0 .. Cardinality(Requests) * (Cooldown + 1) + Cooldown
      /\ Blocked(s)' => TicksBlocked(s)' <= TicksBlocked(s)
      /\ Aging /\ Blocked(s)' => TicksBlocked(s)' < TicksBlocked(s)

LEMMA PastCheckFinite ==
  ASSUME NEW S \in SUBSET Requests
  PROVE  /\ IsFiniteSet(S) /\ Cardinality(S) \in Nat
         /\ Cardinality(S) <= Cardinality(Requests)
BY AcquisitionAssumption, FS_Subset, FS_CardinalityType

\* While s is blocked a request gets past its check by no step.
LEMMA NoneJoins ==
  ASSUME Typed, [Next]_vars, NEW s \in Sources, Blocked(s)
  PROVE  PastCheck(s)' \subseteq PastCheck(s)
<1>1. req \in [Requests -> Request]
  BY DEF Typed, TypeOK
<1>2. ASSUME NEW q \in Requests, q \in PastCheck(s)', req'[q] = req[q]
      PROVE  q \in PastCheck(s)
  BY <1>2 DEF PastCheck
<1>3. ASSUME NEW p \in Requests, NEW q \in Requests, p # q, q \in PastCheck(s)',
             \/ \E todo \in SUBSET Sources : Begin(p, todo)
             \/ Proceed(p)
             \/ Abort(p)
      PROVE  q \in PastCheck(s)
  <2>1. req[q] \in Request /\ req'[q] \in {req[q], [req[q] EXCEPT !.intact = FALSE]}
    BY <1>1, <1>3, OthersUntouched
  <2>2. req'[q].step = req[q].step /\ req'[q].source = req[q].source
    BY <2>1 DEF Request
  <2> QED BY <1>3, <2>2 DEF PastCheck
<1>4. ASSUME NEW q \in Requests, q \in PastCheck(s)',
             \/ \E todo \in SUBSET Sources : Begin(q, todo)
             \/ Proceed(q)
             \/ Abort(q)
      PROVE  q \in PastCheck(s)
  <2>1. /\ req'[q].source = s
        /\ req'[q].step \notin {"idle", "next", "is_open", "opened_at"}
    BY <1>4 DEF PastCheck
  <2>2. req[q] \in Request
    BY <1>1
  <2>3. ASSUME NEW to, Goto(q, to)
        PROVE  req'[q].step = to /\ req'[q].source = req[q].source
    BY <1>1, <2>3 DEF Goto, Request
  <2>4. ASSUME ReadState(q)
        PROVE  q \in PastCheck(s)
    BY <2>1, <2>3, <2>4 DEF ReadState, Blocked
  <2>5. ASSUME ReadOpenedAt(q)
        PROVE  q \in PastCheck(s)
    BY <2>1, <2>3, <2>5 DEF ReadOpenedAt, Blocked
  <2>6. ASSUME TryAcquire(q) \/ GetProjectSucceeds(q) \/ GetProjectFailsForGood(q)
               \/ MarkOpen(q) \/ StampOpen(q)
        PROVE  q \in PastCheck(s)
    <3>1. req[q].step \in {"try_acquire", "get_project", "set_open", "set_opened_at"}
      BY <2>6 DEF TryAcquire, GetProjectSucceeds, GetProjectFailsForGood, MarkOpen,
                  StampOpen, At
    <3>2. \E to \in Steps : Goto(q, to)
      BY <2>6 DEF TryAcquire, GetProjectSucceeds, GetProjectFailsForGood, MarkOpen,
                  StampOpen, Steps
    <3>3. req[q].source = s
      BY <2>1, <2>3, <3>2
    <3> QED BY <3>1, <3>3 DEF PastCheck
  <2>7. ASSUME GetProjectFailsForNow(q) \/ CountFailure(q) \/ RecordSuccess(q)
        PROVE  q \in PastCheck(s)
    <3>1. req[q].step \in {"get_project", "incr", "delete"}
      BY <2>7 DEF GetProjectFailsForNow, CountFailure, RecordSuccess, At
    <3>2. req'[q].source = req[q].source
      BY <1>1, <2>2, <2>7 DEF GetProjectFailsForNow, CountFailure, RecordSuccess, Request
    <3> QED BY <2>1, <3>1, <3>2 DEF PastCheck
  <2>8. ASSUME \/ \E t \in Sources : NextSource(q, t)
               \/ \E todo \in SUBSET Sources : Begin(q, todo)
               \/ Commit(q) \/ Abort(q)
        PROVE  FALSE
    <3>1. ASSUME NEW t \in Sources, NextSource(q, t)
          PROVE  req'[q].step = "is_open"
      BY <1>1, <2>2, <3>1 DEF NextSource, Request
    <3>2. ASSUME NEW todo \in SUBSET Sources, Begin(q, todo)
          PROVE  req'[q].step = "next"
      BY <1>1, <2>2, <3>2 DEF Begin, Request
    <3>3. ASSUME Commit(q) \/ Abort(q)
          PROVE  req'[q].step = "idle"
      BY <1>1, <3>3 DEF Commit, Abort, Idle
    <3> QED BY <2>1, <2>8, <3>1, <3>2, <3>3
  <2> QED BY <1>4, <2>4, <2>5, <2>6, <2>7, <2>8 DEF Proceed, GetProject
<1>5. CASE req' = req
  BY <1>2, <1>5 DEF PastCheck
<1>6. ASSUME NEW p \in Requests,
             \/ \E todo \in SUBSET Sources : Begin(p, todo)
             \/ Proceed(p)
             \/ Abort(p)
      PROVE  PastCheck(s)' \subseteq PastCheck(s)
  <2>1. PastCheck(s)' \subseteq Requests
    BY DEF PastCheck
  <2>2. ASSUME NEW q \in PastCheck(s)'
        PROVE  q \in PastCheck(s)
    <3>1. CASE p = q
      BY <1>4, <1>6, <2>1, <2>2, <3>1
    <3>2. CASE p # q
      BY <1>3, <1>6, <2>1, <2>2, <3>2
    <3> QED BY <3>1, <3>2
  <2> QED BY <2>2
<1> QED BY <1>5, <1>6 DEF Next, Aging, WindowEnds, vars

\* How the age of the stamp moves while s stays blocked: with time, or back to zero by a
\* request that is then done with s.
LEMMA StampMoves ==
  ASSUME Typed, [Next]_vars, NEW s \in Sources, Blocked(s), Blocked(s)'
  PROVE  /\ opened[s] \in 0 .. Cooldown - 1 /\ opened'[s] \in 0 .. Cooldown - 1
         /\ Aging => opened'[s] = opened[s] + 1
         /\ ~Aging => \/ opened'[s] = opened[s]
                      \/ /\ opened'[s] = 0
                         /\ \E q \in PastCheck(s) : q \notin PastCheck(s)'
<1>1. /\ req \in [Requests -> Request]
      /\ opened \in [Sources -> 0 .. Cooldown \cup {Never}]
      /\ Cooldown \in Nat \ {0} /\ Never \notin Int
  BY GuardAssumption DEF Typed, TypeOK, GuardTypeOK
<1>2. opened[s] \in 0 .. Cooldown - 1
  BY <1>1 DEF Blocked, Cooling
<1>3. s \in open' /\ opened'[s] # Never /\ opened'[s] < Cooldown
  BY DEF Blocked, Cooling
<1>4. ASSUME Aging
      PROVE  opened'[s] = opened[s] + 1
  BY <1>1, <1>2, <1>4 DEF Aging, Tick, Upto
<1>5. ASSUME NEW q \in Requests, StampOpen(q)
      PROVE  \/ opened'[s] = opened[s]
             \/ /\ opened'[s] = 0
                /\ \E p \in PastCheck(s) : p \notin PastCheck(s)'
  <2>1. CASE req[q].source = s
    <3>1. q \in PastCheck(s)
      BY <1>5, <2>1 DEF StampOpen, At, PastCheck
    <3>2. req'[q].step = "next"
      BY <1>1, <1>5 DEF StampOpen, Goto, Request
    <3>3. q \notin PastCheck(s)'
      BY <3>2 DEF PastCheck
    <3>4. opened'[s] = 0
      BY <1>1, <1>5, <2>1 DEF StampOpen, SetOpenedAt
    <3> QED BY <3>1, <3>3, <3>4
  <2>2. CASE req[q].source # s
    BY <1>1, <1>5, <2>2 DEF StampOpen, SetOpenedAt
  <2> QED BY <2>1, <2>2
<1>6. ASSUME NEW q \in Requests, RecordSuccess(q)
      PROVE  opened'[s] = opened[s]
  <2>1. req[q].source # s
    BY <1>3, <1>6 DEF RecordSuccess, DeleteKeys
  <2> QED BY <1>1, <1>6, <2>1 DEF RecordSuccess, DeleteKeys
<1>7. ASSUME NEW q \in Requests,
             \/ \E todo \in SUBSET Sources : Begin(q, todo)
             \/ \E t \in Sources : NextSource(q, t)
             \/ ReadState(q) \/ ReadOpenedAt(q) \/ TryAcquire(q) \/ GetProject(q)
             \/ CountFailure(q) \/ MarkOpen(q) \/ Commit(q) \/ Abort(q)
      PROVE  opened'[s] = opened[s]
  BY <1>7 DEF Begin, NextSource, ReadState, ReadOpenedAt, TryAcquire, GetProject,
              GetProjectSucceeds, GetProjectFailsForGood, GetProjectFailsForNow,
              CountFailure, MarkOpen, Commit, Abort, guardVars
<1>8. ASSUME UNCHANGED vars \/ WindowEnds
      PROVE  opened'[s] = opened[s]
  BY <1>8 DEF vars, guardVars, WindowEnds, NewWindow
<1>9. ~Aging => \/ opened'[s] = opened[s]
                \/ /\ opened'[s] = 0
                   /\ \E p \in PastCheck(s) : p \notin PastCheck(s)'
  BY <1>5, <1>6, <1>7, <1>8 DEF Next, Proceed
<1>10. opened'[s] \in 0 .. Cooldown - 1
  <2>1. CASE Aging
    BY <1>1, <1>2, <1>3, <1>4, <2>1
  <2>2. CASE ~Aging
    BY <1>1, <1>2, <1>9, <2>2
  <2> QED BY <2>1, <2>2
<1> QED BY <1>2, <1>4, <1>9, <1>10

LEMMA TicksRunOut ==
  ASSUME Typed, [Next]_vars
  PROVE  BlockRunsOut
<1> SUFFICES ASSUME NEW s \in Sources, Blocked(s)
             PROVE  /\ TicksBlocked(s)
                         \in 0 .. Cardinality(Requests) * (Cooldown + 1) + Cooldown
                    /\ Blocked(s)' => TicksBlocked(s)' <= TicksBlocked(s)
                    /\ Aging /\ Blocked(s)' => TicksBlocked(s)' < TicksBlocked(s)
  BY DEF BlockRunsOut
<1> DEFINE n == Cardinality(PastCheck(s))
           all == Cardinality(Requests)
           turn == Cooldown + 1
<1>1. PastCheck(s) \subseteq Requests
  BY DEF PastCheck
<1>2. n \in Nat /\ all \in Nat /\ n <= all
  BY <1>1, PastCheckFinite, AcquisitionAssumption, FS_CardinalityType
<1>3. Cooldown \in Nat \ {0} /\ turn \in Nat
  BY GuardAssumption
<1>4. opened[s] \in 0 .. Cooldown - 1
  BY GuardAssumption DEF Blocked, Cooling, Typed, TypeOK, GuardTypeOK
<1>5. \A i, j, k \in Nat : /\ i * k \in Nat
                           /\ i <= j => i * k <= j * k
                           /\ i < j => i * k <= j * k - k
  <2> SUFFICES ASSUME NEW i \in Nat, NEW j \in Nat, NEW k \in Nat
               PROVE  /\ i * k \in Nat
                      /\ i <= j => i * k <= j * k
                      /\ i < j => i * k <= j * k - k
    OBVIOUS
  <2>1. i * k \in Nat /\ (i <= j => i * k <= j * k)
    OBVIOUS
  <2>2. (i + 1) * k = i * k + k
    OBVIOUS
  <2>3. i < j => (i + 1) * k <= j * k
    OBVIOUS
  <2> QED BY <2>1, <2>2, <2>3
<1>6. n * turn \in Nat /\ all * turn \in Nat /\ n * turn <= all * turn
  BY <1>2, <1>3, <1>5
<1>7. TicksBlocked(s) = n * turn + (Cooldown - opened[s])
  BY DEF TicksBlocked
<1>8. TicksBlocked(s) \in 0 .. all * turn + Cooldown
  <2> DEFINE a == n * turn  b == all * turn
  <2>1. a \in Nat /\ b \in Nat /\ a <= b /\ TicksBlocked(s) = a + (Cooldown - opened[s])
    BY <1>6, <1>7
  <2> HIDE DEF a, b, n, all, turn
  <2>2. TicksBlocked(s) \in 0 .. b + Cooldown
    BY <1>3, <1>4, <2>1
  <2> QED BY <2>2 DEF b
<1>9. ASSUME Blocked(s)'
      PROVE  /\ TicksBlocked(s)' <= TicksBlocked(s)
             /\ Aging => TicksBlocked(s)' < TicksBlocked(s)
  <2> DEFINE m == Cardinality(PastCheck(s)')
             a == n * turn
             b == m * turn
  <2>1. PastCheck(s)' \subseteq PastCheck(s)
    BY NoneJoins
  <2>2. IsFiniteSet(PastCheck(s)) /\ m \in Nat /\ m <= n
    BY <1>1, <2>1, PastCheckFinite, FS_Subset
  <2>3. (\E q \in PastCheck(s) : q \notin PastCheck(s)') => m < n
    <3>1. PastCheck(s)' # PastCheck(s) => m # n
      BY <2>1, <2>2, FS_Subset
    <3> QED BY <1>2, <2>2, <3>1
  <2>4. TicksBlocked(s)' = b + (Cooldown - opened'[s])
    BY DEF TicksBlocked
  <2>5. a \in Nat /\ b \in Nat /\ b <= a /\ (m < n => b <= a - turn)
    BY <1>2, <1>3, <1>5, <2>2
  <2>6. /\ opened'[s] \in 0 .. Cooldown - 1
        /\ Aging => opened'[s] = opened[s] + 1
        /\ ~Aging => opened'[s] = opened[s] \/ (opened'[s] = 0 /\ m < n)
    BY <1>9, <2>3, StampMoves
  <2>7. TicksBlocked(s) = a + (Cooldown - opened[s]) /\ turn = Cooldown + 1
    BY <1>7
  <2> HIDE DEF a, b, m, n, turn
  <2> QED BY <1>3, <1>4, <2>4, <2>5, <2>6, <2>7
<1> QED BY <1>8, <1>9

\* However the requests past the check fail, and whenever they stamp the breaker anew, a
\* source stays blocked for no more than a bounded number of ticks: the safety half of
\* TriedAgain.
THEOREM NoSourceLockedOut == Spec => [][BlockRunsOut]_vars
<1>1. Spec => []Typed
  BY TypedInit, TypedStep, PTL DEF Spec
<1>2. Typed /\ [Next]_vars => [BlockRunsOut]_vars
  BY TicksRunOut
<1> QED BY <1>1, <1>2, PTL DEF Spec
===============================================================================
