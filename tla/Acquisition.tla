------------------------------ MODULE Acquisition ------------------------------
(***************************************************************************)
(* Overlapping requests that acquire a project's data: for each source the *)
(* breaker's check, the limiter, the attempts and what is recorded of them *)
(* (app/acquisition/service.py, orchestrator.py).  A step is one Redis     *)
(* command or one call of a source; other requests may step in between,    *)
(* and a request may die anywhere.  What a delivery does to the data is    *)
(* FieldTx's matter.                                                       *)
(***************************************************************************)
EXTENDS SourceGuard, FiniteSets

CONSTANTS
  Requests,      \* acquisitions that may be in progress
  MaxAttempts,   \* AcquisitionOrchestrator.max_attempts
  NoSource       \* no source is being asked

ASSUME AcquisitionAssumption ==
  /\ IsFiniteSet(Requests) /\ Requests # {}
  /\ IsFiniteSet(Sources)
  /\ MaxAttempts \in Nat \ {0}
  /\ NoSource \notin Sources

VARIABLES
  req,    \* progress of each request
  hits,   \* history: calls of a source since its breaker began to block
  torn    \* history: the keys of a breaker were last left by an opening cut short

history == <<hits, torn>>
vars == <<guardVars, req, history>>

Steps == {"idle", "next", "is_open", "opened_at", "try_acquire", "get_project",
          "incr", "set_open", "set_opened_at", "delete"}

Request ==
  [step   : Steps,
   todo   : SUBSET Sources,             \* sources still to ask
   source : Sources \cup {NoSource},
   tries  : 0 .. MaxAttempts,
   intact : BOOLEAN]                    \* history: no success recorded since its incr

Idle == [step |-> "idle", todo |-> {}, source |-> NoSource, tries |-> 0, intact |-> TRUE]

At(q, step) == req[q].step = step

Goto(q, step) == req' = [req EXCEPT ![q].step = step]

\* Requests in the middle of opening the breaker of s.
Opening(s) ==
  {q \in Requests : req[q].source = s /\ req[q].step \in {"set_open", "set_opened_at"}}

(***************************************************************************)
(* acquire_project_data: one source after the other, in no promised order. *)
(* A source _resolve_external_ref knows no reference for is not in todo.   *)
(***************************************************************************)
Begin(q, todo) ==
  /\ At(q, "idle")
  /\ req' = [req EXCEPT ![q].step = "next", ![q].todo = todo]
  /\ UNCHANGED <<guardVars, history>>

NextSource(q, s) ==
  /\ At(q, "next")
  /\ s \in req[q].todo
  /\ req' = [req EXCEPT ![q].step = "is_open", ![q].source = s,
                        ![q].todo = @ \ {s}, ![q].tries = 0]
  /\ UNCHANGED <<guardVars, history>>

Commit(q) ==
  /\ At(q, "next")
  /\ req[q].todo = {}
  /\ req' = [req EXCEPT ![q] = Idle]
  /\ UNCHANGED <<guardVars, history>>

(***************************************************************************)
(* execute_get_project for one source.                                     *)
(***************************************************************************)
ReadState(q) ==
  /\ At(q, "is_open")
  /\ Goto(q, IF req[q].source \in open THEN "opened_at" ELSE "try_acquire")
  /\ UNCHANGED <<guardVars, history>>

\* Fault: a stamp younger than the cooldown lets the call through.
ReadOpenedAtReversed(q) ==
  /\ At(q, "opened_at")
  /\ Goto(q, IF Cooling(req[q].source) THEN "try_acquire" ELSE "next")
  /\ UNCHANGED <<guardVars, history>>

\* A breaker that is cooling skips the source.
ReadOpenedAt(q) ==
  /\ At(q, "opened_at")
  /\ Goto(q, IF Cooling(req[q].source) THEN "next" ELSE "try_acquire")
  /\ UNCHANGED <<guardVars, history>>

\* A source over its limit is skipped, and the skipped call is counted.
TryAcquire(q) ==
  /\ At(q, "try_acquire")
  /\ IncrUsed(req[q].source)
  /\ Goto(q, IF WithinLimit(req[q].source) THEN "get_project" ELSE "next")
  /\ UNCHANGED <<open, failures, opened, history>>

\* The most calls requests already past the check can make.
HitBound == (Cardinality(Requests) - 1) * MaxAttempts

Called(s) ==
  hits' = [hits EXCEPT ![s] = IF Blocked(s) THEN Upto(HitBound + 1, @ + 1) ELSE 0]

GetProjectSucceeds(q) ==
  /\ At(q, "get_project")
  /\ Called(req[q].source)
  /\ Goto(q, "delete")
  /\ UNCHANGED <<guardVars, torn>>

\* Not listed, or not authorised: no retry, and nothing for the breaker.
GetProjectFailsForGood(q) ==
  /\ At(q, "get_project")
  /\ Called(req[q].source)
  /\ Goto(q, "next")
  /\ UNCHANGED <<guardVars, torn>>

\* Fault: one attempt more than stop_after_attempt allows.
GetProjectFailsOnceMore(q) ==
  /\ At(q, "get_project")
  /\ Called(req[q].source)
  /\ req' = [req EXCEPT ![q].tries = @ + 1,
                        ![q].step = IF req[q].tries < MaxAttempts THEN @ ELSE "incr"]
  /\ UNCHANGED <<guardVars, torn>>

\* Fault: retries without stop_after_attempt, the attempts counted round and round.
GetProjectFailsForever(q) ==
  /\ At(q, "get_project")
  /\ Called(req[q].source)
  /\ req' = [req EXCEPT ![q].tries = (@ + 1) % MaxAttempts]
  /\ UNCHANGED <<guardVars, torn>>

GetProjectFailsForNow(q) ==
  /\ At(q, "get_project")
  /\ Called(req[q].source)
  /\ req' = [req EXCEPT ![q].tries = @ + 1,
                        ![q].step = IF req[q].tries + 1 < MaxAttempts THEN @ ELSE "incr"]
  /\ UNCHANGED <<guardVars, torn>>

\* record_success: one DEL of the three keys, whatever others are about to set.
RecordSuccess(q) ==
  /\ At(q, "delete")
  /\ DeleteKeys(req[q].source)
  /\ req' = [p \in Requests |->
               IF p = q THEN [req[q] EXCEPT !.step = "next"]
               ELSE IF p \in Opening(req[q].source) THEN [req[p] EXCEPT !.intact = FALSE]
               ELSE req[p]]
  /\ hits' = [hits EXCEPT ![req[q].source] = 0]
  /\ torn' = [torn EXCEPT ![req[q].source] = Opening(req[q].source) # {}]
  /\ UNCHANGED used

\* Fault: the breaker is opened one failure early.
CountFailureEarly(q) ==
  /\ At(q, "incr")
  /\ IncrFailures(req[q].source)
  /\ req' = [req EXCEPT ![q].intact = TRUE,
                        ![q].step = IF failures[req[q].source] + 2 >= Threshold
                                    THEN "set_open" ELSE "next"]
  /\ UNCHANGED <<open, opened, used, history>>

\* record_failure, command by command.
CountFailure(q) ==
  /\ At(q, "incr")
  /\ IncrFailures(req[q].source)
  /\ req' = [req EXCEPT ![q].intact = TRUE,
                        ![q].step = IF failures[req[q].source] + 1 >= Threshold
                                    THEN "set_open" ELSE "next"]
  /\ UNCHANGED <<open, opened, used, history>>

MarkOpen(q) ==
  /\ At(q, "set_open")
  /\ SetOpen(req[q].source)
  /\ Goto(q, "set_opened_at")
  /\ UNCHANGED <<failures, opened, used, history>>

StampOpen(q) ==
  /\ At(q, "set_opened_at")
  /\ SetOpenedAt(req[q].source)
  /\ Goto(q, "next")
  /\ torn' = [torn EXCEPT ![req[q].source] = ~req[q].intact]
  /\ UNCHANGED <<open, failures, used, hits>>

\* An exception no adapter declares or a value that does not convert, a closed connection,
\* a server that stops: the transaction is lost, the keys stay as they are.
Abort(q) ==
  /\ ~At(q, "idle")
  /\ torn' = [s \in Sources |-> torn[s] \/ q \in Opening(s)]
  /\ req' = [req EXCEPT ![q] = Idle]
  /\ UNCHANGED <<guardVars, hits>>

Aging ==
  /\ Tick
  /\ hits' = [s \in Sources |-> IF Blocked(s)' THEN hits[s] ELSE 0]
  /\ UNCHANGED <<req, torn>>

WindowEnds ==
  /\ NewWindow
  /\ UNCHANGED <<req, history>>

Init ==
  /\ GuardInit
  /\ req = [q \in Requests |-> Idle]
  /\ hits = [s \in Sources |-> 0]
  /\ torn = [s \in Sources |-> FALSE]

GetProject(q) ==
  \/ GetProjectSucceeds(q)
  \/ GetProjectFailsForGood(q)
  \/ GetProjectFailsForNow(q)

\* What a request does once begun, of its own accord.
Proceed(q) ==
  \/ \E s \in Sources : NextSource(q, s)
  \/ ReadState(q) \/ ReadOpenedAt(q) \/ TryAcquire(q)
  \/ GetProject(q)
  \/ RecordSuccess(q) \/ CountFailure(q) \/ MarkOpen(q) \/ StampOpen(q)
  \/ Commit(q)

Next ==
  \/ \E q \in Requests :
       \/ \E todo \in SUBSET Sources \ {{}} : Begin(q, todo)
       \/ Proceed(q)
       \/ Abort(q)
  \/ Aging
  \/ WindowEnds

\* Time passes, and the server goes on with a request it has begun: every outside call has
\* a time limit.  No one has to begin a request, and none has to die.
Fairness ==
  /\ \A q \in Requests : WF_vars(Proceed(q))
  /\ WF_vars(Aging)
  /\ WF_vars(WindowEnds)

Spec == Init /\ [][Next]_vars /\ Fairness

(***************************************************************************)
(* Properties.                                                             *)
(***************************************************************************)

\* Keys and requests have their types; a request asks a source while it has attempts left.
TypeOK ==
  /\ GuardTypeOK
  /\ req \in [Requests -> Request]
  /\ hits \in [Sources -> 0 .. HitBound + 1]
  /\ torn \in [Sources -> BOOLEAN]
  /\ \A q \in Requests :
       /\ req[q].step \in {"idle", "next"} \/ req[q].source # NoSource
       /\ At(q, "get_project") => req[q].tries < MaxAttempts

\* ADR-005, "a shared circuit breaker": from the moment the breaker blocks a source until
\* it stops, the source is called only by requests that had passed the check before, each
\* of which has its attempts; the request that opened it is not among them.
LeftAlone == \A s \in Sources : hits[s] <= HitBound

\* Outside an opening in progress the three keys of a breaker agree: it is marked open and
\* stamped just when the failures have reached the threshold.  Only an opening that died
\* between its commands, or was overtaken by a success, leaves them apart, and the next one
\* that completes brings them together.
KeysAgree ==
  \A s \in Sources :
    Opening(s) = {} /\ ~torn[s] =>
      /\ s \in open <=> failures[s] = Threshold
      /\ s \in open <=> opened[s] # Never

\* A request that was begun ends, whatever its sources answer and other requests record.
RequestsEnd == \A q \in Requests : ~At(q, "idle") ~> At(q, "idle")

\* A source the breaker blocks is let through again, however late the failures of requests
\* already past the check stamp the breaker anew: no source is locked out.
TriedAgain == \A s \in Sources : Blocked(s) ~> ~Blocked(s)
=============================================================================
