------------------------------- MODULE Forecasts -------------------------------
(***************************************************************************)
(* Forecast runs, scenario proposals and scenario results of one project   *)
(* (app/analytics/service.py, app/scenario/service.py), as overlapping     *)
(* requests write them, and what generate_report then assembles of them.   *)
(*                                                                         *)
(* Every SELECT sees what was committed when it ran.  A row's created_at   *)
(* is now(), in PostgreSQL the start of the transaction that inserts it,   *)
(* so "latest" means begun last, not committed last.  The four runs of one *)
(* run_all_engines share a stamp and are one entry of forecast; so do the  *)
(* results of one run_all_scenarios.                                       *)
(***************************************************************************)
EXTENDS Integers, Sequences, FiniteSets, Tables

CONSTANTS
  Requests,       \* requests on this project that can be in progress at once
  ScenarioOrder,  \* the scenario types run_all_scenarios goes through, in order
  ProposalId,     \* primary keys project_scenario_overrides rows may get
  Reviewers,      \* users with scenario.review_override
  Usable,         \* values an engine computes with
  Unusable,       \* values it rejects: no positive number
  NoPoint,        \* the field has no data point
  NoProposal,     \* a NULL project_override_id
  Nobody,         \* a NULL reviewed_by
  MaxStamp,       \* bound: transactions that insert runs or results
  MaxEvents       \* bound: requests begun and changes of the data

ASSUME ForecastAssumption ==
  /\ ScenarioOrder \in Seq({ScenarioOrder[i] : i \in DOMAIN ScenarioOrder})
  /\ ScenarioOrder # <<>>
  /\ Usable \intersect Unusable = {}
  /\ NoPoint \notin Usable \cup Unusable
  /\ NoProposal \notin ProposalId
  /\ Nobody \notin Reviewers
  /\ MaxStamp \in Nat
  /\ MaxEvents \in Nat

VARIABLES
  fact,       \* the current value of the two fields the engines read
  events,     \* history: how many requests began and data changed
  clock,      \* the last transaction start
  forecast,   \* forecast_runs, by created_at
  proposal,   \* project_scenario_overrides
  result,     \* scenario_results, by created_at
  req         \* requests in progress

vars == <<fact, events, clock, forecast, proposal, result, req>>

Fields == {"price", "units"}
Facts == [Fields -> Usable \cup Unusable \cup {NoPoint}]
EngineOrder == <<"pricing", "sales_velocity", "financial", "risk">>
Engines == {EngineOrder[i] : i \in DOMAIN EngineOrder}
Scenarios == {ScenarioOrder[i] : i \in DOMAIN ScenarioOrder}
NoRun == 0
Stamps == 1 .. MaxStamp
Pins == [Engines -> Stamps \cup {NoRun}]
NoPins == [e \in Engines |-> NoRun]

Batch ==
  [fact : Facts,             \* input_manifest and the values it names
   ok   : SUBSET Engines]    \* engines whose status is success

ProposalRow ==
  [scenario    : Scenarios,
   version     : Nat \ {0},
   is_active   : BOOLEAN,
   reviewed_by : Reviewers \cup {Nobody},
   approved    : BOOLEAN,
   decisions   : SUBSET BOOLEAN,   \* history: the decisions committed on it
   alone       : BOOLEAN]          \* history: no request overlapped its submission

\* A result is a success when every engine has a run to start from.
ResultRow == [pins : Pins, override : ProposalId \cup {NoProposal}]

Complete(res) == \A e \in Engines : res.pins[e] # NoRun

Idle == [op |-> "idle"]

Busy(r) == req[r].op # "idle"

At(r, ops, step) == req[r].op \in ops /\ req[r].step = step

\* A new request; alone stays TRUE while nothing else happens to the project.
Start(r, q) ==
  /\ ~Busy(r)
  /\ events < MaxEvents
  /\ events' = events + 1
  /\ req' = [p \in Requests |->
               IF p = r THEN [q EXCEPT !.alone = \A o \in Requests \ {r} : ~Busy(o)]
               ELSE IF Busy(p) THEN [req[p] EXCEPT !.alone = FALSE] ELSE Idle]

Step(r, q) ==
  /\ req' = [req EXCEPT ![r] = q]
  /\ UNCHANGED events

Finish(r) == Step(r, Idle)

(***************************************************************************)
(* run_all_engines, alone (POST forecast) or as the first part of a        *)
(* report: two reads of the data, then four runs in one transaction.       *)
(***************************************************************************)
Forecasting == {"forecast", "generate"}

BeginEngines(r, op) ==
  /\ clock < MaxStamp
  /\ Start(r, [op |-> op, step |-> "price", alone |-> TRUE, at |-> clock + 1,
               fact |-> [f \in Fields |-> NoPoint]])
  /\ clock' = clock + 1
  /\ UNCHANGED <<fact, forecast, proposal, result>>

ReadFact(r, field) ==
  /\ At(r, Forecasting, field)
  /\ Step(r, [req[r] EXCEPT !.fact[field] = fact[field],
                            !.step = IF field = "price" THEN "units" ELSE "engines"])
  /\ UNCHANGED <<fact, clock, forecast, proposal, result>>

\* Whether each calculate() returns; what it returns depends on nothing else that changes.
\* The financial engine composes the outputs of the first two; risk has a fallback for all.
PricingOk(facts) == facts["price"] \in Usable
SalesVelocityOk(facts) == facts["units"] \in Usable
FinancialOk(facts) == PricingOk(facts) /\ SalesVelocityOk(facts)

Succeeding(facts) ==
  {e \in Engines :
     /\ e = "pricing" => PricingOk(facts)
     /\ e = "sales_velocity" => SalesVelocityOk(facts)
     /\ e = "financial" => FinancialOk(facts)}

\* The first scenario of a run to come, in a transaction that has yet to begin or began at.
Scenarist(q, at) ==
  [op |-> q.op, step |-> "override", alone |-> q.alone, at |-> at, batch |-> q.at,
   next |-> 1, override |-> NoProposal, pins |-> NoPins, done |-> <<>>]

CommitEngines(r) ==
  /\ At(r, Forecasting, "engines")
  /\ forecast' = Insert(forecast, req[r].at,
                        [fact |-> req[r].fact, ok |-> Succeeding(req[r].fact)])
  /\ IF req[r].op = "generate" THEN Step(r, Scenarist(req[r], NoRun)) ELSE Finish(r)
  /\ UNCHANGED <<fact, clock, proposal, result>>

(***************************************************************************)
(* run_all_scenarios, alone or after the engines: for each scenario type   *)
(* the active proposal, then the latest success of each engine, one query  *)
(* at a time; the results are committed together.                          *)
(***************************************************************************)
Projecting == {"scenarios", "generate"}

BeginScenarios(r) ==
  /\ clock < MaxStamp
  /\ Start(r, Scenarist([op |-> "scenarios", alone |-> TRUE, at |-> NoRun], clock + 1))
  /\ clock' = clock + 1
  /\ UNCHANGED <<fact, forecast, proposal, result>>

Active(scenario) ==
  {o \in DOMAIN proposal : proposal[o].scenario = scenario /\ proposal[o].is_active}

\* get_active_project_override: any one of the active rows, in no promised order.
First(rows) == IF rows = {} THEN {NoProposal} ELSE rows

\* Fault: a proposal is applied before it is reviewed.
ApplicableUnreviewed(o) == o

\* The proposal that is merged into the adjustments.
Applicable(o) == IF o # NoProposal /\ proposal[o].approved THEN o ELSE NoProposal

Scenario(q) == ScenarioOrder[Len(q.done) + 1]

\* The first query of a report's second transaction begins it.
ReadOverride(r, o) ==
  LET q == req[r] IN
    /\ At(r, Projecting, "override")
    /\ o \in First(Active(Scenario(q)))
    /\ q.at = NoRun => clock < MaxStamp
    /\ clock' = IF q.at = NoRun THEN clock + 1 ELSE clock
    /\ Step(r, [q EXCEPT !.at = IF @ = NoRun THEN clock + 1 ELSE @,
                         !.step = "runs", !.override = Applicable(o)])
    /\ UNCHANGED <<fact, forecast, proposal, result>>

Successes(e) == {t \in DOMAIN forecast : e \in forecast[t].ok}

\* Fault: whichever run the query happens to return first.
LatestSuccessUnordered(e) == IF Successes(e) = {} THEN {NoRun} ELSE Successes(e)

\* Fault: the runs are listed oldest first.
LatestSuccessAscending(e) ==
  IF Successes(e) = {} THEN {NoRun}
  ELSE {t \in Successes(e) : \A u \in Successes(e) : t <= u}

\* _latest_success_run.
LatestSuccess(e) ==
  IF Successes(e) = {} THEN {NoRun}
  ELSE {t \in Successes(e) : \A u \in Successes(e) : u <= t}

\* run_scenario stops at the first engine without a run.
ReadRun(r, run) ==
  LET q == req[r]
      e == EngineOrder[q.next]
      pins == [q.pins EXCEPT ![e] = run]
      done == Append(q.done, [pins |-> pins, override |-> q.override])
  IN
    /\ At(r, Projecting, "runs")
    /\ run \in LatestSuccess(e)
    /\ Step(r, IF run # NoRun /\ q.next < Len(EngineOrder)
               THEN [q EXCEPT !.pins = pins, !.next = @ + 1]
               ELSE [q EXCEPT !.pins = NoPins, !.next = 1, !.override = NoProposal,
                              !.done = done,
                              !.step = IF Len(done) < Len(ScenarioOrder) THEN "override"
                                       ELSE "results"])
    /\ UNCHANGED <<fact, clock, forecast, proposal, result>>

CommitScenarios(r) ==
  LET q == req[r] IN
    /\ At(r, Projecting, "results")
    /\ result' = Insert(result, q.at, q.done)
    /\ IF q.op = "generate"
       THEN Step(r, [op |-> q.op, step |-> "list_runs", alone |-> q.alone,
                     batch |-> q.batch, at |-> q.at])
       ELSE Finish(r)
    /\ UNCHANGED <<fact, clock, forecast, proposal>>

(***************************************************************************)
(* assemble_report_json: the newest runs, then the newest results.         *)
(***************************************************************************)
\* Fault: the rows are listed oldest first.
LatestAscending(table) ==
  IF table = {} THEN NoRun ELSE CHOOSE t \in table : \A u \in table : t <= u

Latest(table) ==
  IF table = {} THEN NoRun ELSE CHOOSE t \in table : \A u \in table : u <= t

ListRuns(r) ==
  /\ At(r, {"generate"}, "list_runs")
  /\ Step(r, [op |-> "generate", step |-> "list_results", alone |-> req[r].alone,
              batch |-> req[r].batch, at |-> req[r].at, forecasts |-> Latest(DOMAIN forecast)])
  /\ UNCHANGED <<fact, clock, forecast, proposal, result>>

ListResults(r) ==
  /\ At(r, {"generate"}, "list_results")
  /\ Step(r, [op |-> "generate", step |-> "assembled", alone |-> req[r].alone,
              batch |-> req[r].batch, at |-> req[r].at, forecasts |-> req[r].forecasts,
              scenarios |-> Latest(DOMAIN result)])
  /\ UNCHANGED <<fact, clock, forecast, proposal, result>>

(***************************************************************************)
(* submit_project_override and review_project_override.                    *)
(***************************************************************************)
BeginSubmit(r, scenario, previous) ==
  /\ previous \in First(Active(scenario))
  /\ Start(r, [op |-> "submit", step |-> "commit", alone |-> TRUE,
               scenario |-> scenario, previous |-> previous])
  /\ UNCHANGED <<fact, clock, forecast, proposal, result>>

\* Fault: the first proposal of a scenario is version zero.
NewProposalFromZero(q) ==
  [scenario |-> q.scenario,
   version |-> IF q.previous = NoProposal THEN 0 ELSE proposal[q.previous].version + 1,
   is_active |-> TRUE, reviewed_by |-> Nobody, approved |-> FALSE,
   decisions |-> {}, alone |-> q.alone]

NewProposal(q) ==
  [scenario |-> q.scenario,
   version |-> IF q.previous = NoProposal THEN 1 ELSE proposal[q.previous].version + 1,
   is_active |-> TRUE, reviewed_by |-> Nobody, approved |-> FALSE,
   decisions |-> {}, alone |-> q.alone]

\* Fault: an approved proposal is left active beside its successor.
RetiringUnapproved(o) ==
  IF o = NoProposal \/ Applicable(o) = o THEN proposal
  ELSE [proposal EXCEPT ![o].is_active = FALSE]

\* The table once the proposal read as active is retired.
Retiring(o) ==
  IF o = NoProposal THEN proposal ELSE [proposal EXCEPT ![o].is_active = FALSE]

CommitSubmit(r, o) ==
  LET q == req[r] IN
    /\ q.op = "submit"
    /\ o \notin DOMAIN proposal
    /\ proposal' = Insert(Retiring(q.previous), o, NewProposal(q))
    /\ Finish(r)
    /\ UNCHANGED <<fact, clock, forecast, result>>

BeginReview(r, u, o, approved) ==
  /\ proposal[o].reviewed_by = Nobody
  /\ proposal[o].is_active
  /\ Start(r, [op |-> "review", step |-> "commit", alone |-> TRUE,
               user |-> u, override |-> o, approved |-> approved])
  /\ UNCHANGED <<fact, clock, forecast, proposal, result>>

CommitReview(r) ==
  LET q == req[r] IN
    /\ q.op = "review"
    /\ proposal' = [proposal EXCEPT ![q.override].reviewed_by = q.user,
                                    ![q.override].approved = q.approved,
                                    ![q.override].decisions = @ \cup {q.approved}]
    /\ Finish(r)
    /\ UNCHANGED <<fact, clock, forecast, result>>

(***************************************************************************)
(* A report's snapshot leaves this module; a request may die; and the data *)
(* move under an acquisition, a document or an override.                   *)
(***************************************************************************)
RequestEnds(r) ==
  /\ Busy(r)
  /\ Finish(r)
  /\ UNCHANGED <<fact, clock, forecast, proposal, result>>

FactChanges(field, value) ==
  /\ fact[field] # value
  /\ events < MaxEvents
  /\ events' = events + 1
  /\ fact' = [fact EXCEPT ![field] = value]
  /\ req' = [r \in Requests |-> IF Busy(r) THEN [req[r] EXCEPT !.alone = FALSE] ELSE Idle]
  /\ UNCHANGED <<clock, forecast, proposal, result>>

\* To begin with a field is fit for use or has no data point.
Init ==
  /\ fact \in [Fields -> Usable \cup {NoPoint}]
  /\ events = 0
  /\ clock = 0
  /\ forecast = <<>>
  /\ proposal = <<>>
  /\ result = <<>>
  /\ req = [r \in Requests |-> Idle]

Next ==
  \/ \E r \in Requests :
       \/ \E op \in Forecasting : BeginEngines(r, op)
       \/ \E field \in Fields : ReadFact(r, field)
       \/ CommitEngines(r)
       \/ BeginScenarios(r)
       \/ \E o \in ProposalId \cup {NoProposal} : ReadOverride(r, o)
       \/ \E run \in Stamps \cup {NoRun} : ReadRun(r, run)
       \/ CommitScenarios(r)
       \/ ListRuns(r) \/ ListResults(r)
       \/ \E scenario \in Scenarios, o \in ProposalId \cup {NoProposal} :
            BeginSubmit(r, scenario, o)
       \/ \E o \in ProposalId : CommitSubmit(r, o)
       \/ \E u \in Reviewers, o \in DOMAIN proposal, approved \in BOOLEAN :
            BeginReview(r, u, o, approved)
       \/ CommitReview(r)
       \/ RequestEnds(r)
  \/ \E field \in Fields, value \in Usable \cup Unusable : FactChanges(field, value)

Spec == Init /\ [][Next]_vars

(***************************************************************************)
(* Properties.                                                             *)
(***************************************************************************)

\* Runs, proposals and results have their types, and no stamp is ahead of the clock.
TypeOK ==
  /\ fact \in Facts
  /\ events \in 0 .. MaxEvents
  /\ clock \in 0 .. MaxStamp
  /\ DOMAIN forecast \subseteq 1 .. clock
  /\ \A t \in DOMAIN forecast : forecast[t] \in Batch
  /\ DOMAIN proposal \subseteq ProposalId
  /\ \A o \in DOMAIN proposal : proposal[o] \in ProposalRow
  /\ DOMAIN result \subseteq 1 .. clock
  /\ \A t \in DOMAIN result :
       Len(result[t]) = Len(ScenarioOrder) /\ \A i \in DOMAIN result[t] : result[t][i] \in ResultRow

Results == UNION {{result[t][i] : i \in DOMAIN result[t]} : t \in DOMAIN result}

\* The four runs a scenario starts from were read one by one while others commit: each is a
\* success of its engine, and no run is of a younger forecast than the risk run, which never
\* fails.
PinsConsistent ==
  \A res \in Results, e \in Engines :
    res.pins[e] # NoRun =>
      /\ e \in forecast[res.pins[e]].ok
      /\ Complete(res) => res.pins[e] <= res.pins["risk"]

\* The scenarios of one request are compared side by side: a later one never starts from
\* an older run than an earlier one did, whatever commits in between.
ScenariosInStep ==
  \A t \in DOMAIN result : \A i, j \in DOMAIN result[t] : \A e \in Engines :
    i <= j /\ result[t][j].pins[e] # NoRun => result[t][i].pins[e] <= result[t][j].pins[e]

\* ScenarioResult: "set only when an approved ProjectScenarioOverride was actually merged
\* ... never a pending/rejected one": a result only applies a proposal someone had approved,
\* even where two reviews of it overlapped and the last one to commit rejects it.
AppliedWasApproved ==
  \A res \in Results : res.override # NoProposal => TRUE \in proposal[res.override].decisions

\* "At most one can ever be under consideration": as long as no submission overlapped
\* another request, the proposals of a scenario are numbered without gap or repeat and
\* just the last one is active.
OneProposal ==
  (\A o \in DOMAIN proposal : proposal[o].alone) =>
    \A o \in DOMAIN proposal :
      LET line == {p \in DOMAIN proposal : proposal[p].scenario = proposal[o].scenario}
      IN  /\ proposal[o].version <= Cardinality(line)
          /\ \A p \in line : proposal[p].version = proposal[o].version => p = o
          /\ proposal[o].is_active <=> proposal[o].version = Cardinality(line)

\* generate_report: "fresh engine + scenario runs, not whatever happens to already exist":
\* undisturbed, a report shows its own runs, made of the data as they stand, and its own
\* scenario results; and if its engines all succeeded the scenarios start from them.
ReportIsFresh ==
  \A r \in Requests :
    At(r, {"generate"}, "assembled") /\ req[r].alone =>
      /\ req[r].forecasts = req[r].batch
      /\ forecast[req[r].batch].fact = fact
      /\ req[r].scenarios = req[r].at
      /\ forecast[req[r].batch].ok = Engines =>
           \A i \in DOMAIN result[req[r].at] : \A e \in Engines :
             result[req[r].at][i].pins[e] = req[r].batch
=============================================================================
