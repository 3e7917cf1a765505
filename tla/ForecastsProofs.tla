---------------------------- MODULE ForecastsProofs ----------------------------
(***************************************************************************)
(* Theorems about Forecasts, for any number of overlapping requests,       *)
(* scenario types, proposals, reviewers and values.                        *)
(***************************************************************************)
EXTENDS Forecasts, FiniteSetTheorems, WellFoundedInduction, TLAPS

\* The rows of a table have a youngest.
LEMMA Greatest ==
  ASSUME NEW n \in Nat, NEW S \in SUBSET (1 .. n), S # {}
  PROVE  \E t \in S : \A u \in S : u <= t
<1> DEFINE R == OpToRel(<, Nat)
           below == {n - t : t \in S}
<1>1. IsWellFoundedOn(R, Nat)
  BY NatLessThanWellFounded
<1>2. \A t \in S : t \in Nat /\ n - t \in Nat
  OBVIOUS
<1>3. below \subseteq Nat /\ below # {}
  BY <1>2
<1>4. \A a, b \in Nat : a < b => <<a, b>> \in R
  BY DEF OpToRel
<1> HIDE DEF R
<1>5. PICK x \in below : \A y \in below : ~(<<y, x>> \in R)
  <2> HIDE DEF below
  <2> QED BY <1>1, <1>3, WFMin
<1>6. PICK t \in S : x = n - t
  BY <1>5
<1>7. ASSUME NEW u \in S
      PROVE  u <= t
  <2>1. n - u \in below /\ n - u \in Nat /\ n - t \in Nat /\ u \in Nat /\ t \in Nat
    BY <1>2
  <2>2. ~(n - u < n - t)
    BY <1>4, <1>5, <1>6, <2>1
  <2> QED BY <2>1, <2>2
<1> QED BY <1>7

(***************************************************************************)
(* What a request holds at each of its steps.                              *)
(***************************************************************************)
EngineSteps == {"price", "units", "engines"}

EngineRun ==
  [op : Forecasting, step : EngineSteps, alone : BOOLEAN, at : Stamps, fact : Facts]

ScenarioSteps == {"override", "runs", "results"}

ScenarioRun ==
  [op : Projecting, step : ScenarioSteps, alone : BOOLEAN, at : Stamps \cup {NoRun},
   batch : Stamps \cup {NoRun}, next : 1 .. 4, override : ProposalId \cup {NoProposal},
   pins : Pins, done : Seq(ResultRow)]

Listing ==
  [op : {"generate"}, step : {"list_runs"}, alone : BOOLEAN,
   batch : Stamps \cup {NoRun}, at : Stamps]

ListingResults ==
  [op : {"generate"}, step : {"list_results"}, alone : BOOLEAN,
   batch : Stamps \cup {NoRun}, at : Stamps, forecasts : Stamps \cup {NoRun}]

Assembled ==
  [op : {"generate"}, step : {"assembled"}, alone : BOOLEAN,
   batch : Stamps \cup {NoRun}, at : Stamps, forecasts : Stamps \cup {NoRun},
   scenarios : Stamps \cup {NoRun}]

Submission ==
  [op : {"submit"}, step : {"commit"}, alone : BOOLEAN,
   scenario : Scenarios, previous : ProposalId \cup {NoProposal}]

Review ==
  [op : {"review"}, step : {"commit"}, alone : BOOLEAN,
   user : Reviewers, override : ProposalId, approved : BOOLEAN]

Held ==
  EngineRun \cup ScenarioRun \cup Listing \cup ListingResults \cup Assembled
    \cup Submission \cup Review

\* The operation and the step tell the kinds apart.
LEMMA HeldFacts ==
  ASSUME NEW q \in Held
  PROVE  /\ q.op \in {"forecast", "generate", "scenarios", "submit", "review"}
         /\ q.alone \in BOOLEAN
         /\ q \in EngineRun <=> q.step \in EngineSteps
         /\ q \in ScenarioRun <=> q.step \in ScenarioSteps
         /\ q \in Listing <=> q.step = "list_runs"
         /\ q \in ListingResults <=> q.step = "list_results"
         /\ q \in Assembled <=> q.step = "assembled"
         /\ q \in Submission <=> q.op = "submit"
         /\ q \in Review <=> q.op = "review"
<1>1. CASE q \in EngineRun
  BY <1>1 DEF EngineRun, ScenarioRun, Listing, ListingResults, Assembled, Submission, Review,
              EngineSteps, ScenarioSteps, Forecasting, Projecting
<1>2. CASE q \in ScenarioRun
  BY <1>2 DEF EngineRun, ScenarioRun, Listing, ListingResults, Assembled, Submission, Review,
              EngineSteps, ScenarioSteps, Forecasting, Projecting
<1>3. CASE q \in Listing \cup ListingResults \cup Assembled
  BY <1>3 DEF EngineRun, ScenarioRun, Listing, ListingResults, Assembled, Submission, Review,
              EngineSteps, ScenarioSteps, Forecasting, Projecting
<1>4. CASE q \in Submission \cup Review
  BY <1>4 DEF EngineRun, ScenarioRun, Listing, ListingResults, Assembled, Submission, Review,
              EngineSteps, ScenarioSteps, Forecasting, Projecting
<1> QED BY <1>1, <1>2, <1>3, <1>4 DEF Held

LEMMA IdleFacts == Idle.op = "idle" /\ Idle \notin Held
BY HeldFacts DEF Idle

\* Losing its history flag changes nothing else of what a request holds.
LEMMA DisturbedFacts ==
  ASSUME NEW q \in Held, NEW b \in BOOLEAN
  PROVE  LET d == [q EXCEPT !.alone = b] IN
           /\ d \in Held /\ d.op = q.op /\ d.step = q.step /\ d.alone = b
           /\ q \in EngineRun => d \in EngineRun /\ d.at = q.at /\ d.fact = q.fact
           /\ q \in ScenarioRun =>
                /\ d \in ScenarioRun /\ d.at = q.at /\ d.batch = q.batch /\ d.next = q.next
                /\ d.override = q.override /\ d.pins = q.pins /\ d.done = q.done
           /\ q \in Listing \cup ListingResults \cup Assembled => d.at = q.at
           /\ q \in Submission =>
                d \in Submission /\ d.scenario = q.scenario /\ d.previous = q.previous
           /\ q \in Review => d \in Review /\ d.override = q.override
<1> DEFINE d == [q EXCEPT !.alone = b]
<1>1. CASE q \in EngineRun
  <2>1. d \in EngineRun /\ d.op = q.op /\ d.step = q.step /\ d.alone = b /\ d.at = q.at /\ d.fact = q.fact
    BY <1>1 DEF EngineRun
  <2> QED BY <1>1, <2>1, HeldFacts DEF Held, EngineSteps, ScenarioSteps, EngineRun, Forecasting
<1>2. CASE q \in ScenarioRun
  <2>1. /\ d \in ScenarioRun /\ d.op = q.op /\ d.step = q.step /\ d.alone = b
        /\ d.at = q.at /\ d.batch = q.batch /\ d.next = q.next
        /\ d.override = q.override /\ d.pins = q.pins /\ d.done = q.done
    BY <1>2 DEF ScenarioRun
  <2> QED BY <1>2, <2>1, HeldFacts DEF Held, EngineSteps, ScenarioSteps, ScenarioRun, Projecting
<1>3. CASE q \in Listing \cup ListingResults \cup Assembled
  <2>1. /\ d \in Listing \cup ListingResults \cup Assembled
        /\ d.op = q.op /\ d.step = q.step /\ d.alone = b /\ d.at = q.at
    BY <1>3 DEF Listing, ListingResults, Assembled
  <2> QED BY <1>3, <2>1, HeldFacts DEF Held, EngineSteps, ScenarioSteps, Listing, ListingResults, Assembled
<1>4. CASE q \in Submission
  <2>1. /\ d \in Submission /\ d.op = q.op /\ d.step = q.step /\ d.alone = b
        /\ d.scenario = q.scenario /\ d.previous = q.previous
    BY <1>4 DEF Submission
  <2> QED BY <1>4, <2>1, HeldFacts DEF Held, EngineSteps, ScenarioSteps, Submission
<1>5. CASE q \in Review
  <2>1. /\ d \in Review /\ d.op = q.op /\ d.step = q.step /\ d.alone = b
        /\ d.override = q.override
    BY <1>5 DEF Review
  <2> QED BY <1>5, <2>1, HeldFacts DEF Held, EngineSteps, ScenarioSteps, Review
<1> HIDE DEF d
<1> QED BY <1>1, <1>2, <1>3, <1>4, <1>5 DEF Held, d

\* What stays of a request while another one takes a step.
Same(q, d) ==
  /\ q = Idle => d = Idle
  /\ q # Idle =>
       /\ q \in Held /\ d \in Held /\ d.op = q.op /\ d.step = q.step
       /\ d.alone => q.alone
       /\ q \in EngineRun => d \in EngineRun /\ d.at = q.at /\ d.fact = q.fact
       /\ q \in ScenarioRun =>
            /\ d \in ScenarioRun /\ d.at = q.at /\ d.batch = q.batch /\ d.next = q.next
            /\ d.override = q.override /\ d.pins = q.pins /\ d.done = q.done
       /\ q \in Listing \cup ListingResults \cup Assembled => d.at = q.at
       /\ q \in Submission =>
            d \in Submission /\ d.scenario = q.scenario /\ d.previous = q.previous
       /\ q \in Review => d \in Review /\ d.override = q.override

SameKind(a, b) ==
  /\ a \in EngineRun <=> b \in EngineRun
  /\ a \in ScenarioRun <=> b \in ScenarioRun
  /\ a \in Listing <=> b \in Listing
  /\ a \in ListingResults <=> b \in ListingResults
  /\ a \in Assembled <=> b \in Assembled
  /\ a \in Submission <=> b \in Submission
  /\ a \in Review <=> b \in Review

LEMMA KindsAgree ==
  ASSUME NEW a \in Held, NEW b \in Held, a.op = b.op, a.step = b.step
  PROVE  SameKind(a, b)
<1>1. /\ a \in EngineRun <=> a.step \in EngineSteps
      /\ a \in ScenarioRun <=> a.step \in ScenarioSteps
      /\ a \in Listing <=> a.step = "list_runs"
      /\ a \in ListingResults <=> a.step = "list_results"
      /\ a \in Assembled <=> a.step = "assembled"
      /\ a \in Submission <=> a.op = "submit"
      /\ a \in Review <=> a.op = "review"
  BY HeldFacts
<1>2. /\ b \in EngineRun <=> b.step \in EngineSteps
      /\ b \in ScenarioRun <=> b.step \in ScenarioSteps
      /\ b \in Listing <=> b.step = "list_runs"
      /\ b \in ListingResults <=> b.step = "list_results"
      /\ b \in Assembled <=> b.step = "assembled"
      /\ b \in Submission <=> b.op = "submit"
      /\ b \in Review <=> b.op = "review"
  BY HeldFacts
<1> QED BY <1>1, <1>2 DEF SameKind

(***************************************************************************)
(* Types.                                                                  *)
(***************************************************************************)
\* What a request holds fits the tables, and no stamp of its is ahead of the clock.
Fits(r) ==
  LET q == req[r] IN
    /\ q \in EngineRun => q.at <= clock
    /\ q \in ScenarioRun =>
         /\ q.at <= clock
         /\ q.step # "override" => q.at # NoRun
         /\ q.step = "results" => Len(q.done) = Len(ScenarioOrder)
         /\ q.step # "results" => Len(q.done) < Len(ScenarioOrder)
    /\ q \in Listing \cup ListingResults \cup Assembled => q.at <= clock
    /\ q \in Submission => q.previous \in DOMAIN proposal \cup {NoProposal}
    /\ q \in Review => q.override \in DOMAIN proposal

Known(r) == req[r] = Idle \/ (req[r] \in Held /\ Fits(r))

Typed ==
  /\ TypeOK
  /\ req = [r \in Requests |-> req[r]]
  /\ \A r \in Requests : Known(r)

\* A step of one request is a step of no other.
LEMMA Others ==
  ASSUME Typed, NEW r \in Requests, NEW q, Start(r, q) \/ Step(r, q)
  PROVE  /\ req' = [p \in Requests |-> req'[p]]
         /\ \A o \in Requests \ {r} : Same(req[o], req'[o])
<1>1. req' = [p \in Requests |-> req'[p]]
  BY DEF Start, Step, Typed
<1>2. ASSUME NEW o \in Requests \ {r}
      PROVE  Same(req[o], req'[o])
  <2>1. req[o] = Idle \/ req[o] \in Held
    BY DEF Typed, Known
  <2>2. req[o] = Idle <=> ~Busy(o)
    BY <2>1, IdleFacts, HeldFacts DEF Busy
  <2>3. req[o] # Idle => req'[o] = req[o] \/ req'[o] = [req[o] EXCEPT !.alone = FALSE]
    BY <2>2 DEF Start, Step, Typed
  <2>4. req[o] = Idle => req'[o] = Idle
    BY <2>2 DEF Start, Step, Typed
  <2>5. CASE req'[o] = req[o]
    BY <2>1, <2>5 DEF Same
  <2>6. CASE req[o] # Idle /\ req'[o] = [req[o] EXCEPT !.alone = FALSE]
    <3> DEFINE q0 == req[o]
               d == [q0 EXCEPT !.alone = FALSE]
    <3>1. q0 \in Held /\ d \in Held /\ q0 # Idle /\ ~d.alone
      BY <2>1, <2>6, DisturbedFacts
    <3>2. Same(q0, d)
      <4>1. /\ d.op = q0.op /\ d.step = q0.step
            /\ q0 \in EngineRun => d \in EngineRun /\ d.at = q0.at /\ d.fact = q0.fact
            /\ q0 \in ScenarioRun =>
                 /\ d \in ScenarioRun /\ d.at = q0.at /\ d.batch = q0.batch /\ d.next = q0.next
                 /\ d.override = q0.override /\ d.pins = q0.pins /\ d.done = q0.done
            /\ q0 \in Listing \cup ListingResults \cup Assembled => d.at = q0.at
            /\ q0 \in Submission =>
                 d \in Submission /\ d.scenario = q0.scenario /\ d.previous = q0.previous
            /\ q0 \in Review => d \in Review /\ d.override = q0.override
        BY <3>1, DisturbedFacts
      <4> HIDE DEF d, q0
      <4> QED BY <3>1, <4>1 DEF Same
    <3> QED BY <2>6, <3>2
  <2> QED BY <2>3, <2>4, <2>5, <2>6
<1> QED BY <1>1, <1>2

\* Only the flag of the request that starts depends on the others.
LEMMA Starts ==
  ASSUME Typed, NEW r \in Requests, NEW q \in Held, Start(r, q)
  PROVE  LET d == req'[r] IN
           /\ req[r] = Idle
           /\ d \in Held /\ d = [q EXCEPT !.alone = d.alone] /\ d.alone \in BOOLEAN
           /\ d.alone <=> \A o \in Requests \ {r} : req[o] = Idle
           /\ events' \in 0 .. MaxEvents
<1> DEFINE b == \A o \in Requests \ {r} : ~Busy(o)
<1>1. req[r] = Idle /\ req'[r] = [q EXCEPT !.alone = b]
  BY HeldFacts DEF Start, Busy, Typed, Known
<1>2. \A o \in Requests : req[o] = Idle <=> ~Busy(o)
  BY IdleFacts, HeldFacts DEF Busy, Typed, Known
<1>3. b \in BOOLEAN /\ (b <=> \A o \in Requests \ {r} : req[o] = Idle)
  BY <1>2
<1>4. events' \in 0 .. MaxEvents
  BY ForecastAssumption DEF Start, Typed, TypeOK
<1> HIDE DEF b
<1>5. req'[r].alone = b /\ req'[r] \in Held
  BY <1>1, <1>3, DisturbedFacts
<1> QED BY <1>1, <1>3, <1>4, <1>5

LEMMA StampFacts ==
  /\ MaxStamp \in Nat /\ MaxEvents \in Nat
  /\ \A t \in Stamps \cup {NoRun} : t \in 0 .. MaxStamp /\ t \in Nat
  /\ NoRun = 0 /\ NoRun \notin Stamps
  /\ Typed => clock \in Nat /\ events \in Nat
BY ForecastAssumption DEF Stamps, NoRun, Typed, TypeOK

\* Tables and clock move on; what the others hold still fits.
LEMMA TypedFrame ==
  ASSUME Typed, TypeOK', clock <= clock', DOMAIN proposal \subseteq DOMAIN proposal',
         NEW r \in Requests, NEW q, Start(r, q) \/ Step(r, q), Known(r)'
  PROVE  Typed'
<1>1. req' = [p \in Requests |-> req'[p]]
  BY Others
<1>2. ASSUME NEW o \in Requests \ {r}
      PROVE  Known(o)'
  <2>1. Same(req[o], req'[o]) /\ Known(o)
    BY Others DEF Typed
  <2>2. clock \in Nat /\ clock' \in Nat
    BY StampFacts DEF TypeOK
  <2>3. CASE req[o] = Idle
    BY <2>1, <2>3 DEF Same, Known
  <2>4. CASE req[o] # Idle
    <3>1. req[o] \in Held /\ Fits(o)
      BY <2>1, <2>4 DEF Known
    <3>2. req'[o] \in Held /\ req'[o].op = req[o].op /\ req'[o].step = req[o].step
      BY <2>1, <2>4 DEF Same
    <3>3. SameKind(req[o], req'[o])
      BY <3>1, <3>2, KindsAgree
    <3>4. CASE req[o] \in EngineRun
      BY <2>1, <2>2, <2>4, <3>1, <3>2, <3>3, <3>4, StampFacts
         DEF Same, Fits, SameKind, EngineRun, ScenarioRun, ScenarioSteps, EngineSteps, Known,
             Listing, ListingResults, Assembled, Submission, Review, Forecasting
    <3>5. CASE req[o] \in ScenarioRun
      <4>1. /\ req'[o].at = req[o].at /\ req'[o].done = req[o].done /\ req[o].at \in Nat
            /\ req'[o] \in ScenarioRun
        BY <2>1, <2>4, <3>5, StampFacts DEF Same, ScenarioRun
      <4>2. Fits(o)'
        BY <2>2, <3>1, <3>2, <3>5, <4>1 DEF Fits, EngineRun, ScenarioRun, ScenarioSteps,
             EngineSteps, Listing, ListingResults, Assembled, Submission, Review, Projecting
      <4> QED BY <3>2, <4>2 DEF Known
    <3>6. CASE req[o] \in Listing \cup ListingResults \cup Assembled
      BY <2>1, <2>2, <2>4, <3>1, <3>2, <3>3, <3>6, StampFacts
         DEF Same, Fits, SameKind, EngineRun, ScenarioRun, ScenarioSteps, EngineSteps, Known,
             Listing, ListingResults, Assembled, Submission, Review
    <3>7. CASE req[o] \in Submission
      BY <2>1, <2>4, <3>1, <3>2, <3>3, <3>7
         DEF Same, Fits, SameKind, EngineRun, ScenarioRun, ScenarioSteps, EngineSteps, Known,
             Listing, ListingResults, Assembled, Submission, Review
    <3>8. CASE req[o] \in Review
      BY <2>1, <2>4, <3>1, <3>2, <3>3, <3>8
         DEF Same, Fits, SameKind, EngineRun, ScenarioRun, ScenarioSteps, EngineSteps, Known,
             Listing, ListingResults, Assembled, Submission, Review
    <3> QED BY <3>1, <3>4, <3>5, <3>6, <3>7, <3>8 DEF Held
  <2> QED BY <2>3, <2>4
<1> QED BY <1>1, <1>2 DEF Typed

LEMMA EngineFacts ==
  /\ Engines = {"pricing", "sales_velocity", "financial", "risk"}
  /\ Len(EngineOrder) = 4 /\ DOMAIN EngineOrder = 1 .. 4
  /\ \A i \in 1 .. 4 : EngineOrder[i] \in Engines
  /\ EngineOrder[4] = "risk"
  /\ NoPins \in Pins
  /\ \A e \in Engines : NoPins[e] = NoRun
<1>1. Len(EngineOrder) = 4 /\ DOMAIN EngineOrder = 1 .. 4
  BY DEF EngineOrder
<1>2. Engines = {EngineOrder[1], EngineOrder[2], EngineOrder[3], EngineOrder[4]}
  BY <1>1 DEF Engines
<1>3. /\ EngineOrder[1] = "pricing" /\ EngineOrder[2] = "sales_velocity"
      /\ EngineOrder[3] = "financial" /\ EngineOrder[4] = "risk"
  BY DEF EngineOrder
<1> QED BY <1>1, <1>2, <1>3 DEF NoPins, Pins

LEMMA OrderFacts ==
  /\ Len(ScenarioOrder) \in Nat \ {0}
  /\ \A i \in 1 .. Len(ScenarioOrder) : ScenarioOrder[i] \in Scenarios
BY ForecastAssumption DEF Scenarios

(***************************************************************************)
(* One lemma for each handler, with the types.                             *)
(***************************************************************************)
LEMMA TypedBeginEngines ==
  ASSUME Typed, NEW r \in Requests, NEW op \in Forecasting, BeginEngines(r, op)
  PROVE  /\ Typed' /\ req'[r] \in EngineRun /\ req'[r].at = clock + 1 /\ req'[r].op = op
         /\ req'[r].step = "price" /\ clock' = clock + 1
         /\ UNCHANGED <<fact, forecast, proposal, result>>
         /\ req'[r].alone => \A o \in Requests \ {r} : req[o] = Idle
<1> DEFINE q == [op |-> op, step |-> "price", alone |-> TRUE, at |-> clock + 1,
                 fact |-> [f \in Fields |-> NoPoint]]
           d == req'[r]
<1>1. /\ Start(r, q) /\ clock < MaxStamp /\ clock' = clock + 1
      /\ UNCHANGED <<fact, forecast, proposal, result>>
  BY DEF BeginEngines
<1>2. clock + 1 \in Stamps /\ clock \in 0 .. MaxStamp /\ clock \in Nat /\ clock' \in 0 .. MaxStamp
  BY <1>1, StampFacts DEF Stamps, Typed, TypeOK
<1>3. q \in EngineRun
  BY <1>2 DEF EngineRun, EngineSteps, Facts
<1>4. q \in Held
  BY <1>3 DEF Held
<1>5. d \in Held /\ d = [q EXCEPT !.alone = d.alone] /\ d.alone \in BOOLEAN /\ events' \in 0 .. MaxEvents
      /\ (d.alone <=> \A o \in Requests \ {r} : req[o] = Idle)
  BY <1>1, <1>4, Starts
<1>6. d.op = op /\ d.step = "price" /\ d.at = clock + 1
  BY <1>5
<1>7. d \in EngineRun
  BY <1>5, <1>6, HeldFacts DEF EngineSteps
<1>8. TypeOK'
  <2>1. 1 .. clock \subseteq 1 .. clock'
    BY <1>1, <1>2
  <2> QED BY <1>1, <1>2, <1>5, <2>1 DEF Typed, TypeOK
<1>9. Known(r)'
  <2>1. d \notin ScenarioRun \cup Listing \cup ListingResults \cup Assembled \cup Submission \cup Review
    BY <1>7 DEF EngineRun, ScenarioRun, Listing, ListingResults, Assembled, Submission, Review,
                EngineSteps, ScenarioSteps
  <2> QED BY <1>1, <1>2, <1>5, <1>6, <2>1 DEF Known, Fits
<1>10. clock <= clock' /\ Known(r)'
  BY <1>1, <1>2, <1>9
<1>11. Typed'
  BY <1>1, <1>8, <1>10, TypedFrame
<1> QED BY <1>1, <1>5, <1>6, <1>7, <1>11

LEMMA AtFacts ==
  ASSUME Typed, NEW r \in Requests, req[r].op # "idle"
  PROVE  /\ req[r] \in Held /\ Fits(r)
         /\ req[r].step \in EngineSteps => req[r] \in EngineRun
         /\ req[r].step \in ScenarioSteps => req[r] \in ScenarioRun
         /\ req[r].step = "list_runs" => req[r] \in Listing
         /\ req[r].step = "list_results" => req[r] \in ListingResults
         /\ req[r].step = "assembled" => req[r] \in Assembled
         /\ req[r].op = "submit" => req[r] \in Submission
         /\ req[r].op = "review" => req[r] \in Review
<1>1. req[r] \in Held /\ Fits(r)
  BY IdleFacts DEF Typed, Known
<1> QED BY <1>1, HeldFacts

\* A step that leaves the tables alone.
LEMMA TypedMove ==
  ASSUME Typed, NEW r \in Requests, NEW q, Step(r, q), Known(r)',
         UNCHANGED <<fact, forecast, proposal, result>>,
         clock <= clock', clock' \in 0 .. MaxStamp
  PROVE  Typed'
<1>1. 1 .. clock \subseteq 1 .. clock'
  BY StampFacts
<1>2. TypeOK'
  BY <1>1 DEF Step, Typed, TypeOK
<1> QED BY <1>2, TypedFrame

LEMMA Steps ==
  ASSUME Typed, NEW r \in Requests, NEW q, Step(r, q)
  PROVE  /\ req'[r] = q /\ events' = events
         /\ q = Idle => Known(r)'
         /\ clock \in 0 .. MaxStamp /\ clock <= clock
BY StampFacts DEF Typed, Step, Known, TypeOK

LEMMA TypedReadFact ==
  ASSUME Typed, NEW r \in Requests, NEW field \in Fields, ReadFact(r, field)
  PROVE  LET q == req[r]
             d == req'[r]
         IN  /\ Typed' /\ q \in EngineRun /\ d \in EngineRun /\ d.op = q.op
             /\ d.alone = q.alone /\ d.at = q.at /\ q.step = field
             /\ d.step = IF field = "price" THEN "units" ELSE "engines"
             /\ d.fact[field] = fact[field]
             /\ \A f \in Fields \ {field} : d.fact[f] = q.fact[f]
             /\ UNCHANGED <<fact, clock, forecast, proposal, result>>
<1> DEFINE q == req[r]
           d == [q EXCEPT !.fact[field] = fact[field],
                          !.step = IF field = "price" THEN "units" ELSE "engines"]
<1>1. q \in EngineRun /\ Fits(r) /\ q.step = field
  BY AtFacts DEF ReadFact, At, Forecasting, EngineSteps, Fields
<1>2. Step(r, d) /\ UNCHANGED <<fact, clock, forecast, proposal, result>>
  BY DEF ReadFact
<1>3. fact[field] \in Usable \cup Unusable \cup {NoPoint} /\ q.fact \in Facts /\ q.at <= clock
  BY <1>1 DEF Typed, TypeOK, Facts, EngineRun, Fits
<1>4. /\ d.op = q.op /\ d.alone = q.alone /\ d.at = q.at
      /\ d.step = IF field = "price" THEN "units" ELSE "engines"
      /\ d.fact = [q.fact EXCEPT ![field] = fact[field]]
      /\ d \in EngineRun
  BY <1>1, <1>3 DEF EngineRun, EngineSteps, Facts
<1> HIDE DEF d
<1>5. d.fact[field] = fact[field] /\ \A f \in Fields \ {field} : d.fact[f] = q.fact[f]
  BY <1>3, <1>4 DEF Facts
<1>6. req'[r] = d /\ clock \in 0 .. MaxStamp /\ clock <= clock
  BY <1>2, Steps
<1>7. Known(r)'
  <2>1. d \notin ScenarioRun \cup Listing \cup ListingResults \cup Assembled \cup Submission \cup Review
    BY <1>4 DEF EngineRun, ScenarioRun, Listing, ListingResults, Assembled, Submission, Review,
                EngineSteps, ScenarioSteps
  <2> QED BY <1>2, <1>3, <1>4, <1>6, <2>1 DEF Known, Fits, Held
<1>8. Typed'
  BY <1>2, <1>6, <1>7, TypedMove
<1> QED BY <1>1, <1>2, <1>4, <1>5, <1>6, <1>8

\* A scenario run that has yet to read anything.
Fresh(q, op) ==
  /\ q \in ScenarioRun /\ q.op = op /\ q.step = "override" /\ q.next = 1
  /\ q.override = NoProposal /\ q.pins = NoPins /\ q.done = <<>>

LEMMA ScenaristFacts ==
  ASSUME NEW op \in Projecting, NEW alone \in BOOLEAN, NEW batch \in Stamps \cup {NoRun},
         NEW at \in Stamps \cup {NoRun}, NEW q, q.op = op, q.alone = alone, q.at = batch
  PROVE  LET d == Scenarist(q, at) IN
           /\ Fresh(d, op) /\ d.alone = alone /\ d.batch = batch /\ d.at = at
<1> DEFINE d == Scenarist(q, at)
<1>1. <<>> \in Seq(ResultRow) /\ NoPins \in Pins
  BY EngineFacts
<1> QED BY <1>1 DEF Scenarist, Fresh, ScenarioRun, ScenarioSteps

LEMMA FreshKnown ==
  ASSUME Typed, NEW r \in Requests, NEW op, Fresh(req[r], op)', req'[r].at <= clock'
  PROVE  Known(r)'
<1> DEFINE d == req'[r]
<1>1. d \notin EngineRun \cup Listing \cup ListingResults \cup Assembled \cup Submission \cup Review
  BY DEF Fresh, EngineRun, ScenarioRun, Listing, ListingResults, Assembled, Submission, Review,
         EngineSteps, ScenarioSteps
<1>2. Len(d.done) < Len(ScenarioOrder) /\ d.step = "override" /\ d \in Held
  BY OrderFacts DEF Fresh, Held
<1> QED BY <1>1, <1>2 DEF Known, Fits

LEMMA TypedCommitEngines ==
  ASSUME Typed, NEW r \in Requests, CommitEngines(r)
  PROVE  LET q == req[r]
             d == req'[r]
             new == [fact |-> q.fact, ok |-> Succeeding(q.fact)]
         IN  /\ Typed' /\ q \in EngineRun /\ q.step = "engines"
             /\ new \in Batch /\ forecast' = Insert(forecast, q.at, new)
             /\ \/ d = Idle
                \/ /\ q.op = "generate" /\ Fresh(d, "generate")
                   /\ d.alone = q.alone /\ d.batch = q.at /\ d.at = NoRun
             /\ UNCHANGED <<fact, clock, proposal, result>>
<1> DEFINE q == req[r]
           new == [fact |-> q.fact, ok |-> Succeeding(q.fact)]
<1>1. q \in EngineRun /\ Fits(r) /\ q.step = "engines"
  BY AtFacts DEF CommitEngines, At, Forecasting, EngineSteps
<1>2. /\ forecast' = Insert(forecast, q.at, new) /\ UNCHANGED <<fact, clock, proposal, result>>
      /\ \/ q.op = "generate" /\ Step(r, Scenarist(q, NoRun))
         \/ Step(r, Idle)
  BY DEF CommitEngines, Finish
<1>3. new \in Batch
  BY <1>1 DEF Batch, EngineRun, Succeeding
<1> HIDE DEF new
<1>4. q.at \in Stamps /\ q.at <= clock /\ clock \in 0 .. MaxStamp /\ q.alone \in BOOLEAN /\ q.at \in Nat /\ clock \in Nat
  BY <1>1, StampFacts DEF EngineRun, Fits, Typed, TypeOK
<1>5. q.op = "generate" => LET d == Scenarist(q, NoRun) IN
        /\ Fresh(d, "generate") /\ d.alone = q.alone /\ d.batch = q.at /\ d.at = NoRun
  <2>1. /\ "generate" \in Projecting /\ q.alone \in BOOLEAN /\ q.at \in Stamps \cup {NoRun}
        /\ NoRun \in Stamps \cup {NoRun}
    BY <1>4 DEF Projecting
  <2> HIDE DEF q
  <2> QED BY <2>1, ScenaristFacts
<1>6. PICK d : Step(r, d) /\ (\/ d = Idle
                             \/ /\ q.op = "generate" /\ Fresh(d, "generate")
                                /\ d.alone = q.alone /\ d.batch = q.at /\ d.at = NoRun)
  BY <1>2, <1>5
<1>7. req'[r] = d /\ events' = events
  BY <1>6, Steps
<1>8. Known(r)'
  <2>1. CASE d = Idle
    BY <1>7, <2>1 DEF Known
  <2>2. CASE Fresh(d, "generate") /\ d.at = NoRun
    BY <1>2, <1>4, <1>7, <2>2, FreshKnown, StampFacts
  <2> QED BY <1>6, <2>1, <2>2
<1>9. TypeOK'
  <2>1. /\ DOMAIN forecast' = DOMAIN forecast \cup {q.at}
        /\ \A t \in DOMAIN forecast' : forecast'[t] \in Batch
    BY <1>2, <1>3 DEF Insert, Typed, TypeOK
  <2>2. q.at \in 1 .. clock
    BY <1>4 DEF Stamps
  <2> QED BY <1>2, <1>7, <2>1, <2>2 DEF Typed, TypeOK
<1>10. Typed'
  BY <1>2, <1>4, <1>6, <1>8, <1>9, TypedFrame
<1> QED BY <1>1, <1>2, <1>3, <1>6, <1>7, <1>10 DEF new

LEMMA TypedBeginScenarios ==
  ASSUME Typed, NEW r \in Requests, BeginScenarios(r)
  PROVE  LET d == req'[r] IN
           /\ Typed' /\ Fresh(d, "scenarios") /\ d.at = clock + 1 /\ clock' = clock + 1
           /\ UNCHANGED <<fact, forecast, proposal, result>>
           /\ d.alone => \A o \in Requests \ {r} : req[o] = Idle
<1> DEFINE q0 == [op |-> "scenarios", alone |-> TRUE, at |-> NoRun]
           q == Scenarist(q0, clock + 1)
           d == req'[r]
<1>1. /\ Start(r, q) /\ clock < MaxStamp /\ clock' = clock + 1
      /\ UNCHANGED <<fact, forecast, proposal, result>>
  BY DEF BeginScenarios
<1>2. clock + 1 \in Stamps /\ clock \in 0 .. MaxStamp /\ clock \in Nat /\ clock' \in 0 .. MaxStamp
  BY <1>1, StampFacts DEF Stamps, Typed, TypeOK
<1>3. Fresh(q, "scenarios") /\ q.at = clock + 1
  <2>1. <<>> \in Seq(ResultRow) /\ NoPins \in Pins
    BY EngineFacts
  <2> QED BY <1>2, <2>1 DEF Scenarist, Fresh, ScenarioRun, ScenarioSteps, Projecting
<1> HIDE DEF q
<1>4. q \in Held
  BY <1>3 DEF Held, Fresh
<1>5. d \in Held /\ d = [q EXCEPT !.alone = d.alone] /\ d.alone \in BOOLEAN /\ events' \in 0 .. MaxEvents
      /\ (d.alone <=> \A o \in Requests \ {r} : req[o] = Idle)
  BY <1>1, <1>4, Starts
<1>6. Fresh(d, "scenarios") /\ d.at = clock + 1
  BY <1>3, <1>5 DEF Fresh, ScenarioRun
<1>7. TypeOK'
  <2>1. 1 .. clock \subseteq 1 .. clock'
    BY <1>1, <1>2
  <2> QED BY <1>1, <1>2, <1>5, <2>1 DEF Typed, TypeOK
<1>8. Known(r)' /\ clock <= clock'
  BY <1>1, <1>2, <1>6, FreshKnown
<1>9. Typed'
  BY <1>1, <1>7, <1>8, TypedFrame
<1> QED BY <1>1, <1>5, <1>6, <1>9

LEMMA ScenarioKnown ==
  ASSUME Typed, NEW r \in Requests, req'[r] \in ScenarioRun, req'[r].at <= clock',
         req'[r].step # "override" => req'[r].at # NoRun,
         req'[r].step = "results" => Len(req'[r].done) = Len(ScenarioOrder),
         req'[r].step # "results" => Len(req'[r].done) < Len(ScenarioOrder)
  PROVE  Known(r)'
<1> DEFINE d == req'[r]
<1>1. d \notin EngineRun \cup Listing \cup ListingResults \cup Assembled \cup Submission \cup Review
  BY DEF EngineRun, ScenarioRun, Listing, ListingResults, Assembled, Submission, Review,
         EngineSteps, ScenarioSteps
<1>2. d \in Held
  BY DEF Held
<1> QED BY <1>1, <1>2 DEF Known, Fits

LEMMA TypedReadOverride ==
  ASSUME Typed, NEW r \in Requests, NEW o \in ProposalId \cup {NoProposal}, ReadOverride(r, o)
  PROVE  LET q == req[r]
             d == req'[r]
         IN  /\ Typed' /\ q \in ScenarioRun /\ q.step = "override"
             /\ d \in ScenarioRun /\ d.op = q.op /\ d.step = "runs"
             /\ d.alone = q.alone /\ d.batch = q.batch /\ d.next = q.next
             /\ d.pins = q.pins /\ d.done = q.done /\ d.override = Applicable(o)
             /\ \/ q.at = NoRun /\ d.at = clock + 1 /\ clock' = clock + 1
                \/ q.at # NoRun /\ d.at = q.at /\ clock' = clock
             /\ o \in First(Active(Scenario(q)))
             /\ UNCHANGED <<fact, forecast, proposal, result>>
<1> DEFINE q == req[r]
           at == IF q.at = NoRun THEN clock + 1 ELSE q.at
           d == [q EXCEPT !.at = at, !.step = "runs", !.override = Applicable(o)]
<1>1. q \in ScenarioRun /\ Fits(r) /\ q.step = "override" /\ q.at <= clock
      /\ Len(q.done) < Len(ScenarioOrder)
  BY AtFacts DEF ReadOverride, At, Projecting, ScenarioSteps, Fits
<1>2. d = [q EXCEPT !.at = IF @ = NoRun THEN clock + 1 ELSE @,
                    !.step = "runs", !.override = Applicable(o)]
  BY <1>1 DEF ScenarioRun
<1>3. /\ Step(r, d) /\ UNCHANGED <<fact, forecast, proposal, result>>
      /\ o \in First(Active(Scenario(q)))
      /\ q.at = NoRun => clock < MaxStamp
      /\ clock' = IF q.at = NoRun THEN clock + 1 ELSE clock
  BY <1>2 DEF ReadOverride
<1>4. /\ clock \in 0 .. MaxStamp /\ clock \in Nat /\ MaxStamp \in Nat
      /\ q.at \in Stamps \cup {NoRun} /\ q.at \in Nat
  BY <1>1, StampFacts DEF Typed, TypeOK, ScenarioRun
<1>5. at \in Stamps /\ at <= clock' /\ clock <= clock' /\ clock' \in 0 .. MaxStamp
  BY <1>1, <1>3, <1>4 DEF Stamps, NoRun
<1>6. Applicable(o) \in ProposalId \cup {NoProposal}
  BY DEF Applicable
<1>7. /\ d \in ScenarioRun /\ d.op = q.op /\ d.step = "runs" /\ d.alone = q.alone
      /\ d.batch = q.batch /\ d.next = q.next /\ d.pins = q.pins /\ d.done = q.done
      /\ d.override = Applicable(o) /\ d.at = at
  <2> HIDE DEF at
  <2> QED BY <1>1, <1>5, <1>6 DEF ScenarioRun, ScenarioSteps
<1> HIDE DEF d
<1>8. req'[r] = d
  BY <1>3, Steps
<1>9. Known(r)'
  BY <1>1, <1>5, <1>7, <1>8, StampFacts, ScenarioKnown
<1>10. Typed'
  BY <1>3, <1>5, <1>9, TypedMove
<1> QED BY <1>1, <1>3, <1>7, <1>8, <1>10

LEMMA LatestSuccessFacts ==
  ASSUME Typed, NEW e, NEW run, run \in LatestSuccess(e)
  PROVE  /\ run \in Stamps \cup {NoRun}
         /\ run = NoRun => Successes(e) = {}
         /\ run # NoRun => run \in DOMAIN forecast /\ e \in forecast[run].ok
         /\ \A t \in DOMAIN forecast : e \in forecast[t].ok => t <= run
<1>1. \A t \in DOMAIN forecast : t \in Stamps /\ t \in 1 .. MaxStamp
  BY StampFacts DEF Typed, TypeOK, Stamps
<1> QED BY <1>1, StampFacts DEF LatestSuccess, Successes

LEMMA TypedReadRun ==
  ASSUME Typed, NEW r \in Requests, NEW run \in Stamps \cup {NoRun}, ReadRun(r, run)
  PROVE  LET q == req[r]
             d == req'[r]
             e == EngineOrder[q.next]
             pins == [q.pins EXCEPT ![e] = run]
             row == [pins |-> pins, override |-> q.override]
         IN  /\ Typed' /\ q \in ScenarioRun /\ q.step = "runs"
             /\ e \in Engines /\ pins \in Pins /\ row \in ResultRow /\ run \in LatestSuccess(e)
             /\ d \in ScenarioRun /\ d.op = q.op /\ d.alone = q.alone /\ d.batch = q.batch
             /\ d.at = q.at
             /\ \/ /\ d.step = "runs" /\ d.pins = pins /\ d.next = q.next + 1
                   /\ d.override = q.override /\ d.done = q.done
                   /\ run # NoRun /\ q.next < 4
                \/ /\ d.step \in {"override", "results"} /\ d.pins = NoPins /\ d.next = 1
                   /\ d.override = NoProposal /\ d.done = Append(q.done, row)
                   /\ run = NoRun \/ q.next = 4
             /\ UNCHANGED <<fact, clock, forecast, proposal, result>>
<1> DEFINE q == req[r]
           e == EngineOrder[q.next]
           pins == [q.pins EXCEPT ![e] = run]
           row == [pins |-> pins, override |-> q.override]
           done == Append(q.done, row)
           more == [q EXCEPT !.pins = pins, !.next = q.next + 1]
           last == [q EXCEPT !.pins = NoPins, !.next = 1, !.override = NoProposal,
                             !.done = done,
                             !.step = IF Len(done) < Len(ScenarioOrder) THEN "override"
                                      ELSE "results"]
<1>1. /\ q \in ScenarioRun /\ Fits(r) /\ q.step = "runs" /\ q.at <= clock /\ q.at # NoRun
      /\ Len(q.done) < Len(ScenarioOrder)
  BY AtFacts DEF ReadRun, At, Projecting, ScenarioSteps, Fits
<1>2. more = [q EXCEPT !.pins = pins, !.next = @ + 1]
  BY <1>1 DEF ScenarioRun
<1>3. /\ run \in LatestSuccess(e)
      /\ \/ run # NoRun /\ q.next < 4 /\ Step(r, more)
         \/ (run = NoRun \/ ~(q.next < 4)) /\ Step(r, last)
      /\ UNCHANGED <<fact, clock, forecast, proposal, result>>
  BY <1>2, EngineFacts DEF ReadRun
<1>4. q.next \in 1 .. 4 /\ q.pins \in Pins /\ q.done \in Seq(ResultRow)
      /\ q.override \in ProposalId \cup {NoProposal}
  BY <1>1 DEF ScenarioRun
<1>5. e \in Engines /\ pins \in Pins /\ row \in ResultRow
  BY <1>4, EngineFacts DEF Pins, ResultRow
<1> HIDE DEF e, pins
<1>6. done \in Seq(ResultRow) /\ Len(done) = Len(q.done) + 1 /\ Len(done) <= Len(ScenarioOrder)
  <2> HIDE DEF row
  <2> QED BY <1>1, <1>4, <1>5, OrderFacts
<1> HIDE DEF row, done
<1>7. q.next < 4 =>
        /\ more \in ScenarioRun /\ more.op = q.op /\ more.alone = q.alone /\ more.batch = q.batch
        /\ more.at = q.at /\ more.step = "runs" /\ more.pins = pins /\ more.next = q.next + 1
        /\ more.override = q.override /\ more.done = q.done
  <2>1. q.next < 4 => q.next + 1 \in 1 .. 4
    BY <1>4
  <2> HIDE DEF q
  <2> QED BY <1>1, <1>4, <1>5, <2>1 DEF ScenarioRun
<1>8. /\ last \in ScenarioRun /\ last.op = q.op /\ last.alone = q.alone /\ last.batch = q.batch
      /\ last.at = q.at /\ last.pins = NoPins /\ last.next = 1
      /\ last.override = NoProposal /\ last.done = done
      /\ last.step = IF Len(done) < Len(ScenarioOrder) THEN "override" ELSE "results"
  <2>1. /\ 1 \in 1 .. 4 /\ NoPins \in Pins
        /\ (IF Len(done) < Len(ScenarioOrder) THEN "override" ELSE "results") \in ScenarioSteps
    BY EngineFacts DEF ScenarioSteps
  <2> HIDE DEF q
  <2> QED BY <1>1, <1>4, <1>6, <2>1 DEF ScenarioRun
<1>9. CASE run # NoRun /\ q.next < 4 /\ Step(r, more)
  <2> HIDE DEF more
  <2>1. req'[r] = more /\ clock \in 0 .. MaxStamp /\ clock <= clock
    BY <1>9, Steps
  <2>2. Known(r)'
    BY <1>1, <1>3, <1>7, <1>9, <2>1, ScenarioKnown
  <2>3. Typed'
    BY <1>3, <1>9, <2>1, <2>2, TypedMove
  <2> QED BY <1>1, <1>3, <1>5, <1>7, <1>9, <2>1, <2>3 DEF row, e, pins
<1>10. CASE (run = NoRun \/ ~(q.next < 4)) /\ Step(r, last)
  <2> HIDE DEF last
  <2>1. req'[r] = last /\ clock \in 0 .. MaxStamp /\ clock <= clock
    BY <1>10, Steps
  <2>2. Len(done) \in Nat /\ Len(ScenarioOrder) \in Nat
    BY <1>6, OrderFacts
  <2>3. /\ last.step = "results" => Len(last.done) = Len(ScenarioOrder)
        /\ last.step # "results" => Len(last.done) < Len(ScenarioOrder)
    BY <1>6, <1>8, <2>2
  <2>4. Known(r)'
    BY <1>1, <1>3, <1>8, <2>1, <2>3, ScenarioKnown
  <2>5. Typed'
    BY <1>3, <1>10, <2>1, <2>4, TypedMove
  <2>6. run = NoRun \/ q.next = 4
    BY <1>4, <1>10
  <2> QED BY <1>1, <1>3, <1>5, <1>8, <2>1, <2>5, <2>6 DEF row, done, e, pins
<1> QED BY <1>3, <1>9, <1>10

LEMMA TypedCommitScenarios ==
  ASSUME Typed, NEW r \in Requests, CommitScenarios(r)
  PROVE  LET q == req[r]
             d == req'[r]
         IN  /\ Typed' /\ q \in ScenarioRun /\ q.step = "results" /\ q.at \in Stamps
             /\ result' = Insert(result, q.at, q.done)
             /\ \/ d = Idle
                \/ /\ d \in Listing /\ q.op = "generate"
                   /\ d.alone = q.alone /\ d.batch = q.batch /\ d.at = q.at
             /\ UNCHANGED <<fact, clock, forecast, proposal>>
<1> DEFINE q == req[r]
           next == [op |-> q.op, step |-> "list_runs", alone |-> q.alone,
                    batch |-> q.batch, at |-> q.at]
<1>1. /\ q \in ScenarioRun /\ Fits(r) /\ q.step = "results" /\ q.at <= clock /\ q.at # NoRun
      /\ Len(q.done) = Len(ScenarioOrder)
  BY AtFacts DEF CommitScenarios, At, Projecting, ScenarioSteps, Fits
<1>2. /\ result' = Insert(result, q.at, q.done) /\ UNCHANGED <<fact, clock, forecast, proposal>>
      /\ \/ q.op = "generate" /\ Step(r, next)
         \/ Step(r, Idle)
  BY DEF CommitScenarios, Finish
<1>3. /\ q.at \in Stamps /\ q.alone \in BOOLEAN /\ q.batch \in Stamps \cup {NoRun}
      /\ q.done \in Seq(ResultRow)
  BY <1>1 DEF ScenarioRun
<1>4. q.op = "generate" =>
        /\ next \in Listing /\ next.alone = q.alone /\ next.batch = q.batch /\ next.at = q.at
  BY <1>3 DEF Listing
<1>5. PICK d : Step(r, d) /\ (\/ d = Idle
                             \/ /\ d \in Listing /\ q.op = "generate"
                                /\ d.alone = q.alone /\ d.batch = q.batch /\ d.at = q.at)
  BY <1>2, <1>4
<1>6. req'[r] = d /\ events' = events /\ clock <= clock
  BY <1>5, Steps
<1>7. Known(r)'
  <2>1. CASE d = Idle
    BY <1>6, <2>1 DEF Known
  <2>2. CASE d \in Listing /\ d.at = q.at
    <3>1. d \notin EngineRun \cup ScenarioRun \cup Submission \cup Review
      BY <2>2 DEF EngineRun, ScenarioRun, Listing, Submission, Review, EngineSteps, ScenarioSteps
    <3> QED BY <1>1, <1>2, <1>6, <2>2, <3>1 DEF Known, Fits, Held
  <2> QED BY <1>5, <2>1, <2>2
<1>8. TypeOK'
  <2>1. /\ DOMAIN result' = DOMAIN result \cup {q.at} /\ result'[q.at] = q.done
        /\ \A t \in DOMAIN result \ {q.at} : result'[t] = result[t]
    BY <1>2 DEF Insert
  <2>2. q.at \in 1 .. clock
    BY <1>1, <1>3, StampFacts DEF Stamps
  <2>3. \A i \in DOMAIN q.done : q.done[i] \in ResultRow
    BY <1>3
  <2> QED BY <1>1, <1>2, <1>6, <2>1, <2>2, <2>3 DEF Typed, TypeOK
<1>9. Typed'
  BY <1>2, <1>5, <1>6, <1>7, <1>8, TypedFrame
<1> QED BY <1>1, <1>2, <1>3, <1>5, <1>6, <1>9

LEMMA LatestFacts ==
  ASSUME Typed, NEW T \in SUBSET (1 .. clock)
  PROVE  /\ Latest(T) \in Stamps \cup {NoRun}
         /\ T # {} => Latest(T) \in T /\ \A u \in T : u <= Latest(T)
<1>1. clock \in Nat /\ 1 .. clock \subseteq Stamps
  BY StampFacts DEF Stamps, Typed, TypeOK
<1>2. CASE T = {}
  BY <1>2 DEF Latest
<1>3. CASE T # {}
  <2>1. \E t \in T : \A u \in T : u <= t
    BY <1>1, <1>3, Greatest
  <2>2. Latest(T) \in T /\ \A u \in T : u <= Latest(T)
    BY <1>3, <2>1 DEF Latest
  <2> QED BY <1>1, <2>2
<1> QED BY <1>2, <1>3

LEMMA ListingKnown ==
  ASSUME Typed, NEW r \in Requests, req'[r] \in Listing \cup ListingResults \cup Assembled,
         req'[r].at <= clock'
  PROVE  Known(r)'
<1>1. req'[r] \notin EngineRun \cup ScenarioRun \cup Submission \cup Review
  BY DEF EngineRun, ScenarioRun, Listing, ListingResults, Assembled, Submission, Review,
         EngineSteps, ScenarioSteps
<1>2. req'[r] \in Held
  BY DEF Held
<1> QED BY <1>1, <1>2 DEF Known, Fits

LEMMA TypedListRuns ==
  ASSUME Typed, NEW r \in Requests, ListRuns(r)
  PROVE  LET q == req[r]
             d == req'[r]
         IN  /\ Typed' /\ q \in Listing /\ d \in ListingResults
             /\ d.alone = q.alone /\ d.batch = q.batch /\ d.at = q.at
             /\ d.forecasts = Latest(DOMAIN forecast)
             /\ UNCHANGED <<fact, clock, forecast, proposal, result>>
<1> DEFINE q == req[r]
           d == [op |-> "generate", step |-> "list_results", alone |-> q.alone,
                 batch |-> q.batch, at |-> q.at, forecasts |-> Latest(DOMAIN forecast)]
<1>1. q \in Listing /\ Fits(r) /\ q.at <= clock
  BY AtFacts DEF ListRuns, At, Fits
<1>2. Step(r, d) /\ UNCHANGED <<fact, clock, forecast, proposal, result>>
  BY DEF ListRuns
<1>3. Latest(DOMAIN forecast) \in Stamps \cup {NoRun}
  BY LatestFacts DEF Typed, TypeOK
<1>4. /\ d \in ListingResults /\ d.alone = q.alone /\ d.batch = q.batch /\ d.at = q.at
      /\ d.forecasts = Latest(DOMAIN forecast)
  BY <1>1, <1>3 DEF Listing, ListingResults
<1> HIDE DEF d
<1>5. req'[r] = d /\ clock \in 0 .. MaxStamp /\ clock <= clock
  BY <1>2, Steps
<1>6. Known(r)'
  BY <1>1, <1>2, <1>4, <1>5, ListingKnown
<1>7. Typed'
  BY <1>2, <1>5, <1>6, TypedMove
<1> QED BY <1>1, <1>2, <1>4, <1>5, <1>7

LEMMA TypedListResults ==
  ASSUME Typed, NEW r \in Requests, ListResults(r)
  PROVE  LET q == req[r]
             d == req'[r]
         IN  /\ Typed' /\ q \in ListingResults /\ d \in Assembled
             /\ d.alone = q.alone /\ d.batch = q.batch /\ d.at = q.at
             /\ d.forecasts = q.forecasts /\ d.scenarios = Latest(DOMAIN result)
             /\ UNCHANGED <<fact, clock, forecast, proposal, result>>
<1> DEFINE q == req[r]
           d == [op |-> "generate", step |-> "assembled", alone |-> q.alone,
                 batch |-> q.batch, at |-> q.at, forecasts |-> q.forecasts,
                 scenarios |-> Latest(DOMAIN result)]
<1>1. q \in ListingResults /\ Fits(r) /\ q.at <= clock
  BY AtFacts DEF ListResults, At, Fits
<1>2. Step(r, d) /\ UNCHANGED <<fact, clock, forecast, proposal, result>>
  BY DEF ListResults
<1>3. Latest(DOMAIN result) \in Stamps \cup {NoRun}
  BY LatestFacts DEF Typed, TypeOK
<1>4. /\ d \in Assembled /\ d.alone = q.alone /\ d.batch = q.batch /\ d.at = q.at
      /\ d.forecasts = q.forecasts /\ d.scenarios = Latest(DOMAIN result)
  BY <1>1, <1>3 DEF Assembled, ListingResults
<1> HIDE DEF d
<1>5. req'[r] = d /\ clock \in 0 .. MaxStamp /\ clock <= clock
  BY <1>2, Steps
<1>6. Known(r)'
  BY <1>1, <1>2, <1>4, <1>5, ListingKnown
<1>7. Typed'
  BY <1>2, <1>5, <1>6, TypedMove
<1> QED BY <1>1, <1>2, <1>4, <1>5, <1>7

LEMMA TypedBeginSubmit ==
  ASSUME Typed, NEW r \in Requests, NEW scenario \in Scenarios,
         NEW o \in ProposalId \cup {NoProposal}, BeginSubmit(r, scenario, o)
  PROVE  LET d == req'[r] IN
           /\ Typed' /\ d \in Submission /\ d.scenario = scenario /\ d.previous = o
           /\ o \in First(Active(scenario))
           /\ d.alone => \A p \in Requests \ {r} : req[p] = Idle
           /\ UNCHANGED <<fact, clock, forecast, proposal, result>>
<1> DEFINE q == [op |-> "submit", step |-> "commit", alone |-> TRUE,
                 scenario |-> scenario, previous |-> o]
           d == req'[r]
<1>1. /\ Start(r, q) /\ o \in First(Active(scenario))
      /\ UNCHANGED <<fact, clock, forecast, proposal, result>>
  BY DEF BeginSubmit
<1>2. q \in Submission
  BY DEF Submission
<1>3. q \in Held
  BY <1>2 DEF Held
<1>4. d \in Held /\ d = [q EXCEPT !.alone = d.alone] /\ d.alone \in BOOLEAN /\ events' \in 0 .. MaxEvents
      /\ (d.alone <=> \A p \in Requests \ {r} : req[p] = Idle)
  BY <1>1, <1>3, Starts
<1>5. d \in Submission /\ d.scenario = scenario /\ d.previous = o
  BY <1>4 DEF Submission
<1>6. o \in DOMAIN proposal \cup {NoProposal}
  BY <1>1 DEF First, Active
<1>7. d \notin EngineRun \cup ScenarioRun \cup Listing \cup ListingResults \cup Assembled \cup Review
  BY <1>5 DEF EngineRun, ScenarioRun, Listing, ListingResults, Assembled, Submission, Review,
              EngineSteps, ScenarioSteps
<1>8. Known(r)'
  BY <1>1, <1>4, <1>5, <1>6, <1>7 DEF Known, Fits
<1>9. TypeOK' /\ clock <= clock'
  BY <1>1, <1>4, StampFacts DEF Typed, TypeOK
<1>10. Typed'
  BY <1>1, <1>8, <1>9, TypedFrame
<1> QED BY <1>1, <1>4, <1>5, <1>10

LEMMA TypedBeginReview ==
  ASSUME Typed, NEW r \in Requests, NEW u \in Reviewers, NEW o \in DOMAIN proposal,
         NEW approved \in BOOLEAN, BeginReview(r, u, o, approved)
  PROVE  LET d == req'[r] IN
           /\ Typed' /\ d \in Review
           /\ d.alone => \A p \in Requests \ {r} : req[p] = Idle
           /\ UNCHANGED <<fact, clock, forecast, proposal, result>>
<1> DEFINE q == [op |-> "review", step |-> "commit", alone |-> TRUE,
                 user |-> u, override |-> o, approved |-> approved]
           d == req'[r]
<1>1. Start(r, q) /\ UNCHANGED <<fact, clock, forecast, proposal, result>>
  BY DEF BeginReview
<1>2. q \in Review
  BY DEF Review, Typed, TypeOK
<1>3. q \in Held
  BY <1>2 DEF Held
<1>4. d \in Held /\ d = [q EXCEPT !.alone = d.alone] /\ d.alone \in BOOLEAN /\ events' \in 0 .. MaxEvents
      /\ (d.alone <=> \A p \in Requests \ {r} : req[p] = Idle)
  BY <1>1, <1>3, Starts
<1>5. d \in Review /\ d.override = o
  BY <1>2, <1>4 DEF Review
<1>6. d \notin EngineRun \cup ScenarioRun \cup Listing \cup ListingResults \cup Assembled \cup Submission
  BY <1>5 DEF EngineRun, ScenarioRun, Listing, ListingResults, Assembled, Submission, Review,
              EngineSteps, ScenarioSteps
<1>7. Known(r)'
  BY <1>1, <1>4, <1>5, <1>6 DEF Known, Fits
<1>8. TypeOK' /\ clock <= clock'
  BY <1>1, <1>4, StampFacts DEF Typed, TypeOK
<1>9. Typed'
  BY <1>1, <1>7, <1>8, TypedFrame
<1> QED BY <1>1, <1>4, <1>5, <1>9

\* What no commit changes of a proposal.
Lasting(a, b) ==
  /\ b.scenario = a.scenario /\ b.version = a.version /\ b.alone = a.alone
  /\ a.decisions \subseteq b.decisions

LEMMA TypedCommitSubmit ==
  ASSUME Typed, NEW r \in Requests, NEW o \in ProposalId, CommitSubmit(r, o)
  PROVE  LET q == req[r] IN
           /\ Typed' /\ q \in Submission /\ req'[r] = Idle
           /\ q.previous \in DOMAIN proposal \cup {NoProposal}
           /\ o \notin DOMAIN proposal /\ DOMAIN proposal' = DOMAIN proposal \cup {o}
           /\ proposal'[o] = NewProposal(q) /\ NewProposal(q) \in ProposalRow
           /\ \A p \in DOMAIN proposal :
                /\ Lasting(proposal[p], proposal'[p])
                /\ proposal'[p].approved = proposal[p].approved
                /\ proposal'[p].is_active <=> p # q.previous /\ proposal[p].is_active
           /\ UNCHANGED <<fact, clock, forecast, result>>
<1> DEFINE q == req[r]
<1>1. q \in Submission /\ Fits(r) /\ q.previous \in DOMAIN proposal \cup {NoProposal}
  BY AtFacts DEF CommitSubmit, Fits
<1>2. /\ o \notin DOMAIN proposal
      /\ proposal' = Insert(Retiring(q.previous), o, NewProposal(q))
      /\ Step(r, Idle) /\ UNCHANGED <<fact, clock, forecast, result>>
  BY DEF CommitSubmit, Finish
<1>3. \A p \in DOMAIN proposal : proposal[p] \in ProposalRow
  BY DEF Typed, TypeOK
<1>4. NewProposal(q) \in ProposalRow
  <2>1. q.previous # NoProposal => proposal[q.previous].version + 1 \in Nat \ {0}
    BY <1>1, <1>3 DEF ProposalRow
  <2>2. (IF q.previous = NoProposal THEN 1 ELSE proposal[q.previous].version + 1) \in Nat \ {0}
    BY <2>1
  <2> QED BY <1>1, <2>2 DEF NewProposal, ProposalRow, Submission
<1>5. NoProposal \notin DOMAIN proposal
  BY ForecastAssumption DEF Typed, TypeOK
<1>6. /\ DOMAIN Retiring(q.previous) = DOMAIN proposal
      /\ \A p \in DOMAIN proposal :
           Retiring(q.previous)[p] = IF p = q.previous THEN [proposal[p] EXCEPT !.is_active = FALSE]
                                     ELSE proposal[p]
  BY <1>5 DEF Retiring
<1>7. ASSUME NEW p \in DOMAIN proposal
      PROVE  LET b == Retiring(q.previous)[p] IN
               /\ b \in ProposalRow /\ Lasting(proposal[p], b)
               /\ b.approved = proposal[p].approved
               /\ b.is_active <=> p # q.previous /\ proposal[p].is_active
  <2>1. CASE p = q.previous
    <3> DEFINE row == proposal[p]
               b == [row EXCEPT !.is_active = FALSE]
    <3>1. row \in ProposalRow /\ Retiring(q.previous)[p] = b
      BY <1>3, <1>6, <2>1
    <3> HIDE DEF row
    <3>2. /\ b \in ProposalRow /\ Lasting(row, b) /\ b.approved = row.approved
          /\ b.is_active = FALSE
      BY <3>1 DEF ProposalRow, Lasting
    <3> QED BY <2>1, <3>1, <3>2 DEF row
  <2>2. CASE p # q.previous
    BY <1>3, <1>6, <2>2 DEF ProposalRow, Lasting
  <2> QED BY <2>1, <2>2
<1>8. /\ DOMAIN proposal' = DOMAIN proposal \cup {o} /\ proposal'[o] = NewProposal(q)
      /\ \A p \in DOMAIN proposal : proposal'[p] = Retiring(q.previous)[p]
  BY <1>2, <1>6 DEF Insert
<1>9. req'[r] = Idle /\ Known(r)' /\ events' = events /\ clock <= clock'
  BY <1>2, Steps
<1>10. \A p \in DOMAIN proposal' : proposal'[p] \in ProposalRow
  BY <1>4, <1>7, <1>8
<1>11. TypeOK'
  BY <1>2, <1>8, <1>9, <1>10 DEF Typed, TypeOK
<1>12. Typed'
  BY <1>2, <1>8, <1>9, <1>11, TypedFrame
<1> QED BY <1>1, <1>2, <1>4, <1>7, <1>8, <1>9, <1>12

LEMMA TypedCommitReview ==
  ASSUME Typed, NEW r \in Requests, CommitReview(r)
  PROVE  /\ Typed' /\ req[r] \in Review /\ req'[r] = Idle
         /\ DOMAIN proposal' = DOMAIN proposal
         /\ \A p \in DOMAIN proposal :
              /\ Lasting(proposal[p], proposal'[p])
              /\ proposal'[p].is_active = proposal[p].is_active
              /\ proposal'[p].approved =>
                   proposal[p].approved \/ TRUE \in proposal'[p].decisions
         /\ UNCHANGED <<fact, clock, forecast, result>>
<1> DEFINE q == req[r]
           row == proposal[q.override]
           new == [row EXCEPT !.reviewed_by = q.user, !.approved = q.approved,
                              !.decisions = row.decisions \cup {q.approved}]
<1>1. q \in Review /\ Fits(r) /\ q.override \in DOMAIN proposal
  BY AtFacts DEF CommitReview, Fits
<1>2. \A p \in DOMAIN proposal : proposal[p] \in ProposalRow
  BY DEF Typed, TypeOK
<1>3. row \in ProposalRow /\ q.user \in Reviewers /\ q.approved \in BOOLEAN
  BY <1>1, <1>2 DEF Review
<1>4. /\ proposal' = [proposal EXCEPT ![q.override] = new]
      /\ Step(r, Idle) /\ UNCHANGED <<fact, clock, forecast, result>>
  BY <1>1, <1>3 DEF CommitReview, Finish, ProposalRow
<1>5. /\ new \in ProposalRow /\ Lasting(row, new) /\ new.is_active = row.is_active
      /\ new.approved => TRUE \in new.decisions
  BY <1>3 DEF ProposalRow, Lasting
<1> HIDE DEF new
<1>6. /\ DOMAIN proposal' = DOMAIN proposal /\ proposal'[q.override] = new
      /\ \A p \in DOMAIN proposal : p # q.override => proposal'[p] = proposal[p]
  BY <1>1, <1>4
<1>7. \A p \in DOMAIN proposal : Lasting(proposal[p], proposal[p])
  BY DEF Lasting
<1>8. req'[r] = Idle /\ Known(r)' /\ events' = events /\ clock <= clock'
  BY <1>4, Steps
<1>9. TypeOK'
  BY <1>2, <1>4, <1>5, <1>6, <1>8 DEF Typed, TypeOK
<1>10. Typed'
  BY <1>4, <1>6, <1>8, <1>9, TypedFrame
<1> QED BY <1>1, <1>4, <1>5, <1>6, <1>7, <1>8, <1>10

LEMMA TypedRequestEnds ==
  ASSUME Typed, NEW r \in Requests, RequestEnds(r)
  PROVE  /\ Typed' /\ req'[r] = Idle /\ Step(r, Idle)
         /\ UNCHANGED <<fact, clock, forecast, proposal, result>>
<1>1. Step(r, Idle) /\ UNCHANGED <<fact, clock, forecast, proposal, result>>
  BY DEF RequestEnds, Finish
<1>2. req'[r] = Idle /\ Known(r)' /\ clock \in 0 .. MaxStamp /\ clock <= clock
  BY <1>1, Steps
<1>3. Typed'
  BY <1>1, <1>2, TypedMove
<1> QED BY <1>1, <1>2, <1>3

\* Every request there is loses its flag.
LEMMA TypedFactChanges ==
  ASSUME Typed, NEW field \in Fields, NEW value \in Usable \cup Unusable,
         FactChanges(field, value)
  PROVE  /\ Typed'
         /\ \A r \in Requests : Same(req[r], req'[r]) /\ (req[r] # Idle => ~req'[r].alone)
         /\ UNCHANGED <<clock, forecast, proposal, result>>
<1>1. /\ events < MaxEvents /\ events' = events + 1 /\ fact' = [fact EXCEPT ![field] = value]
      /\ UNCHANGED <<clock, forecast, proposal, result>>
      /\ req' = [r \in Requests |-> IF Busy(r) THEN [req[r] EXCEPT !.alone = FALSE] ELSE Idle]
  BY DEF FactChanges
<1>2. fact' \in Facts /\ events' \in 0 .. MaxEvents
  BY <1>1, StampFacts DEF Typed, TypeOK, Facts
<1>3. TypeOK'
  BY <1>1, <1>2 DEF Typed, TypeOK
<1>4. ASSUME NEW r \in Requests
      PROVE  /\ Same(req[r], req'[r]) /\ (req[r] # Idle => ~req'[r].alone)
             /\ Known(r)'
  <2>1. CASE req[r] = Idle
    <3>1. req'[r] = Idle
      BY <1>1, <2>1, IdleFacts DEF Busy
    <3> QED BY <2>1, <3>1 DEF Same, Known
  <2>2. CASE req[r] # Idle
    <3> DEFINE q == req[r]
               d == [q EXCEPT !.alone = FALSE]
    <3>1. q \in Held /\ Fits(r) /\ Busy(r)
      BY <2>2, HeldFacts DEF Typed, Known, Busy
    <3>2. req'[r] = d
      BY <1>1, <3>1
    <3>3. /\ d \in Held /\ d.op = q.op /\ d.step = q.step /\ d.alone = FALSE
          /\ q \in EngineRun => d \in EngineRun /\ d.at = q.at /\ d.fact = q.fact
          /\ q \in ScenarioRun =>
               /\ d \in ScenarioRun /\ d.at = q.at /\ d.batch = q.batch /\ d.next = q.next
               /\ d.override = q.override /\ d.pins = q.pins /\ d.done = q.done
          /\ q \in Listing \cup ListingResults \cup Assembled => d.at = q.at
          /\ q \in Submission =>
               d \in Submission /\ d.scenario = q.scenario /\ d.previous = q.previous
          /\ q \in Review => d \in Review /\ d.override = q.override
      BY <3>1, DisturbedFacts
    <3> HIDE DEF d
    <3>4. SameKind(q, d)
      <4> HIDE DEF q
      <4> QED BY <3>1, <3>3, KindsAgree
    <3>5. Same(q, d) /\ ~d.alone
      BY <2>2, <3>1, <3>3 DEF Same
    <3>6. Fits(r)'
      BY <1>1, <3>1, <3>2, <3>3, <3>4 DEF Fits, SameKind
    <3> QED BY <3>2, <3>3, <3>5, <3>6 DEF Known
  <2> QED BY <2>1, <2>2
<1>5. req' = [r \in Requests |-> req'[r]]
  BY <1>1
<1> QED BY <1>1, <1>3, <1>4, <1>5 DEF Typed

Handler(r) ==
  \/ \E op \in Forecasting : BeginEngines(r, op)
  \/ \E field \in Fields : ReadFact(r, field)
  \/ CommitEngines(r)
  \/ BeginScenarios(r)
  \/ \E o \in ProposalId \cup {NoProposal} : ReadOverride(r, o)
  \/ \E run \in Stamps \cup {NoRun} : ReadRun(r, run)
  \/ CommitScenarios(r)
  \/ ListRuns(r) \/ ListResults(r)
  \/ \E scenario \in Scenarios, o \in ProposalId \cup {NoProposal} : BeginSubmit(r, scenario, o)
  \/ \E o \in ProposalId : CommitSubmit(r, o)
  \/ \E u \in Reviewers, o \in DOMAIN proposal, approved \in BOOLEAN : BeginReview(r, u, o, approved)
  \/ CommitReview(r)
  \/ RequestEnds(r)

LEMMA NextHandlers ==
  Next <=> \/ \E r \in Requests : Handler(r)
           \/ \E field \in Fields, value \in Usable \cup Unusable : FactChanges(field, value)
BY DEF Next, Handler

LEMMA HandlerSame ==
  ASSUME Typed, NEW r \in Requests, Handler(r)
  PROVE  \A o \in Requests \ {r} : Same(req[o], req'[o])
<1>1. \E q : Start(r, q) \/ Step(r, q)
  <2>1. ASSUME NEW op \in Forecasting, BeginEngines(r, op)
        PROVE  \E q : Start(r, q) \/ Step(r, q)
    BY <2>1 DEF BeginEngines
  <2>2. ASSUME NEW field \in Fields, ReadFact(r, field)
        PROVE  \E q : Start(r, q) \/ Step(r, q)
    BY <2>2 DEF ReadFact
  <2>3. CASE CommitEngines(r)
    BY <2>3 DEF CommitEngines, Finish
  <2>4. CASE BeginScenarios(r)
    BY <2>4 DEF BeginScenarios
  <2>5. ASSUME NEW o \in ProposalId \cup {NoProposal}, ReadOverride(r, o)
        PROVE  \E q : Start(r, q) \/ Step(r, q)
    BY <2>5 DEF ReadOverride
  <2>6. ASSUME NEW run \in Stamps \cup {NoRun}, ReadRun(r, run)
        PROVE  \E q : Start(r, q) \/ Step(r, q)
    BY <2>6 DEF ReadRun
  <2>7. CASE CommitScenarios(r)
    BY <2>7 DEF CommitScenarios, Finish
  <2>8. CASE ListRuns(r) \/ ListResults(r)
    BY <2>8 DEF ListRuns, ListResults
  <2>9. ASSUME NEW scenario \in Scenarios, NEW o \in ProposalId \cup {NoProposal},
               BeginSubmit(r, scenario, o)
        PROVE  \E q : Start(r, q) \/ Step(r, q)
    BY <2>9 DEF BeginSubmit
  <2>10. ASSUME NEW o \in ProposalId, CommitSubmit(r, o)
         PROVE  \E q : Start(r, q) \/ Step(r, q)
    BY <2>10 DEF CommitSubmit, Finish
  <2>11. ASSUME NEW u \in Reviewers, NEW o \in DOMAIN proposal, NEW approved \in BOOLEAN,
                BeginReview(r, u, o, approved)
         PROVE  \E q : Start(r, q) \/ Step(r, q)
    BY <2>11 DEF BeginReview
  <2>12. CASE CommitReview(r) \/ RequestEnds(r)
    BY <2>12 DEF CommitReview, RequestEnds, Finish
  <2> QED BY <2>1, <2>2, <2>3, <2>4, <2>5, <2>6, <2>7, <2>8, <2>9, <2>10, <2>11, <2>12 DEF Handler
<1> QED BY <1>1, Others

LEMMA TypedHandler ==
  ASSUME Typed, NEW r \in Requests, Handler(r)
  PROVE  Typed'
<1>1. ASSUME NEW op \in Forecasting, BeginEngines(r, op)
      PROVE  Typed'
  BY <1>1, TypedBeginEngines
<1>2. ASSUME NEW field \in Fields, ReadFact(r, field)
      PROVE  Typed'
  BY <1>2, TypedReadFact
<1>3. CASE CommitEngines(r)
  BY <1>3, TypedCommitEngines
<1>4. CASE BeginScenarios(r)
  BY <1>4, TypedBeginScenarios
<1>5. ASSUME NEW o \in ProposalId \cup {NoProposal}, ReadOverride(r, o)
      PROVE  Typed'
  BY <1>5, TypedReadOverride
<1>6. ASSUME NEW run \in Stamps \cup {NoRun}, ReadRun(r, run)
      PROVE  Typed'
  BY <1>6, TypedReadRun
<1>7. CASE CommitScenarios(r)
  BY <1>7, TypedCommitScenarios
<1>8. CASE ListRuns(r)
  BY <1>8, TypedListRuns
<1>9. CASE ListResults(r)
  BY <1>9, TypedListResults
<1>10. ASSUME NEW scenario \in Scenarios, NEW o \in ProposalId \cup {NoProposal},
              BeginSubmit(r, scenario, o)
       PROVE  Typed'
  BY <1>10, TypedBeginSubmit
<1>11. ASSUME NEW o \in ProposalId, CommitSubmit(r, o)
       PROVE  Typed'
  BY <1>11, TypedCommitSubmit
<1>12. ASSUME NEW u \in Reviewers, NEW o \in DOMAIN proposal, NEW approved \in BOOLEAN,
              BeginReview(r, u, o, approved)
       PROVE  Typed'
  BY <1>12, TypedBeginReview
<1>13. CASE CommitReview(r)
  BY <1>13, TypedCommitReview
<1>14. CASE RequestEnds(r)
  BY <1>14, TypedRequestEnds
<1> QED BY <1>1, <1>2, <1>3, <1>4, <1>5, <1>6, <1>7, <1>8, <1>9, <1>10, <1>11, <1>12, <1>13, <1>14
        DEF Handler

LEMMA TypedStep == Typed /\ [Next]_vars => Typed'
<1> SUFFICES ASSUME Typed, [Next]_vars
             PROVE  Typed'
  OBVIOUS
<1>1. CASE UNCHANGED vars
  <2>1. TypeOK'
    BY <1>1 DEF vars, Typed, TypeOK
  <2> QED BY <1>1, <2>1 DEF vars, Typed, Known, Fits
<1>2. CASE Next
  <2>1. ASSUME NEW r \in Requests, Handler(r)
        PROVE  Typed'
    BY <2>1, TypedHandler
  <2>2. ASSUME NEW field \in Fields, NEW value \in Usable \cup Unusable, FactChanges(field, value)
        PROVE  Typed'
    BY <2>2, TypedFactChanges
  <2> QED BY <1>2, <2>1, <2>2, NextHandlers
<1> QED BY <1>1, <1>2

LEMMA TypedInit == Init => Typed
<1> SUFFICES ASSUME Init
             PROVE  Typed
  OBVIOUS
<1>1. TypeOK
  <2>1. fact \in Facts
    BY DEF Init, Facts
  <2>2. DOMAIN forecast = {} /\ DOMAIN proposal = {} /\ DOMAIN result = {}
    BY DEF Init
  <2> QED BY <2>1, <2>2, ForecastAssumption DEF Init, TypeOK
<1> QED BY <1>1 DEF Init, Typed, Known

LEMMA TypedHolds == Spec => []Typed
BY TypedInit, TypedStep, PTL DEF Spec

\* However requests overlap, forecast_runs, project_scenario_overrides and scenario_results
\* keep their types, and no row is stamped with a transaction that has yet to begin.
THEOREM TypeCorrect == Spec => []TypeOK
<1>1. Typed => TypeOK
  BY DEF Typed
<1> QED BY <1>1, TypedHolds, PTL

(***************************************************************************)
(* What a scenario starts from.                                            *)
(***************************************************************************)
\* The runs are there and succeeded, and none is younger than the risk run.
RowPinned(res, runs) ==
  /\ \A e \in Engines : res.pins[e] # NoRun =>
       res.pins[e] \in DOMAIN runs /\ e \in runs[res.pins[e]].ok
  /\ Complete(res) => \A e \in Engines : res.pins[e] <= res.pins["risk"]

NotOlder(a, b) == \A e \in Engines : b.pins[e] # NoRun => a.pins[e] <= b.pins[e]

InStep(rows) == \A i, j \in DOMAIN rows : i <= j => NotOlder(rows[i], rows[j])

\* Only r will use its stamp, and r's scenarios so far are in step with each other and
\* with the one being read.
Gathered(r) ==
  LET q == req[r] IN
    /\ q \in EngineRun =>
         /\ q.at \notin DOMAIN forecast
         /\ \A o \in Requests \ {r} : req[o] \in EngineRun => req[o].at # q.at
    /\ q \in ScenarioRun =>
         /\ \A e \in Engines : q.pins[e] # NoRun =>
              q.pins[e] \in DOMAIN forecast /\ e \in forecast[q.pins[e]].ok
         /\ \A i \in DOMAIN q.done : RowPinned(q.done[i], forecast) /\ NotOlder(q.done[i], q)
         /\ InStep(q.done)

Pinned ==
  /\ Typed
  /\ \A t \in DOMAIN forecast : "risk" \in forecast[t].ok
  /\ \A t \in DOMAIN result :
       InStep(result[t]) /\ \A i \in DOMAIN result[t] : RowPinned(result[t][i], forecast)
  /\ \A r \in Requests : Gathered(r)

ForecastGrows == \A t \in DOMAIN forecast : t \in DOMAIN forecast' /\ forecast'[t] = forecast[t]

LEMMA RowStaysPinned ==
  ASSUME ForecastGrows, NEW res, RowPinned(res, forecast)
  PROVE  RowPinned(res, forecast')
BY DEF ForecastGrows, RowPinned

LEMMA SameKinds ==
  ASSUME NEW a, NEW b, Same(a, b)
  PROVE  /\ b \in EngineRun => a \in EngineRun /\ b.at = a.at
         /\ b \in ScenarioRun =>
              /\ a \in ScenarioRun /\ b.pins = a.pins /\ b.done = a.done
              /\ b.override = a.override
         /\ b \in Submission => a \in Submission /\ b.scenario = a.scenario /\ b.previous = a.previous
<1>1. CASE a = Idle
  <2>1. b = Idle /\ b \notin Held
    BY <1>1, IdleFacts DEF Same
  <2> QED BY <2>1 DEF Held
<1>2. CASE a # Idle
  <2>1. a \in Held /\ b \in Held /\ b.op = a.op /\ b.step = a.step
    BY <1>2 DEF Same
  <2>2. SameKind(a, b)
    BY <2>1, KindsAgree
  <2> QED BY <1>2, <2>2 DEF Same, SameKind
<1> QED BY <1>1, <1>2

LEMMA PinnedFrame ==
  ASSUME Pinned, Typed', ForecastGrows, NEW r \in Requests,
         \A o \in Requests \ {r} : Same(req[o], req'[o]),
         \A t \in DOMAIN forecast' \ DOMAIN forecast :
           /\ req[r] \in EngineRun /\ t = req[r].at /\ req'[r] \notin EngineRun
           /\ "risk" \in forecast'[t].ok,
         req'[r] \in EngineRun =>
           \/ req'[r].at = clock + 1
           \/ req[r] \in EngineRun /\ req'[r].at = req[r].at,
         \A t \in DOMAIN result' :
           \/ t \in DOMAIN result /\ result'[t] = result[t]
           \/ InStep(result'[t]) /\ \A i \in DOMAIN result'[t] : RowPinned(result'[t][i], forecast),
         req'[r] \in ScenarioRun =>
           /\ \A e \in Engines : req'[r].pins[e] # NoRun =>
                req'[r].pins[e] \in DOMAIN forecast' /\ e \in forecast'[req'[r].pins[e]].ok
           /\ \A i \in DOMAIN req'[r].done :
                RowPinned(req'[r].done[i], forecast') /\ NotOlder(req'[r].done[i], req'[r])
           /\ InStep(req'[r].done)
  PROVE  Pinned'
<1>1. \A t \in DOMAIN forecast' : "risk" \in forecast'[t].ok
  BY DEF Pinned, ForecastGrows
<1>2. ASSUME NEW t \in DOMAIN result'
      PROVE  InStep(result'[t]) /\ \A i \in DOMAIN result'[t] : RowPinned(result'[t][i], forecast')
  <2>1. InStep(result'[t]) /\ \A i \in DOMAIN result'[t] : RowPinned(result'[t][i], forecast)
    BY DEF Pinned
  <2> QED BY <2>1, RowStaysPinned
<1>3. /\ clock \in Nat
      /\ \A o \in Requests : req[o] \in EngineRun =>
           req[o].at \in Nat /\ req[o].at <= clock /\ req[o].at \notin DOMAIN forecast
  <2>1. \A o \in Requests : req[o] \in EngineRun => Known(o) /\ req[o] # Idle
    BY IdleFacts DEF Pinned, Typed, Held
  <2> QED BY <2>1, StampFacts DEF Pinned, Gathered, Known, Fits, EngineRun
<1>4. ASSUME NEW o \in Requests \ {r}
      PROVE  /\ req'[o] \in EngineRun => req[o] \in EngineRun /\ req'[o].at = req[o].at
             /\ req'[o] \in ScenarioRun =>
                  req[o] \in ScenarioRun /\ req'[o].pins = req[o].pins /\ req'[o].done = req[o].done
  BY SameKinds
<1>5. ASSUME NEW o \in Requests \ {r}, req'[o] \in EngineRun
      PROVE  /\ req'[o].at \notin DOMAIN forecast'
             /\ \A p \in Requests \ {o} : req'[p] \in EngineRun => req'[p].at # req'[o].at
  <2>1. req[o] \in EngineRun /\ req'[o].at = req[o].at /\ Gathered(o)
    BY <1>4, <1>5 DEF Pinned
  <2>2. req'[o].at \notin DOMAIN forecast'
    BY <1>3, <2>1 DEF Gathered
  <2>3. ASSUME NEW p \in Requests \ {o}, req'[p] \in EngineRun
        PROVE  req'[p].at # req'[o].at
    <3>1. CASE p = r
      BY <1>3, <2>1, <2>3, <3>1 DEF Gathered
    <3>2. CASE p # r
      BY <1>4, <2>1, <2>3, <3>2 DEF Gathered
    <3> QED BY <3>1, <3>2
  <2> QED BY <2>2, <2>3
<1>6. ASSUME NEW o \in Requests \ {r}
      PROVE  Gathered(o)'
  <2>1. ASSUME req'[o] \in ScenarioRun
        PROVE  /\ \A e \in Engines : req'[o].pins[e] # NoRun =>
                    req'[o].pins[e] \in DOMAIN forecast' /\ e \in forecast'[req'[o].pins[e]].ok
               /\ \A i \in DOMAIN req'[o].done :
                    RowPinned(req'[o].done[i], forecast') /\ NotOlder(req'[o].done[i], req'[o])
               /\ InStep(req'[o].done)
    <3>1. req[o] \in ScenarioRun /\ req'[o].pins = req[o].pins /\ req'[o].done = req[o].done
          /\ Gathered(o)
      BY <1>4, <2>1 DEF Pinned
    <3>2. \A i \in DOMAIN req[o].done : RowPinned(req[o].done[i], forecast')
      BY <3>1, RowStaysPinned DEF Gathered
    <3> QED BY <3>1, <3>2 DEF Gathered, ForecastGrows, NotOlder
  <2> QED BY <1>5, <2>1 DEF Gathered
<1>7. Gathered(r)'
  <2>1. ASSUME req'[r] \in EngineRun
        PROVE  req'[r].at \notin DOMAIN forecast'
    <3>1. DOMAIN forecast' \subseteq DOMAIN forecast
      BY <2>1
    <3>2. \A t \in DOMAIN forecast : t \in 1 .. clock
      BY DEF Pinned, Typed, TypeOK
    <3> QED BY <1>3, <2>1, <3>1, <3>2
  <2>2. ASSUME req'[r] \in EngineRun, NEW o \in Requests \ {r}, req'[o] \in EngineRun
        PROVE  req'[o].at # req'[r].at
    BY <1>5, <2>2
  <2> QED BY <2>1, <2>2 DEF Gathered
<1> QED BY <1>1, <1>2, <1>6, <1>7 DEF Pinned

LEMMA Disjoint ==
  /\ Idle \notin EngineRun \cup ScenarioRun
  /\ \A q \in Listing \cup ListingResults \cup Assembled \cup Submission \cup Review :
       q \notin EngineRun \cup ScenarioRun
  /\ \A q \in EngineRun : q \notin ScenarioRun
  /\ \A q \in EngineRun \cup ScenarioRun \cup Listing \cup ListingResults \cup Assembled \cup Review :
       q \notin Submission
  /\ Idle \notin Submission
<1>1. Idle \notin Held
  BY IdleFacts
<1> QED BY <1>1 DEF EngineRun, ScenarioRun, Listing, ListingResults, Assembled, Submission, Review,
              EngineSteps, ScenarioSteps, Held, Forecasting, Projecting

\* The handlers that compute nothing.
Quiet(r) ==
  \/ ListRuns(r) \/ ListResults(r)
  \/ \E scenario \in Scenarios, o \in ProposalId \cup {NoProposal} : BeginSubmit(r, scenario, o)
  \/ \E o \in ProposalId : CommitSubmit(r, o)
  \/ \E u \in Reviewers, o \in DOMAIN proposal, approved \in BOOLEAN : BeginReview(r, u, o, approved)
  \/ CommitReview(r)
  \/ RequestEnds(r)

LEMMA QuietFacts ==
  ASSUME Typed, NEW r \in Requests, Quiet(r)
  PROVE  /\ req'[r] \notin EngineRun \cup ScenarioRun
         /\ UNCHANGED <<fact, clock, forecast, result>>
         /\ DOMAIN proposal \subseteq DOMAIN proposal'
         /\ \A p \in DOMAIN proposal : Lasting(proposal[p], proposal'[p])
         /\ \A p \in DOMAIN proposal :
              proposal'[p].approved => proposal[p].approved \/ TRUE \in proposal'[p].decisions
         /\ \A p \in DOMAIN proposal' \ DOMAIN proposal : ~proposal'[p].approved
<1>1. \A p \in DOMAIN proposal : Lasting(proposal[p], proposal[p])
  BY DEF Lasting
<1>2. CASE ListRuns(r)
  BY <1>1, <1>2, TypedListRuns, Disjoint
<1>3. CASE ListResults(r)
  BY <1>1, <1>3, TypedListResults, Disjoint
<1>4. ASSUME NEW scenario \in Scenarios, NEW o \in ProposalId \cup {NoProposal},
             BeginSubmit(r, scenario, o)
      PROVE  req'[r] \in Submission /\ UNCHANGED <<fact, clock, forecast, proposal, result>>
  BY <1>4, TypedBeginSubmit
<1>5. ASSUME NEW o \in ProposalId, CommitSubmit(r, o)
      PROVE  /\ req'[r] = Idle /\ UNCHANGED <<fact, clock, forecast, result>>
             /\ DOMAIN proposal' = DOMAIN proposal \cup {o} /\ ~proposal'[o].approved
             /\ \A p \in DOMAIN proposal :
                  /\ Lasting(proposal[p], proposal'[p])
                  /\ proposal'[p].approved = proposal[p].approved
  <2>1. /\ req'[r] = Idle /\ UNCHANGED <<fact, clock, forecast, result>>
        /\ DOMAIN proposal' = DOMAIN proposal \cup {o} /\ proposal'[o] = NewProposal(req[r])
        /\ \A p \in DOMAIN proposal :
             /\ Lasting(proposal[p], proposal'[p])
             /\ proposal'[p].approved = proposal[p].approved
    BY <1>5, TypedCommitSubmit
  <2> QED BY <2>1 DEF NewProposal
<1>6. ASSUME NEW u \in Reviewers, NEW o \in DOMAIN proposal, NEW approved \in BOOLEAN,
             BeginReview(r, u, o, approved)
      PROVE  req'[r] \in Review /\ UNCHANGED <<fact, clock, forecast, proposal, result>>
  BY <1>6, TypedBeginReview
<1>7. CASE CommitReview(r)
  BY <1>7, TypedCommitReview, Disjoint
<1>8. CASE RequestEnds(r)
  BY <1>1, <1>8, TypedRequestEnds, Disjoint
<1>9. CASE \E scenario \in Scenarios, o \in ProposalId \cup {NoProposal} : BeginSubmit(r, scenario, o)
  BY <1>1, <1>4, <1>9, Disjoint
<1>10. CASE \E o \in ProposalId : CommitSubmit(r, o)
  BY <1>5, <1>10, Disjoint
<1>11. CASE \E u \in Reviewers, o \in DOMAIN proposal, approved \in BOOLEAN :
              BeginReview(r, u, o, approved)
  BY <1>1, <1>6, <1>11, Disjoint
<1> QED BY <1>2, <1>3, <1>7, <1>8, <1>9, <1>10, <1>11 DEF Quiet

\* A scenario run that has read nothing yet is in step with everything.
LEMMA FreshGathered ==
  ASSUME NEW q, NEW op, Fresh(q, op), NEW runs
  PROVE  /\ \A e \in Engines : q.pins[e] # NoRun =>
              q.pins[e] \in DOMAIN runs /\ e \in runs[q.pins[e]].ok
         /\ \A i \in DOMAIN q.done : RowPinned(q.done[i], runs) /\ NotOlder(q.done[i], q)
         /\ InStep(q.done)
         /\ q \in ScenarioRun /\ q \notin EngineRun
         /\ DOMAIN q.done = {} /\ q.override = NoProposal
<1>1. q.pins = NoPins /\ q.done = <<>> /\ q \in ScenarioRun /\ q.override = NoProposal
  BY DEF Fresh
<1>2. DOMAIN q.done = {}
  BY <1>1
<1>3. q \notin EngineRun
  BY <1>1, Disjoint
<1> QED BY <1>1, <1>2, <1>3, EngineFacts DEF InStep

LEMMA PinnedReadRun ==
  ASSUME Pinned, NEW r \in Requests, NEW run \in Stamps \cup {NoRun}, ReadRun(r, run)
  PROVE  LET d == req'[r] IN
           /\ \A e \in Engines : d.pins[e] # NoRun =>
                d.pins[e] \in DOMAIN forecast /\ e \in forecast[d.pins[e]].ok
           /\ \A i \in DOMAIN d.done : RowPinned(d.done[i], forecast) /\ NotOlder(d.done[i], d)
           /\ InStep(d.done)
<1> DEFINE q == req[r]
           d == req'[r]
           e0 == EngineOrder[q.next]
           pins == [q.pins EXCEPT ![e0] = run]
           row == [pins |-> pins, override |-> q.override]
<1>1. Typed
  BY DEF Pinned
<1>2. /\ q \in ScenarioRun /\ e0 \in Engines /\ pins \in Pins /\ run \in LatestSuccess(e0)
      /\ q.next = 4 => e0 = "risk"
      /\ \/ d.pins = pins /\ d.done = q.done
         \/ d.pins = NoPins /\ d.done = Append(q.done, row) /\ (run = NoRun \/ q.next = 4)
  BY <1>1, TypedReadRun, EngineFacts
<1>3. /\ Gathered(r) /\ q.pins \in Pins /\ q.done \in Seq(ResultRow)
  BY <1>2 DEF Pinned, ScenarioRun
<1>4. /\ run # NoRun => run \in DOMAIN forecast /\ e0 \in forecast[run].ok
      /\ \A t \in DOMAIN forecast : e0 \in forecast[t].ok => t <= run
  BY <1>1, <1>2, LatestSuccessFacts
<1>5. \A e \in Engines : pins[e] = IF e = e0 THEN run ELSE q.pins[e]
  BY <1>2, <1>3 DEF Pins
<1>6. \A e \in Engines : pins[e] # NoRun => pins[e] \in DOMAIN forecast /\ e \in forecast[pins[e]].ok
  BY <1>2, <1>3, <1>4, <1>5 DEF Gathered
<1>7. ASSUME NEW i \in DOMAIN q.done, NEW e \in Engines, pins[e] # NoRun
      PROVE  q.done[i].pins[e] <= pins[e]
  <2>1. RowPinned(q.done[i], forecast) /\ NotOlder(q.done[i], q)
    BY <1>2, <1>3 DEF Gathered
  <2>2. CASE e # e0
    BY <1>5, <1>7, <2>1, <2>2 DEF NotOlder
  <2>3. CASE e = e0
    <3>1. pins[e] = run /\ run \in Nat
      BY <1>5, <2>3, StampFacts
    <3>2. CASE q.done[i].pins[e] = NoRun
      BY <3>1, <3>2 DEF NoRun
    <3>3. CASE q.done[i].pins[e] # NoRun
      BY <1>4, <2>1, <2>3, <3>1, <3>3 DEF RowPinned
    <3> QED BY <3>2, <3>3
  <2> QED BY <2>2, <2>3
<1> HIDE DEF pins
<1>8. CASE d.pins = pins /\ d.done = q.done
  BY <1>2, <1>3, <1>6, <1>7, <1>8 DEF Gathered, NotOlder
<1>9. CASE d.pins = NoPins /\ d.done = Append(q.done, row) /\ (run = NoRun \/ q.next = 4)
  <2>1. RowPinned(row, forecast)
    <3>1. ASSUME \A e \in Engines : pins[e] # NoRun
          PROVE  \A e \in Engines : pins[e] <= pins["risk"]
      <4>1. pins[e0] = run /\ e0 = "risk"
        BY <1>2, <1>5, <1>9, <3>1
      <4>2. \A e \in Engines : pins[e] \in DOMAIN forecast
        BY <1>6, <3>1
      <4> QED BY <1>4, <4>1, <4>2 DEF Pinned
    <3> QED BY <1>6, <3>1 DEF RowPinned, Complete
  <2>2. \A i \in DOMAIN q.done : NotOlder(q.done[i], row)
    BY <1>7 DEF NotOlder
  <2>3. NotOlder(row, row)
    <3>1. \A e \in Engines : pins[e] \in Nat
      BY <1>2, StampFacts DEF Pins
    <3> QED BY <3>1 DEF NotOlder
  <2> HIDE DEF row
  <2>4. /\ Len(q.done) \in Nat /\ DOMAIN q.done = 1 .. Len(q.done)
        /\ DOMAIN d.done = 1 .. (Len(q.done) + 1) /\ d.done[Len(q.done) + 1] = row
        /\ \A i \in DOMAIN q.done : d.done[i] = q.done[i]
    BY <1>3, <1>9
  <2>5. \A i \in DOMAIN d.done : i \in DOMAIN q.done \/ i = Len(q.done) + 1
    BY <2>4
  <2>6. \A i \in DOMAIN d.done : RowPinned(d.done[i], forecast)
    BY <1>2, <1>3, <2>1, <2>4, <2>5 DEF Gathered
  <2>7. InStep(d.done)
    <3> SUFFICES ASSUME NEW i \in DOMAIN d.done, NEW j \in DOMAIN d.done, i <= j
                 PROVE  NotOlder(d.done[i], d.done[j])
      BY DEF InStep
    <3>1. CASE j \in DOMAIN q.done
      <4>1. i \in DOMAIN q.done
        BY <2>4, <2>5, <3>1
      <4> QED BY <1>2, <1>3, <2>4, <3>1, <4>1 DEF Gathered, InStep
    <3>2. CASE j = Len(q.done) + 1
      BY <2>2, <2>3, <2>4, <2>5, <3>2
    <3> QED BY <2>5, <3>1, <3>2
  <2>8. \A e \in Engines : d.pins[e] = NoRun
    BY <1>9, EngineFacts
  <2> QED BY <2>6, <2>7, <2>8 DEF NotOlder
<1> QED BY <1>2, <1>8, <1>9

LEMMA PinnedHandler ==
  ASSUME Pinned, NEW r \in Requests, Handler(r)
  PROVE  Pinned'
<1> DEFINE q == req[r]
           d == req'[r]
<1>1. Typed /\ Typed' /\ \A o \in Requests \ {r} : Same(req[o], req'[o])
  BY TypedHandler, HandlerSame DEF Pinned
<1>2. ASSUME UNCHANGED <<forecast, result>>,
             d \in EngineRun => d.at = clock + 1 \/ (q \in EngineRun /\ d.at = q.at),
             d \in ScenarioRun =>
               /\ \A e \in Engines : d.pins[e] # NoRun =>
                    d.pins[e] \in DOMAIN forecast /\ e \in forecast[d.pins[e]].ok
               /\ \A i \in DOMAIN d.done :
                    RowPinned(d.done[i], forecast) /\ NotOlder(d.done[i], d)
               /\ InStep(d.done)
      PROVE  Pinned'
  <2>1. ForecastGrows /\ DOMAIN forecast' \ DOMAIN forecast = {} /\ forecast' = forecast
    BY <1>2 DEF ForecastGrows
  <2>2. \A t \in DOMAIN result' : t \in DOMAIN result /\ result'[t] = result[t]
    BY <1>2
  <2> QED BY <1>1, <1>2, <2>1, <2>2, PinnedFrame
<1>3. ASSUME NEW op \in Forecasting, BeginEngines(r, op)
      PROVE  Pinned'
  BY <1>1, <1>2, <1>3, TypedBeginEngines, Disjoint
<1>4. ASSUME NEW field \in Fields, ReadFact(r, field)
      PROVE  Pinned'
  BY <1>1, <1>2, <1>4, TypedReadFact, Disjoint
<1>5. CASE CommitEngines(r)
  <2> DEFINE new == [fact |-> q.fact, ok |-> Succeeding(q.fact)]
  <2>1. /\ q \in EngineRun /\ forecast' = Insert(forecast, q.at, new) /\ result' = result
        /\ d = Idle \/ Fresh(d, "generate")
    BY <1>1, <1>5, TypedCommitEngines
  <2>2. q.at \notin DOMAIN forecast
    BY <2>1 DEF Pinned, Gathered
  <2>3. "risk" \in new.ok
    BY EngineFacts DEF Succeeding
  <2> HIDE DEF new
  <2>4. /\ ForecastGrows /\ DOMAIN forecast' = DOMAIN forecast \cup {q.at}
        /\ "risk" \in forecast'[q.at].ok
    BY <2>1, <2>2, <2>3 DEF Insert, ForecastGrows
  <2>5. d \notin EngineRun
    BY <2>1, Disjoint, FreshGathered
  <2>6. d \in ScenarioRun =>
          /\ \A e \in Engines : d.pins[e] # NoRun =>
               d.pins[e] \in DOMAIN forecast' /\ e \in forecast'[d.pins[e]].ok
          /\ \A i \in DOMAIN d.done :
               RowPinned(d.done[i], forecast') /\ NotOlder(d.done[i], d)
          /\ InStep(d.done)
    <3>1. CASE d = Idle
      BY <3>1, Disjoint
    <3>2. CASE Fresh(d, "generate")
      <4> HIDE DEF d
      <4> QED BY <3>2, FreshGathered
    <3> QED BY <2>1, <3>1, <3>2
  <2>7. \A t \in DOMAIN result' : t \in DOMAIN result /\ result'[t] = result[t]
    BY <2>1
  <2>8. \A t \in DOMAIN forecast' \ DOMAIN forecast : t = q.at
    BY <2>4
  <2> QED BY <1>1, <2>1, <2>4, <2>5, <2>6, <2>7, <2>8, PinnedFrame
<1>6. CASE BeginScenarios(r)
  <2>1. Fresh(d, "scenarios") /\ UNCHANGED <<forecast, result>>
    BY <1>1, <1>6, TypedBeginScenarios
  <2>2. /\ d \notin EngineRun
        /\ \A e \in Engines : d.pins[e] # NoRun =>
             d.pins[e] \in DOMAIN forecast /\ e \in forecast[d.pins[e]].ok
        /\ \A i \in DOMAIN d.done :
             RowPinned(d.done[i], forecast) /\ NotOlder(d.done[i], d)
        /\ InStep(d.done)
    <3> HIDE DEF d
    <3> QED BY <2>1, FreshGathered
  <2> QED BY <1>2, <2>1, <2>2
<1>7. ASSUME NEW o \in ProposalId \cup {NoProposal}, ReadOverride(r, o)
      PROVE  Pinned'
  <2>1. /\ q \in ScenarioRun /\ d \in ScenarioRun /\ d.pins = q.pins /\ d.done = q.done
        /\ UNCHANGED <<forecast, result>>
    BY <1>1, <1>7, TypedReadOverride
  <2>2. Gathered(r) /\ d \notin EngineRun
    BY <2>1, Disjoint DEF Pinned
  <2> QED BY <1>2, <2>1, <2>2 DEF Gathered, NotOlder
<1>8. ASSUME NEW run \in Stamps \cup {NoRun}, ReadRun(r, run)
      PROVE  Pinned'
  <2>1. d \in ScenarioRun /\ UNCHANGED <<forecast, result>>
    BY <1>1, <1>8, TypedReadRun
  <2>2. d \notin EngineRun
    BY <2>1, Disjoint
  <2> QED BY <1>2, <1>8, <2>1, <2>2, PinnedReadRun
<1>9. CASE CommitScenarios(r)
  <2>1. /\ q \in ScenarioRun /\ result' = Insert(result, q.at, q.done) /\ forecast' = forecast
        /\ d = Idle \/ d \in Listing
    BY <1>1, <1>9, TypedCommitScenarios
  <2>2. d \notin EngineRun /\ d \notin ScenarioRun
    BY <2>1, Disjoint
  <2>3. InStep(q.done) /\ \A i \in DOMAIN q.done : RowPinned(q.done[i], forecast)
    BY <2>1 DEF Pinned, Gathered
  <2>4. \A t \in DOMAIN result' :
          (t \in DOMAIN result /\ result'[t] = result[t]) \/ result'[t] = q.done
    BY <2>1 DEF Insert
  <2>5. ForecastGrows /\ DOMAIN forecast' \ DOMAIN forecast = {}
    BY <2>1 DEF ForecastGrows
  <2>6. \A t \in DOMAIN result' :
          \/ t \in DOMAIN result /\ result'[t] = result[t]
          \/ InStep(result'[t]) /\ \A i \in DOMAIN result'[t] : RowPinned(result'[t][i], forecast)
    BY <2>3, <2>4
  <2> QED BY <1>1, <2>2, <2>5, <2>6, PinnedFrame
<1>10. CASE Quiet(r)
  BY <1>1, <1>2, <1>10, QuietFacts
<1> QED BY <1>3, <1>4, <1>5, <1>6, <1>7, <1>8, <1>9, <1>10 DEF Handler, Quiet

LEMMA PinnedStep == Pinned /\ [Next]_vars => Pinned'
<1> SUFFICES ASSUME Pinned, [Next]_vars
             PROVE  Pinned'
  OBVIOUS
<1>1. Typed'
  BY TypedStep DEF Pinned
<1>2. CASE UNCHANGED vars
  BY <1>1, <1>2 DEF vars, Pinned, Gathered
<1>3. ASSUME NEW field \in Fields, NEW value \in Usable \cup Unusable, FactChanges(field, value)
      PROVE  Pinned'
  <2>1. /\ \A r \in Requests : Same(req[r], req'[r])
        /\ UNCHANGED <<clock, forecast, proposal, result>>
    BY <1>3, TypedFactChanges DEF Pinned
  <2>2. \A r \in Requests :
          /\ req'[r] \in EngineRun => req[r] \in EngineRun /\ req'[r].at = req[r].at
          /\ req'[r] \in ScenarioRun =>
               req[r] \in ScenarioRun /\ req'[r].pins = req[r].pins /\ req'[r].done = req[r].done
    BY <2>1, SameKinds
  <2>3. \A r \in Requests : Gathered(r)'
    BY <2>1, <2>2 DEF Pinned, Gathered, NotOlder
  <2> QED BY <1>1, <2>1, <2>3 DEF Pinned
<1> QED BY <1>2, <1>3, PinnedHandler, NextHandlers

LEMMA PinnedInit == Init => Pinned
<1> SUFFICES ASSUME Init
             PROVE  Pinned
  OBVIOUS
<1>1. DOMAIN forecast = {} /\ DOMAIN result = {} /\ \A r \in Requests : req[r] = Idle
  BY DEF Init
<1>2. \A r \in Requests : Gathered(r)
  BY <1>1, Disjoint DEF Gathered
<1> QED BY <1>1, <1>2, TypedInit DEF Pinned

LEMMA PinnedHolds == Spec => []Pinned
BY PinnedInit, PinnedStep, PTL DEF Spec

\* Whatever commits between run_scenario's reads of the latest successes, a result starts
\* from a success of each engine and, when it has all four, from none that is younger than
\* its risk run.
THEOREM ResultsStartConsistently == Spec => []PinsConsistent
<1>1. Pinned => PinsConsistent
  <2> SUFFICES ASSUME Pinned, NEW t \in DOMAIN result, NEW i \in DOMAIN result[t],
                      NEW e \in Engines, result[t][i].pins[e] # NoRun
               PROVE  /\ e \in forecast[result[t][i].pins[e]].ok
                      /\ Complete(result[t][i]) =>
                           result[t][i].pins[e] <= result[t][i].pins["risk"]
    BY DEF PinsConsistent, Results
  <2>1. RowPinned(result[t][i], forecast)
    BY DEF Pinned
  <2> QED BY <2>1 DEF RowPinned
<1> QED BY <1>1, PinnedHolds, PTL

\* The scenarios run_all_scenarios goes through one after the other never step back to an
\* older run.
THEOREM ScenariosStayInStep == Spec => []ScenariosInStep
<1>1. Pinned => ScenariosInStep
  BY DEF Pinned, ScenariosInStep, InStep, NotOlder
<1> QED BY <1>1, PinnedHolds, PTL

(***************************************************************************)
(* Which proposals a scenario applies.                                     *)
(***************************************************************************)
Applied(o, rows) == o # NoProposal => o \in DOMAIN rows /\ TRUE \in rows[o].decisions

Applies(r) ==
  LET q == req[r] IN
    q \in ScenarioRun =>
      /\ Applied(q.override, proposal)
      /\ \A i \in DOMAIN q.done : Applied(q.done[i].override, proposal)

\* An approval is a decision, and decisions stay on record.
Approved ==
  /\ Typed
  /\ \A o \in DOMAIN proposal : proposal[o].approved => TRUE \in proposal[o].decisions
  /\ \A t \in DOMAIN result : \A i \in DOMAIN result[t] : Applied(result[t][i].override, proposal)
  /\ \A r \in Requests : Applies(r)

DecisionsStay ==
  \A o \in DOMAIN proposal :
    o \in DOMAIN proposal' /\ proposal[o].decisions \subseteq proposal'[o].decisions

LEMMA ApprovedFrame ==
  ASSUME Approved, Typed', NEW r \in Requests,
         \A o \in Requests \ {r} : Same(req[o], req'[o]),
         DecisionsStay,
         \A o \in DOMAIN proposal' : proposal'[o].approved => TRUE \in proposal'[o].decisions,
         \A t \in DOMAIN result' :
           \/ t \in DOMAIN result /\ result'[t] = result[t]
           \/ \A i \in DOMAIN result'[t] : Applied(result'[t][i].override, proposal),
         req'[r] \in ScenarioRun =>
           /\ Applied(req'[r].override, proposal)
           /\ \A i \in DOMAIN req'[r].done : Applied(req'[r].done[i].override, proposal)
  PROVE  Approved'
<1>1. ASSUME NEW o, Applied(o, proposal)
      PROVE  Applied(o, proposal')
  BY <1>1 DEF Applied, DecisionsStay
<1>2. ASSUME NEW t \in DOMAIN result', NEW i \in DOMAIN result'[t]
      PROVE  Applied(result'[t][i].override, proposal')
  <2>1. Applied(result'[t][i].override, proposal)
    BY DEF Approved
  <2> QED BY <1>1, <2>1
<1>3. ASSUME NEW o \in Requests \ {r}
      PROVE  Applies(o)'
  <2>1. req'[o] \in ScenarioRun =>
          /\ req[o] \in ScenarioRun /\ req'[o].override = req[o].override
          /\ req'[o].done = req[o].done /\ Applies(o)
    BY SameKinds DEF Approved
  <2> QED BY <1>1, <2>1 DEF Applies
<1>4. Applies(r)'
  BY <1>1 DEF Applies
<1> QED BY <1>2, <1>3, <1>4 DEF Approved

LEMMA ApprovedHandler ==
  ASSUME Approved, NEW r \in Requests, Handler(r)
  PROVE  Approved'
<1> DEFINE q == req[r]
           d == req'[r]
<1>1. Typed /\ Typed' /\ \A o \in Requests \ {r} : Same(req[o], req'[o])
  BY TypedHandler, HandlerSame DEF Approved
<1>2. ASSUME UNCHANGED <<proposal, result>>,
             d \in ScenarioRun =>
               /\ Applied(d.override, proposal)
               /\ \A i \in DOMAIN d.done : Applied(d.done[i].override, proposal)
      PROVE  Approved'
  <2>1. /\ DecisionsStay
        /\ \A o \in DOMAIN proposal' : proposal'[o].approved => TRUE \in proposal'[o].decisions
    BY <1>2 DEF DecisionsStay, Approved
  <2>2. \A t \in DOMAIN result' : t \in DOMAIN result /\ result'[t] = result[t]
    BY <1>2
  <2> QED BY <1>1, <1>2, <2>1, <2>2, ApprovedFrame
<1>3. ASSUME NEW op \in Forecasting, BeginEngines(r, op)
      PROVE  Approved'
  BY <1>1, <1>2, <1>3, TypedBeginEngines, Disjoint
<1>4. ASSUME NEW field \in Fields, ReadFact(r, field)
      PROVE  Approved'
  BY <1>1, <1>2, <1>4, TypedReadFact, Disjoint
<1>5. ASSUME NEW op, Fresh(d, op)
      PROVE  /\ Applied(d.override, proposal)
             /\ \A i \in DOMAIN d.done : Applied(d.done[i].override, proposal)
  <2>1. d.override = NoProposal /\ DOMAIN d.done = {}
    <3> HIDE DEF d
    <3> QED BY <1>5, FreshGathered
  <2> QED BY <2>1 DEF Applied
<1>6. CASE CommitEngines(r)
  <2>1. (d = Idle \/ Fresh(d, "generate")) /\ UNCHANGED <<proposal, result>>
    BY <1>1, <1>6, TypedCommitEngines
  <2> QED BY <1>2, <1>5, <2>1, Disjoint
<1>7. CASE BeginScenarios(r)
  <2>1. Fresh(d, "scenarios") /\ UNCHANGED <<proposal, result>>
    BY <1>1, <1>7, TypedBeginScenarios
  <2> QED BY <1>2, <1>5, <2>1
<1>8. ASSUME NEW o \in ProposalId \cup {NoProposal}, ReadOverride(r, o)
      PROVE  Approved'
  <2>1. /\ q \in ScenarioRun /\ d.override = Applicable(o) /\ d.done = q.done
        /\ o \in First(Active(Scenario(q))) /\ UNCHANGED <<proposal, result>>
    BY <1>1, <1>8, TypedReadOverride
  <2>2. o # NoProposal => o \in DOMAIN proposal
    BY <2>1 DEF First, Active
  <2>3. Applied(Applicable(o), proposal)
    BY <2>2 DEF Applied, Applicable, Approved
  <2>4. Applies(r)
    BY DEF Approved
  <2> QED BY <1>2, <2>1, <2>3, <2>4 DEF Applies
<1>9. ASSUME NEW run \in Stamps \cup {NoRun}, ReadRun(r, run)
      PROVE  Approved'
  <2> DEFINE row == [pins |-> [q.pins EXCEPT ![EngineOrder[q.next]] = run], override |-> q.override]
  <2>1. /\ q \in ScenarioRun /\ UNCHANGED <<proposal, result>>
        /\ \/ d.override = q.override /\ d.done = q.done
           \/ d.override = NoProposal /\ d.done = Append(q.done, row)
    BY <1>1, <1>9, TypedReadRun
  <2>2. Applies(r) /\ q.done \in Seq(ResultRow) /\ row.override = q.override
    BY <2>1 DEF Approved, ScenarioRun
  <2> HIDE DEF row
  <2>3. CASE d.override = q.override /\ d.done = q.done
    BY <1>2, <2>1, <2>2, <2>3 DEF Applies
  <2>4. CASE d.override = NoProposal /\ d.done = Append(q.done, row)
    <3>1. \A i \in DOMAIN d.done : d.done[i] = row \/ (i \in DOMAIN q.done /\ d.done[i] = q.done[i])
      BY <2>2, <2>4
    <3>2. \A i \in DOMAIN d.done : Applied(d.done[i].override, proposal)
      BY <2>1, <2>2, <3>1 DEF Applies
    <3> QED BY <1>2, <2>1, <2>4, <3>2 DEF Applied
  <2> QED BY <2>1, <2>3, <2>4
<1>10. CASE CommitScenarios(r)
  <2>1. /\ q \in ScenarioRun /\ result' = Insert(result, q.at, q.done) /\ proposal' = proposal
        /\ d = Idle \/ d \in Listing
    BY <1>1, <1>10, TypedCommitScenarios
  <2>2. d \notin ScenarioRun
    BY <2>1, Disjoint
  <2>3. Applies(r)
    BY DEF Approved
  <2>4. \A t \in DOMAIN result' :
          (t \in DOMAIN result /\ result'[t] = result[t]) \/ result'[t] = q.done
    BY <2>1 DEF Insert
  <2>5. \A t \in DOMAIN result' :
          \/ t \in DOMAIN result /\ result'[t] = result[t]
          \/ \A i \in DOMAIN result'[t] : Applied(result'[t][i].override, proposal)
    BY <2>1, <2>3, <2>4 DEF Applies
  <2>6. /\ DecisionsStay
        /\ \A o \in DOMAIN proposal' : proposal'[o].approved => TRUE \in proposal'[o].decisions
    BY <2>1 DEF DecisionsStay, Approved
  <2> QED BY <1>1, <2>2, <2>5, <2>6, ApprovedFrame
<1>11. CASE Quiet(r)
  <2>1. /\ d \notin ScenarioRun /\ result' = result
        /\ DOMAIN proposal \subseteq DOMAIN proposal'
        /\ \A p \in DOMAIN proposal : Lasting(proposal[p], proposal'[p])
        /\ \A p \in DOMAIN proposal :
             proposal'[p].approved => proposal[p].approved \/ TRUE \in proposal'[p].decisions
        /\ \A p \in DOMAIN proposal' \ DOMAIN proposal : ~proposal'[p].approved
    BY <1>1, <1>11, QuietFacts
  <2>2. DecisionsStay
    BY <2>1 DEF DecisionsStay, Lasting
  <2>3. \A o \in DOMAIN proposal' : proposal'[o].approved => TRUE \in proposal'[o].decisions
    BY <2>1, <2>2 DEF DecisionsStay, Approved
  <2>4. \A t \in DOMAIN result' : t \in DOMAIN result /\ result'[t] = result[t]
    BY <2>1
  <2> QED BY <1>1, <2>1, <2>2, <2>3, <2>4, ApprovedFrame
<1> QED BY <1>3, <1>4, <1>6, <1>7, <1>8, <1>9, <1>10, <1>11 DEF Handler, Quiet

LEMMA ApprovedStep == Approved /\ [Next]_vars => Approved'
<1> SUFFICES ASSUME Approved, [Next]_vars
             PROVE  Approved'
  OBVIOUS
<1>1. Typed'
  BY TypedStep DEF Approved
<1>2. CASE UNCHANGED vars
  BY <1>1, <1>2 DEF vars, Approved, Applies
<1>3. ASSUME NEW field \in Fields, NEW value \in Usable \cup Unusable, FactChanges(field, value)
      PROVE  Approved'
  <2>1. /\ \A r \in Requests : Same(req[r], req'[r])
        /\ UNCHANGED <<clock, forecast, proposal, result>>
    BY <1>3, TypedFactChanges DEF Approved
  <2>2. \A r \in Requests :
          req'[r] \in ScenarioRun =>
            /\ req[r] \in ScenarioRun /\ req'[r].override = req[r].override
            /\ req'[r].done = req[r].done
    BY <2>1, SameKinds
  <2>3. \A r \in Requests : Applies(r)'
    BY <2>1, <2>2 DEF Approved, Applies
  <2> QED BY <1>1, <2>1, <2>3 DEF Approved
<1> QED BY <1>2, <1>3, ApprovedHandler, NextHandlers

LEMMA ApprovedInit == Init => Approved
<1> SUFFICES ASSUME Init
             PROVE  Approved
  OBVIOUS
<1>1. DOMAIN proposal = {} /\ DOMAIN result = {} /\ \A r \in Requests : req[r] = Idle
  BY DEF Init
<1>2. \A r \in Requests : Applies(r)
  BY <1>1, Disjoint DEF Applies
<1> QED BY <1>1, <1>2, TypedInit DEF Approved

\* run_scenario merges a proposal's adjustments only if someone approved it, however
\* submissions and reviews of review_project_override overlap with it.
THEOREM OnlyApprovedApplied == Spec => []AppliedWasApproved
<1>1. Approved => AppliedWasApproved
  <2> SUFFICES ASSUME Approved, NEW t \in DOMAIN result, NEW i \in DOMAIN result[t],
                      result[t][i].override # NoProposal
               PROVE  TRUE \in proposal[result[t][i].override].decisions
    BY DEF AppliedWasApproved, Results
  <2> QED BY DEF Approved, Applied
<1> QED BY <1>1, ApprovedInit, ApprovedStep, PTL DEF Spec

(***************************************************************************)
(* Requests nothing has overlapped.                                        *)
(***************************************************************************)
Solo(r) ==
  req[r] # Idle /\ req[r].alone => \A o \in Requests \ {r} : req[o] = Idle

LEMMA StartDisturbs ==
  ASSUME Typed, NEW r \in Requests, NEW q, Start(r, q), NEW o \in Requests \ {r}, req[o] # Idle
  PROVE  ~req'[o].alone
<1>1. req[o] \in Held /\ Busy(o)
  BY HeldFacts DEF Typed, Known, Busy
<1>2. req'[o] = [req[o] EXCEPT !.alone = FALSE]
  BY <1>1 DEF Start
<1>3. req'[o].alone = FALSE
  BY <1>1, <1>2, DisturbedFacts
<1> QED BY <1>3

Starting(r) ==
  \/ \E op \in Forecasting : BeginEngines(r, op)
  \/ BeginScenarios(r)
  \/ \E scenario \in Scenarios, o \in ProposalId \cup {NoProposal} : BeginSubmit(r, scenario, o)
  \/ \E u \in Reviewers, o \in DOMAIN proposal, approved \in BOOLEAN : BeginReview(r, u, o, approved)

Going(r) ==
  \/ \E field \in Fields : ReadFact(r, field)
  \/ CommitEngines(r)
  \/ \E o \in ProposalId \cup {NoProposal} : ReadOverride(r, o)
  \/ \E run \in Stamps \cup {NoRun} : ReadRun(r, run)
  \/ CommitScenarios(r)
  \/ ListRuns(r) \/ ListResults(r)
  \/ \E o \in ProposalId : CommitSubmit(r, o)
  \/ CommitReview(r)
  \/ RequestEnds(r)

LEMMA StartingFacts ==
  ASSUME Typed, NEW r \in Requests, Starting(r)
  PROVE  /\ \A o \in Requests \ {r} : req[o] # Idle => ~req'[o].alone
         /\ req'[r].alone => \A o \in Requests \ {r} : req[o] = Idle
<1>1. \E q : Start(r, q)
  BY DEF Starting, BeginEngines, BeginScenarios, BeginSubmit, BeginReview
<1>2. \A o \in Requests \ {r} : req[o] # Idle => ~req'[o].alone
  BY <1>1, StartDisturbs
<1>3. ASSUME NEW op \in Forecasting, BeginEngines(r, op)
      PROVE  req'[r].alone => \A o \in Requests \ {r} : req[o] = Idle
  BY <1>3, TypedBeginEngines
<1>4. CASE BeginScenarios(r)
  BY <1>2, <1>4, TypedBeginScenarios
<1>5. ASSUME NEW scenario \in Scenarios, NEW o \in ProposalId \cup {NoProposal},
             BeginSubmit(r, scenario, o)
      PROVE  req'[r].alone => \A p \in Requests \ {r} : req[p] = Idle
  BY <1>5, TypedBeginSubmit
<1>6. ASSUME NEW u \in Reviewers, NEW o \in DOMAIN proposal, NEW approved \in BOOLEAN,
             BeginReview(r, u, o, approved)
      PROVE  req'[r].alone => \A p \in Requests \ {r} : req[p] = Idle
  BY <1>6, TypedBeginReview
<1> QED BY <1>2, <1>3, <1>4, <1>5, <1>6 DEF Starting

LEMMA GoingFacts ==
  ASSUME Typed, NEW r \in Requests, Going(r)
  PROVE  /\ req[r] # Idle
         /\ req'[r] # Idle => req'[r].alone = req[r].alone
         /\ req'[r] \notin Submission
<1>1. ASSUME NEW field \in Fields, ReadFact(r, field)
      PROVE  req[r] \in EngineRun /\ req'[r] \in EngineRun /\ req'[r].alone = req[r].alone
  BY <1>1, TypedReadFact
<1>2. CASE CommitEngines(r)
  <2>1. /\ req[r] \in EngineRun
        /\ req'[r] = Idle \/ (Fresh(req'[r], "generate") /\ req'[r].alone = req[r].alone)
    BY <1>2, TypedCommitEngines
  <2> QED BY <2>1, Disjoint DEF Fresh
<1>3. ASSUME NEW o \in ProposalId \cup {NoProposal}, ReadOverride(r, o)
      PROVE  req[r] \in ScenarioRun /\ req'[r] \in ScenarioRun /\ req'[r].alone = req[r].alone
  BY <1>3, TypedReadOverride
<1>4. ASSUME NEW run \in Stamps \cup {NoRun}, ReadRun(r, run)
      PROVE  req[r] \in ScenarioRun /\ req'[r] \in ScenarioRun /\ req'[r].alone = req[r].alone
  BY <1>4, TypedReadRun
<1>5. CASE CommitScenarios(r)
  BY <1>5, TypedCommitScenarios, Disjoint
<1>6. Idle \notin Listing \cup ListingResults \cup Submission \cup Review
  BY IdleFacts DEF Held
<1>7. CASE ListRuns(r)
  BY <1>6, <1>7, TypedListRuns, Disjoint
<1>8. CASE ListResults(r)
  BY <1>6, <1>8, TypedListResults, Disjoint
<1>9. CASE \E o \in ProposalId : CommitSubmit(r, o)
  <2>1. PICK o \in ProposalId : CommitSubmit(r, o)
    BY <1>9
  <2>2. req[r] \in Submission /\ req'[r] = Idle
    BY <2>1, TypedCommitSubmit
  <2> QED BY <1>6, <2>2, Disjoint
<1>10. CASE CommitReview(r)
  <2>1. req[r] \in Review /\ req'[r] = Idle
    BY <1>10, TypedCommitReview
  <2> QED BY <1>6, <2>1, Disjoint
<1>11. CASE RequestEnds(r)
  BY <1>11, TypedRequestEnds, IdleFacts, Disjoint DEF RequestEnds, Busy
<1>12. CASE \E field \in Fields : ReadFact(r, field)
  BY <1>1, <1>12, Disjoint
<1>13. CASE \E o \in ProposalId \cup {NoProposal} : ReadOverride(r, o)
  BY <1>3, <1>13, Disjoint
<1>14. CASE \E run \in Stamps \cup {NoRun} : ReadRun(r, run)
  BY <1>4, <1>14, Disjoint
<1> QED BY <1>2, <1>5, <1>7, <1>8, <1>9, <1>10, <1>11, <1>12, <1>13, <1>14 DEF Going

\* After a step of r no other request is undisturbed, and r is only if it was or starts alone.
LEMMA HandlerDisturbs ==
  ASSUME Typed, \A p \in Requests : Solo(p), NEW r \in Requests, Handler(r)
  PROVE  /\ \A o \in Requests \ {r} : req'[o] # Idle => ~req'[o].alone
         /\ req'[r] # Idle /\ req'[r].alone => \A o \in Requests \ {r} : req[o] = Idle /\ req'[o] = Idle
         /\ Going(r) /\ req'[r] # Idle /\ req'[r].alone => req[r].alone
         /\ \A p \in Requests : Solo(p)'
<1>1. \A o \in Requests \ {r} :
        /\ req[o] = Idle => req'[o] = Idle
        /\ req[o] # Idle /\ req'[o].alone => req[o].alone
  BY HandlerSame DEF Same
<1>2. Starting(r) \/ Going(r)
  BY DEF Handler, Starting, Going
<1>3. ASSUME NEW o \in Requests \ {r}, req'[o] # Idle
      PROVE  ~req'[o].alone
  <2>1. req[o] # Idle /\ (req'[o].alone => req[o].alone)
    BY <1>1, <1>3
  <2>2. CASE Starting(r)
    BY <2>1, <2>2, StartingFacts
  <2>3. CASE Going(r)
    BY <2>1, <2>3, GoingFacts DEF Solo
  <2> QED BY <1>2, <2>2, <2>3
<1>4. req'[r] # Idle /\ req'[r].alone => \A o \in Requests \ {r} : req[o] = Idle
  <2>1. CASE Starting(r)
    BY <2>1, StartingFacts
  <2>2. CASE Going(r)
    BY <2>2, GoingFacts DEF Solo
  <2> QED BY <1>2, <2>1, <2>2
<1>5. Going(r) /\ req'[r] # Idle /\ req'[r].alone => req[r].alone
  BY GoingFacts
<1>6. \A p \in Requests : Solo(p)'
  BY <1>1, <1>3, <1>4 DEF Solo
<1> QED BY <1>1, <1>3, <1>4, <1>5, <1>6

(***************************************************************************)
(* The proposals of a scenario.                                            *)
(***************************************************************************)
Line(scenario) == {p \in DOMAIN proposal : proposal[p].scenario = scenario}

AllAlone == \A p \in DOMAIN proposal : proposal[p].alone

\* Numbered without gap or repeat, the last one and no other active.  The last conjunct says
\* that there is a last one, which the numbers alone show only by counting.
Lined ==
  \A scenario \in Scenarios :
    LET n == Cardinality(Line(scenario)) IN
      /\ \A p \in Line(scenario) :
           /\ proposal[p].version <= n
           /\ proposal[p].is_active <=> proposal[p].version = n
      /\ \A p, o \in Line(scenario) : proposal[p].version = proposal[o].version => p = o
      /\ Line(scenario) # {} => \E p \in Line(scenario) : proposal[p].version = n

\* An undisturbed submission has read what stands.
UpToDate(r) ==
  req[r] \in Submission /\ req[r].alone => req[r].previous \in First(Active(req[r].scenario))

Numbered ==
  /\ Typed
  /\ IsFiniteSet(DOMAIN proposal)
  /\ AllAlone => Lined
  /\ \A r \in Requests : Solo(r) /\ UpToDate(r)

LEMMA LineFacts ==
  ASSUME Typed, IsFiniteSet(DOMAIN proposal), NEW scenario
  PROVE  IsFiniteSet(Line(scenario)) /\ Cardinality(Line(scenario)) \in Nat
<1>1. Line(scenario) \subseteq DOMAIN proposal
  BY DEF Line
<1> QED BY <1>1, FS_Subset, FS_CardinalityType

\* Rows that keep scenario, number and activity keep the line.
LEMMA LinedStays ==
  ASSUME Lined, DOMAIN proposal' = DOMAIN proposal,
         \A p \in DOMAIN proposal :
           Lasting(proposal[p], proposal'[p]) /\ proposal'[p].is_active = proposal[p].is_active
  PROVE  Lined'
<1>1. ASSUME NEW scenario
      PROVE  Line(scenario)' = Line(scenario)
  BY DEF Line, Lasting
<1>2. ASSUME NEW scenario \in Scenarios
      PROVE  LET n == Cardinality(Line(scenario)) IN
               /\ \A p \in Line(scenario) :
                    /\ proposal'[p].version <= n
                    /\ proposal'[p].is_active <=> proposal'[p].version = n
               /\ \A p, o \in Line(scenario) : proposal'[p].version = proposal'[o].version => p = o
               /\ Line(scenario) # {} => \E p \in Line(scenario) : proposal'[p].version = n
  <2>1. \A p \in Line(scenario) :
          /\ proposal'[p].version = proposal[p].version
          /\ proposal'[p].is_active = proposal[p].is_active
    BY DEF Line, Lasting
  <2> QED BY <2>1 DEF Lined
<1> QED BY <1>1, <1>2 DEF Lined

\* A submission that has read what stands extends its scenario's line.
LEMMA LinedGrows ==
  ASSUME Numbered, Lined, NEW r \in Requests, NEW o \in ProposalId, CommitSubmit(r, o), req[r].alone
  PROVE  Lined'
<1> DEFINE q == req[r]
<1> SUFFICES ASSUME NEW s0, s0 = q.scenario
             PROVE  Lined'
  OBVIOUS
<1> DEFINE n0 == Cardinality(Line(s0))
<1>1. /\ q \in Submission /\ q.previous \in DOMAIN proposal \cup {NoProposal}
      /\ o \notin DOMAIN proposal /\ DOMAIN proposal' = DOMAIN proposal \cup {o}
      /\ proposal'[o] = NewProposal(q)
      /\ \A p \in DOMAIN proposal :
           /\ Lasting(proposal[p], proposal'[p])
           /\ proposal'[p].is_active <=> p # q.previous /\ proposal[p].is_active
  BY TypedCommitSubmit DEF Numbered
<1>2. q.previous \in First(Active(s0)) /\ s0 \in Scenarios
  BY <1>1 DEF Numbered, UpToDate, Submission
<1>3. /\ proposal'[o].scenario = s0 /\ proposal'[o].is_active = TRUE
      /\ proposal'[o].version = IF q.previous = NoProposal THEN 1
                                ELSE proposal[q.previous].version + 1
  BY <1>1 DEF NewProposal
<1>4. n0 \in Nat /\ IsFiniteSet(Line(s0))
  BY LineFacts DEF Numbered
<1>5. Active(s0) = {p \in Line(s0) : proposal[p].is_active}
  BY DEF Active, Line
<1>6. proposal'[o].version = n0 + 1 /\ (q.previous # NoProposal => q.previous \in Line(s0))
      /\ \A p \in Line(s0) : ~proposal'[p].is_active
  <2>1. /\ \A p \in Line(s0) : proposal[p].is_active <=> proposal[p].version = n0
        /\ \A p, m \in Line(s0) : proposal[p].version = proposal[m].version => p = m
        /\ Line(s0) # {} => \E p \in Line(s0) : proposal[p].version = n0
    BY <1>2 DEF Lined
  <2>2. Line(s0) \subseteq DOMAIN proposal /\ NoProposal \notin DOMAIN proposal
    BY ForecastAssumption DEF Line, Numbered, Typed, TypeOK
  <2>3. CASE q.previous = NoProposal
    <3>1. Active(s0) = {}
      BY <1>2, <1>5, <2>2, <2>3 DEF First
    <3>2. Line(s0) = {}
      BY <1>5, <2>1, <3>1
    <3>3. n0 = 0
      BY <3>2, FS_EmptySet
    <3> QED BY <1>3, <2>3, <3>2, <3>3
  <2>4. CASE q.previous # NoProposal
    <3>1. q.previous \in Line(s0) /\ proposal[q.previous].is_active
      BY <1>2, <1>5, <2>4 DEF First
    <3>2. proposal[q.previous].version = n0
      BY <2>1, <3>1
    <3>3. ASSUME NEW p \in Line(s0)
          PROVE  ~proposal'[p].is_active
      BY <1>1, <2>1, <2>2, <3>1, <3>2
    <3> QED BY <1>3, <2>4, <3>1, <3>2, <3>3
  <2> QED BY <2>3, <2>4
<1>7. Line(s0)' = Line(s0) \cup {o} /\ o \notin Line(s0)
  BY <1>1, <1>3 DEF Line, Lasting
<1>8. Cardinality(Line(s0)') = n0 + 1
  BY <1>4, <1>7, FS_AddElement
<1>9. \A p \in Line(s0) : proposal'[p].version = proposal[p].version /\ proposal[p].version <= n0
                         /\ proposal[p].version \in Nat
  <2>1. \A p \in Line(s0) : p \in DOMAIN proposal /\ proposal[p] \in ProposalRow
    BY DEF Line, Numbered, Typed, TypeOK
  <2>2. \A p \in Line(s0) : proposal[p].version <= n0
    BY <1>2 DEF Lined
  <2> QED BY <1>1, <2>1, <2>2 DEF Lasting, ProposalRow
<1>10. ASSUME NEW scenario \in Scenarios, scenario # s0
       PROVE  /\ Line(scenario)' = Line(scenario)
              /\ \A p \in Line(scenario) :
                   /\ proposal'[p].version = proposal[p].version
                   /\ proposal'[p].is_active <=> proposal[p].is_active
  <2>1. Line(scenario)' = Line(scenario)
    BY <1>1, <1>3, <1>10 DEF Line, Lasting
  <2>2. q.previous \notin Line(scenario)
    <3>1. q.previous = NoProposal => q.previous \notin DOMAIN proposal
      BY ForecastAssumption DEF Numbered, Typed, TypeOK
    <3> QED BY <1>6, <1>10, <3>1 DEF Line
  <2> QED BY <1>1, <2>1, <2>2 DEF Line, Lasting
<1> DEFINE Good(scenario, n, L) ==
      /\ \A p \in L :
           /\ proposal'[p].version <= n
           /\ proposal'[p].is_active <=> proposal'[p].version = n
      /\ \A p, m \in L : proposal'[p].version = proposal'[m].version => p = m
      /\ L # {} => \E p \in L : proposal'[p].version = n
<1>11. Good(s0, n0 + 1, Line(s0) \cup {o})
  <2>1. \A p \in Line(s0) : proposal'[p].version <= n0 /\ proposal'[p].version \in Nat
    BY <1>9
  <2>2. \A p \in Line(s0) : proposal'[p].version < n0 + 1 /\ ~proposal'[p].is_active
    BY <1>4, <1>6, <2>1
  <2>3. \A p, m \in Line(s0) : proposal'[p].version = proposal'[m].version => p = m
    BY <1>2, <1>9 DEF Lined
  <2> QED BY <1>3, <1>4, <1>6, <2>1, <2>2, <2>3
<1>12. ASSUME NEW scenario \in Scenarios, scenario # s0
       PROVE  Good(scenario, Cardinality(Line(scenario)), Line(scenario))
  BY <1>10, <1>12 DEF Lined
<1>13. ASSUME NEW scenario \in Scenarios
       PROVE  Good(scenario, Cardinality(Line(scenario)'), Line(scenario)')
  <2> HIDE DEF Good
  <2>1. CASE scenario = s0
    <3>1. Good(s0, Cardinality(Line(s0)'), Line(s0)')
      BY <1>7, <1>8, <1>11
    <3> QED BY <2>1, <3>1
  <2>2. CASE scenario # s0
    BY <1>10, <1>12, <2>2
  <2> QED BY <2>1, <2>2
<1> HIDE DEF q, n0
<1> QED BY <1>13 DEF Lined

\* Which handlers write proposals, and what a request that submits has read.
LEMMA ProposalWrites ==
  ASSUME Typed, NEW r \in Requests, Handler(r)
  PROVE  /\ proposal' = proposal \/ (\E o \in ProposalId : CommitSubmit(r, o)) \/ CommitReview(r)
         /\ req'[r] \in Submission =>
              /\ proposal' = proposal
              /\ req'[r].scenario \in Scenarios
              /\ req'[r].previous \in First(Active(req'[r].scenario))
<1>1. ASSUME NEW scenario \in Scenarios, NEW o \in ProposalId \cup {NoProposal},
             BeginSubmit(r, scenario, o)
      PROVE  /\ proposal' = proposal
             /\ req'[r].scenario \in Scenarios
             /\ req'[r].previous \in First(Active(req'[r].scenario))
  BY <1>1, TypedBeginSubmit
<1>2. CASE \E op \in Forecasting : BeginEngines(r, op)
  BY <1>2, TypedBeginEngines, Disjoint
<1>3. CASE BeginScenarios(r)
  <2>1. req'[r] \in ScenarioRun /\ proposal' = proposal
    BY <1>3, TypedBeginScenarios DEF Fresh
  <2> QED BY <2>1, Disjoint
<1>4. CASE \E u \in Reviewers, o \in DOMAIN proposal, approved \in BOOLEAN :
             BeginReview(r, u, o, approved)
  BY <1>4, TypedBeginReview, Disjoint
<1>5. CASE Going(r)
  <2>1. req'[r] \notin Submission
    BY <1>5, GoingFacts
  <2>2. \/ proposal' = proposal
        \/ \E o \in ProposalId : CommitSubmit(r, o)
        \/ CommitReview(r)
    BY <1>5 DEF Going, ReadFact, CommitEngines, ReadOverride, ReadRun, CommitScenarios, ListRuns,
                ListResults, RequestEnds
  <2> QED BY <2>1, <2>2
<1>6. Starting(r) \/ Going(r)
  BY DEF Handler, Starting, Going
<1> QED BY <1>1, <1>2, <1>3, <1>4, <1>5, <1>6 DEF Starting

LEMMA NumberedHandler ==
  ASSUME Numbered, NEW r \in Requests, Handler(r)
  PROVE  Numbered'
<1>1. Typed /\ Typed'
  BY TypedHandler DEF Numbered
<1>2. /\ \A p \in Requests : Solo(p)'
      /\ \A o \in Requests \ {r} : req'[o] # Idle => ~req'[o].alone
  BY HandlerDisturbs DEF Numbered
<1>3. \A p \in Requests : UpToDate(p)'
  <2>1. ASSUME NEW p \in Requests \ {r}
        PROVE  UpToDate(p)'
    BY <1>2, Disjoint DEF UpToDate
  <2>2. ASSUME NEW s \in Scenarios, req'[r] \in Submission, req'[r].scenario = s
        PROVE  req'[r].previous \in First(Active(s)')
    <3>1. proposal' = proposal /\ req'[r].previous \in First(Active(s))
      BY <1>1, <2>2, ProposalWrites
    <3>2. Active(s)' = Active(s)
      BY <3>1 DEF Active
    <3> QED BY <3>1, <3>2
  <2>3. req'[r] \in Submission => req'[r].scenario \in Scenarios
    BY <1>1, ProposalWrites
  <2>4. UpToDate(r)'
    BY <2>2, <2>3 DEF UpToDate, First, Active
  <2> QED BY <2>1, <2>4
<1>4. CASE proposal' = proposal
  <2>1. IsFiniteSet(DOMAIN proposal') /\ (AllAlone' => Lined')
    BY <1>4 DEF Numbered, AllAlone, Lined, Line
  <2> QED BY <1>1, <1>2, <1>3, <2>1 DEF Numbered
<1>5. ASSUME NEW o \in ProposalId, CommitSubmit(r, o)
      PROVE  Numbered'
  <2>1. /\ o \notin DOMAIN proposal /\ DOMAIN proposal' = DOMAIN proposal \cup {o}
        /\ proposal'[o] = NewProposal(req[r])
        /\ \A p \in DOMAIN proposal : Lasting(proposal[p], proposal'[p])
    BY <1>1, <1>5, TypedCommitSubmit
  <2>2. IsFiniteSet(DOMAIN proposal')
    BY <2>1, FS_AddElement DEF Numbered
  <2>3. ASSUME AllAlone'
        PROVE  Lined'
    <3>1. req[r].alone /\ AllAlone
      BY <2>1, <2>3 DEF AllAlone, NewProposal, Lasting
    <3> QED BY <1>5, <3>1, LinedGrows DEF Numbered
  <2> QED BY <1>1, <1>2, <1>3, <2>2, <2>3 DEF Numbered
<1>6. CASE CommitReview(r)
  <2>1. /\ DOMAIN proposal' = DOMAIN proposal
        /\ \A p \in DOMAIN proposal :
             Lasting(proposal[p], proposal'[p]) /\ proposal'[p].is_active = proposal[p].is_active
    BY <1>1, <1>6, TypedCommitReview
  <2>2. AllAlone' => AllAlone
    BY <2>1 DEF AllAlone, Lasting
  <2>3. AllAlone' => Lined'
    BY <2>1, <2>2, LinedStays DEF Numbered
  <2> QED BY <1>1, <1>2, <1>3, <2>1, <2>3 DEF Numbered
<1> QED BY <1>1, <1>4, <1>5, <1>6, ProposalWrites

LEMMA NumberedStep == Numbered /\ [Next]_vars => Numbered'
<1> SUFFICES ASSUME Numbered, [Next]_vars
             PROVE  Numbered'
  OBVIOUS
<1>1. Typed'
  BY TypedStep DEF Numbered
<1>2. ASSUME proposal' = proposal
      PROVE  IsFiniteSet(DOMAIN proposal') /\ (AllAlone' => Lined')
  BY <1>2 DEF Numbered, AllAlone, Lined, Line
<1>3. CASE UNCHANGED vars
  <2>1. \A r \in Requests : Solo(r)' /\ UpToDate(r)'
    BY <1>3 DEF vars, Numbered, Solo, UpToDate, Active, First
  <2> QED BY <1>1, <1>2, <1>3, <2>1 DEF vars, Numbered
<1>4. ASSUME NEW field \in Fields, NEW value \in Usable \cup Unusable, FactChanges(field, value)
      PROVE  Numbered'
  <2>1. /\ \A r \in Requests : Same(req[r], req'[r]) /\ (req[r] # Idle => ~req'[r].alone)
        /\ proposal' = proposal
    BY <1>4, TypedFactChanges DEF Numbered
  <2>2. \A r \in Requests : req'[r] # Idle => ~req'[r].alone
    BY <2>1 DEF Same
  <2>3. \A r \in Requests : Solo(r)' /\ UpToDate(r)'
    BY <2>2, Disjoint DEF Solo, UpToDate
  <2> QED BY <1>1, <1>2, <2>1, <2>3 DEF Numbered
<1> QED BY <1>3, <1>4, NumberedHandler, NextHandlers

LEMMA NumberedInit == Init => Numbered
<1> SUFFICES ASSUME Init
             PROVE  Numbered
  OBVIOUS
<1>1. DOMAIN proposal = {} /\ \A r \in Requests : req[r] = Idle
  BY DEF Init
<1>2. IsFiniteSet(DOMAIN proposal)
  BY <1>1, FS_EmptySet
<1>3. Lined
  BY <1>1 DEF Lined, Line
<1>4. \A r \in Requests : Solo(r) /\ UpToDate(r)
  BY <1>1, Disjoint DEF Solo, UpToDate
<1> QED BY <1>2, <1>3, <1>4, TypedInit DEF Numbered

\* As long as no submit_project_override overlapped another request, the proposals of a
\* scenario are numbered without gap or repeat and just the last one is active.
THEOREM OneProposalAtATime == Spec => []OneProposal
<1>1. Numbered => OneProposal
  <2> SUFFICES ASSUME Numbered, AllAlone, NEW o \in DOMAIN proposal
               PROVE  LET line == {p \in DOMAIN proposal :
                                     proposal[p].scenario = proposal[o].scenario}
                      IN  /\ proposal[o].version <= Cardinality(line)
                          /\ \A p \in line : proposal[p].version = proposal[o].version => p = o
                          /\ proposal[o].is_active <=> proposal[o].version = Cardinality(line)
    BY DEF OneProposal, AllAlone
  <2>1. proposal[o].scenario \in Scenarios /\ o \in Line(proposal[o].scenario)
    BY DEF Numbered, Typed, TypeOK, ProposalRow, Line
  <2> QED BY <2>1 DEF Numbered, Lined, Line
<1> QED BY <1>1, NumberedInit, NumberedStep, PTL DEF Spec

(***************************************************************************)
(* An undisturbed report.                                                  *)
(***************************************************************************)
\* b is the newest forecast and of the data as they stand.
OwnBatch(b) ==
  /\ b \in DOMAIN forecast /\ forecast[b].fact = fact
  /\ \A t \in DOMAIN forecast : t <= b

\* The results of a are the newest, and start from b if all its engines succeeded.
OwnResults(a, b) ==
  /\ a \in DOMAIN result
  /\ \A t \in DOMAIN result : t <= a
  /\ forecast[b].ok = Engines =>
       \A i \in DOMAIN result[a], e \in Engines : result[a][i].pins[e] = b

\* What the request has read and written is what stands.
Current(r) ==
  LET q == req[r] IN
    /\ q \in EngineRun =>
         /\ q.at = clock
         /\ q.step # "price" => q.fact["price"] = fact["price"]
         /\ q.step = "engines" => q.fact["units"] = fact["units"]
    /\ q \in ScenarioRun /\ q.op = "generate" =>
         /\ OwnBatch(q.batch)
         /\ q.at # NoRun => q.at = clock
         /\ forecast[q.batch].ok = Engines =>
              /\ \A i \in 1 .. 4 : i < q.next => q.pins[EngineOrder[i]] = q.batch
              /\ \A i \in DOMAIN q.done, e \in Engines : q.done[i].pins[e] = q.batch
    /\ q \in Listing \cup ListingResults \cup Assembled =>
         OwnBatch(q.batch) /\ OwnResults(q.at, q.batch)
    /\ q \in ListingResults \cup Assembled => q.forecasts = q.batch
    /\ q \in Assembled => q.scenarios = q.at

Undisturbed ==
  /\ Typed
  /\ \A r \in Requests : Solo(r) /\ (req[r] # Idle /\ req[r].alone => Current(r))

LEMMA Kinds ==
  /\ \A q \in EngineRun \cup ScenarioRun : q \notin Listing \cup ListingResults \cup Assembled
  /\ \A q \in EngineRun : q \notin ScenarioRun
  /\ \A q \in Listing : q \notin ListingResults \cup Assembled
  /\ \A q \in ListingResults : q \notin Assembled
  /\ \A q \in Listing \cup ListingResults \cup Assembled : q \notin EngineRun \cup ScenarioRun
  /\ \A q \in Submission \cup Review :
       q \notin EngineRun \cup ScenarioRun \cup Listing \cup ListingResults \cup Assembled
  /\ \A q \in EngineRun \cup ScenarioRun \cup Listing \cup ListingResults \cup Assembled :
       q # Idle
  /\ \A q \in Submission \cup Review : q # Idle
<1>1. \A q \in EngineRun \cup ScenarioRun \cup Listing \cup ListingResults \cup Assembled
                 \cup Submission \cup Review : q \in Held
  BY DEF Held
<1> QED BY <1>1, HeldFacts, IdleFacts DEF EngineSteps, ScenarioSteps, EngineRun, ScenarioRun,
           Listing, ListingResults, Assembled, Submission, Review, Forecasting, Projecting

LEMMA LatestOwn ==
  ASSUME Typed, NEW T \in SUBSET (1 .. clock), NEW b \in T, \A t \in T : t <= b
  PROVE  Latest(T) = b
<1>1. Latest(T) \in T /\ \A u \in T : u <= Latest(T)
  BY LatestFacts
<1>2. \A t \in T : t \in Int
  BY StampFacts
<1>3. PICK l \in T : l = Latest(T)
  BY <1>1
<1>4. l <= b /\ b <= l /\ l \in Int /\ b \in Int
  BY <1>1, <1>2, <1>3
<1> QED BY <1>3, <1>4

LEMMA CurrentReadFact ==
  ASSUME Undisturbed, NEW r \in Requests, NEW field \in Fields, ReadFact(r, field), req[r].alone
  PROVE  Current(r)'
<1> DEFINE q == req[r]
           d == req'[r]
<1>1. /\ q \in EngineRun /\ d \in EngineRun /\ d.at = q.at /\ q.step = field
      /\ d.step = IF field = "price" THEN "units" ELSE "engines"
      /\ d.fact[field] = fact[field]
      /\ \A f \in Fields \ {field} : d.fact[f] = q.fact[f]
      /\ UNCHANGED <<fact, clock>>
  BY TypedReadFact DEF Undisturbed
<1>2. Current(r)
  BY <1>1, Kinds DEF Undisturbed
<1>3. /\ d.at = clock
      /\ d.fact["price"] = fact["price"]
      /\ d.step = "engines" => d.fact["units"] = fact["units"]
  BY <1>1, <1>2 DEF Current, Fields
<1> QED BY <1>1, <1>3, Kinds DEF Current

LEMMA CurrentCommitEngines ==
  ASSUME Undisturbed, NEW r \in Requests, CommitEngines(r), req[r].alone, req'[r] # Idle
  PROVE  Current(r)'
<1> DEFINE q == req[r]
           d == req'[r]
           new == [fact |-> q.fact, ok |-> Succeeding(q.fact)]
<1>1. /\ q \in EngineRun /\ q.step = "engines" /\ forecast' = Insert(forecast, q.at, new)
      /\ Fresh(d, "generate") /\ d.batch = q.at /\ d.at = NoRun
      /\ UNCHANGED <<fact, clock>>
  BY TypedCommitEngines DEF Undisturbed
<1>2. q.at = clock /\ q.fact["price"] = fact["price"] /\ q.fact["units"] = fact["units"]
  BY <1>1, Kinds DEF Undisturbed, Current
<1>3. q.fact = fact
  BY <1>1, <1>2 DEF EngineRun, Facts, Fields, Undisturbed, Typed, TypeOK
<1>4. \A t \in DOMAIN forecast : t <= clock
  BY StampFacts DEF Undisturbed, Typed, TypeOK
<1>5. /\ q.at \in DOMAIN forecast' /\ forecast'[q.at].fact = fact
      /\ \A t \in DOMAIN forecast' : t <= q.at
  BY <1>1, <1>2, <1>3, <1>4, StampFacts DEF Insert, Undisturbed
<1>6. d \in ScenarioRun /\ d.next = 1 /\ d.done = <<>>
  BY <1>1 DEF Fresh
<1> HIDE DEF d, q
<1>7. d.batch \in DOMAIN forecast' /\ forecast'[d.batch].fact = fact'
      /\ \A t \in DOMAIN forecast' : t <= d.batch
  BY <1>1, <1>5
<1>8. (\A i \in 1 .. 4 : ~(i < d.next)) /\ DOMAIN d.done = {}
  BY <1>6
<1> QED BY <1>1, <1>6, <1>7, <1>8, Kinds DEF Current, OwnBatch, d

LEMMA CurrentReadOverride ==
  ASSUME Undisturbed, NEW r \in Requests, NEW o \in ProposalId \cup {NoProposal},
         ReadOverride(r, o), req[r].alone
  PROVE  Current(r)'
<1> DEFINE q == req[r]
           d == req'[r]
<1>1. /\ q \in ScenarioRun /\ d \in ScenarioRun /\ d.op = q.op /\ d.batch = q.batch
      /\ d.next = q.next /\ d.pins = q.pins /\ d.done = q.done
      /\ \/ q.at = NoRun /\ d.at = clock + 1 /\ clock' = clock + 1
         \/ q.at # NoRun /\ d.at = q.at /\ clock' = clock
      /\ UNCHANGED <<fact, forecast>>
  BY TypedReadOverride DEF Undisturbed
<1>2. Current(r)
  BY <1>1, Kinds DEF Undisturbed
<1>3. q.op = "generate" => d.at = clock'
  BY <1>1, <1>2 DEF Current
<1> QED BY <1>1, <1>2, <1>3, Kinds DEF Current, OwnBatch

LEMMA CurrentReadRun ==
  ASSUME Undisturbed, NEW r \in Requests, NEW run \in Stamps \cup {NoRun},
         ReadRun(r, run), req[r].alone
  PROVE  Current(r)'
<1> DEFINE q == req[r]
           d == req'[r]
           e0 == EngineOrder[q.next]
           pins == [q.pins EXCEPT ![e0] = run]
           row == [pins |-> pins, override |-> q.override]
<1>1. /\ q \in ScenarioRun /\ e0 \in Engines /\ pins \in Pins /\ row \in ResultRow
      /\ run \in LatestSuccess(e0)
      /\ d \in ScenarioRun /\ d.op = q.op /\ d.batch = q.batch /\ d.at = q.at
      /\ \/ /\ d.pins = pins /\ d.next = q.next + 1 /\ d.done = q.done
            /\ run # NoRun /\ q.next < 4
         \/ /\ d.pins = NoPins /\ d.next = 1 /\ d.done = Append(q.done, row)
            /\ run = NoRun \/ q.next = 4
      /\ UNCHANGED <<fact, clock, forecast>>
  BY TypedReadRun DEF Undisturbed
<1>2. Current(r) /\ q.next \in 1 .. 4 /\ q.done \in Seq(ResultRow) /\ q.pins \in Pins
  BY <1>1, Kinds DEF Undisturbed, ScenarioRun
<1>3. ASSUME q.op = "generate", forecast[q.batch].ok = Engines
      PROVE  /\ \A i \in 1 .. 4 : i < d.next => d.pins[EngineOrder[i]] = q.batch
             /\ \A i \in DOMAIN d.done, e \in Engines : d.done[i].pins[e] = q.batch
  <2>1. /\ OwnBatch(q.batch)
        /\ \A i \in 1 .. 4 : i < q.next => q.pins[EngineOrder[i]] = q.batch
        /\ \A i \in DOMAIN q.done, e \in Engines : q.done[i].pins[e] = q.batch
    BY <1>1, <1>2, <1>3 DEF Current
  <2>2. q.batch \in Successes(e0) /\ \A u \in Successes(e0) : u <= q.batch
    BY <1>1, <1>3, <2>1 DEF OwnBatch, Successes
  <2>3. \A t \in DOMAIN forecast : t \in Int /\ t # NoRun
    BY StampFacts DEF Undisturbed, Typed, TypeOK
  <2>4. run = q.batch /\ run # NoRun
    <3>1. run \in Successes(e0) /\ q.batch <= run
      BY <1>1, <2>2 DEF LatestSuccess
    <3> QED BY <2>2, <2>3, <3>1 DEF Successes
  <2>5. \A i \in 1 .. 4 : i < q.next + 1 => pins[EngineOrder[i]] = q.batch
    <3> SUFFICES ASSUME NEW i \in 1 .. 4, i < q.next + 1
                 PROVE  pins[EngineOrder[i]] = q.batch
      OBVIOUS
    <3>1. EngineOrder[i] \in Engines
      BY EngineFacts
    <3>2. i < q.next \/ i = q.next
      BY <1>2
    <3> QED BY <1>1, <1>2, <2>1, <2>4, <3>1, <3>2 DEF Pins
  <2>6. CASE d.pins = pins /\ d.next = q.next + 1 /\ d.done = q.done
    BY <2>1, <2>5, <2>6
  <2>7. CASE d.next = 1 /\ d.done = Append(q.done, row) /\ (run = NoRun \/ q.next = 4)
    <3>1. q.next = 4
      BY <2>4, <2>7
    <3>2. \A e \in Engines : pins[e] = q.batch
      <4>1. \A e \in Engines : \E i \in 1 .. 4 : e = EngineOrder[i]
        BY DEF Engines, EngineOrder
      <4> QED BY <2>5, <3>1, <4>1
    <3>3. \A e \in Engines : row.pins[e] = q.batch
      BY <3>2
    <3> HIDE DEF row, q, d
    <3>4. \A i \in DOMAIN d.done : d.done[i] = row \/ (i \in DOMAIN q.done /\ d.done[i] = q.done[i])
      BY <1>1, <1>2, <2>7
    <3>5. \A i \in 1 .. 4 : ~(i < d.next)
      BY <2>7
    <3> QED BY <2>1, <3>3, <3>4, <3>5
  <2> QED BY <1>1, <2>6, <2>7
<1> QED BY <1>1, <1>2, <1>3, Kinds DEF Current, OwnBatch

LEMMA CurrentCommitScenarios ==
  ASSUME Undisturbed, NEW r \in Requests, CommitScenarios(r), req[r].alone, req'[r] # Idle
  PROVE  Current(r)'
<1> DEFINE q == req[r]
           d == req'[r]
<1>1. /\ q \in ScenarioRun /\ q.at \in Stamps /\ result' = Insert(result, q.at, q.done)
      /\ d \in Listing /\ q.op = "generate" /\ d.batch = q.batch /\ d.at = q.at
      /\ UNCHANGED <<fact, clock, forecast>>
  BY TypedCommitScenarios DEF Undisturbed
<1>2. Current(r)
  BY <1>1, Kinds DEF Undisturbed
<1>3. /\ OwnBatch(q.batch) /\ q.at = clock
      /\ forecast[q.batch].ok = Engines =>
           \A i \in DOMAIN q.done, e \in Engines : q.done[i].pins[e] = q.batch
  BY <1>1, <1>2, StampFacts DEF Current
<1>4. \A t \in DOMAIN result : t <= clock
  BY StampFacts DEF Undisturbed, Typed, TypeOK
<1>5. /\ q.at \in DOMAIN result' /\ result'[q.at] = q.done
      /\ \A t \in DOMAIN result' : t <= q.at
  BY <1>1, <1>3, <1>4, StampFacts DEF Insert, Undisturbed
<1> QED BY <1>1, <1>3, <1>5, Kinds DEF Current, OwnBatch, OwnResults

LEMMA CurrentListRuns ==
  ASSUME Undisturbed, NEW r \in Requests, ListRuns(r), req[r].alone
  PROVE  Current(r)'
<1> DEFINE q == req[r]
           d == req'[r]
<1>1. /\ q \in Listing /\ d \in ListingResults /\ d.batch = q.batch /\ d.at = q.at
      /\ d.forecasts = Latest(DOMAIN forecast)
      /\ UNCHANGED <<fact, clock, forecast, result>>
  BY TypedListRuns DEF Undisturbed
<1>2. OwnBatch(q.batch) /\ OwnResults(q.at, q.batch)
  BY <1>1, Kinds DEF Undisturbed, Current
<1>3. Latest(DOMAIN forecast) = q.batch
  BY <1>2, LatestOwn DEF OwnBatch, Undisturbed, Typed, TypeOK
<1> QED BY <1>1, <1>2, <1>3, Kinds DEF Current, OwnBatch, OwnResults

LEMMA CurrentListResults ==
  ASSUME Undisturbed, NEW r \in Requests, ListResults(r), req[r].alone
  PROVE  Current(r)'
<1> DEFINE q == req[r]
           d == req'[r]
<1>1. /\ q \in ListingResults /\ d \in Assembled /\ d.batch = q.batch /\ d.at = q.at
      /\ d.forecasts = q.forecasts /\ d.scenarios = Latest(DOMAIN result)
      /\ UNCHANGED <<fact, clock, forecast, result>>
  BY TypedListResults DEF Undisturbed
<1>2. OwnBatch(q.batch) /\ OwnResults(q.at, q.batch) /\ q.forecasts = q.batch
  BY <1>1, Kinds DEF Undisturbed, Current
<1>3. Latest(DOMAIN result) = q.at
  BY <1>2, LatestOwn DEF OwnResults, Undisturbed, Typed, TypeOK
<1> QED BY <1>1, <1>2, <1>3, Kinds DEF Current, OwnBatch, OwnResults

LEMMA CurrentStarting ==
  ASSUME Undisturbed, NEW r \in Requests, Starting(r)
  PROVE  Current(r)'
<1>1. ASSUME NEW op \in Forecasting, BeginEngines(r, op)
      PROVE  Current(r)'
  <2>1. /\ req'[r] \in EngineRun /\ req'[r].at = clock + 1 /\ req'[r].step = "price"
        /\ clock' = clock + 1
    BY <1>1, TypedBeginEngines DEF Undisturbed
  <2> QED BY <2>1, Kinds DEF Current
<1>2. CASE BeginScenarios(r)
  <2>1. req'[r] \in ScenarioRun /\ req'[r].op = "scenarios"
    BY <1>2, TypedBeginScenarios DEF Fresh, Undisturbed
  <2> QED BY <2>1, Kinds DEF Current
<1>3. ASSUME NEW scenario \in Scenarios, NEW o \in ProposalId \cup {NoProposal},
             BeginSubmit(r, scenario, o)
      PROVE  Current(r)'
  BY <1>3, TypedBeginSubmit, Kinds DEF Undisturbed, Current
<1>4. ASSUME NEW u \in Reviewers, NEW o \in DOMAIN proposal, NEW approved \in BOOLEAN,
             BeginReview(r, u, o, approved)
      PROVE  Current(r)'
  BY <1>4, TypedBeginReview, Kinds DEF Undisturbed, Current
<1> QED BY <1>1, <1>2, <1>3, <1>4 DEF Starting

LEMMA CurrentGoing ==
  ASSUME Undisturbed, NEW r \in Requests, Going(r), req[r].alone, req'[r] # Idle
  PROVE  Current(r)'
<1>1. CASE \E field \in Fields : ReadFact(r, field)
  BY <1>1, CurrentReadFact
<1>2. CASE CommitEngines(r)
  BY <1>2, CurrentCommitEngines
<1>3. CASE \E o \in ProposalId \cup {NoProposal} : ReadOverride(r, o)
  BY <1>3, CurrentReadOverride
<1>4. CASE \E run \in Stamps \cup {NoRun} : ReadRun(r, run)
  BY <1>4, CurrentReadRun
<1>5. CASE CommitScenarios(r)
  BY <1>5, CurrentCommitScenarios
<1>6. CASE ListRuns(r) \/ ListResults(r)
  BY <1>6, CurrentListRuns, CurrentListResults
<1>7. CASE (\E o \in ProposalId : CommitSubmit(r, o)) \/ CommitReview(r) \/ RequestEnds(r)
  BY <1>7, TypedCommitSubmit, TypedCommitReview, TypedRequestEnds DEF Undisturbed
<1> QED BY <1>1, <1>2, <1>3, <1>4, <1>5, <1>6, <1>7 DEF Going

LEMMA UndisturbedStep == Undisturbed /\ [Next]_vars => Undisturbed'
<1> SUFFICES ASSUME Undisturbed, [Next]_vars
             PROVE  Undisturbed'
  OBVIOUS
<1>1. Typed'
  BY TypedStep DEF Undisturbed
<1>2. CASE UNCHANGED vars
  <2>1. \A r \in Requests : Solo(r)' /\ (req'[r] # Idle /\ req'[r].alone => Current(r)')
    BY <1>2 DEF vars, Undisturbed, Solo, Current, OwnBatch, OwnResults
  <2> QED BY <1>1, <2>1 DEF Undisturbed
<1>3. ASSUME NEW field \in Fields, NEW value \in Usable \cup Unusable, FactChanges(field, value)
      PROVE  Undisturbed'
  <2>1. \A r \in Requests : Same(req[r], req'[r]) /\ (req[r] # Idle => ~req'[r].alone)
    BY <1>3, TypedFactChanges DEF Undisturbed
  <2>2. \A r \in Requests : req'[r] # Idle => ~req'[r].alone
    BY <2>1 DEF Same
  <2> QED BY <1>1, <2>2 DEF Undisturbed, Solo
<1>4. ASSUME NEW r \in Requests, Handler(r)
      PROVE  Undisturbed'
  <2>1. /\ \A o \in Requests \ {r} : req'[o] # Idle => ~req'[o].alone
        /\ Going(r) /\ req'[r] # Idle /\ req'[r].alone => req[r].alone
        /\ \A p \in Requests : Solo(p)'
    BY <1>4, HandlerDisturbs DEF Undisturbed
  <2>2. Starting(r) \/ Going(r)
    BY <1>4 DEF Handler, Starting, Going
  <2>3. req'[r] # Idle /\ req'[r].alone => Current(r)'
    BY <2>1, <2>2, CurrentStarting, CurrentGoing
  <2> QED BY <1>1, <2>1, <2>3 DEF Undisturbed
<1> QED BY <1>2, <1>3, <1>4, NextHandlers

LEMMA UndisturbedInit == Init => Undisturbed
<1> SUFFICES ASSUME Init
             PROVE  Undisturbed
  OBVIOUS
<1>1. \A r \in Requests : req[r] = Idle
  BY DEF Init
<1> QED BY <1>1, TypedInit DEF Undisturbed, Solo

\* generate_report's "fresh engine + scenario runs": a report nothing overlapped shows the
\* runs it made of the data as they stand and its own results, which start from those runs
\* if every engine succeeded.
THEOREM ReportsShowFreshRuns == Spec => []ReportIsFresh
<1>1. Undisturbed => ReportIsFresh
  <2> SUFFICES ASSUME Undisturbed, NEW r \in Requests, At(r, {"generate"}, "assembled"),
                      req[r].alone
               PROVE  /\ req[r].forecasts = req[r].batch
                      /\ forecast[req[r].batch].fact = fact
                      /\ req[r].scenarios = req[r].at
                      /\ forecast[req[r].batch].ok = Engines =>
                           \A i \in DOMAIN result[req[r].at] : \A e \in Engines :
                             result[req[r].at][i].pins[e] = req[r].batch
    BY DEF ReportIsFresh
  <2>1. req[r] \in Assembled /\ req[r] # Idle
    BY HeldFacts, IdleFacts DEF At, Undisturbed, Typed, Known
  <2> QED BY <2>1 DEF Undisturbed, Current, OwnBatch, OwnResults
<1> QED BY <1>1, UndisturbedInit, UndisturbedStep, PTL DEF Spec
===============================================================================
