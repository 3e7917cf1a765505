# UnderwritingAI in TLA+

UnderwritingAI builds Investment Committee reports on real-estate projects. It finds the
project, acquires facts about it from several sources, runs deterministic forecasts and
scenarios over them, has an LLM write the sections, checks every figure of the text
against the frozen input, and takes the report through editing, review and publication.
This directory holds TLA+ models of that program, TLC configurations that check them on
small instances, and TLAPS proofs of the results that matter most.

Paths below are relative to `src/`.

## 1. Inventory

The program is a FastAPI application over PostgreSQL (async SQLAlchemy), Redis and a local
object store. Every HTTP request has a session of its own (`app/core/db.py:20-22`), at READ
COMMITTED, without row locks, version counters or `SELECT ... FOR UPDATE` anywhere; what
protects the data when requests overlap is a handful of unique constraints and one trigger.

| Component | State | Operations | What is hard | What makes it correct |
|---|---|---|---|---|
| Report life cycle `app/reporting/{service,models,repository,api}.py` | `reports`, `report_versions`, `report_sections`, PDFs in storage | generate, edit, acknowledge, submit, approve, reject, download | a long protocol over several versions; two stores (database, files) without a common commit; overlapping requests; LLM calls inside a transaction | one open version, one numbered chain; nothing unverified is published; the published version never changes |
| Gate and assembly `app/reporting/{gating,assembly,prompts}.py` | none (reads) | `check_completeness`, `assemble_report_json` | evaluated at different times of one request | no silent gap; logged disagreements are disclosed |
| Comparison `app/reporting/comparison.py` | none | diff of two snapshots | - | every difference shown once |
| Guardrail `app/llm/guardrail.py` | none | `build_reference_set`, `validate` | tolerances, overlapping matches | passes just when every claim traces |
| Field versions `app/acquisition/normalization.py` | `data_points`, `conflict_resolution_logs` | `write_field`, `write_override` | deliveries in any order; overlapping writers | one current value; history append-only; priorities decide |
| Overrides of fields `app/acquisition/override_service.py` | `manual_override_details` | submit, review | effective before the sign-off | an override wins; one sign-off |
| Acquisition `app/acquisition/{service,orchestrator,circuit_breaker,rate_limiter}.py` | `acquisition_runs`, Redis keys | acquire, retry, break, limit | several processes share Redis; crashes between commands; time | a failing source is left alone, and tried again |
| Documents and OCR `app/acquisition/document_*.py`, `app/ocr` | `documents`, `ocr_jobs`, files | ingest | file before commit | every stored file is referred to |
| Confidence, staleness `app/acquisition/{confidence,staleness}.py` | none | pure functions | boundaries | bounded, monotone |
| Adapters `app/adapters` | sessions with outside sites | `get_project`, `search_project` | external I/O | - |
| Engines `app/analytics` | `forecast_runs`, assumption sets | `run_all_engines` | partial success; commits in the middle of a report | each run reproducible |
| Scenarios `app/scenario` | `project_scenario_overrides`, `scenario_results` | submit, review, run | overlapping submissions; mixed base runs | only an approved override counts |
| Discovery `app/discovery` | queries, candidates, `confirmed_mappings`, projects, developers | search, confirm, reuse, live resolve | look-up-then-insert; NULLs in unique keys | one mapping per search, one project per registration |
| Identity `app/identity`, `app/core/security.py` | users, roles | register, log in, check permission | unique e-mail | permission before every handler |
| Jobs `app/core/{api,tasks,models}.py` | `job_runs`, the Celery queue | enqueue and run a ping | crash between commit and enqueue, redelivery | - |
| LLM providers, OCR engine, PDF layout, web client, configuration | - | - | external or presentation | - |

Interaction: acquisition, documents and overrides write fields through `normalization`;
the gate, the engines and the assembly read the current field rows; `generate_report` calls
gate, engines, scenarios, assembly and the LLM in that order and freezes the assembled
input into the version; edits are checked against that frozen input and never against the
live fields.

`PROJECT.json` lists every component with its status, and the hazards line by line.

## 2. Modules

| Module | Models | EXTENDS / INSTANCE |
|---|---|---|
| `Tables` | a table as a function from keys to rows; `Insert` | - |
| `ReportLifecycle` | the report handlers, each one atomic step | `Tables`; `PublishedArchive` through `Archive` |
| `PublishedArchive` | abstract: numbered editions, at most one open, filed documents permanent | - |
| `ReportTx` | the same handlers as reads, flushes and commits of overlapping requests | `ReportLifecycle` |
| `DataPoints` | the rows, the conflict log and the overrides of one field | `Tables` |
| `FieldTx` | acquisitions, document ingestions, overrides and reviews of one field as overlapping transactions | `DataPoints`; itself again through `Seen` |
| `SourceGuard` | the Redis keys of circuit breaker and rate limiter, one operator per command | - |
| `Acquisition` | overlapping requests that use them, retry, and may die; time | `SourceGuard` |
| `Forecasts` | engine runs, scenario proposals, scenario results, and what a report assembles of them, under overlap | `Tables` |
| `Discovery` | searches, confirmations, reuse and live resolution, under overlap | `Tables` |
| `MCReportLifecycle`, `MCReportTx`, `MCDataPoints`, `MCFieldTx`, `MCAcquisition`, `MCForecasts`, `MCDiscovery` | finite instances, symmetry, bounds | the module they instantiate |
| `ReportLifecycleProofs` | invariants and action properties of `ReportLifecycle` | `ReportLifecycle` |
| `ReportArchiveProofs` | `ReportLifecycle` implements `PublishedArchive` | `ReportLifecycleProofs` |
| `ReportTxProofs` | what survives overlapping report requests | `ReportTx`, `ReportLifecycleProofs` |
| `DataPointsProofs` | invariants and action properties of `DataPoints` | `DataPoints` |
| `FieldTxProofs`, `AcquisitionProofs`, `ForecastsProofs`, `DiscoveryProofs` | the safety of each | the module of that name |

### ReportLifecycle

`row` is `report_versions` (of one report), `section` the `report_sections` of each version,
`file` the object store by version (the storage key is made of the version's id), `current`
is `reports.current_version_id`. Texts, snapshots (`generated_json`) and users are model
values. The guardrail is the relation `Traceable` between texts and snapshots; the bounded
regeneration loop of `_generate_section_with_guardrail` ends with some text and that text's
verdict, which is all that reaches the database. `note` remembers, in place of the
acknowledgement's wording, the text it was written about.

| Action | Code | Notes |
|---|---|---|
| `GenerateReport` | `service.py:111-195` | gate, supersede, insert version and sections, pointer, one commit |
| `GenerateAborted` | `service.py:130-140` | `run_all_engines` has committed, something later raised: only a new `reports` row stays |
| `EditSection` | `service.py:198-230` | drafts only; clears the acknowledgement |
| `AcknowledgeFailure` | `service.py:233-250` | no status check, as in the code: any version, published ones too |
| `SubmitForReview`, `Approve`, `Reject` | `service.py:253-314` | `Approve` saves the PDF and commits |
| `ApproveAborted` | `service.py:296-313` | the PDF is saved and the commit fails |

`GENERATING` is written and overwritten inside one transaction, so no committed row has it.
The permission checks of `app/reporting/api.py` are the memberships in `Analysts` and
`Reviewers`, which may overlap: the code does not require two different people.

### ReportTx

`req` is what each request in progress has read; `world` is the snapshot the assembly would
build now. A handler is split where it reads and where its writes become visible:

- `Begin*` reads the rows and takes the handler's decision; a conflicting row committed
  later is not seen, because the session keeps what it loaded.
- `Commit*` writes. SQLAlchemy sends only columns whose value differs from the one loaded,
  hence `Merge`. A review reads version and pointer once, in the API function; the service's
  second read returns the same objects from the session's identity map.
- generation has four steps: the gate, the commit of engines and scenarios, the assembly with
  the read of the latest version, the flush (which locks the version being superseded until
  the commit after the LLM calls), and the commit.
- `TriggerRaises` is the trigger of migration `fb6c16e56730`; a request it stops ends in
  `RequestFails`, which may happen to any request at any time (exception, disconnection,
  a server that dies).
- `alone` is a history variable: TRUE while no other request, and no change of the data,
  has overlapped the request.

The rows one handler needs are read together. Between a section's read and its version's
read the code could in principle be overtaken; nothing follows from it that two overlapping
requests do not already show.

### DataPoints

One field of one project. `point` is `data_points`, `log` the winners and losers of
`conflict_resolution_logs`, `detail` the `manual_override_details`. `write_field` has four
outcomes, one disjunct each: `FirstValue`, `Refresh`, `NewcomerWins`, `NewcomerLoses`.
`Values` are values after conversion: a value that does not convert raises before anything
is written. A document may name any data source as its own, so `write_field` may be called
with the manual source too (`app/acquisition/api.py:107-144`). Writers take turns here;
`FieldTx` lets them overlap.

### FieldTx

One field again, written by whole transactions. `req[r].rows`, `lost` and `entries` are what
request `r` has flushed and not committed: its new rows, the rows it has taken out of force
and how, its log entries. `Visible(r)` is the table such a transaction sees.

| Action | Code | Notes |
|---|---|---|
| `Begin` | `acquisition/service.py:53`, `document_service.py:45`, `override_service.py` | `todo` are the sources it may still write as: all but the manual one, the document's, the manual one |
| `ReadCurrent` | `normalization.py:46-76` | the SELECT for the current row; two rows raise, so the only step left is `Abort` |
| `Flush` | `normalization.py:98-187` | decides on the row as it was loaded; the UPDATE waits for a row another transaction has updated (`Locked`) |
| `SaveFile` | `document_service.py:45-87` | the upload is in storage before anything else is known |
| `Commit`, `BeginReview`, `CommitReview` | `document_service.py:89-118`, `override_service.py:81-107` | a transaction ends; if it wrote, the others in progress that had read the field or hold a sign-off (`Touched`) have been overtaken |
| `Abort` | `core/db.py:20-22` | all is undone but the file |

`late` is a history variable: the rows of transactions that were overtaken. A transaction
that has not yet read the field loses nothing by another's commit and is not overtaken by it:
it will read what was committed. Two fields
written in opposite orders can block each other until PostgreSQL ends one of the two; with
one field that is only seen as an `Abort`.

### SourceGuard and Acquisition

One step is one Redis command or one call of a source. `open`, `failures`, `opened` are the
three keys of a source's breaker, `used` the counter of the current rate-limiter window.
Times are ages in ticks (`Aging`), saturated at the cooldown; `WindowEnds` starts a window
with a counter of its own. `is_open` is `ReadState` and `ReadOpenedAt`, `record_failure` is
`CountFailure`, `MarkOpen` and `StampOpen`, `record_success` is one DEL; other requests step
in between, and `Abort` may cut an opening short. The limiter counts calls of
`execute_get_project`, not the attempts inside it, as the code does. `hits` and `torn` are
history variables: calls of a source since its breaker began to block, and whether an
opening was left incomplete.

The comment at `app/acquisition/circuit_breaker.py:43-46` speaks of exactly one half-open
trial; after the cooldown every caller passes until one of them reports. The model does what
the code does, and no property claims the comment.

### Forecasts

`forecast`, `result` are the rows of `forecast_runs` and `scenario_results` by `created_at`,
which is the start of the transaction; equal stamps of two transactions are ignored. A
request reads the data of the two fields one after the other, commits four runs at once, and
for each scenario type reads the active proposal and then the latest success of each engine,
query by query. An engine either has the values it needs or not (`Succeeding`); what it
computes is a function of them. `alone` is TRUE while nothing else has happened to the
project since the request began.

| Action | Code |
|---|---|
| `BeginEngines`, `ReadFact`, `CommitEngines` | `analytics/service.py`, `run_all_engines` |
| `BeginScenarios`, `ReadOverride`, `ReadRun`, `CommitScenarios` | `scenario/service.py`, `run_scenario`, `run_all_scenarios` |
| `ListRuns`, `ListResults` | `reporting/assembly.py` |
| `BeginSubmit`, `CommitSubmit`, `BeginReview`, `CommitReview` | `scenario/service.py`, proposals |
| `FactChanges`, `RequestEnds` | an acquisition moves the data; a request dies |

When an engine fails in a report, its newest run is the failure and the report omits the
forecast, while the scenarios still start from the success of an older run. The comment at
`app/reporting/service.py:134` ("Fresh engine + scenario runs") promises otherwise;
`ReportIsFresh` claims the scenarios' runs only where all engines succeeded.

### Discovery

`mapping` is `confirmed_mappings`, with the unique constraint that a NULL city escapes
(`Admits`); `query` is `search_queries` with its candidates; `project` and `developer` are
the tables live resolution adds to. The ranking is modelled by its composites (`Composite`):
those of one search share a divisor, so they are compared undivided, and the rounding to two
decimals is left out. The last write of a transaction and its COMMIT are one step.
`mark_candidate_chosen` is part of the look-up behind it; it waits for a request that marks
the same candidate. Registration and project name are the same in MAHARERA's list and in its
details; the developer's name may differ, which is what `DeveloperName` is about. Two
mappings of one search make every later look-up raise: such a request has no step but
`Abort`. `since`, `made`, `uses`, `last`, `decided` and `contended` are history.

## 3. Runs

| Run | Instance | Checks | Shows |
|---|---|---|---|
| `report_lifecycle` | 3 versions, 2 sections, 3 texts, 2 snapshots | `TypeOK`, `OneOpenVersion`, `VersionChain`, `ReviewedTextAccounted`, `PublishedPdfIsCurrent`, `PublishedFrozen`, `OriginalKept`, `ImplementsArchive` | the life cycle is right while requests do not overlap |
| `report_overlap` | 2 requests, 2 versions, 1 section, 2 snapshots | `TxTypeOK`, `PublishedHasPdf`, `NumbersFollowChain`, `PublishedRowFrozen`, `SerialWhenAlone` | what survives overlapping requests; and that a request nobody overlaps takes `ReportLifecycle`'s steps |
| `field_history` | 5 writes, 4 sources (2 ranked), 2 values, sign-off required | `TypeOK`, `OneCurrent`, `VersionLine`, `LogMatchesPoints`, `PriorityStanding`, `HistoryFrozen` | field histories and conflict resolution are right while writers take turns |
| `field_overlap` | 2 requests, 4 in all, 3 rows, 2 ranked sources and the manual one, 2 values, 1 document, sign-off required | `TxTypeOK`, `SecondOnlyWhenOvertaken`, `DocumentsWhole`, `NeverFewerCurrent`, `HistoryKept`, `SerialUntilOvertaken` | a second current value needs an overlap; what history keeps under overlap; a transaction nobody overtook takes `DataPoints`' steps |
| `acquisition` | 2 requests, 1 source, 3 failures open the breaker, 3 attempts, cooldown 2, limit 2 | `TypeOK`, `LeftAlone`, `KeysAgree`, `RequestsEnd`, `TriedAgain` | a blocked source is left alone, its keys come together again, requests end, no source is locked out |
| `forecasts` | 2 requests, 2 scenario types, 2 proposals, 4 stamps, 4 events, one usable and one unusable value | `TypeOK`, `PinsConsistent`, `ScenariosInStep`, `AppliedWasApproved`, `OneProposal`, `ReportIsFresh` | what results start from while others commit; only approved proposals are applied; an undisturbed report is fresh |
| `discovery` | 2 requests, 4 in all, a search with a city and one without, 3 registrations, 2 names, 2 users | `TypeOK`, `OneMapping`, `AsDecided`, `OneProject` | what it takes for a second mapping or a second project, and that a mapping is what was decided |
| `failed_rewrite` | 3 versions, 2 sections, 2 texts, 2 snapshots | `FailedIsRewritable`, violated | finding 1 |
| `overlapping_edits` | 2 requests, 1 version, 3 texts | `EditedVerdictIsOfText`, violated | finding 2 |
| `overlapping_transitions` | 2 requests, 2 versions | `ValidTransitions`, violated | finding 3 |
| `override_outranked` | 4 writes | `OverrideWins`, violated | finding 4 |
| `disclosure_lost` | 4 writes | `DiscrepancyDisclosed`, violated | finding 5 |

Bounds, and why they are enough:

- Versions: the chain, the pointer and superseding need a predecessor and a successor of a
  version in each status, hence three. The third is generated with passing texts and not
  edited (`ThirdVersionPlain`): what it adds is its number, its links and what its creation
  does to the other two. Two sections tell "every section" from "some section".
- Texts and snapshots: each snapshot passes one text and fails the other, so each text can
  be right for one version and wrong for the next; the second snapshot is also incomplete,
  so that the gate and its override happen. A third text fails against both, so that one
  failing text can replace another; it is written by an analyst into the first version only
  (`ThirdTextRare`).
- `report_overlap`: every pair of handlers meets on one version, or on a version and its
  successor. `OneVersionTouched` keeps edits to one version at a time, `DataMovesForward`
  lets the data change once and only before a version is worked on, since it can only
  disturb the gate and the assembly.
- Fields: two ranked sources, one unranked and the manual one give every relation of ranks
  (better, worse, tie of unranked); five writes suffice for a value to win, be refreshed,
  be overridden, and be contested again.
- `field_overlap`: two transactions suffice for each to overtake the other, four in all for
  a value, a conflict on it, an override and a review; three rows for one in force and two
  that compete to displace it.
- `acquisition`: threshold and attempts are the code's; a cooldown of two ticks tells "just
  stamped" from "ageing" and "over", and a limit of two is reached by two requests and by
  one request twice. One request can go on calling while the other opens the breaker, dies in
  the middle of it, or succeeds beside it. With one source a request asks one source at a
  time; a second source has keys of its own and takes the instance beyond twelve million states;
  the proofs cover any number.
- `forecasts`: with four stamps and events a report overlaps a forecast, another report, a
  submission or a change of the data, before and after which each may commit. Two scenario
  types have an order.
- `discovery`: with a city one registration is an exact match and the other so close that one
  use of it makes the search ambiguous, the third is out of reach; without a city the search
  always asks. The weights and thresholds are the seeded ones, with a wider margin, so that
  one use tips a search.
- The model values of primary keys (and of requests, sections, values) are interchangeable
  and enter no property by name: the symmetry sets.

`CHECK_DEADLOCK FALSE`: users may stop at any time, and the models end when the keys, the
stamps or the requests the instance provides are used up. `acquisition` has no such bound
and is checked for deadlock.

Fairness and liveness: only `Acquisition` claims that something must happen. Its fairness is
`WF(Proceed(q))` for each request, because the server goes on with a request it has begun
and every call it makes outside has a time limit; and `WF(Aging)`, `WF(WindowEnds)`, because
time passes. No one has to begin a request and nobody has to die, or to succeed. In the
other components every step is a user's request or waits for one, and the models claim
safety only.

## 4. Findings

1. A version whose generation fails the guardrail can be neither edited nor submitted; the
   "manual rewrite" of `docs/SAD.md:373` and `docs/SAD.md:392` has no path
   (`app/reporting/service.py:213`).
2. Overlapping edits of a section can store one edit's text beside the other's verdict.
   The section is loaded with a failing edit; the first request replaces it by a text
   that passes, the second by another that fails. The second changed its text, and its
   verdict not relative to what it loaded, so only the text is sent: a failing text is
   stored as passed, and can be submitted without an acknowledgement
   (`app/reporting/service.py:221-229`).
3. Overlapping transitions of one version go along edges the life cycle does not have,
   because the status is checked on what was loaded (`app/reporting/service.py:257`).
4. An override is beaten by the next delivery of any ranked source, against
   `README.md:82` and the comment at `app/acquisition/normalization.py:154`.
5. The disclosure of a disagreement is tied to the row that won it. When the winning
   source merely reports again, the new current row has won nothing, and the report stops
   disclosing the disagreement (`app/reporting/assembly.py:46`), against `docs/PRD.md:144`.

## 5. Proofs

### The report life cycle

The theorems hold for every value of the constants that satisfies `TablesAssumption` (the
NULLs are not keys, texts or users; incomplete snapshots are snapshots): any number of
versions, sections, texts, snapshots and users, and any guardrail relation.

| Theorem | States |
|---|---|
| `TypeCorrect`, `OneVersionOpen`, `VersionsChained` | `Spec => []TypeOK`, `[]OneOpenVersion`, `[]VersionChain` |
| `ReviewedTextsAccounted`, `PdfsCurrent` | `Spec => []ReviewedTextAccounted`, `[]PublishedPdfIsCurrent` |
| `PublishedStaysFrozen`, `OriginalsStay` | `Spec => PublishedFrozen`, `Spec => OriginalKept` |
| `Implementation` (`ReportArchiveProofs`) | `Spec => ImplementsArchive` |

Two inductive invariants carry them.

- `Versions == TypeOK /\ OneOpenVersion /\ VersionChain`. The three need each other: the
  new number is fresh because the pointer and the query agree on the version numbered last;
  only one version is open because every open one is numbered last; and the step that
  supersedes it relies on numbers being unique.
- `Contents == TypeOK /\ Verdicts /\ Cleared /\ PublishedPdfIsCurrent`. `ReviewedTextAccounted`
  alone is not inductive: whether a text may be submitted depends on its stored verdict, so
  `Verdicts` says that the verdict stored with a section is its effective text's and that an
  acknowledgement stands for the text in force, and `Cleared` that a version in review or
  published has no open failure.

The action properties follow from `Versions` and one case per action. The refinement maps
versions to editions by number; each handler is shown to open an edition, to publish one, or
to stutter. That `Publish` files the open edition under the last number is where
`OneOpenVersion` is used, and that no later step changes a filed document is
`PublishedFrozen` once more.

### Field versions

The theorems hold for every value of the constants that satisfies `FieldAssumption` (the
manual source is a source, the priorities are a list of sources, NULLs are not keys or
users): any number of sources, values, analysts and writes, and any priority list, with
repetitions or without some sources.

| Theorem | States |
|---|---|
| `TypeCorrect`, `OneCurrentRow` | `Spec => []TypeOK`, `[]OneCurrent` |
| `LogStaysWithPoints` | `Spec => []LogMatchesPoints` |
| `VersionsFormLine` | `Spec => []VersionLine` |
| `BestSourceStands` | `Spec => []PriorityStanding` |
| `HistoryStaysFrozen` | `Spec => HistoryFrozen` |
| `TiesAreUnlisted` | `_priority_rank` ties two sources just when the list ranks neither |
| `OneBestSource` | `Spec => []RankedBelow`: every other source that delivered since the last override is ranked strictly below the one in force, unless the list ranks neither |

`Basis == TypeOK /\ OneCurrent` is inductive: with one current row, `Current` names it, and
each of the five ways to write is one of two kinds, a row that takes over (`TakesOver`) or
one that stays out (`StaysOut`). What both kinds share is `Adds`: one more row, linked to
the current one, while no row loses what it says. `VersionLine` is inductive beside `Basis`:
a write extends the line at its end or leaves it (`LineGrows`). It bounds every version by
one more than the current row's (`VersionsBounded`), so that right after an override no row
is newer than it, which is why `PriorityStanding` starts afresh there (`OverrideRestarts`);
the other steps are arithmetic on ranks. `LogMatchesPoints` needs that the current row is
never marked conflicting, which is `OneCurrent`.

`Rank` is defined as the number of places that lead the list without being the source's.
`RankIsPlace` shows that this is what the code computes: the place of the first mention
counted from zero, or the length of a list without one. The first mention exists because
the naturals are well-founded (`ListedHasPlace`); ties follow from there.

### Overlapping report requests

Assumptions as for the life cycle; any number of requests.

| Theorem (`ReportTxProofs`) | States |
|---|---|
| `TxTypeCorrect`, `PublishedVersionsHavePdfs` | `TxSpec => []TxTypeOK`, `[]PublishedHasPdf` |
| `NumbersStayOnChain` | `TxSpec => []NumbersFollowChain` |
| `PublishedRowStaysFrozen` | `TxSpec => PublishedRowFrozen` |
| `AloneRequestsAreSerial` | `TxSpec => SerialWhenAlone`: what an undisturbed request does is what `ReportLifecycle` says it does |
| `AloneRequestsKeepOrder` | an undisturbed request takes tables in order to tables in order, whatever overlapped before it |
| `WithoutOverlapLifecycle` | `TxSpec /\ []NoOverlap => Spec`: one request at a time, the split handlers implement the atomic ones |
| `WithoutOverlapInOrder` | `TxSpec /\ []NoOverlap` keeps `OneOpenVersion`, `VersionChain`, `ReviewedTextAccounted`, `PublishedPdfIsCurrent` |

The invariant pairs the tables with what each request relies on (`Sound`): the version it is
about exists, the number it took is still the one behind the version it supersedes, a version
whose row it has locked is not published, and the PDF it saved is there. A step of one
request keeps that of the others because rows stay, numbers never change, and only the holder
of a lock can publish the row.

For a request that is alone the invariant says more: the rows it has read are the rows there
are (`SerialInv`), so the decision it took on what it loaded is the decision `ReportLifecycle`
takes on the tables, and merging its columns into the row gives that module's row. Each of
its steps is then a step of `ReportLifecycle` or a stutter. The refinement holds under
`NoOverlap` and not of `TxSpec` alone: findings 2 and 3 are the counterexamples. With it the
theorems of `ReportLifecycleProofs` carry over, which is what `WithoutOverlapInOrder` says;
`AloneRequestsKeepOrder` needs their inductive steps only, and so holds for one request
alone in the middle of a history in which others overlapped.

### Overlapping writers of a field

Any number of requests, rows, sources, values and documents, any priority list;
`FieldAssumption` and `TxAssumption`.

| Theorem (`FieldTxProofs`) | States |
|---|---|
| `TypesUnderOverlap`, `TwoCurrentTakeOverlap`, `DocumentsHaveFiles` | `TxSpec => []TxTypeOK`, `[]SecondOnlyWhenOvertaken`, `[]DocumentsWhole` |
| `ValueStaysInForce`, `HistoryOnlyGrows` | `TxSpec => NeverFewerCurrent`, `TxSpec => HistoryKept` |
| `AloneUntilOvertaken` | `TxSpec => SerialUntilOvertaken` |
| `SerialTablesInOrder` | `TurnSpec => [](late = {} => OneCurrent /\ VersionLine /\ LogMatchesPoints /\ PriorityStanding)` |

`TxInv` says of every transaction (`Whole`) that its rows are new, that it has taken at most
one committed row out of force and then has one of its own in force, and of one nobody has
overtaken (`Fresh`) that what it read as current is all there is beside what it has taken out
of force. `Fresh` is what a commit needs to leave no second current row, and the first commit
of another transaction takes it away; that `Whole` survives is why the number of current rows
never falls.

`AloneUntilOvertaken` compares two tables: what a transaction sees (`Visible`: the committed
rows, those it took out of force, its own) before and after a step. While `Fresh` holds, the
row it loaded is the current row of that view (`SeenCurrent`), so a flush decides as
`write_field` would on it and is one write of `DataPoints` there (`FlushIsOneWrite`); a commit
publishes the view (`CommitPublishes`); and no step of another transaction short of a commit
that wrote changes it (`ViewStays`).

`SerialTablesInOrder` draws the conclusion: as long as no transaction that committed rows had
been overtaken, the committed tables keep all that `DataPointsProofs` proves of writers that
take turns. Its invariant (`KeptUntilOvertaken`) says so of the committed tables and of the
view of each transaction nobody has overtaken; each step of the view is one of `DataPoints`,
whose step lemmas are reused through an instance. The instance needs the actor as a variable,
hence `TurnSpec`: `TxSpec` with a variable that says whose step comes next, set freely between
steps. It allows the behaviours of `TxSpec`, with steps that only pass the turn in between
(every TxSpec step is a `TxStep(turn)` for some `turn`), and no other (`TurnsAreSteps`).

### Acquisition

Any number of sources and (finitely many) requests, any threshold, cooldown, limit and number
of attempts (`GuardAssumption`, `AcquisitionAssumption`).

| Theorem (`AcquisitionProofs`) | States |
|---|---|
| `TypeCorrect`, `KeysStayTogether`, `BlockedSourceLeftAlone` | `Spec => []TypeOK`, `[]KeysAgree`, `[]LeftAlone` |
| `NoRequestCircles` | `Spec => [][StepsLeaveLess]_vars` |
| `NoSourceLockedOut` | `Spec => [][BlockRunsOut]_vars` |

`Typed` adds that a request on its way to a call has attempts left. `Keys` says when each
key may be ahead of the others: an opening under way that no success has overtaken has its
failures counted, and the state set once it is past it. `Bounded` counts: the calls of a
source since it was blocked, together with the attempts still left to requests past the
check, never exceed those of all requests but the one that opened the breaker.

The last two are the part of the liveness properties that is safety: a bound that runs out.
`Work` counts the steps a request has still to take, `MaxAttempts + 7` for each source left;
each of its own steps lowers it, and neither another request nor time raises it, so with
`WF(Proceed(q))` it ends (`RequestsEnd`). `TicksBlocked` counts the ticks a source can remain
blocked: those of its stamp, and a cooldown and a tick for each request past the check, which
is the only kind that can stamp the breaker anew, once, and which no request becomes while the
source is blocked (`NoneJoins`). Every tick lowers it, so with `WF(Aging)` the block ends
(`TriedAgain`). Both bounds rest on the finitely many sources and requests of
`AcquisitionAssumption`.

### Forecasts

Any number of requests, scenario types, proposals, reviewers and values
(`ForecastAssumption`).

| Theorem (`ForecastsProofs`) | States |
|---|---|
| `TypeCorrect` | `Spec => []TypeOK` |
| `ResultsStartConsistently`, `ScenariosStayInStep` | `Spec => []PinsConsistent`, `[]ScenariosInStep` |
| `OnlyApprovedApplied`, `OneProposalAtATime` | `Spec => []AppliedWasApproved`, `[]OneProposal` |
| `ReportsShowFreshRuns` | `Spec => []ReportIsFresh` |

`Typed` carries what requests hold at each step. `Pinned` says of a scenario under way what
`PinsConsistent` says of a result, and that what is there to be read can only have become
younger: committed runs stay, and the risk engine succeeds in each. `Approved` says of a
proposal about to be applied that a decision to approve it was committed. `Numbered` and
`Undisturbed` follow a request that is alone: there is no other in progress (`Solo`), so what
it has read is what stands (`UpToDate`, `Current`).

### Discovery

Any number of requests, searches, registrations, users and rows, and any ranking
(`DiscoveryAssumption`, `SeedAssumption`).

| Theorem (`DiscoveryProofs`) | States |
|---|---|
| `TypeCorrect`, `OneMappingPerSearch` | `Spec => []TypeOK`, `[]OneMapping` |
| `MappingsAsDecided`, `OneProjectPerRegistration` | `Spec => []AsDecided`, `[]OneProject` |

`Inv` conjoins the four with what each request relies on (`Sound`): the mapping it read is
still there, and unless it is unchanged its last write is no older than the request; if it
read none, any there is now was made since it began; the same for the registration it
resolves. Each of these says that whatever contradicts a look-up overlaps the request, which
is what the properties allow.

### What stays with TLC

- `RequestsEnd` and `TriedAgain` themselves: from the bounds proved above to the liveness
  takes fairness, which is out of the prover's reach, as are `ENABLED` (`FailedIsRewritable`) and recursively defined functions over unbounded data.
- The violations.

## 6. Plan

Modelled, checked and proved about: the report life cycle and its overlapping requests, the
values of a field and their overlapping writers, acquisition, forecasts and scenarios,
discovery. What is left, in order:

1. Proofs: what the report and the field writers promise of a request alone, for `Forecasts`
   and `Discovery` too (an atomic specification of each, refined while requests do not overlap).
2. Two fields written in opposite orders by two transactions, and the deadlock PostgreSQL
   breaks between them.
3. `Guardrail` and `Assembly`: claim matching, staleness, confidence and comparison as
   operators checked against reference definitions over bounded inputs.
4. `acquisition_runs`: a run row beside each source's outcome.

Abstract specifications worth having: a register of versioned values with one current value
(for `DataPoints`), and a breaker that allows one trial per cooldown, which the code does not
implement.

## 7. Not modelled

- Adapters, LLM providers and the OCR engine are external: their answers enter as arbitrary
  texts, values and failures.
- The engines' formulas and the scenario adjusters are floating-point arithmetic without
  state; `Forecasts` has which engines succeed and what a run starts from.
- The guardrail's claim extraction is regular expressions and tolerances on floats; its
  verdict enters as the relation `Traceable`. The same holds for the patterns of
  `extract_fields`.
- Comparison, confidence and staleness change no state.
- `acquisition_runs` records what happened and is read by no decision.
- Background jobs are a placeholder: one ping task and its status row.
- The web client, configuration and prompt wording have no state of their own.
- Response codes: an edit under the wrong version id takes effect and then answers 404
  (`app/reporting/api.py:161`), which is recorded as a hazard only.
