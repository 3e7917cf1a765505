------------------------------- MODULE Discovery -------------------------------
(***************************************************************************)
(* Which project a search string means (app/discovery): searches that rank *)
(* the known projects, analysts' confirmations, the mappings both leave    *)
(* behind, and projects added from MAHARERA's public site.                 *)
(*                                                                         *)
(* Requests overlap.  Each is one READ COMMITTED transaction that reads,   *)
(* decides, and writes at its end; the flush of that last write and the    *)
(* COMMIT behind it are one step.                                          *)
(***************************************************************************)
EXTENDS Integers, FiniteSets, FiniteSetsExt, Tables

CONSTANTS
  Requests,       \* requests that can be in progress at once
  Keys,           \* normalized search strings with their city hint
  Cityless,       \* those whose city_hint is NULL
  Users,          \* users who search and confirm
  Registrations,  \* RERA registration numbers
  Names,          \* names of developers
  PromoterName,   \* for a registration: the developer's name in MAHARERA's details
  ListedName,     \* and in its list of projects
  QueryId, MappingId, ProjectId, DeveloperId,   \* primary keys rows may get
  NoRow,          \* a SELECT found nothing
  SeedDevelopers, SeedProjects,   \* rows that are there from the start
  Weight,         \* weights of the active ranking_configs row, by scorer
  AutoProceed, ShowFrom, Margin,   \* its thresholds
  Exact,          \* <<key, registration>>: the normalized names are equal
  Similarity,     \* for a key and a registration: how much they look alike, 0 to 100
  SameCity,       \* <<key, registration>>: the cities are equal
  MaxShown,       \* MAX_CANDIDATES_SHOWN
  MaxBegun        \* bound: requests begun

ASSUME DiscoveryAssumption ==
  /\ Cityless \subseteq Keys
  /\ {PromoterName, ListedName} \subseteq [Registrations -> Names]
  /\ Similarity \in [Keys -> [Registrations -> 0 .. 100]]
  /\ Exact \subseteq Keys \X Registrations /\ SameCity \subseteq (Keys \ Cityless) \X Registrations
  /\ DOMAIN Weight = {"exact_name", "fuzzy_name", "city", "historical_selection"}
  /\ \A scorer \in DOMAIN Weight : Weight[scorer] \in Nat
  /\ {AutoProceed, ShowFrom, Margin, MaxShown, MaxBegun} \subseteq Nat
  /\ NoRow \notin MappingId

\* The projects there from the start are told apart by their registrations.
ASSUME SeedAssumption ==
  /\ DOMAIN SeedDevelopers \subseteq DeveloperId
  /\ SeedDevelopers \in [DOMAIN SeedDevelopers -> Names]
  /\ DOMAIN SeedProjects \subseteq ProjectId
  /\ SeedProjects \in [DOMAIN SeedProjects ->
                         [registration : Registrations, developer : DeveloperId,
                          since : {0}, made : {0}]]
  /\ \A p, o \in DOMAIN SeedProjects :
       p # o => SeedProjects[p].registration # SeedProjects[o].registration

VARIABLES
  developer,  \* developers: the name of each
  project,    \* canonical_projects
  query,      \* search_queries, each with its candidate_matches
  mapping,    \* confirmed_mappings
  begun,      \* history: requests begun so far
  req         \* requests in progress

vars == <<developer, project, query, mapping, begun, req>>

\* since, made: history, the values of begun when the request that made a row began and
\* when it committed.  Two requests overlapped when each began before the other committed.
ProjectRow ==
  [registration : Registrations, developer : DeveloperId,
   since : 0 .. MaxBegun, made : 0 .. MaxBegun]

QueryRow == [key : Keys, shown : SUBSET ProjectId, chosen : SUBSET ProjectId]

MappingRow ==
  [key : Keys, project : ProjectId, confirmed_by : Users, hit_count : Nat \ {0},
   since : 1 .. MaxBegun, made : 1 .. MaxBegun,
   decided   : ProjectId \X Users,   \* history: what was confirmed last, and by whom
   uses      : Nat \ {0},            \* history: commits that wrote the row
   last      : 1 .. MaxBegun,        \* history: the value of begun at the last of them
   contended : BOOLEAN]              \* history: one of them overlapped another

Overlapped(a, b) == a.since <= b.made /\ b.since <= a.made

Idle == [op |-> "idle"]

At(r, step) == req[r].op # "idle" /\ req[r].step = step

Begin(r, q) ==
  /\ req[r] = Idle
  /\ begun < MaxBegun
  /\ begun' = begun + 1
  /\ req' = [req EXCEPT ![r] = q]
  /\ UNCHANGED <<developer, project, query, mapping>>

Step(r, q) ==
  /\ req' = [req EXCEPT ![r] = q]
  /\ UNCHANGED <<developer, project, query, mapping, begun>>

Ends(r) == req' = [req EXCEPT ![r] = Idle] /\ UNCHANGED begun

(***************************************************************************)
(* Ranking.  Composites of one search share a divisor, so they are         *)
(* compared undivided; their rounding to two decimals is left out.         *)
(***************************************************************************)
\* get_confirmed_mapping: scalar_one_or_none raises when there are two.
MappingsOf(k) == {m \in DOMAIN mapping : mapping[m].key = k}

Finds(rows, row) == rows = IF row = NoRow THEN {} ELSE {row}

\* get_historical_hit_counts
Hits(p) ==
  MapThenSumSet(LAMBDA m : mapping[m].hit_count, {m \in DOMAIN mapping : mapping[m].project = p})

HistoricalSelection(p) == IF Hits(p) > 4 THEN 100 ELSE 25 * Hits(p)

ExactName(k, g) == IF <<k, g>> \in Exact THEN 100 ELSE 0

FuzzyName(k, g) == Similarity[k][g]

\* No score, rather than none, when there is no city to compare.
City(k, g) == IF <<k, g>> \in SameCity THEN 100 ELSE 0

Scorers(k) == IF k \in Cityless THEN DOMAIN Weight \ {"city"} ELSE DOMAIN Weight

Score(scorer, k, p) ==
  LET g == project[p].registration IN
    CASE scorer = "exact_name"           -> ExactName(k, g)
      [] scorer = "fuzzy_name"           -> FuzzyName(k, g)
      [] scorer = "city"                 -> City(k, g)
      [] scorer = "historical_selection" -> HistoricalSelection(p)

Composite(k, p) == MapThenSumSet(LAMBDA scorer : Weight[scorer] * Score(scorer, k, p), Scorers(k))

\* A threshold on the same scale.
Scaled(k, threshold) == threshold * MapThenSumSet(LAMBDA scorer : Weight[scorer], Scorers(k))

\* The projects a ranking may put first: ties are as list_projects happens to order them.
Tops(k, listed) == {p \in listed : \A o \in listed : Composite(k, o) <= Composite(k, p)}

Separation(k, listed, top) ==
  Composite(k, top) - Max({0} \cup {Composite(k, o) : o \in listed \ {top}})

Unambiguous(k, listed, top) ==
  /\ top \in Tops(k, listed)
  /\ Composite(k, top) >= Scaled(k, AutoProceed)
  /\ Separation(k, listed, top) >= Scaled(k, Margin)

\* The first MaxShown of those that clear the threshold.
Showable(k, listed, shown) ==
  LET clear == {p \in listed : Composite(k, p) >= Scaled(k, ShowFrom)} IN
    /\ shown \subseteq clear
    /\ shown = clear \/ Cardinality(shown) = MaxShown
    /\ Cardinality(shown) <= MaxShown
    /\ \A p \in shown, o \in clear \ shown : Composite(k, o) <= Composite(k, p)

(***************************************************************************)
(* search.                                                                 *)
(***************************************************************************)
\* Unless force_refresh is set a mapping answers the search, and nothing changes.
BeginSearch(r, u, k, force_refresh) ==
  /\ force_refresh \/ MappingsOf(k) = {}
  /\ Begin(r, [op |-> "search", step |-> "rank", since |-> begun + 1, user |-> u, key |-> k,
               listed |-> DOMAIN project])

NewQuery(i) ==
  i \notin DOMAIN query /\ \A o \in Requests : At(o, "look_up") \/ At(o, "upsert") => req[o].query # i

\* A clear winner is chosen for the user, as a confirmation would.
Resolve(r, i, top) ==
  LET q == req[r] IN
    /\ At(r, "rank")
    /\ NewQuery(i)
    /\ Unambiguous(q.key, q.listed, top)
    /\ Step(r, [op |-> "confirm", step |-> "look_up", since |-> q.since, user |-> q.user,
                key |-> q.key, target |-> top, query |-> i, marks |-> TRUE])

\* needs_confirmation, or no_match when there is nothing to show.
Ask(r, i, shown) ==
  LET q == req[r] IN
    /\ At(r, "rank")
    /\ NewQuery(i)
    /\ \A top \in q.listed : ~Unambiguous(q.key, q.listed, top)
    /\ Showable(q.key, q.listed, shown)
    /\ query' = Insert(query, i, [key |-> q.key, shown |-> shown, chosen |-> {}])
    /\ Ends(r)
    /\ UNCHANGED <<developer, project, mapping>>

(***************************************************************************)
(* confirm and reuse_mapping.                                              *)
(***************************************************************************)
BeginConfirm(r, u, i, p) ==
  /\ p \in query[i].shown
  /\ Begin(r, [op |-> "confirm", step |-> "look_up", since |-> begun + 1, user |-> u,
               key |-> query[i].key, target |-> p, query |-> i,
               marks |-> p \notin query[i].chosen])

\* mark_candidate_chosen writes only what is not marked yet, and waits for a request that
\* is marking the same candidate; then upsert_confirmed_mapping looks the key up.
LookUp(r, seen) ==
  LET q == req[r] IN
    /\ At(r, "look_up")
    /\ q.marks => \A o \in Requests : At(o, "upsert") /\ req[o].marks =>
                    <<req[o].query, req[o].target>> # <<q.query, q.target>>
    /\ Finds(MappingsOf(q.key), seen)
    /\ Step(r, [op |-> "confirm", step |-> "upsert", since |-> q.since, user |-> q.user,
                key |-> q.key, target |-> q.target, query |-> q.query, marks |-> q.marks,
                seen |-> seen, loaded |-> IF seen = NoRow THEN NoRow ELSE mapping[seen]])

\* Fault: a new decision leaves the name of the user who made the one before.
UpdatedKeepingUser(row, q) ==
  [row EXCEPT !.project = IF q.target = q.loaded.project THEN @ ELSE q.target,
              !.hit_count = q.loaded.hit_count + 1]

\* An UPDATE names the columns whose value is not the loaded one.
Updated(row, q) ==
  [row EXCEPT !.project = IF q.target = q.loaded.project THEN @ ELSE q.target,
              !.confirmed_by = IF q.user = q.loaded.confirmed_by THEN @ ELSE q.user,
              !.hit_count = q.loaded.hit_count + 1]

\* The row's history: one more write, by a request begun at since.
Recorded(row, since) ==
  [row EXCEPT !.uses = @ + 1, !.last = begun, !.contended = @ \/ since <= row.last]

\* Fault: a mapping is new until it is first reused.
InsertedFromZero(q) ==
  [key |-> q.key, project |-> q.target, confirmed_by |-> q.user, hit_count |-> 0,
   since |-> q.since, made |-> begun, decided |-> <<q.target, q.user>>, uses |-> 1,
   last |-> begun, contended |-> FALSE]

Inserted(q) ==
  [key |-> q.key, project |-> q.target, confirmed_by |-> q.user, hit_count |-> 1,
   since |-> q.since, made |-> begun, decided |-> <<q.target, q.user>>, uses |-> 1,
   last |-> begun, contended |-> FALSE]

\* Fault: the constraint is missing.
AdmitsAlways(k) == k \in Keys

\* The unique constraint keeps two rows apart unless their city is NULL.
Admits(k) == k \in Cityless \/ MappingsOf(k) = {}

Upsert(r, m) ==
  LET q == req[r]
      chosen == (IF q.query \in DOMAIN query THEN query[q.query].chosen ELSE {}) \cup {q.target}
      shown == IF q.query \in DOMAIN query THEN query[q.query].shown ELSE {}
  IN
    /\ At(r, "upsert")
    /\ \/ /\ m = q.seen
          /\ mapping' = Insert(mapping, m,
               Recorded([Updated(mapping[m], q) EXCEPT !.decided = <<q.target, q.user>>], q.since))
       \/ /\ q.seen = NoRow
          /\ m \notin DOMAIN mapping
          /\ Admits(q.key)
          /\ mapping' = Insert(mapping, m, Inserted(q))
    /\ query' = Insert(query, q.query, [key |-> q.key, shown |-> shown, chosen |-> chosen])
    /\ Ends(r)
    /\ UNCHANGED <<developer, project>>

BeginReuse(r, m) ==
  Begin(r, [op |-> "reuse", step |-> "touch", since |-> begun + 1, seen |-> m,
            hit_count |-> mapping[m].hit_count])

\* touch_confirmed_mapping
Touch(r) ==
  LET q == req[r] IN
    /\ At(r, "touch")
    /\ mapping' = Insert(mapping, q.seen,
         Recorded([mapping[q.seen] EXCEPT !.hit_count = q.hit_count + 1], q.since))
    /\ Ends(r)
    /\ UNCHANGED <<developer, project, query>>

(***************************************************************************)
(* resolve_via_live_maharera.                                              *)
(***************************************************************************)
\* Fault: whether the project is known already is not looked up.
BeginLiveUnchecked(r, g) ==
  Begin(r, [op |-> "live", step |-> "identity", since |-> begun + 1, registration |-> g])

\* MAHARERA's first match; a project that is known already is returned as it is.
BeginLive(r, g) ==
  /\ \A p \in DOMAIN project : project[p].registration # g
  /\ Begin(r, [op |-> "live", step |-> "identity", since |-> begun + 1, registration |-> g])

\* The details may come without the promoter's part, which is asked for by a call of its own.
DeveloperName(g, promoter) == IF promoter THEN PromoterName[g] ELSE ListedName[g]

\* get_or_create_developer; a new row is flushed, and nobody sees it before the commit.
FindDeveloper(r, promoter, d) ==
  LET name == DeveloperName(req[r].registration, promoter)
      named == {e \in DOMAIN developer : developer[e] = name}
  IN
    /\ At(r, "identity")
    /\ \/ named = {d}
       \/ /\ named = {}
          /\ d \notin DOMAIN developer
          /\ \A o \in Requests : At(o, "create") => req[o].developer # d
    /\ Step(r, [op |-> "live", step |-> "create", since |-> req[r].since,
                registration |-> req[r].registration, developer |-> d, name |-> name])

\* The unique constraint covers the developer's id.
CreateProject(r, p) ==
  LET q == req[r] IN
    /\ At(r, "create")
    /\ p \notin DOMAIN project
    /\ \A o \in DOMAIN project :
         <<project[o].registration, project[o].developer>> # <<q.registration, q.developer>>
    /\ project' = Insert(project, p, [registration |-> q.registration, developer |-> q.developer,
                                      since |-> q.since, made |-> begun])
    /\ developer' = Insert(developer, q.developer, q.name)
    /\ Ends(r)
    /\ UNCHANGED <<query, mapping>>

\* MAHARERA fails, a look-up finds two rows, a constraint is violated, a connection breaks.
Abort(r) == req[r] # Idle /\ Step(r, Idle)

Init ==
  /\ developer = SeedDevelopers
  /\ project = SeedProjects
  /\ query = [i \in {} |-> NoRow]
  /\ mapping = [m \in {} |-> NoRow]
  /\ begun = 0
  /\ req = [r \in Requests |-> Idle]

Next ==
  \E r \in Requests :
    \/ \E u \in Users, k \in Keys, force_refresh \in BOOLEAN : BeginSearch(r, u, k, force_refresh)
    \/ \E i \in QueryId, top \in ProjectId : Resolve(r, i, top)
    \/ \E i \in QueryId, shown \in SUBSET ProjectId : Ask(r, i, shown)
    \/ \E u \in Users, i \in DOMAIN query, p \in ProjectId : BeginConfirm(r, u, i, p)
    \/ \E seen \in MappingId \cup {NoRow} : LookUp(r, seen)
    \/ \E m \in MappingId : Upsert(r, m)
    \/ \E m \in DOMAIN mapping : BeginReuse(r, m)
    \/ Touch(r)
    \/ \E g \in Registrations : BeginLive(r, g)
    \/ \E promoter \in BOOLEAN, d \in DeveloperId : FindDeveloper(r, promoter, d)
    \/ \E p \in ProjectId : CreateProject(r, p)
    \/ Abort(r)

Spec == Init /\ [][Next]_vars

(***************************************************************************)
(* Properties.                                                             *)
(***************************************************************************)

\* The tables keep their types however requests overlap.
TypeOK ==
  /\ begun \in 0 .. MaxBegun
  /\ developer \in [DOMAIN developer -> Names] /\ DOMAIN developer \subseteq DeveloperId
  /\ project \in [DOMAIN project -> ProjectRow] /\ DOMAIN project \subseteq ProjectId
  /\ query \in [DOMAIN query -> QueryRow] /\ DOMAIN query \subseteq QueryId
  /\ mapping \in [DOMAIN mapping -> MappingRow] /\ DOMAIN mapping \subseteq MappingId

\* get_confirmed_mapping assumes one row for a key.  A second one needs a search without a
\* city, and two confirmations that overlapped.
OneMapping ==
  \A m, n \in DOMAIN mapping : m # n /\ mapping[m].key = mapping[n].key =>
    mapping[m].key \in Cityless /\ Overlapped(mapping[m], mapping[n])

\* A mapping never points where nobody sent it: its project is one that a search for its
\* key showed or found unambiguous, and that was chosen there.  Uses are never counted
\* twice, and unless two of them overlapped the row is the last decision and counts them all.
AsDecided ==
  \A m \in DOMAIN mapping :
    LET row == mapping[m] IN
      /\ \E i \in DOMAIN query : query[i].key = row.key /\ row.project \in query[i].chosen
      /\ row.hit_count <= row.uses
      /\ ~row.contended =>
           <<row.project, row.confirmed_by>> = row.decided /\ row.hit_count = row.uses

\* A registration has one project.  A second one needs two resolutions that overlapped and
\* that did not find the same developer.
OneProject ==
  \A p, o \in DOMAIN project : p # o /\ project[p].registration = project[o].registration =>
    Overlapped(project[p], project[o]) /\ project[p].developer # project[o].developer
=============================================================================
