--------------------------- MODULE DiscoveryProofs ---------------------------
(***************************************************************************)
(* Theorems about Discovery, for any number of overlapping requests, search*)
(* strings, registrations, users and rows, and any ranking.                *)
(***************************************************************************)
EXTENDS Discovery, TLAPS

(***************************************************************************)
(* What a request holds at each of its steps.                              *)
(***************************************************************************)
Started == 1 .. MaxBegun

Searching ==
  [op : {"search"}, step : {"rank"}, since : Started, user : Users, key : Keys,
   listed : SUBSET ProjectId]

LookingUp ==
  [op : {"confirm"}, step : {"look_up"}, since : Started, user : Users, key : Keys,
   target : ProjectId, query : QueryId, marks : BOOLEAN]

Upserting ==
  [op : {"confirm"}, step : {"upsert"}, since : Started, user : Users, key : Keys,
   target : ProjectId, query : QueryId, marks : BOOLEAN,
   seen : MappingId \cup {NoRow}, loaded : MappingRow \cup {NoRow}]

Reusing ==
  [op : {"reuse"}, step : {"touch"}, since : Started, seen : MappingId, hit_count : Nat \ {0}]

Identifying ==
  [op : {"live"}, step : {"identity"}, since : Started, registration : Registrations]

Creating ==
  [op : {"live"}, step : {"create"}, since : Started, registration : Registrations,
   developer : DeveloperId, name : Names]

Held ==
  Searching \cup LookingUp \cup Upserting \cup Reusing \cup Identifying \cup Creating

LEMMA HeldFacts ==
  /\ Idle \notin Held /\ Idle.op = "idle"
  /\ \A q \in Held :
       /\ q.op \in {"search", "confirm", "reuse", "live"} /\ q.since \in Started
       /\ q.step = "rank" => q \in Searching
       /\ q.step = "look_up" => q \in LookingUp
       /\ q.step = "upsert" => q \in Upserting
       /\ q.step = "touch" => q \in Reusing
       /\ q.step = "identity" => q \in Identifying
       /\ q.step = "create" => q \in Creating
       /\ q.op = "confirm" => q.step \in {"look_up", "upsert"}
BY DEF Idle, Held, Searching, LookingUp, Upserting, Reusing, Identifying, Creating

(***************************************************************************)
(* What a request relies on.                                               *)
(***************************************************************************)
Known(r) == req[r] = Idle \/ (req[r] \in Held /\ req[r].since <= begun)

\* The mapping it read is there still, with that key; if anyone has written it since, the
\* row's last write is no older than the request.  If it read none, any that has come up
\* is no older than the request.
MappingRead(r) ==
  LET q == req[r] IN
    /\ q \in Upserting =>
         IF q.seen = NoRow
         THEN \A m \in DOMAIN mapping : mapping[m].key = q.key => q.since <= mapping[m].made
         ELSE /\ q.seen \in DOMAIN mapping /\ mapping[q.seen].key = q.key
              /\ q.loaded \in MappingRow /\ q.loaded.hit_count <= mapping[q.seen].uses
              /\ q.loaded = mapping[q.seen] \/ q.since <= mapping[q.seen].last
    /\ q \in Reusing =>
         /\ q.seen \in DOMAIN mapping /\ q.hit_count <= mapping[q.seen].uses
         /\ q.hit_count = mapping[q.seen].hit_count \/ q.since <= mapping[q.seen].last

\* The search it confirms has its key, or is its own and not yet committed.
QueryHeld(r) ==
  LET q == req[r] IN
    q.op = "confirm" =>
      IF q.query \in DOMAIN query THEN query[q.query].key = q.key
      ELSE \A o \in Requests \ {r} : req[o].op = "confirm" => req[o].query # q.query

\* A project with the registration it resolves is no older than the request.
RegistrationFree(r) ==
  req[r].op = "live" =>
    \A p \in DOMAIN project :
      project[p].registration = req[r].registration => req[r].since <= project[p].made

Sound(r) == Known(r) /\ MappingRead(r) /\ QueryHeld(r) /\ RegistrationFree(r)

\* The stamps of the rows are not ahead of begun.
Stamped ==
  /\ \A m \in DOMAIN mapping :
       /\ mapping[m].since <= mapping[m].made /\ mapping[m].made <= begun
       /\ mapping[m].last <= begun
  /\ \A p \in DOMAIN project : project[p].since <= project[p].made /\ project[p].made <= begun

Inv ==
  /\ TypeOK /\ Stamped
  /\ OneMapping /\ AsDecided /\ OneProject
  /\ req = [r \in Requests |-> req[r]]
  /\ \A r \in Requests : Sound(r)

(***************************************************************************)
(* Tables only grow, and a row that changes is stamped.                    *)
(***************************************************************************)
Grows ==
  /\ begun \in Nat /\ begun' \in Nat /\ begun <= begun'
  /\ \A m \in DOMAIN mapping :
       /\ m \in DOMAIN mapping' /\ mapping'[m].key = mapping[m].key
       /\ mapping'[m].made = mapping[m].made
       /\ mapping[m].uses <= mapping'[m].uses
       /\ mapping'[m].uses \in Nat
       /\ mapping'[m] = mapping[m] \/ mapping'[m].last = begun
  /\ \A m \in DOMAIN mapping' \ DOMAIN mapping : mapping'[m].made = begun
  /\ \A p \in DOMAIN project : p \in DOMAIN project' /\ project'[p] = project[p]
  /\ \A p \in DOMAIN project' \ DOMAIN project : project'[p].made = begun
  /\ \A i \in DOMAIN query :
       /\ i \in DOMAIN query' /\ query'[i].key = query[i].key
       /\ query[i].chosen \subseteq query'[i].chosen

\* Only r makes rows of query, and r's query is nobody else's.
Apart(r) ==
  /\ \A i \in DOMAIN query' \ DOMAIN query :
       \A o \in Requests \ {r} : req[o].op = "confirm" => req[o].query # i
  /\ req'[r].op = "confirm" =>
       \/ req'[r].query \in DOMAIN query
       \/ \A o \in Requests \ {r} : req[o].op = "confirm" => req[o].query # req'[r].query

LEMMA SoundStays ==
  ASSUME Inv, Grows, NEW r \in Requests, Apart(r),
         \A o \in Requests \ {r} : req'[o] = req[o],
         NEW p \in Requests \ {r}
  PROVE  Sound(p)'
<1>1. Sound(p) /\ req'[p] = req[p] /\ TypeOK
  BY DEF Inv
<1> DEFINE q == req[p]
<1>2. q # Idle => q \in Held /\ q.since \in Nat /\ q.since <= begun
  BY <1>1, HeldFacts DEF Sound, Known, Started
<1>3. Known(p)'
  BY <1>1, <1>2 DEF Known, Grows
<1>4. ASSUME NEW m \in DOMAIN mapping
      PROVE  mapping[m] \in MappingRow
  BY <1>1 DEF TypeOK
<1>5. ASSUME q \in Upserting, q.seen = NoRow, NEW m \in DOMAIN mapping', mapping'[m].key = q.key
      PROVE  q.since <= mapping'[m].made
  <2>1. q # Idle
    BY <1>5, HeldFacts DEF Held
  <2>2. CASE m \in DOMAIN mapping
    BY <2>2, <1>1, <1>5 DEF Sound, MappingRead, Grows
  <2>3. CASE m \notin DOMAIN mapping
    BY <2>1, <2>3, <1>2 DEF Grows
  <2> QED BY <2>2, <2>3
<1>6. ASSUME q \in Upserting, q.seen # NoRow
      PROVE  /\ q.seen \in DOMAIN mapping' /\ mapping'[q.seen].key = q.key
             /\ q.loaded \in MappingRow /\ q.loaded.hit_count <= mapping'[q.seen].uses
             /\ q.loaded = mapping'[q.seen] \/ q.since <= mapping'[q.seen].last
  <2>1. q # Idle
    BY <1>6, HeldFacts DEF Held
  <2>2. /\ q.seen \in DOMAIN mapping /\ mapping[q.seen].key = q.key
        /\ q.loaded \in MappingRow /\ q.loaded.hit_count <= mapping[q.seen].uses
        /\ q.loaded = mapping[q.seen] \/ q.since <= mapping[q.seen].last
    BY <1>1, <1>6 DEF Sound, MappingRead
  <2>3. q.loaded.hit_count \in Nat /\ mapping[q.seen].uses \in Nat
    BY <2>2, <1>4 DEF MappingRow
  <2>4. q.loaded.hit_count <= mapping'[q.seen].uses
    BY <2>2, <2>3 DEF Grows
  <2>5. q.loaded = mapping'[q.seen] \/ q.since <= mapping'[q.seen].last
    BY <2>1, <2>2, <1>2 DEF Grows
  <2> QED BY <2>2, <2>4, <2>5 DEF Grows
<1>7. ASSUME q \in Reusing
      PROVE  /\ q.seen \in DOMAIN mapping' /\ q.hit_count <= mapping'[q.seen].uses
             /\ q.hit_count = mapping'[q.seen].hit_count \/ q.since <= mapping'[q.seen].last
  <2>1. q # Idle
    BY <1>7, HeldFacts DEF Held
  <2>2. /\ q.seen \in DOMAIN mapping /\ q.hit_count <= mapping[q.seen].uses
        /\ q.hit_count = mapping[q.seen].hit_count \/ q.since <= mapping[q.seen].last
    BY <1>1, <1>7 DEF Sound, MappingRead
  <2>3. q.hit_count \in Nat /\ mapping[q.seen].uses \in Nat
    BY <2>2, <1>4, <1>7 DEF MappingRow, Reusing
  <2>4. q.hit_count <= mapping'[q.seen].uses
    BY <2>2, <2>3 DEF Grows
  <2>5. q.hit_count = mapping'[q.seen].hit_count \/ q.since <= mapping'[q.seen].last
    BY <2>1, <2>2, <1>2 DEF Grows
  <2> QED BY <2>2, <2>4, <2>5 DEF Grows
<1>8. MappingRead(p)'
  BY <1>1, <1>5, <1>6, <1>7 DEF MappingRead, Upserting, Reusing, MappingRow, Started
<1>9. QueryHeld(p)'
  BY <1>1 DEF Sound, QueryHeld, Grows, Apart
<1>10. RegistrationFree(p)'
  <2> SUFFICES ASSUME q.op = "live", NEW o \in DOMAIN project',
                      project'[o].registration = q.registration
               PROVE  q.since <= project'[o].made
    BY <1>1 DEF RegistrationFree
  <2>1. q # Idle
    BY HeldFacts
  <2>2. CASE o \in DOMAIN project
    BY <2>2, <1>1 DEF Sound, RegistrationFree, Grows
  <2>3. CASE o \notin DOMAIN project
    BY <2>1, <2>3, <1>2 DEF Grows
  <2> QED BY <2>2, <2>3
<1> QED BY <1>3, <1>8, <1>9, <1>10 DEF Sound

(***************************************************************************)
(* The steps, by what they do to the tables.                               *)
(***************************************************************************)
LEMMA InvParts ==
  ASSUME Inv, Grows, NEW r \in Requests, Apart(r),
         NEW q, req' = [req EXCEPT ![r] = q], Sound(r)',
         TypeOK', Stamped', OneMapping', AsDecided', OneProject'
  PROVE  Inv'
<1>1. req' = [p \in Requests |-> req'[p]] /\ \A o \in Requests \ {r} : req'[o] = req[o]
  BY DEF Inv
<1>2. \A p \in Requests \ {r} : Sound(p)'
  BY <1>1, SoundStays
<1> QED BY <1>1, <1>2 DEF Inv

LEMMA EntryFacts ==
  ASSUME Inv, NEW r \in Requests, NEW q, req' = [req EXCEPT ![r] = q]
  PROVE  req'[r] = q /\ \A o \in Requests \ {r} : req'[o] = req[o]
BY DEF Inv

\* A step that reads, begins or gives up.
LEMMA Reads ==
  ASSUME Inv, UNCHANGED <<developer, project, query, mapping>>,
         begun' \in 0 .. MaxBegun, begun <= begun',
         NEW r \in Requests, NEW q, req' = [req EXCEPT ![r] = q], Sound(r)', Apart(r)
  PROVE  Inv'
<1>1. TypeOK' /\ OneMapping' /\ AsDecided' /\ OneProject'
  BY DEF Inv, TypeOK, OneMapping, AsDecided, OneProject
<1>2. MaxBegun \in Nat /\ begun \in Nat /\ begun' \in Nat
  BY DiscoveryAssumption DEF Inv, TypeOK
<1>3. ASSUME NEW m \in DOMAIN mapping
      PROVE  /\ mapping[m].since \in Nat /\ mapping[m].made \in Nat /\ mapping[m].last \in Nat
             /\ mapping[m].uses \in Nat
  BY DEF Inv, TypeOK, MappingRow
<1>4. ASSUME NEW p \in DOMAIN project
      PROVE  project[p].made \in Nat
  BY DEF Inv, TypeOK, ProjectRow
<1>5. Stamped'
  BY <1>2, <1>3, <1>4 DEF Inv, Stamped
<1>6. Grows
  BY <1>2, <1>3 DEF Grows
<1> QED BY <1>1, <1>5, <1>6, InvParts

\* One row of the mappings is written again.
LEMMA MappingUpdated ==
  ASSUME Inv, NEW m \in DOMAIN mapping, NEW new \in MappingRow,
         mapping' = Insert(mapping, m, new),
         new.key = mapping[m].key, new.since = mapping[m].since, new.made = mapping[m].made,
         new.uses = mapping[m].uses + 1, new.last = begun,
         \E i \in DOMAIN query' : query'[i].key = new.key /\ new.project \in query'[i].chosen,
         new.hit_count <= new.uses,
         ~new.contended =>
           <<new.project, new.confirmed_by>> = new.decided /\ new.hit_count = new.uses,
         \A i \in DOMAIN query : /\ i \in DOMAIN query' /\ query'[i].key = query[i].key
                                 /\ query[i].chosen \subseteq query'[i].chosen,
         UNCHANGED <<developer, project, begun>>
  PROVE  /\ Grows /\ Stamped' /\ OneMapping' /\ AsDecided' /\ OneProject'
         /\ mapping' \in [DOMAIN mapping' -> MappingRow] /\ DOMAIN mapping' = DOMAIN mapping
<1>1. /\ DOMAIN mapping' = DOMAIN mapping /\ mapping'[m] = new
      /\ \A n \in DOMAIN mapping \ {m} : mapping'[n] = mapping[n]
  BY DEF Insert
<1>2. begun \in Nat
  BY DiscoveryAssumption DEF Inv, TypeOK
<1>3. ASSUME NEW n \in DOMAIN mapping
      PROVE  mapping[n] \in MappingRow /\ mapping[n].uses \in Nat
  BY DEF Inv, TypeOK, MappingRow
<1>4. mapping' \in [DOMAIN mapping' -> MappingRow]
  <2>1. mapping' = [n \in DOMAIN mapping' |-> mapping'[n]]
    BY <1>1 DEF Insert
  <2> QED BY <2>1, <1>1, <1>3
<1>5. Grows
  BY <1>1, <1>2, <1>3 DEF Grows
<1>6. Stamped'
  <2>1. ASSUME NEW n \in DOMAIN mapping'
        PROVE  /\ mapping'[n].since <= mapping'[n].made /\ mapping'[n].made <= begun
               /\ mapping'[n].last <= begun
    BY <2>1, <1>1, <1>2 DEF Inv, Stamped
  <2> QED BY <2>1 DEF Inv, Stamped
<1>7. OneMapping'
  <2>1. ASSUME NEW n \in DOMAIN mapping'
        PROVE  /\ mapping'[n].key = mapping[n].key /\ mapping'[n].since = mapping[n].since
               /\ mapping'[n].made = mapping[n].made
    BY <1>1
  <2> QED BY <1>1, <2>1 DEF Inv, OneMapping, Overlapped
<1>8. AsDecided'
  <2>1. ASSUME NEW n \in DOMAIN mapping'
        PROVE  /\ \E i \in DOMAIN query' :
                    query'[i].key = mapping'[n].key /\ mapping'[n].project \in query'[i].chosen
               /\ mapping'[n].hit_count <= mapping'[n].uses
               /\ ~mapping'[n].contended =>
                    /\ <<mapping'[n].project, mapping'[n].confirmed_by>> = mapping'[n].decided
                    /\ mapping'[n].hit_count = mapping'[n].uses
    <3>1. CASE n = m
      BY <3>1, <1>1
    <3>2. CASE n # m
      <4>1. PICK i \in DOMAIN query :
              query[i].key = mapping[n].key /\ mapping[n].project \in query[i].chosen
        BY <3>2, <1>1 DEF Inv, AsDecided
      <4>2. \E j \in DOMAIN query' :
              query'[j].key = mapping[n].key /\ mapping[n].project \in query'[j].chosen
        BY <4>1
      <4> QED BY <3>2, <4>2, <1>1 DEF Inv, AsDecided
    <3> QED BY <3>1, <3>2
  <2> QED BY <2>1 DEF AsDecided
<1>9. OneProject'
  BY DEF Inv, OneProject
<1> QED BY <1>1, <1>4, <1>5, <1>6, <1>7, <1>8, <1>9

\* A mapping is new; an earlier one of its key is no older than the request that makes it.
LEMMA MappingMade ==
  ASSUME Inv, NEW m \in MappingId \ DOMAIN mapping, NEW new \in MappingRow,
         mapping' = Insert(mapping, m, new),
         Admits(new.key), new.since <= begun, new.made = begun, new.last = begun,
         \A n \in DOMAIN mapping : mapping[n].key = new.key => new.since <= mapping[n].made,
         \E i \in DOMAIN query' : query'[i].key = new.key /\ new.project \in query'[i].chosen,
         new.hit_count = 1, new.uses = 1,
         <<new.project, new.confirmed_by>> = new.decided,
         \A i \in DOMAIN query : /\ i \in DOMAIN query' /\ query'[i].key = query[i].key
                                 /\ query[i].chosen \subseteq query'[i].chosen,
         UNCHANGED <<developer, project, begun>>
  PROVE  /\ Grows /\ Stamped' /\ OneMapping' /\ AsDecided' /\ OneProject'
         /\ mapping' \in [DOMAIN mapping' -> MappingRow]
         /\ DOMAIN mapping' = DOMAIN mapping \cup {m}
<1>1. /\ DOMAIN mapping' = DOMAIN mapping \cup {m} /\ mapping'[m] = new
      /\ \A n \in DOMAIN mapping : mapping'[n] = mapping[n]
  BY DEF Insert
<1>2. begun \in Nat
  BY DiscoveryAssumption DEF Inv, TypeOK
<1>3. ASSUME NEW n \in DOMAIN mapping
      PROVE  mapping[n] \in MappingRow /\ mapping[n].uses \in Nat
  BY DEF Inv, TypeOK, MappingRow
<1>4. mapping' \in [DOMAIN mapping' -> MappingRow]
  <2>1. mapping' = [n \in DOMAIN mapping' |-> mapping'[n]]
    BY <1>1 DEF Insert
  <2> QED BY <2>1, <1>1, <1>3
<1>5. Grows
  BY <1>1, <1>2, <1>3 DEF Grows
<1>6. Stamped'
  BY <1>1, <1>2 DEF Inv, Stamped
<1>7. OneMapping'
  <2>1. ASSUME NEW n \in DOMAIN mapping, mapping[n].key = new.key
        PROVE  new.key \in Cityless /\ Overlapped(mapping[n], new) /\ Overlapped(new, mapping[n])
    <3>1. new.key \in Cityless
      BY <2>1 DEF Admits, MappingsOf
    <3>2. mapping[n].since <= mapping[n].made /\ mapping[n].made <= begun
      BY <2>1 DEF Inv, Stamped
    <3>3. mapping[n].since \in Nat /\ mapping[n].made \in Nat
      BY <1>3 DEF MappingRow
    <3> QED BY <2>1, <3>1, <3>2, <3>3, <1>2 DEF Overlapped
  <2>2. ASSUME NEW a \in DOMAIN mapping', NEW b \in DOMAIN mapping', a # b,
               mapping'[a].key = mapping'[b].key
        PROVE  mapping'[a].key \in Cityless /\ Overlapped(mapping'[a], mapping'[b])
    <3>1. CASE a \in DOMAIN mapping /\ b \in DOMAIN mapping
      BY <2>2, <3>1, <1>1 DEF Inv, OneMapping
    <3>2. CASE a = m
      BY <2>1, <2>2, <3>2, <1>1
    <3>3. CASE b = m
      BY <2>1, <2>2, <3>3, <1>1
    <3> QED BY <3>1, <3>2, <3>3, <1>1
  <2> QED BY <2>2 DEF OneMapping, Overlapped
<1>8. AsDecided'
  <2>1. ASSUME NEW n \in DOMAIN mapping'
        PROVE  /\ \E i \in DOMAIN query' :
                    query'[i].key = mapping'[n].key /\ mapping'[n].project \in query'[i].chosen
               /\ mapping'[n].hit_count <= mapping'[n].uses
               /\ ~mapping'[n].contended =>
                    /\ <<mapping'[n].project, mapping'[n].confirmed_by>> = mapping'[n].decided
                    /\ mapping'[n].hit_count = mapping'[n].uses
    <3>1. CASE n = m
      BY <3>1, <1>1
    <3>2. CASE n # m
      <4>1. PICK i \in DOMAIN query :
              query[i].key = mapping[n].key /\ mapping[n].project \in query[i].chosen
        BY <3>2, <1>1 DEF Inv, AsDecided
      <4>2. \E j \in DOMAIN query' :
              query'[j].key = mapping[n].key /\ mapping[n].project \in query'[j].chosen
        BY <4>1
      <4> QED BY <3>2, <4>2, <1>1 DEF Inv, AsDecided
    <3> QED BY <3>1, <3>2
  <2> QED BY <2>1 DEF AsDecided
<1>9. OneProject'
  BY DEF Inv, OneProject
<1> QED BY <1>1, <1>4, <1>5, <1>6, <1>7, <1>8, <1>9

LEMMA StartInv == Init => Inv
<1> SUFFICES ASSUME Init PROVE Inv
  OBVIOUS
<1>1. TypeOK
  BY SeedAssumption, DiscoveryAssumption DEF Init, TypeOK, ProjectRow
<1>2. Stamped /\ OneMapping /\ AsDecided /\ OneProject
  BY SeedAssumption DEF Init, Stamped, OneMapping, AsDecided, OneProject
<1>3. ASSUME NEW r \in Requests
      PROVE  Sound(r)
  BY HeldFacts DEF Init, Sound, Known, MappingRead, QueryHeld, RegistrationFree, Held
<1> QED BY <1>1, <1>2, <1>3 DEF Inv, Init

\* A request that begins.
LEMMA BeginFacts ==
  ASSUME Inv, NEW r \in Requests, NEW q, Begin(r, q), q.since = begun + 1
  PROVE  /\ UNCHANGED <<developer, project, query, mapping>>
         /\ begun' = begun + 1 /\ begun' \in 0 .. MaxBegun /\ begun <= begun'
         /\ req' = [req EXCEPT ![r] = q] /\ req'[r] = q
         /\ q.since \in Started /\ q.since <= begun'
         /\ \A o \in Requests \ {r} : req'[o] = req[o]
BY DiscoveryAssumption, EntryFacts DEF Inv, TypeOK, Begin, Started

LEMMA StepFacts ==
  ASSUME Inv, NEW r \in Requests, NEW q, Step(r, q)
  PROVE  /\ UNCHANGED <<developer, project, query, mapping, begun>>
         /\ begun' \in 0 .. MaxBegun /\ begun <= begun'
         /\ req' = [req EXCEPT ![r] = q] /\ req'[r] = q
         /\ \A o \in Requests \ {r} : req'[o] = req[o]
BY DiscoveryAssumption, EntryFacts DEF Inv, TypeOK, Step

\* A request that is over relies on nothing, and holds no search.
LEMMA EndFacts ==
  ASSUME Inv, NEW r \in Requests, req' = [req EXCEPT ![r] = Idle]
  PROVE  /\ Sound(r)' /\ req'[r].op # "confirm"
         /\ \A o \in Requests \ {r} : req'[o] = req[o]
BY HeldFacts, EntryFacts DEF Sound, Known, MappingRead, QueryHeld, RegistrationFree, Held

\* Where a request is tells what it holds.
LEMMA AtFacts ==
  ASSUME Inv, NEW r \in Requests
  PROVE  /\ At(r, "rank") => req[r] \in Searching
         /\ At(r, "look_up") => req[r] \in LookingUp
         /\ At(r, "upsert") => req[r] \in Upserting
         /\ At(r, "touch") => req[r] \in Reusing
         /\ At(r, "identity") => req[r] \in Identifying
         /\ At(r, "create") => req[r] \in Creating
         /\ req[r].op = "confirm" => At(r, "look_up") \/ At(r, "upsert")
         /\ req[r] # Idle => req[r].since \in Started /\ req[r].since <= begun
BY HeldFacts DEF Inv, Sound, Known, At

\* search
LEMMA SearchSteps ==
  ASSUME Inv, NEW r \in Requests,
         \/ \E u \in Users, k \in Keys, force_refresh \in BOOLEAN :
              BeginSearch(r, u, k, force_refresh)
         \/ \E i \in QueryId, top \in ProjectId : Resolve(r, i, top)
         \/ \E i \in QueryId, shown \in SUBSET ProjectId : Ask(r, i, shown)
  PROVE  Inv'
<1>1. ASSUME NEW u \in Users, NEW k \in Keys, NEW force_refresh \in BOOLEAN,
             BeginSearch(r, u, k, force_refresh)
      PROVE  Inv'
  <2> DEFINE q == [op |-> "search", step |-> "rank", since |-> begun + 1, user |-> u,
                   key |-> k, listed |-> DOMAIN project]
  <2>1. Begin(r, q) /\ q.since = begun + 1 /\ q.op = "search" /\ q.step = "rank"
    BY <1>1 DEF BeginSearch
  <2>2. q.since \in Started => q \in Searching
    BY DEF Searching, Inv, TypeOK
  <2> HIDE DEF q
  <2>3. /\ UNCHANGED <<developer, project, query, mapping>>
        /\ begun' \in 0 .. MaxBegun /\ begun <= begun'
        /\ req' = [req EXCEPT ![r] = q] /\ req'[r] = q
        /\ q.since \in Started /\ q.since <= begun'
    BY <2>1, BeginFacts
  <2>4. Sound(r)' /\ Apart(r)
    BY <2>1, <2>2, <2>3
       DEF Sound, Known, MappingRead, QueryHeld, RegistrationFree, Apart, Held, Upserting, Reusing
  <2> QED BY <2>3, <2>4, Reads
<1>2. ASSUME NEW i \in QueryId, NEW top \in ProjectId, Resolve(r, i, top)
      PROVE  Inv'
  <2>1. req[r] \in Searching /\ req[r].since \in Started /\ req[r].since <= begun
    BY <1>2, AtFacts DEF Resolve, At, Idle
  <2> DEFINE q == [op |-> "confirm", step |-> "look_up", since |-> req[r].since,
                   user |-> req[r].user, key |-> req[r].key, target |-> top, query |-> i,
                   marks |-> TRUE]
  <2>2. Step(r, q)
    BY <1>2 DEF Resolve
  <2>3. q \in LookingUp /\ q.op = "confirm" /\ q.since = req[r].since /\ q.query = i /\ q.key = req[r].key
    BY <2>1 DEF LookingUp, Searching
  <2> HIDE DEF q
  <2>4. /\ UNCHANGED <<developer, project, query, mapping, begun>>
        /\ begun' \in 0 .. MaxBegun /\ begun <= begun'
        /\ req' = [req EXCEPT ![r] = q] /\ req'[r] = q
        /\ \A o \in Requests \ {r} : req'[o] = req[o]
    BY <2>2, StepFacts
  <2>5. /\ i \notin DOMAIN query
        /\ \A o \in Requests \ {r} : req[o].op = "confirm" => req[o].query # i
    BY <1>2, AtFacts DEF Resolve, NewQuery
  <2>6. Sound(r)' /\ Apart(r)
    BY <2>1, <2>3, <2>4, <2>5
       DEF Sound, Known, MappingRead, QueryHeld, RegistrationFree, Apart, Held, Upserting,
           Reusing, LookingUp
  <2> QED BY <2>4, <2>6, Reads
<1>3. ASSUME NEW i \in QueryId, NEW shown \in SUBSET ProjectId, Ask(r, i, shown)
      PROVE  Inv'
  <2> DEFINE new == [key |-> req[r].key, shown |-> shown, chosen |-> {}]
  <2>1. req[r] \in Searching
    BY <1>3, AtFacts DEF Ask
  <2>2. new \in QueryRow
    BY <2>1 DEF QueryRow, Searching
  <2>3. /\ query' = Insert(query, i, new) /\ req' = [req EXCEPT ![r] = Idle]
        /\ UNCHANGED <<developer, project, mapping, begun>>
    BY <1>3 DEF Ask, Ends
  <2>4. /\ i \notin DOMAIN query
        /\ \A o \in Requests \ {r} : req[o].op = "confirm" => req[o].query # i
    BY <1>3, AtFacts DEF Ask, NewQuery
  <2>5. /\ DOMAIN query' = DOMAIN query \cup {i}
        /\ \A j \in DOMAIN query : query'[j] = query[j]
        /\ query' \in [DOMAIN query' -> QueryRow]
    BY <2>2, <2>3, <2>4 DEF Insert, Inv, TypeOK
  <2>6. TypeOK' /\ Stamped' /\ OneMapping' /\ OneProject'
    BY <2>3, <2>5 DEF Inv, TypeOK, Stamped, OneMapping, OneProject
  <2>7. AsDecided'
    BY <2>3, <2>5 DEF Inv, AsDecided
  <2>8. Grows
    <3>1. \A m \in DOMAIN mapping : mapping[m].uses \in Nat
      BY DEF Inv, TypeOK, MappingRow
    <3>2. begun \in Nat
      BY DiscoveryAssumption DEF Inv, TypeOK
    <3>3. \A m \in DOMAIN mapping : m \in DOMAIN mapping' /\ mapping'[m] = mapping[m]
      BY <2>3
    <3>4. \A m \in DOMAIN mapping' \ DOMAIN mapping : mapping'[m].made = begun
      BY <2>3
    <3>5. \A p \in DOMAIN project' \ DOMAIN project : project'[p].made = begun
      BY <2>3
    <3>6. begun' = begun /\ project' = project
      BY <2>3
    <3> QED BY <3>1, <3>2, <3>3, <3>4, <3>5, <3>6, <2>5 DEF Grows
  <2>9. Apart(r) /\ Sound(r)'
    BY <2>3, <2>4, <2>5, EndFacts DEF Apart
  <2> QED BY <2>3, <2>6, <2>7, <2>8, <2>9, InvParts
<1> QED BY <1>1, <1>2, <1>3

\* confirm, up to the look-up of the mapping
LEMMA ConfirmSteps ==
  ASSUME Inv, NEW r \in Requests,
         \/ \E u \in Users, i \in DOMAIN query, p \in ProjectId : BeginConfirm(r, u, i, p)
         \/ \E seen \in MappingId \cup {NoRow} : LookUp(r, seen)
  PROVE  Inv'
<1>1. ASSUME NEW u \in Users, NEW i \in DOMAIN query, NEW p \in ProjectId, BeginConfirm(r, u, i, p)
      PROVE  Inv'
  <2> DEFINE q == [op |-> "confirm", step |-> "look_up", since |-> begun + 1, user |-> u,
                   key |-> query[i].key, target |-> p, query |-> i,
                   marks |-> p \notin query[i].chosen]
  <2>1. Begin(r, q) /\ q.since = begun + 1 /\ q.op = "confirm" /\ q.query = i /\ q.key = query[i].key
    BY <1>1 DEF BeginConfirm
  <2>2. i \in QueryId /\ query[i].key \in Keys
    BY DEF Inv, TypeOK, QueryRow
  <2>3. q.since \in Started => q \in LookingUp
    BY <2>2 DEF LookingUp
  <2> HIDE DEF q
  <2>4. /\ UNCHANGED <<developer, project, query, mapping>>
        /\ begun' \in 0 .. MaxBegun /\ begun <= begun'
        /\ req' = [req EXCEPT ![r] = q] /\ req'[r] = q
        /\ q.since \in Started /\ q.since <= begun'
    BY <2>1, BeginFacts
  <2>5. Sound(r)' /\ Apart(r)
    BY <2>1, <2>3, <2>4
       DEF Sound, Known, MappingRead, QueryHeld, RegistrationFree, Apart, Held, Upserting,
           Reusing, LookingUp
  <2> QED BY <2>4, <2>5, Reads
<1>2. ASSUME NEW seen \in MappingId \cup {NoRow}, LookUp(r, seen)
      PROVE  Inv'
  <2>1. req[r] \in LookingUp /\ req[r].since \in Started /\ req[r].since <= begun
    BY <1>2, AtFacts DEF LookUp, At, Idle
  <2> DEFINE q == [op |-> "confirm", step |-> "upsert", since |-> req[r].since,
                   user |-> req[r].user, key |-> req[r].key, target |-> req[r].target,
                   query |-> req[r].query, marks |-> req[r].marks, seen |-> seen,
                   loaded |-> IF seen = NoRow THEN NoRow ELSE mapping[seen]]
  <2>2. Step(r, q) /\ MappingsOf(req[r].key) = IF seen = NoRow THEN {} ELSE {seen}
    BY <1>2 DEF LookUp, Finds
  <2>3. seen # NoRow => /\ seen \in DOMAIN mapping /\ mapping[seen].key = req[r].key
                        /\ mapping[seen] \in MappingRow
                        /\ mapping[seen].hit_count <= mapping[seen].uses
    BY <2>2 DEF MappingsOf, Inv, TypeOK, AsDecided
  <2>4. seen = NoRow => \A m \in DOMAIN mapping : mapping[m].key # req[r].key
    BY <2>2 DEF MappingsOf
  <2>5. /\ q \in Upserting /\ q.op = "confirm" /\ q.step = "upsert" /\ q.since = req[r].since
        /\ q.query = req[r].query /\ q.key = req[r].key /\ q.seen = seen
        /\ seen # NoRow => q.loaded = mapping[seen]
    BY <2>1, <2>3 DEF Upserting, LookingUp
  <2> HIDE DEF q
  <2>6. /\ UNCHANGED <<developer, project, query, mapping, begun>>
        /\ begun' \in 0 .. MaxBegun /\ begun <= begun'
        /\ req' = [req EXCEPT ![r] = q] /\ req'[r] = q
        /\ \A o \in Requests \ {r} : req'[o] = req[o]
    BY <2>2, StepFacts
  <2>7. /\ Known(r)' /\ RegistrationFree(r)'
    BY <2>1, <2>5, <2>6 DEF Known, RegistrationFree, Held
  <2>8. MappingRead(r)'
    BY <2>3, <2>4, <2>5, <2>6 DEF MappingRead, Reusing
  <2>9. req[r].op = "confirm" /\ QueryHeld(r)
    BY <2>1 DEF Inv, Sound, LookingUp
  <2>10. QueryHeld(r)' /\ Apart(r)
    BY <2>5, <2>6, <2>9 DEF QueryHeld, Apart
  <2> QED BY <2>6, <2>7, <2>8, <2>10, Reads DEF Sound
<1> QED BY <1>1, <1>2

\* The row an upsert of a known mapping, and a reuse, write.
LEMMA RecordedFacts ==
  ASSUME NEW row \in MappingRow, NEW since \in Started, begun \in Started
  PROVE  LET new == Recorded(row, since) IN
           /\ new \in MappingRow
           /\ new.key = row.key /\ new.project = row.project /\ new.since = row.since
           /\ new.made = row.made /\ new.confirmed_by = row.confirmed_by
           /\ new.decided = row.decided /\ new.hit_count = row.hit_count
           /\ new.uses = row.uses + 1 /\ new.last = begun
           /\ new.contended <=> row.contended \/ since <= row.last
<1> DEFINE late == row.contended \/ since <= row.last
<1>1. /\ row.uses + 1 \in Nat \ {0} /\ begun \in 1 .. MaxBegun /\ late \in BOOLEAN
  BY DEF MappingRow, Started
<1>2. Recorded(row, since) = [row EXCEPT !.uses = row.uses + 1, !.last = begun, !.contended = late]
  BY DEF Recorded, MappingRow
<1> HIDE DEF late
<1>3. LET new == [row EXCEPT !.uses = row.uses + 1, !.last = begun, !.contended = late] IN
        /\ new \in MappingRow
        /\ new.key = row.key /\ new.project = row.project /\ new.since = row.since
        /\ new.made = row.made /\ new.confirmed_by = row.confirmed_by
        /\ new.decided = row.decided /\ new.hit_count = row.hit_count
        /\ new.uses = row.uses + 1 /\ new.last = begun
        /\ new.contended = late
  BY <1>1 DEF MappingRow
<1> QED BY <1>2, <1>3 DEF late

LEMMA UpdatedFacts ==
  ASSUME NEW row \in MappingRow, NEW q \in Upserting, q.loaded \in MappingRow
  PROVE  LET new == [Updated(row, q) EXCEPT !.decided = <<q.target, q.user>>] IN
           /\ new \in MappingRow
           /\ new.key = row.key /\ new.since = row.since /\ new.made = row.made
           /\ new.project = (IF q.target = q.loaded.project THEN row.project ELSE q.target)
           /\ new.confirmed_by =
                (IF q.user = q.loaded.confirmed_by THEN row.confirmed_by ELSE q.user)
           /\ new.decided = <<q.target, q.user>>
           /\ new.hit_count = q.loaded.hit_count + 1
           /\ new.uses = row.uses /\ new.last = row.last /\ new.contended = row.contended
<1>1. /\ q.target \in ProjectId /\ q.user \in Users /\ q.loaded.hit_count + 1 \in Nat \ {0}
  BY DEF Upserting, MappingRow
<1> QED BY <1>1 DEF Updated, MappingRow

\* touch_confirmed_mapping
LEMMA ReuseSteps ==
  ASSUME Inv, NEW r \in Requests, (\E m \in DOMAIN mapping : BeginReuse(r, m)) \/ Touch(r)
  PROVE  Inv'
<1>1. ASSUME NEW m \in DOMAIN mapping, BeginReuse(r, m)
      PROVE  Inv'
  <2> DEFINE q == [op |-> "reuse", step |-> "touch", since |-> begun + 1, seen |-> m,
                   hit_count |-> mapping[m].hit_count]
  <2>1. Begin(r, q) /\ q.since = begun + 1 /\ q.op = "reuse" /\ q.seen = m
        /\ q.hit_count = mapping[m].hit_count
    BY <1>1 DEF BeginReuse
  <2>2. /\ m \in MappingId /\ mapping[m].hit_count \in Nat \ {0}
        /\ mapping[m].hit_count <= mapping[m].uses
    BY DEF Inv, TypeOK, MappingRow, AsDecided
  <2>3. q.since \in Started => q \in Reusing
    BY <2>2 DEF Reusing
  <2> HIDE DEF q
  <2>4. /\ UNCHANGED <<developer, project, query, mapping>>
        /\ begun' \in 0 .. MaxBegun /\ begun <= begun'
        /\ req' = [req EXCEPT ![r] = q] /\ req'[r] = q
        /\ q.since \in Started /\ q.since <= begun'
    BY <2>1, BeginFacts
  <2>5. Sound(r)' /\ Apart(r)
    BY <2>1, <2>2, <2>3, <2>4
       DEF Sound, Known, MappingRead, QueryHeld, RegistrationFree, Apart, Held, Upserting
  <2> QED BY <2>4, <2>5, Reads
<1>2. CASE Touch(r)
  <2> DEFINE q == req[r]
             m == q.seen
             set == [mapping[m] EXCEPT !.hit_count = q.hit_count + 1]
             new == Recorded(set, q.since)
  <2>1. q \in Reusing /\ q.since \in Started /\ q.since <= begun /\ MappingRead(r)
    BY <1>2, AtFacts DEF Touch, At, Idle, Inv, Sound
  <2>2. /\ m \in DOMAIN mapping /\ q.hit_count <= mapping[m].uses
        /\ q.hit_count = mapping[m].hit_count \/ q.since <= mapping[m].last
    BY <2>1 DEF MappingRead
  <2>3. mapping[m] \in MappingRow /\ q.hit_count \in Nat \ {0}
    BY <2>1, <2>2 DEF Inv, TypeOK, Reusing
  <2>4. /\ set \in MappingRow
        /\ set.key = mapping[m].key /\ set.project = mapping[m].project
        /\ set.since = mapping[m].since /\ set.made = mapping[m].made
        /\ set.confirmed_by = mapping[m].confirmed_by /\ set.decided = mapping[m].decided
        /\ set.hit_count = q.hit_count + 1 /\ set.uses = mapping[m].uses
        /\ set.last = mapping[m].last /\ set.contended = mapping[m].contended
    BY <2>3 DEF MappingRow
  <2>5. begun \in Started
    BY <2>1, DiscoveryAssumption DEF Inv, TypeOK, Started
  <2> HIDE DEF set
  <2>6. /\ new \in MappingRow
        /\ new.key = mapping[m].key /\ new.project = mapping[m].project
        /\ new.since = mapping[m].since /\ new.made = mapping[m].made
        /\ new.confirmed_by = mapping[m].confirmed_by /\ new.decided = mapping[m].decided
        /\ new.hit_count = q.hit_count + 1 /\ new.uses = mapping[m].uses + 1 /\ new.last = begun
        /\ new.contended <=> mapping[m].contended \/ q.since <= mapping[m].last
    BY <2>1, <2>4, <2>5, RecordedFacts
  <2>7. /\ mapping' = Insert(mapping, m, new) /\ req' = [req EXCEPT ![r] = Idle]
        /\ UNCHANGED <<developer, project, query, begun>>
    BY <1>2 DEF Touch, Ends, set
  <2> HIDE DEF new
  <2>8. \E i \in DOMAIN query : query[i].key = new.key /\ new.project \in query[i].chosen
    BY <2>2, <2>6 DEF Inv, AsDecided
  <2>9. new.hit_count <= new.uses
    BY <2>2, <2>3, <2>6 DEF MappingRow
  <2>10. ~new.contended =>
           <<new.project, new.confirmed_by>> = new.decided /\ new.hit_count = new.uses
    BY <2>2, <2>6 DEF Inv, AsDecided
  <2>11. /\ Grows /\ Stamped' /\ OneMapping' /\ AsDecided' /\ OneProject'
         /\ mapping' \in [DOMAIN mapping' -> MappingRow] /\ DOMAIN mapping' = DOMAIN mapping
    BY <2>2, <2>6, <2>7, <2>8, <2>9, <2>10, MappingUpdated
  <2>12. TypeOK'
    BY <2>7, <2>11 DEF Inv, TypeOK
  <2>13. Sound(r)' /\ Apart(r)
    BY <2>7, EndFacts DEF Apart
  <2> QED BY <2>7, <2>11, <2>12, <2>13, InvParts
<1> QED BY <1>1, <1>2

\* upsert_confirmed_mapping and mark_candidate_chosen
LEMMA UpsertSteps ==
  ASSUME Inv, NEW r \in Requests, NEW m \in MappingId, Upsert(r, m)
  PROVE  Inv'
<1> DEFINE q == req[r]
           shown == IF q.query \in DOMAIN query THEN query[q.query].shown ELSE {}
           chosen == (IF q.query \in DOMAIN query THEN query[q.query].chosen ELSE {}) \cup {q.target}
           entry == [key |-> q.key, shown |-> shown, chosen |-> chosen]
<1>1. /\ q \in Upserting /\ q.since \in Started /\ q.since <= begun
      /\ q.op = "confirm" /\ MappingRead(r) /\ QueryHeld(r)
  BY AtFacts DEF Upsert, At, Idle, Inv, Sound, Upserting
<1>2. /\ q.key \in Keys /\ q.target \in ProjectId /\ q.user \in Users /\ q.query \in QueryId
      /\ begun \in Started
  BY <1>1, DiscoveryAssumption DEF Upserting, Inv, TypeOK, Started
<1>3. /\ query' = Insert(query, q.query, entry) /\ req' = [req EXCEPT ![r] = Idle]
      /\ UNCHANGED <<developer, project, begun>>
  BY DEF Upsert, Ends
<1>4. ASSUME NEW i \in DOMAIN query
      PROVE  query[i] \in QueryRow
  BY DEF Inv, TypeOK
<1>5. shown \in SUBSET ProjectId /\ chosen \in SUBSET ProjectId /\ q.target \in chosen
  BY <1>2, <1>4 DEF QueryRow
<1>6. q.query \in DOMAIN query => query[q.query].key = q.key /\ query[q.query].chosen \subseteq chosen
  BY <1>1 DEF QueryHeld
<1> HIDE DEF shown, chosen
<1>7. entry \in QueryRow /\ entry.key = q.key /\ entry.chosen = chosen
  BY <1>2, <1>5 DEF QueryRow
<1> HIDE DEF entry
<1>8. /\ DOMAIN query' = DOMAIN query \cup {q.query} /\ query'[q.query] = entry
      /\ \A i \in DOMAIN query \ {q.query} : query'[i] = query[i]
      /\ query' \in [DOMAIN query' -> QueryRow] /\ DOMAIN query' \subseteq QueryId
  BY <1>2, <1>3, <1>4, <1>7 DEF Insert, Inv, TypeOK
<1>9. \A i \in DOMAIN query : /\ i \in DOMAIN query' /\ query'[i].key = query[i].key
                              /\ query[i].chosen \subseteq query'[i].chosen
  BY <1>6, <1>7, <1>8
<1>10. /\ q.query \in DOMAIN query' /\ query'[q.query].key = q.key
       /\ q.target \in query'[q.query].chosen
  BY <1>5, <1>7, <1>8
<1>11. Apart(r) /\ Sound(r)'
  BY <1>1, <1>3, <1>8, EndFacts DEF Apart, QueryHeld
<1>12. NoRow \notin MappingId
  BY DiscoveryAssumption
<1>13. CASE m = q.seen
           /\ mapping' = Insert(mapping, m,
                Recorded([Updated(mapping[m], q) EXCEPT !.decided = <<q.target, q.user>>], q.since))
  <2> DEFINE row == mapping[m]
             set == [Updated(row, q) EXCEPT !.decided = <<q.target, q.user>>]
             new == Recorded(set, q.since)
  <2>1. /\ m \in DOMAIN mapping /\ row.key = q.key /\ q.loaded \in MappingRow
        /\ q.loaded.hit_count <= row.uses /\ (q.loaded = row \/ q.since <= row.last)
    BY <1>1, <1>12, <1>13 DEF MappingRead
  <2>2. row \in MappingRow
    BY <2>1 DEF Inv, TypeOK
  <2>3. /\ set \in MappingRow /\ set.key = row.key /\ set.since = row.since /\ set.made = row.made
        /\ set.project = (IF q.target = q.loaded.project THEN row.project ELSE q.target)
        /\ set.confirmed_by =
             (IF q.user = q.loaded.confirmed_by THEN row.confirmed_by ELSE q.user)
        /\ set.decided = <<q.target, q.user>> /\ set.hit_count = q.loaded.hit_count + 1
        /\ set.uses = row.uses /\ set.last = row.last /\ set.contended = row.contended
    BY <1>1, <2>1, <2>2, UpdatedFacts
  <2> HIDE DEF set
  <2>4. /\ new \in MappingRow
        /\ new.key = set.key /\ new.project = set.project /\ new.since = set.since
        /\ new.made = set.made /\ new.confirmed_by = set.confirmed_by
        /\ new.decided = set.decided /\ new.hit_count = set.hit_count
        /\ new.uses = set.uses + 1 /\ new.last = begun
        /\ new.contended <=> set.contended \/ q.since <= set.last
    BY <1>1, <1>2, <2>3, RecordedFacts
  <2>5. mapping' = Insert(mapping, m, new)
    BY <1>13 DEF set
  <2> HIDE DEF new
  <2>6. \E i \in DOMAIN query' : query'[i].key = new.key /\ new.project \in query'[i].chosen
    <3>1. CASE new.project = q.target
      BY <3>1, <1>10, <2>1, <2>3, <2>4
    <3>2. CASE new.project = row.project
      <4>1. PICK i \in DOMAIN query : query[i].key = row.key /\ row.project \in query[i].chosen
        BY <2>1 DEF Inv, AsDecided
      <4>2. /\ i \in DOMAIN query' /\ query'[i].key = query[i].key
            /\ query[i].chosen \subseteq query'[i].chosen
        BY <1>9
      <4> HIDE DEF row
      <4> QED BY <3>2, <4>1, <4>2, <2>3, <2>4
    <3> QED BY <3>1, <3>2, <2>3, <2>4
  <2>7. new.hit_count <= new.uses
    <3>1. q.loaded.hit_count \in Nat /\ row.uses \in Nat
      BY <2>1, <2>2 DEF MappingRow
    <3> QED BY <3>1, <2>1, <2>3, <2>4
  <2>8. ASSUME ~new.contended
        PROVE  <<new.project, new.confirmed_by>> = new.decided /\ new.hit_count = new.uses
    <3>1. ~row.contended /\ q.loaded = row
      BY <2>1, <2>3, <2>4, <2>8
    <3>2. row.hit_count = row.uses
      BY <2>1, <3>1 DEF Inv, AsDecided
    <3>3. new.project = q.target /\ new.confirmed_by = q.user
      BY <3>1, <2>3, <2>4
    <3> QED BY <3>1, <3>2, <3>3, <2>3, <2>4
  <2>9. new.key = mapping[m].key /\ new.since = mapping[m].since /\ new.made = mapping[m].made
        /\ new.uses = mapping[m].uses + 1 /\ new.last = begun
    BY <2>3, <2>4
  <2> HIDE DEF row
  <2>10. /\ Grows /\ Stamped' /\ OneMapping' /\ AsDecided' /\ OneProject'
         /\ mapping' \in [DOMAIN mapping' -> MappingRow] /\ DOMAIN mapping' = DOMAIN mapping
    BY <1>3, <1>9, <2>1, <2>4, <2>5, <2>6, <2>7, <2>8, <2>9, MappingUpdated
  <2>11. TypeOK'
    BY <1>3, <1>8, <2>10 DEF Inv, TypeOK
  <2> QED BY <1>3, <1>11, <2>10, <2>11, InvParts
<1>14. CASE /\ q.seen = NoRow /\ m \notin DOMAIN mapping /\ Admits(q.key)
            /\ mapping' = Insert(mapping, m, Inserted(q))
  <2> DEFINE new == Inserted(q)
  <2>1. /\ new \in MappingRow /\ new.key = q.key /\ new.project = q.target
        /\ new.confirmed_by = q.user /\ new.hit_count = 1 /\ new.uses = 1
        /\ new.since = q.since /\ new.made = begun /\ new.last = begun
        /\ new.decided = <<q.target, q.user>>
    BY <1>1, <1>2 DEF Inserted, MappingRow, Started
  <2> HIDE DEF new
  <2>2. \A n \in DOMAIN mapping : mapping[n].key = new.key => new.since <= mapping[n].made
    BY <1>1, <1>14, <2>1 DEF MappingRead
  <2>3. \E i \in DOMAIN query' : query'[i].key = new.key /\ new.project \in query'[i].chosen
    BY <1>10, <2>1
  <2>4. m \in MappingId \ DOMAIN mapping /\ Admits(new.key) /\ mapping' = Insert(mapping, m, new)
    BY <1>14, <2>1 DEF new
  <2>5. new.since <= begun /\ <<new.project, new.confirmed_by>> = new.decided
    BY <1>1, <2>1
  <2>6. /\ Grows /\ Stamped' /\ OneMapping' /\ AsDecided' /\ OneProject'
        /\ mapping' \in [DOMAIN mapping' -> MappingRow]
        /\ DOMAIN mapping' = DOMAIN mapping \cup {m}
    BY <1>3, <1>9, <2>1, <2>2, <2>3, <2>4, <2>5, MappingMade
  <2>7. TypeOK'
    BY <1>3, <1>8, <2>6 DEF Inv, TypeOK
  <2> QED BY <1>3, <1>11, <2>6, <2>7, InvParts
<1> QED BY <1>13, <1>14 DEF Upsert

\* resolve_via_live_maharera
LEMMA LiveSteps ==
  ASSUME Inv, NEW r \in Requests,
         \/ \E g \in Registrations : BeginLive(r, g)
         \/ \E promoter \in BOOLEAN, d \in DeveloperId : FindDeveloper(r, promoter, d)
         \/ \E p \in ProjectId : CreateProject(r, p)
  PROVE  Inv'
<1>1. ASSUME NEW g \in Registrations, BeginLive(r, g)
      PROVE  Inv'
  <2> DEFINE q == [op |-> "live", step |-> "identity", since |-> begun + 1, registration |-> g]
  <2>1. Begin(r, q) /\ q.since = begun + 1 /\ q.op = "live" /\ q.step = "identity"
        /\ q.registration = g
    BY <1>1 DEF BeginLive
  <2>2. q.since \in Started => q \in Identifying
    BY DEF Identifying
  <2> HIDE DEF q
  <2>3. /\ UNCHANGED <<developer, project, query, mapping>>
        /\ begun' \in 0 .. MaxBegun /\ begun <= begun'
        /\ req' = [req EXCEPT ![r] = q] /\ req'[r] = q
        /\ q.since \in Started /\ q.since <= begun'
    BY <2>1, BeginFacts
  <2>4. RegistrationFree(r)'
    BY <1>1, <2>1, <2>3 DEF BeginLive, RegistrationFree
  <2>5. Sound(r)' /\ Apart(r)
    BY <2>1, <2>2, <2>3, <2>4 DEF Sound, Known, MappingRead, QueryHeld, Apart, Held, Upserting, Reusing
  <2> QED BY <2>3, <2>5, Reads
<1>2. ASSUME NEW promoter \in BOOLEAN, NEW d \in DeveloperId, FindDeveloper(r, promoter, d)
      PROVE  Inv'
  <2> DEFINE name == DeveloperName(req[r].registration, promoter)
             q == [op |-> "live", step |-> "create", since |-> req[r].since,
                   registration |-> req[r].registration, developer |-> d, name |-> name]
  <2>1. /\ req[r] \in Identifying /\ req[r].since \in Started /\ req[r].since <= begun
        /\ RegistrationFree(r)
    BY <1>2, AtFacts DEF FindDeveloper, At, Idle, Inv, Sound
  <2>2. name \in Names
    BY <2>1, DiscoveryAssumption DEF Identifying, DeveloperName
  <2>3. Step(r, q)
    BY <1>2 DEF FindDeveloper
  <2>4. /\ q \in Creating /\ q.op = "live" /\ q.step = "create" /\ q.since = req[r].since
        /\ q.registration = req[r].registration
    BY <2>1, <2>2 DEF Creating, Identifying
  <2> HIDE DEF q
  <2>5. /\ UNCHANGED <<developer, project, query, mapping, begun>>
        /\ begun' \in 0 .. MaxBegun /\ begun <= begun'
        /\ req' = [req EXCEPT ![r] = q] /\ req'[r] = q
        /\ \A o \in Requests \ {r} : req'[o] = req[o]
    BY <2>3, StepFacts
  <2>6. RegistrationFree(r)'
    BY <2>1, <2>4, <2>5 DEF RegistrationFree, Identifying
  <2>7. Sound(r)' /\ Apart(r)
    BY <2>1, <2>4, <2>5, <2>6
       DEF Sound, Known, MappingRead, QueryHeld, Apart, Held, Upserting, Reusing
  <2> QED BY <2>5, <2>7, Reads
<1>3. ASSUME NEW p \in ProjectId, CreateProject(r, p)
      PROVE  Inv'
  <2> DEFINE q == req[r]
             new == [registration |-> q.registration, developer |-> q.developer,
                     since |-> q.since, made |-> begun]
  <2>1. /\ q \in Creating /\ q.since \in Started /\ q.since <= begun /\ RegistrationFree(r)
    BY <1>3, AtFacts DEF CreateProject, At, Idle, Inv, Sound
  <2>2. begun \in 0 .. MaxBegun /\ begun \in Nat /\ q.since \in 0 .. MaxBegun /\ q.since \in Nat
    BY <2>1, DiscoveryAssumption DEF Inv, TypeOK, Started
  <2>3. /\ new \in ProjectRow /\ new.registration = q.registration /\ new.developer = q.developer
        /\ new.since = q.since /\ new.made = begun
    BY <2>1, <2>2 DEF ProjectRow, Creating
  <2>4. /\ p \notin DOMAIN project /\ project' = Insert(project, p, new)
        /\ developer' = Insert(developer, q.developer, q.name)
        /\ req' = [req EXCEPT ![r] = Idle] /\ UNCHANGED <<query, mapping, begun>>
        /\ \A o \in DOMAIN project :
             <<project[o].registration, project[o].developer>> # <<q.registration, q.developer>>
    BY <1>3 DEF CreateProject, Ends
  <2> HIDE DEF new
  <2>5. /\ DOMAIN project' = DOMAIN project \cup {p} /\ project'[p] = new
        /\ \A o \in DOMAIN project : project'[o] = project[o]
        /\ project' \in [DOMAIN project' -> ProjectRow]
    BY <2>3, <2>4 DEF Insert, Inv, TypeOK
  <2>6. /\ developer' \in [DOMAIN developer' -> Names] /\ DOMAIN developer' \subseteq DeveloperId
    BY <2>1, <2>4 DEF Insert, Inv, TypeOK, Creating
  <2>7. TypeOK'
    BY <2>4, <2>5, <2>6 DEF Inv, TypeOK
  <2>8. Stamped' /\ OneMapping' /\ AsDecided'
    BY <2>1, <2>2, <2>3, <2>4, <2>5 DEF Inv, Stamped, OneMapping, AsDecided
  <2>9. ASSUME NEW o \in DOMAIN project, project[o].registration = q.registration
        PROVE  /\ Overlapped(project[o], new) /\ Overlapped(new, project[o])
               /\ project[o].developer # q.developer
    <3>1. q.since <= project[o].made
      BY <2>1, <2>9 DEF RegistrationFree, Creating
    <3>2. /\ project[o].since \in Nat /\ project[o].made \in Nat
          /\ project[o].since <= project[o].made /\ project[o].made <= begun
      BY <2>9 DEF Inv, TypeOK, Stamped, ProjectRow
    <3>3. project[o].developer # q.developer
      BY <2>4, <2>9
    <3> QED BY <3>1, <3>2, <3>3, <2>2, <2>3 DEF Overlapped
  <2>10. OneProject'
    <3>1. ASSUME NEW a \in DOMAIN project', NEW b \in DOMAIN project', a # b,
                 project'[a].registration = project'[b].registration
          PROVE  Overlapped(project'[a], project'[b]) /\ project'[a].developer # project'[b].developer
      <4>1. CASE a \in DOMAIN project /\ b \in DOMAIN project
        BY <3>1, <4>1, <2>5 DEF Inv, OneProject
      <4>2. CASE a = p
        BY <3>1, <4>2, <2>3, <2>5, <2>9
      <4>3. CASE b = p
        BY <3>1, <4>3, <2>3, <2>5, <2>9
      <4> QED BY <4>1, <4>2, <4>3, <2>5
    <3> QED BY <3>1 DEF OneProject, Overlapped
  <2>11. Grows
    <3>1. \A m \in DOMAIN mapping : mapping[m].uses \in Nat
      BY DEF Inv, TypeOK, MappingRow
    <3> QED BY <3>1, <2>2, <2>3, <2>4, <2>5 DEF Grows
  <2>12. Sound(r)' /\ Apart(r)
    BY <2>4, EndFacts DEF Apart
  <2> QED BY <2>4, <2>7, <2>8, <2>10, <2>11, <2>12, InvParts
<1> QED BY <1>1, <1>2, <1>3

LEMMA AbortStep ==
  ASSUME Inv, NEW r \in Requests, Abort(r)
  PROVE  Inv'
<1>1. /\ UNCHANGED <<developer, project, query, mapping, begun>>
      /\ req' = [req EXCEPT ![r] = Idle]
  BY DEF Abort, Step
<1>2. begun' \in 0 .. MaxBegun /\ begun <= begun'
  BY <1>1, DiscoveryAssumption DEF Inv, TypeOK
<1>3. Sound(r)' /\ Apart(r)
  BY <1>1, EndFacts DEF Apart
<1> QED BY <1>1, <1>2, <1>3, Reads

(***************************************************************************)
(* The theorems.                                                           *)
(***************************************************************************)
LEMMA InvStep == Inv /\ [Next]_vars => Inv'
<1> SUFFICES ASSUME Inv, [Next]_vars
             PROVE  Inv'
  OBVIOUS
<1>1. ASSUME NEW r \in Requests,
             \/ \E u \in Users, k \in Keys, force_refresh \in BOOLEAN :
                  BeginSearch(r, u, k, force_refresh)
             \/ \E i \in QueryId, top \in ProjectId : Resolve(r, i, top)
             \/ \E i \in QueryId, shown \in SUBSET ProjectId : Ask(r, i, shown)
      PROVE  Inv'
  BY <1>1, SearchSteps
<1>2. ASSUME NEW r \in Requests,
             \/ \E u \in Users, i \in DOMAIN query, p \in ProjectId : BeginConfirm(r, u, i, p)
             \/ \E seen \in MappingId \cup {NoRow} : LookUp(r, seen)
      PROVE  Inv'
  BY <1>2, ConfirmSteps
<1>3. ASSUME NEW r \in Requests, NEW m \in MappingId, Upsert(r, m)
      PROVE  Inv'
  BY <1>3, UpsertSteps
<1>4. ASSUME NEW r \in Requests, (\E m \in DOMAIN mapping : BeginReuse(r, m)) \/ Touch(r)
      PROVE  Inv'
  BY <1>4, ReuseSteps
<1>5. ASSUME NEW r \in Requests,
             \/ \E g \in Registrations : BeginLive(r, g)
             \/ \E promoter \in BOOLEAN, d \in DeveloperId : FindDeveloper(r, promoter, d)
             \/ \E p \in ProjectId : CreateProject(r, p)
      PROVE  Inv'
  BY <1>5, LiveSteps
<1>6. ASSUME NEW r \in Requests, Abort(r)
      PROVE  Inv'
  BY <1>6, AbortStep
<1>7. CASE UNCHANGED vars
  BY <1>7 DEF vars, Inv, TypeOK, ProjectRow, QueryRow, MappingRow, Stamped, OneMapping,
              AsDecided, OneProject, Overlapped, Sound, Known, MappingRead, QueryHeld,
              RegistrationFree
<1> QED BY <1>1, <1>2, <1>3, <1>4, <1>5, <1>6, <1>7 DEF Next

LEMMA InvHolds == Spec => []Inv
BY StartInv, InvStep, PTL DEF Spec

\* However requests overlap, app/discovery's tables keep their types.
THEOREM TypeCorrect == Spec => []TypeOK
<1>1. Inv => TypeOK
  BY DEF Inv
<1> QED BY <1>1, InvHolds, PTL

\* upsert_confirmed_mapping leaves a key with more than one mapping only when its city is
\* NULL, which keeps the unique constraint from applying, and the two requests overlapped.
THEOREM OneMappingPerSearch == Spec => []OneMapping
<1>1. Inv => OneMapping
  BY DEF Inv
<1> QED BY <1>1, InvHolds, PTL

\* A mapping points where a search for its key was resolved or confirmed to; it counts no
\* use twice; and as long as no two requests that wrote it overlapped it is the last
\* decision, with the user who made it, and counts every use (upsert_confirmed_mapping,
\* touch_confirmed_mapping).
THEOREM MappingsAsDecided == Spec => []AsDecided
<1>1. Inv => AsDecided
  BY DEF Inv
<1> QED BY <1>1, InvHolds, PTL

\* resolve_via_live_maharera gives a registration a second project only when another
\* resolution of it overlapped and found a developer of another name.
THEOREM OneProjectPerRegistration == Spec => []OneProject
<1>1. Inv => OneProject
  BY DEF Inv
<1> QED BY <1>1, InvHolds, PTL
=============================================================================
