------------------------------ MODULE MCDiscovery ------------------------------
(* A finite instance of Discovery. *)
EXTENDS Discovery, TLC

CONSTANTS r1, r2, ana, raj, withCity, noCity, g1, g2, g3, n1, n2, p1, p2, p3, p4, d1, d2, d3,
          m1, m2, i1, i2

MCSymmetry == Permutations(Requests) \cup Permutations(Users) \cup Permutations(MappingId) \cup Permutations(QueryId)
              \cup Permutations({p3, p4}) \cup Permutations({d2, d3})

MCSeedDevelopers == d1 :> n1
MCSeedProjects ==
  p1 :> [registration |-> g1, developer |-> d1, since |-> 0, made |-> 0] @@
  p2 :> [registration |-> g2, developer |-> d1, since |-> 0, made |-> 0]

MCPromoterName == [g \in Registrations |-> n1]
MCListedName == [g \in Registrations |-> n2]

\* The seeded weights.  With a city g1 is an exact match and g2 so close that one use of g2
\* makes it ambiguous; without one g1 and g2 resemble the string, and g3 does not.
MCWeight == [exact_name |-> 20, fuzzy_name |-> 45, city |-> 30, historical_selection |-> 5]
MCExact == {<<withCity, g1>>}
MCSameCity == {withCity} \X {g1, g2}
MCSimilarity ==
  withCity :> (g1 :> 100 @@ g2 :> 98 @@ g3 :> 40) @@
  noCity   :> (g1 :> 80 @@ g2 :> 78 @@ g3 :> 20)
=============================================================================
