------------------------------ MODULE MCForecasts ------------------------------
(* A finite instance of Forecasts. *)
EXTENDS Forecasts, TLC

CONSTANTS r1, r2, o1, o2, o3, alice, good, zero

MCScenarioOrder == <<"bear", "bull">>

\* Requests and keys are interchangeable, and no property is a liveness property.
MCSymmetry == Permutations(Requests) \cup Permutations(ProposalId)
=============================================================================
