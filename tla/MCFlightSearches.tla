-------------------------- MODULE MCFlightSearches --------------------------
(***************************************************************************)
(* Instances of FlightSearches for TLC: two queries for the same route (of *)
(* two agents, say, or in two cabin classes).                              *)
(***************************************************************************)
EXTENDS FlightSearches, TLC

CONSTANTS q1, q2, route

MCRouteOf == [q \in Queries |-> route]

(* Searches are only compared. *)
Symmetry == Permutations(Searches)
=============================================================================
