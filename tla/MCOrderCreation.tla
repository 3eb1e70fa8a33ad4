-------------------------- MODULE MCOrderCreation --------------------------
(***************************************************************************)
(* Instances of OrderCreation for TLC: one offer found by each agent, two  *)
(* passengers for the first and one for the second.                        *)
(***************************************************************************)
EXTENDS OrderCreation, TLC

CONSTANTS a1, a2, f1, f2, b1, b2, b3

MCOfferOf == (b1 :> f1) @@ (b2 :> f1) @@ (b3 :> f2)
MCOfferAgent == (f1 :> a1) @@ (f2 :> a2)

(* Requests and keys are only compared. *)
Symmetry == Permutations(Requests) \cup Permutations(Keys)
=============================================================================
