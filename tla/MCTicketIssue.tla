--------------------------- MODULE MCTicketIssue ---------------------------
(***************************************************************************)
(* Instances of TicketIssue for TLC: the first agent has two orders and a  *)
(* balance that covers either but not both, the second has one.            *)
(***************************************************************************)
EXTENDS TicketIssue, TLC

CONSTANTS a1, a2, o1, o2, o3

MCOwner   == [o \in Orders |-> IF o = o3 THEN a2 ELSE a1]
MCAmount  == [o \in Orders |-> IF o = o1 THEN 2 ELSE 1]
MCOpening == (a1 :> 2) @@ (a2 :> 1)

(* Requests and keys are only compared. *)
Symmetry == Permutations(Requests) \cup Permutations(Keys)
=============================================================================
