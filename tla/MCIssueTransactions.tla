------------------------ MODULE MCIssueTransactions ------------------------
(***************************************************************************)
(* Instances of IssueTransactions for TLC, with MCTicketIssue's agents and *)
(* orders.                                                                 *)
(***************************************************************************)
EXTENDS IssueTransactions, MCTicketIssue
=============================================================================
