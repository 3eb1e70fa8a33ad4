----------------------------- MODULE HoldLedger -----------------------------
(***************************************************************************)
(* The money side of issuing a ticket as the repository's README promises  *)
(* it (README.md, "Idempotency and money", steps 1 to 3): the amount of an *)
(* order is first held, then either captured or given back, and a capture  *)
(* or a release only ever ends a hold.  It says nothing of requests, keys, *)
(* retries or the provider.  TicketIssue, the model of the code, is        *)
(* checked and proved against it.                                          *)
(***************************************************************************)
EXTENDS Integers

CONSTANTS Agents,   \* the agents whose balance is debited
          Orders,   \* the booked orders
          Owner,    \* Owner[o] is the agent who pays for order o
          Amount,   \* Amount[o] is the price of order o
          Opening   \* Opening[a] is what agent a starts with

VARIABLES balance,  \* balance[a]: what agent a can still spend
          payment   \* payment[o]: the state of the order's balance operation

Init == /\ balance = Opening
        /\ payment = [o \in Orders |-> "NONE"]

(* The amount leaves the available balance, if the balance covers it. *)
Hold(o) == /\ payment[o] \in {"NONE", "RELEASED"}
           /\ balance[Owner[o]] >= Amount[o]
           /\ balance' = [balance EXCEPT ![Owner[o]] = @ - Amount[o]]
           /\ payment' = [payment EXCEPT ![o] = "HELD"]

(* The provider issued the ticket: the held amount is spent for good. *)
Capture(o) == /\ payment[o] = "HELD"
              /\ payment' = [payment EXCEPT ![o] = "CAPTURED"]
              /\ UNCHANGED balance

(* The provider did not issue the ticket: the held amount is given back. *)
Release(o) == /\ payment[o] = "HELD"
              /\ balance' = [balance EXCEPT ![Owner[o]] = @ + Amount[o]]
              /\ payment' = [payment EXCEPT ![o] = "RELEASED"]

Next == \E o \in Orders : Hold(o) \/ Capture(o) \/ Release(o)

Spec == Init /\ [][Next]_<<balance, payment>>
=============================================================================
