------------------------- MODULE TicketIssueProofs -------------------------
(***************************************************************************)
(* What is proved of issue_order for every set of agents, orders, keys and *)
(* requests, whether or not the provider is remote.                        *)
(***************************************************************************)
EXTENDS TicketIssue, SumFacts, TLAPS

USE DEF Rows

(* The balance transaction carries the key of its order.                   *)
PaymentKey ==
  \A o \in Orders : /\ payKey[o] = issueKey[o]
                    /\ payment[o] = "NONE" <=> payKey[o] = NoKey

(* A key issues one order only: what the UNIQUE constraints give.          *)
KeysApart ==
  \A o, p \in Orders : issueKey[o] = issueKey[p] /\ issueKey[o] # NoKey => o = p

(* A call, also one that has been given up, is made with the key its order *)
(* carries, because that key is committed first and never changes.         *)
CallsCarryKey ==
  \A r \in Requests : r \in pending \/ r \in InFlight =>
    /\ pc[r] # "new"
    /\ orderOf[r] \in Orders
    /\ keyOf[r] \in Keys
    /\ issueKey[orderOf[r]] = keyOf[r]

(* What the provider issued under a key is for the order with that key.    *)
TicketsFollowKeys ==
  /\ \A k \in Keys : ticketFor[k] \in Orders => issueKey[ticketFor[k]] = k
  /\ \A r \in Requests : pc[r] = "ticketed" => ticketFor[keyOf[r]] = orderOf[r]

(* The inductive invariant. *)
IssueInv ==
  /\ TypeOK
  /\ StatusMatchesPayment
  /\ PaymentKey
  /\ KeysApart
  /\ CallsCarryKey
  /\ TicketsFollowKeys
  /\ TicketIsForTheOrder
  /\ HoldHasAHandler

(* A handler of a patient agent's order is the only one of that order, and *)
(* the amount stays on hold until it ends.                                 *)
OneHandler ==
  \A r \in InFlight : orderOf[r] \in PatientOrders =>
    /\ payment[orderOf[r]] = "HELD"
    /\ \A q \in InFlight : orderOf[q] = orderOf[r] => q = r
-----------------------------------------------------------------------------
(* The initial states satisfy the inductive invariant.                     *)
LEMMA InitIssueInv == Init => IssueInv
BY ConstantsOK DEF Init, IssueInv, TypeOK, StatusMatchesPayment, PaymentKey,
   KeysApart, CallsCarryKey, TicketsFollowKeys, TicketIsForTheOrder,
   HoldHasAHandler, Statuses, Transitions, Payments, Answers, Places, InFlight
(* A status change is recorded as a well-formed audit row.                 *)
LEMMA SetStatusType ==
  ASSUME TypeOK, NEW o \in Orders, NEW s \in Statuses, SetStatus(o, status[o], s)
  PROVE  /\ status' \in [Orders -> Statuses]
         /\ trail' \in [Orders -> Seq(Transitions)]
<1>1. [before |-> status[o], after |-> s] \in Transitions
  BY DEF TypeOK, Transitions
<1>2. Append(trail[o], [before |-> status[o], after |-> s]) \in Seq(Transitions)
  BY <1>1 DEF TypeOK
<1> QED  BY <1>2 DEF TypeOK, SetStatus, AuditRow

(* An answer given without a call leaves the database as it was.            *)
LEMMA AtOnceKeepsInv ==
  ASSUME IssueInv, NEW r \in Requests, NEW o \in Orders, NEW k \in Keys, NEW a \in Answers,
         Asks(r, o, k), AnswersAtOnce(r, a)
  PROVE  IssueInv'
<1> USE ConstantsOK DEF IssueInv, TypeOK, Statuses, Payments, Answers, Places, InFlight,
          database, provider, Arrives, Asks, AnswersAtOnce
<1>1. TypeOK'
  OBVIOUS
<1>2. StatusMatchesPayment'
  BY DEF StatusMatchesPayment
<1>3. PaymentKey'
  BY DEF PaymentKey
<1>4. KeysApart'
  BY DEF KeysApart
<1>5. CallsCarryKey'
  BY DEF CallsCarryKey
<1>6. TicketsFollowKeys'
  BY DEF TicketsFollowKeys
<1>7. TicketIsForTheOrder'
  BY DEF TicketIsForTheOrder
<1>8. HoldHasAHandler'
  BY DEF HoldHasAHandler
<1> QED  BY <1>1, <1>2, <1>3, <1>4, <1>5, <1>6, <1>7, <1>8

(* The hold is placed under a key no other order carries.                  *)
LEMMA PlacesHoldKeepsInv ==
  ASSUME IssueInv, NEW r \in Requests, NEW o \in Orders, NEW k \in Keys, PlacesHold(r, o, k, Rows(o))
  PROVE  IssueInv'
<1> USE ConstantsOK DEF IssueInv, TypeOK, Statuses, Payments, Answers, Places, InFlight,
          Arrives, Asks, StartsCall, SetStatus, AuditRow, PlacesHold, NeedsHold, Affordable, KeyFree, KeyAccepted
<1>1. TypeOK'
  <2>1. SetStatus(o, status[o], "ISSUING")
    OBVIOUS
  <2>2. status' \in [Orders -> Statuses] /\ trail' \in [Orders -> Seq(Transitions)]
    BY <2>1, SetStatusType
  <2> QED  BY <2>2
<1>2. StatusMatchesPayment'
  BY DEF StatusMatchesPayment
<1>3. PaymentKey'
  BY DEF PaymentKey
<1>4. KeysApart'
  BY DEF KeysApart, PaymentKey
<1>5. CallsCarryKey'
  BY DEF CallsCarryKey, PaymentKey
<1>6. TicketsFollowKeys'
  BY DEF TicketsFollowKeys, CallsCarryKey
<1>7. TicketIsForTheOrder'
  BY DEF TicketIsForTheOrder, StatusMatchesPayment
<1>8. HoldHasAHandler'
  <2>1. orderOf'[r] = o /\ pc'[r] = "calling"
    OBVIOUS
  <2>2. ASSUME NEW p \in Orders, p # o, payment[p] = "HELD"
        PROVE  \E q \in Requests : /\ orderOf'[q] = p
                                   /\ pc'[q] \in {"calling", "ticketed", "failing", "lost"}
    <3>1. PICK q \in Requests : /\ orderOf[q] = p
                                /\ pc[q] \in {"calling", "ticketed", "failing", "lost"}
      BY <2>2 DEF HoldHasAHandler
    <3> QED  BY <3>1
  <2> QED  BY <2>1, <2>2 DEF HoldHasAHandler
<1> QED  BY <1>1, <1>2, <1>3, <1>4, <1>5, <1>6, <1>7, <1>8

(* A request that joins a hold brings the key the order carries already.   *)
LEMMA JoinsHoldKeepsInv ==
  ASSUME IssueInv, NEW r \in Requests, NEW o \in Orders, NEW k \in Keys, JoinsHold(r, o, k, Rows(o))
  PROVE  IssueInv'
<1> USE ConstantsOK DEF IssueInv, TypeOK, Statuses, Payments, Answers, Places, InFlight,
          Arrives, Asks, StartsCall, SetStatus, AuditRow, JoinsHold, NeedsHold, KeyAccepted
<1>1. TypeOK'
  <2>1. SetStatus(o, status[o], "ISSUING")
    OBVIOUS
  <2>2. status' \in [Orders -> Statuses] /\ trail' \in [Orders -> Seq(Transitions)]
    BY <2>1, SetStatusType
  <2> QED  BY <2>2
<1>2. StatusMatchesPayment'
  BY DEF StatusMatchesPayment
<1>3. PaymentKey'
  BY DEF PaymentKey, StatusMatchesPayment
<1>4. KeysApart'
  BY DEF KeysApart, PaymentKey
<1>5. CallsCarryKey'
  BY DEF CallsCarryKey, PaymentKey
<1>6. TicketsFollowKeys'
  BY DEF TicketsFollowKeys, PaymentKey
<1>7. TicketIsForTheOrder'
  BY DEF TicketIsForTheOrder
<1>8. HoldHasAHandler'
  BY DEF HoldHasAHandler
<1> QED  BY <1>1, <1>2, <1>3, <1>4, <1>5, <1>6, <1>7, <1>8

(* The ticket the provider already has for a key is for the same order.    *)
LEMMA ProviderIssuesKeepsInv ==
  ASSUME IssueInv, NEW r \in Requests, ProviderIssues(r)
  PROVE  IssueInv'
<1> USE ConstantsOK DEF IssueInv, TypeOK, Statuses, Payments, Answers, Places, InFlight,
          database, asked, ProviderIssues
<1>1. TypeOK'
  OBVIOUS
<1>2. StatusMatchesPayment'
  BY DEF StatusMatchesPayment
<1>3. PaymentKey'
  BY DEF PaymentKey
<1>4. KeysApart'
  BY DEF KeysApart
<1>5. CallsCarryKey'
  BY DEF CallsCarryKey
<1>6. TicketsFollowKeys'
  BY DEF TicketsFollowKeys, CallsCarryKey, KeysApart
<1>7. TicketIsForTheOrder'
  BY DEF TicketIsForTheOrder
<1>8. HoldHasAHandler'
  BY DEF HoldHasAHandler
<1> QED  BY <1>1, <1>2, <1>3, <1>4, <1>5, <1>6, <1>7, <1>8

(* A rejected call only moves its handler.                                 *)
LEMMA ProviderRejectsKeepsInv ==
  ASSUME IssueInv, NEW r \in Requests, ProviderRejects(r)
  PROVE  IssueInv'
<1> USE ConstantsOK DEF IssueInv, TypeOK, Statuses, Payments, Answers, Places, InFlight,
          database, asked, ProviderRejects
<1>1. TypeOK'
  OBVIOUS
<1>2. StatusMatchesPayment'
  BY DEF StatusMatchesPayment
<1>3. PaymentKey'
  BY DEF PaymentKey
<1>4. KeysApart'
  BY DEF KeysApart
<1>5. CallsCarryKey'
  BY DEF CallsCarryKey
<1>6. TicketsFollowKeys'
  BY DEF TicketsFollowKeys
<1>7. TicketIsForTheOrder'
  BY DEF TicketIsForTheOrder
<1>8. HoldHasAHandler'
  BY DEF HoldHasAHandler
<1> QED  BY <1>1, <1>2, <1>3, <1>4, <1>5, <1>6, <1>7, <1>8

(* So does a call given up.                                                *)
LEMMA CallTimesOutKeepsInv ==
  ASSUME IssueInv, NEW r \in Requests, CallTimesOut(r)
  PROVE  IssueInv'
<1> USE ConstantsOK DEF IssueInv, TypeOK, Statuses, Payments, Answers, Places, InFlight,
          database, asked, CallTimesOut, Expirable, Abandons
<1>1. TypeOK'
  OBVIOUS
<1>2. StatusMatchesPayment'
  BY DEF StatusMatchesPayment
<1>3. PaymentKey'
  BY DEF PaymentKey
<1>4. KeysApart'
  BY DEF KeysApart
<1>5. CallsCarryKey'
  BY DEF CallsCarryKey
<1>6. TicketsFollowKeys'
  BY DEF TicketsFollowKeys
<1>7. TicketIsForTheOrder'
  BY DEF TicketIsForTheOrder
<1>8. HoldHasAHandler'
  BY DEF HoldHasAHandler
<1> QED  BY <1>1, <1>2, <1>3, <1>4, <1>5, <1>6, <1>7, <1>8

(* The captured order gets the ticket issued under its own key.            *)
LEMMA CapturesHoldKeepsInv ==
  ASSUME IssueInv, NEW r \in Requests, CapturesHold(r, Rows(orderOf[r]))
  PROVE  IssueInv'
<1> USE ConstantsOK DEF IssueInv, TypeOK, Statuses, Payments, Answers, Places, InFlight,
          asked, provider, CapturesHold, Capturable, SetStatus, AuditRow
<1>1. TypeOK'
  <2>1. orderOf[r] \in Orders /\ keyOf[r] \in Keys
    BY DEF CallsCarryKey
  <2>2. \/ SetStatus(orderOf[r], status[orderOf[r]], "ISSUED")
        \/ UNCHANGED <<status, trail>>
    OBVIOUS
  <2>3. status' \in [Orders -> Statuses] /\ trail' \in [Orders -> Seq(Transitions)]
    BY <2>1, <2>2, SetStatusType
  <2> QED  BY <2>1, <2>3
<1>2. StatusMatchesPayment'
  BY DEF StatusMatchesPayment, CallsCarryKey
<1>3. PaymentKey'
  BY DEF PaymentKey, CallsCarryKey
<1>4. KeysApart'
  BY DEF KeysApart
<1>5. CallsCarryKey'
  BY DEF CallsCarryKey
<1>6. TicketsFollowKeys'
  <2>1. UNCHANGED <<issueKey, ticketFor, orderOf, keyOf>>
    OBVIOUS
  <2>2. \A q \in Requests : pc'[q] = "ticketed" => pc[q] = "ticketed"
    OBVIOUS
  <2> QED  BY <2>1, <2>2 DEF TicketsFollowKeys
<1>7. TicketIsForTheOrder'
  <2>1. /\ orderOf[r] \in Orders /\ keyOf[r] \in Keys
        /\ ticketFor[keyOf[r]] = orderOf[r]
    BY DEF CallsCarryKey, TicketsFollowKeys
  <2>2. ASSUME NEW p \in Orders, status'[p] = "ISSUED"
        PROVE  ticketNo'[p] \in Keys /\ ticketFor[ticketNo'[p]] = p
    <3>1. CASE p = orderOf[r] /\ Capturable(status[p])
      BY <2>1, <3>1
    <3>2. CASE UNCHANGED <<status[p], ticketNo[p]>>
      BY <2>2, <3>2 DEF TicketIsForTheOrder
    <3> QED  BY <2>1, <3>1, <3>2
  <2>3. UNCHANGED ticketFor
    OBVIOUS
  <2> QED  BY <2>2, <2>3 DEF TicketIsForTheOrder
<1>8. HoldHasAHandler'
  BY DEF HoldHasAHandler, CallsCarryKey, StatusMatchesPayment
<1> QED  BY <1>1, <1>2, <1>3, <1>4, <1>5, <1>6, <1>7, <1>8

(* A release takes the payment and the order back together.                *)
LEMMA ReleasesHoldKeepsInv ==
  ASSUME IssueInv, NEW r \in Requests, ReleasesHold(r, Rows(orderOf[r]))
  PROVE  IssueInv'
<1> USE ConstantsOK DEF IssueInv, TypeOK, Statuses, Payments, Answers, Places, InFlight,
          asked, provider, ReleasesHold, Refundable, SetStatus, AuditRow
<1>1. TypeOK'
  <2>1. orderOf[r] \in Orders /\ keyOf[r] \in Keys
    BY DEF CallsCarryKey
  <2>2. \/ SetStatus(orderOf[r], status[orderOf[r]], "BOOKED")
        \/ UNCHANGED <<status, trail>>
    OBVIOUS
  <2>3. status' \in [Orders -> Statuses] /\ trail' \in [Orders -> Seq(Transitions)]
    BY <2>1, <2>2, SetStatusType
  <2>4. balance' \in [Agents -> Nat]
    <3>1. /\ balance \in [Agents -> Nat]
          /\ Owner[orderOf[r]] \in Agents
          /\ Amount[orderOf[r]] \in Nat
      BY <2>1
    <3>2. \/ UNCHANGED balance
          \/ balance' = [balance EXCEPT ![Owner[orderOf[r]]] = @ + Amount[orderOf[r]]]
      OBVIOUS
    <3> HIDE DEF TypeOK, ReleasesHold, IssueInv
    <3> QED  BY <3>1, <3>2
  <2> QED  BY <2>1, <2>3, <2>4
<1>2. StatusMatchesPayment'
  BY DEF StatusMatchesPayment, CallsCarryKey
<1>3. PaymentKey'
  BY DEF PaymentKey, CallsCarryKey
<1>4. KeysApart'
  BY DEF KeysApart
<1>5. CallsCarryKey'
  BY DEF CallsCarryKey
<1>6. TicketsFollowKeys'
  BY DEF TicketsFollowKeys
<1>7. TicketIsForTheOrder'
  BY DEF TicketIsForTheOrder, StatusMatchesPayment
<1>8. HoldHasAHandler'
  BY DEF HoldHasAHandler, CallsCarryKey
<1> QED  BY <1>1, <1>2, <1>3, <1>4, <1>5, <1>6, <1>7, <1>8

(* A lost handler leaves its hold behind.                                  *)
LEMMA HandlerLostKeepsInv ==
  ASSUME IssueInv, NEW r \in Requests, HandlerLost(r)
  PROVE  IssueInv'
<1> USE ConstantsOK DEF IssueInv, TypeOK, Statuses, Payments, Answers, Places, InFlight,
          database, asked, HandlerLost, Abandons
<1>1. TypeOK'
  OBVIOUS
<1>2. StatusMatchesPayment'
  BY DEF StatusMatchesPayment
<1>3. PaymentKey'
  BY DEF PaymentKey
<1>4. KeysApart'
  BY DEF KeysApart
<1>5. CallsCarryKey'
  BY DEF CallsCarryKey
<1>6. TicketsFollowKeys'
  BY DEF TicketsFollowKeys
<1>7. TicketIsForTheOrder'
  BY DEF TicketIsForTheOrder
<1>8. HoldHasAHandler'
  BY DEF HoldHasAHandler
<1> QED  BY <1>1, <1>2, <1>3, <1>4, <1>5, <1>6, <1>7, <1>8

LEMMA StepKeepsInv == IssueInv /\ [Next]_vars => IssueInv'
<1> SUFFICES ASSUME IssueInv, [Next]_vars PROVE IssueInv'
  OBVIOUS
<1>1. CASE UNCHANGED vars
  <2> USE <1>1 DEF vars, database, asked, provider, IssueInv
  <2>1. (TypeOK /\ StatusMatchesPayment /\ PaymentKey /\ KeysApart)'
    BY DEF TypeOK, StatusMatchesPayment, PaymentKey, KeysApart
  <2>2. (CallsCarryKey /\ TicketsFollowKeys)'
    BY DEF CallsCarryKey, TicketsFollowKeys, InFlight
  <2>3. (TicketIsForTheOrder /\ HoldHasAHandler)'
    BY DEF TicketIsForTheOrder, HoldHasAHandler
  <2> QED  BY <2>1, <2>2, <2>3
<1>2. ASSUME NEW r \in Requests, IssueStarts(r) PROVE IssueInv'
  <2>1. PICK o \in Orders, k \in Keys :
          \/ \E a \in Agents : OrderNotFound(r, a, o, k)
          \/ AlreadyIssued(r, o, k, Rows(o))
          \/ KeyConflict(r, o, k, Rows(o))
          \/ BalanceTooLow(r, o, k, Rows(o))
          \/ KeyTaken(r, o, k, Rows(o))
          \/ PlacesHold(r, o, k, Rows(o))
          \/ JoinsHold(r, o, k, Rows(o))
    BY <1>2 DEF IssueStarts, FirstTransaction
  <2>2. CASE PlacesHold(r, o, k, Rows(o))
    BY <2>2, PlacesHoldKeepsInv
  <2>3. CASE JoinsHold(r, o, k, Rows(o))
    BY <2>3, JoinsHoldKeepsInv
  <2>4. CASE Asks(r, o, k) /\ \E a \in Answers : AnswersAtOnce(r, a)
    BY <2>4, AtOnceKeepsInv
  <2> QED  BY <2>1, <2>2, <2>3, <2>4 DEF OrderNotFound, AlreadyIssued, KeyConflict,
             BalanceTooLow, KeyTaken, Arrives, Answers
<1> QED  BY <1>1, <1>2, ProviderIssuesKeepsInv, ProviderRejectsKeepsInv, CallTimesOutKeepsInv,
            CapturesHoldKeepsInv, ReleasesHoldKeepsInv, HandlerLostKeepsInv DEF Next

(* IssueInv holds in every reachable state.                                *)
THEOREM IssueInvariance == Spec => []IssueInv
BY InitIssueInv, StepKeepsInv, PTL DEF Spec

(* Every variable keeps its type; in particular no balance goes below 0.   *)
THEOREM TypeCorrect == Spec => []TypeOK
<1>1. IssueInv => TypeOK  BY DEF IssueInv
<1> QED  BY <1>1, IssueInvariance, PTL

(* An order and its balance transaction always tell the same story.        *)
THEOREM StatusFollowsPayment == Spec => []StatusMatchesPayment
<1>1. IssueInv => StatusMatchesPayment  BY DEF IssueInv
<1> QED  BY <1>1, IssueInvariance, PTL

(* An issued order carries a ticket the provider issued for it.            *)
THEOREM TicketBelongs == Spec => []TicketIsForTheOrder
<1>1. IssueInv => TicketIsForTheOrder  BY DEF IssueInv
<1> QED  BY <1>1, IssueInvariance, PTL

(* Retries, timeouts and lost handlers never buy a second ticket.          *)
THEOREM SingleTicket == Spec => []OneTicketPerOrder
<1>1. IssueInv => OneTicketPerOrder
  BY ConstantsOK DEF IssueInv, TypeOK, TicketsFollowKeys, OneTicketPerOrder
<1> QED  BY <1>1, IssueInvariance, PTL

(* Money on hold has a handler, or had one that was lost.                  *)
THEOREM HoldIsHandled == Spec => []HoldHasAHandler
<1>1. IssueInv => HoldHasAHandler  BY DEF IssueInv
<1> QED  BY <1>1, IssueInvariance, PTL

(* An issued order stays issued, with its ticket and payment.              *)
LEMMA TicketStays ==
  ASSUME IssueInv, Next, NEW o \in Orders, TicketAvailable(o)
  PROVE  TicketAvailable(o)' /\ UNCHANGED <<ticketNo[o], payment[o]>>
<1> USE DEF IssueInv, TypeOK, StatusMatchesPayment, TicketAvailable
<1>1. UNCHANGED <<status, ticketNo, payment>>
      => TicketAvailable(o)' /\ UNCHANGED <<ticketNo[o], payment[o]>>
  OBVIOUS
<1>2. ASSUME NEW r \in Requests, IssueStarts(r)
      PROVE  TicketAvailable(o)' /\ UNCHANGED <<ticketNo[o], payment[o]>>
  BY <1>2, <1>1 DEF IssueStarts, FirstTransaction, OrderNotFound, AlreadyIssued, KeyConflict, BalanceTooLow,
     KeyTaken, AnswersAtOnce, database, PlacesHold, JoinsHold, StartsCall, SetStatus
<1>3. ASSUME NEW r \in Requests, CapturesHold(r, Rows(orderOf[r]))
      PROVE  TicketAvailable(o)' /\ UNCHANGED <<ticketNo[o], payment[o]>>
  BY <1>3 DEF CapturesHold, Capturable, SetStatus
<1>4. ASSUME NEW r \in Requests, ReleasesHold(r, Rows(orderOf[r]))
      PROVE  TicketAvailable(o)' /\ UNCHANGED <<ticketNo[o], payment[o]>>
  BY <1>4 DEF ReleasesHold, Refundable, SetStatus
<1> QED  BY <1>1, <1>2, <1>3, <1>4 DEF Next, database, ProviderIssues, ProviderRejects,
            CallTimesOut, HandlerLost

(* No late failure, repeat or lost handler takes an issued ticket back.    *)
THEOREM IssuedStays == Spec => IssuedIsFinal
<1> DEFINE Stays == \A o \in Orders : TicketAvailable(o) =>
                      TicketAvailable(o)' /\ UNCHANGED <<ticketNo[o], payment[o]>>
<1>1. IssueInv /\ [Next]_vars => [Stays]_vars
  BY TicketStays
<1> QED  BY <1>1, IssueInvariance, PTL DEF Spec, IssuedIsFinal

(* Whoever has been told that the order is issued can get the ticket ...   *)
ToldIssued ==
  \A r \in Requests : answer[r] = "issued" => TicketAvailable(orderOf[r])

ToldInv ==
  \A r \in Requests : answer[r] = "issued" =>
    /\ pc[r] # "new" /\ orderOf[r] \in Orders
    /\ TicketAvailable(orderOf[r])

LEMMA StepKeepsTold ==
  ASSUME IssueInv, ToldInv, [Next]_vars
  PROVE  ToldInv'
<1> USE DEF IssueInv, TypeOK, ToldInv
<1>1. CASE UNCHANGED vars
  BY <1>1 DEF vars, database, asked, TicketAvailable
<1>2. ASSUME Next, NEW r \in Requests, answer[r] = "issued", UNCHANGED <<answer[r], orderOf[r]>>, pc'[r] # "new"
      PROVE  pc'[r] # "new" /\ orderOf'[r] \in Orders /\ TicketAvailable(orderOf[r])'
  BY <1>2, TicketStays DEF TicketAvailable
<1>3. ASSUME NEW r \in Requests, IssueStarts(r)
      PROVE  ToldInv'
  <2>1. PICK o \in Orders, k \in Keys :
          (\E a \in Agents : OrderNotFound(r, a, o, k)) \/ FirstTransaction(r, o, k, Rows(o))
    BY <1>3 DEF IssueStarts
  <2>2. /\ pc[r] = "new" /\ orderOf'[r] = o
        /\ pc' = [pc EXCEPT ![r] = "answered"] \/ pc' = [pc EXCEPT ![r] = "calling"]
        /\ \A q \in Requests \ {r} : UNCHANGED <<answer[q], orderOf[q]>>
    BY <2>1 DEF FirstTransaction, OrderNotFound, AlreadyIssued, KeyConflict, BalanceTooLow, KeyTaken,
       AnswersAtOnce, PlacesHold, JoinsHold, StartsCall, Arrives, Asks
  <2>3. answer'[r] = "issued" => answer[r] = "issued" \/ AlreadyIssued(r, o, k, Rows(o))
    BY <2>1 DEF FirstTransaction, OrderNotFound, KeyConflict, BalanceTooLow, KeyTaken,
       AnswersAtOnce, PlacesHold, JoinsHold, StartsCall
  <2>4. AlreadyIssued(r, o, k, Rows(o)) => TicketAvailable(o)'
    BY ConstantsOK DEF AlreadyIssued, AnswersAtOnce, database, TicketAvailable, TicketIsForTheOrder, ConstantsOK
  <2>5. ASSUME NEW q \in Requests \ {r}, answer'[q] = "issued"
        PROVE  pc'[q] # "new" /\ orderOf'[q] \in Orders /\ TicketAvailable(orderOf[q])'
    BY <1>2, <1>3, <2>2, <2>5 DEF Next
  <2> QED  BY <2>2, <2>3, <2>4, <2>5 DEF TicketAvailable
<1>4. ASSUME NEW r \in Requests, CapturesHold(r, Rows(orderOf[r]))
      PROVE  ToldInv'
  <2>1. orderOf[r] \in Orders /\ keyOf[r] \in Keys
    BY <1>4 DEF CapturesHold, CallsCarryKey, InFlight
  <2>2. TicketAvailable(orderOf[r])' /\ pc'[r] = "done" /\ UNCHANGED orderOf
    BY <1>4, <2>1, ConstantsOK DEF CapturesHold, Capturable, SetStatus, asked, TicketAvailable,
       TicketIsForTheOrder, ConstantsOK
  <2>3. ASSUME NEW q \in Requests \ {r}, answer'[q] = "issued"
        PROVE  pc'[q] # "new" /\ orderOf'[q] \in Orders /\ TicketAvailable(orderOf[q])'
    <3>1. UNCHANGED <<answer[q], pc[q], orderOf[q]>>
      BY <1>4, <2>2 DEF CapturesHold
    <3> QED  BY <1>2, <1>4, <2>3, <3>1 DEF Next
  <2> QED  BY <2>1, <2>2, <2>3 DEF TicketAvailable
<1>5. ASSUME NEW r \in Requests, \/ ProviderIssues(r) \/ ProviderRejects(r) \/ CallTimesOut(r)
                                \/ HandlerLost(r) \/ ReleasesHold(r, Rows(orderOf[r]))
      PROVE  ToldInv'
  <2>1. \E p \in Places \ {"new"} : pc' = [pc EXCEPT ![r] = p] \/ UNCHANGED pc
    BY <1>5 DEF ProviderIssues, ProviderRejects, CallTimesOut, HandlerLost, ReleasesHold, Places
  <2>2. UNCHANGED orderOf /\ \A q \in Requests : answer'[q] = answer[q] \/ answer'[q] # "issued"
    BY <1>5 DEF ProviderIssues, ProviderRejects, CallTimesOut, HandlerLost, ReleasesHold, asked
  <2>3. Next
    BY <1>5 DEF Next
  <2> QED  BY <1>2, <2>1, <2>2, <2>3
<1> QED  BY <1>1, <1>3, <1>4, <1>5 DEF Next

(* ... and by IssuedIsFinal can ever after: the answer is kept, whatever   *)
(* other requests of the order are still to fail, expire or get lost.      *)
THEOREM AnswerIsKept == Spec => []ToldIssued
<1>1. Init => ToldInv
  BY DEF Init, ToldInv
<1>2. IssueInv /\ ToldInv /\ [Next]_vars => ToldInv'
  BY StepKeepsTold
<1>3. ToldInv => ToldIssued
  BY DEF ToldInv, ToldIssued
<1> QED  BY <1>1, <1>2, <1>3, IssueInvariance, PTL DEF Spec
-----------------------------------------------------------------------------
(* The audit trail, which is never empty.                                  *)
TrailInv == TrailIsLinked /\ \A o \in Orders : Len(trail[o]) >= 1

LEMMA SetStatusLinks ==
  ASSUME TypeOK, TrailInv, NEW o \in Orders, NEW s \in Statuses, SetStatus(o, status[o], s)
  PROVE  TrailInv'
<1> DEFINE row == [before |-> status[o], after |-> s]
<1>1. trail[o] \in Seq(Transitions) /\ row \in Transitions
  BY DEF TypeOK, Transitions
<1>2. status'[o] = s /\ trail'[o] = Append(trail[o], row)
  BY DEF SetStatus, AuditRow, TypeOK
<1>3. \A p \in Orders \ {o} : UNCHANGED <<status[p], trail[p]>>
  BY DEF SetStatus, TypeOK
<1>4. /\ Len(trail'[o]) = Len(trail[o]) + 1
      /\ trail'[o][Len(trail[o]) + 1] = row
      /\ \A i \in 1..Len(trail[o]) : trail'[o][i] = trail[o][i]
  BY <1>1, <1>2
<1>5. Len(trail[o]) \in Nat /\ Len(trail[o]) >= 1
  BY <1>1 DEF TrailInv
<1>6. row.before = trail[o][Len(trail[o])].after /\ row.after = status'[o]
  BY <1>2 DEF TrailInv, TrailIsLinked
<1>7. /\ trail'[o][Len(trail'[o])].after = status'[o]
      /\ \A i \in 2..Len(trail'[o]) : trail'[o][i].before = trail'[o][i-1].after
  <2>1. trail'[o][Len(trail'[o])].after = status'[o]
    BY <1>4, <1>6
  <2>2. ASSUME NEW i \in 2..Len(trail'[o])
        PROVE  trail'[o][i].before = trail'[o][i-1].after
    <3>1. CASE i = Len(trail[o]) + 1
      BY <3>1, <1>4, <1>5, <1>6
    <3>2. CASE i \in 2..Len(trail[o])
      <4>1. i \in 1..Len(trail[o]) /\ i - 1 \in 1..Len(trail[o])
        BY <3>2, <1>5
      <4>2. trail[o][i].before = trail[o][i-1].after
        BY <3>2 DEF TrailInv, TrailIsLinked
      <4> QED  BY <4>1, <4>2, <1>4
    <3> QED  BY <3>1, <3>2, <1>4, <1>5
  <2> QED  BY <2>1, <2>2
<1>8. Len(trail'[o]) >= 1
  BY <1>4, <1>5
<1>9. ASSUME NEW p \in Orders \ {o}
      PROVE  /\ trail'[p][Len(trail'[p])].after = status'[p]
             /\ \A i \in 2..Len(trail'[p]) : trail'[p][i].before = trail'[p][i-1].after
             /\ Len(trail'[p]) >= 1
  <2>1. status'[p] = status[p] /\ trail'[p] = trail[p]
    BY <1>3
  <2> QED  BY <2>1 DEF TrailInv, TrailIsLinked
<1> HIDE DEF row
<1> QED  BY <1>7, <1>8, <1>9 DEF TrailInv, TrailIsLinked

(* Each recorded transition starts where the one before it ended.          *)
THEOREM TrailLinks == Spec => []TrailIsLinked
<1>1. Init => TrailInv
  BY DEF Init, TrailInv, TrailIsLinked
<1>2. IssueInv /\ TrailInv /\ [Next]_vars => TrailInv'
  <2> SUFFICES ASSUME IssueInv, TrailInv, [Next]_vars PROVE TrailInv'
    OBVIOUS
  <2>1. CASE UNCHANGED <<status, trail>>
    BY <2>1 DEF TrailInv, TrailIsLinked
  <2>2. CASE \E o \in Orders, s \in Statuses : SetStatus(o, status[o], s)
    BY <2>2, SetStatusLinks DEF IssueInv
  <2>3. ASSUME NEW r \in Requests, IssueStarts(r)
        PROVE  UNCHANGED <<status, trail>> \/ \E o \in Orders, s \in Statuses : SetStatus(o, status[o], s)
    BY <2>3 DEF IssueStarts, FirstTransaction, OrderNotFound, AlreadyIssued, KeyConflict, BalanceTooLow,
       KeyTaken, AnswersAtOnce, database, PlacesHold, JoinsHold, StartsCall, Statuses
  <2>4. ASSUME NEW r \in Requests, CapturesHold(r, Rows(orderOf[r])) \/ ReleasesHold(r, Rows(orderOf[r]))
        PROVE  UNCHANGED <<status, trail>> \/ \E o \in Orders, s \in Statuses : SetStatus(o, status[o], s)
    <3>1. orderOf[r] \in Orders
      BY <2>4 DEF IssueInv, CallsCarryKey, InFlight, CapturesHold, ReleasesHold
    <3> QED  BY <2>4, <3>1 DEF CapturesHold, ReleasesHold, Statuses
  <2> QED  BY <2>1, <2>2, <2>3, <2>4 DEF Next, vars, database, ProviderIssues, ProviderRejects,
             CallTimesOut, HandlerLost
<1>3. TrailInv => TrailIsLinked
  BY DEF TrailInv
<1> QED  BY <1>1, <1>2, <1>3, IssueInvariance, PTL DEF Spec
-----------------------------------------------------------------------------
(* An order of a patient agent has one handler at a time.                  *)
LEMMA OneHandlerStep ==
  ASSUME IssueInv, OneHandler, [Next]_vars
  PROVE  OneHandler'
<1> USE DEF IssueInv, TypeOK, OneHandler, InFlight, PatientOrders, Places
<1>1. CASE UNCHANGED <<payment, pc, orderOf>>
  BY <1>1
<1>2. ASSUME NEW r \in Requests, NEW o \in Orders, NEW k \in Keys,
             Asks(r, o, k), NEW a \in Answers, AnswersAtOnce(r, a)
      PROVE  OneHandler'
  BY <1>2 DEF Arrives, Asks, AnswersAtOnce, database
<1>3. ASSUME NEW r \in Requests, NEW o \in Orders, NEW k \in Keys,
             PlacesHold(r, o, k, Rows(o)) \/ JoinsHold(r, o, k, Rows(o))
      PROVE  OneHandler'
  <2>1. payment' \in [Orders -> Payments] /\ payment'[o] = "HELD"
    BY <1>3 DEF PlacesHold, JoinsHold, NeedsHold, StartsCall, StatusMatchesPayment, Payments
  <2>2. \A p \in Orders \ {o} : payment'[p] = payment[p]
    BY <1>3 DEF PlacesHold, JoinsHold
  <2>3. /\ pc' = [pc EXCEPT ![r] = "calling"] /\ orderOf' = [orderOf EXCEPT ![r] = o]
        /\ r \notin InFlight
        /\ Owner[o] \in Patient => \A q \in InFlight : orderOf[q] # o
    BY <1>3 DEF PlacesHold, JoinsHold, StartsCall, Arrives, Asks
  <2> QED  BY <2>1, <2>2, <2>3 DEF CallsCarryKey
<1>4. ASSUME NEW r \in InFlight, NEW p, pc' = [pc EXCEPT ![r] = p],
             UNCHANGED orderOf, \A o \in Orders \ {orderOf[r]} : UNCHANGED payment[o],
             p \notin {"calling", "ticketed", "failing"}
      PROVE  OneHandler'
  BY <1>4 DEF CallsCarryKey
<1>5. ASSUME NEW r \in Requests, CapturesHold(r, Rows(orderOf[r])) \/ ReleasesHold(r, Rows(orderOf[r]))
      PROVE  OneHandler'
  <2>1. r \in InFlight /\ pc' = [pc EXCEPT ![r] = "done"] /\ UNCHANGED orderOf
    BY <1>5 DEF CapturesHold, ReleasesHold, asked
  <2>2. \A o \in Orders \ {orderOf[r]} : UNCHANGED payment[o]
    BY <1>5 DEF CapturesHold, ReleasesHold
  <2> QED  BY <2>1, <2>2, <1>4
<1>6. ASSUME NEW r \in Requests, ProviderIssues(r) \/ ProviderRejects(r) \/ CallTimesOut(r)
      PROVE  OneHandler'
  BY <1>6 DEF ProviderIssues, ProviderRejects, CallTimesOut, Expirable, database, asked
<1>7. ASSUME NEW r \in Requests, HandlerLost(r)
      PROVE  OneHandler'
  BY <1>7, <1>4 DEF HandlerLost, database, asked
<1>8. ASSUME NEW r \in Requests, IssueStarts(r)
      PROVE  OneHandler'
  BY <1>8, <1>2, <1>3 DEF IssueStarts, FirstTransaction, OrderNotFound, AlreadyIssued, KeyConflict,
     BalanceTooLow, KeyTaken, Arrives, Answers
<1> QED  BY <1>1, <1>5, <1>6, <1>7, <1>8 DEF Next, vars, database, asked

(* What the ledger sees of the database. *)
balanceSeen == [a \in Patient |-> balance[a]]
paymentSeen == [o \in PatientOrders |-> payment[o]]

LEMMA LedgerSees ==
  ASSUME UNCHANGED <<balance, payment>>
  PROVE  UNCHANGED <<balanceSeen, paymentSeen>>
BY DEF balanceSeen, paymentSeen

(* Handlers of other agents' orders are out of the ledger's sight.         *)
LEMMA OthersUnseen ==
  ASSUME ConstantsOK, TypeOK, NEW o \in Orders \ PatientOrders,
         NEW b, NEW p,
         balance' = [balance EXCEPT ![Owner[o]] = b] \/ UNCHANGED balance,
         payment' = [payment EXCEPT ![o] = p] \/ UNCHANGED payment
  PROVE  UNCHANGED <<balanceSeen, paymentSeen>>
BY DEF balanceSeen, paymentSeen, PatientOrders, TypeOK, ConstantsOK

LEMMA HoldIsSeen ==
  ASSUME IssueInv, NEW r \in Requests, NEW o \in PatientOrders, NEW k \in Keys, PlacesHold(r, o, k, Rows(o))
  PROVE  Ledger!Hold(o)
BY ConstantsOK DEF PlacesHold, NeedsHold, Affordable, Ledger!Hold, PatientOrders, IssueInv, TypeOK

LEMMA CaptureIsSeen ==
  ASSUME IssueInv, OneHandler, NEW r \in Requests, CapturesHold(r, Rows(orderOf[r])),
         NEW o \in PatientOrders, orderOf[r] = o, Capturable(status[o])
  PROVE  Ledger!Capture(o)
BY DEF CapturesHold, OneHandler, InFlight, Ledger!Capture, PatientOrders, IssueInv, TypeOK

LEMMA ReleaseIsSeen ==
  ASSUME IssueInv, NEW r \in Requests, ReleasesHold(r, Rows(orderOf[r])),
         NEW o \in PatientOrders, orderOf[r] = o, Refundable(payment[o])
  PROVE  Ledger!Release(o)
BY ConstantsOK DEF ReleasesHold, Refundable, Ledger!Release, PatientOrders, IssueInv, TypeOK

(* A step of issue_order is a step of the ledger, or none.                 *)
LEMMA LedgerStep ==
  ASSUME IssueInv, OneHandler, [Next]_vars
  PROVE  [Ledger!Next]_<<balanceSeen, paymentSeen>>
<1> USE ConstantsOK DEF IssueInv
<1>1. CASE UNCHANGED <<balance, payment>>
  BY <1>1, LedgerSees
<1>2. ASSUME NEW r \in Requests, NEW o \in Orders, NEW k \in Keys, PlacesHold(r, o, k, Rows(o))
      PROVE  [Ledger!Next]_<<balanceSeen, paymentSeen>>
  <2>1. CASE o \in PatientOrders
    BY <2>1, <1>2, HoldIsSeen DEF Ledger!Next
  <2>2. CASE o \notin PatientOrders
    BY <2>2, <1>2, OthersUnseen DEF PlacesHold
  <2> QED  BY <2>1, <2>2
<1>3. \A r \in InFlight : orderOf[r] \in Orders
  BY DEF CallsCarryKey, InFlight
<1>4. ASSUME NEW r \in Requests, CapturesHold(r, Rows(orderOf[r])), Capturable(status[orderOf[r]])
      PROVE  [Ledger!Next]_<<balanceSeen, paymentSeen>>
  <2>1. orderOf[r] \in Orders
    BY <1>3, <1>4 DEF CapturesHold, InFlight
  <2>2. ASSUME NEW o \in PatientOrders, orderOf[r] = o
        PROVE  Ledger!Capture(o)
    BY <2>2, <1>4, CaptureIsSeen
  <2>3. CASE orderOf[r] \notin PatientOrders
    BY <2>1, <2>3, <1>4, OthersUnseen DEF CapturesHold
  <2> QED  BY <2>2, <2>3 DEF Ledger!Next
<1>5. ASSUME NEW r \in Requests, ReleasesHold(r, Rows(orderOf[r])), Refundable(payment[orderOf[r]])
      PROVE  [Ledger!Next]_<<balanceSeen, paymentSeen>>
  <2>1. orderOf[r] \in Orders
    BY <1>3, <1>5 DEF ReleasesHold, InFlight
  <2>2. ASSUME NEW o \in PatientOrders, orderOf[r] = o
        PROVE  Ledger!Release(o)
    BY <2>2, <1>5, ReleaseIsSeen
  <2>3. CASE orderOf[r] \notin PatientOrders
    BY <2>1, <2>3, <1>5, OthersUnseen DEF ReleasesHold
  <2> QED  BY <2>2, <2>3 DEF Ledger!Next
<1>6. ASSUME NEW r \in Requests, IssueStarts(r)
      PROVE  [Ledger!Next]_<<balanceSeen, paymentSeen>>
  BY <1>6, <1>1, <1>2 DEF IssueStarts, FirstTransaction, OrderNotFound, AlreadyIssued, KeyConflict,
     BalanceTooLow, KeyTaken, AnswersAtOnce, database, JoinsHold
<1>7. ASSUME NEW r \in Requests, CapturesHold(r, Rows(orderOf[r])) \/ ReleasesHold(r, Rows(orderOf[r]))
      PROVE  [Ledger!Next]_<<balanceSeen, paymentSeen>>
  <2>1. \/ CapturesHold(r, Rows(orderOf[r])) /\ Capturable(status[orderOf[r]])
        \/ ReleasesHold(r, Rows(orderOf[r])) /\ Refundable(payment[orderOf[r]])
        \/ UNCHANGED <<balance, payment>>
    BY <1>7 DEF CapturesHold, ReleasesHold
  <2> QED  BY <2>1, <1>1, <1>4, <1>5
<1> QED  BY <1>1, <1>6, <1>7 DEF Next, vars, database, ProviderIssues, ProviderRejects,
            CallTimesOut, HandlerLost

(* For the agents who do not overlap the requests of an order, issue_order *)
(* implements the hold, capture and release of the README: retries,        *)
(* timeouts, lost handlers and all that other agents do included, a        *)
(* captured order has been debited exactly once.                           *)
THEOREM LedgerRefined == Spec => LedgerSpec
<1>1. Init => OneHandler
  BY DEF Init, OneHandler, InFlight
<1>2. IssueInv /\ OneHandler /\ [Next]_vars => OneHandler'
  BY OneHandlerStep
<1>3. Init => Ledger!Init
  BY ConstantsOK DEF Init, Ledger!Init, PatientOrders
<1>4. IssueInv /\ OneHandler /\ [Next]_vars => [Ledger!Next]_<<balanceSeen, paymentSeen>>
  BY LedgerStep
<1> QED  BY <1>1, <1>2, <1>3, <1>4, IssueInvariance, PTL
         DEF Spec, LedgerSpec, Ledger!Spec, balanceSeen, paymentSeen
-----------------------------------------------------------------------------
(* A handler that reaches its last transaction asked for an order.         *)
LEMMA EndsAskedOrder ==
  ASSUME IssueInv, NEW r \in Requests, CapturesHold(r, Rows(orderOf[r])) \/ ReleasesHold(r, Rows(orderOf[r]))
  PROVE  orderOf[r] \in Orders
BY DEF IssueInv, CallsCarryKey, InFlight, CapturesHold, ReleasesHold

(* One balance moves by what the charge of one of its orders moves.        *)
MovesTogether(a) ==
  IF balance'[a] = balance[a]
    THEN \A o \in Orders : Owner[o] = a => Charge(o)' >= Charge(o)
    ELSE \E o \in Orders :
           /\ Owner[o] = a
           /\ balance[a] - balance'[a] = Charge(o)' - Charge(o)
           /\ \A p \in Orders \ {o} : UNCHANGED payment[p]

LEMMA UnmovedTogether ==
  ASSUME ConstantsOK, NEW a \in Agents, UNCHANGED <<balance, payment>>
  PROVE  MovesTogether(a)
BY DEF MovesTogether, Charge, ConstantsOK

(* Money and charges move together: the step form of "no double debit",    *)
(* for any number of overlapping requests.                                 *)
THEOREM BalancesFollow == Spec => BalanceFollowsCharges
<1>1. ASSUME IssueInv, Next, NEW a \in Agents
      PROVE  MovesTogether(a)
  <2> USE <1>1, ConstantsOK DEF IssueInv
  <2>1. ASSUME NEW r \in Requests, NEW o \in Orders, NEW k \in Keys, PlacesHold(r, o, k, Rows(o))
        PROVE  MovesTogether(a)
    <3>1. Charge(o) = 0 /\ Charge(o)' = Amount[o]
      BY <2>1 DEF PlacesHold, NeedsHold, Charge, TypeOK
    <3>2. /\ balance'[Owner[o]] = balance[Owner[o]] - Amount[o]
          /\ \A b \in Agents \ {Owner[o]} : UNCHANGED balance[b]
          /\ \A p \in Orders \ {o} : UNCHANGED payment[p]
      BY <2>1 DEF PlacesHold, TypeOK
    <3>3. /\ \A p \in Orders \ {o} : Charge(p)' = Charge(p)
          /\ \A p \in Orders : Charge(p) \in Nat /\ Charge(p)' \in Nat
          /\ balance[a] \in Int /\ Amount[o] \in Nat
      BY <3>2 DEF Charge, TypeOK
    <3>4. Charge(o)' >= Charge(o)
      BY <3>1, <3>3
    <3> QED  BY <3>1, <3>2, <3>3, <3>4 DEF MovesTogether
  <2>2. ASSUME NEW r \in Requests, CapturesHold(r, Rows(orderOf[r]))
        PROVE  MovesTogether(a)
    <3>1. UNCHANGED balance
      BY <2>2 DEF CapturesHold
    <3>2. \A p \in Orders : payment'[p] = payment[p] \/ payment'[p] = "CAPTURED"
      BY <2>2, EndsAskedOrder DEF CapturesHold, TypeOK
    <3>3. \A p \in Orders : Charge(p)' >= Charge(p)
      BY <3>2 DEF Charge
    <3> QED  BY <3>1, <3>3 DEF MovesTogether
  <2>3. ASSUME NEW r \in Requests, ReleasesHold(r, Rows(orderOf[r])), Refundable(payment[orderOf[r]])
        PROVE  MovesTogether(a)
    <3> SUFFICES ASSUME NEW o \in Orders, o = orderOf[r]
                 PROVE  MovesTogether(a)
      BY <2>3, EndsAskedOrder
    <3>1. Charge(o) = Amount[o] /\ Charge(o)' = 0
      BY <2>3 DEF ReleasesHold, Refundable, Charge, TypeOK
    <3>2. /\ balance'[Owner[o]] = balance[Owner[o]] + Amount[o]
          /\ \A b \in Agents \ {Owner[o]} : UNCHANGED balance[b]
          /\ \A p \in Orders \ {o} : UNCHANGED payment[p]
      BY <2>3 DEF ReleasesHold, Refundable, TypeOK
    <3>3. /\ \A p \in Orders \ {o} : Charge(p)' = Charge(p)
          /\ balance[a] \in Int /\ Amount[o] \in Nat
          /\ \A p \in Orders : Charge(p) \in Nat /\ Charge(p)' \in Nat
      BY <3>2 DEF Charge, TypeOK
    <3>4. CASE Owner[o] = a /\ Amount[o] # 0
      BY <3>1, <3>2, <3>3, <3>4 DEF MovesTogether
    <3>5. CASE Owner[o] = a /\ Amount[o] = 0
      BY <3>1, <3>2, <3>3, <3>5 DEF MovesTogether
    <3>6. CASE Owner[o] # a
      BY <3>2, <3>3, <3>6 DEF MovesTogether
    <3> QED  BY <3>4, <3>5, <3>6
  <2>4. UNCHANGED <<balance, payment>> => MovesTogether(a)
    BY UnmovedTogether
  <2>5. ASSUME NEW r \in Requests, IssueStarts(r)
        PROVE  MovesTogether(a)
    BY <2>5, <2>1, <2>4 DEF IssueStarts, FirstTransaction, OrderNotFound, AlreadyIssued, KeyConflict,
       BalanceTooLow, KeyTaken, AnswersAtOnce, database, JoinsHold
  <2>6. ASSUME NEW r \in Requests, ReleasesHold(r, Rows(orderOf[r]))
        PROVE  MovesTogether(a)
    BY <2>6, <2>3, <2>4 DEF ReleasesHold
  <2> QED  BY <2>2, <2>4, <2>5, <2>6 DEF Next, database, ProviderIssues, ProviderRejects,
             CallTimesOut, HandlerLost
<1>2. IssueInv /\ [Next]_vars => [\A a \in Agents : MovesTogether(a)]_vars
  BY <1>1
<1> QED  BY <1>2, IssueInvariance, PTL DEF Spec, BalanceFollowsCharges, MovesTogether
-----------------------------------------------------------------------------
(***************************************************************************)
(* No double debit, as a sum over the orders of an agent: the invariant    *)
(* that BalancesFollow is the step form of.                                *)
(***************************************************************************)

(* At the start nothing has been charged.                                  *)
LEMMA InitCharges ==
  ASSUME Init, NEW a \in Agents
  PROVE  Charges(a) = 0
<1> DEFINE S == {o \in Orders : Owner[o] = a}
           f == [o \in Orders |-> Charge(o)]
<1>1. IsFiniteSet(S)
  BY OrdersFinite, FS_Subset
<1>2. \A o \in S : f[o] = 0
  BY DEF Init, Charge
<1> HIDE DEF S, f
<1>3. SumFunctionOnSet(f, S) = 0
  BY <1>1, <1>2, SumOfZeros
<1> QED  BY <1>3 DEF Charges, S, f

(* What an agent is charged moves with the one order that moves.           *)
LEMMA ChargesMove ==
  ASSUME NEW a \in Agents, NEW o \in Orders, \A p \in Orders \ {o} : UNCHANGED payment[p]
  PROVE  /\ Charges(a) \in Int
         /\ Charges(a)' = Charges(a) + (IF Owner[o] = a THEN Charge(o)' - Charge(o) ELSE 0)
<1> DEFINE S == {p \in Orders : Owner[p] = a}
           f == [p \in Orders |-> Charge(p)]
           g == [p \in Orders |-> Charge(p)']
<1>1. IsFiniteSet(S)
  BY OrdersFinite, FS_Subset
<1>2. \A p \in S : f[p] \in Int /\ g[p] \in Int
  BY ConstantsOK DEF Charge, ConstantsOK
<1>3. \A p \in S \ {o} : f[p] = g[p]
  BY DEF Charge
<1>4. f[o] = Charge(o) /\ g[o] = Charge(o)' /\ (o \in S <=> Owner[o] = a)
  OBVIOUS
<1>5. Charges(a) = SumFunctionOnSet(f, S) /\ Charges(a)' = SumFunctionOnSet(g, S)
  BY DEF Charges
<1> HIDE DEF S, f, g
<1>6. /\ SumFunctionOnSet(f, S) \in Int
      /\ SumFunctionOnSet(g, S) = SumFunctionOnSet(f, S) + (IF o \in S THEN g[o] - f[o] ELSE 0)
  BY <1>1, <1>2, <1>3, SumMoves
<1> QED  BY <1>4, <1>5, <1>6

(* A step that touches order o alone costs its owner at most what is added *)
(* to the order's charge, and exactly that if the owner is patient.        *)
PaysFor(o) ==
  /\ \A p \in Orders \ {o} : UNCHANGED payment[p]
  /\ \A a \in Agents \ {Owner[o]} : UNCHANGED balance[a]
  /\ balance[Owner[o]] - balance'[Owner[o]] <= Charge(o)' - Charge(o)
  /\ o \in PatientOrders =>
       balance[Owner[o]] - balance'[Owner[o]] = Charge(o)' - Charge(o)

LEMMA StepPays ==
  ASSUME IssueInv, OneHandler, [Next]_vars
  PROVE  UNCHANGED <<balance, payment>> \/ \E o \in Orders : PaysFor(o)
<1> USE ConstantsOK DEF IssueInv
<1>1. ASSUME NEW r \in Requests, NEW o \in Orders, NEW k \in Keys, PlacesHold(r, o, k, Rows(o))
      PROVE  PaysFor(o)
  <2>1. Charge(o) = 0 /\ Charge(o)' = Amount[o]
    BY <1>1 DEF PlacesHold, NeedsHold, Charge, TypeOK
  <2>2. /\ balance'[Owner[o]] = balance[Owner[o]] - Amount[o]
        /\ \A b \in Agents \ {Owner[o]} : UNCHANGED balance[b]
        /\ \A p \in Orders \ {o} : UNCHANGED payment[p]
        /\ balance[Owner[o]] \in Int /\ Amount[o] \in Int
    BY <1>1 DEF PlacesHold, TypeOK
  <2> QED  BY <2>1, <2>2 DEF PaysFor
<1>2. ASSUME NEW r \in Requests, NEW o \in Orders, o = orderOf[r],
             CapturesHold(r, Rows(o)), Capturable(status[o])
      PROVE  PaysFor(o)
  <2>1. Charge(o)' = Amount[o] /\ Charge(o) \in {0, Amount[o]}
    BY <1>2 DEF CapturesHold, Charge, TypeOK
  <2>2. o \in PatientOrders => Charge(o) = Amount[o]
    BY <1>2 DEF CapturesHold, OneHandler, InFlight, Charge
  <2>3. /\ UNCHANGED balance
        /\ \A p \in Orders \ {o} : UNCHANGED payment[p]
        /\ balance[Owner[o]] \in Int /\ Amount[o] \in Nat
    BY <1>2 DEF CapturesHold, TypeOK
  <2> QED  BY <2>1, <2>2, <2>3 DEF PaysFor
<1>3. ASSUME NEW r \in Requests, NEW o \in Orders, o = orderOf[r],
             ReleasesHold(r, Rows(o)), Refundable(payment[o])
      PROVE  PaysFor(o)
  <2>1. Charge(o) = Amount[o] /\ Charge(o)' = 0
    BY <1>3 DEF ReleasesHold, Refundable, Charge, TypeOK
  <2>2. /\ balance'[Owner[o]] = balance[Owner[o]] + Amount[o]
        /\ \A b \in Agents \ {Owner[o]} : UNCHANGED balance[b]
        /\ \A p \in Orders \ {o} : UNCHANGED payment[p]
        /\ balance[Owner[o]] \in Int /\ Amount[o] \in Int
    BY <1>3 DEF ReleasesHold, Refundable, TypeOK
  <2> QED  BY <2>1, <2>2 DEF PaysFor
<1>4. ASSUME NEW r \in Requests, IssueStarts(r)
      PROVE  UNCHANGED <<balance, payment>> \/ \E o \in Orders : PaysFor(o)
  BY <1>4, <1>1 DEF IssueStarts, FirstTransaction, OrderNotFound, AlreadyIssued, KeyConflict,
     BalanceTooLow, KeyTaken, AnswersAtOnce, database, JoinsHold
<1>5. ASSUME NEW r \in Requests, CapturesHold(r, Rows(orderOf[r])) \/ ReleasesHold(r, Rows(orderOf[r]))
      PROVE  UNCHANGED <<balance, payment>> \/ \E o \in Orders : PaysFor(o)
  <2>1. orderOf[r] \in Orders
    BY <1>5, EndsAskedOrder
  <2>2. \/ CapturesHold(r, Rows(orderOf[r])) /\ Capturable(status[orderOf[r]])
        \/ ReleasesHold(r, Rows(orderOf[r])) /\ Refundable(payment[orderOf[r]])
        \/ UNCHANGED <<balance, payment>>
    BY <1>5 DEF CapturesHold, ReleasesHold
  <2> QED  BY <2>1, <2>2, <1>2, <1>3
<1> QED  BY <1>4, <1>5 DEF Next, vars, database, ProviderIssues, ProviderRejects,
            CallTimesOut, HandlerLost

(* Both directions of the books are kept by every step.                    *)
Books == NoDoubleDebit /\ PatientPay

LEMMA StepKeepsBooks ==
  ASSUME IssueInv, OneHandler, Books, [Next]_vars
  PROVE  Books'
<1>1. \A a \in Agents : balance[a] \in Int /\ Opening[a] \in Int
  BY ConstantsOK DEF IssueInv, TypeOK, ConstantsOK
<1>2. CASE UNCHANGED <<balance, payment>>
  <2>1. \A a \in Agents : Charges(a)' = Charges(a)
    BY <1>2 DEF Charges, Charge
  <2> QED  BY <1>2, <2>1, ConstantsOK DEF Books, NoDoubleDebit, PatientPay, Settled, ConstantsOK
<1>3. ASSUME NEW o \in Orders, PaysFor(o)
      PROVE  Books'
  <2>1. ASSUME NEW a \in Agents
        PROVE  /\ balance'[a] >= Opening[a] - Charges(a)'
               /\ a \in Patient => balance'[a] = Opening[a] - Charges(a)'
    <3>1. /\ Charges(a) \in Int
          /\ Charges(a)' = Charges(a) + (IF Owner[o] = a THEN Charge(o)' - Charge(o) ELSE 0)
      BY <1>3, ChargesMove DEF PaysFor
    <3>2. /\ balance[a] >= Opening[a] - Charges(a)
          /\ a \in Patient => balance[a] = Opening[a] - Charges(a)
      BY DEF Books, NoDoubleDebit, PatientPay, Settled
    <3>3. Charge(o) \in Int /\ Charge(o)' \in Int
      BY ConstantsOK DEF Charge, ConstantsOK
    <3>4. CASE Owner[o] = a
      <4>1. /\ balance[a] - balance'[a] <= Charge(o)' - Charge(o)
            /\ a \in Patient => balance[a] - balance'[a] = Charge(o)' - Charge(o)
        BY <1>3, <3>4 DEF PaysFor, PatientOrders
      <4>2. balance'[a] \in Int
        BY <2>1, StepKeepsInv DEF IssueInv, TypeOK
      <4> QED  BY <1>1, <3>1, <3>2, <3>3, <3>4, <4>1, <4>2
    <3>5. CASE Owner[o] # a
      BY <1>1, <1>3, <3>1, <3>2, <3>5 DEF PaysFor
    <3> QED  BY <3>4, <3>5
  <2> QED  BY <2>1, ConstantsOK DEF Books, NoDoubleDebit, PatientPay, Settled, ConstantsOK
<1> QED  BY <1>2, <1>3, StepPays
(* One handler per patient order, and the books, hold in every state.      *)
LEMMA BooksInvariant == Spec => [](OneHandler /\ Books)
<1>1. Init => OneHandler /\ Books
  <2> SUFFICES ASSUME Init PROVE OneHandler /\ Books
    OBVIOUS
  <2>1. \A a \in Agents : Charges(a) = 0 /\ balance[a] = Opening[a] /\ Opening[a] \in Nat
    BY InitCharges, ConstantsOK DEF Init, ConstantsOK
  <2> QED  BY <2>1, ConstantsOK DEF Init, OneHandler, InFlight, Books, NoDoubleDebit, PatientPay, Settled, ConstantsOK
<1>2. IssueInv /\ OneHandler /\ Books /\ [Next]_vars => OneHandler' /\ Books'
  BY OneHandlerStep, StepKeepsBooks
<1> QED  BY <1>1, <1>2, IssueInvariance, PTL DEF Spec

(* However many requests overlap, are retried, time out or get lost, an    *)
(* agent is never down by more than its held and captured orders cost.     *)
THEOREM NeverDebitedTwice == Spec => []NoDoubleDebit
<1>1. Books => NoDoubleDebit  BY DEF Books
<1> QED  BY <1>1, BooksInvariant, PTL

(* Whoever does not overlap the requests of an order has paid for every    *)
(* held and captured order exactly once, whatever the other agents do.     *)
THEOREM PatientAgentsPay == Spec => []PatientPay
<1>1. Books => PatientPay  BY DEF Books
<1> QED  BY <1>1, BooksInvariant, PTL

(* So if all agents do so, finding 1 cannot occur: everyone has paid.      *)
THEOREM AllPatientAllPay ==
  ASSUME Patient = Agents
  PROVE  Spec => []EveryonePays
<1>1. PatientPay => EveryonePays
  BY DEF PatientPay, EveryonePays
<1> QED  BY <1>1, PatientAgentsPay, PTL

(* A patient client that is told of a failure has its money back.          *)
THEOREM RefundedOnFailure == Spec => FailureRefunds
<1> DEFINE Refunded ==
      \A r \in Requests :
        answer[r] = "none" /\ answer'[r] = "provider_error" /\ orderOf[r] \in PatientOrders =>
          status'[orderOf[r]] = "BOOKED" /\ payment'[orderOf[r]] = "RELEASED"
<1>1. ASSUME IssueInv, OneHandler, Next
      PROVE  Refunded
  <2> USE <1>1 DEF IssueInv, TypeOK
  <2>1. ASSUME NEW r \in Requests, ReleasesHold(r, Rows(orderOf[r]))
        PROVE  Refunded
    <3>1. orderOf[r] \in Orders
      BY <2>1, EndsAskedOrder
    <3>2. orderOf[r] \in PatientOrders => Refundable(payment[orderOf[r]])
      BY <2>1 DEF ReleasesHold, OneHandler, InFlight, Refundable
    <3>3. orderOf[r] \in PatientOrders =>
            status'[orderOf[r]] = "BOOKED" /\ payment'[orderOf[r]] = "RELEASED"
      BY <2>1, <3>1, <3>2 DEF ReleasesHold, SetStatus
    <3>4. \A q \in Requests \ {r} : answer'[q] = answer[q]
      BY <2>1 DEF ReleasesHold
    <3> QED  BY <3>3, <3>4
  <2>2. ASSUME NEW r \in Requests, CapturesHold(r, Rows(orderOf[r]))
        PROVE  Refunded
    BY <2>2 DEF CapturesHold
  <2>3. ASSUME NEW r \in Requests, IssueStarts(r)
        PROVE  Refunded
    BY <2>3 DEF IssueStarts, FirstTransaction, OrderNotFound, AlreadyIssued, KeyConflict, BalanceTooLow,
       KeyTaken, AnswersAtOnce, PlacesHold, JoinsHold, StartsCall
  <2>4. UNCHANGED answer => Refunded
    OBVIOUS
  <2> QED  BY <2>1, <2>2, <2>3, <2>4 DEF Next, ProviderIssues, ProviderRejects, CallTimesOut, HandlerLost
<1>2. IssueInv /\ OneHandler /\ [Next]_vars => [Refunded]_vars
  BY <1>1
<1> QED  BY <1>2, IssueInvariance, BooksInvariant, PTL DEF Spec, FailureRefunds

(* Every provider call for an order of a patient agent is audited, unless  *)
(* its handler was lost.                                                   *)
THEOREM PatientCallsTraced == Spec => []PatientCallsAudited
<1>1. Init => PatientCallsAudited
  BY DEF Init, PatientCallsAudited
<1>2. ASSUME IssueInv, OneHandler, PatientCallsAudited, [Next]_vars
      PROVE  PatientCallsAudited'
  <2> USE <1>2 DEF IssueInv, TypeOK, PatientCallsAudited
  <2>1. ASSUME NEW r \in Requests, CapturesHold(r, Rows(orderOf[r])) \/ ReleasesHold(r, Rows(orderOf[r]))
        PROVE  PatientCallsAudited'
    <3>1. orderOf[r] \in Orders /\ UNCHANGED orderOf
      BY <2>1, EndsAskedOrder DEF CapturesHold, ReleasesHold, asked
    <3>2. orderOf[r] \in PatientOrders => payment[orderOf[r]] = "HELD"
      BY <2>1 DEF CapturesHold, ReleasesHold, OneHandler, InFlight
    <3>3. orderOf[r] \in PatientOrders => r \in audited'
      BY <2>1, <3>1, <3>2 DEF CapturesHold, ReleasesHold, Capturable, Refundable, StatusMatchesPayment
    <3>4. audited \subseteq audited' /\ \A q \in Requests \ {r} : pc'[q] = pc[q]
      BY <2>1 DEF CapturesHold, ReleasesHold
    <3> QED  BY <3>1, <3>3, <3>4 DEF PatientOrders
  <2>2. ASSUME NEW r \in Requests, NEW p \in Places \ {"done"}, pc' = [pc EXCEPT ![r] = p] \/ UNCHANGED pc,
               UNCHANGED audited, \A q \in Requests : pc[q] # "new" => orderOf'[q] = orderOf[q],
               pc[r] = "done" => UNCHANGED pc
        PROVE  PatientCallsAudited'
    BY <2>2 DEF PatientOrders
  <2>3. ASSUME NEW r \in Requests, IssueStarts(r)
        PROVE  PatientCallsAudited'
    <3>1. PICK o \in Orders, k \in Keys :
            (\E a \in Agents : OrderNotFound(r, a, o, k)) \/ FirstTransaction(r, o, k, Rows(o))
      BY <2>3 DEF IssueStarts
    <3>2. /\ pc[r] = "new"
          /\ orderOf' = [orderOf EXCEPT ![r] = o]
          /\ UNCHANGED audited
          /\ pc' = [pc EXCEPT ![r] = "answered"] \/ pc' = [pc EXCEPT ![r] = "calling"]
      BY <3>1 DEF FirstTransaction, OrderNotFound, AlreadyIssued, KeyConflict, BalanceTooLow, KeyTaken,
         AnswersAtOnce, PlacesHold, JoinsHold, StartsCall, Arrives, Asks, database
    <3> QED  BY <3>2 DEF PatientOrders
  <2>4. ASSUME NEW r \in Requests,
               ProviderIssues(r) \/ ProviderRejects(r) \/ CallTimesOut(r) \/ HandlerLost(r)
        PROVE  PatientCallsAudited'
    BY <2>4, <2>2 DEF ProviderIssues, ProviderRejects, CallTimesOut, HandlerLost, Expirable, InFlight,
       asked, database, Places
  <2> QED  BY <2>1, <2>3, <2>4 DEF Next, vars, database, asked, PatientOrders
<1> QED  BY <1>1, <1>2, IssueInvariance, BooksInvariant, PTL DEF Spec
=============================================================================
