---------------------------- MODULE TicketIssue ----------------------------
(***************************************************************************)
(* BookingService.issue_order: an agent asks for the ticket of an order,   *)
(* the amount is held on the balance, the airline provider is called with  *)
(* the database transaction closed, and the hold is captured or released.  *)
(*                                                                         *)
(* A handler is three steps that other handlers interleave with: the       *)
(* transaction that starts the issue, the provider's answer, and the       *)
(* transaction that ends it.  Each transaction locks the order row, then   *)
(* the agent row, then the balance transaction (SELECT ... FOR UPDATE on   *)
(* PostgreSQL), so it is one atomic step here.                             *)
(***************************************************************************)
EXTENDS Integers, Sequences, FiniteSets, Functions

CONSTANTS Agents, Orders,
          Keys,              \* values of the Idempotency-Key header
          Requests,          \* the POST .../issue requests, each served once
          Owner,             \* orders.agent_id
          Amount,            \* orders.amount
          Opening,           \* agents.balance before any issue
          NoKey, NoOrder,    \* SQL NULL
          ProviderIsRemote,  \* TRUE: giving up on a call does not undo it
          Patient            \* agents who ask again for an order only once they were answered

ASSUME ConstantsOK ==
  /\ Owner \in [Orders -> Agents]
  /\ Amount \in [Orders -> Nat]
  /\ Opening \in [Agents -> Nat]
  /\ NoKey \notin Keys
  /\ NoOrder \notin Orders
  /\ ProviderIsRemote \in BOOLEAN
  /\ Patient \in SUBSET Agents

(* A table has finitely many rows, so that what they cost can be summed.   *)
ASSUME OrdersFinite == IsFiniteSet(Orders)

VARIABLES
  balance,    \* agents.balance
  status,     \* orders.status
  issueKey,   \* orders.issue_idempotency_key
  ticketNo,   \* orders.ticket_number: the key under which the provider issued it
  payment,    \* balance_transactions.status of the order, "NONE" when no row
  payKey,     \* balance_transactions.idempotency_key
  trail,      \* the status-change rows of audit_logs, per order
  audited,    \* requests whose provider call left a row in audit_logs
  pc,         \* where the handler of each request stands
  orderOf, keyOf, answer,   \* what each request asked for and was told
  pending,    \* calls the provider has received and not yet processed
  ticketFor   \* the provider's memory: the order whose ticket a key bought

database == <<balance, status, issueKey, ticketNo, payment, payKey, trail, audited>>
asked == <<orderOf, keyOf>>
provider == <<pending, ticketFor>>
vars == <<database, asked, pc, answer, provider>>

Statuses == {"BOOKED", "ISSUING", "ISSUED"}
Transitions == [before : Statuses \cup {"NONE"}, after : Statuses]
Payments == {"NONE", "HELD", "CAPTURED", "RELEASED"}
Answers  == {"none", "issued", "not_found", "conflict", "insufficient_balance",
             "server_error", "provider_error"}
Places   == {"new", "calling", "ticketed", "failing", "done", "answered", "lost"}

TypeOK ==
  /\ balance \in [Agents -> Nat]
  /\ status \in [Orders -> Statuses]
  /\ issueKey \in [Orders -> Keys \cup {NoKey}]
  /\ ticketNo \in [Orders -> Keys \cup {NoKey}]
  /\ payment \in [Orders -> Payments]
  /\ payKey \in [Orders -> Keys \cup {NoKey}]
  /\ trail \in [Orders -> Seq(Transitions)]
  /\ audited \in SUBSET Requests
  /\ pc \in [Requests -> Places]
  /\ orderOf \in [Requests -> Orders \cup {NoOrder}]
  /\ keyOf \in [Requests -> Keys \cup {NoKey}]
  /\ answer \in [Requests -> Answers]
  /\ pending \in SUBSET Requests
  /\ ticketFor \in [Keys -> Orders \cup {NoOrder}]

(* Every order is as create_order leaves it: BOOKED, with one audit row. *)
Init ==
  /\ balance = Opening
  /\ status = [o \in Orders |-> "BOOKED"]
  /\ issueKey = [o \in Orders |-> NoKey]
  /\ ticketNo = [o \in Orders |-> NoKey]
  /\ payment = [o \in Orders |-> "NONE"]
  /\ payKey = [o \in Orders |-> NoKey]
  /\ trail = [o \in Orders |-> << [before |-> "NONE", after |-> "BOOKED"] >>]
  /\ audited = {}
  /\ pc = [r \in Requests |-> "new"]
  /\ orderOf = [r \in Requests |-> NoOrder]
  /\ keyOf = [r \in Requests |-> NoKey]
  /\ answer = [r \in Requests |-> "none"]
  /\ pending = {}
  /\ ticketFor = [k \in Keys |-> NoOrder]

InFlight == {r \in Requests : pc[r] \in {"calling", "ticketed", "failing"}}
-----------------------------------------------------------------------------
(* The conditions of the first transaction. *)

(* What a transaction decides from: the order row, and the balance and the *)
(* payment that go with it, as a transaction that has locked them reads    *)
(* them.  IssueTransactions reads them one by one.                         *)
Rows(o) == [status |-> status[o], key |-> issueKey[o],
            balance |-> balance[Owner[o]], payment |-> payment[o]]

(* Mutant: the key of an earlier issue is not compared. *)
AnyKeyAccepted(stored, k) == TRUE

(* The key of an order is fixed by its first issue and never cleared. *)
KeyAccepted(stored, k) == stored \in {NoKey, k}

(* Mutant: the keys are not UNIQUE. *)
KeyShared(o, k) == TRUE

(* The UNIQUE constraints on orders.issue_idempotency_key and on           *)
(* balance_transactions.idempotency_key, both checked at commit.           *)
KeyFree(o, k) == \A p \in Orders \ {o} : issueKey[p] # k /\ payKey[p] # k

(* Mutants: a released hold is not placed again; a hold is placed twice. *)
NeedsFirstHold(p) == p = "NONE"

NeedsHoldAgain(p) == p # "CAPTURED"

(* A hold is placed when there was none, or when it has been released. *)
NeedsHold(p) == p \in {"NONE", "RELEASED"}

(* Mutant: the balance is not compared with the amount. *)
OnCredit(b, o) == TRUE

Affordable(b, o) == b >= Amount[o]

(* Mutant: the audit takes the status the order was created with. *)
AuditFromBooked(b, s) == [before |-> "BOOKED", after |-> s]

AuditRow(b, s) == [before |-> b, after |-> s]

(* before = order.status; order.status = s; add_status_audit(...) *)
SetStatus(o, b, s) ==
  /\ status' = [status EXCEPT ![o] = s]
  /\ trail' = [trail EXCEPT ![o] = Append(@, AuditRow(b, s))]

(* Request r asks for order o with key k. *)
Asks(r, o, k) ==
  /\ pc[r] = "new"
  /\ orderOf' = [orderOf EXCEPT ![r] = o]
  /\ keyOf' = [keyOf EXCEPT ![r] = k]

(* It is the owner who asks. *)
Arrives(r, o, k) ==
  /\ Owner[o] \in Patient => \A q \in InFlight : orderOf[q] # o
  /\ Asks(r, o, k)

(* The handler answers without having called the provider. *)
AnswersAtOnce(r, a) ==
  /\ pc' = [pc EXCEPT ![r] = "answered"]
  /\ answer' = [answer EXCEPT ![r] = a]
  /\ UNCHANGED <<database, provider>>
-----------------------------------------------------------------------------
(* The first transaction of issue_order, after it has read the rows x: one *)
(* action per way it can end.                                              *)

(* The order is looked up by id and by the caller: another's order is 404. *)
OrderNotFound(r, a, o, k) ==
  /\ Asks(r, o, k)
  /\ Owner[o] # a
  /\ AnswersAtOnce(r, "not_found")

AlreadyIssued(r, o, k, x) ==
  /\ Arrives(r, o, k)
  /\ x.status = "ISSUED"
  /\ AnswersAtOnce(r, "issued")

KeyConflict(r, o, k, x) ==
  /\ Arrives(r, o, k)
  /\ x.status # "ISSUED"
  /\ ~ KeyAccepted(x.key, k)
  /\ AnswersAtOnce(r, "conflict")

BalanceTooLow(r, o, k, x) ==
  /\ Arrives(r, o, k)
  /\ x.status # "ISSUED" /\ KeyAccepted(x.key, k)
  /\ NeedsHold(x.payment) /\ ~ Affordable(x.balance, o)
  /\ AnswersAtOnce(r, "insufficient_balance")

(* The commit fails on a UNIQUE constraint and nothing is written. *)
KeyTaken(r, o, k, x) ==
  /\ Arrives(r, o, k)
  /\ x.status # "ISSUED" /\ KeyAccepted(x.key, k)
  /\ NeedsHold(x.payment) /\ Affordable(x.balance, o) /\ ~ KeyFree(o, k)
  /\ AnswersAtOnce(r, "server_error")

(* What both successful ends share: the order is ISSUING under key k and   *)
(* the provider is called once the transaction is committed.               *)
StartsCall(r, o, k, x) ==
  /\ Arrives(r, o, k)
  /\ x.status # "ISSUED" /\ KeyAccepted(x.key, k)
  /\ SetStatus(o, x.status, "ISSUING")
  /\ issueKey' = [issueKey EXCEPT ![o] = k]
  /\ pc' = [pc EXCEPT ![r] = "calling"]
  /\ pending' = pending \cup {r}
  /\ UNCHANGED <<ticketNo, audited, answer, ticketFor>>

PlacesHold(r, o, k, x) ==
  /\ NeedsHold(x.payment) /\ Affordable(x.balance, o) /\ KeyFree(o, k)
  /\ StartsCall(r, o, k, x)
  /\ balance' = [balance EXCEPT ![Owner[o]] = x.balance - Amount[o]]
  /\ payment' = [payment EXCEPT ![o] = "HELD"]
  /\ payKey' = [payKey EXCEPT ![o] = IF x.payment = "NONE" THEN k ELSE @]

(* A retry, or a second request, finds the amount already held. *)
JoinsHold(r, o, k, x) ==
  /\ ~ NeedsHold(x.payment)
  /\ StartsCall(r, o, k, x)
  /\ UNCHANGED <<balance, payment, payKey>>

FirstTransaction(r, o, k, x) ==
  \/ AlreadyIssued(r, o, k, x)
  \/ KeyConflict(r, o, k, x)
  \/ BalanceTooLow(r, o, k, x)
  \/ KeyTaken(r, o, k, x)
  \/ PlacesHold(r, o, k, x)
  \/ JoinsHold(r, o, k, x)
-----------------------------------------------------------------------------
(* The provider, called with no transaction open. *)

(* Giving up on the call aborts it when the provider runs in-process. *)
Abandons(r) == pending' = IF ProviderIsRemote THEN pending ELSE pending \ {r}

(* The provider keeps one ticket per key and returns it to every repeat. *)
ProviderIssues(r) ==
  /\ r \in pending
  /\ pending' = pending \ {r}
  /\ ticketFor' = [ticketFor EXCEPT ![keyOf[r]] = IF @ = NoOrder THEN orderOf[r] ELSE @]
  /\ pc' = IF pc[r] = "calling" THEN [pc EXCEPT ![r] = "ticketed"] ELSE pc
  /\ UNCHANGED <<database, asked, answer>>

ProviderRejects(r) ==
  /\ r \in pending
  /\ pending' = pending \ {r}
  /\ pc' = IF pc[r] = "calling" THEN [pc EXCEPT ![r] = "failing"] ELSE pc
  /\ UNCHANGED <<database, asked, answer, ticketFor>>

(* Mutant: the provider is called without wait_for. *)
NeverExpires(r) == FALSE

(* asyncio.wait_for gives up; a remote provider may have issued already. *)
Expirable(r) == pc[r] = "calling" \/ (ProviderIsRemote /\ pc[r] = "ticketed")

CallTimesOut(r) ==
  /\ Expirable(r)
  /\ pc' = [pc EXCEPT ![r] = "failing"]
  /\ Abandons(r)
  /\ UNCHANGED <<database, asked, answer, ticketFor>>
-----------------------------------------------------------------------------
(* The transaction that ends the issue, after it has read the rows x. *)

(* The ticket is stored and the payment captured unless the order is       *)
(* ISSUED already; the state of the payment itself is not looked at.       *)
Capturable(s) == s # "ISSUED"

CapturesHold(r, x) ==
  /\ pc[r] = "ticketed"
  /\ pc' = [pc EXCEPT ![r] = "done"]
  /\ answer' = [answer EXCEPT ![r] = "issued"]
  /\ LET o == orderOf[r] IN
       \/ /\ Capturable(x.status)
          /\ SetStatus(o, x.status, "ISSUED")
          /\ ticketNo' = [ticketNo EXCEPT ![o] = keyOf[r]]
          /\ payment' = [payment EXCEPT ![o] = "CAPTURED"]
          /\ audited' = audited \cup {r}
       \/ /\ ~ Capturable(x.status)
          /\ UNCHANGED <<status, trail, ticketNo, payment, audited>>
  /\ UNCHANGED <<balance, issueKey, payKey, asked, provider>>

(* Mutants: the wrong status is compared; no status is compared. *)
RefundsReleased(p) == p = "RELEASED"

RefundsAlways(p) == TRUE

(* _release_hold: nothing is given back unless the payment is still HELD. *)
Refundable(p) == p = "HELD"

ReleasesHold(r, x) ==
  /\ pc[r] = "failing"
  /\ pc' = [pc EXCEPT ![r] = "done"]
  /\ answer' = [answer EXCEPT ![r] = "provider_error"]
  /\ LET o == orderOf[r] IN
       \/ /\ Refundable(x.payment)
          /\ balance' = [balance EXCEPT ![Owner[o]] = x.balance + Amount[o]]
          /\ payment' = [payment EXCEPT ![o] = "RELEASED"]
          /\ SetStatus(o, x.status, "BOOKED")
          /\ audited' = audited \cup {r}
       \/ /\ ~ Refundable(x.payment)
          /\ UNCHANGED <<balance, payment, status, trail, audited>>
  /\ UNCHANGED <<issueKey, ticketNo, payKey, asked, provider>>

(* The handler dies between its transactions: the process stops, the task  *)
(* is cancelled (no except clause sees CancelledError), or the database is *)
(* unreachable when the last transaction should run.                       *)
HandlerLost(r) ==
  /\ r \in InFlight
  /\ pc' = [pc EXCEPT ![r] = "lost"]
  /\ Abandons(r)
  /\ UNCHANGED <<database, asked, answer, ticketFor>>
-----------------------------------------------------------------------------
IssueStarts(r) ==
  \E o \in Orders, k \in Keys :
    \/ \E a \in Agents : OrderNotFound(r, a, o, k)
    \/ FirstTransaction(r, o, k, Rows(o))

Next ==
  \E r \in Requests :
    \/ IssueStarts(r)
    \/ ProviderIssues(r)
    \/ ProviderRejects(r)
    \/ CallTimesOut(r)
    \/ CapturesHold(r, Rows(orderOf[r]))
    \/ ReleasesHold(r, Rows(orderOf[r]))
    \/ HandlerLost(r)

Spec == Init /\ [][Next]_vars
-----------------------------------------------------------------------------
(* What the money, the order and the provider must agree on. *)

(* What order o has cost its owner, as the database records it. *)
Charge(o) == IF payment[o] \in {"HELD", "CAPTURED"} THEN Amount[o] ELSE 0

Charges(a) == SumFunctionOnSet([o \in Orders |-> Charge(o)], {o \in Orders : Owner[o] = a})

(* The order and its balance transaction tell the same story: held while   *)
(* ISSUING, captured once ISSUED, nothing held while BOOKED.               *)
StatusMatchesPayment ==
  \A o \in Orders : /\ status[o] = "ISSUING" <=> payment[o] = "HELD"
                    /\ status[o] = "ISSUED"  <=> payment[o] = "CAPTURED"

(* "This excludes double debits" (README.md:135): whatever is retried, lost *)
(* or timed out, an agent is never down by more than its held and captured *)
(* orders cost.                                                            *)
NoDoubleDebit == \A a \in Agents : balance[a] >= Opening[a] - Charges(a)

(* The same, step by step: a balance only moves with the charge of one of  *)
(* the agent's orders and by as much, and while it does not move no charge *)
(* is dropped.  So a refund never gets lost and no step debits twice.      *)
BalanceFollowsCharges ==
  [][\A a \in Agents :
       IF balance'[a] = balance[a]
         THEN \A o \in Orders : Owner[o] = a => Charge(o)' >= Charge(o)
         ELSE \E o \in Orders :
                /\ Owner[o] = a
                /\ balance[a] - balance'[a] = Charge(o)' - Charge(o)
                /\ \A p \in Orders \ {o} : UNCHANGED payment[p]]_vars

(* The other direction: every held or captured order has been paid for.    *)
(* "On success the operation becomes CAPTURED and the order ISSUED; on     *)
(* error the amount is returned" (README.md:133).                          *)
Settled(a) == balance[a] = Opening[a] - Charges(a)

EveryonePays == \A a \in Agents : Settled(a)

(* It is kept for the agents who do not overlap their own requests,        *)
(* whatever the others do.                                                 *)
PatientPay == \A a \in Patient : Settled(a)

(* The provider never issues two tickets for one order, although timeouts  *)
(* and lost handlers make it be called again after it has issued.          *)
OneTicketPerOrder ==
  \A j, k \in Keys : ticketFor[j] = ticketFor[k] /\ ticketFor[j] # NoOrder => j = k

(* The ticket stored with an order is one the provider issued for that     *)
(* order, never one that the same key bought for another.                  *)
TicketIsForTheOrder ==
  \A o \in Orders : status[o] = "ISSUED" => ticketNo[o] \in Keys /\ ticketFor[ticketNo[o]] = o

(* Money is on hold only while somebody is still there to settle it, or    *)
(* was lost while doing so.                                                *)
HoldHasAHandler ==
  \A o \in Orders : payment[o] = "HELD" =>
    \E r \in Requests : orderOf[r] = o /\ pc[r] \in {"calling", "ticketed", "failing", "lost"}

(* The audit rows of an order form a chain that ends in its status: each   *)
(* transition starts where the one before it ended (README.md:14).         *)
TrailIsLinked ==
  \A o \in Orders :
    /\ trail[o][Len(trail[o])].after = status[o]
    /\ \A i \in 2..Len(trail[o]) : trail[o][i].before = trail[o][i-1].after

(* "Audit of the provider calls" (README.md:14): a handler that called the *)
(* provider and got to its end has left a row about the call.              *)
EveryCallAudited == \A r \in Requests : pc[r] = "done" => r \in audited

(* build_ticket_pdf answers with the ticket. *)
TicketAvailable(o) == status[o] = "ISSUED" /\ ticketNo[o] # NoKey

(* A ticket that could be downloaded once can be downloaded ever after,    *)
(* with the same number: no late failure takes an issued order back.       *)
IssuedIsFinal ==
  [][\A o \in Orders : TicketAvailable(o) =>
        TicketAvailable(o)' /\ UNCHANGED <<ticketNo[o], payment[o]>>]_vars

PatientOrders == {o \in Orders : Owner[o] \in Patient}

(* When a patient client is told that the provider failed, the order is    *)
(* BOOKED again and has cost nothing (README.md:133,                       *)
(* tests/test_booking.py:74).                                              *)
FailureRefunds ==
  [][\A r \in Requests :
        answer[r] = "none" /\ answer'[r] = "provider_error" /\ orderOf[r] \in PatientOrders =>
          status'[orderOf[r]] = "BOOKED" /\ payment'[orderOf[r]] = "RELEASED"]_vars

(* For those orders, every call whose handler got to its end is audited:   *)
(* that handler is the one that settles the order, and writes the row in   *)
(* doing so.  The call of a handler that is lost leaves no row.            *)
PatientCallsAudited ==
  \A r \in Requests : pc[r] = "done" /\ orderOf[r] \in PatientOrders => r \in audited
-----------------------------------------------------------------------------
(* The hold ledger, of the patient agents and their orders alone: the rows *)
(* of the others are left out of what it sees.                             *)
Ledger == INSTANCE HoldLedger WITH
            Agents  <- Patient,
            Orders  <- PatientOrders,
            Owner   <- [o \in PatientOrders |-> Owner[o]],
            Amount  <- [o \in PatientOrders |-> Amount[o]],
            Opening <- [a \in Patient |-> Opening[a]],
            balance <- [a \in Patient |-> balance[a]],
            payment <- [o \in PatientOrders |-> payment[o]]

LedgerSpec == Ledger!Spec
=============================================================================
