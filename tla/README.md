# ioka: specifications, model checking and proofs

TLA+ modules for the booking service in `src/`: an HTTP API through which travel
agents search flights, book an offer and buy the ticket from a prepaid balance.
The modules are written from the code in `src/app`; every definition that models
code is listed with its lines in `PROJECT.json` ("map").

Contents: [inventory](#1-inventory) · [modules](#2-modules-and-how-they-correspond-to-the-code) ·
[runs](#3-runs) · [divergences](#4-where-the-code-and-its-documents-disagree) ·
[fairness](#5-fairness) · [proofs](#6-proofs) · [left out](#7-what-is-not-modelled) · [plan](#8-plan)

## 1. Inventory

| component | state it keeps | operations | what is hard about it |
|---|---|---|---|
| ticket issue (`application/booking.py`: `issue_order`, `_release_hold`) | `orders.status`, `ticket_number`, `issue_idempotency_key`; `agents.balance`; `balance_transactions` | start (hold the amount), call the provider, capture or release | three steps with nothing locked in between; timeouts whose call takes effect all the same; retries; lost handlers |
| order creation (`create_order`, `_idempotent_order`, `get_order`) | `orders`, `idempotency_records` | look the key up, load the offer, call the provider, insert, commit, look up again | five sessions per request; two UNIQUE constraints met at different points; the provider keeps its own memory of keys |
| flight searches (`application/search.py`) | `flight_searches`, `offers` | `start`, `process`, `get` | redelivered messages, two handlers of one search, two searches of one route |
| search broker and worker (`infrastructure/broker.py`, `worker.py`) | a durable RabbitMQ queue | publish, consume, acknowledge, requeue | at-least-once delivery; a connection that is lost while the handler runs on |
| search cache (`infrastructure/cache.py`) | one Redis key per agent and query | get, set with a lifetime | errors are swallowed: it may not remember |
| airline provider (`domain/provider.py`, `infrastructure/mock_provider.py`) | one booking and one ticket per idempotency key | search, book, issue | its memory is not transactional with the database |
| audit log (`infrastructure/audit.py`) | `audit_logs` | add a row for a status change or a provider call | written in the caller's transaction, so lost with it |
| ticket document (`application/tickets.py`) | none | a PDF of an issued order | only its guard matters |
| database schema (`infrastructure/models.py`, `migrations/`) | the tables | UNIQUE constraints, row locks | when a constraint or a lock bites |
| tokens and passwords (`security.py`, `api/dependencies.py`) | `agents.is_active`; the token is with the client | login, sign, verify | times rounded to seconds; what was checked may change while the request runs |
| routes, schemas (`api/routes.py`, `schemas.py`), sessions (`infrastructure/database.py`) | the connection pool of the process | authenticate, call one service operation | a request holds a connection while it waits for another |
| application start (`main.py`, `config.py`, `exceptions.py`, `migrations/`, containers) | schema, default agent | migrate or create the schema, seed, serve, stop | several processes, or one that starts again, at the same time; who creates the schema depends on a setting |
| locations (`infrastructure/locations.py`) | a constant list | substring search | pure |

How they interact: a route calls `SearchService.start`, which stores a search,
caches its id and publishes it (or starts a task); the worker consumes the
message and calls `SearchService.process`, which calls the provider and stores
offers. `create_order` books one of those offers at the provider and stores an
order; `issue_order` issues the order's ticket at the provider against the
agent's balance. Handlers share nothing but the database, the provider, the
queue and the cache. No transaction is open while the provider is called, so
everything read before a call may have changed after it: nearly every hazard in
`PROJECT.json` is a case of that.

What makes each part correct:

* issue: nobody pays twice, whatever is retried; an issued ticket is paid for,
  belongs to the order and is never taken back; a failure gives the money back;
  a hold is eventually settled.
* creation: a key stands for one order; a booking is sold once; a repeat is
  given the original; a different body is refused; every request ends.
* search: a completed search has its offers, and offers belong to a completed search;
  an unfinished one is never forgotten and is eventually finished; a final status stays.
* audit: the status rows of an entity form a chain; every provider call has a row.
* start and access: a schema and an agent are there before anything is served, and
  every container gets to serve; no token outlives its announced end; no connection
  is lost and every request ends.

## 2. Modules and how they correspond to the code

**`TicketIssue`** is `issue_order`. A request passes through at most three
atomic steps, because each of the code's transactions takes its row locks
(order, agent, balance transaction; `FOR UPDATE`) before it decides anything.
What a transaction has read is a record, `Rows(o)`, and the actions decide from
that record alone:

| actions | code |
|---|---|
| `OrderNotFound`, `AlreadyIssued`, `KeyConflict`, `BalanceTooLow`, `KeyTaken`, `PlacesHold`, `JoinsHold` | the first transaction, one action per way it can end (`KeyTaken`: its commit meets a UNIQUE constraint) |
| `ProviderIssues`, `ProviderRejects`, `CallTimesOut` | the provider's side and `asyncio.wait_for` |
| `CapturesHold` | the last transaction after an answer: unless the order is ISSUED it stores the ticket and captures |
| `ReleasesHold` | `_release_hold`: if the payment is still HELD, refunds and reopens the order |
| `HandlerLost` | the process stops or the task is cancelled between transactions |

`balance`, `status`, `issueKey`, `ticketNo`, `payment`, `payKey` are columns;
`trail` and `audited` are the two kinds of `audit_logs` rows; `pc`, `orderOf`,
`keyOf`, `answer` are the handlers; `pending` and `ticketFor` are the provider. With
`ProviderIsRemote` a call that has been given up, by a timeout or by a lost
handler, may still be processed; without it (the mock provider runs in the same
process) cancelling the call undoes it. A ticket number stands for the key it
was issued under: the mock derives it from the key. `Patient` is the set of
agents who ask for an order again only when they have been answered; the others
do as they like, at the same time.

**`HoldLedger`** is the abstract specification: the hold, capture and release of
the repository's README ("Идемпотентность и деньги"), without requests, keys or
provider. `TicketIssue!Ledger` instantiates it over the `balance` and `payment` of the
patient agents and their orders; `LedgerSpec` says that issuing implements it.

**`IssueTransactions`** takes the three transactions of `TicketIssue` apart:
`Opens` / `OpensLast` open a session, `ReadsOrder`, `ReadsAgent` and
`ReadsPayment` are its SELECT statements, `EndsFirst` / `EndsLast` are
`TicketIssue`'s actions with the rows that were read (`seen`) in the place of the
rows as they are, because the ORM writes values it has computed from them.
With `RowLocks` (PostgreSQL) a SELECT waits until no other transaction has locked the
row (`Unlocked`) and keeps its own lock until the session closes. Without
(SQLite; its Python driver begins a transaction only at the first write) it reads
what is there. `IssueIsAtomic` is `TicketIssue!Spec`: the second refinement. `WaitsFor`
is who waits for whose lock, and `NoDeadlock` says that this never is a circle, which
would be PostgreSQL's deadlock error and not a wait.

**`OrderCreation`** is `create_order` at the grain of its sessions: first
lookup (`FindsRecord`, `FindsNoRecord`), offer (`OfferNotFound`, `OfferTooOld`,
`CallsProvider`), provider (`ProviderBooks`, `ProviderRejects`, `CallTimesOut`,
`RecordsFailure`), flush (`InsertsOrder`, `ReferenceTaken`), commit
(`CommitsOrder`, `KeyRecorded`) and the lookup after a rollback
(`ReplaysAfterRollback`). The flush and the commit are separate because they
meet different constraints: `orders.booking_reference` at the flush, where an
insert waits for an open transaction that holds the same reference
(`Uncommitted`), and `(agent_id, scope, key)` at the commit. An order is named
by the request that inserted it, a booking by the request whose call created it;
the hash of a body is the body itself (SHA-256 is taken to be injective).
With `KeyedBookings` the provider is sure to book once per key, which is what the
mock does; the provider interface does not demand it, and without the constant
every repeat of a key may be given the known booking or a new one.

**`IdempotentOrders`** is the abstract specification of that: what is kept under
each key, who came before there was anything to keep, and what each request was told,
in seven atomic actions. A request `Comes` while its key has no order. From then on it
may create the order (`Creates`), be told of another's (`Repeats`, `Conflicts`), be
refused (`Refuses`) or be given up (`Leaves`). A request that comes once the order is
there has only `Repeats` and `Conflicts`. The README of the repository promises a repeat the order
without exception; the code does not keep that for repeats that overlap (finding 4),
so there is also `Errs`, an internal error, allowed only to a request that
came before and only when the key has bought an order meanwhile, for this agent or
another. `Refuses` has no such condition: the provider may fail for one request
and not for another that overlaps it. `Kept`, `Open` and `Told` of `OrderCreation` are the
refinement mapping, and `KeysAreIdempotent` says that `create_order` implements it:
the third refinement.

**`FlightSearches`** is `start` (`StoresSearch`, `CachesSearch`, `Dispatches`,
`StartLost`), the broker (`Delivers`, `ConnectionLost`) and `process`
(`Skips`, `CallsProvider`, `ProviderFinds`, `ProviderFails`, `CallTimesOut`,
`SavesOffers`, `OffersTaken`, `SaveFails`, `CommitUnheard`, `SavesFailure`, `HandlerLost`).
A handler is identified by its delivery `<<search, n>>`, so two deliveries of one message can
run side by side. The provider may find nothing, and the search is then COMPLETED
without offers. The `except Exception` of search.py:170 spans the call and the
transaction that stores its result, and turns every error in there into the failure of the
search: the provider's (`ProviderFails`, `CallTimesOut`), an error of the pool or the
database before the commit (`SaveFails`), a commit that took effect while its answer was
lost (`CommitUnheard`), and the IntegrityError of `UNIQUE (provider, provider_offer_id)`
(`OffersTaken`: the mock names offers by route and date only). `error` keeps which of them
the failure of a search reports (`error_message`).

`CacheForgets` is Redis, which drops an entry when it likes; only `expires_at`
ends an answer for certain.

**`AgentRequests`** is what surrounds the services. Processes run in containers, whose
command migrates first (`Migrates`) and which are restarted, or are started by hand;
`autoCreate` is the setting AUTO_CREATE_SCHEMA, which `.env.docker` turns off for the
containers and which is on by default. Both are chosen initially. A process `Boots`, creates the
schema only with the setting (`CreatesSchema`), fails when nobody has created one
(`SchemaMissing`), and finds or inserts the agent (`LooksForAgent`, `SeedsAgent`,
`AgentExists`: `create_all` and `seed_default_agent` both look first and write later);
it may stop (`Stops`). The agent logs in (`LogsIn`, `LoginRefused`), and
requests are let in with the token (`TokenAccepted`, `TokenRefused`) and with the row
of the agent (`Authenticates`, `AgentInactive`); then the service opens sessions
of its own (`AsksForSession`, `OpensSession`, `ClosesSession`). `get_current_agent`
keeps the connection it has read the agent with until the request is answered, so a
request in a service has one connection and wants a second. `free` counts the
connections of a process, `PoolTimesOut` is the pool's own time limit. Time is
counted in half seconds: a token announces an exact end and carries a rounded one.

The status audit row is part of `SetStatus` in both `TicketIssue` and `FlightSearches`,
because the code writes it in the same transaction as the status.

**The `MC` modules** instantiate the constants for TLC. **`TicketIssueProofs`,
`IssueTransactionsProofs`, `OrderCreationProofs`, `FlightSearchesProofs`,
`AgentRequestsProofs`** hold the proofs, and **`SumFacts`** the lemmas about sums over
finite sets that they use.
Definitions marked *Mutant* are plausible mistakes; no specification uses them. `PROJECT.json`
names, for each property, the one that must break it.

## 3. Runs

| run | instance | what it shows |
|---|---|---|
| `issue_safety` | 4 requests, 2 keys; a patient agent with 2 orders (amounts 2 and 1, balance 2), another with 1 order who overlaps its requests; remote provider; symmetric | type and non-negative balance, status and payment agree, no double debit, every balance step is one order's charge, one ticket per order, the ticket is the order's own, a hold has a handler, audit trail linked, issued is final; for the patient agent also: all is paid for, every call is audited unless its handler is lost, the ledger is implemented, a reported error means the money is back |
| `issue_locks` | 3 overlapping requests, 2 orders of one agent, 2 keys, row locks, `FairLockSpec` | the statements implement the atomic transactions, no circle of handlers waits for locks, no transaction waits for ever, holds are settled, requests end |
| `issue_overlap_paid` | 2 requests | *violation*: an issued order that was not paid for |
| `issue_overlap_audit` | 2 requests | *violation*: a provider call without audit row |
| `issue_sqlite` | 2 requests for different orders of one agent, no row locks | *violation*: one of two debits is lost |
| `creation` | 3 requests, 2 agents, 1 key, 3 bodies, a provider that may honour the key, `FairSpec` | one order per key, one order per booking, repeats get the original, every request ends although inserts wait for each other, `IdempotentOrders` is implemented: whoever comes once the key has an order gets it or a conflict |
| `creation_repeat` | 2 requests | *violation*: an overlapping repeat gets an internal error |
| `creation_body` | 2 requests, remote provider | *violation*: an order for one passenger on another's booking |
| `search_broker` | 2 searches of one route, 2 deliveries each, cache up but forgetful, `FairSpec` | completed means offers (or none found), and offers mean completed; unfinished means queued, calls audited, trail linked, dispatched searches finish, failed or lost ones are not given out for ever |
| `search_final` | 1 search, 2 deliveries | *violation*: a final status is overwritten |
| `search_nocache` | 2 searches of one route, inline, no cache | *violation*: a search FAILS although neither the provider nor the database did |
| `access` | 2 processes, in containers or by hand, with and without AUTO_CREATE_SCHEMA; 1 stop, 3 requests, pools of 2 connections, tokens of one second, a clock of one second, `FairSpec` | nothing served without a schema and an agent, every container comes up; connections accounted for, every request ends; no token is accepted late |

Why the bounds are enough to be interesting:

* Two requests of one order, plus a third that retries after both, plus one on
  another order that competes for the balance or the key: four requests. Amounts 2
  and 1 with balance 2 make the balance cover either order but not both, so a lost
  update or a refund too many shows in `balance`. Two keys allow the right key, a
  wrong key, and the key of another order.
* In `IssueTransactions` three requests are enough for two that wait for one lock
  and one that comes later; the key does not matter to the locks.
* In `OrderCreation` a single key that both agents use makes every request
  compete; three requests are two that race and one that repeats later.
* In `FlightSearches` `MaxDeliveries = 2` is the smallest bound at which two
  handlers of a search overlap; the last allowed delivery is neither lost nor cut off
  and hears of its commit, which bounds how often things go wrong and nothing else.
  One query is enough for two searches of one route, because the cache forgets.
* In `AgentRequests` two requests exhaust a pool of two and a third waits at the
  door; one further session each is what a standstill needs. A token lives for two half
  seconds, and the clock reaches its end, for one announced in the first half of a
  second exactly and for one announced in the second half as the rounding has it.
* Symmetry (requests, keys) is used for safety runs only.
* `CHECK_DEADLOCK FALSE` everywhere: each request is served once, and when all
  have been, the system rests.

## 4. Where the code and its documents disagree

Seven runs end in a violation of something the repository says; `PROJECT.json`
("findings") quotes the lines.

1. `issue_overlap_paid`, booking.py:222-226: the capture looks at the order, not
   at the payment. Request A and B issue one order with one key; A fails and
   releases the hold; B, answered by the provider meanwhile, captures the
   released payment: ISSUED, CAPTURED, and the balance is back where it was.
2. `issue_overlap_audit`, booking.py:222 and 258: the row about a provider call
   is written only if the call still changes the order.
3. `issue_sqlite`, booking.py:147-159: nothing but the row locks keeps two
   transactions of one agent apart, and SQLite, which the repository's README
   gives as the database of the local mode, has none.
4. `creation_repeat`, booking.py:98: the flush meets the UNIQUE reference
   outside the `try` that handles IntegrityError.
5. `creation_body`, booking.py:43: the body is compared with a committed record
   only, the provider has seen the key earlier.
6. `search_final`, search.py:143 and 178: results are stored without looking at
   the status again.
7. `search_nocache`, models.py:68: two searches of one route cannot both store
   their offers; the second is recorded as `provider_error`. With a
   working cache this needs another query of the same route, or another agent.

What is needed for them is proved: under a condition on the clients or on
the broker, or in a weaker form, the promise holds for every instance (section 6).

| finding | what holds all the same | theorem |
|---|---|---|
| 1 | an agent never loses money by it; if no agent overlaps the requests of an order, everyone has paid | `NeverDebitedTwice`, `AllPatientAllPay` |
| 2 | every call for an order of a patient agent is audited, unless its handler is lost | `PatientCallsTraced` |
| 3 | with row locks a patient agent pays for everything | `PromisesKept` |
| 4 | only a request that came before its key had an order can get the error, and only once the key has bought one; if no two agents use one key, the order whose repeat failed is recorded, and the next repeat is given it | `KeepsThePromise`, `NextRepeatGetsOrder` |
| 5 | as long as an agent's key has come with one body only, the order is booked as ordered | `OneBodyBooksAsOrdered` |
| 6 | a finished search is never seen running again; and as long as no connection is lost under a running handler, its final status stays, also when handlers are lost and messages come again, unless the search's own commit went unheard | `NeverReopened`, `FinalStays` |
| 7 | a search FAILS because the provider or the database failed, because offers of its route are stored with a search that was completed, or because its own completion was committed unheard; there is no fourth cause | `FailuresHaveCause` |

Three more observations without a run. README.md:132 has the provider called outside
of a long database transaction; the service does that, but the session of
`get_current_agent` stays open beside it, with its connection (`AgentRequests`): as many
requests as the pool has connections can each hold one and wait for a second until
`pool_timeout`. A search that an overlapping
delivery completes after a failure keeps the failure's `error_code`, which the poll
route then returns with the offers (search.py:142-144, routes.py:99-102). And a search
whose offers are committed while the answer to the commit is lost is then stored FAILED by its
own `except` clause, with the offers in place (`CommitUnheard`, search.py:169-178).

## 5. Fairness

Liveness is stated under weak fairness of the program's own steps:
`asyncio.wait_for` bounds each provider call (15 s for bookings and tickets, the
search timeout for searches); the event loop runs a handler whose await is over, the
lock waits of `IssueTransactions` included: PostgreSQL grants a free lock to those
who queue for it; RabbitMQ delivers a ready message to a connected worker; the expiry
of a search comes, because time passes; containers are restarted (docker-compose.yml says
`restart: unless-stopped`) and start with the migration; and a wait for a connection ends
with one or with `pool_timeout`.

In `TicketIssue`, `IssueTransactions`, `OrderCreation` and `AgentRequests` that is weak
fairness per handler or process. In `FlightSearches` one `WF` of
all these steps together is enough, since every search and delivery has finitely many of them: it
says no more than that something which can go on does. In `AgentRequests` a process that
was started by hand and is down need not be started again (`Restarted`), so `ComesUp`
speaks of containers; once started, a process goes on in either case.
Nothing is assumed of the provider: it need never answer.
`HandlerLost`, `Dies`, `StartLost`, `ConnectionLost`, `SaveFails`, `CommitUnheard`, `Stops`,
`CacheForgets` and the expiry of offers are never forced. The code has no recovery of a lost
`issue_order`, so `HoldSettles` and `RequestsEnd` exempt lost handlers: the
hold then stays until the client retries with the same key (`JoinsHold`).
A lost search handler is not exempt, since the broker redelivers.

## 6. Proofs

The `*Proofs` modules prove the following for every set of agents, orders, keys,
requests, bodies, offers, searches, queries, deliveries and processes, every natural
amount and opening balance, and both kinds of provider. The only assumptions
are the ones the models declare: `ConstantsOK` (the tables are functions of the
right type, the NULLs are not values, and, in `AgentRequests`, the requests are finitely
many), `OrdersFinite` (the orders are, so that their amounts have a sum) and
`TransactionsOK` (an agent is not an order). The theorems of `IssueTransactionsProofs`
assume `RowLocks`, and the run `issue_sqlite` shows that they would be false without.
The other hypotheses are written in the theorems that have them: `Patient = Agents`,
`ConnectionsHold`, `KeysMeanBodies`, `KeysMeanAgents`, each the negation of what
the run of a finding needs.

Every safety property of the passing runs is a theorem.

### Ticket issue

`TicketIssueProofs`: `TypeCorrect` (balances stay natural),
`StatusFollowsPayment`, `TicketBelongs`, `SingleTicket`, `HoldIsHandled`,
`IssuedStays`, `AnswerIsKept`, `TrailLinks`, `BalancesFollow`, `LedgerRefined`
(`Spec => LedgerSpec`, for whichever agents are patient), `NeverDebitedTwice`,
`PatientAgentsPay`, `AllPatientAllPay`, `RefundedOnFailure`, `PatientCallsTraced`.
The inductive invariant `IssueInv` adds what the code relies on silently:

* `KeysApart`: a key belongs to one order (the two UNIQUE constraints together).
* `CallsCarryKey`: a call that the provider may still process was made with the
  key its order carries. It holds because the key is committed before the
  call, and no statement ever changes it: this is why a late effect is harmless.
* `TicketsFollowKeys`: whatever the provider issued under a key is for the order
  with that key.
* `PaymentKey`: the payment and the order carry the same key.

`SingleTicket` and `TicketBelongs` follow from the middle two. The audit chain needs
only that every change of a status goes through `SetStatus`. `AnswerIsKept` joins
three pieces: `AlreadyIssued` and `CapturesHold` answer "issued" only with a ticket in
the row, a handler's order is fixed once it has started, and `TicketStays`.

For the patient agents `OneHandler` is invariant as well: the only handler in flight of
one of their orders finds the payment HELD. So the unchecked capture is a capture of a
hold (`LedgerRefined`, `PatientAgentsPay`), a handler that fails is the one that gives
the money back (`RefundedOnFailure`), and one that ends has changed the order and so
written the row about its call (`PatientCallsTraced`, which says nothing of lost handlers).

`BalancesFollow` is the step form of "no double debit" and needs no sum.
`NeverDebitedTwice` and `PatientAgentsPay` are about the sum of an agent's
charges. Their invariant is `Books`; `StepPays` shows that a step moves the
payment of one order at most and the balance of its owner by no more than that order's
charge (exactly by it for a patient owner), and `ChargesMove` that the sum then
moves by the same. The inequality is strict just where an overlapping request captures a
released payment, which is finding 1.

`SumFacts` has what that takes of `SumFunctionOnSet`: `SumMoves` (two functions that
differ at one place have sums that differ by as much) and `SumOfZeros`. The
operator is a fold, a recursive function on the subsets of a set. The provers
cannot instantiate the library's induction theorems, so the lemmas take a smallest
counterexample instead: `WFMin` of the library gives every set of naturals a least
element (`SmallestNat`), hence every set of subsets a member that is empty or
leaves the set when one element is taken out (`SmallestSubset`). `SummationExists`
shows in this way that the recursive function exists, without which its equation says nothing.

`IssueTransactionsProofs`: `LocksMakeAtomic` (`LockSpec => IssueIsAtomic`),
`NothingLost`, `PromisesKept`, `StatementTypes`, `NoCircle`. The invariant says that two
transactions never have one row locked and that what a transaction has read is, while it
holds the lock, still what the row says. So the commit of a transaction is a step of
`TicketIssue` with `Rows(o)`, every other statement is a stutter, and all theorems of
`TicketIssueProofs` carry over; `NothingLost` and `PromisesKept` state eight of them.
For `NoCircle` what a transaction has locked is a prefix of its `LockOrder`, as long as
its next statement says (`InOrder`): who holds an order's lock waits for an agent at
most, and who holds an agent's has all it needs.

### Order creation

`OrderCreationProofs`: `TypeCorrect`, `KeyNamesOneOrder`, `BookingSoldOnce`,
`RepeatGivesOriginal`, `OneBodyBooksAsOrdered`, `NextRepeatGetsOrder`, and
`KeepsThePromise` (`Spec => KeysAreIdempotent`). The inductive invariant `CreationInv` says that orders
and records are committed together (`RecordsMatchOrders`) and that rows of open
transactions count for uniqueness (`InsertsApart`); `CallsNotStored` keeps a late
answer of the provider from changing the booking a stored order rests on. For the
refinement a step lets one request come or leave, or answers one, which `AnsweredWhenDone`
says had been told nothing, or is not seen at all. That an internal error is one the
abstract specification allows (`TakenByKey`) rests on
`BookingsKeepKey`: a call returns a booking made under its own key, so a reference that is taken
was bought with that key. The two theorems about careful clients rest on the same and on
`ErrorsMeanOrders` (who got an internal error used the key of a stored order).

### Flight searches

`FlightSearchesProofs`: `SearchTypes`, `CompletedSearches`, `SearchTrail`,
`SearchCallsAudited`, `DispatchedIsQueued`: all the safety of the run
`search_broker`, for any number of deliveries; and `NeverReopened`, `FinalStays`, `FailuresHaveCause`.
`Known` (what has a message or a
handler has been stored) carries the types; `Numbered` and `Kept` carry the queue:
a handler that is not the latest of its message cannot acknowledge it, and the
latest one runs, or has finished the search, or its message is ready again.
`CompletedSearches` has both directions: who is COMPLETED has offers or was told there
are none, and offers that are stored belong to a search of their route that a delivery
completed; for the second, `OffersFound` follows a commit that went unheard into the
failure that is stored over it. `FailuresHaveCause` reads the cause of a failure from the same
facts. `FinalStays` assumes that connections outlive their handlers. Then a running handler is the
latest of its message, so it is the only one of its search, and the search is
IN_PROGRESS from the handler's call to its last transaction (`Alone`): the check at
the start of `process` still holds at its end. Redelivery after a lost handler is harmless.

### Access and start

`AgentRequestsProofs`: `AccessTypes`, `ServesWithAgent`, `TokensEndInTime`,
`NoConnectionLost`. `SeedInv` says what a process knows where it stands: past the look for the
agent there is a schema, whoever created it, and past the seed an agent. For tokens the fact that matters is that of two times
both rounded down the later one is never rounded below the earlier (`ValidInTime`).
For the pool, `PoolInv` counts one connection for a request that is inside a service
and two for one with an open session; every step moves one request, and
`CountMoves` says what that does to the counts. `AccessTypes` puts the three
together: that no pool rises above its size follows from the counts, no guard says so.

### Only model-checked

All liveness: `TransactionsEnd`, `HoldSettles`, `RequestsEnd` (three times),
`DispatchedFinishes`, `SearchedAfresh`, `ComesUp`. Fairness and ENABLED are out of the
prover's reach. The seven violations are counterexamples and have nothing to prove; the
table in section 4 has the theorems around them.

## 7. What is not modelled

* SQLite's own write lock, and two first holds of one order both inserted without row
  locks (`TransactionsOK` makes everybody patient there, so it does not come up).
* A commit whose outcome the client of the database does not learn, in `create_order` and
  `issue_order`, and the re-raise after the lookup in `create_order`, which needs a
  record that vanished. In `process` it is modelled for the commit of the offers
  (`CommitUnheard`), whose failure is caught. The other two commits of `process` are not in a
  `try`: unheard, they raise out of the handler, which leaves the database and queue that
  `CallsProvider` and `HandlerLost` leave, or a redelivery that `Skips`. The window
  between a worker's commit and its acknowledgement is covered by
  `ConnectionLost` before that commit, which leaves the same database and queue.
* Migrations other than the first one, and `alembic upgrade head` run by hand: without a
  container and without AUTO_CREATE_SCHEMA a process fails at the seed.
* The mock provider's restart: it forgets its keys, but derives references and
  ticket numbers from them, so that it answers the same. Collisions of its
  six-digit references are left out.
* `tickets.ticket_number` being UNIQUE at the capture, and an agent that cannot
  be found: neither can happen with one ticket per key and no deletion.
* The prefetch limit of the consumer (8) and malformed messages.
* Connections of inline search tasks and of the workers: `AgentRequests` counts
  those of requests. Whether a session is a search's or an order's does not matter to
  the pool, so the composition with the services is by the number of sessions
  alone (`MaxSessions`).
* More than one agent, or more than one valid token, in `AgentRequests`: requests are
  independent but for the pool.
* Prices, currencies, document layout, signatures and password digests,
  validation, location search: no state.

## 8. Plan

Done: `HoldLedger`, `TicketIssue`, `IssueTransactions`, `OrderCreation`, `IdempotentOrders`,
`FlightSearches`, `AgentRequests`, each with its proofs, and `SumFacts`. Left, most
useful first:

1. Composition of creation and issue: the orders that are issued are those
   created, at the price of their offer.
2. An abstract search (pending, processing, one final status) that `FlightSearches`
   implements while connections hold; its core, that a final status stays, is `FinalStays`.
