------------------------- MODULE IssueTransactions -------------------------
(***************************************************************************)
(* TicketIssue one SQL statement at a time.  Each transaction of           *)
(* issue_order and _release_hold selects the order, then the agent, then   *)
(* the payment, decides from what it has read, and commits; the event loop *)
(* runs other handlers at every await in between.  FOR UPDATE locks the    *)
(* row on PostgreSQL until the transaction ends; SQLite, the database of   *)
(* the local mode, ignores it.                                             *)
(*                                                                         *)
(* What is committed is TicketIssue's action, taken with the rows as they  *)
(* were read: the ORM writes the values it has computed from them.         *)
(***************************************************************************)
EXTENDS TicketIssue

CONSTANT RowLocks   \* FOR UPDATE locks the row

ASSUME TransactionsOK ==
  /\ RowLocks \in BOOLEAN
  /\ Agents \cap Orders = {}
  \* Two first holds of one order, both inserted, are not represented.
  /\ ~ RowLocks => Patient = Agents

VARIABLES
  wanted,   \* the order and the key of each request whose handler has started
  step,     \* the next statement of its open transaction, 0 when none is open
  seen,     \* the rows its open transaction has read so far
  locked    \* the rows its open transaction has locked

statements == <<wanted, step, seen, locked>>
lockVars == <<vars, statements>>

NoRows == [status |-> "BOOKED", key |-> NoKey, balance |-> 0, payment |-> "NONE"]

StatementsOK ==
  /\ wanted \in [Requests -> [order : Orders \cup {NoOrder}, key : Keys \cup {NoKey}]]
  /\ step \in [Requests -> 0..4]
  /\ seen \in [Requests -> [status : Statuses, key : Keys \cup {NoKey},
                            balance : Nat, payment : Payments]]
  /\ locked \in [Requests -> SUBSET (Agents \cup Orders)]

LockInit ==
  /\ Init
  /\ wanted = [r \in Requests |-> [order |-> NoOrder, key |-> NoKey]]
  /\ step = [r \in Requests |-> 0]
  /\ seen = [r \in Requests |-> NoRows]
  /\ locked = [r \in Requests |-> {}]

Busy(r) == step[r] # 0 \/ r \in InFlight
-----------------------------------------------------------------------------
(* The order is selected by id and by the caller, so another's order is    *)
(* neither found nor locked.                                               *)
FindsNoOrder(r, a, o, k) ==
  /\ wanted[r].order = NoOrder
  /\ OrderNotFound(r, a, o, k)
  /\ UNCHANGED statements

(* The first transaction opens. *)
Opens(r, o, k) ==
  /\ pc[r] = "new" /\ wanted[r].order = NoOrder
  /\ Owner[o] \in Patient => \A q \in Requests : Busy(q) => wanted[q].order # o
  /\ wanted' = [wanted EXCEPT ![r] = [order |-> o, key |-> k]]
  /\ step' = [step EXCEPT ![r] = 1]
  /\ UNCHANGED <<vars, seen, locked>>

(* The last one opens, once the provider has answered or was given up. *)
OpensLast(r) ==
  /\ pc[r] \in {"ticketed", "failing"} /\ step[r] = 0
  /\ step' = [step EXCEPT ![r] = 1]
  /\ UNCHANGED <<vars, wanted, seen, locked>>

(* Mutant: _release_hold selects the agent first. *)
AgentFirst(r) ==
  IF pc[r] = "failing" THEN << Owner[wanted[r].order], wanted[r].order >>
                       ELSE << wanted[r].order, Owner[wanted[r].order] >>

(* The order first, then its agent, in all three transactions. *)
LockOrder(r) == << wanted[r].order, Owner[wanted[r].order] >>

(* Mutant: the rows are selected without FOR UPDATE. *)
NobodyWaits(r, row) == TRUE

Unlocked(r, row) == RowLocks => \A q \in Requests \ {r} : row \notin locked[q]

(* SELECT ... FOR UPDATE waits for the row's lock, then reads the row. *)
LocksRow(r, row) ==
  /\ step[r] \in {1, 2} /\ row = LockOrder(r)[step[r]]
  /\ Unlocked(r, row)
  /\ locked' = [locked EXCEPT ![r] = IF RowLocks THEN @ \cup {row} ELSE @]
  /\ step' = [step EXCEPT ![r] = @ + 1]
  /\ UNCHANGED <<vars, wanted>>

ReadsOrder(r, o) ==
  /\ LocksRow(r, o)
  /\ seen' = [seen EXCEPT ![r] = [status |-> status[o], key |-> issueKey[o],
                                  balance |-> @.balance, payment |-> @.payment]]

ReadsAgent(r, a) ==
  /\ LocksRow(r, a)
  /\ seen' = [seen EXCEPT ![r] = [status |-> @.status, key |-> @.key,
                                  balance |-> balance[a], payment |-> @.payment]]

(* Whoever reads a payment has locked its order, so its lock never waits. *)
ReadsPayment(r) ==
  /\ step[r] = 3
  /\ seen' = [seen EXCEPT ![r] = [status |-> @.status, key |-> @.key, balance |-> @.balance,
                                  payment |-> payment[wanted[r].order]]]
  /\ step' = [step EXCEPT ![r] = 4]
  /\ UNCHANGED <<vars, wanted, locked>>

(* The session closes, with a commit or without: its locks are gone. *)
Closes(r) ==
  /\ step' = [step EXCEPT ![r] = 0]
  /\ seen' = [seen EXCEPT ![r] = NoRows]
  /\ locked' = [locked EXCEPT ![r] = {}]
  /\ UNCHANGED wanted

EndsFirst(r) ==
  /\ step[r] = 4
  /\ FirstTransaction(r, wanted[r].order, wanted[r].key, seen[r])
  /\ Closes(r)

EndsLast(r) ==
  /\ step[r] = 4
  /\ CapturesHold(r, seen[r]) \/ ReleasesHold(r, seen[r])
  /\ Closes(r)

(* wait_for only watches the call, not the transaction that follows it. *)
GivesUp(r) ==
  /\ step[r] = 0
  /\ CallTimesOut(r)
  /\ UNCHANGED statements

(* An open transaction is rolled back. *)
Dies(r) ==
  /\ \/ HandlerLost(r)
     \/ /\ step[r] # 0 /\ r \notin InFlight
        /\ UNCHANGED vars
  /\ Closes(r)
-----------------------------------------------------------------------------
HandlerStep(r) ==
  \/ OpensLast(r)
  \/ \E o \in Orders : ReadsOrder(r, o)
  \/ \E a \in Agents : ReadsAgent(r, a)
  \/ ReadsPayment(r)
  \/ EndsFirst(r)
  \/ EndsLast(r)

LockNext ==
  \E r \in Requests :
    \/ \E a \in Agents, o \in Orders, k \in Keys : FindsNoOrder(r, a, o, k)
    \/ \E o \in Orders, k \in Keys : Opens(r, o, k)
    \/ HandlerStep(r)
    \/ (ProviderIssues(r) \/ ProviderRejects(r)) /\ UNCHANGED statements
    \/ GivesUp(r)
    \/ Dies(r)

LockSpec == LockInit /\ [][LockNext]_lockVars

(* wait_for bounds every call, the event loop runs every ready handler and *)
(* PostgreSQL gives a lock to those who wait for it.                       *)
FairLockSpec ==
  /\ LockSpec
  /\ \A r \in Requests : WF_lockVars(GivesUp(r)) /\ WF_lockVars(HandlerStep(r))
-----------------------------------------------------------------------------
(* The row locks make every transaction one atomic step, as TicketIssue    *)
(* has it: "in the transaction the agent and the order are locked"         *)
(* (README.md:131).                                                        *)
IssueIsAtomic == Spec

(* The handlers whose lock keeps r from its next statement.                *)
WaitsFor(r) ==
  {q \in Requests \ {r} : step[r] \in {1, 2} /\ LockOrder(r)[step[r]] \in locked[q]}

(* No circle of handlers waits for one another's rows: who waits for an    *)
(* order waits for a handler that waits for an agent at most, and who      *)
(* waits for an agent waits for one that waits for nobody.                 *)
NoDeadlock ==
  \A r \in Requests : \A q \in WaitsFor(r) : \A p \in WaitsFor(q) : WaitsFor(p) = {}

(* No handler waits for a lock for ever: the transactions of all handlers  *)
(* take the rows in one order, so none holds what another one waits for    *)
(* while it waits itself.                                                  *)
TransactionsEnd == \A r \in Requests : step[r] # 0 ~> step[r] = 0

(* Money on hold is captured or given back, unless the handler was lost.   *)
HoldSettles ==
  \A o \in Orders :
    payment[o] = "HELD" ~> \/ payment[o] # "HELD"
                          \/ \E r \in Requests : orderOf[r] = o /\ pc[r] = "lost"

(* Every request that started a call gets an answer, unless it was lost.   *)
RequestsEnd ==
  \A r \in Requests : r \in InFlight ~> pc[r] \in {"done", "lost"}
=============================================================================
