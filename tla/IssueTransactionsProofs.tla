---------------------- MODULE IssueTransactionsProofs ----------------------
(***************************************************************************)
(* Why TicketIssue may take a whole transaction for one step: with row     *)
(* locks, what a transaction has read is still there when it commits, for  *)
(* any number of handlers, orders and agents.                              *)
(***************************************************************************)
EXTENDS IssueTransactions, TicketIssueProofs

(* A transaction that has read a row holds its lock; the rows are those of *)
(* the order its handler was asked for.                                    *)
HoldsItsRows(r) ==
  /\ step[r] # 0 => wanted[r].order \in Orders /\ wanted[r].key \in Keys
  /\ step[r] >= 2 => wanted[r].order \in locked[r]
  /\ step[r] >= 3 => Owner[wanted[r].order] \in locked[r]
  /\ r \in InFlight => orderOf[r] = wanted[r].order /\ keyOf[r] = wanted[r].key

(* What it has read is what the database holds.                            *)
SeenIsCurrent(r) ==
  /\ step[r] >= 2 => /\ seen[r].status = status[wanted[r].order]
                     /\ seen[r].key = issueKey[wanted[r].order]
  /\ step[r] >= 3 => seen[r].balance = balance[Owner[wanted[r].order]]
  /\ step[r] = 4  => seen[r].payment = payment[wanted[r].order]

Exclusive == \A q, r \in Requests : q # r => locked[q] \cap locked[r] = {}

(* The inductive invariant, on top of IssueInv. *)
LockInv ==
  /\ StatementsOK
  /\ Exclusive
  /\ \A r \in Requests : HoldsItsRows(r) /\ SeenIsCurrent(r)
-----------------------------------------------------------------------------
LEMMA InitLockInv == LockInit => LockInv
<1> SUFFICES ASSUME LockInit PROVE LockInv
  OBVIOUS
<1> USE DEF LockInit
<1>1. StatementsOK
  BY DEF StatementsOK, NoRows, Statuses, Payments
<1>2. Exclusive
  BY DEF Exclusive
<1>3. \A r \in Requests : HoldsItsRows(r) /\ SeenIsCurrent(r)
  BY DEF Init, HoldsItsRows, SeenIsCurrent, InFlight
<1> QED  BY <1>1, <1>2, <1>3 DEF LockInv

(* A transaction that is about to commit has read the current rows.        *)
LEMMA ReadIsCurrent ==
  ASSUME LockInv, NEW r \in Requests, step[r] = 4
  PROVE  /\ wanted[r].order \in Orders /\ wanted[r].key \in Keys
         /\ seen[r] = Rows(wanted[r].order)
BY DEF LockInv, StatementsOK, HoldsItsRows, SeenIsCurrent, Rows

(* Every step of the statements is a step of TicketIssue, or none.         *)
LEMMA Simulates ==
  ASSUME LockInv, IssueInv, [LockNext]_lockVars
  PROVE  [Next]_vars
<1>1. CASE UNCHANGED lockVars
  BY <1>1 DEF lockVars, vars
<1>2. ASSUME NEW r \in Requests, EndsFirst(r)
      PROVE  Next
  <2> DEFINE o == wanted[r].order  k == wanted[r].key
  <2>1. o \in Orders /\ k \in Keys /\ FirstTransaction(r, o, k, Rows(o))
    BY <1>2, ReadIsCurrent DEF EndsFirst
  <2>2. IssueStarts(r)
    BY <2>1 DEF IssueStarts
  <2> QED  BY <2>2 DEF Next
<1>3. ASSUME NEW r \in Requests, EndsLast(r)
      PROVE  Next
  <2>1. pc[r] \in {"ticketed", "failing"} /\ step[r] = 4
    BY <1>3 DEF EndsLast, CapturesHold, ReleasesHold
  <2>2. orderOf[r] = wanted[r].order
    BY <2>1 DEF LockInv, HoldsItsRows, InFlight
  <2>3. seen[r] = Rows(orderOf[r])
    BY <2>1, <2>2, ReadIsCurrent
  <2>4. CapturesHold(r, Rows(orderOf[r])) \/ ReleasesHold(r, Rows(orderOf[r]))
    BY <1>3, <2>3 DEF EndsLast
  <2> QED  BY <2>4 DEF Next
<1>4. ASSUME NEW r \in Requests, HandlerStep(r)
      PROVE  [Next]_vars
  BY <1>4, <1>2, <1>3 DEF HandlerStep, OpensLast, ReadsOrder, ReadsAgent, LocksRow, ReadsPayment
<1>5. ASSUME NEW r \in Requests, NEW a \in Agents, NEW o \in Orders, NEW k \in Keys,
             FindsNoOrder(r, a, o, k)
      PROVE  Next
  <2>1. IssueStarts(r)
    BY <1>5 DEF FindsNoOrder, IssueStarts
  <2> QED  BY <2>1 DEF Next
<1>6. ASSUME NEW r \in Requests, GivesUp(r) \/ Dies(r)
      PROVE  [Next]_vars
  BY <1>6 DEF GivesUp, Dies, Next
<1> QED  BY <1>1, <1>4, <1>5, <1>6 DEF LockNext, Opens, Next
-----------------------------------------------------------------------------
(* A transaction changes the rows of its own order only.                   *)
LEMMA TouchesItsRows ==
  ASSUME TypeOK, NEW r \in Requests, NEW o \in Orders, NEW k \in Keys, NEW x,
         FirstTransaction(r, o, k, x)
         \/ (orderOf[r] = o /\ (CapturesHold(r, x) \/ ReleasesHold(r, x)))
  PROVE  /\ \A p \in Orders \ {o} : UNCHANGED <<status[p], issueKey[p], payment[p]>>
         /\ \A a \in Agents \ {Owner[o]} : UNCHANGED balance[a]
<1> USE DEF TypeOK
<1>1. CASE FirstTransaction(r, o, k, x)
  BY <1>1 DEF FirstTransaction, AlreadyIssued, KeyConflict, BalanceTooLow, KeyTaken, AnswersAtOnce,
     database, PlacesHold, JoinsHold, StartsCall, SetStatus
<1>2. CASE orderOf[r] = o /\ (CapturesHold(r, x) \/ ReleasesHold(r, x))
  BY <1>2 DEF CapturesHold, ReleasesHold, SetStatus
<1> QED  BY <1>1, <1>2

(* An open transaction's rows, when another one commits.                   *)
LEMMA OthersUntouched ==
  ASSUME IssueInv, LockInv, NEW r \in Requests, step[r] = 4, NEW q \in Requests \ {r},
         EndsFirst(r) \/ EndsLast(r)
  PROVE  HoldsItsRows(q)' /\ SeenIsCurrent(q)'
<1> USE DEF LockInv, StatementsOK
<1> DEFINE o == wanted[r].order
<1>1. o \in Orders /\ wanted[r].key \in Keys /\ o \in locked[r] /\ Owner[o] \in locked[r]
  BY DEF HoldsItsRows
<1>2. /\ \A p \in Orders \ {o} : UNCHANGED <<status[p], issueKey[p], payment[p]>>
      /\ \A a \in Agents \ {Owner[o]} : UNCHANGED balance[a]
  <2>1. CASE EndsFirst(r)
    BY <2>1, <1>1, TouchesItsRows DEF EndsFirst, IssueInv
  <2>2. CASE EndsLast(r)
    <3>1. orderOf[r] = o
      BY <2>2 DEF EndsLast, CapturesHold, ReleasesHold, HoldsItsRows, InFlight
    <3> QED  BY <2>2, <3>1, <1>1, TouchesItsRows DEF EndsLast, IssueInv
  <2> QED  BY <2>1, <2>2
<1>3. step[q] >= 2 => wanted[q].order \in Orders \ {o}
  BY <1>1 DEF HoldsItsRows, Exclusive
<1>4. step[q] >= 3 => Owner[wanted[q].order] \in Agents \ {Owner[o]}
  BY <1>1, <1>3, ConstantsOK DEF HoldsItsRows, Exclusive
<1>5. /\ step'[q] = step[q] /\ seen'[q] = seen[q] /\ locked'[q] = locked[q]
      /\ UNCHANGED wanted
  BY DEF EndsFirst, EndsLast, Closes
<1>6. SeenIsCurrent(q)'
  BY <1>2, <1>3, <1>4, <1>5 DEF SeenIsCurrent
<1>7. /\ q \in InFlight' <=> q \in InFlight
      /\ orderOf'[q] = orderOf[q] /\ keyOf'[q] = keyOf[q]
  BY DEF EndsFirst, EndsLast, FirstTransaction, AlreadyIssued, KeyConflict, BalanceTooLow, KeyTaken,
     AnswersAtOnce, PlacesHold, JoinsHold, StartsCall, CapturesHold, ReleasesHold, Arrives, Asks,
     InFlight, asked, IssueInv, TypeOK
<1>8. HoldsItsRows(q)'
  BY <1>5, <1>7 DEF HoldsItsRows
<1> QED  BY <1>6, <1>8

(* The transaction that ends leaves nothing open.                          *)
LEMMA EndsKeepsInv ==
  ASSUME IssueInv, LockInv, NEW r \in Requests, EndsFirst(r) \/ EndsLast(r)
  PROVE  LockInv'
<1> USE DEF LockInv
<1>1. /\ step[r] = 4 /\ Closes(r)
      /\ wanted[r].order \in Orders /\ wanted[r].key \in Keys
  BY DEF EndsFirst, EndsLast, HoldsItsRows
<1>2. StatementsOK'
  BY <1>1 DEF Closes, StatementsOK, NoRows, Statuses, Payments
<1>3. Exclusive'
  BY <1>1 DEF Closes, StatementsOK, Exclusive
<1>4. \A q \in Requests \ {r} : HoldsItsRows(q)' /\ SeenIsCurrent(q)'
  BY <1>1, OthersUntouched
<1>5. step'[r] = 0 /\ UNCHANGED wanted
  BY <1>1 DEF Closes, StatementsOK
<1>6. r \in InFlight' => orderOf'[r] = wanted[r].order /\ keyOf'[r] = wanted[r].key
  <2>1. CASE EndsFirst(r)
    BY <2>1, <1>1 DEF EndsFirst, FirstTransaction, AlreadyIssued, KeyConflict, BalanceTooLow, KeyTaken,
       PlacesHold, JoinsHold, StartsCall, Arrives, Asks, IssueInv, TypeOK
  <2>2. CASE EndsLast(r)
    BY <2>2 DEF EndsLast, CapturesHold, ReleasesHold, InFlight, IssueInv, TypeOK
  <2> QED  BY <2>1, <2>2
<1>7. HoldsItsRows(r)' /\ SeenIsCurrent(r)'
  BY <1>5, <1>6 DEF HoldsItsRows, SeenIsCurrent
<1> QED  BY <1>2, <1>3, <1>4, <1>7

(* A lock is only taken when nobody else holds it, and the row is read     *)
(* once it is held.                                                        *)
LEMMA ReadsKeepInv ==
  ASSUME RowLocks, LockInv, TypeOK, NEW r \in Requests,
         \/ \E o \in Orders : ReadsOrder(r, o)
         \/ \E a \in Agents : ReadsAgent(r, a)
         \/ ReadsPayment(r)
  PROVE  LockInv'
<1> USE DEF LockInv, StatementsOK
<1>1. UNCHANGED <<vars, wanted>> /\ InFlight' = InFlight
  BY DEF ReadsOrder, ReadsAgent, LocksRow, ReadsPayment, vars, InFlight
<1>2. UNCHANGED <<database, asked>>
  BY <1>1 DEF vars
<1>3. \A q \in Requests \ {r} : /\ step'[q] = step[q] /\ seen'[q] = seen[q]
                                /\ locked'[q] = locked[q]
  BY DEF ReadsOrder, ReadsAgent, LocksRow, ReadsPayment
<1>4. \A q \in Requests \ {r} : HoldsItsRows(q)' /\ SeenIsCurrent(q)'
  BY <1>1, <1>2, <1>3 DEF HoldsItsRows, SeenIsCurrent, database, asked
<1>5. ASSUME NEW o \in Orders, ReadsOrder(r, o)
      PROVE  LockInv'
  <2>1. step[r] = 1 /\ o = wanted[r].order
    BY <1>5, TransactionsOK, ConstantsOK DEF ReadsOrder, LocksRow, LockOrder, HoldsItsRows
  <2>2. /\ step'[r] = 2 /\ locked'[r] = locked[r] \cup {o}
        /\ seen'[r].status = status[o] /\ seen'[r].key = issueKey[o]
    BY <1>5, <2>1 DEF ReadsOrder, LocksRow
  <2>3. StatementsOK'
    BY <1>5, <2>1 DEF ReadsOrder, LocksRow, TypeOK
  <2>4. Exclusive'
    BY <1>3, <1>5, <2>2 DEF Exclusive, ReadsOrder, LocksRow, Unlocked
  <2>5. HoldsItsRows(r)' /\ SeenIsCurrent(r)'
    BY <1>1, <1>2, <2>1, <2>2 DEF HoldsItsRows, SeenIsCurrent, database, asked
  <2> QED  BY <1>4, <2>3, <2>4, <2>5
<1>6. ASSUME NEW a \in Agents, ReadsAgent(r, a)
      PROVE  LockInv'
  <2>1. step[r] = 2 /\ a = Owner[wanted[r].order]
    BY <1>6, TransactionsOK, ConstantsOK DEF ReadsAgent, LocksRow, LockOrder, HoldsItsRows
  <2>2. /\ step'[r] = 3 /\ locked'[r] = locked[r] \cup {a}
        /\ seen'[r].status = seen[r].status /\ seen'[r].key = seen[r].key
        /\ seen'[r].balance = balance[a]
    BY <1>6, <2>1 DEF ReadsAgent, LocksRow
  <2>3. StatementsOK'
    BY <1>6, <2>1 DEF ReadsAgent, LocksRow, TypeOK
  <2>4. Exclusive'
    BY <1>3, <1>6, <2>2 DEF Exclusive, ReadsAgent, LocksRow, Unlocked
  <2>5. HoldsItsRows(r)' /\ SeenIsCurrent(r)'
    BY <1>1, <1>2, <2>1, <2>2 DEF HoldsItsRows, SeenIsCurrent, database, asked
  <2> QED  BY <1>4, <2>3, <2>4, <2>5
<1>7. CASE ReadsPayment(r)
  <2>1. /\ step[r] = 3 /\ step'[r] = 4 /\ UNCHANGED locked
        /\ seen'[r].status = seen[r].status /\ seen'[r].key = seen[r].key
        /\ seen'[r].balance = seen[r].balance
        /\ seen'[r].payment = payment[wanted[r].order]
    BY <1>7 DEF ReadsPayment
  <2>2. StatementsOK'
    BY <1>7, <2>1 DEF ReadsPayment, TypeOK, HoldsItsRows
  <2>3. Exclusive'
    BY <2>1 DEF Exclusive
  <2>4. HoldsItsRows(r)' /\ SeenIsCurrent(r)'
    BY <1>1, <1>2, <2>1 DEF HoldsItsRows, SeenIsCurrent, database, asked
  <2> QED  BY <1>4, <2>2, <2>3, <2>4
<1> QED  BY <1>5, <1>6, <1>7

(* The provider, and a handler that gives up on it, touch no row.          *)
LEMMA ElsewhereKeepsInv ==
  ASSUME LockInv, TypeOK, UNCHANGED <<database, asked, statements>>, InFlight' \in SUBSET InFlight
  PROVE  LockInv'
BY DEF LockInv, StatementsOK, Exclusive, HoldsItsRows, SeenIsCurrent, database, asked, statements

LEMMA LockStepKeepsInv ==
  ASSUME RowLocks, IssueInv, LockInv, [LockNext]_lockVars
  PROVE  LockInv'
<1> TypeOK
  BY DEF IssueInv
<1>1. CASE UNCHANGED lockVars
  BY <1>1, ElsewhereKeepsInv DEF lockVars, vars, InFlight
<1>2. ASSUME NEW r \in Requests, NEW a \in Agents, NEW o \in Orders, NEW k \in Keys,
             FindsNoOrder(r, a, o, k)
      PROVE  LockInv'
  <2>1. UNCHANGED <<database, statements>> /\ InFlight' = InFlight
        /\ \A q \in InFlight : orderOf'[q] = orderOf[q] /\ keyOf'[q] = keyOf[q]
    BY <1>2 DEF FindsNoOrder, OrderNotFound, Asks, AnswersAtOnce, InFlight, TypeOK
  <2> QED  BY <2>1 DEF LockInv, StatementsOK, Exclusive, HoldsItsRows, SeenIsCurrent, database,
           statements
<1>3. ASSUME NEW r \in Requests, NEW o \in Orders, NEW k \in Keys, Opens(r, o, k)
      PROVE  LockInv'
  <2>1. UNCHANGED <<database, asked, seen, locked>> /\ InFlight' = InFlight
        /\ r \notin InFlight
    BY <1>3 DEF Opens, vars, InFlight
  <2>2. step'[r] = 1 /\ wanted'[r].order = o /\ wanted'[r].key = k
    BY <1>3 DEF Opens, LockInv, StatementsOK
  <2>3. \A q \in Requests \ {r} : step'[q] = step[q] /\ wanted'[q] = wanted[q]
    BY <1>3 DEF Opens, LockInv, StatementsOK
  <2>4. StatementsOK' /\ Exclusive'
    BY <1>3 DEF Opens, LockInv, StatementsOK, Exclusive
  <2>5. HoldsItsRows(r)' /\ SeenIsCurrent(r)'
    BY <2>1, <2>2 DEF HoldsItsRows, SeenIsCurrent
  <2>6. \A q \in Requests \ {r} : HoldsItsRows(q)' /\ SeenIsCurrent(q)'
    BY <2>1, <2>3 DEF LockInv, HoldsItsRows, SeenIsCurrent, database, asked
  <2> QED  BY <2>4, <2>5, <2>6 DEF LockInv
<1>4. ASSUME NEW r \in Requests, OpensLast(r)
      PROVE  LockInv'
  <2>1. UNCHANGED <<database, asked, wanted, seen, locked>> /\ InFlight' = InFlight
        /\ r \in InFlight
    BY <1>4 DEF OpensLast, vars, InFlight
  <2>2. step'[r] = 1 /\ \A q \in Requests \ {r} : step'[q] = step[q]
    BY <1>4 DEF OpensLast, LockInv, StatementsOK
  <2>3. StatementsOK' /\ Exclusive'
    BY <1>4 DEF OpensLast, LockInv, StatementsOK, Exclusive
  <2>4. wanted[r].order \in Orders /\ wanted[r].key \in Keys
    BY <2>1 DEF LockInv, HoldsItsRows, IssueInv, CallsCarryKey
  <2>5. \A q \in Requests : HoldsItsRows(q)' /\ SeenIsCurrent(q)'
    BY <2>1, <2>2, <2>4 DEF LockInv, HoldsItsRows, SeenIsCurrent, database, asked
  <2> QED  BY <2>3, <2>5 DEF LockInv
<1>5. ASSUME NEW r \in Requests, HandlerStep(r)
      PROVE  LockInv'
  BY <1>4, <1>5, ReadsKeepInv, EndsKeepsInv DEF HandlerStep
<1>6. ASSUME NEW r \in Requests, (ProviderIssues(r) \/ ProviderRejects(r)) /\ UNCHANGED statements
      PROVE  LockInv'
  BY <1>6, ElsewhereKeepsInv DEF ProviderIssues, ProviderRejects, InFlight, TypeOK
<1>7. ASSUME NEW r \in Requests, GivesUp(r)
      PROVE  LockInv'
  BY <1>7, ElsewhereKeepsInv DEF GivesUp, CallTimesOut, Expirable, InFlight, TypeOK
<1>8. ASSUME NEW r \in Requests, Dies(r)
      PROVE  LockInv'
  <2>1. Closes(r) /\ UNCHANGED <<database, asked>>
        /\ InFlight' \in SUBSET InFlight /\ r \notin InFlight'
    BY <1>8 DEF Dies, HandlerLost, vars, InFlight, TypeOK
  <2>2. /\ step'[r] = 0 /\ UNCHANGED wanted /\ locked'[r] = {}
        /\ \A q \in Requests \ {r} : /\ step'[q] = step[q] /\ seen'[q] = seen[q]
                                      /\ locked'[q] = locked[q]
    BY <2>1 DEF Closes, LockInv, StatementsOK
  <2>3. StatementsOK' /\ Exclusive'
    <3>1. StatementsOK'
      BY <2>1 DEF Closes, LockInv, StatementsOK, NoRows, Statuses, Payments
    <3>2. Exclusive'
      BY <2>2 DEF LockInv, Exclusive
    <3> QED  BY <3>1, <3>2
  <2>4. \A q \in Requests : HoldsItsRows(q)' /\ SeenIsCurrent(q)'
    BY <2>1, <2>2 DEF LockInv, HoldsItsRows, SeenIsCurrent, database, asked
  <2> QED  BY <2>3, <2>4 DEF LockInv
<1> QED  BY <1>1, <1>2, <1>3, <1>5, <1>6, <1>7, <1>8 DEF LockNext
-----------------------------------------------------------------------------
(* On a database that locks rows, issue_order one statement at a time      *)
(* implements TicketIssue: all that is proved there holds here.            *)
THEOREM LocksMakeAtomic == ASSUME RowLocks PROVE LockSpec => IssueIsAtomic
<1> DEFINE Both == IssueInv /\ LockInv
<1>1. LockInit => Init /\ Both
  BY InitLockInv, InitIssueInv DEF LockInit
<1>2. Both /\ [LockNext]_lockVars => [Next]_vars /\ Both'
  BY Simulates, StepKeepsInv, LockStepKeepsInv
<1> QED  BY <1>1, <1>2, PTL DEF LockSpec, IssueIsAtomic, Spec

(* Hence no interleaving of their statements makes handlers lose a debit   *)
(* or a refund of one another, or take an issued ticket back.              *)
THEOREM NothingLost ==
  ASSUME RowLocks
  PROVE  LockSpec => BalanceFollowsCharges /\ LedgerSpec /\ IssuedIsFinal
BY LocksMakeAtomic, BalancesFollow, LedgerRefined, IssuedStays, PTL DEF IssueIsAtomic

(* Nor debit an agent twice, nor take back a ticket somebody was told of,  *)
(* nor deny a patient agent its money, its refund or the row of its call.  *)
THEOREM PromisesKept ==
  ASSUME RowLocks
  PROVE  LockSpec => /\ [](NoDoubleDebit /\ ToldIssued /\ PatientPay /\ PatientCallsAudited)
                     /\ FailureRefunds
BY LocksMakeAtomic, NeverDebitedTwice, AnswerIsKept, PatientAgentsPay, PatientCallsTraced,
   RefundedOnFailure, PTL DEF IssueIsAtomic

(* Types; in particular no handler computes with a balance below zero.     *)
THEOREM StatementTypes == ASSUME RowLocks PROVE LockSpec => []StatementsOK
<1> DEFINE Both == IssueInv /\ LockInv
<1>1. LockInit => Both
  BY InitLockInv, InitIssueInv DEF LockInit
<1>2. Both /\ [LockNext]_lockVars => Both'
  BY Simulates, StepKeepsInv, LockStepKeepsInv
<1>3. Both => StatementsOK
  BY DEF LockInv
<1> QED  BY <1>1, <1>2, <1>3, PTL DEF LockSpec
-----------------------------------------------------------------------------
(***************************************************************************)
(* Deadlock.  What a transaction has locked is a prefix of the order in    *)
(* which all of them take their rows.                                      *)
(***************************************************************************)
TakenInOrder(r) ==
  /\ step[r] \in {0, 1} => locked[r] = {}
  /\ step[r] = 2 => locked[r] \subseteq {wanted[r].order}
  /\ locked[r] \subseteq {wanted[r].order, Owner[wanted[r].order]}

InOrder == \A r \in Requests : TakenInOrder(r)

(* A step of r touches the locks of nobody else.                           *)
LEMMA OthersKeepOrder ==
  ASSUME InOrder, NEW r \in Requests, TakenInOrder(r)',
         \A q \in Requests \ {r} : step'[q] = step[q] /\ wanted'[q] = wanted[q] /\ locked'[q] = locked[q]
  PROVE  InOrder'
BY DEF InOrder, TakenInOrder

LEMMA LockStepKeepsOrder ==
  ASSUME LockInv, InOrder, [LockNext]_lockVars
  PROVE  InOrder'
<1> USE DEF LockInv, StatementsOK
<1>1. CASE UNCHANGED statements
  BY <1>1 DEF statements, InOrder, TakenInOrder
<1>2. ASSUME NEW r \in Requests, NEW o \in Orders, NEW k \in Keys, Opens(r, o, k)
      PROVE  InOrder'
  <2>1. step[r] = 0
    BY <1>2, ConstantsOK DEF Opens, HoldsItsRows, ConstantsOK
  <2>2. locked'[r] = {}
    BY <1>2, <2>1 DEF Opens, InOrder, TakenInOrder
  <2>3. TakenInOrder(r)'
    BY <1>2, <2>2 DEF Opens, TakenInOrder
  <2> QED  BY <1>2, <2>3, OthersKeepOrder DEF Opens
<1>3. ASSUME NEW r \in Requests, OpensLast(r)
      PROVE  InOrder'
  <2>1. TakenInOrder(r)'
    BY <1>3 DEF OpensLast, InOrder, TakenInOrder
  <2> QED  BY <1>3, <2>1, OthersKeepOrder DEF OpensLast
<1>4. ASSUME NEW r \in Requests, NEW row, LocksRow(r, row)
      PROVE  InOrder'
  <2>1. locked'[r] \subseteq locked[r] \cup {row} /\ step'[r] = step[r] + 1
    BY <1>4 DEF LocksRow
  <2>2. CASE step[r] = 1
    <3>1. row = wanted[r].order /\ locked[r] = {}
      BY <1>4, <2>2 DEF LocksRow, LockOrder, InOrder, TakenInOrder
    <3>2. TakenInOrder(r)'
      BY <1>4, <2>1, <2>2, <3>1 DEF LocksRow, TakenInOrder
    <3> QED  BY <1>4, <3>2, OthersKeepOrder DEF LocksRow
  <2>3. CASE step[r] = 2
    <3>1. row = Owner[wanted[r].order] /\ locked[r] \subseteq {wanted[r].order}
      BY <1>4, <2>3 DEF LocksRow, LockOrder, InOrder, TakenInOrder
    <3>2. TakenInOrder(r)'
      BY <1>4, <2>1, <2>3, <3>1 DEF LocksRow, TakenInOrder
    <3> QED  BY <1>4, <3>2, OthersKeepOrder DEF LocksRow
  <2> QED  BY <1>4, <2>2, <2>3 DEF LocksRow
<1>5. ASSUME NEW r \in Requests, ReadsPayment(r)
      PROVE  InOrder'
  <2>1. TakenInOrder(r)'
    BY <1>5 DEF ReadsPayment, InOrder, TakenInOrder
  <2> QED  BY <1>5, <2>1, OthersKeepOrder DEF ReadsPayment
<1>6. ASSUME NEW r \in Requests, Closes(r)
      PROVE  InOrder'
  <2>1. TakenInOrder(r)'
    BY <1>6 DEF Closes, TakenInOrder
  <2> QED  BY <1>6, <2>1, OthersKeepOrder DEF Closes
<1>7. ASSUME NEW r \in Requests, HandlerStep(r)
      PROVE  InOrder'
  BY <1>3, <1>4, <1>5, <1>6, <1>7 DEF HandlerStep, ReadsOrder, ReadsAgent, EndsFirst, EndsLast
<1> QED
  BY <1>1, <1>2, <1>6, <1>7 DEF LockNext, FindsNoOrder, GivesUp, Dies, lockVars

(* Who waits for a row that is locked, and for whom.                       *)
LEMMA WaitsForWhom ==
  ASSUME LockInv, InOrder, NEW r \in Requests, NEW q \in WaitsFor(r)
  PROVE  /\ q \in Requests
         /\ step[q] \in 2..4
         /\ step[r] = 2 => step[q] \in 3..4
<1> USE DEF LockInv, StatementsOK, InOrder
<1>1. q \in Requests /\ step[r] \in {1, 2} /\ LockOrder(r)[step[r]] \in locked[q]
  BY DEF WaitsFor
<1>2. step[q] \in 0..4 /\ step[q] \notin {0, 1}
  BY <1>1 DEF TakenInOrder
<1>3. CASE step[r] = 2
  <2>1. wanted[r].order \in Orders /\ wanted[q].order \in Orders
    BY <1>1, <1>2 DEF HoldsItsRows
  <2>2. Owner[wanted[r].order] \in Agents /\ Owner[wanted[r].order] \in locked[q]
    BY <1>1, <1>3, <2>1, ConstantsOK DEF LockOrder, ConstantsOK
  <2>3. step[q] # 2
    BY <1>1, <2>1, <2>2, TransactionsOK DEF TakenInOrder, TransactionsOK
  <2> QED  BY <1>1, <1>2, <2>3
<1> QED  BY <1>1, <1>2, <1>3

(* The transactions never wait for one another in a circle.                *)
THEOREM NoCircle == ASSUME RowLocks PROVE LockSpec => []NoDeadlock
<1> DEFINE All == IssueInv /\ LockInv /\ InOrder
<1>1. LockInit => All
  BY InitLockInv, InitIssueInv DEF LockInit, InOrder, TakenInOrder
<1>2. All /\ [LockNext]_lockVars => All'
  BY Simulates, StepKeepsInv, LockStepKeepsInv, LockStepKeepsOrder
<1>3. All => NoDeadlock
  <2> SUFFICES ASSUME All, NEW r \in Requests, NEW q \in WaitsFor(r), NEW p \in WaitsFor(q)
               PROVE  WaitsFor(p) = {}
    BY DEF NoDeadlock
  <2>1. q \in Requests /\ step[q] \in 2..4
    BY WaitsForWhom
  <2>2. step[q] \in {1, 2}
    BY DEF WaitsFor
  <2>3. p \in Requests /\ step[p] \in 3..4
    BY <2>1, <2>2, WaitsForWhom
  <2> QED  BY <2>3 DEF WaitsFor
<1> QED  BY <1>1, <1>2, <1>3, PTL DEF LockSpec
=============================================================================
