SPECIFICATION FairLockSpec
CONSTANTS
  a1 = a1
  a2 = a2
  o1 = o1
  o2 = o2
  o3 = o3
  Agents = {a1, a2}
  Orders = {o1, o2}
  Keys = {k1, k2}
  Requests = {r1, r2, r3}
  Owner <- MCOwner
  Amount <- MCAmount
  Opening <- MCOpening
  NoKey = NoKey
  NoOrder = NoOrder
  ProviderIsRemote = FALSE
  Patient = {}
  RowLocks = TRUE
INVARIANTS
  StatementsOK
  NoDeadlock
PROPERTIES
  IssueIsAtomic
  TransactionsEnd
  HoldSettles
  RequestsEnd
CHECK_DEADLOCK FALSE
