SPECIFICATION Spec
CONSTANTS
  a1 = a1
  a2 = a2
  f1 = f1
  f2 = f2
  b1 = b1
  b2 = b2
  b3 = b3
  Agents = {a1, a2}
  Keys = {k1}
  Offers = {f1, f2}
  Bodies = {b1, b2, b3}
  Requests = {r1, r2}
  OfferOf <- MCOfferOf
  OfferAgent <- MCOfferAgent
  None = None
  ProviderIsRemote = FALSE
  KeyedBookings = TRUE
INVARIANT RepeatGetsTheOrder
CHECK_DEADLOCK FALSE
