SPECIFICATION Spec
CONSTANTS
  q1 = q1
  q2 = q2
  route = route
  Searches = {s1, s2}
  Queries = {q1, q2}
  Routes = {route}
  RouteOf <- MCRouteOf
  None = None
  MaxDeliveries = 1
  UseBroker = FALSE
  CacheUp = FALSE
INVARIANT FailedByFault
CHECK_DEADLOCK FALSE
