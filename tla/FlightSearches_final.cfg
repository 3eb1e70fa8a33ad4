SPECIFICATION Spec
CONSTANTS
  q1 = q1
  q2 = q2
  route = route
  Searches = {s1}
  Queries = {q1, q2}
  Routes = {route}
  RouteOf <- MCRouteOf
  None = None
  MaxDeliveries = 2
  UseBroker = TRUE
  CacheUp = TRUE
PROPERTIES
  FinalIsFinal
CHECK_DEADLOCK FALSE
