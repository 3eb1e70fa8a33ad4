SPECIFICATION FairSpec
CONSTANTS
  q1 = q1
  q2 = q2
  route = route
  Searches = {s1, s2}
  Queries = {q1}
  Routes = {route}
  RouteOf <- MCRouteOf
  None = None
  MaxDeliveries = 2
  UseBroker = TRUE
  CacheUp = TRUE
INVARIANTS
  TypeOK
  CompletedHasOffers
  UnfinishedIsQueued
  CallsAudited
  TrailIsLinked
PROPERTIES
  DispatchedFinishes
  SearchedAfresh
CHECK_DEADLOCK FALSE
