------------------------ MODULE FlightSearchesProofs ------------------------
(***************************************************************************)
(* Proofs about FlightSearches, for all searches, queries, routes and      *)
(* numbers of deliveries, with and without the broker and the cache.       *)
(*                                                                         *)
(* Every step of a handler rests on two facts: what has a message or a     *)
(* handler is a search that was stored (Known), and a message that is not  *)
(* acknowledged belongs to one of the deliveries (Numbered).               *)
(***************************************************************************)
EXTENDS FlightSearches, SequenceTheorems, TLAPS

LEMMA DeliveryParts ==
  ASSUME NEW d \in Deliveries
  PROVE  d[1] \in Searches /\ d[2] \in 1..MaxDeliveries /\ d = <<d[1], d[2]>>
BY DEF Deliveries

LEMMA SetStatusTypes ==
  ASSUME TypeOK, NEW s \in Searches, NEW new \in Statuses, SetStatus(s, new)
  PROVE  /\ status' \in [Searches -> Statuses \cup {"NONE"}]
         /\ trail' \in [Searches -> Seq(Transitions)]
<1>1. [before |-> BeforeStatus(s), after |-> new] \in Transitions
  BY DEF TypeOK, BeforeStatus, Transitions
<1> QED
  BY <1>1 DEF TypeOK, SetStatus

LEMMA RequeueTypes ==
  ASSUME TypeOK, NEW d \in Deliveries
  PROVE  /\ Requeues(d) \in [Searches -> {"none", "ready", "unacked", "acked"}]
         /\ Acknowledges(d) \in [Searches -> {"none", "ready", "unacked", "acked"}]
BY DeliveryParts DEF TypeOK, Requeues, Acknowledges

LEMMA StartTypes ==
  ASSUME TypeOK, NEW s \in Searches,
         \/ \E q \in Queries : StoresSearch(s, q)
         \/ CachesSearch(s) \/ Dispatches(s) \/ StartLost(s) \/ Expires(s) \/ Delivers(s),
         status[s] # "NONE" => query[s] \in Queries
  PROVE  TypeOK'
<1>1. ASSUME NEW q \in Queries, StoresSearch(s, q)
      PROVE  TypeOK'
  <2>1. "PENDING" \in Statuses
    BY DEF Statuses
  <2> QED
    BY <1>1, <2>1, SetStatusTypes DEF StoresSearch, TypeOK, queue
<1>2. CASE CachesSearch(s)
  BY <1>2 DEF CachesSearch, TypeOK, database, queue
<1>3. CASE Dispatches(s)
  <2>1. <<s, 1>> \in Deliveries /\ 1 \in 0..MaxDeliveries
    BY ConstantsOK DEF Deliveries
  <2> QED
    BY <1>3, <2>1 DEF Dispatches, HandlerStates, Active, Caught, TypeOK, database
<1>4. CASE StartLost(s)
  BY <1>4 DEF StartLost, TypeOK, database, queue
<1>5. CASE Expires(s)
  BY <1>5 DEF Expires, TypeOK, database, queue
<1>6. CASE Delivers(s)
  <2>1. delivered[s] + 1 \in 1..MaxDeliveries
    BY <1>6, ConstantsOK DEF Delivers, TypeOK
  <2>2. <<s, delivered[s] + 1>> \in Deliveries
    BY <2>1 DEF Deliveries
  <2>3. /\ pc' \in [Deliveries -> HandlerStates]
        /\ delivered' \in [Searches -> 0..MaxDeliveries]
        /\ message' \in [Searches -> {"none", "ready", "unacked", "acked"}]
    <3>1. delivered[s] + 1 \in 0..MaxDeliveries /\ "taken" \in HandlerStates
      BY <2>1, ConstantsOK DEF HandlerStates, Active
    <3> QED
      BY <1>6, <3>1 DEF Delivers, TypeOK
  <2> QED
    BY <1>6, <2>3 DEF Delivers, TypeOK, database
<1> QED
  BY <1>1, <1>2, <1>3, <1>4, <1>5, <1>6

LEMMA HandlerTypes ==
  ASSUME TypeOK, NEW d \in Deliveries,
         HandlerStep(d) \/ Environment(d),
         pc[d] # "idle" => query[d[1]] \in Queries
  PROVE  TypeOK'
<1> d[1] \in Searches
  BY DeliveryParts
<1>1. CASE Skips(d)
  BY <1>1, RequeueTypes DEF Skips, HandlerStates, Active, Caught, TypeOK, database
<1>2. CASE CallsProvider(d)
  <2>1. "IN_PROGRESS" \in Statuses
    BY DEF Statuses
  <2> QED
    BY <1>2, <2>1, SetStatusTypes DEF CallsProvider, HandlerStates, Active, Caught, TypeOK, queue
<1>3. CASE CallTimesOut(d)
  BY <1>3 DEF CallTimesOut, HandlerStates, Active, Caught, TypeOK, database, queue
<1>4. CASE SavesOffers(d) \/ CommitUnheard(d)
  <2>1. "COMPLETED" \in Statuses
    BY DEF Statuses
  <2>2. StoresOffers(d) /\ SetStatus(d[1], "COMPLETED")
    BY <1>4 DEF SavesOffers, CommitUnheard, StoresOffers
  <2>3. message' = Acknowledges(d) \/ message' = message
    BY <1>4 DEF SavesOffers, CommitUnheard
  <2>4. pc' = [pc EXCEPT ![d] = "returned"] \/ pc' = [pc EXCEPT ![d] = "unheard"]
    BY <1>4 DEF SavesOffers, CommitUnheard
  <2>5. /\ offersOf' \in [Routes -> Searches \cup {None}]
        /\ audited' \in SUBSET CallRows
        /\ UNCHANGED <<query, error, expired, cache, starting, delivered>>
    <3>1. <<d, "offers">> \in CallRows /\ <<d, "no offers">> \in CallRows
      BY DEF CallRows, Answers
    <3> QED
      BY <2>2, <3>1 DEF StoresOffers, TypeOK
  <2>6. /\ message' \in [Searches -> {"none", "ready", "unacked", "acked"}]
        /\ pc' \in [Deliveries -> HandlerStates]
    BY <2>3, <2>4, RequeueTypes DEF TypeOK, HandlerStates, Active, Caught
  <2> QED
    BY <2>1, <2>2, <2>5, <2>6, SetStatusTypes DEF TypeOK
<1>5. CASE OffersTaken(d)
  BY <1>5 DEF OffersTaken, HandlerStates, Active, Caught, TypeOK, database, queue
<1>6. CASE SavesFailure(d)
  <2>1. FailureOf(d) \in Statuses
    BY DEF Statuses, FailureOf
  <2>2. SetStatus(d[1], FailureOf(d))
    BY <1>6 DEF SavesFailure
  <2>3. /\ message' = Acknowledges(d)
        /\ error' \in [Searches -> Errors]
        /\ audited' \in SUBSET CallRows
        /\ pc' = [pc EXCEPT ![d] = "returned"]
        /\ UNCHANGED <<query, offersOf, expired, cache, starting, delivered>>
    <3>1. <<d, "error">> \in CallRows
      BY DEF CallRows, Answers
    <3> QED
      BY <1>6, <3>1 DEF SavesFailure, Errors, TypeOK
  <2> QED
    BY <2>1, <2>2, <2>3, SetStatusTypes, RequeueTypes DEF HandlerStates, Active, Caught, TypeOK
<1>7. CASE ProviderFinds(d)
  BY <1>7 DEF ProviderFinds, HandlerStates, Active, Caught, TypeOK, database, queue
<1>8. CASE ProviderFails(d) \/ SaveFails(d)
  BY <1>8 DEF ProviderFails, SaveFails, HandlerStates, Active, Caught, TypeOK, database, queue
<1>9. CASE ConnectionLost(d)
  BY <1>9, RequeueTypes DEF ConnectionLost, TypeOK, database
<1>10. CASE HandlerLost(d)
  BY <1>10, RequeueTypes DEF HandlerLost, HandlerStates, Active, Caught, TypeOK, database
<1> QED
  BY <1>1, <1>2, <1>3, <1>4, <1>5, <1>6, <1>7, <1>8, <1>9, <1>10
     DEF HandlerStep, Environment

(***************************************************************************)
(* What is being handled was stored.                                       *)
(***************************************************************************)
Known ==
  /\ \A s \in Searches :
       /\ status[s] # "NONE" => query[s] \in Queries
       /\ starting[s] # "no" \/ message[s] # "none" => status[s] # "NONE"
  /\ \A d \in Deliveries : pc[d] # "idle" => status[d[1]] # "NONE"

Base == TypeOK /\ Known

LEMMA StoredStaysStored ==
  ASSUME TypeOK, NEW s \in Searches, NEW new \in Statuses, SetStatus(s, new)
  PROVE  /\ status'[s] # "NONE"
         /\ \A t \in Searches : status[t] # "NONE" => status'[t] # "NONE"
BY DEF TypeOK, SetStatus, Statuses

LEMMA StartKnown ==
  ASSUME Base, NEW s \in Searches,
         \/ \E q \in Queries : StoresSearch(s, q)
         \/ CachesSearch(s) \/ Dispatches(s) \/ StartLost(s) \/ Expires(s) \/ Delivers(s)
  PROVE  Known'
<1>1. ASSUME NEW q \in Queries, StoresSearch(s, q)
      PROVE  Known'
  <2>1. /\ status'[s] # "NONE"
        /\ \A t \in Searches : status[t] # "NONE" => status'[t] # "NONE"
        /\ \A t \in Searches : t # s => status'[t] = status[t]
    BY <1>1, StoredStaysStored DEF StoresSearch, Base, Statuses, SetStatus, TypeOK
  <2> QED
    BY <1>1, <2>1, DeliveryParts DEF StoresSearch, Base, Known, TypeOK, queue
<1>2. CASE CachesSearch(s)
  BY <1>2 DEF CachesSearch, Base, Known, TypeOK, database, queue
<1>3. CASE Dispatches(s)
  <2>1. <<s, 1>> \in Deliveries
    BY ConstantsOK DEF Deliveries
  <2> QED
    BY <1>3, <2>1, DeliveryParts DEF Dispatches, Base, Known, TypeOK, database
<1>4. CASE StartLost(s)
  BY <1>4 DEF StartLost, Base, Known, TypeOK, database, queue
<1>5. CASE Expires(s)
  BY <1>5 DEF Expires, Base, Known, database, queue
<1>6. CASE Delivers(s)
  BY <1>6, DeliveryParts DEF Delivers, Base, Known, TypeOK, database
<1> QED
  BY <1>1, <1>2, <1>3, <1>4, <1>5, <1>6

(* The broker only moves messages that are there. *)
LEMMA RequeueKnown ==
  ASSUME TypeOK, NEW d \in Deliveries, NEW s \in Searches,
         message' \in {message, Requeues(d), Acknowledges(d)}, message'[s] # "none"
  PROVE  message[s] # "none"
BY DeliveryParts DEF Requeues, Acknowledges, Latest, TypeOK

LEMMA HandlerKnown ==
  ASSUME Base, NEW d \in Deliveries,
         HandlerStep(d) \/ Environment(d)
  PROVE  Known'
<1> d[1] \in Searches
  BY DeliveryParts
<1>1. UNCHANGED <<query, starting>> /\ message' \in {message, Requeues(d), Acknowledges(d)}
  BY DEF HandlerStep, Environment, Skips, CallsProvider, CallTimesOut, StoresOffers,
     SavesOffers, OffersTaken, SavesFailure, ProviderFinds, ProviderFails, SaveFails,
     CommitUnheard, ConnectionLost, HandlerLost,
     database, queue
<1>2. \A e \in Deliveries : pc'[e] # "idle" => pc[e] # "idle"
  BY DEF HandlerStep, Environment, Skips, CallsProvider, CallTimesOut, StoresOffers,
     SavesOffers, OffersTaken, SavesFailure, ProviderFinds, ProviderFails, SaveFails,
     CommitUnheard, ConnectionLost, HandlerLost, Running, Active,
     Saving, Caught, Base, TypeOK
<1>3. status' = status \/ \E new \in Statuses : SetStatus(d[1], new) /\ pc[d] # "idle"
  <2>1. FailureOf(d) \in Statuses /\ {"IN_PROGRESS", "COMPLETED"} \subseteq Statuses
    BY DEF FailureOf, Statuses
  <2> QED
    BY <2>1 DEF HandlerStep, Environment, Skips, CallsProvider, CallTimesOut, StoresOffers,
       Saving, SavesOffers, OffersTaken, SavesFailure, ProviderFinds, ProviderFails, SaveFails,
       CommitUnheard, ConnectionLost, HandlerLost, Caught, database
<1>4. \A s \in Searches : status[s] # "NONE" <=> status'[s] # "NONE"
  <2>1. CASE status' = status
    BY <2>1
  <2>2. ASSUME NEW new \in Statuses, SetStatus(d[1], new), pc[d] # "idle"
        PROVE  \A s \in Searches : status[s] # "NONE" <=> status'[s] # "NONE"
    BY <2>2 DEF SetStatus, Base, Known, TypeOK, Statuses
  <2> QED
    BY <1>3, <2>1, <2>2
<1> QED
  BY <1>1, <1>2, <1>4, RequeueKnown, DeliveryParts DEF Base, Known

LEMMA BaseInductive == Base /\ [Next]_vars => Base'
<1> SUFFICES ASSUME Base, [Next]_vars
             PROVE  Base'
  OBVIOUS
<1>1. ASSUME NEW s \in Searches,
             \/ \E q \in Queries : StoresSearch(s, q)
             \/ CachesSearch(s) \/ Dispatches(s) \/ StartLost(s) \/ Expires(s) \/ Delivers(s)
      PROVE  Base'
  BY <1>1, StartTypes, StartKnown DEF Base, Known
<1>2. ASSUME NEW d \in Deliveries,
             HandlerStep(d) \/ Environment(d)
      PROVE  Base'
  <2>1. TypeOK /\ (pc[d] # "idle" => query[d[1]] \in Queries)
    BY DeliveryParts DEF Base, Known
  <2> QED
    BY <1>2, <2>1, HandlerTypes, HandlerKnown DEF Base
<1>3. ASSUME NEW q \in Queries, CacheForgets(q)
      PROVE  Base'
  BY <1>3 DEF CacheForgets, Base, TypeOK, Known, database, queue
<1>4. CASE UNCHANGED vars
  BY <1>4 DEF vars, Base, TypeOK, Known, database, queue
<1> QED
  BY <1>1, <1>2, <1>3, <1>4 DEF Next

LEMMA BaseInvariant == Spec => []Base
<1>1. Init => Base
  BY ConstantsOK DEF Init, Base, TypeOK, Known, Errors, HandlerStates
<1> QED
  BY <1>1, BaseInductive, PTL DEF Spec

(* Whatever is delivered again, lost or run twice, every row, message and  *)
(* handler is in one of its states.                                        *)
THEOREM SearchTypes == Spec => []TypeOK
BY BaseInvariant, PTL DEF Base

(***************************************************************************)
(* Steps that touch no row of the database, and the ones that do.          *)
(***************************************************************************)
Writes ==
  \/ \E s \in Searches, q \in Queries : StoresSearch(s, q)
  \/ \E d \in Deliveries : CallsProvider(d) \/ StoresOffers(d) \/ SavesFailure(d)

LEMMA OthersWriteNothing ==
  ASSUME [Next]_vars, ~ Writes
  PROVE  UNCHANGED <<query, status, error, offersOf, trail, audited>>
BY DEF Next, Writes, HandlerStep, Environment, SavesOffers, SaveFails, CommitUnheard,
   CachesSearch, Dispatches, StartLost, Expires, Delivers,
   CacheForgets, Skips, CallTimesOut, OffersTaken, ProviderFinds, ProviderFails,
   ConnectionLost, HandlerLost, vars, database

(***************************************************************************)
(* Offers.                                                                 *)
(***************************************************************************)
(* A search whose trail passed through COMPLETED keeps that row.           *)
LEMMA TrailKeepsRows ==
  ASSUME TypeOK, NEW s \in Searches, NEW new \in Statuses, SetStatus(s, new)
  PROVE  /\ \A t \in Searches : Completed(t) => Completed(t)'
         /\ new = "COMPLETED" => Completed(s)'
<1> DEFINE row == [before |-> BeforeStatus(s), after |-> new]
           old == trail[s]
<1>1. /\ old \in Seq(Transitions) /\ row \in Transitions /\ row.after = new
      /\ trail'[s] = Append(old, row)
      /\ \A t \in Searches : t # s => trail'[t] = trail[t]
  BY DEF SetStatus, BeforeStatus, TypeOK, Transitions
<1>2. /\ Len(trail'[s]) = Len(old) + 1 /\ Len(old) \in Nat
      /\ trail'[s] \in Seq(Transitions)
      /\ trail'[s][Len(old) + 1] = row
      /\ \A i \in 1..Len(old) : trail'[s][i] = old[i]
  BY <1>1, AppendProperties
<1>3. DOMAIN old = 1..Len(old) /\ DOMAIN trail'[s] = 1..(Len(old) + 1)
  BY <1>1, <1>2
<1>4. Completed(s) => Completed(s)'
  BY <1>2, <1>3 DEF Completed
<1>5. new = "COMPLETED" => Completed(s)'
  BY <1>1, <1>2, <1>3 DEF Completed
<1> QED
  BY <1>1, <1>4, <1>5 DEF Completed

(* The two halves of CompletedHasOffers; the searches that own offers are  *)
(* stored, so that no later StoresSearch gives them another query.         *)
OffersFound ==
  \A s \in Searches : status[s] = "COMPLETED" =>
    \/ offersOf[RouteOf[query[s]]] = s
    \/ \E d \in Deliveries : d[1] = s /\ <<d, "no offers">> \in audited

OffersOwned ==
  \A rt \in Routes : offersOf[rt] # None =>
    /\ status[offersOf[rt]] # "NONE"
    /\ RouteOf[query[offersOf[rt]]] = rt
    /\ Completed(offersOf[rt])

LEMMA FoundInductive ==
  ASSUME Base, OffersFound, [Next]_vars
  PROVE  OffersFound'
<1>1. ASSUME NEW s \in Searches, NEW q \in Queries, StoresSearch(s, q)
      PROVE  OffersFound'
  BY <1>1 DEF StoresSearch, SetStatus, Base, TypeOK, OffersFound
<1>2. ASSUME NEW d \in Deliveries, CallsProvider(d)
      PROVE  OffersFound'
  BY <1>2, DeliveryParts DEF CallsProvider, SetStatus, Base, TypeOK, OffersFound
<1>3. ASSUME NEW d \in Deliveries, StoresOffers(d)
      PROVE  OffersFound'
  <2> DEFINE s == d[1]
             rt == RouteOf[query[s]]
  <2>1. s \in Searches /\ query[s] \in Queries /\ rt \in Routes
    BY <1>3, DeliveryParts, ConstantsOK DEF StoresOffers, Saving, Base, Known
  <2>2. /\ status' = [status EXCEPT ![s] = "COMPLETED"]
        /\ query' = query
        /\ audited \subseteq audited'
    BY <1>3 DEF StoresOffers, SetStatus
  <2>3. \/ offersOf[rt] = None /\ offersOf' = [offersOf EXCEPT ![rt] = s]
        \/ offersOf' = offersOf /\ <<d, "no offers">> \in audited'
    BY <1>3 DEF StoresOffers, Saving, OffersFree
  <2>4. ASSUME NEW t \in Searches, status'[t] = "COMPLETED"
        PROVE  \/ offersOf'[RouteOf[query'[t]]] = t
               \/ \E e \in Deliveries : e[1] = t /\ <<e, "no offers">> \in audited'
    <3>1. CASE t = s
      BY <3>1, <2>1, <2>2, <2>3 DEF Base, TypeOK
    <3>2. CASE t # s
      <4>1. \/ offersOf[RouteOf[query[t]]] = t
            \/ \E e \in Deliveries : e[1] = t /\ <<e, "no offers">> \in audited
        BY <3>2, <2>1, <2>2, <2>4 DEF Base, TypeOK, OffersFound
      <4>2. RouteOf[query[t]] \in Routes
        BY <3>2, <2>1, <2>2, <2>4, ConstantsOK DEF Base, TypeOK, Known
      <4>3. CASE offersOf[RouteOf[query[t]]] = t
        <5>1. offersOf[rt] = None => RouteOf[query[t]] # rt
          BY <4>3, ConstantsOK
        <5> QED
          BY <4>2, <4>3, <5>1, <2>1, <2>2, <2>3 DEF Base, TypeOK
      <4> QED
        BY <4>1, <4>3, <2>2
    <3> QED
      BY <3>1, <3>2
  <2> QED
    BY <2>4 DEF OffersFound
<1>4. ASSUME NEW d \in Deliveries, SavesFailure(d)
      PROVE  OffersFound'
  <2>1. FailureOf(d) # "COMPLETED"
    BY DEF FailureOf
  <2>2. audited \subseteq audited' /\ UNCHANGED <<query, offersOf>>
    BY <1>4 DEF SavesFailure
  <2>3. \A t \in Searches : status'[t] = "COMPLETED" => status[t] = "COMPLETED"
    BY <1>4, <2>1 DEF SavesFailure, SetStatus, Base, TypeOK
  <2> QED
    BY <2>2, <2>3 DEF OffersFound
<1>5. CASE ~ Writes
  BY <1>5, OthersWriteNothing DEF OffersFound
<1> QED
  BY <1>1, <1>2, <1>3, <1>4, <1>5 DEF Writes

LEMMA OwnedInductive ==
  ASSUME Base, OffersOwned, [Next]_vars
  PROVE  OffersOwned'
<1>1. \A rt \in Routes : offersOf[rt] \in Searches \cup {None}
  BY DEF Base, TypeOK
<1>2. ASSUME NEW s \in Searches, NEW q \in Queries, StoresSearch(s, q)
      PROVE  OffersOwned'
  <2>1. SetStatus(s, "PENDING") /\ "PENDING" \in Statuses /\ status[s] = "NONE"
    BY <1>2 DEF StoresSearch, Statuses
  <2>2. \A t \in Searches : t # s => query'[t] = query[t]
    BY <1>2 DEF StoresSearch, Base, TypeOK
  <2>3. offersOf' = offersOf
    BY <1>2 DEF StoresSearch
  <2> QED
    BY <1>1, <2>1, <2>2, <2>3, TrailKeepsRows, StoredStaysStored DEF Base, OffersOwned
<1>3. ASSUME NEW d \in Deliveries, NEW new \in Statuses, SetStatus(d[1], new),
             UNCHANGED <<query, offersOf>>
      PROVE  OffersOwned'
  BY <1>1, <1>3, DeliveryParts, TrailKeepsRows, StoredStaysStored DEF Base, OffersOwned
<1>4. ASSUME NEW d \in Deliveries, CallsProvider(d) \/ SavesFailure(d)
      PROVE  OffersOwned'
  <2>1. FailureOf(d) \in Statuses /\ "IN_PROGRESS" \in Statuses
    BY DEF FailureOf, Statuses
  <2> QED
    BY <1>3, <1>4, <2>1 DEF CallsProvider, SavesFailure
<1>5. ASSUME NEW d \in Deliveries, StoresOffers(d)
      PROVE  OffersOwned'
  <2> DEFINE s == d[1]
             rt == RouteOf[query[s]]
  <2>1. s \in Searches /\ rt \in Routes
    BY <1>5, DeliveryParts, ConstantsOK DEF StoresOffers, Saving, Base, Known
  <2>2. SetStatus(s, "COMPLETED") /\ "COMPLETED" \in Statuses /\ query' = query
    BY <1>5 DEF StoresOffers, Statuses
  <2>3. /\ \A t \in Searches : Completed(t) => Completed(t)'
        /\ \A t \in Searches : status[t] # "NONE" => status'[t] # "NONE"
        /\ Completed(s)' /\ status'[s] # "NONE"
    BY <2>1, <2>2, TrailKeepsRows, StoredStaysStored DEF Base
  <2>4. CASE offersOf' = offersOf
    BY <1>1, <2>2, <2>3, <2>4 DEF OffersOwned
  <2>5. CASE offersOf' = [offersOf EXCEPT ![rt] = s]
    <3>1. /\ offersOf'[rt] = s
          /\ \A other \in Routes : other # rt => offersOf'[other] = offersOf[other]
      BY <2>1, <2>5 DEF Base, TypeOK
    <3>2. ASSUME NEW t \in Searches, NEW other \in Routes, offersOf'[other] = t
          PROVE  status'[t] # "NONE" /\ RouteOf[query'[t]] = other /\ Completed(t)'
      <4>1. CASE other = rt
        <5>1. t = s
          BY <4>1, <3>1, <3>2
        <5> QED
          BY <4>1, <5>1, <2>2, <2>3
      <4>2. CASE other # rt
        <5>1. offersOf[other] = t
          BY <4>2, <3>1, <3>2
        <5>2. status[t] # "NONE" /\ RouteOf[query[t]] = other /\ Completed(t)
          BY <3>2, <5>1, ConstantsOK DEF OffersOwned
        <5> QED
          BY <5>2, <2>2, <2>3
      <4> QED
        BY <4>1, <4>2
    <3>3. \A other \in Routes : offersOf'[other] \in Searches \cup {None}
      BY <1>1, <2>1, <3>1
    <3> QED
      BY <3>2, <3>3 DEF OffersOwned
  <2> QED
    BY <1>5, <2>4, <2>5 DEF StoresOffers
<1>6. CASE ~ Writes
  BY <1>6, OthersWriteNothing DEF OffersOwned, Completed
<1> QED
  BY <1>2, <1>4, <1>5, <1>6 DEF Writes

LEMMA OwnedInvariant == Spec => []OffersOwned
<1>1. Init => OffersOwned
  BY DEF Init, OffersOwned
<1>2. Base /\ OffersOwned /\ [Next]_vars => OffersOwned'
  BY OwnedInductive
<1> QED
  BY <1>1, <1>2, BaseInvariant, PTL DEF Spec

(* A COMPLETED search has the offers of its route, or was told that there  *)
(* are none, and stored offers are those of a search of their route that   *)
(* was COMPLETED with them, also when deliveries of one search, or         *)
(* searches of one route, store theirs at the same time.                   *)
THEOREM CompletedSearches == Spec => []CompletedHasOffers
<1>1. Init => OffersFound
  BY DEF Init, OffersFound
<1>2. Base /\ OffersFound /\ [Next]_vars => OffersFound'
  BY FoundInductive
<1>3. OffersFound /\ OffersOwned => CompletedHasOffers
  BY DEF OffersFound, OffersOwned, CompletedHasOffers
<1> QED
  BY <1>1, <1>2, <1>3, BaseInvariant, OwnedInvariant, PTL DEF Spec

(***************************************************************************)
(* The trail.                                                              *)
(***************************************************************************)
Linked(s) ==
  IF trail[s] = << >>
    THEN status[s] = "NONE"
    ELSE /\ trail[s][Len(trail[s])].after = status[s]
         /\ trail[s][1].before = "NONE"
         /\ \A i \in 2..Len(trail[s]) : trail[s][i].before = trail[s][i-1].after

TrailInv == \A s \in Searches : Linked(s)

LEMMA SetStatusLinks ==
  ASSUME TypeOK, TrailInv, NEW s \in Searches, NEW new \in Statuses, SetStatus(s, new)
  PROVE  TrailInv'
<1> DEFINE row == [before |-> status[s], after |-> new]
           old == trail[s]
<1>1. /\ old \in Seq(Transitions) /\ row \in Transitions
      /\ trail'[s] = Append(old, row) /\ status'[s] = new
      /\ \A t \in Searches : t # s => trail'[t] = trail[t] /\ status'[t] = status[t]
  BY DEF SetStatus, BeforeStatus, TypeOK, Transitions
<1>2. /\ Len(trail'[s]) = Len(old) + 1 /\ Len(old) \in Nat
      /\ trail'[s][Len(old) + 1] = row
      /\ \A i \in 1..Len(old) : trail'[s][i] = old[i]
      /\ trail'[s] # << >>
  BY <1>1, AppendProperties
<1>3. Linked(s)'
  <2>1. trail'[s][Len(trail'[s])].after = status'[s]
    BY <1>1, <1>2
  <2>2. trail'[s][1].before = "NONE"
    <3>1. CASE old = << >>
      BY <3>1, <1>2 DEF TrailInv, Linked
    <3>2. CASE old # << >>
      <4>1. 1 \in 1..Len(old)
        BY <3>2, <1>1
      <4> QED
        BY <3>2, <4>1, <1>2 DEF TrailInv, Linked
    <3> QED
      BY <3>1, <3>2
  <2>3. ASSUME NEW i \in 2..Len(trail'[s])
        PROVE  trail'[s][i].before = trail'[s][i-1].after
    <3>1. CASE i = Len(old) + 1
      <4>1. old # << >> /\ i - 1 = Len(old) /\ Len(old) \in 1..Len(old)
        BY <3>1, <1>1, <1>2
      <4>2. old[Len(old)].after = status[s]
        BY <4>1 DEF TrailInv, Linked
      <4> QED
        BY <3>1, <4>1, <4>2, <1>2
    <3>2. CASE i # Len(old) + 1
      <4>1. i \in 2..Len(old) /\ i \in 1..Len(old) /\ i - 1 \in 1..Len(old) /\ old # << >>
        BY <3>2, <1>1, <1>2
      <4>2. old[i].before = old[i-1].after
        BY <4>1 DEF TrailInv, Linked
      <4> QED
        BY <4>1, <4>2, <1>2
    <3> QED
      BY <3>1, <3>2
  <2> QED
    BY <2>1, <2>2, <2>3, <1>2 DEF Linked
<1>4. ASSUME NEW t \in Searches, t # s
      PROVE  Linked(t)'
  BY <1>4, <1>1 DEF TrailInv, Linked
<1> QED
  BY <1>3, <1>4 DEF TrailInv

LEMMA TrailInductive ==
  ASSUME Base, TrailInv, [Next]_vars
  PROVE  TrailInv'
<1>1. ASSUME NEW s \in Searches, NEW q \in Queries, StoresSearch(s, q)
      PROVE  TrailInv'
  BY <1>1, SetStatusLinks DEF StoresSearch, Base, Statuses
<1>2. ASSUME NEW d \in Deliveries,
             CallsProvider(d) \/ StoresOffers(d) \/ SavesFailure(d)
      PROVE  TrailInv'
  <2>1. FailureOf(d) \in Statuses /\ {"IN_PROGRESS", "COMPLETED"} \subseteq Statuses
    BY DEF FailureOf, Statuses
  <2>2. \E new \in Statuses : SetStatus(d[1], new)
    BY <1>2, <2>1 DEF CallsProvider, StoresOffers, SavesFailure
  <2> QED
    BY <2>2, SetStatusLinks, DeliveryParts DEF Base
<1>3. CASE ~ Writes
  BY <1>3, OthersWriteNothing DEF TrailInv, Linked
<1> QED
  BY <1>1, <1>2, <1>3 DEF Writes

(* The audited transitions of a search are a chain from its creation to    *)
(* its status, however many handlers write it.                             *)
THEOREM SearchTrail == Spec => []TrailIsLinked
<1>1. ASSUME Init
      PROVE  TrailInv
  <2>1. \A s \in Searches : trail[s] = << >> /\ status[s] = "NONE"
    BY <1>1, Zenon DEF Init
  <2> QED
    BY <2>1, Zenon DEF TrailInv, Linked
<1>2. Base /\ TrailInv /\ [Next]_vars => TrailInv'
  BY TrailInductive
<1>3. TrailInv => TrailIsLinked
  BY DEF TrailInv, Linked, TrailIsLinked
<1> QED
  BY <1>1, <1>2, <1>3, BaseInvariant, PTL DEF Spec

(***************************************************************************)
(* Calls.                                                                  *)
(***************************************************************************)

(* A handler that called the provider and returned left an audit row, also *)
(* when the transaction with its offers was rolled back.                   *)
THEOREM SearchCallsAudited == Spec => []CallsAudited
<1>1. Init => CallsAudited
  BY DEF Init, CallsAudited
<1>2. Base /\ CallsAudited /\ [Next]_vars => CallsAudited'
  <2> SUFFICES ASSUME Base, CallsAudited, [Next]_vars
               PROVE  CallsAudited'
    OBVIOUS
  <2>1. ASSUME NEW d \in Deliveries, SavesOffers(d) \/ SavesFailure(d)
        PROVE  CallsAudited'
    <3>1. pc' = [pc EXCEPT ![d] = "returned"] /\ audited \subseteq audited'
      BY <2>1 DEF SavesOffers, StoresOffers, SavesFailure
    <3>2. \E answer \in Answers : <<d, answer>> \in audited'
      BY <2>1 DEF SavesOffers, StoresOffers, SavesFailure, Answers
    <3> QED
      BY <3>1, <3>2 DEF CallsAudited, Base, TypeOK
  <2>2. ASSUME NEW d \in Deliveries,
               \/ Skips(d) \/ CallsProvider(d) \/ CallTimesOut(d) \/ OffersTaken(d)
               \/ ProviderFinds(d) \/ ProviderFails(d) \/ SaveFails(d) \/ CommitUnheard(d)
               \/ HandlerLost(d)
        PROVE  CallsAudited'
    <3>1. audited \subseteq audited'
      BY <2>2 DEF Skips, CallsProvider, CallTimesOut, OffersTaken, ProviderFinds, ProviderFails,
         SaveFails, CommitUnheard, StoresOffers, HandlerLost, database
    <3>2. \A e \in Deliveries : pc'[e] = "returned" => pc[e] = "returned"
      BY <2>2 DEF Skips, CallsProvider, CallTimesOut, OffersTaken, ProviderFinds, ProviderFails,
         SaveFails, CommitUnheard, HandlerLost, Base, TypeOK
    <3> QED
      BY <3>1, <3>2 DEF CallsAudited
  <2>3. CASE UNCHANGED <<pc, audited>>
    BY <2>3 DEF CallsAudited
  <2>4. ASSUME NEW s \in Searches, Dispatches(s) \/ Delivers(s)
        PROVE  CallsAudited'
    BY <2>4 DEF Dispatches, Delivers, CallsAudited, Base, TypeOK, database
  <2>5. ASSUME NEW s \in Searches,
               \/ \E q \in Queries : StoresSearch(s, q)
               \/ CachesSearch(s) \/ StartLost(s) \/ Expires(s)
        PROVE  UNCHANGED <<pc, audited>>
    BY <2>5 DEF StoresSearch, CachesSearch, StartLost, Expires, database
  <2>6. ASSUME NEW d \in Deliveries, ConnectionLost(d)
        PROVE  UNCHANGED <<pc, audited>>
    BY <2>6 DEF ConnectionLost, database
  <2>7. ASSUME NEW q \in Queries, CacheForgets(q)
        PROVE  UNCHANGED <<pc, audited>>
    BY <2>7 DEF CacheForgets, database
  <2>8. UNCHANGED vars => UNCHANGED <<pc, audited>>
    BY DEF vars, database
  <2> QED
    BY <2>1, <2>2, <2>3, <2>4, <2>5, <2>6, <2>7, <2>8
       DEF Next, HandlerStep, Environment
<1> QED
  BY <1>1, <1>2, BaseInvariant, PTL DEF Spec

(***************************************************************************)
(* The queue.                                                              *)
(***************************************************************************)
Numbered == \A s \in Searches : message[s] = "unacked" => delivered[s] \in 1..MaxDeliveries

Kept(s) ==
  starting[s] = "answered" /\ status[s] \notin Final =>
    \/ message[s] = "ready"
    \/ message[s] = "unacked" /\ Running(<<s, delivered[s]>>)

QueueInv == UseBroker => Numbered /\ \A s \in Searches : Kept(s)

(* Steps of the API process, of the broker and of the cache.               *)
LEMMA StartKeeps ==
  ASSUME Base, UseBroker, Numbered, \A s \in Searches : Kept(s), NEW s \in Searches,
         \/ \E q \in Queries : StoresSearch(s, q)
         \/ CachesSearch(s) \/ Dispatches(s) \/ StartLost(s) \/ Expires(s) \/ Delivers(s)
  PROVE  Numbered' /\ \A t \in Searches : Kept(t)'
<1>1. ASSUME NEW q \in Queries, StoresSearch(s, q)
      PROVE  Numbered' /\ \A t \in Searches : Kept(t)'
  BY <1>1 DEF StoresSearch, SetStatus, Base, TypeOK, Numbered, Kept, Running, Active, queue
<1>2. CASE CachesSearch(s)
  BY <1>2 DEF CachesSearch, Base, TypeOK, Numbered, Kept, Running, Active, database, queue
<1>3. CASE Dispatches(s)
  BY <1>3 DEF Dispatches, Base, TypeOK, Numbered, Kept, Running, Active, database
<1>4. CASE StartLost(s)
  BY <1>4 DEF StartLost, Base, TypeOK, Numbered, Kept, Running, Active, database, queue
<1>5. CASE Expires(s)
  BY <1>5 DEF Expires, Numbered, Kept, Running, Active, database, queue
<1>6. CASE Delivers(s)
  <2>1. delivered[s] + 1 \in 1..MaxDeliveries
    BY <1>6, ConstantsOK DEF Delivers, Base, TypeOK
  <2>2. /\ message' = [message EXCEPT ![s] = "unacked"]
        /\ delivered' = [delivered EXCEPT ![s] = delivered[s] + 1]
        /\ pc' = [pc EXCEPT ![<<s, delivered[s] + 1>>] = "taken"]
        /\ UNCHANGED <<status, starting>>
    BY <1>6 DEF Delivers, database
  <2>3. Numbered'
    BY <2>1, <2>2 DEF Base, TypeOK, Numbered
  <2>4. Kept(s)'
    <3>1. <<s, delivered'[s]>> \in Deliveries /\ delivered'[s] = delivered[s] + 1
      BY <2>1, <2>2 DEF Base, TypeOK, Deliveries
    <3>2. pc'[<<s, delivered'[s]>>] = "taken" /\ message'[s] = "unacked"
      BY <3>1, <2>2 DEF Base, TypeOK
    <3> QED
      BY <3>2 DEF Kept, Running, Active
  <2>5. ASSUME NEW t \in Searches, t # s
        PROVE  Kept(t)'
    <3>1. /\ message'[t] = message[t] /\ delivered'[t] = delivered[t]
          /\ status'[t] = status[t] /\ starting'[t] = starting[t]
      BY <2>2, <2>5 DEF Base, TypeOK
    <3>2. message[t] = "unacked" => pc'[<<t, delivered[t]>>] = pc[<<t, delivered[t]>>]
      BY <2>2, <2>5 DEF Base, TypeOK, Numbered, Deliveries
    <3> QED
      BY <3>1, <3>2 DEF Kept, Running, Active
  <2> QED
    BY <2>3, <2>4, <2>5
<1> QED
  BY <1>1, <1>2, <1>3, <1>4, <1>5, <1>6

(* A handler that is not the latest one of its message does not matter to  *)
(* it; the latest one runs, or the message is ready again, or the search   *)
(* has its final status.                                                   *)
LEMMA HandlerKeeps ==
  ASSUME Base, UseBroker, Numbered, \A s \in Searches : Kept(s), NEW d \in Deliveries,
         HandlerStep(d) \/ Environment(d)
  PROVE  Numbered' /\ \A t \in Searches : Kept(t)'
<1> DEFINE s == d[1]
<1>0. s \in Searches /\ d = <<s, d[2]>> /\ d[2] \in 1..MaxDeliveries
  BY DeliveryParts
<1>1. UNCHANGED <<delivered, starting>>
  BY DEF HandlerStep, Environment, Skips, CallsProvider, CallTimesOut, StoresOffers,
     SavesOffers, OffersTaken, SavesFailure, ProviderFinds, ProviderFails, SaveFails,
     CommitUnheard, ConnectionLost, HandlerLost,
     database, queue
<1>2. /\ \A t \in Searches : t # s => message'[t] = message[t] /\ status'[t] = status[t]
      /\ ~ Latest(d) => message' = message
      /\ \A e \in Deliveries : e # d => pc'[e] = pc[e]
  BY <1>0 DEF HandlerStep, Environment, Skips, CallsProvider, CallTimesOut, StoresOffers,
     SavesOffers, OffersTaken, SavesFailure, ProviderFinds, ProviderFails, SaveFails,
     CommitUnheard, ConnectionLost, HandlerLost,
     Requeues, Acknowledges, SetStatus, Base, TypeOK, database, queue
<1>3. \/ status'[s] \in Final
      \/ /\ status[s] \notin Final
         /\ \/ message'[s] = "ready" /\ Latest(d)
            \/ ~ Latest(d)
            \/ message' = message /\ Running(d)'
  <2>1. CASE Skips(d)
    BY <2>1 DEF Skips, Finished, database
  <2>2. CASE CallsProvider(d)
    BY <2>2 DEF CallsProvider, Finished, Running, Active, Base, TypeOK, queue
  <2>3. CASE \/ CallTimesOut(d) \/ OffersTaken(d) \/ ProviderFinds(d)
             \/ ProviderFails(d) \/ SaveFails(d)
    <3>1. UNCHANGED <<status, message>>
      BY <2>3 DEF CallTimesOut, OffersTaken, ProviderFinds, ProviderFails, SaveFails,
         database, queue
    <3>2. Running(d)'
      BY <2>3 DEF CallTimesOut, OffersTaken, ProviderFinds, ProviderFails, SaveFails, Running,
         Active, Caught, Base, TypeOK
    <3> QED
      BY <3>1, <3>2
  <2>4. CASE StoresOffers(d)
    BY <2>4, <1>0 DEF StoresOffers, SetStatus, Final, Base, TypeOK
  <2>5. CASE SavesFailure(d)
    BY <2>5, <1>0 DEF SavesFailure, SetStatus, FailureOf, Final, Base, TypeOK
  <2>6. CASE ConnectionLost(d) \/ HandlerLost(d)
    BY <2>6, <1>0 DEF ConnectionLost, HandlerLost, Requeues, Base, TypeOK, database
  <2> QED
    BY <2>1, <2>2, <2>3, <2>4, <2>5, <2>6
       DEF HandlerStep, Environment, SavesOffers, CommitUnheard
<1>4. \A t \in Searches : message'[t] = "unacked" => message[t] = "unacked"
  BY <1>0, <1>2 DEF HandlerStep, Environment, Skips, CallsProvider, CallTimesOut, StoresOffers,
     SavesOffers, OffersTaken, SavesFailure, ProviderFinds, ProviderFails, SaveFails,
     CommitUnheard, ConnectionLost, HandlerLost,
     Requeues, Acknowledges, Latest, Base, TypeOK, database, queue
<1>5. Numbered'
  BY <1>1, <1>4 DEF Numbered
<1>6. ASSUME NEW t \in Searches, t # s
      PROVE  Kept(t)'
  <2>1. message[t] = "unacked" => pc'[<<t, delivered[t]>>] = pc[<<t, delivered[t]>>]
    BY <1>6, <1>0, <1>2 DEF Numbered, Deliveries
  <2> QED
    BY <2>1, <1>1, <1>2, <1>6 DEF Kept, Running, Active
<1>7. Kept(s)'
  <2>1. CASE status'[s] \in Final
    BY <2>1 DEF Kept
  <2>2. CASE message'[s] = "ready"
    BY <2>2 DEF Kept
  <2>3. CASE status[s] \notin Final /\ ~ Latest(d)
    <3>1. message[s] = "unacked" =>
            <<s, delivered[s]>> \in Deliveries /\ <<s, delivered[s]>> # d
      BY <2>3, <1>0 DEF Latest, Numbered, Deliveries
    <3> QED
      BY <2>3, <3>1, <1>0, <1>1, <1>2 DEF Kept, Running, Active
  <2>4. CASE status[s] \notin Final /\ Latest(d) /\ message' = message /\ Running(d)'
    BY <2>4, <1>0, <1>1 DEF Kept, Running, Active, Latest
  <2> QED
    BY <1>3, <2>1, <2>2, <2>3, <2>4
<1> QED
  BY <1>5, <1>6, <1>7

LEMMA QueueInductive ==
  ASSUME Base, QueueInv, [Next]_vars
  PROVE  QueueInv'
<1>1. ASSUME NEW s \in Searches,
             \/ \E q \in Queries : StoresSearch(s, q)
             \/ CachesSearch(s) \/ Dispatches(s) \/ StartLost(s) \/ Expires(s) \/ Delivers(s)
      PROVE  QueueInv'
  BY <1>1, StartKeeps DEF QueueInv
<1>2. ASSUME NEW d \in Deliveries,
             HandlerStep(d) \/ Environment(d)
      PROVE  QueueInv'
  BY <1>2, HandlerKeeps DEF QueueInv
<1>3. ASSUME NEW q \in Queries, CacheForgets(q)
      PROVE  QueueInv'
  BY <1>3 DEF CacheForgets, QueueInv, Numbered, Kept, Running, Active, database, queue
<1>4. CASE UNCHANGED vars
  BY <1>4 DEF vars, QueueInv, Numbered, Kept, Running, Active, database, queue
<1> QED
  BY <1>1, <1>2, <1>3, <1>4 DEF Next

(* With RabbitMQ no dispatched search is forgotten: until it has a final   *)
(* status, its message waits or the handler it was last given to runs.     *)
THEOREM DispatchedIsQueued == Spec => []UnfinishedIsQueued
<1>1. Init => QueueInv
  BY DEF Init, QueueInv, Numbered, Kept
<1>2. Base /\ QueueInv /\ [Next]_vars => QueueInv'
  BY QueueInductive
<1>3. QueueInv => UnfinishedIsQueued
  BY DEF QueueInv, Kept, UnfinishedIsQueued
<1> QED
  BY <1>1, <1>2, <1>3, BaseInvariant, PTL DEF Spec

(***************************************************************************)
(* Final statuses.  The run search_final overwrites one: it takes two      *)
(* handlers of one search, and those take a connection to the broker that  *)
(* is lost while its handler runs on.  When none is, a handler that runs   *)
(* is the only one of its search, and the search is IN_PROGRESS from its   *)
(* call to its end (or COMPLETED by a commit it did not hear of), also     *)
(* when earlier handlers were lost and the message came again.             *)
(***************************************************************************)
ConnectionsHold == [][\A d \in Deliveries : ~ ConnectionLost(d)]_vars

(* Messages are those of searches that were dispatched to the broker.      *)
Dispatched == \A s \in Searches : message[s] # "none" => UseBroker /\ starting[s] = "answered"

Alone ==
  \A d \in Deliveries : Running(d) =>
    /\ UseBroker => Latest(d)
    /\ ~ UseBroker => d[2] = 1
    /\ pc[d] \notin {"taken", "unheard"} => status[d[1]] = "IN_PROGRESS"

LEMMA DispatchedInductive ==
  ASSUME Base, Dispatched, [Next]_vars
  PROVE  Dispatched'
<1>1. ASSUME NEW s \in Searches, NEW q \in Queries, StoresSearch(s, q)
      PROVE  Dispatched'
  BY <1>1 DEF StoresSearch, Base, Known, TypeOK, Dispatched, queue
<1>2. ASSUME NEW s \in Searches, CachesSearch(s) \/ StartLost(s)
      PROVE  Dispatched'
  BY <1>2 DEF CachesSearch, StartLost, Base, TypeOK, Dispatched, queue
<1>3. ASSUME NEW s \in Searches, Dispatches(s) \/ Delivers(s)
      PROVE  Dispatched'
  BY <1>3 DEF Dispatches, Delivers, Base, TypeOK, Dispatched
<1>4. ASSUME NEW d \in Deliveries,
             HandlerStep(d) \/ Environment(d)
      PROVE  Dispatched'
  <2>1. UNCHANGED starting /\ message' \in {message, Requeues(d), Acknowledges(d)}
    BY <1>4 DEF HandlerStep, Environment, Skips, CallsProvider, CallTimesOut, StoresOffers,
       SavesOffers, OffersTaken, SavesFailure, ProviderFinds, ProviderFails, SaveFails,
       CommitUnheard, ConnectionLost, HandlerLost, queue
  <2> QED
    BY <2>1, RequeueKnown DEF Base, Dispatched
<1>5. ASSUME \/ \E s \in Searches : Expires(s)
             \/ \E q \in Queries : CacheForgets(q)
             \/ UNCHANGED vars
      PROVE  Dispatched'
  BY <1>5 DEF Expires, CacheForgets, vars, queue, Dispatched
<1> QED
  BY <1>1, <1>2, <1>3, <1>4, <1>5 DEF Next

LEMMA OneOfASearch ==
  ASSUME Alone, NEW d \in Deliveries, NEW e \in Deliveries,
         Running(d), Running(e), d[1] = e[1]
  PROVE  d = e
BY DeliveryParts DEF Alone, Latest

LEMMA AloneInductive ==
  ASSUME Base, Dispatched, Alone, [Next]_vars, \A d \in Deliveries : ~ ConnectionLost(d)
  PROVE  Alone'
<1>1. ASSUME NEW d \in Deliveries, HandlerStep(d) \/ Environment(d)
      PROVE  Alone'
  <2>0. d[1] \in Searches /\ Running(d)
    BY <1>1, DeliveryParts DEF HandlerStep, Environment, Skips, CallsProvider, CallTimesOut,
       StoresOffers, Saving, SavesOffers, OffersTaken, SavesFailure, ProviderFinds, ProviderFails,
       SaveFails, CommitUnheard, HandlerLost, Running, Active
  <2>1. /\ \A t \in Searches : t # d[1] => message'[t] = message[t] /\ status'[t] = status[t]
        /\ \A e \in Deliveries : e # d => pc'[e] = pc[e]
        /\ UNCHANGED delivered
    BY <1>1, <2>0 DEF HandlerStep, Environment, Skips, CallsProvider, CallTimesOut,
       StoresOffers, SavesOffers, OffersTaken, SavesFailure, ProviderFinds, ProviderFails,
       SaveFails, CommitUnheard, HandlerLost, Requeues, Acknowledges, SetStatus, Base, TypeOK,
       database, queue
  <2>2. ASSUME NEW e \in Deliveries, e # d, Running(e)'
        PROVE  /\ UseBroker => Latest(e)'
               /\ ~ UseBroker => e[2] = 1
               /\ pc'[e] \notin {"taken", "unheard"} => status'[e[1]] = "IN_PROGRESS"
    <3>1. Running(e) /\ pc'[e] = pc[e]
      BY <2>1, <2>2 DEF Running, Active
    <3>2. e[1] # d[1] /\ e[1] \in Searches
      BY <2>0, <2>2, <3>1, OneOfASearch, DeliveryParts
    <3> QED
      BY <2>1, <3>1, <3>2 DEF Alone, Latest
  <2>3. ASSUME Running(d)'
        PROVE  /\ UseBroker => Latest(d)'
               /\ ~ UseBroker => d[2] = 1
               /\ pc'[d] \notin {"taken", "unheard"} => status'[d[1]] = "IN_PROGRESS"
    <3>1. CASE CallsProvider(d)
      BY <2>0, <3>1 DEF CallsProvider, SetStatus, Alone, Latest, Base, TypeOK, queue
    <3>2. CASE \/ CallTimesOut(d) \/ OffersTaken(d) \/ ProviderFinds(d)
               \/ ProviderFails(d) \/ SaveFails(d)
      <4>1. pc[d] \notin {"taken", "unheard"} /\ UNCHANGED <<message, delivered, status>>
        BY <3>2 DEF CallTimesOut, OffersTaken, ProviderFinds, ProviderFails, SaveFails, Saving,
           database, queue
      <4> QED
        BY <2>0, <4>1 DEF Alone, Latest
    <3>3. CASE CommitUnheard(d)
      <4>1. pc'[d] = "unheard" /\ UNCHANGED <<message, delivered>>
        BY <3>3 DEF CommitUnheard, StoresOffers, Base, TypeOK
      <4> QED
        BY <2>0, <4>1 DEF Alone, Latest
    <3>4. CASE Skips(d) \/ SavesOffers(d) \/ SavesFailure(d) \/ HandlerLost(d)
      BY <2>3, <3>4 DEF Skips, SavesOffers, SavesFailure, HandlerLost, Running, Active, Caught,
         Base, TypeOK
    <3> QED
      BY <1>1, <3>1, <3>2, <3>3, <3>4 DEF HandlerStep, Environment
  <2> QED
    BY <2>2, <2>3 DEF Alone
<1>2. ASSUME NEW s \in Searches, NEW q \in Queries, StoresSearch(s, q)
      PROVE  Alone'
  <2>1. /\ UNCHANGED <<pc, message, delivered>>
        /\ \A t \in Searches : t # s => status'[t] = status[t]
        /\ \A d \in Deliveries : d[1] = s => pc[d] = "idle"
    BY <1>2 DEF StoresSearch, SetStatus, Base, Known, TypeOK, queue
  <2> QED
    BY <2>1, DeliveryParts DEF Alone, Running, Active, Caught, Latest
<1>3. ASSUME NEW s \in Searches, Dispatches(s)
      PROVE  Alone'
  <2>1. message[s] = "none" /\ UNCHANGED status
    BY <1>3 DEF Dispatches, Dispatched, database
  <2>2. CASE UseBroker
    <3>1. message' = [message EXCEPT ![s] = "ready"] /\ UNCHANGED <<delivered, pc>>
      BY <1>3, <2>2 DEF Dispatches
    <3>2. \A d \in Deliveries : Running(d) => d[1] # s
      BY <2>1, <2>2 DEF Alone, Latest
    <3> QED
      BY <2>1, <2>2, <3>1, <3>2, DeliveryParts DEF Alone, Running, Active, Latest, Base, TypeOK
  <2>3. CASE ~ UseBroker
    <3>1. pc' = [pc EXCEPT ![<<s, 1>>] = "taken"]
      BY <1>3, <2>3 DEF Dispatches
    <3>2. ASSUME NEW e \in Deliveries, Running(e)'
          PROVE  e[2] = 1 /\ (pc'[e] \notin {"taken", "unheard"} => status'[e[1]] = "IN_PROGRESS")
      <4>1. CASE e = <<s, 1>>
        BY <3>1, <4>1 DEF Base, TypeOK
      <4>2. CASE e # <<s, 1>>
        BY <2>1, <2>3, <3>1, <3>2, <4>2 DEF Alone, Running, Base, TypeOK
      <4> QED
        BY <4>1, <4>2
    <3> QED
      BY <2>3, <3>2 DEF Alone
  <2> QED
    BY <2>2, <2>3
<1>4. ASSUME NEW s \in Searches, Delivers(s)
      PROVE  Alone'
  <2>0. PICK d \in Deliveries : d = <<s, delivered[s] + 1>>
    BY <1>4, ConstantsOK DEF Delivers, Base, TypeOK, Deliveries
  <2>1. UseBroker /\ message[s] = "ready"
    BY <1>4 DEF Delivers, Dispatched
  <2>2. /\ message' = [message EXCEPT ![s] = "unacked"]
        /\ delivered' = [delivered EXCEPT ![s] = delivered[s] + 1]
        /\ pc' = [pc EXCEPT ![d] = "taken"]
        /\ UNCHANGED status
    BY <1>4, <2>0 DEF Delivers, database
  <2>3. \A e \in Deliveries : Running(e) => e[1] # s
    BY <2>1 DEF Alone, Latest
  <2>4. Latest(d)' /\ pc'[d] = "taken"
    <3>1. message'[s] = "unacked" /\ delivered'[s] = delivered[s] + 1 /\ pc'[d] = "taken"
      BY <2>1, <2>2 DEF Base, TypeOK
    <3> QED
      BY <2>0, <3>1 DEF Latest
  <2>5. ASSUME NEW e \in Deliveries, e # d, Running(e)'
        PROVE  /\ Latest(e)'
               /\ pc'[e] \notin {"taken", "unheard"} => status'[e[1]] = "IN_PROGRESS"
    <3>1. Running(e) /\ pc'[e] = pc[e]
      BY <2>1, <2>2, <2>5 DEF Running, Active, Base, TypeOK
    <3>2. e[1] # s /\ e[1] \in Searches
      BY <2>3, <3>1, DeliveryParts
    <3> QED
      BY <2>1, <2>2, <3>1, <3>2 DEF Alone, Latest, Base, TypeOK
  <2> QED
    BY <2>1, <2>4, <2>5 DEF Alone
<1>5. ASSUME \/ \E s \in Searches : CachesSearch(s) \/ StartLost(s) \/ Expires(s)
             \/ \E q \in Queries : CacheForgets(q)
             \/ UNCHANGED vars
      PROVE  Alone'
  BY <1>5 DEF CachesSearch, StartLost, Expires, CacheForgets, vars, database, queue, Alone,
     Running, Active, Latest
<1> QED
  BY <1>1, <1>2, <1>3, <1>4, <1>5 DEF Next

(* Whatever is delivered again, a finished search is never seen running    *)
(* again: all that finding 6 can do is change one final status for another.*)
FinishedStaysFinished ==
  [][\A s \in Searches : status[s] \in Final => status'[s] \in Final]_vars

THEOREM NeverReopened == Spec => FinishedStaysFinished
<1> DEFINE Stay == \A s \in Searches : status[s] \in Final => status'[s] \in Final
<1>1. Base /\ [Next]_vars => [Stay]_vars
  <2> SUFFICES ASSUME Base, Next PROVE Stay
    OBVIOUS
  <2>1. ASSUME NEW s \in Searches, NEW q \in Queries, StoresSearch(s, q)
        PROVE  Stay
    BY <2>1 DEF StoresSearch, SetStatus, Final, Base, TypeOK
  <2>2. ASSUME NEW d \in Deliveries, CallsProvider(d)
        PROVE  Stay
    BY <2>2 DEF CallsProvider, SetStatus, Finished, Base, TypeOK
  <2>3. ASSUME NEW d \in Deliveries, StoresOffers(d) \/ SavesFailure(d)
        PROVE  Stay
    BY <2>3 DEF StoresOffers, SavesFailure, FailureOf, SetStatus, Final, Base, TypeOK
  <2>4. CASE ~ Writes
    BY <2>4, OthersWriteNothing
  <2> QED
    BY <2>1, <2>2, <2>3, <2>4 DEF Writes
<1> QED
  BY <1>1, BaseInvariant, PTL DEF Spec, FinishedStaysFinished

(* As long as no connection to the broker is lost under a running handler, *)
(* a final status is final: but for finding 6's redelivery, only the       *)
(* handler that did not hear of its own commit overwrites one.             *)
THEOREM FinalStays == Spec /\ ConnectionsHold => FinalIsFinal
<1> DEFINE Whole == \A d \in Deliveries : ~ ConnectionLost(d)
           Stay == \A s \in Searches : status[s] \in Final =>
                     status'[s] = status[s] \/ error'[s] = "unheard"
           Inv == Base /\ Dispatched /\ Alone
<1>1. Init => Dispatched /\ Alone
  BY DEF Init, Dispatched, Alone, Running, Active, Caught
<1>2. Inv /\ [Next]_vars /\ [Whole]_vars => Dispatched' /\ Alone'
  <2>1. CASE UNCHANGED vars
    BY <2>1 DEF vars, database, queue, Dispatched, Alone, Running, Active, Latest
  <2> QED
    BY <2>1, DispatchedInductive, AloneInductive
<1>3. Inv /\ [Next]_vars => [Stay]_vars
  <2> SUFFICES ASSUME Inv, Next PROVE Stay
    OBVIOUS
  <2>1. ASSUME NEW s \in Searches, NEW q \in Queries, StoresSearch(s, q)
        PROVE  Stay
    BY <2>1 DEF StoresSearch, SetStatus, Final, Base, TypeOK
  <2>2. ASSUME NEW d \in Deliveries, CallsProvider(d)
        PROVE  Stay
    BY <2>2 DEF CallsProvider, SetStatus, Finished, Base, TypeOK
  <2>3. ASSUME NEW d \in Deliveries, StoresOffers(d) \/ SavesFailure(d)
        PROVE  Stay
    <3>1. d[1] \in Searches /\ \A t \in Searches : t # d[1] => status'[t] = status[t]
      BY <2>3, DeliveryParts DEF StoresOffers, SavesFailure, SetStatus, Base, TypeOK
    <3>2. CASE SavesFailure(d) /\ pc[d] = "unheard"
      <4>1. error'[d[1]] = "unheard"
        BY <3>1, <3>2 DEF SavesFailure, Base, TypeOK
      <4> QED
        BY <3>1, <4>1
    <3>3. CASE ~ (SavesFailure(d) /\ pc[d] = "unheard")
      <4>1. Running(d) /\ pc[d] \notin {"taken", "unheard"}
        BY <2>3, <3>3 DEF StoresOffers, Saving, SavesFailure, Running, Active, Caught
      <4>2. status[d[1]] \notin Final
        BY <4>1 DEF Alone, Final
      <4> QED
        BY <3>1, <4>2
    <3> QED
      BY <3>2, <3>3
  <2>4. CASE ~ Writes
    BY <2>4, OthersWriteNothing
  <2> QED
    BY <2>1, <2>2, <2>3, <2>4 DEF Writes
<1> QED
  BY <1>1, <1>2, <1>3, BaseInvariant, PTL DEF Spec, ConnectionsHold, FinalIsFinal

(***************************************************************************)
(* Failures.  What FailedByFault leaves out: a search also FAILS when      *)
(* offers are stored, those of its route or, unheard, its own.             *)
(***************************************************************************)
RouteTaken(s) == offersOf[RouteOf[query[s]]] # None

RouteServed(s) ==
  \E t \in Searches :
    /\ RouteOf[query[t]] = RouteOf[query[s]]
    /\ offersOf[RouteOf[query[s]]] = t
    /\ Completed(t)

FailureHasCause ==
  \A s \in Searches : status[s] = "FAILED" =>
    error[s] = "error" \/ RouteServed(s) \/ Completed(s)

FailuresKept ==
  \A s \in Searches : status[s] = "FAILED" =>
    error[s] = "error" \/ RouteTaken(s) \/ Completed(s)

HandlersFailWithCause ==
  \A d \in Deliveries :
    /\ pc[d] = "offers_taken" => RouteTaken(d[1])
    /\ pc[d] = "unheard" => Completed(d[1])

(* Neither offers nor rows of the trail are taken back. *)
LEMMA CausesStay ==
  ASSUME Base, [Next]_vars, NEW s \in Searches
  PROVE  /\ status[s] # "NONE" /\ RouteTaken(s) => RouteTaken(s)'
         /\ Completed(s) => Completed(s)'
<1>1. ASSUME NEW t \in Searches, NEW q \in Queries, StoresSearch(t, q)
      PROVE  /\ status[s] # "NONE" /\ RouteTaken(s) => RouteTaken(s)'
             /\ Completed(s) => Completed(s)'
  <2>1. SetStatus(t, "PENDING") /\ "PENDING" \in Statuses
    BY <1>1 DEF StoresSearch, Statuses
  <2>2. status[s] # "NONE" /\ RouteTaken(s) => RouteTaken(s)'
    BY <1>1 DEF StoresSearch, RouteTaken, Base, TypeOK
  <2> QED
    BY <2>1, <2>2, TrailKeepsRows DEF Base
<1>2. ASSUME NEW d \in Deliveries, CallsProvider(d) \/ StoresOffers(d) \/ SavesFailure(d)
      PROVE  /\ status[s] # "NONE" /\ RouteTaken(s) => RouteTaken(s)'
             /\ Completed(s) => Completed(s)'
  <2>1. FailureOf(d) \in Statuses /\ {"IN_PROGRESS", "COMPLETED"} \subseteq Statuses
    BY DEF FailureOf, Statuses
  <2>2. \E new \in Statuses : SetStatus(d[1], new)
    BY <1>2, <2>1 DEF CallsProvider, StoresOffers, SavesFailure
  <2>3. UNCHANGED query
    BY <1>2 DEF CallsProvider, StoresOffers, SavesFailure
  <2>4. offersOf' = offersOf \/ offersOf' = [offersOf EXCEPT ![RouteOf[query[d[1]]]] = d[1]]
    BY <1>2 DEF CallsProvider, StoresOffers, SavesFailure
  <2>5. status[s] # "NONE" /\ RouteTaken(s) => RouteTaken(s)'
    BY <2>3, <2>4, DeliveryParts, ConstantsOK DEF RouteTaken, Base, TypeOK, Known
  <2> QED
    BY <2>2, <2>5, TrailKeepsRows, DeliveryParts DEF Base
<1>3. CASE ~ Writes
  BY <1>3, OthersWriteNothing DEF RouteTaken, Completed
<1> QED
  BY <1>1, <1>2, <1>3 DEF Writes

LEMMA HandlersCauseInductive ==
  ASSUME Base, HandlersFailWithCause, [Next]_vars
  PROVE  HandlersFailWithCause'
<1>1. ASSUME NEW d \in Deliveries, pc[d] \in {"offers_taken", "unheard"}, pc'[d] = pc[d]
      PROVE  /\ pc'[d] = "offers_taken" => RouteTaken(d[1])'
             /\ pc'[d] = "unheard" => Completed(d[1])'
  BY <1>1, CausesStay, DeliveryParts DEF HandlersFailWithCause, Base, Known
<1>2. ASSUME NEW d \in Deliveries, pc'[d] \in {"offers_taken", "unheard"}, pc'[d] # pc[d]
      PROVE  OffersTaken(d) \/ CommitUnheard(d)
  <2>1. ASSUME NEW t \in Searches,
               \/ \E q \in Queries : StoresSearch(t, q)
               \/ CachesSearch(t) \/ Dispatches(t) \/ StartLost(t) \/ Expires(t) \/ Delivers(t)
        PROVE  FALSE
    BY <1>2, <2>1 DEF StoresSearch, CachesSearch, Dispatches, StartLost, Expires, Delivers,
       Base, TypeOK
  <2>2. ASSUME NEW e \in Deliveries,
               \/ Skips(e) \/ CallsProvider(e) \/ CallTimesOut(e) \/ SavesOffers(e)
               \/ SavesFailure(e) \/ ProviderFinds(e) \/ ProviderFails(e) \/ SaveFails(e)
               \/ ConnectionLost(e) \/ HandlerLost(e)
        PROVE  FALSE
    BY <1>2, <2>2 DEF Skips, CallsProvider, CallTimesOut, SavesOffers, SavesFailure,
       ProviderFinds, ProviderFails, SaveFails, ConnectionLost, HandlerLost, Base, TypeOK
  <2>3. ASSUME NEW e \in Deliveries, OffersTaken(e) \/ CommitUnheard(e)
        PROVE  e = d
    BY <1>2, <2>3 DEF OffersTaken, CommitUnheard, Base, TypeOK
  <2>4. ~ UNCHANGED vars /\ \A q \in Queries : ~ CacheForgets(q)
    BY <1>2 DEF vars, CacheForgets
  <2> QED
    BY <2>1, <2>2, <2>3, <2>4 DEF Next, HandlerStep, Environment
<1>3. ASSUME NEW d \in Deliveries, OffersTaken(d)
      PROVE  pc'[d] = "offers_taken" /\ RouteTaken(d[1])'
  BY <1>3 DEF OffersTaken, OffersFree, RouteTaken, Base, TypeOK, database
<1>4. ASSUME NEW d \in Deliveries, CommitUnheard(d)
      PROVE  pc'[d] = "unheard" /\ Completed(d[1])'
  <2>1. SetStatus(d[1], "COMPLETED") /\ "COMPLETED" \in Statuses
    BY <1>4 DEF CommitUnheard, StoresOffers, Statuses
  <2> QED
    BY <1>4, <2>1, TrailKeepsRows, DeliveryParts DEF CommitUnheard, Base, TypeOK
<1> QED
  BY <1>1, <1>2, <1>3, <1>4 DEF HandlersFailWithCause

LEMMA FailuresKeptInductive ==
  ASSUME Base, HandlersFailWithCause, FailuresKept, [Next]_vars
  PROVE  FailuresKept'
<1>1. ASSUME NEW s \in Searches, NEW q \in Queries, StoresSearch(s, q)
      PROVE  FailuresKept'
  <2>1. \A t \in Searches : status'[t] = "FAILED" => status[t] = "FAILED"
    BY <1>1 DEF StoresSearch, SetStatus, Base, TypeOK
  <2>2. UNCHANGED error
    BY <1>1 DEF StoresSearch
  <2> QED
    BY <2>1, <2>2, CausesStay DEF FailuresKept
<1>2. ASSUME NEW d \in Deliveries, CallsProvider(d) \/ StoresOffers(d)
      PROVE  FailuresKept'
  <2>1. \A t \in Searches : status'[t] = "FAILED" => status[t] = "FAILED"
    BY <1>2 DEF CallsProvider, StoresOffers, SetStatus, Base, TypeOK
  <2>2. UNCHANGED error
    BY <1>2 DEF CallsProvider, StoresOffers
  <2> QED
    BY <2>1, <2>2, CausesStay DEF FailuresKept
<1>3. ASSUME NEW d \in Deliveries, SavesFailure(d)
      PROVE  FailuresKept'
  <2>1. d[1] \in Searches /\ status[d[1]] # "NONE"
    BY <1>3, DeliveryParts DEF SavesFailure, Caught, Base, Known
  <2>2. status' = [status EXCEPT ![d[1]] = FailureOf(d)] /\ error' = [error EXCEPT ![d[1]] = pc[d]]
    BY <1>3 DEF SavesFailure, SetStatus
  <2>3. status'[d[1]] = "FAILED" =>
          error'[d[1]] = "error" \/ RouteTaken(d[1])' \/ Completed(d[1])'
    <3>1. status'[d[1]] = "FAILED" => pc[d] \in {"error", "offers_taken", "unheard"}
      BY <1>3, <2>1, <2>2 DEF SavesFailure, FailureOf, Caught, Base, TypeOK
    <3>2. error'[d[1]] = pc[d]
      BY <2>1, <2>2 DEF Base, TypeOK
    <3> QED
      BY <2>1, <3>1, <3>2, CausesStay DEF HandlersFailWithCause
  <2>4. \A t \in Searches : t # d[1] => status'[t] = status[t] /\ error'[t] = error[t]
    BY <2>2 DEF Base, TypeOK
  <2> QED
    BY <2>3, <2>4, CausesStay DEF FailuresKept
<1>4. CASE ~ Writes
  <2>1. UNCHANGED <<status, error>>
    BY <1>4, OthersWriteNothing
  <2> QED
    BY <2>1, CausesStay DEF FailuresKept
<1> QED
  BY <1>1, <1>2, <1>3, <1>4 DEF Writes

(* A search FAILS because the provider or the database did, or because the *)
(* offers of its route are stored already, with a search of that route     *)
(* that a delivery completed; or it was completed itself, unheard.  So     *)
(* finding 7 has no other form, whatever is delivered again, lost or       *)
(* forgotten: whoever is told of a failure that was none asked for offers  *)
(* that are in the database.                                               *)
THEOREM FailuresHaveCause == Spec => []FailureHasCause
<1>1. Init => HandlersFailWithCause /\ FailuresKept
  BY DEF Init, HandlersFailWithCause, FailuresKept
<1>2. Base /\ HandlersFailWithCause /\ FailuresKept /\ [Next]_vars
        => HandlersFailWithCause' /\ FailuresKept'
  BY HandlersCauseInductive, FailuresKeptInductive
<1>3. Base /\ OffersOwned /\ FailuresKept => FailureHasCause
  <2> SUFFICES ASSUME Base, OffersOwned, FailuresKept, NEW s \in Searches,
                      status[s] = "FAILED", RouteTaken(s)
               PROVE  RouteServed(s)
    BY DEF FailuresKept, FailureHasCause
  <2>1. RouteOf[query[s]] \in Routes
    BY ConstantsOK DEF Base, Known
  <2>2. offersOf[RouteOf[query[s]]] \in Searches
    BY <2>1 DEF RouteTaken, Base, TypeOK
  <2> QED
    BY <2>1, <2>2 DEF RouteTaken, RouteServed, OffersOwned
<1> QED
  BY <1>1, <1>2, <1>3, BaseInvariant, OwnedInvariant, PTL DEF Spec
=============================================================================
