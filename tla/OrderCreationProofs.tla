------------------------ MODULE OrderCreationProofs ------------------------
(***************************************************************************)
(* What is proved of create_order for every set of agents, keys, bodies    *)
(* and requests, whether or not the provider books once per key.           *)
(***************************************************************************)
EXTENDS OrderCreation, TLAPS

(* A request that has arrived knows who asks for what, under which key.    *)
AskedOnce ==
  \A r \in Requests : pc[r] # "new" =>
    agentOf[r] \in Agents /\ keyOf[r] \in Keys /\ bodyOf[r] \in Bodies

(* An order and the record of its key are committed together.              *)
RecordsMatchOrders ==
  /\ \A r \in orders : pc[r] = "done" /\ record[Slot(r)] = r
  /\ \A slot \in Agents \X Keys : record[slot] # None =>
       record[slot] \in orders /\ Slot(record[slot]) = slot
  /\ \A r \in Requests : pc[r] = "replaying" => record[Slot(r)] # None

(* Open inserts count: no two rows, committed or not, share a booking.     *)
InsertsApart ==
  /\ \A q, r \in orders \cup Uncommitted : got[q] = got[r] => q = r
  /\ \A r \in Requests : pc[r] \in {"booked", "inserted"} => got[r] \in bookings

(* A call the provider still works on is not one an order rests on.        *)
CallsNotStored ==
  \A r \in pending : r \notin orders /\ pc[r] \in {"calling", "failing", "done", "lost"}

(* A request that is not done has been told nothing.                       *)
AnsweredWhenDone == \A r \in Requests : pc[r] # "done" => answer[r] = "none"

(* The inductive invariant. *)
CreationInv ==
  /\ TypeOK
  /\ AskedOnce
  /\ RecordsMatchOrders
  /\ InsertsApart
  /\ CallsNotStored
  /\ CreatedIsTheOriginal
  /\ AnsweredWhenDone
-----------------------------------------------------------------------------
LEMMA InitCreationInv == Init => CreationInv
BY DEF Init, CreationInv, TypeOK, AskedOnce, RecordsMatchOrders, InsertsApart, Uncommitted,
   CallsNotStored, CreatedIsTheOriginal, AnsweredWhenDone, Places, Answers

(* The first lookup: only the request itself learns what it asks for, and  *)
(* no order or record is that request's.                                   *)
LEMMA ArrivesKeepsInv ==
  ASSUME CreationInv, NEW r \in Requests, NEW a \in Agents, NEW k \in Keys, NEW b \in Bodies,
         NEW to \in {"checked", "done"}, Moves(r, "new", to), Arrives(r, a, k, b),
         \/ UNCHANGED told
         \/ to = "done" /\ Replies(r, "conflict", None)
         \/ to = "done" /\ record[<<a, k>>] # None /\ SameRequest(record[<<a, k>>], b)
            /\ Replies(r, "created", record[<<a, k>>])
  PROVE  CreationInv'
<1> USE DEF CreationInv
<1>1. /\ UNCHANGED <<expired, orders, record, audited, pending, bookings, got>>
      /\ pc[r] = "new" /\ pc' = [pc EXCEPT ![r] = to]
      /\ agentOf' = [agentOf EXCEPT ![r] = a] /\ keyOf' = [keyOf EXCEPT ![r] = k]
      /\ bodyOf' = [bodyOf EXCEPT ![r] = b]
  BY DEF Moves, Arrives, database, provider
<1>2. \A q \in Requests \ {r} :
        /\ agentOf'[q] = agentOf[q] /\ keyOf'[q] = keyOf[q]
        /\ bodyOf'[q] = bodyOf[q] /\ pc'[q] = pc[q]
  BY <1>1 DEF TypeOK
<1>3. /\ r \notin orders /\ r \notin pending
      /\ agentOf'[r] = a /\ keyOf'[r] = k /\ bodyOf'[r] = b /\ pc'[r] = to
  BY <1>1 DEF RecordsMatchOrders, CallsNotStored, TypeOK
<1>4. <<a, k>> \in Agents \X Keys
  OBVIOUS
<1>5. TypeOK'
  <2>1. record[<<a, k>>] \in Requests \cup {None}
    BY <1>4 DEF TypeOK
  <2> QED  BY <1>1, <2>1 DEF TypeOK, Places, Answers, told, Replies
<1>6. AskedOnce'
  BY <1>1 DEF AskedOnce, TypeOK
<1>7. RecordsMatchOrders'
  <2>1. \A q \in orders : q \in Requests \ {r}
    BY <1>3 DEF TypeOK
  <2>2. \A q \in orders : pc'[q] = "done" /\ record[Slot(q)'] = q
    BY <2>1, <1>1, <1>2 DEF RecordsMatchOrders, Slot
  <2>3. \A slot \in Agents \X Keys : record[slot] # None =>
          record[slot] \in orders /\ Slot(record[slot])' = slot
    BY <2>1, <1>1, <1>2 DEF RecordsMatchOrders, Slot
  <2>4. \A q \in Requests : pc'[q] = "replaying" => record[Slot(q)'] # None
    BY <1>2, <1>3 DEF RecordsMatchOrders, Slot
  <2> QED  BY <2>2, <2>3, <2>4, <1>1 DEF RecordsMatchOrders
<1>8. InsertsApart'
  <2>1. \A q \in Requests : pc'[q] \in {"booked", "inserted"} <=> pc[q] \in {"booked", "inserted"}
    BY <1>1 DEF TypeOK
  <2>2. Uncommitted' = Uncommitted
    BY <1>1 DEF TypeOK, Uncommitted
  <2> QED  BY <2>1, <2>2, <1>1 DEF InsertsApart
<1>9. CallsNotStored'
  BY <1>1, <1>2, <1>3 DEF CallsNotStored, TypeOK
<1>10. CreatedIsTheOriginal'
  <2>1. ASSUME NEW q \in Requests \ {r}, answer'[q] = "created"
        PROVE  /\ given'[q] \in orders
               /\ Slot(given[q])' = Slot(q)' /\ bodyOf'[given'[q]] = bodyOf'[q]
               /\ record[Slot(q)'] = given'[q]
    <3>1. answer[q] = "created" /\ given'[q] = given[q]
      BY <2>1 DEF told, Replies, TypeOK
    <3>2. given[q] \in orders /\ given[q] \in Requests \ {r}
      BY <3>1, <1>3 DEF CreatedIsTheOriginal, TypeOK
    <3> QED  BY <3>1, <3>2, <1>1, <1>2 DEF CreatedIsTheOriginal, Slot
  <2>2. ASSUME answer'[r] = "created"
        PROVE  /\ given'[r] \in orders
               /\ Slot(given[r])' = Slot(r)' /\ bodyOf'[given'[r]] = bodyOf'[r]
               /\ record[Slot(r)'] = given'[r]
    <3>1. answer[r] # "created"
      BY <1>1 DEF AnsweredWhenDone
    <3>2. /\ record[<<a, k>>] # None /\ bodyOf[record[<<a, k>>]] = b
          /\ given'[r] = record[<<a, k>>]
      BY <3>1, <2>2 DEF told, Replies, SameRequest, TypeOK
    <3>3. record[<<a, k>>] \in orders /\ record[<<a, k>>] \in Requests \ {r} /\ Slot(record[<<a, k>>]) = <<a, k>>
      BY <3>2, <1>3, <1>4 DEF RecordsMatchOrders, TypeOK, Slot
    <3> QED  BY <3>2, <3>3, <1>1, <1>2, <1>3 DEF Slot
  <2> QED  BY <2>1, <2>2, <1>1 DEF CreatedIsTheOriginal
<1>11. AnsweredWhenDone'
  BY <1>1 DEF AnsweredWhenDone, told, Replies, TypeOK
<1> QED  BY <1>5, <1>6, <1>7, <1>8, <1>9, <1>10, <1>11

(* Steps that only move a request, answer it without an order or audit it. *)
LEMMA PlainStepKeepsInv ==
  ASSUME CreationInv, NEW r \in Requests, NEW from \in Places \ {"new", "done", "lost"},
         NEW to \in {"calling", "failing", "done", "lost"}, Moves(r, from, to),
         UNCHANGED <<orders, record, asked, bookings, got>>,
         audited' \in SUBSET Requests, expired' \in SUBSET Offers,
         pending' \subseteq pending \/ (to = "calling" /\ pending' \subseteq pending \cup {r}),
         to = "calling" => from = "checked",
         \/ UNCHANGED told
         \/ to = "done" /\ \E a \in Answers \ {"created"} : Replies(r, a, None)
  PROVE  CreationInv'
<1> USE ConstantsOK DEF CreationInv, TypeOK, Places, Answers, Slot,
          asked, told, Moves, Replies
<1>1. TypeOK'
  OBVIOUS
<1>2. AskedOnce'
  BY DEF AskedOnce
<1>3. RecordsMatchOrders'
  BY DEF RecordsMatchOrders, AskedOnce
<1>4. InsertsApart'
  BY DEF InsertsApart, Uncommitted
<1>5. CallsNotStored'
  <2>1. r \notin orders
    BY DEF RecordsMatchOrders
  <2> QED  BY <2>1 DEF CallsNotStored
<1>6. CreatedIsTheOriginal'
  BY DEF CreatedIsTheOriginal, RecordsMatchOrders, AskedOnce
<1>7. AnsweredWhenDone'
  BY DEF AnsweredWhenDone
<1> QED  BY <1>1, <1>2, <1>3, <1>4, <1>5, <1>6, <1>7

(* A booking is added to the call it answers.                              *)
LEMMA ProviderBooksKeepsInv ==
  ASSUME CreationInv, NEW r \in Requests, ProviderBooks(r)
  PROVE  CreationInv'
<1> USE DEF CreationInv
<1>1. /\ UNCHANGED <<expired, orders, record, audited, agentOf, keyOf, bodyOf, answer, given>>
      /\ r \in pending /\ pending' = pending \ {r}
      /\ \/ pc[r] = "calling" /\ pc' = [pc EXCEPT ![r] = "booked"]
         \/ pc[r] # "calling" /\ UNCHANGED pc
  BY DEF ProviderBooks, database, asked, told
<1>2. PICK b \in Requests : /\ got' = [got EXCEPT ![r] = b] /\ b \in bookings'
                            /\ bookings \subseteq bookings' /\ bookings' \subseteq Requests
  <2>1. CASE bookings' = bookings \cup {r} /\ got' = [got EXCEPT ![r] = r]
    BY <2>1 DEF TypeOK
  <2>2. CASE \E b \in KnownBookings(r) : got' = [got EXCEPT ![r] = b] /\ UNCHANGED bookings
    BY <2>2 DEF TypeOK, KnownBookings
  <2> QED  BY <2>1, <2>2 DEF ProviderBooks
<1>3. r \notin orders /\ pc[r] \in {"calling", "failing", "done", "lost"}
  BY <1>1 DEF CallsNotStored
<1>4. \A q \in Requests \ {r} : got'[q] = got[q] /\ pc'[q] = pc[q]
  BY <1>1, <1>2 DEF TypeOK
<1>5. \A q \in Requests : Slot(q)' = Slot(q)
  BY <1>1 DEF Slot
<1>6. pc'[r] \in {"booked", "failing", "done", "lost"} /\ got'[r] = b
  BY <1>1, <1>2, <1>3 DEF TypeOK
<1>7. TypeOK'
  <2>1. \A q \in orders : got'[q] \in bookings'
    BY <1>2, <1>3, <1>4 DEF TypeOK
  <2> QED  BY <1>1, <1>2, <2>1 DEF TypeOK, Places
<1>8. AskedOnce' /\ AnsweredWhenDone'
  BY <1>1 DEF AskedOnce, AnsweredWhenDone, TypeOK
<1>9. RecordsMatchOrders'
  <2>1. \A q \in orders : pc'[q] = "done" /\ record[Slot(q)] = q
    BY <1>3, <1>4 DEF RecordsMatchOrders, TypeOK
  <2>2. \A q \in Requests : pc'[q] = "replaying" => record[Slot(q)] # None
    BY <1>4, <1>6 DEF RecordsMatchOrders
  <2>3. \A slot \in Agents \X Keys : record[slot] # None =>
          record[slot] \in orders /\ Slot(record[slot])' = slot
    BY <1>1, <1>5 DEF RecordsMatchOrders, TypeOK, Slot
  <2>4. \A q \in orders : q \in Requests
    BY DEF TypeOK
  <2> QED  BY <1>1, <1>5, <2>1, <2>2, <2>3, <2>4 DEF RecordsMatchOrders
<1>10. InsertsApart'
  <2>1. Uncommitted' = Uncommitted /\ r \notin Uncommitted
    BY <1>1, <1>3, <1>4, <1>6 DEF Uncommitted
  <2>2. \A q \in orders \cup Uncommitted : got'[q] = got[q]
    BY <1>3, <1>4, <2>1 DEF TypeOK, Uncommitted
  <2>3. \A q \in Requests : pc'[q] \in {"booked", "inserted"} => got'[q] \in bookings'
    BY <1>2, <1>4, <1>6 DEF InsertsApart
  <2> QED  BY <1>1, <2>1, <2>2, <2>3 DEF InsertsApart
<1>11. CallsNotStored'
  BY <1>1, <1>4 DEF CallsNotStored, TypeOK
<1>12. CreatedIsTheOriginal'
  BY <1>1 DEF CreatedIsTheOriginal, Slot
<1> QED  BY <1>7, <1>8, <1>9, <1>10, <1>11, <1>12

(* The UNIQUE booking reference keeps inserts apart.                       *)
LEMMA InsertsOrderKeepsInv ==
  ASSUME CreationInv, NEW r \in Requests, InsertsOrder(r)
  PROVE  CreationInv'
<1> USE ConstantsOK DEF CreationInv, TypeOK, Places, Answers, Slot,
          database, asked, provider, told, Moves, InsertsOrder, ReferenceIn
<1>1. TypeOK'
  OBVIOUS
<1>2. AskedOnce'
  BY DEF AskedOnce
<1>3. RecordsMatchOrders'
  BY DEF RecordsMatchOrders, AskedOnce
<1>4. InsertsApart'
  BY DEF InsertsApart, Uncommitted
<1>5. CallsNotStored'
  BY DEF CallsNotStored, RecordsMatchOrders
<1>6. CreatedIsTheOriginal'
  BY DEF CreatedIsTheOriginal, RecordsMatchOrders, AskedOnce
<1>7. AnsweredWhenDone'
  BY DEF AnsweredWhenDone
<1> QED  BY <1>1, <1>2, <1>3, <1>4, <1>5, <1>6, <1>7

(* The order and the record of its key appear together.                    *)
LEMMA CommitsOrderKeepsInv ==
  ASSUME CreationInv, NEW r \in Requests, CommitsOrder(r)
  PROVE  CreationInv'
<1> USE ConstantsOK DEF CreationInv, TypeOK, Places, Answers, Slot,
          database, asked, provider, told, Moves, CommitsOrder, SlotFree, Replies
<1>1. TypeOK'
  BY DEF InsertsApart, AskedOnce
<1>2. AskedOnce'
  BY DEF AskedOnce
<1>3. RecordsMatchOrders'
  BY DEF RecordsMatchOrders, AskedOnce
<1>4. InsertsApart'
  BY DEF InsertsApart, Uncommitted
<1>5. CallsNotStored'
  BY DEF CallsNotStored, RecordsMatchOrders
<1>6. CreatedIsTheOriginal'
  BY DEF CreatedIsTheOriginal, RecordsMatchOrders, AskedOnce
<1>7. AnsweredWhenDone'
  BY DEF AnsweredWhenDone
<1> QED  BY <1>1, <1>2, <1>3, <1>4, <1>5, <1>6, <1>7

(* A rolled-back commit leaves a record to look up.                        *)
LEMMA KeyRecordedKeepsInv ==
  ASSUME CreationInv, NEW r \in Requests, KeyRecorded(r)
  PROVE  CreationInv'
<1> USE ConstantsOK DEF CreationInv, TypeOK, Places, Answers, Slot,
          database, asked, provider, told, Moves, KeyRecorded, SlotFree
<1>1. TypeOK'
  OBVIOUS
<1>2. AskedOnce'
  BY DEF AskedOnce
<1>3. RecordsMatchOrders'
  BY DEF RecordsMatchOrders, AskedOnce
<1>4. InsertsApart'
  BY DEF InsertsApart, Uncommitted
<1>5. CallsNotStored'
  BY DEF CallsNotStored, RecordsMatchOrders
<1>6. CreatedIsTheOriginal'
  BY DEF CreatedIsTheOriginal, RecordsMatchOrders, AskedOnce
<1>7. AnsweredWhenDone'
  BY DEF AnsweredWhenDone
<1> QED  BY <1>1, <1>2, <1>3, <1>4, <1>5, <1>6, <1>7

(* After the rollback, the recorded order is given, or none.               *)
LEMMA ReplaysKeepsInv ==
  ASSUME CreationInv, NEW r \in Requests, ReplaysAfterRollback(r)
  PROVE  CreationInv'
<1> USE ConstantsOK DEF CreationInv, TypeOK, Places, Answers, Slot,
          database, asked, provider, told, Moves, ReplaysAfterRollback, ReplaysOrder, SameRequest, Replies
<1>1. TypeOK'
  BY DEF AskedOnce
<1>2. AskedOnce'
  BY DEF AskedOnce
<1>3. RecordsMatchOrders'
  BY DEF RecordsMatchOrders, AskedOnce
<1>4. InsertsApart'
  BY DEF InsertsApart, Uncommitted
<1>5. CallsNotStored'
  BY DEF CallsNotStored, RecordsMatchOrders
<1>6. CreatedIsTheOriginal'
  BY DEF CreatedIsTheOriginal, RecordsMatchOrders, AskedOnce
<1>7. AnsweredWhenDone'
  BY DEF AnsweredWhenDone
<1> QED  BY <1>1, <1>2, <1>3, <1>4, <1>5, <1>6, <1>7

LEMMA StepKeepsInv == CreationInv /\ [Next]_vars => CreationInv'
<1> SUFFICES ASSUME CreationInv, [Next]_vars PROVE CreationInv'
  OBVIOUS
<1>1. CASE UNCHANGED <<orders, record, audited, asked, provider, told, pc>> /\ expired' \in SUBSET Offers
  <2> USE <1>1 DEF asked, provider, told, CreationInv, Slot
  <2>1. (TypeOK /\ AskedOnce /\ RecordsMatchOrders)'
    BY DEF TypeOK, AskedOnce, RecordsMatchOrders
  <2>2. (InsertsApart /\ CallsNotStored /\ CreatedIsTheOriginal /\ AnsweredWhenDone)'
    BY DEF InsertsApart, Uncommitted, CallsNotStored, CreatedIsTheOriginal,
       AnsweredWhenDone
  <2> QED  BY <2>1, <2>2
<1>2. CASE UNCHANGED vars \/ \E f \in Offers : OfferExpires(f)
  BY <1>1, <1>2 DEF vars, database, OfferExpires, CreationInv, TypeOK
<1>3. ASSUME NEW r \in Requests, NEW a \in Agents, NEW k \in Keys, NEW b \in Bodies,
             FindsRecord(r, a, k, b) \/ FindsNoRecord(r, a, k, b)
      PROVE  CreationInv'
  BY <1>3, ArrivesKeepsInv DEF FindsRecord, FindsNoRecord, ReplaysOrder
<1>4. ASSUME NEW r \in Requests,
             OfferNotFound(r) \/ OfferTooOld(r) \/ CallsProvider(r) \/ CallTimesOut(r)
               \/ RecordsFailure(r) \/ ReferenceTaken(r)
      PROVE  CreationInv'
  <2> USE DEF database, asked, provider, told, CreationInv, TypeOK, Places, Answers, Moves
  <2>1. CASE OfferNotFound(r)
    BY <2>1, PlainStepKeepsInv DEF OfferNotFound
  <2>2. CASE OfferTooOld(r)
    BY <2>2, PlainStepKeepsInv DEF OfferTooOld
  <2>3. CASE CallsProvider(r)
    BY <2>3, PlainStepKeepsInv DEF CallsProvider
  <2>4. CASE CallTimesOut(r)
    BY <2>4, PlainStepKeepsInv DEF CallTimesOut, Abandons
  <2>5. CASE RecordsFailure(r)
    BY <2>5, PlainStepKeepsInv DEF RecordsFailure
  <2>6. CASE ReferenceTaken(r)
    BY <2>6, PlainStepKeepsInv DEF ReferenceTaken
  <2> QED  BY <1>4, <2>1, <2>2, <2>3, <2>4, <2>5, <2>6
<1>5. ASSUME NEW r \in Requests, HandlerLost(r)
      PROVE  CreationInv'
  BY <1>5, PlainStepKeepsInv DEF HandlerLost, InFlight, Abandons, Moves, CreationInv, TypeOK,
     Places, database, told
<1>6. ASSUME NEW r \in Requests, ProviderRejects(r)
      PROVE  CreationInv'
  <2>1. CASE pc[r] = "calling"
    BY <1>6, <2>1, PlainStepKeepsInv DEF ProviderRejects, Moves, CreationInv, TypeOK, Places,
       database, told
  <2>2. CASE UNCHANGED pc
    <3> USE <1>6, <2>2 DEF ProviderRejects, database, asked, told, CreationInv, Slot
    <3>1. (TypeOK /\ AskedOnce /\ RecordsMatchOrders)'
      BY DEF TypeOK, AskedOnce, RecordsMatchOrders
    <3>2. (InsertsApart /\ CallsNotStored /\ CreatedIsTheOriginal /\ AnsweredWhenDone)'
      BY DEF InsertsApart, Uncommitted, CallsNotStored, CreatedIsTheOriginal,
         AnsweredWhenDone
    <3> QED  BY <3>1, <3>2
  <2> QED  BY <1>6, <2>1, <2>2 DEF ProviderRejects
<1> QED  BY <1>2, <1>3, <1>4, <1>5, <1>6, ProviderBooksKeepsInv, InsertsOrderKeepsInv,
            CommitsOrderKeepsInv, KeyRecordedKeepsInv, ReplaysKeepsInv DEF Next, HandlerStep

(* CreationInv holds in every reachable state.                             *)
THEOREM CreationInvariance == Spec => []CreationInv
BY InitCreationInv, StepKeepsInv, PTL DEF Spec

(* Every variable keeps its type, and an order has a provider booking.     *)
THEOREM TypeCorrect == Spec => []TypeOK
<1>1. CreationInv => TypeOK  BY DEF CreationInv
<1> QED  BY <1>1, CreationInvariance, PTL

(* An agent's key never stands for two orders, also when the provider      *)
(* ignores the key and requests overlap.                                   *)
THEOREM KeyNamesOneOrder == Spec => []OneOrderPerKey
<1>1. CreationInv => OneOrderPerKey
  BY DEF CreationInv, RecordsMatchOrders, OneOrderPerKey
<1> QED  BY <1>1, CreationInvariance, PTL

(* A booking is never sold to two orders, also when agents share a key.    *)
THEOREM BookingSoldOnce == Spec => []OneOrderPerBooking
<1>1. CreationInv => OneOrderPerBooking
  BY DEF CreationInv, InsertsApart, OneOrderPerBooking
<1> QED  BY <1>1, CreationInvariance, PTL

(* Whoever is told that an order was created is given the original order.  *)
THEOREM RepeatGivesOriginal == Spec => []CreatedIsTheOriginal
<1>1. CreationInv => CreatedIsTheOriginal  BY DEF CreationInv
<1> QED  BY <1>1, CreationInvariance, PTL
-----------------------------------------------------------------------------
(***************************************************************************)
(* Careful clients.  The runs creation_body and creation_repeat show two   *)
(* promises that create_order does not keep.  What it keeps of them rests  *)
(* on one fact: a call returns a booking of its own key.                   *)
(***************************************************************************)
BookingsKeepKey ==
  /\ \A r \in Requests : got[r] # None =>
       pc[r] # "new" /\ got[r] \in bookings /\ keyOf[got[r]] = keyOf[r]
  /\ \A b \in bookings : pc[b] # "new"

(* Who got an internal error used the key of a stored order.               *)
ErrorsMeanOrders ==
  \A r \in Requests : answer[r] = "server_error" => \E q \in orders : keyOf[q] = keyOf[r]

(* What has been asked stays asked, and stored orders stay stored.         *)
LEMMA AskedStays ==
  ASSUME CreationInv, [Next]_vars
  PROVE  /\ \A q \in Requests : pc[q] # "new" =>
              pc'[q] # "new" /\ keyOf'[q] = keyOf[q]
         /\ orders \subseteq orders'
<1> USE DEF CreationInv, TypeOK
<1>1. ASSUME NEW r \in Requests, NEW a \in Agents, NEW k \in Keys, NEW b \in Bodies,
             FindsRecord(r, a, k, b) \/ FindsNoRecord(r, a, k, b)
      PROVE  /\ \A q \in Requests : pc[q] # "new" => pc'[q] # "new" /\ keyOf'[q] = keyOf[q]
             /\ orders \subseteq orders'
  BY <1>1 DEF FindsRecord, FindsNoRecord, Moves, Arrives, database
<1>2. ASSUME NEW r \in Requests, HandlerStep(r) \/ ProviderBooks(r) \/ ProviderRejects(r) \/ HandlerLost(r)
      PROVE  /\ \A q \in Requests : pc[q] # "new" => pc'[q] # "new"
             /\ UNCHANGED keyOf /\ orders \subseteq orders'
  BY <1>2 DEF HandlerStep, OfferNotFound, OfferTooOld, CallsProvider, CallTimesOut, RecordsFailure,
     InsertsOrder, ReferenceTaken, CommitsOrder, KeyRecorded, ReplaysAfterRollback, ProviderBooks,
     ProviderRejects, HandlerLost, Moves, database, asked
<1>3. ASSUME \/ \E f \in Offers : OfferExpires(f)
             \/ UNCHANGED vars
      PROVE  UNCHANGED <<pc, keyOf, orders>>
  BY <1>3 DEF OfferExpires, vars, database, asked
<1> QED  BY <1>1, <1>2, <1>3 DEF Next

(* Only the provider's answer changes what a call returned.                *)
LEMMA GotStays ==
  ASSUME [Next]_vars, \A r \in Requests : ~ ProviderBooks(r)
  PROVE  UNCHANGED <<got, bookings>>
BY DEF Next, FindsRecord, FindsNoRecord, Arrives, HandlerStep, OfferNotFound, OfferTooOld,
   CallsProvider, CallTimesOut, RecordsFailure, InsertsOrder, ReferenceTaken, CommitsOrder,
   KeyRecorded, ReplaysAfterRollback, ProviderRejects, HandlerLost, OfferExpires, vars, provider

LEMMA BookingsInductive ==
  ASSUME CreationInv, BookingsKeepKey, [Next]_vars
  PROVE  BookingsKeepKey'
<1> USE DEF CreationInv, TypeOK
<1>1. CASE \A r \in Requests : ~ ProviderBooks(r)
  BY <1>1, AskedStays, GotStays DEF BookingsKeepKey
<1>2. ASSUME NEW r \in Requests, ProviderBooks(r)
      PROVE  BookingsKeepKey'
  <2>1. pc[r] # "new" /\ UNCHANGED keyOf
    BY <1>2 DEF ProviderBooks, CallsNotStored, asked
  <2>2. PICK b \in Requests :
          /\ got' = [got EXCEPT ![r] = b]
          /\ b \in bookings' /\ keyOf[b] = keyOf[r] /\ bookings \subseteq bookings'
          /\ bookings' \subseteq bookings \cup {r}
    <3>1. CASE bookings' = bookings \cup {r} /\ got' = [got EXCEPT ![r] = r]
      BY <3>1
    <3>2. CASE \E b \in KnownBookings(r) : got' = [got EXCEPT ![r] = b] /\ UNCHANGED bookings
      BY <3>2 DEF KnownBookings
    <3> QED  BY <1>2, <3>1, <3>2 DEF ProviderBooks
  <2>3. \A c \in bookings' : pc'[c] # "new"
    BY <2>1, <2>2, AskedStays DEF BookingsKeepKey
  <2>4. \A q \in Requests : got'[q] # None =>
          pc'[q] # "new" /\ got'[q] \in bookings' /\ keyOf[got'[q]] = keyOf[q]
    BY <2>1, <2>2, AskedStays DEF BookingsKeepKey
  <2> QED  BY <2>1, <2>3, <2>4 DEF BookingsKeepKey
<1> QED  BY <1>1, <1>2

LEMMA ErrorsInductive ==
  ASSUME CreationInv, BookingsKeepKey, ErrorsMeanOrders, [Next]_vars
  PROVE  ErrorsMeanOrders'
<1> USE DEF CreationInv, TypeOK
<1>1. \A q \in orders : pc[q] # "new" /\ q \in orders' /\ keyOf'[q] = keyOf[q]
  BY AskedStays DEF RecordsMatchOrders
<1>2. ASSUME NEW r \in Requests, answer[r] = "server_error"
      PROVE  \E q \in orders' : keyOf'[q] = keyOf'[r]
  BY <1>1, <1>2, AskedStays DEF ErrorsMeanOrders, AnsweredWhenDone
<1>3. ASSUME NEW r \in Requests, answer[r] # "server_error", answer'[r] = "server_error"
      PROVE  ReferenceTaken(r)
  <2>1. ASSUME NEW q \in Requests, ReferenceTaken(q)
        PROVE  q = r
    BY <1>3, <2>1 DEF ReferenceTaken, Replies
  <2>2. ASSUME NEW q \in Requests, NEW a \in Agents, NEW k \in Keys, NEW b \in Bodies,
               FindsRecord(q, a, k, b) \/ FindsNoRecord(q, a, k, b)
        PROVE  FALSE
    BY <1>3, <2>2 DEF FindsRecord, FindsNoRecord, ReplaysOrder, Replies, told
  <2>3. ASSUME NEW q \in Requests,
               \/ OfferNotFound(q) \/ OfferTooOld(q) \/ RecordsFailure(q) \/ CommitsOrder(q)
               \/ ReplaysAfterRollback(q)
        PROVE  FALSE
    BY <1>3, <2>3 DEF OfferNotFound, OfferTooOld, RecordsFailure, CommitsOrder,
       ReplaysAfterRollback, ReplaysOrder, Replies
  <2>4. ASSUME NEW q \in Requests,
               \/ CallsProvider(q) \/ CallTimesOut(q) \/ InsertsOrder(q) \/ KeyRecorded(q)
               \/ ProviderBooks(q) \/ ProviderRejects(q) \/ HandlerLost(q)
        PROVE  FALSE
    BY <1>3, <2>4 DEF CallsProvider, CallTimesOut, InsertsOrder, KeyRecorded, ProviderBooks,
       ProviderRejects, HandlerLost, told
  <2>5. ~ UNCHANGED vars /\ \A f \in Offers : ~ OfferExpires(f)
    BY <1>3 DEF vars, OfferExpires, told
  <2> QED  BY <2>1, <2>2, <2>3, <2>4, <2>5 DEF Next, HandlerStep
<1>4. ASSUME NEW r \in Requests, ReferenceTaken(r)
      PROVE  \E q \in orders' : keyOf'[q] = keyOf'[r]
  <2>1. PICK q \in orders : got[q] = got[r]
    BY <1>4 DEF ReferenceTaken, ReferenceIn
  <2>2. got[r] \in Requests /\ got[r] # None
    BY <1>4, ConstantsOK DEF ReferenceTaken, Moves, InsertsApart, ConstantsOK
  <2>3. keyOf[q] = keyOf[r]
    BY <2>1, <2>2 DEF BookingsKeepKey
  <2>4. pc[r] # "new"
    BY <1>4 DEF ReferenceTaken, Moves
  <2> QED  BY <1>1, <2>3, <2>4, AskedStays
<1> QED  BY <1>2, <1>3, <1>4 DEF ErrorsMeanOrders

LEMMA CarefulInvariant == Spec => [](CreationInv /\ BookingsKeepKey /\ ErrorsMeanOrders)
<1>1. Init => BookingsKeepKey /\ ErrorsMeanOrders
  BY DEF Init, BookingsKeepKey, ErrorsMeanOrders
<1> QED  BY <1>1, InitCreationInv, StepKeepsInv, BookingsInductive, ErrorsInductive, PTL DEF Spec

(* Agents who never send a key with two bodies, ...                        *)
Arrived == {r \in Requests : pc[r] # "new"}

KeysMeanBodies == \A q, r \in Arrived : Slot(q) = Slot(r) => bodyOf[q] = bodyOf[r]

(* ... and keys that no two agents share (as random ones are not).         *)
KeysMeanAgents == \A q, r \in Arrived : keyOf[q] = keyOf[r] => agentOf[q] = agentOf[r]

(* As long as a key is not sent with another body, every order rests on a  *)
(* booking made for its passenger: finding 5 takes a second body.          *)
THEOREM OneBodyBooksAsOrdered == Spec => [](KeysMeanBodies => BookedAsOrdered)
<1>1. ASSUME CreationInv, BookingsKeepKey, KeysMeanBodies, NEW r \in orders,
             agentOf[got[r]] = agentOf[r]
      PROVE  bodyOf[got[r]] = bodyOf[r]
  <2>1. got[r] \in Requests /\ got[r] # None /\ r \in Requests
    BY <1>1, ConstantsOK DEF CreationInv, TypeOK, ConstantsOK
  <2>2. got[r] \in Arrived /\ r \in Arrived /\ keyOf[got[r]] = keyOf[r]
    BY <1>1, <2>1 DEF BookingsKeepKey, Arrived
  <2> QED  BY <1>1, <2>2 DEF KeysMeanBodies, Slot
<1>2. CreationInv /\ BookingsKeepKey => (KeysMeanBodies => BookedAsOrdered)
  BY <1>1 DEF BookedAsOrdered
<1> QED  BY <1>2, CarefulInvariant, PTL

(* Of finding 4 remains that a repeat gets the order in the end: when an   *)
(* agent's key is its own, a request that ended in an internal error has   *)
(* left a recorded order, and whoever asks again is answered from it.      *)
ErrorsLeaveOrders == \A r \in Requests : answer[r] = "server_error" => record[Slot(r)] \in orders

THEOREM NextRepeatGetsOrder == Spec => [](KeysMeanAgents => ErrorsLeaveOrders)
<1>1. ASSUME CreationInv, ErrorsMeanOrders, KeysMeanAgents, NEW r \in Requests,
             answer[r] = "server_error"
      PROVE  record[Slot(r)] \in orders
  <2>1. PICK q \in orders : keyOf[q] = keyOf[r]
    BY <1>1 DEF ErrorsMeanOrders
  <2>2. q \in Arrived /\ r \in Arrived /\ record[Slot(q)] = q
    BY <1>1 DEF CreationInv, TypeOK, RecordsMatchOrders, AnsweredWhenDone, Arrived
  <2>3. Slot(q) = Slot(r)
    BY <1>1, <2>1, <2>2 DEF KeysMeanAgents, Slot
  <2> QED  BY <2>2, <2>3
<1>2. CreationInv /\ ErrorsMeanOrders => (KeysMeanAgents => ErrorsLeaveOrders)
  BY <1>1 DEF ErrorsLeaveOrders
<1> QED  BY <1>2, CarefulInvariant, PTL
-----------------------------------------------------------------------------
(***************************************************************************)
(* OrderCreation implements IdempotentOrders.  Every step lets one request *)
(* come or leave, answers one, which had been told nothing, or changes     *)
(* nothing that the outside sees.                                          *)
(***************************************************************************)
Seen == <<Kept, Open, Told>>

(* What was stored, said or asked stays so, whatever else a step does.     *)
SameToOutside(q) == Slot(q)' = Slot(q) /\ bodyOf'[q] = bodyOf[q]

Request(r) == [request |-> r, slot |-> Slot(r), body |-> bodyOf[r]]

Reply(r) == [request |-> r, slot |-> Slot(r), body |-> bodyOf[r],
             answer |-> Verdict(answer[r]), order |-> given[r]]

(* Who has an order or an answer is done; who is served was told nothing.  *)
LEMMA DoneOnly ==
  ASSUME CreationInv
  PROVE  /\ \A q \in orders \cup Answered : q \in Requests /\ pc[q] = "done"
         /\ \A r \in Requests : pc[r] # "done" => answer[r] = "none"
         /\ answer \in [Requests -> Answers]
         /\ given \in [Requests -> Requests \cup {None}]
         /\ pc \in [Requests -> Places]
BY DEF CreationInv, TypeOK, RecordsMatchOrders, AnsweredWhenDone, Answered

(* A request that has arrived names a slot and a body.                     *)
LEMMA HasAsked ==
  ASSUME CreationInv, NEW r \in Requests, pc[r] # "new"
  PROVE  Slot(r) \in Agents \X Keys /\ bodyOf[r] \in Bodies
BY DEF CreationInv, AskedOnce, Slot

(* Without a new order, a new answer or a new request, nothing is seen.    *)
LEMMA UnseenStep ==
  ASSUME UNCHANGED <<orders, answer, given>>, InFlight' = InFlight,
         \A q \in orders \cup Answered \cup InFlight : SameToOutside(q)
  PROVE  UNCHANGED Seen
<1>1. Answered' = Answered
  BY DEF Answered
<1> QED  BY <1>1 DEF SameToOutside, Kept, Told, Open, Answered, Seen

(* Steps inside a handler are not seen.                                    *)
LEMMA InnerStep ==
  ASSUME CreationInv, UNCHANGED <<orders, asked, told>>, NEW r \in Requests,
         \/ UNCHANGED pc
         \/ r \in InFlight /\ \E to \in Places \ {"new", "done", "lost"} : pc' = [pc EXCEPT ![r] = to]
  PROVE  UNCHANGED Seen
<1>1. InFlight' = InFlight
  BY DoneOnly DEF InFlight
<1>2. \A q : SameToOutside(q)
  BY DEF SameToOutside, Slot, asked
<1> QED  BY <1>1, <1>2, UnseenStep DEF told

(* Request r, told nothing so far, is answered.                            *)
LEMMA ReplySeen ==
  ASSUME CreationInv, NEW r \in Requests, NEW a \in Answers \ {"none"}, NEW o,
         Replies(r, a, o), pc[r] # "done", pc' = [pc EXCEPT ![r] = "done"],
         \A q \in Answered \cup InFlight : SameToOutside(q)
  PROVE  Store!Tells(r, Slot(r)', bodyOf'[r], Verdict(a), o)
<1>1. Answered' = Answered \cup {r} /\ InFlight' = InFlight \ {r} /\ answer[r] = "none"
  BY DoneOnly DEF Answered, Replies, InFlight
<1>2. \A q \in Answered : q # r /\ answer'[q] = answer[q] /\ given'[q] = given[q]
  BY <1>1, DoneOnly DEF Answered, Replies
<1>3. answer'[r] = a /\ given'[r] = o
  BY DoneOnly DEF Replies
<1>4. \A q \in Answered : Reply(q)' = Reply(q)
  BY <1>2 DEF Reply, SameToOutside
<1>5. Told = {Reply(q) : q \in Answered} /\ Told' = {Reply(q)' : q \in Answered'}
  BY DEF Told, Reply
<1>6. Reply(r)' = [request |-> r, slot |-> Slot(r)', body |-> bodyOf'[r],
                   answer |-> Verdict(a), order |-> o]
  BY <1>3 DEF Reply
<1>7. \A t \in Told : t.request # r
  BY <1>2 DEF Told
<1>8. Told' = Told \cup {Reply(r)'}
  BY <1>1, <1>4, <1>5
<1>9. \A q \in InFlight : Request(q)' = Request(q)
  BY DEF Request, SameToOutside
<1>10. Open = {Request(q) : q \in InFlight} /\ Open' = {Request(q)' : q \in InFlight'}
  BY DEF Open, Request
<1>11. /\ Request(r)' = Store!Asks(r, Slot(r)', bodyOf'[r])
       /\ \A q \in InFlight : Request(q).request = q
  BY DEF Request, Store!Asks
<1>12. \A q \in Open : q.request = r => q = Store!Asks(r, Slot(r)', bodyOf'[r])
  BY <1>9, <1>10, <1>11
<1>13. Open' = Open \ {Store!Asks(r, Slot(r)', bodyOf'[r])}
  <2>1. \A q \in InFlight : Request(q) = Request(r)' <=> q = r
    BY <1>9, <1>11 DEF Request, Store!Asks
  <2> QED  BY <1>1, <1>9, <1>10, <1>11, <2>1
<1> QED  BY <1>6, <1>7, <1>8, <1>12, <1>13 DEF Store!Tells

(* A request that is being served is open.                                 *)
LEMMA ServedIsOpen ==
  ASSUME CreationInv, NEW r \in InFlight
  PROVE  Store!Asks(r, Slot(r), bodyOf[r]) \in Open
BY DEF Open, Store!Asks

(* A slot without a record has no order.                                   *)
LEMMA NoRecordIsFree ==
  ASSUME CreationInv, NEW s \in Agents \X Keys, record[s] = None
  PROVE  Store!Free(s)
<1>1. \A q \in orders : record[Slot(q)] = q /\ q # None
  BY ConstantsOK, DoneOnly DEF CreationInv, RecordsMatchOrders, ConstantsOK
<1> QED  BY <1>1 DEF Store!Free, Kept

(* A handler that ends in an error other than a conflict has its request   *)
(* refused, or told of an internal error.                                  *)
LEMMA RefusalSeen ==
  ASSUME CreationInv, NEW r \in Requests, NEW from \in Places \ {"new", "done", "lost"},
         NEW a \in Answers \ {"none", "created", "conflict"},
         Moves(r, from, "done"), Replies(r, a, None), UNCHANGED <<orders, asked>>,
         a = "server_error" => \E q \in orders : keyOf[q] = keyOf[r]
  PROVE  Store!Next
<1>1. \A q : SameToOutside(q)
  BY DEF SameToOutside, Slot, asked
<1>2. r \in InFlight /\ pc[r] # "new" /\ pc[r] # "done"
  BY DEF Moves, InFlight
<1>3. Slot(r)' = Slot(r) /\ Slot(r) \in Agents \X Keys /\ bodyOf'[r] = bodyOf[r] /\ bodyOf[r] \in Bodies
  BY <1>1, <1>2, HasAsked DEF SameToOutside
<1>4. Store!Tells(r, Slot(r), bodyOf[r], Verdict(a), None)
  <2>1. Store!Tells(r, Slot(r)', bodyOf'[r], Verdict(a), None)
    BY <1>1, <1>2, ReplySeen DEF Moves
  <2> QED  BY <1>3, <2>1
<1>5. Kept' = Kept
  BY <1>1 DEF Kept, SameToOutside
<1>6. Store!Asks(r, Slot(r), bodyOf[r]) \in Open
  BY <1>2, ServedIsOpen
<1>7. CASE a = "server_error"
  <2>1. PICK q \in orders : keyOf[q] = keyOf[r]
    BY <1>7
  <2>2. \E k \in Kept : k.slot[2] = Slot(r)[2]
    <3>1. [slot |-> Slot(q), order |-> q, body |-> bodyOf[q]] \in Kept
      BY DEF Kept
    <3>2. Slot(q)[2] = Slot(r)[2]
      BY <2>1 DEF Slot
    <3> QED  BY <3>1, <3>2
  <2>3. Store!Errs(r, Slot(r), bodyOf[r])
    BY <1>4, <1>5, <1>6, <1>7, <2>2 DEF Store!Errs, Verdict
  <2> QED  BY <1>3, <2>3 DEF Store!Next, Store!Slots
<1>8. CASE a # "server_error"
  <2>1. Store!Refuses(r, Slot(r), bodyOf[r])
    BY <1>4, <1>5, <1>6, <1>8 DEF Store!Refuses, Verdict
  <2> QED  BY <1>3, <2>1 DEF Store!Next, Store!Slots
<1> QED  BY <1>7, <1>8

(* The flush fails on the booking of a stored order, which was bought with *)
(* the same key.                                                           *)
LEMMA TakenByKey ==
  ASSUME CreationInv, BookingsKeepKey, NEW r \in Requests, ReferenceTaken(r)
  PROVE  \E q \in orders : keyOf[q] = keyOf[r]
<1>1. PICK q \in orders : got[q] = got[r]
  BY DEF ReferenceTaken, ReferenceIn
<1>2. got[r] \in Requests /\ got[r] # None /\ q \in Requests
  BY ConstantsOK DEF ReferenceTaken, Moves, CreationInv, TypeOK, InsertsApart, ConstantsOK
<1> QED  BY <1>1, <1>2 DEF BookingsKeepKey

(* A request that finds its key recorded is a repeat or a conflict.        *)
LEMMA ReplaySeen ==
  ASSUME CreationInv, NEW r \in Requests, pc[r] # "done", pc' = [pc EXCEPT ![r] = "done"],
         NEW o \in orders,
         UNCHANGED orders, \A q \in orders \cup Answered \cup InFlight : SameToOutside(q),
         Slot(r)' \in Agents \X Keys, bodyOf'[r] \in Bodies, Slot(o) = Slot(r)',
         ReplaysOrder(r, o, bodyOf'[r])
  PROVE  Store!Next
<1> DEFINE k == [slot |-> Slot(o), order |-> o, body |-> bodyOf[o]]
<1>1. k \in Kept
  BY DEF Kept
<1>2. Kept' = Kept
  BY DEF Kept, SameToOutside
<1>3. \A q \in Answered \cup InFlight : SameToOutside(q)
  OBVIOUS
<1>4. CASE bodyOf[o] = bodyOf'[r]
  <2>1. Replies(r, "created", o)
    BY <1>4 DEF ReplaysOrder, SameRequest
  <2>2. Store!Tells(r, Slot(r)', bodyOf'[r], Verdict("created"), o)
    BY <2>1, <1>3, ReplySeen DEF Answers
  <2>3. Store!Repeats(r, Slot(r)', bodyOf'[r])
    BY <2>2, <1>1, <1>2, <1>4 DEF Store!Repeats, Verdict
  <2> QED  BY <2>3 DEF Store!Next, Store!Slots
<1>5. CASE bodyOf[o] # bodyOf'[r]
  <2>1. Replies(r, "conflict", None)
    BY <1>5 DEF ReplaysOrder, SameRequest
  <2>2. Store!Tells(r, Slot(r)', bodyOf'[r], Verdict("conflict"), None)
    BY <2>1, <1>3, ReplySeen DEF Answers
  <2>3. Store!Conflicts(r, Slot(r)', bodyOf'[r])
    BY <2>2, <1>1, <1>2, <1>5 DEF Store!Conflicts, Verdict
  <2> QED  BY <2>3 DEF Store!Next, Store!Slots
<1> QED  BY <1>4, <1>5

(* The commit that finds the slot free creates the order.                  *)
LEMMA CommitSeen ==
  ASSUME CreationInv, NEW r \in Requests, CommitsOrder(r)
  PROVE  Store!Next
<1>1. /\ pc[r] = "inserted" /\ pc' = [pc EXCEPT ![r] = "done"] /\ record[Slot(r)] = None
      /\ orders' = orders \cup {r} /\ UNCHANGED asked /\ Replies(r, "created", r)
  BY DEF CommitsOrder, Moves, SlotFree
<1>2. \A q : SameToOutside(q)
  BY <1>1 DEF SameToOutside, Slot, asked
<1>3. /\ Slot(r)' = Slot(r) /\ Slot(r) \in Agents \X Keys
      /\ bodyOf'[r] = bodyOf[r] /\ bodyOf[r] \in Bodies
  BY <1>1, <1>2, HasAsked DEF SameToOutside
<1>4. Store!Tells(r, Slot(r), bodyOf[r], "created", r)
  <2>1. Store!Tells(r, Slot(r)', bodyOf'[r], Verdict("created"), r)
    BY <1>1, <1>2, ReplySeen DEF Answers
  <2> QED  BY <1>3, <2>1 DEF Verdict
<1>5. Store!Free(Slot(r))
  BY <1>1, <1>3, NoRecordIsFree
<1>6. Kept' = Kept \cup {[slot |-> Slot(r), order |-> r, body |-> bodyOf[r]]}
  <2>1. Kept' = {[slot |-> Slot(q)', order |-> q, body |-> bodyOf'[q]] : q \in orders'}
    BY DEF Kept
  <2>2. \A q \in orders' : Slot(q)' = Slot(q) /\ bodyOf'[q] = bodyOf[q]
    BY <1>2 DEF SameToOutside
  <2> QED  BY <1>1, <2>1, <2>2 DEF Kept
<1>7. Store!Asks(r, Slot(r), bodyOf[r]) \in Open
  BY <1>1, ServedIsOpen DEF InFlight
<1>8. Store!Creates(r, Slot(r), bodyOf[r])
  BY <1>4, <1>5, <1>6, <1>7 DEF Store!Creates
<1> QED  BY <1>3, <1>8 DEF Store!Next, Store!Slots

(* The first lookup changes what its request asks for, and nothing else    *)
(* that is seen: the request comes, or is answered at once.                *)
LEMMA ArrivalSeen ==
  ASSUME CreationInv, NEW r \in Requests, NEW a \in Agents, NEW k \in Keys, NEW b \in Bodies,
         FindsRecord(r, a, k, b) \/ FindsNoRecord(r, a, k, b)
  PROVE  Store!Next
<1>1. pc[r] = "new" /\ UNCHANGED orders /\ Arrives(r, a, k, b)
  BY DEF FindsRecord, FindsNoRecord, Moves, Arrives, database
<1>2. \A q \in orders \cup Answered \cup InFlight : q \in Requests \ {r} /\ SameToOutside(q)
  <2>1. \A q \in orders \cup Answered \cup InFlight : q \in Requests \ {r}
    BY <1>1, DoneOnly DEF InFlight
  <2> QED  BY <1>1, <2>1 DEF CreationInv, TypeOK, Arrives, SameToOutside, Slot
<1>3. Slot(r)' = <<a, k>> /\ bodyOf'[r] = b /\ <<a, k>> \in Agents \X Keys
  BY <1>1 DEF CreationInv, TypeOK, Arrives, Slot
<1>4. CASE FindsNoRecord(r, a, k, b)
  <2>1. pc' = [pc EXCEPT ![r] = "checked"] /\ record[<<a, k>>] = None /\ UNCHANGED <<answer, given>>
    BY <1>4 DEF FindsNoRecord, Moves, told
  <2>2. InFlight' = InFlight \cup {r}
    BY <2>1, DoneOnly DEF InFlight
  <2>3. \A q \in InFlight : Request(q)' = Request(q)
    BY <1>2 DEF Request, SameToOutside
  <2>4. Open = {Request(q) : q \in InFlight} /\ Open' = {Request(q)' : q \in InFlight'}
    BY DEF Open, Request
  <2>5. Request(r)' = Store!Asks(r, <<a, k>>, b)
    BY <1>3 DEF Request, Store!Asks
  <2>6. Open' = Open \cup {Store!Asks(r, <<a, k>>, b)}
    BY <2>2, <2>3, <2>4, <2>5
  <2>7. Kept' = Kept /\ Told' = Told
    <3>1. Answered' = Answered
      BY <2>1 DEF Answered
    <3> QED  BY <1>1, <1>2, <2>1, <3>1 DEF SameToOutside, Kept, Told
  <2>8. \A q \in Open \cup Told : q.request # r
    BY <1>2 DEF Open, Told
  <2>9. Store!Free(<<a, k>>)
    BY <1>3, <2>1, NoRecordIsFree
  <2>10. Store!Comes(r, <<a, k>>, b)
    BY <2>6, <2>7, <2>8, <2>9 DEF Store!Comes
  <2> QED  BY <1>3, <2>10 DEF Store!Next, Store!Slots
<1>5. CASE FindsRecord(r, a, k, b)
  <2>1. record[<<a, k>>] \in orders /\ Slot(record[<<a, k>>]) = <<a, k>>
    BY <1>3, <1>5 DEF FindsRecord, CreationInv, RecordsMatchOrders
  <2>2. ReplaysOrder(r, record[<<a, k>>], bodyOf'[r]) /\ pc' = [pc EXCEPT ![r] = "done"]
    BY <1>3, <1>5 DEF FindsRecord, Moves
  <2>3. \A q \in orders \cup Answered \cup InFlight : SameToOutside(q)
    BY <1>2
  <2>4. Slot(r)' \in Agents \X Keys /\ bodyOf'[r] \in Bodies
    BY <1>3
  <2> QED  BY <1>1, <1>3, <2>1, <2>2, <2>3, <2>4, ReplaySeen
<1> QED  BY <1>4, <1>5

(* The request of a handler that is lost leaves unanswered.                *)
LEMMA LossSeen ==
  ASSUME CreationInv, NEW r \in Requests, HandlerLost(r)
  PROVE  Store!Next
<1>1. /\ r \in InFlight /\ pc' = [pc EXCEPT ![r] = "lost"]
      /\ UNCHANGED <<orders, asked, told>>
  BY DEF HandlerLost, database
<1>2. \A q : SameToOutside(q)
  BY <1>1 DEF SameToOutside, Slot, asked
<1>3. InFlight' = InFlight \ {r}
  BY <1>1, DoneOnly DEF InFlight
<1>4. Kept' = Kept /\ Told' = Told
  <2>1. Answered' = Answered
    BY <1>1 DEF Answered, told
  <2> QED  BY <1>1, <1>2, <2>1 DEF SameToOutside, Kept, Told, told
<1>5. Open' = Open \ {Store!Asks(r, Slot(r), bodyOf[r])}
  <2>1. Open = {Request(q) : q \in InFlight} /\ Open' = {Request(q)' : q \in InFlight'}
    BY DEF Open, Request
  <2>2. \A q : Request(q)' = Request(q)
    BY <1>2 DEF Request, SameToOutside
  <2>3. Request(r) = Store!Asks(r, Slot(r), bodyOf[r])
        /\ \A q \in InFlight : Request(q) = Request(r) <=> q = r
    BY DEF Request, Store!Asks
  <2> QED  BY <1>3, <2>1, <2>2, <2>3
<1>6. Store!Leaves(r, Slot(r), bodyOf[r])
  BY <1>1, <1>4, <1>5, ServedIsOpen DEF Store!Leaves
<1>7. Slot(r) \in Agents \X Keys /\ bodyOf[r] \in Bodies
  BY <1>1, HasAsked DEF InFlight
<1> QED  BY <1>6, <1>7 DEF Store!Next, Store!Slots

LEMMA StepSeen == CreationInv /\ BookingsKeepKey /\ [Next]_vars => [Store!Next]_Seen
<1> SUFFICES ASSUME CreationInv, BookingsKeepKey, [Next]_vars PROVE [Store!Next]_Seen
  OBVIOUS
<1>1. ASSUME NEW r \in Requests, HandlerStep(r)
      PROVE  [Store!Next]_Seen
  <2>1. CASE OfferNotFound(r) \/ OfferTooOld(r) \/ RecordsFailure(r)
    <3>1. PICK a \in {"not_found", "expired", "provider_error"} : Replies(r, a, None)
      BY <2>1 DEF OfferNotFound, OfferTooOld, RecordsFailure
    <3>2. PICK from \in {"checked", "failing"} : Moves(r, from, "done")
      BY <2>1 DEF OfferNotFound, OfferTooOld, RecordsFailure
    <3>3. UNCHANGED <<orders, asked>>
      BY <2>1 DEF OfferNotFound, OfferTooOld, RecordsFailure, database
    <3> QED  BY <3>1, <3>2, <3>3, RefusalSeen DEF Answers, Places
  <2>2. CASE ReferenceTaken(r)
    <3>1. Moves(r, "booked", "done") /\ Replies(r, "server_error", None) /\ UNCHANGED <<orders, asked>>
      BY <2>2 DEF ReferenceTaken, database
    <3> QED  BY <2>2, <3>1, TakenByKey, RefusalSeen DEF Answers, Places
  <2>3. CASE CallsProvider(r) \/ CallTimesOut(r) \/ InsertsOrder(r) \/ KeyRecorded(r)
    <3>1. UNCHANGED <<orders, asked, told>>
      BY <2>3 DEF CallsProvider, CallTimesOut, InsertsOrder, KeyRecorded, database
    <3>2. PICK from, to \in Places \ {"new", "done", "lost"} : Moves(r, from, to)
      BY <2>3 DEF CallsProvider, CallTimesOut, InsertsOrder, KeyRecorded, Places
    <3> QED  BY <3>1, <3>2, InnerStep DEF Moves, InFlight
  <2>4. CASE ReplaysAfterRollback(r)
    <3>1. pc[r] = "replaying" /\ pc' = [pc EXCEPT ![r] = "done"] /\ UNCHANGED <<orders, asked>>
      BY <2>4 DEF ReplaysAfterRollback, Moves, database
    <3>2. \A q : SameToOutside(q)
      BY <3>1 DEF SameToOutside, Slot, asked
    <3>3. Slot(r)' = Slot(r) /\ Slot(r) \in Agents \X Keys
          /\ bodyOf'[r] = bodyOf[r] /\ bodyOf[r] \in Bodies
      BY <3>1, <3>2, HasAsked DEF SameToOutside
    <3>4. record[Slot(r)] \in orders /\ Slot(record[Slot(r)]) = Slot(r)
      BY <3>1, <3>3 DEF CreationInv, RecordsMatchOrders
    <3>5. ReplaysOrder(r, record[Slot(r)], bodyOf'[r])
      BY <2>4, <3>3 DEF ReplaysAfterRollback
    <3> QED  BY <3>1, <3>2, <3>3, <3>4, <3>5, ReplaySeen
  <2> QED  BY <1>1, <2>1, <2>2, <2>3, <2>4, CommitSeen DEF HandlerStep
<1>2. ASSUME NEW r \in Requests, ProviderBooks(r) \/ ProviderRejects(r)
      PROVE  UNCHANGED Seen
  <2>1. UNCHANGED <<orders, asked, told>>
    BY <1>2 DEF ProviderBooks, ProviderRejects, database
  <2>2. \/ UNCHANGED pc
        \/ pc[r] = "calling" /\ \E to \in {"booked", "failing"} : pc' = [pc EXCEPT ![r] = to]
    BY <1>2 DEF ProviderBooks, ProviderRejects
  <2> QED  BY <2>1, <2>2, InnerStep DEF InFlight, Places
<1>3. CASE UNCHANGED vars \/ \E f \in Offers : OfferExpires(f)
  <2>1. UNCHANGED <<orders, asked, told, pc>>
    BY <1>3 DEF vars, OfferExpires, database
  <2>2. InFlight' = InFlight /\ \A q : SameToOutside(q)
    BY <2>1 DEF InFlight, SameToOutside, Slot, asked
  <2> QED  BY <2>1, <2>2, UnseenStep DEF told
<1> QED  BY <1>1, <1>2, <1>3, ArrivalSeen, LossSeen DEF Next

(* Whatever overlaps, fails or is rolled back inside: a key stands for its *)
(* first order for good; whoever comes once it is there gets that order,   *)
(* or a conflict; and an internal error only answers requests that came    *)
(* before, under a key that has bought an order meanwhile.                 *)
THEOREM KeepsThePromise == Spec => KeysAreIdempotent
<1>1. Init => Store!Init
  BY DEF Init, Store!Init, Kept, Open, Told, Answered, InFlight
<1>2. CreationInv /\ BookingsKeepKey /\ [Next]_vars => [Store!Next]_(Store!vars)
  BY StepSeen DEF Seen, Store!vars
<1> QED  BY <1>1, <1>2, CarefulInvariant, PTL DEF Spec, KeysAreIdempotent, Store!Spec
=============================================================================
