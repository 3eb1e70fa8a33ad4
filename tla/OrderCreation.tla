--------------------------- MODULE OrderCreation ---------------------------
(***************************************************************************)
(* BookingService.create_order: an agent books an offer for a passenger    *)
(* under an Idempotency-Key.  The handler looks the key up, loads the      *)
(* offer, calls the airline provider with no transaction open, inserts the *)
(* order, and commits it together with the record of the key.  Handlers    *)
(* interleave between these steps; the row inserted by an open transaction *)
(* makes an insert of the same booking reference wait (PostgreSQL).        *)
(***************************************************************************)
EXTENDS Integers

CONSTANTS Agents, Keys, Offers,
          Bodies,           \* request bodies, as request_hash tells them apart
          Requests,         \* the POST /orders requests, each served once
          OfferOf,          \* payload.offer_id
          OfferAgent,       \* flight_searches.agent_id of the offer's search
          None,
          ProviderIsRemote, \* TRUE: giving up on a call does not undo it
          KeyedBookings     \* TRUE: the provider is sure to book once per key, like the mock

ASSUME ConstantsOK ==
  /\ OfferOf \in [Bodies -> Offers]
  /\ OfferAgent \in [Offers -> Agents]
  /\ None \notin Agents \cup Keys \cup Bodies \cup Requests
  /\ ProviderIsRemote \in BOOLEAN
  /\ KeyedBookings \in BOOLEAN

(* An order is named by the request that inserts it, and a booking by the  *)
(* request whose call made the provider create it.                         *)
VARIABLES
  expired,    \* offers whose expires_at has passed
  orders,     \* the committed rows of orders
  record,     \* idempotency_records: the order kept for an agent and a key
  audited,    \* requests whose provider call left a row in audit_logs
  pc, agentOf, keyOf, bodyOf,   \* where each request stands, what it asked for
  answer,     \* what the client was told
  given,      \* the order the client was given
  pending,    \* calls the provider has received and not yet processed
  bookings,   \* the provider's bookings
  got         \* the booking each call returned

database == <<orders, record, audited>>
asked == <<agentOf, keyOf, bodyOf>>
provider == <<pending, bookings, got>>
told == <<answer, given>>
vars == <<expired, database, asked, provider, told, pc>>

Places  == {"new", "checked", "calling", "booked", "failing", "inserted",
            "replaying", "done", "lost"}
Answers == {"none", "created", "not_found", "conflict", "expired",
            "provider_error", "server_error"}

TypeOK ==
  /\ expired \in SUBSET Offers
  /\ orders \in SUBSET Requests
  /\ record \in [Agents \X Keys -> Requests \cup {None}]
  /\ audited \in SUBSET Requests
  /\ pc \in [Requests -> Places]
  /\ agentOf \in [Requests -> Agents \cup {None}]
  /\ keyOf \in [Requests -> Keys \cup {None}]
  /\ bodyOf \in [Requests -> Bodies \cup {None}]
  /\ answer \in [Requests -> Answers]
  /\ given \in [Requests -> Requests \cup {None}]
  /\ pending \in SUBSET Requests
  /\ bookings \in SUBSET Requests
  /\ got \in [Requests -> Requests \cup {None}]
  /\ \A r \in orders : got[r] \in bookings    \* provider_booking_id is NOT NULL

Init ==
  /\ expired = {}
  /\ orders = {}
  /\ record = [slot \in Agents \X Keys |-> None]
  /\ audited = {}
  /\ pc = [r \in Requests |-> "new"]
  /\ agentOf = [r \in Requests |-> None]
  /\ keyOf = [r \in Requests |-> None]
  /\ bodyOf = [r \in Requests |-> None]
  /\ answer = [r \in Requests |-> "none"]
  /\ given = [r \in Requests |-> None]
  /\ pending = {}
  /\ bookings = {}
  /\ got = [r \in Requests |-> None]

Slot(r) == <<agentOf[r], keyOf[r]>>

InFlight == {r \in Requests : pc[r] \notin {"new", "done", "lost"}}
-----------------------------------------------------------------------------
Moves(r, from, to) == /\ pc[r] = from
                      /\ pc' = [pc EXCEPT ![r] = to]

(* The handler answers; o is the order it answers with, if any. *)
Replies(r, a, o) == /\ answer' = [answer EXCEPT ![r] = a]
                    /\ given' = [given EXCEPT ![r] = o]

(* Mutant: the hashes of the bodies are not compared. *)
AnyRequest(o, b) == TRUE

(* _idempotent_order: the recorded order if the bodies are the same, a     *)
(* conflict if they are not.                                               *)
SameRequest(o, b) == bodyOf[o] = b

ReplaysOrder(r, o, b) ==
  IF SameRequest(o, b) THEN Replies(r, "created", o) ELSE Replies(r, "conflict", None)

(* An offer is found through a search of the same agent. *)
OwnsOffer(r) == OfferAgent[OfferOf[bodyOf[r]]] = agentOf[r]

(* The first lookup of the key. *)
Arrives(r, a, k, b) ==
  /\ agentOf' = [agentOf EXCEPT ![r] = a]
  /\ keyOf' = [keyOf EXCEPT ![r] = k]
  /\ bodyOf' = [bodyOf EXCEPT ![r] = b]
  /\ UNCHANGED <<expired, database, provider>>

FindsRecord(r, a, k, b) ==
  /\ Moves(r, "new", "done")
  /\ record[<<a, k>>] # None
  /\ Arrives(r, a, k, b)
  /\ ReplaysOrder(r, record[<<a, k>>], b)

FindsNoRecord(r, a, k, b) ==
  /\ Moves(r, "new", "checked")
  /\ record[<<a, k>>] = None
  /\ Arrives(r, a, k, b)
  /\ UNCHANGED told

(* The offer is loaded in a session of its own. *)
OfferNotFound(r) ==
  /\ Moves(r, "checked", "done")
  /\ ~ OwnsOffer(r)
  /\ Replies(r, "not_found", None)
  /\ UNCHANGED <<expired, database, asked, provider>>

OfferTooOld(r) ==
  /\ Moves(r, "checked", "done")
  /\ OwnsOffer(r) /\ OfferOf[bodyOf[r]] \in expired
  /\ Replies(r, "expired", None)
  /\ UNCHANGED <<expired, database, asked, provider>>

CallsProvider(r) ==
  /\ Moves(r, "checked", "calling")
  /\ OwnsOffer(r) /\ OfferOf[bodyOf[r]] \notin expired
  /\ pending' = pending \cup {r}
  /\ UNCHANGED <<expired, database, asked, told, bookings, got>>

OfferExpires(f) ==
  /\ f \notin expired
  /\ expired' = expired \cup {f}
  /\ UNCHANGED <<database, asked, provider, told, pc>>
-----------------------------------------------------------------------------
(* The provider, called with no transaction open. *)

Abandons(r) == pending' = IF ProviderIsRemote THEN pending ELSE pending \ {r}

(* The bookings a key has bought already, whoever sent it and whatever the *)
(* passenger is.                                                           *)
KnownBookings(r) == {b \in bookings : keyOf[b] = keyOf[r]}

(* The port does not promise what the mock does, to return the booking of  *)
(* a key to every repeat: other providers may book again.                  *)
ProviderBooks(r) ==
  /\ r \in pending
  /\ pending' = pending \ {r}
  /\ \/ /\ KeyedBookings => KnownBookings(r) = {}
        /\ bookings' = bookings \cup {r}
        /\ got' = [got EXCEPT ![r] = r]
     \/ \E b \in KnownBookings(r) :
          /\ got' = [got EXCEPT ![r] = b]
          /\ UNCHANGED bookings
  /\ pc' = IF pc[r] = "calling" THEN [pc EXCEPT ![r] = "booked"] ELSE pc
  /\ UNCHANGED <<expired, database, asked, told>>

ProviderRejects(r) ==
  /\ r \in pending
  /\ pending' = pending \ {r}
  /\ pc' = IF pc[r] = "calling" THEN [pc EXCEPT ![r] = "failing"] ELSE pc
  /\ UNCHANGED <<expired, database, asked, told, bookings, got>>

(* Mutant: a timeout is taken for a booking. *)
TimeoutBooks(r) ==
  /\ Moves(r, "calling", "booked")
  /\ Abandons(r)
  /\ UNCHANGED <<expired, database, asked, told, bookings, got>>

CallTimesOut(r) ==
  /\ Moves(r, "calling", "failing")
  /\ Abandons(r)
  /\ UNCHANGED <<expired, database, asked, told, bookings, got>>

(* The failed call is audited in a transaction of its own. *)
RecordsFailure(r) ==
  /\ Moves(r, "failing", "done")
  /\ audited' = audited \cup {r}
  /\ Replies(r, "provider_error", None)
  /\ UNCHANGED <<expired, orders, record, asked, provider>>
-----------------------------------------------------------------------------
(* The transaction that stores the order. *)

(* Mutant: the transaction of an answered request stays open. *)
NeverClosed == {q \in Requests : pc[q] \in {"inserted", "done"}}

(* Orders inserted by transactions that are still open. *)
Uncommitted == {q \in Requests : pc[q] = "inserted"}

(* Mutant: orders.booking_reference is not UNIQUE. *)
ReferenceNowhere(r, rows) == FALSE

(* orders.booking_reference is UNIQUE. *)
ReferenceIn(r, rows) == \E q \in rows : got[q] = got[r]

(* session.flush(): waits for an open insert of the same reference. *)
InsertsOrder(r) ==
  /\ Moves(r, "booked", "inserted")
  /\ ~ ReferenceIn(r, orders \cup Uncommitted)
  /\ UNCHANGED <<expired, database, asked, provider, told>>

(* The flush is outside the try block: its IntegrityError ends the request. *)
ReferenceTaken(r) ==
  /\ Moves(r, "booked", "done")
  /\ ReferenceIn(r, orders) /\ ~ ReferenceIn(r, Uncommitted)
  /\ Replies(r, "server_error", None)
  /\ UNCHANGED <<expired, database, asked, provider>>

(* Mutant: the key is not UNIQUE per agent. *)
SlotShared(r) == TRUE

(* UNIQUE (agent_id, scope, key) on idempotency_records. *)
SlotFree(r) == record[Slot(r)] = None

CommitsOrder(r) ==
  /\ Moves(r, "inserted", "done")
  /\ SlotFree(r)
  /\ orders' = orders \cup {r}
  /\ record' = [record EXCEPT ![Slot(r)] = r]
  /\ audited' = audited \cup {r}
  /\ Replies(r, "created", r)
  /\ UNCHANGED <<expired, asked, provider>>

(* IntegrityError at commit: everything is rolled back, the audit rows of  *)
(* the provider call included, and the key is looked up again.             *)
KeyRecorded(r) ==
  /\ Moves(r, "inserted", "replaying")
  /\ ~ SlotFree(r)
  /\ UNCHANGED <<expired, database, asked, provider, told>>

(* Mutant: the request answers with the order that was rolled back. *)
ReturnsRolledBack(r) ==
  /\ Moves(r, "replaying", "done")
  /\ Replies(r, "created", r)
  /\ UNCHANGED <<expired, database, asked, provider>>

ReplaysAfterRollback(r) ==
  /\ Moves(r, "replaying", "done")
  /\ ReplaysOrder(r, record[Slot(r)], bodyOf[r])
  /\ UNCHANGED <<expired, database, asked, provider>>

(* The process stops or the task is cancelled; an open transaction is      *)
(* rolled back.                                                            *)
HandlerLost(r) ==
  /\ r \in InFlight
  /\ pc' = [pc EXCEPT ![r] = "lost"]
  /\ IF pc[r] = "calling" THEN Abandons(r) ELSE UNCHANGED pending
  /\ UNCHANGED <<expired, database, asked, told, bookings, got>>
-----------------------------------------------------------------------------
HandlerStep(r) ==
  \/ OfferNotFound(r) \/ OfferTooOld(r) \/ CallsProvider(r)
  \/ CallTimesOut(r) \/ RecordsFailure(r)
  \/ InsertsOrder(r) \/ ReferenceTaken(r)
  \/ CommitsOrder(r) \/ KeyRecorded(r) \/ ReplaysAfterRollback(r)

Next ==
  \/ \E r \in Requests :
       \/ \E a \in Agents, k \in Keys, b \in Bodies :
            FindsRecord(r, a, k, b) \/ FindsNoRecord(r, a, k, b)
       \/ HandlerStep(r)
       \/ ProviderBooks(r)
       \/ ProviderRejects(r)
       \/ HandlerLost(r)
  \/ \E f \in Offers : OfferExpires(f)

Spec == Init /\ [][Next]_vars

(* wait_for bounds the call; the event loop runs every ready handler. *)
FairSpec == Spec /\ \A r \in Requests : WF_vars(HandlerStep(r))
-----------------------------------------------------------------------------
(* An agent's key stands for one order, however many requests carry it at  *)
(* the same time and whatever the provider does with the key.              *)
OneOrderPerKey == \A q, r \in orders : Slot(q) = Slot(r) => q = r

(* A booking is sold once: a key sent by two agents, or by two requests at *)
(* a time, makes an idempotent provider return one booking to both.        *)
OneOrderPerBooking == \A q, r \in orders : got[q] = got[r] => q = r

(* "A repeat with the same body returns the original order" (README.md:127):  *)
(* whoever is told that the order was created is given a stored order of   *)
(* the same agent, key and body, directly or after a rolled-back commit.   *)
CreatedIsTheOriginal ==
  \A r \in Requests : answer[r] = "created" =>
    /\ given[r] \in orders
    /\ Slot(given[r]) = Slot(r) /\ bodyOf[given[r]] = bodyOf[r]
    /\ record[Slot(r)] = given[r]

(* ... and never an error: README.md:127 again, for the requests that overlap. *)
RepeatGetsTheOrder ==
  \A r \in Requests : answer[r] = "server_error" => record[Slot(r)] = None

(* "A repeat with another body gets 409": a key that has been used for one *)
(* passenger does not end in an order of the same agent for another one.   *)
BookedAsOrdered ==
  \A r \in orders : agentOf[got[r]] = agentOf[r] => bodyOf[got[r]] = bodyOf[r]

(* What the outside sees: the orders with their keys and bodies, the       *)
(* requests that are served, and the answers.                              *)
Verdict(a) == IF a \in {"created", "conflict"} THEN a
              ELSE IF a = "server_error" THEN "error" ELSE "refused"

Kept == {[slot |-> Slot(r), order |-> r, body |-> bodyOf[r]] : r \in orders}

Open == {[request |-> r, slot |-> Slot(r), body |-> bodyOf[r]] : r \in InFlight}

Answered == {r \in Requests : answer[r] # "none"}

Told == {[request |-> r, slot |-> Slot(r), body |-> bodyOf[r],
          answer |-> Verdict(answer[r]), order |-> given[r]] : r \in Answered}

Store == INSTANCE IdempotentOrders WITH kept <- Kept, open <- Open, told <- Told

(* To the agents, the races, roll-backs and repeats of create_order look   *)
(* like this: a key stands for its first order for good; whoever comes     *)
(* once it is there is given it, or a conflict when asking for something   *)
(* else; of those that came before, one gets an internal error only if its *)
(* key has bought an order meanwhile (README.md:127 promises the order;    *)
(* RepeatGetsTheOrder is about that).  Other errors may end a request that *)
(* came before, whatever the key has become since.                         *)
KeysAreIdempotent == Store!Spec

(* Every request is answered unless its handler is lost, also when several *)
(* wait for one another's inserts.                                         *)
RequestsEnd == \A r \in Requests : r \in InFlight ~> pc[r] \in {"done", "lost"}
=============================================================================
