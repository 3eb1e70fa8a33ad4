--------------------------- MODULE FlightSearches ---------------------------
(***************************************************************************)
(* SearchService: an agent starts a search, which is stored, remembered in *)
(* the Redis cache and dispatched through RabbitMQ (or as a task of the    *)
(* API process); a worker takes the message, calls the airline provider    *)
(* with no transaction open, and stores the offers or the failure.         *)
(*                                                                         *)
(* The broker delivers at least once: a message is acknowledged when its   *)
(* handler returns (message.process(requeue=True)), and is delivered again *)
(* when the handler raises, the worker dies or its connection is lost, in  *)
(* the last case while the first handler still runs.                       *)
(***************************************************************************)
EXTENDS Integers, Sequences

CONSTANTS Searches,      \* identifiers of flight_searches rows
          Queries,       \* what an agent asks for: the cache keys
          Routes,        \* origin, destination and date: all that names an offer
          RouteOf,       \* the route of a query
          None,
          MaxDeliveries, \* bound: how often a message is delivered
          UseBroker,     \* search_dispatch_mode is "rabbitmq"
          CacheUp        \* Redis answers

ASSUME ConstantsOK ==
  /\ RouteOf \in [Queries -> Routes]
  /\ None \notin Searches \cup Queries
  /\ MaxDeliveries \in Nat \ {0}
  /\ UseBroker \in BOOLEAN
  /\ CacheUp \in BOOLEAN

Deliveries == Searches \X (1..MaxDeliveries)

VARIABLES
  query,      \* what each stored search is for
  status,     \* flight_searches.status, "NONE" before the row exists
  error,      \* flight_searches.error_message: the exception it reports
  offersOf,   \* the search the offers of a route are stored with
  trail,      \* status-change rows of audit_logs, per search
  audited,    \* provider-call rows of audit_logs: delivery and answer
  expired,    \* searches whose expires_at has passed
  cache,      \* the search remembered for each query
  starting,   \* where the handler of POST /avia/offers stands
  message,    \* where the message of each search is
  delivered,  \* how often it has been delivered
  pc          \* where the handler of each delivery stands

database == <<query, status, error, offersOf, trail, audited>>
queue == <<message, delivered>>
vars == <<database, expired, cache, starting, queue, pc>>

Statuses == {"PENDING", "IN_PROGRESS", "COMPLETED", "FAILED", "TIMED_OUT"}
Final    == {"COMPLETED", "FAILED", "TIMED_OUT"}
(* What the except clause of process catches. *)
Caught   == {"timeout", "error", "offers_taken", "unheard"}
Errors   == Caught \cup {"none"}
Active == Caught \cup {"taken", "calling", "saving", "saving none"}
HandlerStates == Active \cup {"idle", "returned", "skipped", "lost"}
Answers  == {"offers", "no offers", "error"}
CallRows == Deliveries \X Answers
Transitions == [before : Statuses \cup {"NONE"}, after : Statuses]

TypeOK ==
  /\ query \in [Searches -> Queries \cup {None}]
  /\ status \in [Searches -> Statuses \cup {"NONE"}]
  /\ error \in [Searches -> Errors]
  /\ offersOf \in [Routes -> Searches \cup {None}]
  /\ trail \in [Searches -> Seq(Transitions)]
  /\ audited \in SUBSET CallRows
  /\ expired \in SUBSET Searches
  /\ cache \in [Queries -> Searches \cup {None}]
  /\ starting \in [Searches -> {"no", "stored", "cached", "answered", "lost"}]
  /\ message \in [Searches -> {"none", "ready", "unacked", "acked"}]
  /\ delivered \in [Searches -> 0..MaxDeliveries]
  /\ pc \in [Deliveries -> HandlerStates]

Init ==
  /\ query = [s \in Searches |-> None]
  /\ status = [s \in Searches |-> "NONE"]
  /\ error = [s \in Searches |-> "none"]
  /\ offersOf = [rt \in Routes |-> None]
  /\ trail = [s \in Searches |-> << >>]
  /\ audited = {}
  /\ expired = {}
  /\ cache = [q \in Queries |-> None]
  /\ starting = [s \in Searches |-> "no"]
  /\ message = [s \in Searches |-> "none"]
  /\ delivered = [s \in Searches |-> 0]
  /\ pc = [d \in Deliveries |-> "idle"]

(* Mutant: the audit takes the status the search was created with. *)
PendingBefore(s) == "PENDING"

(* before = search.status; search.status = new; add_status_audit(...) *)
BeforeStatus(s) == status[s]

SetStatus(s, new) ==
  /\ status' = [status EXCEPT ![s] = new]
  /\ trail' = [trail EXCEPT ![s] = Append(@, [before |-> BeforeStatus(s), after |-> new])]
-----------------------------------------------------------------------------
(* start: POST /avia/offers.*)

(* Mutant: the cached search is returned for as long as Redis has it. *)
CachedAtAll(q) == CacheUp /\ cache[q] # None

(* The cached search is returned as long as it has not expired, whatever   *)
(* has become of it.                                                       *)
CacheHit(q) == CacheUp /\ cache[q] # None /\ cache[q] \notin expired

StoresSearch(s, q) ==
  /\ status[s] = "NONE"
  /\ ~ CacheHit(q)
  /\ query' = [query EXCEPT ![s] = q]
  /\ SetStatus(s, "PENDING")
  /\ starting' = [starting EXCEPT ![s] = "stored"]
  /\ UNCHANGED <<error, offersOf, audited, expired, cache, queue, pc>>

CachesSearch(s) ==
  /\ starting[s] = "stored"
  /\ starting' = [starting EXCEPT ![s] = "cached"]
  /\ cache' = IF CacheUp THEN [cache EXCEPT ![query[s]] = s] ELSE cache
  /\ UNCHANGED <<database, expired, queue, pc>>

(* Redis restarts, or drops what is older than ttl_seconds. *)
CacheForgets(q) ==
  /\ cache[q] # None
  /\ cache' = [cache EXCEPT ![q] = None]
  /\ UNCHANGED <<database, expired, starting, queue, pc>>

(* The message is durable and persistent; a task of the API process is     *)
(* its own only delivery.                                                  *)
Dispatches(s) ==
  /\ starting[s] = "cached"
  /\ starting' = [starting EXCEPT ![s] = "answered"]
  /\ IF UseBroker
       THEN /\ message' = [message EXCEPT ![s] = "ready"]
            /\ UNCHANGED <<delivered, pc>>
       ELSE /\ delivered' = [delivered EXCEPT ![s] = 1]
            /\ pc' = [pc EXCEPT ![<<s, 1>>] = "taken"]
            /\ UNCHANGED message
  /\ UNCHANGED <<database, expired, cache>>

(* The API process stops, or RabbitMQ refuses the message: the stored, and *)
(* perhaps cached, search is never dispatched.                             *)
StartLost(s) ==
  /\ starting[s] \in {"stored", "cached"}
  /\ starting' = [starting EXCEPT ![s] = "lost"]
  /\ UNCHANGED <<database, expired, cache, queue, pc>>

(* search_ttl_seconds have passed. *)
Expires(s) ==
  /\ status[s] # "NONE" /\ s \notin expired
  /\ expired' = expired \cup {s}
  /\ UNCHANGED <<database, cache, starting, queue, pc>>
-----------------------------------------------------------------------------
(* The broker and the worker's consume callback. *)

Delivers(s) ==
  /\ message[s] = "ready" /\ delivered[s] < MaxDeliveries
  /\ message' = [message EXCEPT ![s] = "unacked"]
  /\ delivered' = [delivered EXCEPT ![s] = @ + 1]
  /\ pc' = [pc EXCEPT ![<<s, delivered[s] + 1>>] = "taken"]
  /\ UNCHANGED <<database, expired, cache, starting>>

(* Only the latest delivery of a message can acknowledge it. *)
Latest(d) == message[d[1]] = "unacked" /\ delivered[d[1]] = d[2]

(* The broker takes an unacknowledged message back to deliver it again.    *)
(* MaxDeliveries bounds that: the last delivery is neither lost nor cut,   *)
(* and hears of its commit.                                                *)
Requeues(d) == IF Latest(d) THEN [message EXCEPT ![d[1]] = "ready"] ELSE message

Acknowledges(d) == IF Latest(d) THEN [message EXCEPT ![d[1]] = "acked"] ELSE message

(* The connection is lost; the handler runs on. *)
ConnectionLost(d) ==
  /\ Latest(d) /\ d[2] < MaxDeliveries
  /\ message' = Requeues(d)
  /\ UNCHANGED <<database, expired, cache, starting, delivered, pc>>

Running(d) == pc[d] \in Active

(* The process stops, or the handler raises because the database is away. *)
HandlerLost(d) ==
  /\ Running(d) /\ (UseBroker => d[2] < MaxDeliveries)
  /\ pc' = [pc EXCEPT ![d] = "lost"]
  /\ message' = Requeues(d)
  /\ UNCHANGED <<database, expired, cache, starting, delivered>>
-----------------------------------------------------------------------------
(* process: the handler of a delivery. *)

(* Mutant: a search that is being processed is taken for a finished one. *)
TakenOnce(s) == status[s] # "PENDING"

(* A search that has its final status is not processed again. *)
Finished(s) == status[s] \in Final

Skips(d) ==
  /\ pc[d] = "taken" /\ Finished(d[1])
  /\ pc' = [pc EXCEPT ![d] = "skipped"]
  /\ message' = Acknowledges(d)
  /\ UNCHANGED <<database, expired, cache, starting, delivered>>

CallsProvider(d) ==
  /\ pc[d] = "taken" /\ ~ Finished(d[1])
  /\ SetStatus(d[1], "IN_PROGRESS")
  /\ pc' = [pc EXCEPT ![d] = "calling"]
  /\ UNCHANGED <<query, error, offersOf, audited, expired, cache, starting, queue>>

(* The list of offers may be empty (AirlineProvider.search). *)
ProviderFinds(d) ==
  /\ pc[d] = "calling"
  /\ \E found \in {"saving", "saving none"} : pc' = [pc EXCEPT ![d] = found]
  /\ UNCHANGED <<database, expired, cache, starting, queue>>

ProviderFails(d) ==
  /\ pc[d] = "calling"
  /\ pc' = [pc EXCEPT ![d] = "error"]
  /\ UNCHANGED <<database, expired, cache, starting, queue>>

(* asyncio.wait_for gives up; the search has no effect at the provider. *)
CallTimesOut(d) ==
  /\ pc[d] = "calling"
  /\ pc' = [pc EXCEPT ![d] = "timeout"]
  /\ UNCHANGED <<database, expired, cache, starting, queue>>

Saving(d) == pc[d] \in {"saving", "saving none"}

(* Mutant: offers are not UNIQUE, a search takes over those of another. *)
OffersTakenOver(d) == TRUE

(* UNIQUE (provider, provider_offer_id): the offers of a route are named   *)
(* by the route alone, so they can be stored once.                         *)
OffersFree(d) == pc[d] = "saving" => offersOf[RouteOf[query[d[1]]]] = None

(* The offers, the status and the audit rows are one transaction, which    *)
(* does not look at the status the search has by now.                      *)
StoresOffers(d) ==
  /\ Saving(d) /\ OffersFree(d)
  /\ IF pc[d] = "saving"
       THEN /\ offersOf' = [offersOf EXCEPT ![RouteOf[query[d[1]]]] = d[1]]
            /\ audited' = audited \cup {<<d, "offers">>}
       ELSE /\ audited' = audited \cup {<<d, "no offers">>}
            /\ UNCHANGED offersOf
  /\ SetStatus(d[1], "COMPLETED")
  /\ UNCHANGED <<query, error, expired, cache, starting, delivered>>

SavesOffers(d) ==
  /\ StoresOffers(d)
  /\ pc' = [pc EXCEPT ![d] = "returned"]
  /\ message' = Acknowledges(d)

(* except Exception: whatever goes wrong from the call of the provider to  *)
(* the commit of its offers becomes the failure of the search, be it that  *)
(* the pool or the database fails before the commit, ...                   *)
SaveFails(d) ==
  /\ Saving(d)
  /\ \E exc \in {"timeout", "error"} : pc' = [pc EXCEPT ![d] = exc]
  /\ UNCHANGED <<database, expired, cache, starting, queue>>

(* ... or that the connection is lost after the commit, unheard. *)
CommitUnheard(d) ==
  /\ StoresOffers(d) /\ (UseBroker => d[2] < MaxDeliveries)
  /\ pc' = [pc EXCEPT ![d] = "unheard"]
  /\ UNCHANGED message

(* Mutant: the offers are stored after the try block. *)
OffersDropped(d) ==
  /\ Saving(d) /\ ~ OffersFree(d)
  /\ pc' = [pc EXCEPT ![d] = "returned"]
  /\ message' = Acknowledges(d)
  /\ UNCHANGED <<database, expired, cache, starting, delivered>>

(* The IntegrityError lands in the same except clause. *)
OffersTaken(d) ==
  /\ Saving(d) /\ ~ OffersFree(d)
  /\ pc' = [pc EXCEPT ![d] = "offers_taken"]
  /\ UNCHANGED <<database, expired, cache, starting, queue>>

(* Mutant: the status is given the error code. *)
CodeAsStatus(d) == IF pc[d] = "timeout" THEN "provider_timeout" ELSE "provider_error"

(* The failure is stored, whatever status the search has by now.           *)
FailureOf(d) == IF pc[d] = "timeout" THEN "TIMED_OUT" ELSE "FAILED"

SavesFailure(d) ==
  /\ pc[d] \in Caught
  /\ SetStatus(d[1], FailureOf(d))
  /\ error' = [error EXCEPT ![d[1]] = pc[d]]
  /\ audited' = audited \cup {<<d, "error">>}
  /\ pc' = [pc EXCEPT ![d] = "returned"]
  /\ message' = Acknowledges(d)
  /\ UNCHANGED <<query, offersOf, expired, cache, starting, delivered>>
-----------------------------------------------------------------------------
HandlerStep(d) ==
  \/ Skips(d) \/ CallsProvider(d) \/ CallTimesOut(d)
  \/ SavesOffers(d) \/ OffersTaken(d) \/ SavesFailure(d)

(* What the provider answers, and what fails. *)
Environment(d) ==
  \/ ProviderFinds(d) \/ ProviderFails(d) \/ SaveFails(d) \/ CommitUnheard(d)
  \/ ConnectionLost(d) \/ HandlerLost(d)

Next ==
  \/ \E s \in Searches :
       \/ \E q \in Queries : StoresSearch(s, q)
       \/ CachesSearch(s) \/ Dispatches(s) \/ StartLost(s) \/ Expires(s)
       \/ Delivers(s)
  \/ \E q \in Queries : CacheForgets(q)
  \/ \E d \in Deliveries : HandlerStep(d) \/ Environment(d)

Spec == Init /\ [][Next]_vars

(* The broker delivers what is ready, the event loop runs its handlers     *)
(* (wait_for bounds their calls), and time passes.  No one is favoured:    *)
(* each has finitely many steps, so it is enough that some one goes on.    *)
FairSpec ==
  /\ Spec
  /\ WF_vars(\/ \E s \in Searches : Delivers(s) \/ Expires(s)
             \/ \E d \in Deliveries : HandlerStep(d))
-----------------------------------------------------------------------------
(* Status and offers are stored as one, also when deliveries of a search,  *)
(* or searches of a route, race: a COMPLETED search has the offers of its  *)
(* route, or a delivery of it found none; and the offers that are stored   *)
(* are those of a search of that route which a delivery completed          *)
(* (search.py:112-169; its status may have been overwritten since).        *)
Completed(s) == \E i \in DOMAIN trail[s] : trail[s][i].after = "COMPLETED"

CompletedHasOffers ==
  /\ \A s \in Searches : status[s] = "COMPLETED" =>
       \/ offersOf[RouteOf[query[s]]] = s
       \/ \E d \in Deliveries : d[1] = s /\ <<d, "no offers">> \in audited
  /\ \A rt \in Routes : offersOf[rt] # None =>
       RouteOf[query[offersOf[rt]]] = rt /\ Completed(offersOf[rt])

(* A dispatched search that has no final status yet is never forgotten:    *)
(* its message is still with the broker or with a handler that runs.       *)
UnfinishedIsQueued ==
  UseBroker => \A s \in Searches :
    starting[s] = "answered" /\ status[s] \notin Final =>
      \/ message[s] = "ready"
      \/ message[s] = "unacked" /\ Running(<<s, delivered[s]>>)

(* "Audit of the provider calls" (README.md:14): a handler that called the *)
(* provider and returned left a row, also when its offers were rolled back. *)
CallsAudited == \A d \in Deliveries : 
  pc[d] = "returned" => \E answer \in Answers : <<d, answer>> \in audited

(* "... and of all status transitions": each starts where the last ended,  *)
(* although several handlers write the status of a search.                 *)
TrailIsLinked ==
  \A s \in Searches : trail[s] # << >> =>
    /\ trail[s][Len(trail[s])].after = status[s]
    /\ trail[s][1].before = "NONE"
    /\ \A i \in 2..Len(trail[s]) : trail[s][i].before = trail[s][i-1].after

(* Every dispatched search gets a final status in the end, however often   *)
(* its handlers and connections are lost (but not without end).            *)
DispatchedFinishes ==
  <>[](\A s \in Searches : message[s] # "none" => status[s] \in Final)

(* A search that failed, or was stored and cached but never dispatched,    *)
(* does not answer its query for ever: the agent can search afresh.        *)
SearchedAfresh ==
  \A q \in Queries : CacheHit(q) /\ status[cache[q]] # "COMPLETED"
                       ~> ~ CacheHit(q) \/ status[cache[q]] = "COMPLETED"

(* A final status is final: process returns early for final_statuses       *)
(* (search.py:86), and polling clients stop at one.  Left out is the       *)
(* search whose stored offers are taken for a failure (CommitUnheard).     *)
FinalIsFinal ==
  [][\A s \in Searches : status[s] \in Final =>
       status'[s] = status[s] \/ error'[s] = "unheard"]_vars

(* A search FAILS because the provider or the database did, not because    *)
(* the cache was away or had forgotten an earlier search of the route      *)
(* (README.md:66).                                                         *)
FailedByFault ==
  \A s \in Searches : status[s] = "FAILED" => error[s] # "offers_taken"
=============================================================================
