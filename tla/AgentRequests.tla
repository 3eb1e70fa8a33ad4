--------------------------- MODULE AgentRequests ---------------------------
(***************************************************************************)
(* What happens around the services: API processes start, in containers or *)
(* by hand, and create the default agent; the agent logs in and sends      *)
(* requests with the token; each request is authenticated and served with  *)
(* connections of the pool of its process.                                 *)
(*                                                                         *)
(* get_current_agent reads the agent in the session of the request, which  *)
(* keeps its connection until the request is answered, and the services    *)
(* open sessions of their own, one after the other: a request that waits   *)
(* for its second connection holds its first one.                          *)
(***************************************************************************)
EXTENDS Integers, FiniteSets

CONSTANTS Processes,     \* the API processes
          Requests,      \* the requests of one agent, each served once
          None,
          PoolSize,      \* connections of a process (pool_size + max_overflow)
          MaxSessions,   \* bound: sessions a service opens for a request
          TTL,           \* jwt_ttl_minutes, in half seconds
          MaxClock,      \* bound: when the clock stops
          MaxStops       \* bound: how often processes stop

ASSUME ConstantsOK ==
  /\ IsFiniteSet(Requests)
  /\ None \notin Processes
  /\ PoolSize \in Nat \ {0}
  /\ {MaxSessions, TTL, MaxClock, MaxStops} \subseteq Nat

VARIABLES
  container, \* the processes run in containers, which migrate first and are restarted
  autoCreate,\* settings.auto_create_schema
  tables,    \* the schema has been created
  agents,    \* rows of agents with the default e-mail address
  active,    \* agents.is_active
  proc,      \* where each process stands
  stops,     \* how often processes have stopped
  clock,     \* the time, in half seconds
  token,     \* expires_at as announced with the agent's token, 0 without one
  pc, at,    \* where each request stands, and the process that serves it
  left,      \* sessions its service will still open
  free       \* free connections of each pool

settings == <<container, autoCreate>>
database == <<tables, agents, active>>
time == <<clock, token>>
requests == <<pc, at, left, free>>
vars == <<settings, database, proc, stops, time, requests>>

Waiting == {"login", "checked", "waiting"}   \* places where a request wants a connection
Served  == Waiting \cup {"inside", "session"}

TypeOK ==
  /\ container \in BOOLEAN /\ autoCreate \in BOOLEAN
  /\ tables \in BOOLEAN /\ agents \in Nat /\ active \in BOOLEAN
  /\ proc \in [Processes ->
                {"down", "migrated", "creating", "looking", "seeding", "serving"}]
  /\ stops \in 0..MaxStops
  /\ clock \in 0..MaxClock /\ token \in Nat
  /\ pc \in [Requests -> Served \cup {"new", "answered", "failed", "lost"}]
  /\ at \in [Requests -> Processes \cup {None}]
  /\ left \in [Requests -> 0..MaxSessions]
  /\ free \in [Processes -> 0..PoolSize]

Init ==
  /\ container \in BOOLEAN
  /\ autoCreate \in {setting \in BOOLEAN : container => ~ setting}   \* .env.docker
  /\ tables = FALSE /\ agents = 0 /\ active = TRUE
  /\ proc = [p \in Processes |-> "down"]
  /\ stops = 0
  /\ clock = 0 /\ token = 0
  /\ pc = [r \in Requests |-> "new"]
  /\ at = [r \in Requests |-> None]
  /\ left = [r \in Requests |-> 0]
  /\ free = [p \in Processes |-> PoolSize]
-----------------------------------------------------------------------------
(* A process starts.  The command of a container is alembic and then       *)
(* uvicorn; a container whose command fails is started again.              *)

Becomes(p, state) ==
  /\ proc' = [proc EXCEPT ![p] = state]
  /\ UNCHANGED <<settings, active, stops, time, requests>>

(* alembic upgrade head: one transaction.  Of two that run together, one   *)
(* fails, and its container starts over.                                   *)
Migrates(p) ==
  /\ container
  /\ proc[p] = "down"
  /\ Becomes(p, "migrated")
  /\ tables' = TRUE
  /\ UNCHANGED agents

(* lifespan: with auto_create_schema, create_all looks for the tables ...  *)
Boots(p) ==
  /\ proc[p] = IF container THEN "migrated" ELSE "down"
  /\ Becomes(p, IF autoCreate /\ ~ tables THEN "creating" ELSE "looking")
  /\ UNCHANGED <<tables, agents>>

(* ... and creates them, unless another process has done so by now. *)
CreatesSchema(p) ==
  /\ proc[p] = "creating"
  /\ Becomes(p, IF tables THEN "down" ELSE "looking")
  /\ tables' = TRUE
  /\ UNCHANGED agents

(* seed_default_agent finds no table to look in: nobody has created the schema. *)
SchemaMissing(p) ==
  /\ proc[p] = "looking" /\ ~ tables
  /\ Becomes(p, "down")
  /\ UNCHANGED <<tables, agents>>

(* Mutant: the seed inserts the agent without looking for it. *)
SeedsAlways(p) ==
  /\ proc[p] = "looking" /\ tables
  /\ Becomes(p, "seeding")
  /\ UNCHANGED <<tables, agents>>

(* seed_default_agent looks for the agent ... *)
LooksForAgent(p) ==
  /\ proc[p] = "looking" /\ tables
  /\ Becomes(p, IF agents = 0 THEN "seeding" ELSE "serving")
  /\ UNCHANGED <<tables, agents>>

(* agents.email is UNIQUE. *)
EmailFree == agents = 0

(* Mutant: the new agent is not committed. *)
ForgetsCommit(p) ==
  /\ proc[p] = "seeding" /\ EmailFree
  /\ Becomes(p, "serving")
  /\ UNCHANGED <<tables, agents>>

(* ... and inserts it, *)
SeedsAgent(p) ==
  /\ proc[p] = "seeding" /\ EmailFree
  /\ Becomes(p, "serving")
  /\ agents' = agents + 1
  /\ UNCHANGED tables

(* or fails, when another process has inserted it meanwhile. *)
AgentExists(p) ==
  /\ proc[p] = "seeding" /\ ~ EmailFree
  /\ Becomes(p, "down")
  /\ UNCHANGED <<tables, agents>>

(* A process stops with everything it was doing. *)
Stops(p) ==
  /\ proc[p] # "down" /\ stops < MaxStops
  /\ stops' = stops + 1
  /\ proc' = [proc EXCEPT ![p] = "down"]
  /\ pc' = [r \in Requests |-> IF at[r] = p /\ pc[r] \in Served THEN "lost" ELSE pc[r]]
  /\ free' = [free EXCEPT ![p] = PoolSize]
  /\ UNCHANGED <<settings, database, time, at, left>>

(* An operator activates or deactivates the agent in the database. *)
Switches ==
  /\ agents > 0
  /\ active' = ~ active
  /\ UNCHANGED <<settings, tables, agents, proc, stops, time, requests>>

Ticks ==
  /\ clock < MaxClock
  /\ clock' = clock + 1
  /\ UNCHANGED <<settings, database, proc, stops, token, requests>>
-----------------------------------------------------------------------------
(* Requests. *)

Moves(r, from, to) == pc[r] = from /\ pc' = [pc EXCEPT ![r] = to]

Around == UNCHANGED <<settings, database, proc, stops, clock>>

Arrives(r, p) ==
  /\ proc[p] = "serving"
  /\ at' = [at EXCEPT ![r] = p]
  /\ Around /\ UNCHANGED <<token, free>>

LoginArrives(r, p) ==
  /\ Arrives(r, p)
  /\ Moves(r, "new", "login")
  /\ UNCHANGED left

(* expires_at = now + jwt_ttl_minutes *)
ExpiresAt == clock + TTL

(* Mutant: a token is still good in the second it expires in. *)
ValidThatSecond(t) == t \div 2 >= clock \div 2

(* exp and now are whole seconds, both rounded down. *)
Valid(t) == t \div 2 > clock \div 2

(* decode_access_token needs no connection. *)
TokenRefused(r, p) ==
  /\ Arrives(r, p)
  /\ ~ Valid(token)
  /\ Moves(r, "new", "answered")
  /\ UNCHANGED left

TokenAccepted(r, p, n) ==
  /\ Arrives(r, p)
  /\ Valid(token)
  /\ Moves(r, "new", "checked")
  /\ left' = [left EXCEPT ![r] = n]

(* A query that is answered at once: its connection is back with the step. *)
Reads(r) == free[at[r]] > 0 /\ Around /\ UNCHANGED <<at, left, free>>

LogsIn(r) ==
  /\ Moves(r, "login", "answered")
  /\ Reads(r) /\ active
  /\ token' = ExpiresAt

(* A wrong password, or an inactive agent. *)
LoginRefused(r) ==
  /\ Moves(r, "login", "answered")
  /\ Reads(r)
  /\ UNCHANGED token

AgentInactive(r) ==
  /\ Moves(r, "checked", "answered")
  /\ Reads(r) /\ ~ active
  /\ UNCHANGED token

Takes(r) == /\ free[at[r]] > 0
            /\ free' = [free EXCEPT ![at[r]] = @ - 1]
            /\ Around /\ UNCHANGED <<token, at>>

GivesBack(r) == free' = [free EXCEPT ![at[r]] = @ + 1]

(* The request keeps the connection its agent was read with. *)
Authenticates(r) ==
  /\ Moves(r, "checked", "inside")
  /\ Takes(r) /\ active
  /\ UNCHANGED left

AsksForSession(r) ==
  /\ left[r] > 0
  /\ Moves(r, "inside", "waiting")
  /\ Around /\ UNCHANGED <<token, at, left, free>>

OpensSession(r) ==
  /\ Moves(r, "waiting", "session")
  /\ Takes(r)
  /\ left' = [left EXCEPT ![r] = @ - 1]

(* Whatever it does next, a provider call perhaps, needs no session. *)
ClosesSession(r) ==
  /\ Moves(r, "session", "inside")
  /\ GivesBack(r)
  /\ Around /\ UNCHANGED <<token, at, left>>

(* A service may well answer without opening every session. *)
Answers(r) ==
  /\ Moves(r, "inside", "answered")
  /\ free' = [free EXCEPT ![at[r]] = @ + 1]
  /\ Around /\ UNCHANGED <<token, at, left>>

(* Mutants: the pool waits for ever; the first connection is not given     *)
(* back; one is given back that was never taken.                           *)
WaitsForever(r) == FALSE

ForgetsFirst(r) == 0

AlwaysOne(r) == 1

(* pool_timeout only ends a wait that has found no free connection. *)
Starved(r) == pc[r] \in Waiting /\ free[at[r]] = 0

FirstHeld(r) == IF pc[r] = "waiting" THEN 1 ELSE 0

PoolTimesOut(r) ==
  /\ Starved(r)
  /\ pc' = [pc EXCEPT ![r] = "failed"]
  /\ free' = [free EXCEPT ![at[r]] = @ + FirstHeld(r)]
  /\ Around /\ UNCHANGED <<token, at, left>>
-----------------------------------------------------------------------------
StartStep(p) ==
  \/ Migrates(p) \/ Boots(p) \/ CreatesSchema(p)
  \/ SchemaMissing(p) \/ LooksForAgent(p) \/ SeedsAgent(p) \/ AgentExists(p)

RequestStep(r) ==
  \/ LogsIn(r) \/ LoginRefused(r)
  \/ AgentInactive(r) \/ Authenticates(r)
  \/ AsksForSession(r) \/ OpensSession(r) \/ ClosesSession(r)
  \/ Answers(r) \/ PoolTimesOut(r)

Next ==
  \/ \E p \in Processes :
       \/ StartStep(p) \/ Stops(p)
       \/ \E r \in Requests :
            \/ LoginArrives(r, p) \/ TokenRefused(r, p)
            \/ \E n \in 0..MaxSessions : TokenAccepted(r, p, n)
  \/ \E r \in Requests : RequestStep(r)
  \/ Switches \/ Ticks

Spec == Init /\ [][Next]_vars

(* A container is restarted (docker-compose.yml: restart), a process that  *)
(* was started by hand and is down need not be; what has started goes on.  *)
Restarted(p) == container \/ proc[p] # "down"

(* The event loop runs every ready handler, and the pool gives up after    *)
(* pool_timeout.                                                           *)
FairSpec ==
  /\ Spec
  /\ \A p \in Processes : WF_vars(Restarted(p) /\ StartStep(p))
  /\ \A r \in Requests : WF_vars(RequestStep(r))
-----------------------------------------------------------------------------
(* A process only serves once there is a schema and an agent to log in,    *)
(* whoever was to create the schema, and however many start together.      *)
ServingHasAgent == \A p \in Processes : proc[p] = "serving" => tables /\ agents > 0

(* No path of a request, timeouts and refusals included, loses or returns  *)
(* a connection too many.                                                  *)
In(p, places) == Cardinality({r \in Requests : at[r] = p /\ pc[r] \in places})

ConnectionsAccounted ==
  \A p \in Processes :
    free[p] + In(p, {"inside", "waiting"}) + 2 * In(p, {"session"}) = PoolSize

(* No request is let in with a token after the time that was announced as  *)
(* its end, although both times are rounded.                               *)
AcceptedOnlyInTime ==
  [][\A r \in Requests : pc[r] = "new" /\ pc'[r] = "checked" => clock < token]_vars

(* Every request is answered, also after a standstill, unless the process  *)
(* stops.                                                                  *)
RequestsEnd ==
  \A r \in Requests : pc[r] \in Served ~> pc[r] \in {"answered", "failed", "lost"}

(* Every container gets to serve, however many migrate and seed together,  *)
(* and although the seed of some fails.                                    *)
ComesUp ==
  \A p \in Processes : container /\ proc[p] = "down" ~> proc[p] = "serving"
=============================================================================
