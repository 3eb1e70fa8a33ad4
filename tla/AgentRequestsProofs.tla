------------------------ MODULE AgentRequestsProofs ------------------------
(***************************************************************************)
(* Proofs about AgentRequests, for every number of processes, of requests  *)
(* and of connections, and whatever the bounds on time and stops: nothing  *)
(* is served before there are a schema and the default agent, no token     *)
(* outlives the end it was given out with, and no connection is lost.      *)
(***************************************************************************)
EXTENDS AgentRequests, FiniteSetTheorems, TLAPS

(***************************************************************************)
(* The seed.  The invariant that carries it says what a process knows      *)
(* where it stands: once it has looked for the agent there are tables,     *)
(* whoever created them, and a process only goes on to serve after an      *)
(* agent was found or inserted.                                            *)
(***************************************************************************)
States == {"down", "migrated", "creating", "looking", "seeding", "serving"}

SeedInv ==
  /\ tables \in BOOLEAN
  /\ agents \in Nat
  /\ proc \in [Processes -> States]
  /\ \A p \in Processes :
       /\ proc[p] \in {"seeding", "serving"} => tables
       /\ proc[p] = "serving" => agents > 0

(* Nothing that moves one process and only adds rows can break it.         *)
LEMMA MovesKeepSeedInv ==
  ASSUME SeedInv,
         NEW p \in Processes, NEW state \in States,
         proc' = [proc EXCEPT ![p] = state],
         tables' \in BOOLEAN, tables => tables',
         agents' \in Nat, agents' >= agents,
         state \in {"seeding", "serving"} => tables',
         state = "serving" => agents' > 0
  PROVE  SeedInv'
<1>1. tables' \in BOOLEAN /\ agents' \in Nat
  OBVIOUS
<1>2. proc' \in [Processes -> States]
  BY DEF SeedInv
<1>3. ASSUME NEW q \in Processes
      PROVE  /\ proc'[q] \in {"seeding", "serving"} => tables'
             /\ proc'[q] = "serving" => agents' > 0
  <2>1. CASE q = p
    BY <2>1 DEF SeedInv
  <2>2. CASE q # p
    BY <2>2, <1>3 DEF SeedInv
  <2> QED
    BY <2>1, <2>2
<1> QED
  BY <1>1, <1>2, <1>3 DEF SeedInv

LEMMA SeedInductive == SeedInv /\ [Next]_vars => SeedInv'
<1> SUFFICES ASSUME SeedInv, [Next]_vars
             PROVE  SeedInv'
  OBVIOUS
<1>1. ASSUME NEW p \in Processes, StartStep(p)
      PROVE  SeedInv'
  <2>1. CASE Boots(p)
    BY <2>1, <1>1, MovesKeepSeedInv DEF Boots, Becomes, SeedInv, States
  <2>2. CASE CreatesSchema(p)
    BY <2>2, <1>1, MovesKeepSeedInv DEF CreatesSchema, Becomes, SeedInv, States
  <2>3. CASE LooksForAgent(p)
    BY <2>3, <1>1, MovesKeepSeedInv DEF LooksForAgent, Becomes, SeedInv, States
  <2>4. CASE SeedsAgent(p)
    BY <2>4, <1>1, MovesKeepSeedInv DEF SeedsAgent, EmailFree, Becomes, SeedInv, States
  <2>5. CASE AgentExists(p)
    BY <2>5, <1>1, MovesKeepSeedInv DEF AgentExists, Becomes, SeedInv, States
  <2>6. CASE Migrates(p)
    BY <2>6, <1>1, MovesKeepSeedInv DEF Migrates, Becomes, SeedInv, States
  <2>7. CASE SchemaMissing(p)
    BY <2>7, <1>1, MovesKeepSeedInv DEF SchemaMissing, Becomes, SeedInv, States
  <2> QED
    BY <1>1, <2>1, <2>2, <2>3, <2>4, <2>5, <2>6, <2>7 DEF StartStep
<1>2. ASSUME NEW p \in Processes, Stops(p)
      PROVE  SeedInv'
  BY <1>2, MovesKeepSeedInv DEF Stops, database, SeedInv, States
<1>3. CASE UNCHANGED <<tables, agents, proc>>
  BY <1>3 DEF SeedInv
<1>4. ASSUME NEW r \in Requests, RequestStep(r)
      PROVE  UNCHANGED <<tables, agents, proc>>
  BY <1>4 DEF RequestStep, LogsIn, LoginRefused, AgentInactive, Authenticates,
     AsksForSession, OpensSession, ClosesSession, Answers, PoolTimesOut,
     Reads, Takes, Around, database
<1>5. ASSUME NEW p \in Processes, NEW r \in Requests,
             \/ LoginArrives(r, p) \/ TokenRefused(r, p)
             \/ \E n \in 0..MaxSessions : TokenAccepted(r, p, n)
      PROVE  UNCHANGED <<tables, agents, proc>>
  BY <1>5 DEF LoginArrives, TokenRefused, TokenAccepted, Arrives, Around, database
<1>6. CASE Switches \/ Ticks \/ UNCHANGED vars
  BY <1>6, <1>3 DEF Switches, Ticks, vars, database
<1> QED
  BY <1>1, <1>2, <1>3, <1>4, <1>5, <1>6 DEF Next

LEMMA SeedInvariant == Spec => []SeedInv
<1>1. ASSUME Init
      PROVE  SeedInv
  <2>1. proc \in [Processes -> States] /\ \A p \in Processes : proc[p] = "down"
    BY <1>1 DEF Init, States
  <2> QED
    BY <1>1, <2>1 DEF Init, SeedInv
<1> QED
  BY <1>1, SeedInductive, PTL DEF Spec

(* A process that serves has a schema and an agent who can log in.         *)
THEOREM ServesWithAgent == Spec => []ServingHasAgent
<1>1. SeedInv => ServingHasAgent
  BY DEF SeedInv, ServingHasAgent
<1> QED
  BY <1>1, SeedInvariant, PTL

(***************************************************************************)
(* Tokens.                                                                 *)
(***************************************************************************)
ClockInv == clock \in Nat /\ token \in Nat

LEMMA ClockInductive == ClockInv /\ [Next]_vars => ClockInv'
<1> SUFFICES ASSUME ClockInv, [Next]_vars
             PROVE  ClockInv'
  OBVIOUS
<1>1. ASSUME NEW r \in Requests, LogsIn(r)
      PROVE  ClockInv'
  BY <1>1, ConstantsOK DEF LogsIn, ExpiresAt, Reads, Around, ClockInv
<1>2. CASE Ticks
  BY <1>2 DEF Ticks, ClockInv
<1>3. CASE UNCHANGED <<clock, token>>
  BY <1>3 DEF ClockInv
<1>4. ASSUME NEW r \in Requests, RequestStep(r), ~ LogsIn(r)
      PROVE  UNCHANGED <<clock, token>>
  BY <1>4 DEF RequestStep, LoginRefused, AgentInactive, Authenticates,
     AsksForSession, OpensSession, ClosesSession, Answers, PoolTimesOut,
     Reads, Takes, Around
<1>5. ASSUME NEW p \in Processes,
             \/ StartStep(p) \/ Stops(p)
             \/ \E r \in Requests :
                  \/ LoginArrives(r, p) \/ TokenRefused(r, p)
                  \/ \E n \in 0..MaxSessions : TokenAccepted(r, p, n)
      PROVE  UNCHANGED <<clock, token>>
  BY <1>5 DEF StartStep, Migrates, Boots, CreatesSchema, SchemaMissing, LooksForAgent,
     SeedsAgent, AgentExists, Becomes, Stops, LoginArrives, TokenRefused, TokenAccepted, Arrives,
     Around, time
<1>6. CASE Switches \/ UNCHANGED vars
  BY <1>6, <1>3 DEF Switches, vars, time
<1> QED
  BY <1>1, <1>2, <1>3, <1>4, <1>5, <1>6 DEF Next

LEMMA PlacesInductive == DOMAIN pc = Requests /\ [Next]_vars => (DOMAIN pc = Requests)'
<1> SUFFICES ASSUME DOMAIN pc = Requests, [Next]_vars
             PROVE  DOMAIN pc' = Requests
  OBVIOUS
<1>1. ASSUME NEW r, NEW from, NEW to, Moves(r, from, to)
      PROVE  DOMAIN pc' = Requests
  BY <1>1 DEF Moves
<1>2. ASSUME NEW r \in Requests, RequestStep(r)
      PROVE  DOMAIN pc' = Requests
  BY <1>2, <1>1 DEF RequestStep, LogsIn, LoginRefused, AgentInactive, Authenticates,
     AsksForSession, OpensSession, ClosesSession, Answers, PoolTimesOut
<1>3. ASSUME NEW p \in Processes, NEW r \in Requests,
             \/ LoginArrives(r, p) \/ TokenRefused(r, p)
             \/ \E n \in 0..MaxSessions : TokenAccepted(r, p, n)
      PROVE  DOMAIN pc' = Requests
  BY <1>3, <1>1 DEF LoginArrives, TokenRefused, TokenAccepted
<1>4. ASSUME NEW p \in Processes, StartStep(p) \/ Stops(p)
      PROVE  DOMAIN pc' = Requests
  BY <1>4 DEF StartStep, Migrates, Boots, CreatesSchema, SchemaMissing, LooksForAgent,
     SeedsAgent, AgentExists, Becomes, Stops, requests
<1>5. CASE Switches \/ Ticks \/ UNCHANGED vars
  BY <1>5 DEF Switches, Ticks, vars, requests
<1> QED
  BY <1>2, <1>3, <1>4, <1>5 DEF Next

(* Rounding both times down never lets a token in late.                    *)
LEMMA ValidInTime ==
  ASSUME NEW t \in Nat, clock \in Nat, Valid(t)
  PROVE  clock < t
BY SMT DEF Valid

LEMMA AcceptsInTime ==
  ASSUME ClockInv, DOMAIN pc = Requests, [Next]_vars,
         NEW r \in Requests, pc[r] = "new", pc'[r] = "checked"
  PROVE  clock < token
<1>1. CASE Valid(token)
  BY <1>1, ValidInTime DEF ClockInv
<1>2. CASE ~ Valid(token)
  <2>1. ASSUME NEW p \in Processes, NEW q \in Requests, NEW n \in 0..MaxSessions,
               TokenAccepted(q, p, n)
        PROVE  FALSE
    BY <2>1, <1>2 DEF TokenAccepted
  <2>2. ASSUME NEW p \in Processes, NEW q \in Requests,
               LoginArrives(q, p) \/ TokenRefused(q, p)
        PROVE  FALSE
    BY <2>2 DEF LoginArrives, TokenRefused, Moves
  <2>3. ASSUME NEW q \in Requests, RequestStep(q)
        PROVE  FALSE
    BY <2>3 DEF RequestStep, LogsIn, LoginRefused, AgentInactive, Authenticates,
       AsksForSession, OpensSession, ClosesSession, Answers, PoolTimesOut, Moves,
       Starved, Waiting
  <2>4. ASSUME NEW p \in Processes, StartStep(p) \/ Stops(p)
        PROVE  FALSE
    BY <2>4 DEF StartStep, Migrates, Boots, CreatesSchema, SchemaMissing, LooksForAgent,
       SeedsAgent, AgentExists, Becomes, Stops, requests, Served
  <2>5. CASE Switches \/ Ticks \/ UNCHANGED vars
    BY <2>5 DEF Switches, Ticks, vars, requests
  <2> QED
    BY <2>1, <2>2, <2>3, <2>4, <2>5 DEF Next
<1> QED
  BY <1>1, <1>2

(* A request is let in only before the end announced with its token.       *)
THEOREM TokensEndInTime == Spec => AcceptedOnlyInTime
<1>1. Init => ClockInv /\ DOMAIN pc = Requests
  BY DEF Init, ClockInv
<1>2. ClockInv /\ DOMAIN pc = Requests /\ [Next]_vars =>
        [\A r \in Requests : pc[r] = "new" /\ pc'[r] = "checked" => clock < token]_vars
  BY AcceptsInTime
<1> QED
  BY <1>1, <1>2, ClockInductive, PlacesInductive, PTL DEF Spec, AcceptedOnlyInTime

(***************************************************************************)
(* Connections.  A request that is inside a service holds one, one with an *)
(* open session two; every step moves one request, and the counts with it. *)
(***************************************************************************)
One == {"inside", "waiting"}
Two == {"session"}

Held(p) == In(p, One) + 2 * In(p, Two)

PoolInv ==
  /\ pc \in [Requests -> Served \cup {"new", "answered", "failed", "lost"}]
  /\ at \in [Requests -> Processes \cup {None}]
  /\ free \in [Processes -> Int]
  /\ \A r \in Requests : pc[r] \in Served => at[r] \in Processes
  /\ \A p \in Processes : free[p] + Held(p) = PoolSize

Holds(place) == IF place \in One THEN 1 ELSE IF place \in Two THEN 2 ELSE 0

LEMMA InIsCount ==
  ASSUME NEW p, NEW places
  PROVE  /\ IsFiniteSet({r \in Requests : at[r] = p /\ pc[r] \in places})
         /\ In(p, places) \in Nat
<1> DEFINE S == {r \in Requests : at[r] = p /\ pc[r] \in places}
<1>1. IsFiniteSet(S)
  BY ConstantsOK, FS_Subset DEF ConstantsOK
<1> QED
  BY <1>1, FS_CardinalityType DEF In

(* Two sets that differ in r at most differ in size by r. *)
LEMMA DifferByOne ==
  ASSUME NEW S, NEW T, NEW r, IsFiniteSet(S), IsFiniteSet(T), S \ {r} = T \ {r}
  PROVE  Cardinality(T) =
           Cardinality(S) - (IF r \in S THEN 1 ELSE 0) + (IF r \in T THEN 1 ELSE 0)
<1>1. Cardinality(S \ {r}) = IF r \in S THEN Cardinality(S) - 1 ELSE Cardinality(S)
  BY FS_RemoveElement
<1>2. Cardinality(T \ {r}) = IF r \in T THEN Cardinality(T) - 1 ELSE Cardinality(T)
  BY FS_RemoveElement
<1>3. Cardinality(S) \in Nat /\ Cardinality(T) \in Nat
  BY FS_CardinalityType
<1>4. Cardinality(S \ {r}) = Cardinality(T \ {r})
  OBVIOUS
<1> QED
  BY <1>1, <1>2, <1>3, <1>4

(* A step that moves request r only changes the counts of r's process. *)
LEMMA CountMoves ==
  ASSUME NEW r \in Requests, NEW p, NEW places,
         \A q \in Requests : q # r => pc'[q] = pc[q] /\ at'[q] = at[q]
  PROVE  In(p, places)' =
           In(p, places) - (IF at[r] = p /\ pc[r] \in places THEN 1 ELSE 0)
                         + (IF at'[r] = p /\ pc'[r] \in places THEN 1 ELSE 0)
<1> DEFINE S == {q \in Requests : at[q] = p /\ pc[q] \in places}
           T == {q \in Requests : at'[q] = p /\ pc'[q] \in places}
<1>1. IsFiniteSet(S) /\ IsFiniteSet(T)
  BY ConstantsOK, FS_Subset DEF ConstantsOK
<1>2. S \ {r} = T \ {r}
  OBVIOUS
<1>3. /\ r \in S <=> at[r] = p /\ pc[r] \in places
      /\ r \in T <=> at'[r] = p /\ pc'[r] \in places
  OBVIOUS
<1>4. Cardinality(T) = Cardinality(S) - (IF r \in S THEN 1 ELSE 0) + (IF r \in T THEN 1 ELSE 0)
  BY <1>1, <1>2, DifferByOne
<1> QED
  BY <1>3, <1>4 DEF In

LEMMA HeldMoves ==
  ASSUME PoolInv, NEW r \in Requests, NEW p \in Processes, NEW to,
         pc' = [pc EXCEPT ![r] = to],
         at' = at \/ (at' = [at EXCEPT ![r] = at'[r]] /\ Holds(pc[r]) = 0 /\ Holds(to) = 0)
  PROVE  /\ Held(p) \in Int
         /\ Held(p)' = IF at[r] = p THEN Held(p) - Holds(pc[r]) + Holds(to) ELSE Held(p)
<1>1. /\ \A q \in Requests : q # r => pc'[q] = pc[q] /\ at'[q] = at[q]
      /\ pc'[r] = to
  BY DEF PoolInv
<1>2. In(p, One) \in Nat /\ In(p, Two) \in Nat
  BY InIsCount
<1>3. In(p, One)' = In(p, One) - (IF at[r] = p /\ pc[r] \in One THEN 1 ELSE 0)
                               + (IF at'[r] = p /\ to \in One THEN 1 ELSE 0)
  BY <1>1, CountMoves
<1>4. In(p, Two)' = In(p, Two) - (IF at[r] = p /\ pc[r] \in Two THEN 1 ELSE 0)
                               + (IF at'[r] = p /\ to \in Two THEN 1 ELSE 0)
  BY <1>1, CountMoves
<1>5. One \cap Two = {}
  BY DEF One, Two
<1>6. Held(p)' = In(p, One)' + 2 * In(p, Two)'
  BY DEF Held
<1>7. CASE at' = at
  <2> HIDE DEF One, Two
  <2> QED
    BY <1>2, <1>3, <1>4, <1>5, <1>6, <1>7 DEF Held, Holds
<1>8. CASE Holds(pc[r]) = 0 /\ Holds(to) = 0
  <2>1. /\ pc[r] \notin One /\ pc[r] \notin Two
        /\ to \notin One /\ to \notin Two
    BY <1>8 DEF Holds
  <2> QED
    BY <1>2, <1>3, <1>4, <1>6, <1>8, <2>1 DEF Held
<1> QED
  BY <1>7, <1>8

(* What a request step does to the pool of its process is what it does to  *)
(* the connections the request holds.                                      *)
LEMMA MoveKeepsPool ==
  ASSUME PoolInv, NEW r \in Requests,
         NEW to \in Served \cup {"answered", "failed"},
         pc' = [pc EXCEPT ![r] = to], at' = at, pc[r] \in Served,
         \/ free' = free /\ Holds(to) = Holds(pc[r])
         \/ free' = [free EXCEPT ![at[r]] = free[at[r]] + Holds(pc[r]) - Holds(to)]
  PROVE  PoolInv'
<1>1. pc' \in [Requests -> Served \cup {"new", "answered", "failed", "lost"}]
  BY DEF PoolInv
<1>2. \A x : Holds(x) \in Int
  BY DEF Holds
<1>3. at[r] \in Processes
  BY DEF PoolInv
<1>4. free' \in [Processes -> Int]
  BY <1>2, <1>3 DEF PoolInv
<1>5. \A q \in Requests : pc'[q] \in Served => at'[q] \in Processes
  BY DEF PoolInv
<1>6. ASSUME NEW p \in Processes
      PROVE  free'[p] + Held(p)' = PoolSize
  <2>1. /\ Held(p) \in Int
        /\ Held(p)' = IF at[r] = p THEN Held(p) - Holds(pc[r]) + Holds(to) ELSE Held(p)
    BY HeldMoves
  <2>2. free[p] + Held(p) = PoolSize /\ free[p] \in Int /\ Holds(pc[r]) \in Int /\ Holds(to) \in Int
    BY <1>2 DEF PoolInv
  <2>3. free'[p] = IF at[r] = p THEN free[p] + Holds(pc[r]) - Holds(to) ELSE free[p]
    BY <1>2, <1>3, <2>2 DEF PoolInv
  <2> QED
    BY <2>1, <2>2, <2>3
<1> QED
  BY <1>1, <1>4, <1>5, <1>6 DEF PoolInv

LEMMA RequestKeepsPool ==
  ASSUME PoolInv, NEW r \in Requests, RequestStep(r)
  PROVE  PoolInv'
<1> USE DEF Moves
<1>1. CASE LogsIn(r) \/ LoginRefused(r) \/ AgentInactive(r)
  <2>1. /\ pc' = [pc EXCEPT ![r] = "answered"] /\ at' = at /\ free' = free
        /\ pc[r] \in {"login", "checked"}
    BY <1>1 DEF LogsIn, LoginRefused, AgentInactive, Reads
  <2>2. pc[r] \in Served /\ Holds(pc[r]) = 0 /\ Holds("answered") = 0
    BY <2>1 DEF Served, Waiting, Holds, One, Two
  <2> QED
    BY <2>1, <2>2, MoveKeepsPool
<1>2. CASE Authenticates(r)
  <2>1. /\ pc' = [pc EXCEPT ![r] = "inside"] /\ at' = at /\ pc[r] = "checked"
        /\ free' = [free EXCEPT ![at[r]] = free[at[r]] - 1]
    BY <1>2 DEF Authenticates, Takes
  <2>2. /\ pc[r] \in Served /\ "inside" \in Served
        /\ Holds(pc[r]) = 0 /\ Holds("inside") = 1
    BY <2>1 DEF Served, Waiting, Holds, One, Two
  <2>3. free[at[r]] - 1 = free[at[r]] + 0 - 1
    BY <2>2 DEF PoolInv
  <2> QED
    BY <2>1, <2>2, <2>3, MoveKeepsPool
<1>3. CASE AsksForSession(r)
  <2>1. /\ pc' = [pc EXCEPT ![r] = "waiting"] /\ at' = at /\ free' = free
        /\ pc[r] = "inside"
    BY <1>3 DEF AsksForSession
  <2>2. /\ pc[r] \in Served /\ "waiting" \in Served
        /\ Holds(pc[r]) = 1 /\ Holds("waiting") = 1
    BY <2>1 DEF Served, Waiting, Holds, One, Two
  <2> QED
    BY <2>1, <2>2, MoveKeepsPool
<1>4. CASE OpensSession(r)
  <2>1. /\ pc' = [pc EXCEPT ![r] = "session"] /\ at' = at /\ pc[r] = "waiting"
        /\ free' = [free EXCEPT ![at[r]] = free[at[r]] - 1]
    BY <1>4 DEF OpensSession, Takes
  <2>2. /\ pc[r] \in Served /\ "session" \in Served
        /\ Holds(pc[r]) = 1 /\ Holds("session") = 2
    BY <2>1 DEF Served, Waiting, Holds, One, Two
  <2>3. free[at[r]] - 1 = free[at[r]] + 1 - 2
    BY <2>2 DEF PoolInv
  <2> QED
    BY <2>1, <2>2, <2>3, MoveKeepsPool
<1>5. CASE ClosesSession(r)
  <2>1. /\ pc' = [pc EXCEPT ![r] = "inside"] /\ at' = at /\ pc[r] = "session"
        /\ free' = [free EXCEPT ![at[r]] = free[at[r]] + 1]
    BY <1>5 DEF ClosesSession, GivesBack
  <2>2. /\ pc[r] \in Served /\ "inside" \in Served
        /\ Holds(pc[r]) = 2 /\ Holds("inside") = 1
    BY <2>1 DEF Served, Waiting, Holds, One, Two
  <2>3. free[at[r]] + 1 = free[at[r]] + 2 - 1
    BY <2>2 DEF PoolInv
  <2> QED
    BY <2>1, <2>2, <2>3, MoveKeepsPool
<1>6. CASE Answers(r)
  <2>1. /\ pc' = [pc EXCEPT ![r] = "answered"] /\ at' = at /\ pc[r] = "inside"
        /\ free' = [free EXCEPT ![at[r]] = free[at[r]] + 1]
    BY <1>6 DEF Answers
  <2>2. /\ pc[r] \in Served
        /\ Holds(pc[r]) = 1 /\ Holds("answered") = 0
    BY <2>1 DEF Served, Waiting, Holds, One, Two
  <2>3. free[at[r]] + 1 = free[at[r]] + 1 - 0
    BY <2>2 DEF PoolInv
  <2> QED
    BY <2>1, <2>2, <2>3, MoveKeepsPool
<1>7. CASE PoolTimesOut(r)
  <2>1. /\ pc' = [pc EXCEPT ![r] = "failed"] /\ at' = at /\ pc[r] \in Waiting
        /\ free' = [free EXCEPT ![at[r]] = free[at[r]] + FirstHeld(r)]
    BY <1>7 DEF PoolTimesOut, Starved
  <2>2. /\ pc[r] \in Served
        /\ Holds(pc[r]) = FirstHeld(r) /\ Holds("failed") = 0 /\ FirstHeld(r) \in Int
    BY <2>1 DEF Served, Waiting, Holds, One, Two, FirstHeld
  <2>3. free[at[r]] + FirstHeld(r) = free[at[r]] + FirstHeld(r) - 0
    BY <2>2 DEF PoolInv
  <2> QED
    BY <2>1, <2>2, <2>3, MoveKeepsPool
<1> QED
  BY <1>1, <1>2, <1>3, <1>4, <1>5, <1>6, <1>7 DEF RequestStep

LEMMA ArrivalKeepsPool ==
  ASSUME PoolInv, NEW p \in Processes, NEW r \in Requests,
         \/ LoginArrives(r, p) \/ TokenRefused(r, p)
         \/ \E n \in 0..MaxSessions : TokenAccepted(r, p, n)
  PROVE  PoolInv'
<1>1. PICK to \in {"login", "checked", "answered"} :
        /\ pc[r] = "new" /\ pc' = [pc EXCEPT ![r] = to]
        /\ at' = [at EXCEPT ![r] = p] /\ free' = free
  BY DEF LoginArrives, TokenRefused, TokenAccepted, Arrives, Moves
<1>2. Holds(pc[r]) = 0 /\ Holds(to) = 0 /\ to \in Served \cup {"answered"}
  BY <1>1 DEF Holds, One, Two, Served, Waiting
<1>3. at' = [at EXCEPT ![r] = at'[r]]
  BY <1>1 DEF PoolInv
<1>4. ASSUME NEW q \in Processes
      PROVE  free'[q] + Held(q)' = PoolSize
  <2>1. Held(q)' = IF at[r] = q THEN Held(q) - Holds(pc[r]) + Holds(to) ELSE Held(q)
    BY <1>1, <1>2, <1>3, HeldMoves
  <2>2. Held(q) \in Int
    BY <1>1, <1>2, <1>3, HeldMoves
  <2> QED
    BY <1>1, <1>2, <2>1, <2>2 DEF PoolInv
<1>5. /\ pc' \in [Requests -> Served \cup {"new", "answered", "failed", "lost"}]
      /\ at' \in [Requests -> Processes \cup {None}]
      /\ free' \in [Processes -> Int]
      /\ \A q \in Requests : pc'[q] \in Served => at'[q] \in Processes
  BY <1>1, <1>2 DEF PoolInv
<1> QED
  BY <1>4, <1>5 DEF PoolInv

(* The requests of a process that stops are gone, and so is its pool.      *)
LEMMA StopKeepsPool ==
  ASSUME PoolInv, NEW p \in Processes, Stops(p)
  PROVE  PoolInv'
<1>1. /\ pc' = [r \in Requests |-> IF at[r] = p /\ pc[r] \in Served THEN "lost" ELSE pc[r]]
      /\ at' = at /\ free' = [free EXCEPT ![p] = PoolSize]
  BY DEF Stops
<1>2. PoolSize \in Int
  BY ConstantsOK DEF ConstantsOK
<1>3. One \subseteq Served /\ Two \subseteq Served /\ "lost" \notin One /\ "lost" \notin Two
  BY DEF One, Two, Served, Waiting
<1>4. /\ pc' \in [Requests -> Served \cup {"new", "answered", "failed", "lost"}]
      /\ free' \in [Processes -> Int]
      /\ \A q \in Requests : pc'[q] \in Served => at'[q] \in Processes
  BY <1>1, <1>2 DEF PoolInv, Served, Waiting
<1>5. ASSUME NEW q \in Processes, q # p
      PROVE  free'[q] + Held(q)' = PoolSize
  <2>1. In(q, One)' = In(q, One) /\ In(q, Two)' = In(q, Two)
    <3>1. \A r \in Requests : at[r] = q => pc'[r] = pc[r]
      BY <1>1, <1>5
    <3>2. ASSUME NEW places
          PROVE  {r \in Requests : at'[r] = q /\ pc'[r] \in places}
                   = {r \in Requests : at[r] = q /\ pc[r] \in places}
      BY <1>1, <3>1
    <3> QED
      BY <3>2 DEF In
  <2> QED
    BY <1>1, <1>5, <2>1 DEF Held, PoolInv
<1>6. free'[p] + Held(p)' = PoolSize
  <2>1. /\ {r \in Requests : at'[r] = p /\ pc'[r] \in One} = {}
        /\ {r \in Requests : at'[r] = p /\ pc'[r] \in Two} = {}
    BY <1>1, <1>3
  <2>2. In(p, One)' = 0 /\ In(p, Two)' = 0
    BY <2>1, FS_EmptySet DEF In
  <2> QED
    BY <1>1, <1>2, <2>2 DEF Held, PoolInv
<1> QED
  BY <1>1, <1>4, <1>5, <1>6 DEF PoolInv

LEMMA PoolInvariant == Spec => []PoolInv
<1>1. ASSUME Init
      PROVE  PoolInv
  <2>1. \A p, places : places \in {One, Two} =>
          {r \in Requests : at[r] = p /\ pc[r] \in places} = {}
    BY <1>1 DEF Init, One, Two
  <2>2. \A p : In(p, One) = 0 /\ In(p, Two) = 0
    BY <2>1, FS_EmptySet DEF In
  <2> QED
    BY <1>1, <2>2, ConstantsOK DEF Init, PoolInv, Held, Served, Waiting, ConstantsOK
<1>2. PoolInv /\ [Next]_vars => PoolInv'
  <2> SUFFICES ASSUME PoolInv, [Next]_vars
               PROVE  PoolInv'
    OBVIOUS
  <2>1. CASE UNCHANGED requests
    BY <2>1 DEF requests, PoolInv, Held, In
  <2>2. ASSUME NEW p \in Processes, StartStep(p)
        PROVE  UNCHANGED requests
    BY <2>2 DEF StartStep, Migrates, Boots, CreatesSchema, SchemaMissing, LooksForAgent,
       SeedsAgent, AgentExists, Becomes
  <2>3. CASE Switches \/ Ticks \/ UNCHANGED vars
    BY <2>1, <2>3 DEF Switches, Ticks, vars
  <2> QED
    BY <2>1, <2>2, <2>3, RequestKeepsPool, ArrivalKeepsPool, StopKeepsPool DEF Next
<1> QED
  BY <1>1, <1>2, PTL DEF Spec

(* No path of a request loses a connection or gives one back too many,     *)
(* whatever the size of the pool.                                          *)
THEOREM NoConnectionLost == Spec => []ConnectionsAccounted
<1>1. ASSUME PoolInv
      PROVE  ConnectionsAccounted
  <2>1. \A p \in Processes : In(p, One) \in Nat /\ In(p, Two) \in Nat
    BY InIsCount
  <2> QED
    BY <1>1, <2>1, ConstantsOK DEF PoolInv, Held, One, Two, ConnectionsAccounted, ConstantsOK
<1> QED
  BY <1>1, PoolInvariant, PTL

(***************************************************************************)
(* Types.  No count leaves its range: nobody takes a connection of an      *)
(* empty pool, the connections held bound the free ones from above, and    *)
(* a request only waits for a session that its service still has to open.  *)
(***************************************************************************)
Ranges ==
  /\ container \in BOOLEAN /\ autoCreate \in BOOLEAN
  /\ active \in BOOLEAN
  /\ stops \in 0..MaxStops
  /\ clock \in 0..MaxClock /\ token \in Nat
  /\ left \in [Requests -> 0..MaxSessions]
  /\ free \in [Processes -> Nat]
  /\ \A r \in Requests : pc[r] = "waiting" => left[r] > 0

LEMMA RequestKeepsRanges ==
  ASSUME PoolInv, Ranges, NEW r \in Requests, RequestStep(r)
  PROVE  Ranges'
<1> USE ConstantsOK DEF ConstantsOK, Ranges
<1>1. pc \in [Requests -> Served \cup {"new", "answered", "failed", "lost"}] /\ at[r] \in Processes
  BY DEF PoolInv, RequestStep, LogsIn, LoginRefused, AgentInactive, Authenticates, AsksForSession,
     OpensSession, ClosesSession, Answers, PoolTimesOut, Moves, Starved, Served, Waiting
<1>2. UNCHANGED <<container, autoCreate, active, stops, clock>>
  BY DEF RequestStep, LogsIn, LoginRefused, AgentInactive, Authenticates, AsksForSession,
     OpensSession, ClosesSession, Answers, PoolTimesOut, Reads, Takes, Around, database, settings
<1>3. CASE LogsIn(r) \/ LoginRefused(r) \/ AgentInactive(r)
  BY <1>1, <1>2, <1>3 DEF LogsIn, LoginRefused, AgentInactive, Reads, ExpiresAt, Moves
<1>4. CASE Authenticates(r)
  BY <1>1, <1>2, <1>4 DEF Authenticates, Takes, Moves
<1>5. CASE AsksForSession(r)
  BY <1>1, <1>2, <1>5 DEF AsksForSession, Moves
<1>6. CASE OpensSession(r)
  <2>1. UNCHANGED token /\ free' \in [Processes -> Nat]
    BY <1>1, <1>6 DEF OpensSession, Takes
  <2>2. left' \in [Requests -> 0..MaxSessions]
    BY <1>6 DEF OpensSession, Moves
  <2>3. \A q \in Requests : pc'[q] = "waiting" => left'[q] > 0
    BY <1>1, <1>6 DEF OpensSession, Moves
  <2> QED  BY <1>2, <2>1, <2>2, <2>3
<1>7. CASE ClosesSession(r) \/ Answers(r)
  BY <1>1, <1>2, <1>7 DEF ClosesSession, Answers, GivesBack, Moves
<1>8. CASE PoolTimesOut(r)
  BY <1>1, <1>2, <1>8 DEF PoolTimesOut, FirstHeld
<1> QED  BY <1>3, <1>4, <1>5, <1>6, <1>7, <1>8 DEF RequestStep

LEMMA RangesInductive == PoolInv /\ Ranges /\ [Next]_vars => Ranges'
<1> SUFFICES ASSUME PoolInv, Ranges, [Next]_vars
             PROVE  Ranges'
  OBVIOUS
<1> USE ConstantsOK DEF ConstantsOK, Ranges
<1>1. ASSUME NEW p \in Processes, StartStep(p)
      PROVE  Ranges'
  BY <1>1 DEF StartStep, Migrates, Boots, CreatesSchema, SchemaMissing, LooksForAgent,
     SeedsAgent, AgentExists, Becomes, time, requests, settings
<1>2. ASSUME NEW p \in Processes, Stops(p)
      PROVE  Ranges'
  BY <1>2 DEF Stops, settings, database, time
<1>3. ASSUME NEW p \in Processes, NEW r \in Requests, LoginArrives(r, p) \/ TokenRefused(r, p)
      PROVE  Ranges'
  BY <1>3 DEF LoginArrives, TokenRefused, Arrives, Around, Moves, settings, database, PoolInv
<1>4. ASSUME NEW p \in Processes, NEW r \in Requests, NEW n \in 0..MaxSessions, TokenAccepted(r, p, n)
      PROVE  Ranges'
  BY <1>4 DEF TokenAccepted, Arrives, Around, Moves, settings, database, PoolInv
<1>5. CASE Switches \/ UNCHANGED vars
  BY <1>5 DEF Switches, vars, settings, database, time, requests
<1>6. CASE Ticks
  BY <1>6 DEF Ticks, settings, database, requests
<1> QED
  BY <1>1, <1>2, <1>3, <1>4, <1>5, <1>6, RequestKeepsRanges DEF Next

(* Every variable keeps its type; in particular no pool goes below zero or *)
(* above its size.                                                         *)
THEOREM AccessTypes == Spec => []TypeOK
<1>1. Init => Ranges
  BY ConstantsOK DEF Init, Ranges, ConstantsOK
<1>2. SeedInv /\ PoolInv /\ Ranges => TypeOK
  <2> SUFFICES ASSUME SeedInv, PoolInv, Ranges
               PROVE  TypeOK
    OBVIOUS
  <2>1. \A p \in Processes : free[p] <= PoolSize
    <3>1. ASSUME NEW p \in Processes
          PROVE  free[p] <= PoolSize
      <4>1. In(p, One) \in Nat /\ In(p, Two) \in Nat
        BY InIsCount
      <4>2. free[p] + (In(p, One) + 2 * In(p, Two)) = PoolSize /\ free[p] \in Int
        BY DEF PoolInv, Held
      <4> QED  BY <4>1, <4>2
    <3> QED  BY <3>1
  <2>2. free \in [Processes -> 0..PoolSize]
    BY <2>1, ConstantsOK DEF Ranges, ConstantsOK
  <2> QED  BY <2>2 DEF SeedInv, PoolInv, Ranges, States, TypeOK
<1> QED
  BY <1>1, <1>2, RangesInductive, PoolInvariant, SeedInvariant, PTL DEF Spec
=============================================================================
