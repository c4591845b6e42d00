---------------------------- MODULE MCOperations ----------------------------
(***************************************************************************)
(* The components of Operations share no state, so each is explored on its *)
(* own: `part' says which of them, in which of its settings, a behaviour   *)
(* is of, and the others stay as they were initialised.  A part may leave  *)
(* some of the clients, processes, events and operators out.               *)
(***************************************************************************)
EXTENDS Operations, TLC

CONSTANTS c1, c2, b1, b2, b3, s1, s2, s3, e1, e2, o1, o2, none

VARIABLE part

Changed == <<"a", "edited b">>
Shipped ==
  (b1 :> <<"a", "b">>) @@ (b2 :> <<"a", "b", "c">>) @@ (b3 :> Changed) @@
  (s1 :> <<"a", "b">>) @@ (s2 :> <<"a", "b", "c">>) @@ (s3 :> Changed)

ASSUME OperationsAssumed == OperationsAssumption

limiterVars == <<shared, bucket, restarts, passed>>
migrationVars == <<made, recorded, lock, process, faults, executed, overlapped, clashed>>
deliveryVars ==
  <<kind, job, line, started, phase, letters, operator, throws, losses, crashes, handled, failed, excused>>
allVars == <<part, breakerVars, limiterVars, migrationVars, deliveryVars>>

InitAll ==
  /\ part \in {"breaker", "limiter in memory", "limiter in redis", "boots", "scripts",
              "events in process", "events in memory", "events in redis"}
  /\ Init /\ Limiter!Init /\ Runs!Init /\ Bus!Init
  /\ shared <=> part = "limiter in redis"
  /\ kind = CASE part = "events in memory" -> "memory"
              [] part = "events in redis" -> "redis"
              [] OTHER -> "process"

OfBreaker(A) ==
  part = "breaker" /\ A /\ UNCHANGED <<part, limiterVars, migrationVars, deliveryVars>>
OfLimiter(p, A) ==
  part = p /\ A /\ UNCHANGED <<part, breakerVars, migrationVars, deliveryVars>>
OfMigrations(p, A) ==
  part = p /\ A /\ UNCHANGED <<part, breakerVars, limiterVars, deliveryVars>>
OfDelivery(p, A) ==
  part = p /\ A /\ UNCHANGED <<part, breakerVars, limiterVars, migrationVars>>

BreakerNext == OfBreaker(Next)

(* In memory one client at two instances, in Redis two at one place.       *)
Hits(p, clients) ==
  OfLimiter(p, \E i \in Instances, c \in clients : Limiter!Check(i, c))
LimiterNext(p, clients) ==
  \/ Hits(p, clients)
  \/ OfLimiter(p, \E i \in Instances : Limiter!Restart(i))
  \/ OfLimiter(p, \E q \in Limiter!Places : Limiter!Sweep(q))
  \/ OfLimiter(p, Limiter!Tick)
MemoryNext == LimiterNext("limiter in memory", {c1})
RedisNext == LimiterNext("limiter in redis", {c1, c2})

Migrating(p) == Runs!Start(p) \/ Runs!Lock(p) \/ Runs!Step(p) \/ Runs!Crash(p)
BootsNext == OfMigrations("boots", \E p \in Boots : Migrating(p))
ScriptsNext == OfMigrations("scripts", \E p \in Scripts : Migrating(p)) /\ faults' < 2

(* In process there is one event for two operators, through a queue there  *)
(* are two events for one operator.                                        *)
DeliveryNext(p, events, operators) ==
  \/ OfDelivery(p, \E e \in events : Bus!PublishEvent(e) \/ Bus!EnqueueFails(e))
  \/ OfDelivery(p, \E j \in Bus!Jobs : Bus!Deliver(j))
  \/ OfDelivery(p, \E o \in operators : Bus!Replay(o))
  \/ OfDelivery(p, Bus!Crash \/ Bus!ShutDown \/ Bus!Leaving)
InProcessNext == DeliveryNext("events in process", {e1}, {o1, o2})
InMemoryNext == DeliveryNext("events in memory", {e1, e2}, {o1})
InRedisNext == DeliveryNext("events in redis", {e1, e2}, {o1})

NextAll ==
  \/ BreakerNext \/ MemoryNext \/ RedisNext \/ BootsNext \/ ScriptsNext
  \/ InProcessNext \/ InMemoryNext \/ InRedisNext

(* Requests keep coming and end, and time passes; a boot that is not       *)
(* killed goes on, and Postgres grants a lock in the order it was asked; a *)
(* subscriber ends, and the sink with it, and so does a shutdown.  As a    *)
(* behaviour is of one part, one condition does for an action of each.     *)
Serving(c) == OfBreaker(Admit(c) \/ Succeed(c) \/ Fail(c))
Booting(p) == OfMigrations("boots", Runs!Step(p) \/ Runs!Lock(p))
Delivering(j) ==
  \E p \in {"events in process", "events in memory", "events in redis"} :
    OfDelivery(p, Bus!Deliver(j))
Leaving ==
  \E p \in {"events in process", "events in memory", "events in redis"} :
    OfDelivery(p, Bus!Leaving)

Fairness ==
  /\ WF_allVars(Serving(c1) \/ Delivering(<<e1, 1>>))
  /\ WF_allVars(Serving(c2) \/ Delivering(<<e1, 2>>))
  /\ WF_allVars(OfBreaker(Tick) \/ Delivering(<<e2, 1>>))
  /\ WF_allVars(Delivering(<<e2, 2>>))
  /\ \A p \in {b1, b2, b3} : SF_allVars(Booting(p) \/ Leaving)

SpecAll == InitAll /\ [][NextAll]_allVars /\ Fairness
-----------------------------------------------------------------------------
(* A dependency that stays healthy is served again for good, whatever      *)
(* calls of the bad times still end and in whatever state (resilience.ts). *)
Recovers == <>[](part = "breaker" /\ healthy) => <>[](state = "closed")

(* A boot that waits for the lock gets it and ends, one way or another:    *)
(* no failure of another boot keeps the lock (migrations.ts:141).          *)
BootsEnd ==
  \A p \in {b1, b2, b3} :
    process[p].pc = "waiting" /\ part = "boots" ~> process[p].pc \in {"done", "exited"}

(* What was published is taken to its end, in spite of failures before it, *)
(* except that after a restart Redis waits for the first publication.      *)
EventsSettle ==
  \A j \in {e1, e2} \X (1 .. 2) :
    job[j].pc \in {"waiting", "running", "sinking"}
      ~> job[j].pc = "over" \/ (kind = "redis" /\ ~started)
=============================================================================
