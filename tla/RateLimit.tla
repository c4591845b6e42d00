------------------------------ MODULE RateLimit ------------------------------
(***************************************************************************)
(* rateLimit.ts and its hook in server.ts: fixed windows per caller, kept  *)
(* by each API instance in memory, or in one Redis for all of them.        *)
(* A window is the ticks it still has; counts are followed to one past     *)
(* the limit.                                                              *)
(***************************************************************************)
EXTENDS Integers, FiniteSetsExt

CONSTANTS
  Instances,        \* API processes
  Callers,          \* what identifyCaller() tells apart: a key, an org, an IP
  Authenticated,    \* the callers of the authed limiter
  AuthMax, AnonMax, \* the limits of the two limiters
  Window,           \* windowMs, in ticks
  MaxRestarts       \* bound: how many instances are restarted

LimiterAssumption ==
  /\ Authenticated \subseteq Callers /\ IsFiniteSet(Instances)
  /\ {AuthMax, AnonMax, Window} \subseteq Nat \ {0} /\ MaxRestarts \in Nat

VARIABLES
  shared,           \* whether there is a REDIS_URL
  bucket,           \* per place and caller: the hits and what is left of the window
  restarts,
  \* history variable
  passed            \* the requests let through, per place, caller and age

limiterVars == <<shared, bucket, restarts, passed>>

Places == IF shared THEN {"redis"} ELSE Instances
PlaceOf(i) == IF shared THEN "redis" ELSE i
MaxOf(c) == IF c \in Authenticated THEN AuthMax ELSE AnonMax
NoBucket == [count |-> 0, left |-> 0]

Init ==
  /\ shared \in BOOLEAN
  /\ bucket = [p \in Places |-> [c \in Callers |-> NoBucket]]
  /\ restarts = 0
  /\ passed = [p \in Places |-> [c \in Callers |-> [a \in 1 .. Window |-> 0]]]

(* The requests of a caller let through at a place within the last window. *)
Recent(p, c) == SumFunction(passed[p][c])

-----------------------------------------------------------------------------
(* A faulty Hit: an expired bucket gets a new window but keeps its count.  *)
HitKeepingCount(b, max) ==
  [count |-> IF b.count > max THEN b.count ELSE b.count + 1,
   left |-> IF b.left = 0 THEN Window ELSE b.left]

(* The bucket after one more hit; an expired one, or none, starts anew.    *)
Hit(b, max) ==
  IF b.left = 0
  THEN [count |-> 1, left |-> Window]
  ELSE [b EXCEPT !.count = IF @ > max THEN @ ELSE @ + 1]

(* A faulty Admitted: one hit too many.                                    *)
OneMore(b, max) == b.count <= max + 1

Admitted(b, max) == b.count <= max

(* The onRequest hook of a /v1/ request that is not a webhook: check().    *)
(* In Redis it is RL_SCRIPT, one atomic evaluation.                        *)
Check(i, c) ==
  LET p == PlaceOf(i)
      b == Hit(bucket[p][c], MaxOf(c))
  IN /\ bucket' = [bucket EXCEPT ![p][c] = b]
     /\ \/ /\ Admitted(b, MaxOf(c))
           /\ passed' = [passed EXCEPT ![p][c][1] = @ + 1]
        \/ /\ ~Admitted(b, MaxOf(c))
           /\ UNCHANGED passed
     /\ UNCHANGED <<shared, restarts>>

(* sweep(), and Redis dropping expired keys.                               *)
Sweep(p) ==
  /\ bucket' = [bucket EXCEPT ![p] = [c \in Callers |-> IF @[c].left = 0 THEN NoBucket ELSE @[c]]]
  /\ UNCHANGED <<shared, restarts, passed>>

(* A restarted instance forgets what it keeps in memory.                   *)
Restart(i) ==
  /\ restarts < MaxRestarts
  /\ restarts' = restarts + 1
  /\ bucket' = IF shared THEN bucket ELSE [bucket EXCEPT ![i] = [c \in Callers |-> NoBucket]]
  /\ UNCHANGED <<shared, passed>>

(* External: the clock.                                                    *)
Tick ==
  /\ bucket' = [p \in Places |-> [c \in Callers |->
                  [bucket[p][c] EXCEPT !.left = IF @ > 0 THEN @ - 1 ELSE 0]]]
  /\ passed' = [p \in Places |-> [c \in Callers |->
                  [a \in 1 .. Window |-> IF a = 1 THEN 0 ELSE passed[p][c][a - 1]]]]
  /\ UNCHANGED <<shared, restarts>>

Next ==
  \/ \E i \in Instances : Restart(i) \/ \E c \in Callers : Check(i, c)
  \/ \E p \in Places : Sweep(p)
  \/ Tick

Spec == Init /\ [][Next]_limiterVars

-----------------------------------------------------------------------------
(* Within any stretch of one window's length a caller gets through less    *)
(* than twice its limit at each place that counts, and one limit more for  *)
(* each restart: never more, however its requests fall about a boundary    *)
(* (rateLimit.ts:29, server.ts:104).                                       *)
SlidingBound ==
  \A c \in Callers :
    SumFunction([p \in Places |-> Recent(p, c)])
      <= Cardinality(Places) * (2 * MaxOf(c) - 1) + (IF shared THEN 0 ELSE restarts * MaxOf(c))

(* A caller is told 429 only by a place that let its whole limit through   *)
(* within the last window (rateLimit.ts:35).                               *)
RefusedForCause ==
  \A p \in Places, c \in Callers :
    bucket[p][c].left > 0 /\ bucket[p][c].count >= MaxOf(c) => Recent(p, c) >= MaxOf(c)

(* What gets through, and what does not.                                   *)
LimiterHonest == SlidingBound /\ RefusedForCause
=============================================================================
