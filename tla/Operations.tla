----------------------------- MODULE Operations -----------------------------
(***************************************************************************)
(* What goes on behind the requests of the API and beside it: the circuit  *)
(* breaker (the module extended here), the rate limiter, the migrations    *)
(* and the delivery of events.  They share no state: here are their        *)
(* parameters, their variables and what each promises.                     *)
(***************************************************************************)
EXTENDS CircuitBreaker, Integers, Sequences

CONSTANTS
  Instances, Clients, Authenticated, AuthMax, AnonMax, Window, MaxRestarts,   \* RateLimit
  Boots, Scripts, None, List, AllowDrift, Forced, MaxFaults,                  \* Migrations
  Events, Subscribers, Attempts, Operators, MaxJobs, MaxThrows, MaxLosses, MaxCrashes  \* EventDelivery

VARIABLES
  shared, bucket, restarts, passed,                                           \* RateLimit
  made, recorded, lock, process, faults, executed, overlapped, clashed,       \* Migrations
  kind, job, line, started, phase, letters, operator, throws, losses, crashes,
  handled, failed, excused                                                    \* EventDelivery

Limiter == INSTANCE RateLimit WITH Callers <- Clients

Runs == INSTANCE Migrations WITH Force <- Forced

Bus == INSTANCE EventDelivery WITH
  MaxFailures <- MaxThrows, MaxFaults <- MaxLosses, failures <- throws, faults <- losses

OperationsAssumption ==
  /\ BreakerAssumption /\ Limiter!LimiterAssumption
  /\ Runs!MigrationsAssumption /\ Bus!DeliveryAssumption

-----------------------------------------------------------------------------
(* See RateLimit: what gets through in any stretch of a window's length,   *)
(* and a 429 only after the whole limit was let through.                   *)
LimiterHonest == Limiter!LimiterHonest

(* See Migrations: recorded once is committed once, and in order; the lock *)
(* keeps boots out of each other's way, and who serves has its schema.     *)
BootsSafe == Runs!BootsSafe

(* See EventDelivery: no published event is dropped silently, and nobody   *)
(* handles an event again for the failures of others.                      *)
EventsAccounted == Bus!EventsAccounted
=============================================================================
