---------------------------- MODULE CloudActions ----------------------------
(***************************************************************************)
(* The action endpoints of apps/api: insertPending() and the mark*()       *)
(* transitions of service.ts over its store (store.ts, pgStore.ts), with   *)
(* the monthly quota of UsageMeter (billing.ts), for one organisation.     *)
(*                                                                         *)
(* Requests interleave between store queries, in one API process or in     *)
(* several.  A usage increment is one atomic query.                        *)
(***************************************************************************)
EXTENDS Integers, FiniteSets, ActionStatus

CONSTANTS
  Requests,         \* senders of requests, each with one in flight
  Keys,             \* idempotency keys of actions
  None,             \* a model value: no row, no key
  Limit,            \* the plan's monthly limit
  Targets,          \* the statuses that mark*() requests ask for
  Months,           \* bound: how many months pass
  Floor, Ceiling,   \* bounds: between -Floor and Ceiling a counter is followed
  MaxCrashes        \* bound: how many requests die, or have a query fail

CloudAssumption ==
  /\ IsFiniteSet(Requests) /\ IsFiniteSet(Keys)
  /\ None \notin Keys \cup Status
  /\ Targets \subseteq Status \ {"pending"}
  /\ {Limit, Floor, Ceiling, MaxCrashes} \subseteq Nat /\ Months \in Nat \ {0}

VARIABLES
  row,              \* the status of each action, or None
  usage,            \* the usage counter of each month
  month,            \* the current month
  overage,          \* does the plan allow more?
  request,          \* the locals of each request in flight
  crashes,
  \* history variables
  lapsed,           \* the actions that have been failed, denied or rejected
  slotless          \* the actions whose insertion took effect though its query failed

vars == <<row, usage, month, overage, request, crashes, lapsed, slotless>>

(* Where a request is: at each await, named for what it is about to do.    *)
Places == {"idle", "reserve", "rollback", "insert", "release", "read", "apply"}

Idle == [pc |-> "idle", key |-> None, target |-> None, from |-> None, month |-> 1]

Init ==
  /\ row = [k \in Keys |-> None]
  /\ usage = [m \in 1 .. Months |-> 0]
  /\ month = 1
  /\ overage \in BOOLEAN
  /\ request = [q \in Requests |-> Idle]
  /\ crashes = 0
  /\ lapsed = {} /\ slotless = {}

-----------------------------------------------------------------------------
Counting == {k \in Keys : row[k] \notin NonCounting \cup {None}}
Holding == Counting \ slotless

At(q, place) == request[q].pc = place
Become(q, locals) == request' = [request EXCEPT ![q] = locals]
Goto(q, place) == Become(q, [request[q] EXCEPT !.pc = place])
Return(q) == Become(q, Idle)
Increment(m, by) == usage' = [usage EXCEPT ![m] = @ + by]

-----------------------------------------------------------------------------
(* POST /v1/actions and the mark*() endpoints.                             *)
Post(q, k) ==
  /\ At(q, "idle")
  /\ Become(q, [Idle EXCEPT !.pc = "reserve", !.key = k])
  /\ UNCHANGED <<row, usage, month, overage, crashes, lapsed, slotless>>

Mark(q, k, to) ==
  /\ At(q, "idle")
  /\ Become(q, [Idle EXCEPT !.pc = "read", !.key = k, !.target = to])
  /\ UNCHANGED <<row, usage, month, overage, crashes, lapsed, slotless>>

(* A faulty Over: one slot too many.                                       *)
OverByOne(m) == ~overage /\ usage[m] > Limit

Over(m) == ~overage /\ usage[m] + 1 > Limit

(* UsageMeter.reserve: one atomic increment, which insertPending respects  *)
(* and reconcileUsage (target # None) does not: it is over either way.     *)
Reserve(q) ==
  /\ At(q, "reserve") /\ usage[month] < Ceiling
  /\ Increment(month, 1)
  /\ \/ /\ Over(month)
        /\ Become(q, [request[q] EXCEPT !.pc = "rollback", !.month = month])
     \/ /\ ~Over(month)
        /\ IF request[q].target = None
           THEN Become(q, [request[q] EXCEPT !.pc = "insert", !.month = month])
           ELSE Return(q)
  /\ UNCHANGED <<row, month, overage, crashes, lapsed, slotless>>

(* A faulty Rollback: the reservation stays.                               *)
NoRollback(q) ==
  /\ At(q, "rollback")
  /\ Return(q)
  /\ UNCHANGED <<row, usage, month, overage, crashes, lapsed, slotless>>

(* The reservation was over the limit: 402, in insertPending.              *)
Rollback(q) ==
  /\ At(q, "rollback")
  /\ Increment(request[q].month, -1)
  /\ Return(q)
  /\ UNCHANGED <<row, month, overage, crashes, lapsed, slotless>>

(* A faulty Insert: a duplicate keeps its slot.                            *)
InsertKeepingSlot(q) ==
  LET k == request[q].key
  IN /\ At(q, "insert")
     /\ row' = [row EXCEPT ![k] = IF @ = None THEN "pending" ELSE @]
     /\ Return(q)
     /\ UNCHANGED <<usage, month, overage, crashes, lapsed, slotless>>

(* A faulty Insert: the slot is refunded in any case.                      *)
InsertAndRelease(q) ==
  LET k == request[q].key
  IN /\ At(q, "insert")
     /\ row' = [row EXCEPT ![k] = IF @ = None THEN "pending" ELSE @]
     /\ Goto(q, "release")
     /\ UNCHANGED <<usage, month, overage, crashes, lapsed, slotless>>

(* store.insertPending: one atomic insert unless the key has a row.        *)
Insert(q) ==
  LET k == request[q].key
  IN /\ At(q, "insert")
     /\ \/ /\ row[k] = None
           /\ row' = [row EXCEPT ![k] = "pending"]
           /\ Return(q)
        \/ /\ row[k] # None
           /\ Goto(q, "release")
           /\ UNCHANGED row
     /\ UNCHANGED <<usage, month, overage, crashes, lapsed, slotless>>

(* The insert's query fails, unapplied or with only its answer lost: the   *)
(* slot is refunded in either case (service.ts:326).                       *)
InsertFails(q) ==
  LET k == request[q].key
  IN /\ At(q, "insert") /\ crashes < MaxCrashes
     /\ crashes' = crashes + 1
     /\ Goto(q, "release")
     /\ \/ UNCHANGED <<row, slotless>>
        \/ /\ row[k] = None
           /\ row' = [row EXCEPT ![k] = "pending"]
           /\ slotless' = slotless \cup {k}
     /\ UNCHANGED <<usage, month, overage, lapsed>>

(* UsageMeter.release refunds to the month it is by now.                   *)
Release(q) ==
  /\ At(q, "release")
  /\ usage[month] > -Floor
  /\ Increment(month, -1)
  /\ Return(q)
  /\ UNCHANGED <<row, month, overage, crashes, lapsed, slotless>>

(* A faulty Permitted: there is no assertTransition.                       *)
AnyTransition(from, to) == TRUE

(* assertTransition.                                                       *)
Permitted(from, to) == to \in Allowed[from]

(* transition(): getAction and assertTransition ...                        *)
Read(q) ==
  LET k == request[q].key
  IN /\ At(q, "read")
     /\ IF row[k] # None /\ Permitted(row[k], request[q].target)
        THEN Become(q, [request[q] EXCEPT !.pc = "apply", !.from = row[k]])
        ELSE Return(q)
     /\ UNCHANGED <<row, usage, month, overage, crashes, lapsed, slotless>>

(* ... applyTransition, whatever the status is by now, and reconcileUsage  *)
(* by the status that was read.                                            *)
Apply(q) ==
  LET from == request[q].from
      to == request[q].target
      k == request[q].key
  IN /\ At(q, "apply")
     /\ row' = [row EXCEPT ![k] = to]
     /\ lapsed' = IF to \in NonCounting THEN lapsed \cup {k} ELSE lapsed
     /\ \/ from \notin NonCounting /\ to \in NonCounting /\ Goto(q, "release")
        \/ from \in NonCounting /\ to \notin NonCounting /\ Goto(q, "reserve")
        \/ (from \in NonCounting <=> to \in NonCounting) /\ Return(q)
     /\ UNCHANGED <<usage, month, overage, crashes, slotless>>

(* The process of a request dies, or another query of it fails.            *)
Crash(q) ==
  /\ ~At(q, "idle") /\ crashes < MaxCrashes
  /\ crashes' = crashes + 1
  /\ Return(q)
  /\ UNCHANGED <<row, usage, month, overage, lapsed, slotless>>

(* currentPeriod() changes.                                                *)
NextMonth ==
  /\ month < Months
  /\ month' = month + 1
  /\ UNCHANGED <<row, usage, overage, request, crashes, lapsed, slotless>>

Next ==
  \/ \E q \in Requests :
       \/ \E k \in Keys : Post(q, k) \/ \E to \in Targets : Mark(q, k, to)
       \/ Reserve(q) \/ Rollback(q) \/ Insert(q) \/ Release(q)
       \/ Read(q) \/ Apply(q)
       \/ InsertFails(q) \/ Crash(q)
  \/ NextMonth

Spec == Init /\ [][Next]_vars

-----------------------------------------------------------------------------
(* Properties.                                                             *)

(* Every variable has its type, and a request knows what it is about.      *)
TypeOK ==
  /\ row \in [Keys -> Status \cup {None}]
  /\ usage \in [1 .. Months -> Int]
  /\ month \in 1 .. Months /\ overage \in BOOLEAN
  /\ request \in [Requests -> [pc : Places, key : Keys \cup {None},
                               target : Targets \cup {None},
                               from : Status \cup {None}, month : 1 .. Months]]
  /\ \A q \in Requests :
       /\ request[q].key = None <=> At(q, "idle")
       /\ At(q, "apply") => request[q].target \in Allowed[request[q].from]
  /\ crashes \in 0 .. MaxCrashes
  /\ lapsed \subseteq Keys /\ slotless \subseteq Keys

InMonth(m, place) == {q \in Requests : At(q, place) /\ request[q].month = m}

(* The counter is over the limit only by reservations that are about to be *)
(* rolled back, or whose process died before that: concurrent inserts take *)
(* distinct slots (service.ts:309-311).                                    *)
UsageBounded ==
  overage \/ \A m \in 1 .. Months :
    usage[m] <= Limit + Cardinality(InMonth(m, "rollback")) + crashes

(* No action has been failed, denied or rejected, and no month has ended.  *)
(* After that the counter is not kept exactly: a retry reserves and ignores*)
(* the verdict (service.ts:433), two racing failures both refund, and a    *)
(* refund goes to the month it is by then (billing.ts:156).                *)
Steady == lapsed = {} /\ month = 1

(* Every action that counts holds a slot from its insert on, also when     *)
(* requests die: it is reserved before the insert, and refunded only when  *)
(* there was none (service.ts:309-333).  All but those whose insert took   *)
(* effect and whose answer was lost: each costs a query that failed.       *)
UsageCovers ==
  /\ Steady =>
       Cardinality(Holding)
         + Cardinality({q \in Requests : request[q].pc \in {"rollback", "insert", "release"}})
       <= usage[1]
  /\ (\A k \in slotless : row[k] # None) /\ Cardinality(slotless) <= crashes

(* Concurrent inserts each take a distinct slot, so a month's actions are  *)
(* within the limit, but for those without a slot (service.ts:309-311).    *)
NoOvershoot == Steady /\ ~overage => Cardinality(Holding) <= Limit

(* When no request is in flight, and none has died, the counter is what the*)
(* actions consume: "duplicates must never consume quota"                  *)
(* (service.ts:330-332).                                                   *)
UsageExact ==
  Steady /\ crashes = 0 /\ (\A q \in Requests : At(q, "idle")) =>
    usage[1] = Cardinality(Counting)

(* What the counter and the actions it counts have to do with each other.  *)
UsageAccounted == TypeOK /\ UsageBounded /\ UsageCovers /\ UsageExact /\ NoOvershoot
=============================================================================
