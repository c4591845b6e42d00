----------------------------- MODULE ActionRun -----------------------------
(***************************************************************************)
(* run(), approve() and reject() of packages/core (run.ts) over a durable  *)
(* ledger (ledger.ts, postgres.ts) with the built-in policies (policy.ts). *)
(*                                                                         *)
(* Callers are concurrent invocations of run(), in one process or several; *)
(* reviewers are concurrent invocations of approve() and reject().  One    *)
(* action is what happens between two awaits: a ledger call is atomic, and *)
(* anything may happen between two of them.  All keys share one scope and  *)
(* every run() is given the policy list                                    *)
(*    [denyWhen, requireApprovalWhen, budget, rateLimit].                  *)
(***************************************************************************)
EXTENDS Integers, FiniteSetsExt

CONSTANTS
  Callers,          \* concurrent invocations of run()
  Reviewers,        \* concurrent invocations of approve() / reject()
  Keys,             \* idempotency keys (one per distinct tool, args, scope)
  NoKey,            \* a model value: no key
  DenyKeys,         \* keys on which the predicate of denyWhen holds
  ApprovalKeys,     \* keys on which that of requireApprovalWhen holds
  FlakyKeys,        \* keys whose opts.execute() may throw
  Cost,             \* the cost of each key
  Budget,           \* BudgetOptions.limit, no window
  Limit,            \* RateLimitOptions.limit, over a rolling window
  OnExceed,         \* what both do when exceeded: "deny", "require_approval"
  Retries,          \* RunOptions.retries
  MaxCalls,         \* bound: how often each caller calls run()
  Windows,          \* may the rate limit's window pass?
  Crashes,          \* may a process die, or a ledger call throw?
  RecordFaults      \* may markSucceeded throw, applied or not?

ASSUME ConstantsAssumption ==
  /\ IsFiniteSet(Callers) /\ Callers # {}
  /\ IsFiniteSet(Reviewers)
  /\ IsFiniteSet(Keys) /\ NoKey \notin Keys
  /\ DenyKeys \subseteq Keys /\ ApprovalKeys \subseteq Keys
  /\ FlakyKeys \subseteq Keys
  /\ Cost \in [Keys -> Nat]
  /\ Budget \in Nat /\ Limit \in Nat /\ Retries \in Nat /\ MaxCalls \in Nat
  /\ OnExceed \in {"deny", "require_approval"}
  /\ {Windows, Crashes, RecordFaults} \subseteq BOOLEAN

VARIABLES
  row,              \* the status of the ledger row of each key
  aged,             \* keys whose row was created before the window
  call,             \* the locals of each caller's run()
  left,             \* how many more calls each caller makes
  reviewing,        \* the key whose row a reviewer has read and will write
  \* history variables
  done,             \* how often the work of each key completed
  told,             \* keys for which some run() returned a result
  cleared           \* keys some human has approved

vars == <<row, aged, call, left, reviewing, done, told, cleared>>
ledger == <<row, aged>>
history == <<done, told, cleared>>

(* ActionStatus, with "none" for a key that has no row.                    *)
Status == {"none", "pending", "running", "succeeded", "failed",
           "awaiting_approval", "approved", "rejected", "denied"}

(* A faulty NonCounting: work that is done does not count.                 *)
UnfinishedCounts == {"none", "succeeded", "failed", "denied", "rejected"}

NonCounting == {"none", "failed", "denied", "rejected"}

Verdicts == {"allow", "require_approval", "deny"}

(* Where a run() is: at each await, named for the call it is about to make.*)
Places == {"idle", "get", "policy", "rateLimit", "claim", "reread", "deny",
           "park", "start", "perform", "record", "fail"}

Idle == [pc |-> "idle", key |-> NoKey, existing |-> FALSE,
         verdict |-> "allow", attempt |-> 0]

Init ==
  /\ row = [k \in Keys |-> "none"]
  /\ aged = {}
  /\ call = [c \in Callers |-> Idle]
  /\ left = [c \in Callers |-> MaxCalls]
  /\ reviewing = [r \in Reviewers |-> NoKey]
  /\ done = [k \in Keys |-> 0]
  /\ told = {} /\ cleared = {}

-----------------------------------------------------------------------------
(* Small steps of a caller.                                                *)

At(c, place) == call[c].pc = place
Goto(c, place) == call' = [call EXCEPT ![c].pc = place]
Return(c) == call' = [call EXCEPT ![c] = Idle]
SetRow(k, status) == row' = [row EXCEPT ![k] = status]

(* run() returns the stored, or its own, result.                           *)
ReturnResult(c) ==
  /\ Return(c)
  /\ told' = told \cup {call[c].key}
  /\ UNCHANGED <<done, cleared>>

(* Where a decided call goes on: markDenied, markAwaitingApproval, execute.*)
Sequel(verdict) ==
  CASE verdict = "deny" -> "deny"
    [] verdict = "require_approval" -> "park"
    [] verdict = "allow" -> "start"

(* A faulty Caught: one attempt too many.                                  *)
CaughtOnceMore(c) ==
  IF call[c].attempt <= Retries
  THEN call' = [call EXCEPT ![c] = [@ EXCEPT !.pc = "start",
                                               !.attempt = call[c].attempt + 1]]
  ELSE Goto(c, "fail")

(* The catch block of execute(): the next attempt, or markFailed.          *)
Caught(c) ==
  IF call[c].attempt < Retries
  THEN call' = [call EXCEPT ![c] = [@ EXCEPT !.pc = "start",
                                               !.attempt = call[c].attempt + 1]]
  ELSE Goto(c, "fail")

-----------------------------------------------------------------------------
(* The policies.                                                           *)

Counting == {k \in Keys : row[k] \notin NonCounting}

TotalCost(ks) == SumFunctionOnSet(Cost, ks)

(* A faulty BudgetVerdict: what is spent already is forgotten.             *)
OwnCostVerdict(k) == IF Cost[k] > Budget THEN OnExceed ELSE "allow"

BudgetVerdict(k) ==
  IF TotalCost(Counting) + Cost[k] > Budget THEN OnExceed ELSE "allow"

RateVerdict == IF Cardinality(Counting \ aged) >= Limit THEN OnExceed ELSE "allow"

PredicateVerdict(k) ==
  CASE k \in DenyKeys -> "deny"
    [] k \in ApprovalKeys \ DenyKeys -> "require_approval"
    [] OTHER -> "allow"

(* A faulty Stricter: the last policy wins.                                *)
Later(v, w) == w

(* Most restrictive wins.                                                  *)
Stricter(v, w) ==
  CASE "deny" \in {v, w} -> "deny"
    [] "require_approval" \in {v, w} /\ "deny" \notin {v, w} -> "require_approval"
    [] OTHER -> "allow"

(* All policies are evaluated: claim the key, unless it has a row already. *)
Decided(c, v) ==
  LET next == IF call[c].existing THEN Sequel(v) ELSE "claim"
  IN call' = [call EXCEPT ![c] = [@ EXCEPT !.verdict = v, !.pc = next]]

-----------------------------------------------------------------------------
(* The steps of run().                                                     *)

Call(c, k) ==
  /\ At(c, "idle") /\ left[c] > 0
  /\ call' = [call EXCEPT ![c] = [@ EXCEPT !.pc = "get", !.key = k]]
  /\ left' = [left EXCEPT ![c] = @ - 1]
  /\ UNCHANGED <<ledger, reviewing, history>>

(* ledger.get and the switch on the status of the row it found.            *)
Get(c) ==
  LET k == call[c].key
  IN /\ At(c, "get")
     /\ \/ /\ row[k] = "succeeded"
           /\ ReturnResult(c)
        \/ /\ row[k] = "approved"
           /\ Goto(c, "start")
           /\ UNCHANGED history
        \/ /\ row[k] \in {"none", "failed"}
           /\ call' = [call EXCEPT ![c] = [@ EXCEPT !.pc = "policy",
                                                   !.existing = row[k] # "none"]]
           /\ UNCHANGED history
        \/ /\ row[k] \in {"pending", "running", "awaiting_approval",
                          "rejected", "denied"}
           /\ Return(c)
           /\ UNCHANGED history
     /\ UNCHANGED <<ledger, left, reviewing>>

(* denyWhen, requireApprovalWhen and budget, which awaits one stats query. *)
EvaluateBudget(c) ==
  LET k == call[c].key
      v == Stricter(PredicateVerdict(k), BudgetVerdict(k))
  IN /\ At(c, "policy")
     /\ IF v = "deny"
        THEN Decided(c, v)
        ELSE call' = [call EXCEPT ![c] = [@ EXCEPT !.pc = "rateLimit", !.verdict = v]]
     /\ UNCHANGED <<ledger, left, reviewing, history>>

(* rateLimit, which awaits another stats query.                            *)
EvaluateRateLimit(c) ==
  /\ At(c, "rateLimit")
  /\ Decided(c, Stricter(call[c].verdict, RateVerdict))
  /\ UNCHANGED <<ledger, left, reviewing, history>>

(* A faulty Claim: it takes the row over, as an upsert would.              *)
ClaimByUpsert(c) ==
  /\ At(c, "claim")
  /\ SetRow(call[c].key, "pending")
  /\ Goto(c, Sequel(call[c].verdict))
  /\ UNCHANGED <<aged, left, reviewing, history>>

(* ledger.insertPending: one atomic insert unless the key has a row.       *)
Claim(c) ==
  LET k == call[c].key
  IN /\ At(c, "claim")
     /\ \/ /\ row[k] = "none"
           /\ SetRow(k, "pending")
           /\ Goto(c, Sequel(call[c].verdict))
        \/ /\ row[k] # "none"
           /\ Goto(c, "reread")
           /\ UNCHANGED row
     /\ UNCHANGED <<aged, left, reviewing, history>>

(* The loser of a claim reads the row that beat it.                        *)
Reread(c) ==
  /\ At(c, "reread")
  /\ \/ /\ row[call[c].key] = "succeeded"
        /\ ReturnResult(c)
     \/ /\ row[call[c].key] # "succeeded"
        /\ Return(c)
        /\ UNCHANGED history
  /\ UNCHANGED <<ledger, left, reviewing>>

MarkDenied(c) ==
  /\ At(c, "deny")
  /\ SetRow(call[c].key, "denied")
  /\ Return(c)
  /\ UNCHANGED <<aged, left, reviewing, history>>

MarkAwaitingApproval(c) ==
  /\ At(c, "park")
  /\ SetRow(call[c].key, "awaiting_approval")
  /\ Return(c)
  /\ UNCHANGED <<aged, left, reviewing, history>>

(* execute(): markRunning, outside the try.                                *)
MarkRunning(c) ==
  /\ At(c, "start")
  /\ SetRow(call[c].key, "running")
  /\ Goto(c, "perform")
  /\ UNCHANGED <<aged, left, reviewing, history>>

(* opts.execute() resolves: the side effect has happened.                  *)
Perform(c) ==
  LET k == call[c].key
  IN /\ At(c, "perform")
     /\ done' = [done EXCEPT ![k] = @ + 1]
     /\ Goto(c, "record")
     /\ UNCHANGED <<ledger, left, reviewing, told, cleared>>

(* opts.execute() throws.                                                  *)
PerformThrows(c) ==
  /\ At(c, "perform")
  /\ call[c].key \in FlakyKeys
  /\ Caught(c)
  /\ UNCHANGED <<ledger, left, reviewing, history>>

MarkSucceeded(c) ==
  /\ At(c, "record")
  /\ SetRow(call[c].key, "succeeded")
  /\ ReturnResult(c)
  /\ UNCHANGED <<aged, left, reviewing>>

(* markSucceeded throws, its update applied or not: it is inside the try.  *)
MarkSucceededThrows(c) ==
  /\ RecordFaults
  /\ At(c, "record")
  /\ \/ UNCHANGED row
     \/ SetRow(call[c].key, "succeeded")
  /\ Caught(c)
  /\ UNCHANGED <<aged, left, reviewing, history>>

(* A faulty MarkFailed: the failure is not written.                        *)
FailureUnwritten(c) ==
  /\ At(c, "fail")
  /\ Return(c)
  /\ UNCHANGED <<ledger, left, reviewing, history>>

MarkFailed(c) ==
  /\ At(c, "fail")
  /\ SetRow(call[c].key, "failed")
  /\ Return(c)
  /\ UNCHANGED <<aged, left, reviewing, history>>

(* The caller's process dies, or its ledger call throws: run() ends here.  *)
Crash(c) ==
  /\ Crashes
  /\ ~At(c, "idle")
  /\ Return(c)
  /\ UNCHANGED <<ledger, left, reviewing, history>>

Step(c) ==
  \/ Get(c) \/ EvaluateBudget(c) \/ EvaluateRateLimit(c) \/ Claim(c) \/ Reread(c)
  \/ MarkDenied(c) \/ MarkAwaitingApproval(c)
  \/ MarkRunning(c) \/ Perform(c) \/ PerformThrows(c)
  \/ MarkSucceeded(c) \/ MarkSucceededThrows(c) \/ MarkFailed(c)

-----------------------------------------------------------------------------
(* The steps of approve() and reject().                                    *)

(* Both read the row first and throw unless it is awaiting approval.       *)
Review(r, k) ==
  /\ reviewing[r] = NoKey
  /\ row[k] = "awaiting_approval"
  /\ reviewing' = [reviewing EXCEPT ![r] = k]
  /\ UNCHANGED <<ledger, call, left, history>>

MarkApproved(r) ==
  /\ reviewing[r] # NoKey
  /\ SetRow(reviewing[r], "approved")
  /\ cleared' = cleared \cup {reviewing[r]}
  /\ reviewing' = [reviewing EXCEPT ![r] = NoKey]
  /\ UNCHANGED <<aged, call, left, done, told>>

MarkRejected(r) ==
  /\ reviewing[r] # NoKey
  /\ SetRow(reviewing[r], "rejected")
  /\ reviewing' = [reviewing EXCEPT ![r] = NoKey]
  /\ UNCHANGED <<aged, call, left, history>>

-----------------------------------------------------------------------------
(* The rolling window passes over every row created so far: stats() with a *)
(* "since" after their createdAt no longer sees them.                      *)
WindowPasses ==
  LET created == {k \in Keys : row[k] # "none"}
  IN /\ Windows
     /\ aged # created
     /\ aged' = created
     /\ UNCHANGED <<row, call, left, reviewing, history>>

Next ==
  \/ \E c \in Callers : \/ \E k \in Keys : Call(c, k)
                        \/ Step(c)
                        \/ Crash(c)
  \/ \E r \in Reviewers : \/ \E k \in Keys : Review(r, k)
                          \/ MarkApproved(r)
                          \/ MarkRejected(r)
  \/ WindowPasses

Spec == Init /\ [][Next]_vars

(* A promise that can continue does: every call that is on its way goes on.*)
Fairness == \A c \in Callers : WF_vars(Step(c))

FairSpec == Spec /\ Fairness

-----------------------------------------------------------------------------
(* Properties.                                                             *)

Calls == [pc : Places, key : Keys \cup {NoKey}, existing : BOOLEAN,
          verdict : Verdicts, attempt : 0 .. Retries]

(* Every variable has its type, a call on its way has a key (run() computes*)
(* it before it awaits anything) and a caller between two calls has none.  *)
TypeOK ==
  /\ row \in [Keys -> Status]
  /\ aged \subseteq Keys
  /\ call \in [Callers -> Calls]
  /\ \A c \in Callers : At(c, "idle") <=> call[c].key = NoKey
  /\ left \in [Callers -> 0 .. MaxCalls]
  /\ reviewing \in [Reviewers -> Keys \cup {NoKey}]
  /\ done \in [Keys -> Nat]
  /\ told \subseteq Keys /\ cleared \subseteq Keys

(* The keys whose row can never be reopened: their work never throws and   *)
(* is always recorded, and nothing asks a human about them.                *)
StableKeys ==
  IF RecordFaults \/ OnExceed = "require_approval"
  THEN {}
  ELSE Keys \ (FlakyKeys \cup ApprovalKeys)

Once == INSTANCE OncePerKey WITH
          Keys <- StableKeys,
          done <- [k \in StableKeys |-> done[k]],
          told <- told \cap StableKeys

(* However many calls race, retry or die, the work of a key that cannot be *)
(* reopened completes at most once, and a result is returned only after it *)
(* did: the atomic insertPending of run.ts:82-95 is enough for that.       *)
OncePerStableKey == Once!Spec

(* The same for every key, as the comment on RunOptions.execute states it  *)
(* (run.ts:33): runs at most once across duplicate calls.                  *)
AtMostOnce == \A k \in Keys : done[k] <= 1

(* The calls that may still do, or are doing, the work of a key.           *)
Executing == {"start", "perform", "record", "fail"}

(* Work that denyWhen forbids never starts, and work that needs approval   *)
(* starts only after a human approved that key; also when the call retries,*)
(* loses its claim, dies, or finds the row failed (run.ts:57-104).         *)
Gate ==
  \A k \in Keys :
    (done[k] > 0 \/ \E c \in Callers : call[c].key = k /\ call[c].pc \in Executing)
      => k \notin DenyKeys /\ (k \in ApprovalKeys => k \in cleared)

(* The rows a limit is meant to bound: work done, under way or waiting for *)
(* a human.                                                                *)
Held == {k \in Keys : row[k] \in {"running", "succeeded", "awaiting_approval", "approved"}}

(* Every policy is evaluated before the key is claimed (run.ts:78-80), so  *)
(* the calls and reviews that are under way at once may each overshoot the *)
(* rate limit by one, and nothing more ever does.                          *)
RateOvershoot ==
  OnExceed = "deny" =>
    Cardinality(Held \ aged)
      <= Limit + Cardinality(Callers) - 1 + Cardinality(Reviewers)

MaxCost == Max({0} \cup {Cost[k] : k \in Keys})

(* The same for the budget: each concurrent call or review may overshoot   *)
(* it by its own cost.                                                     *)
BudgetOvershoot ==
  OnExceed = "deny" =>
    TotalCost(Held)
      <= Budget + MaxCost * (Cardinality(Callers) - 1 + Cardinality(Reviewers))

(* Unless a process dies, no row is left pending or running for ever: each *)
(* way out of run() leaves the row it owns in a status a later call can act*)
(* on.                                                                     *)
Settles ==
  \A k \in Keys : row[k] \in {"pending", "running"} ~> row[k] \notin {"pending", "running"}
=============================================================================
