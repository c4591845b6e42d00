---------------------------- MODULE VercelAdapter ----------------------------
(***************************************************************************)
(* wrapExecute() of the Vercel AI adapter (wrap.ts) over a store of the    *)
(* kind of store.ts: idempotent replay, approval, budget, attempts.  Calls *)
(* run side by side and nothing claims a key; an attempt that times out is *)
(* abandoned and keeps running.  Each store query is an action, and so is  *)
(* its failure, but for the first of a call, which leaves nothing behind.  *)
(***************************************************************************)
EXTENDS Integers, FiniteSetsExt

CONSTANTS
  Calls,            \* calls that may be under way side by side
  Keys,             \* idempotencyKey(tool, args, salt)
  None,
  Setups            \* what options and tools there are: records of the fields below

VercelAssumption ==
  /\ IsFiniteSet(Calls) /\ Calls # {} /\ IsFiniteSet(Keys) /\ Keys # {} /\ None \notin Keys \cup Calls
  /\ \A s \in Setups :
       /\ s.gated \subseteq Keys /\ s.flaky \subseteq Keys /\ s.slow \subseteq Keys /\ s.asked \subseteq Keys
       /\ s.cost \in [Keys -> Nat] /\ {s.maxCalls, s.maxCents, s.invocations, s.mishaps} \subseteq Nat
       /\ s.attempts \in Nat \ {0} /\ s.mode \in {"interrupt", "wait"}

VARIABLES
  setup,            \* the options and tools, which do not change
  action,           \* the action records by key
  approval,         \* the approvals, by id: a key and the call that asked for it
  call,             \* per call: where it is and what it has read
  strays,           \* [key -> attempts abandoned but still running]
  made,             \* calls made
  mishaps,          \* queries that failed and calls that died
  effects,          \* history: [key -> how often its work was done]
  excuses           \* history: [key -> what pays for its work being done once more]

vercelVars == <<setup, action, approval, call, strays, made, mishaps, effects, excuses>>

Gated == setup.gated                  \* keys whose policy requires approval
Flaky == setup.flaky                  \* keys whose fn may throw
Slow == setup.slow                    \* keys whose policy has a timeout, which fn may outlast
Cost == setup.cost                    \* [Keys -> Nat], policy.costCents
BudgetCalls == setup.maxCalls         \* budget.maxCalls
BudgetCents == setup.maxCents         \* budget.maxCostCents
Attempts == setup.attempts            \* maxAttempts
Mode == setup.mode                    \* approvalMode
Asked == setup.asked                  \* bound: keys that are called
MaxInvocations == setup.invocations   \* bound: calls made
MaxMishaps == setup.mishaps           \* bound: queries that fail and calls that die

Ids == Keys \X Calls
NoRecord == [status |-> "none", attempts |-> 0, approval |-> None]
Idle == [pc |-> "idle", key |-> None, prior |-> NoRecord, attempt |-> 0, waits |-> None,
         patch |-> NoRecord, then |-> "idle"]

Init ==
  /\ setup \in Setups
  /\ action = [k \in Keys |-> NoRecord]
  /\ approval = [i \in Ids |-> "none"]
  /\ call = [c \in Calls |-> Idle]
  /\ strays = [k \in Keys |-> 0] /\ made = 0 /\ mishaps = 0
  /\ effects = [k \in Keys |-> 0] /\ excuses = [k \in Keys |-> 0]

-----------------------------------------------------------------------------
At(c, pc) == call[c].pc = pc
Goto(c, pc) == call' = [call EXCEPT ![c].pc = pc]
Return(c) == call' = [call EXCEPT ![c] = Idle]
Busy(k) == {c \in Calls : call[c].key = k}

(* persist(): what is recorded is read,                                    *)
Persist(c, patch, then) ==
  call' = [call EXCEPT ![c].pc = "persist", ![c].patch = patch, ![c].then = then]

(* A patch may leave the attempts or the approval as they are.             *)
Patched(prior, patch) ==
  [status |-> patch.status,
   attempts |-> IF patch.attempts = 0 THEN prior.attempts ELSE patch.attempts,
   approval |-> IF patch.approval = None THEN prior.approval ELSE patch.approval]
Marked(status) == [NoRecord EXCEPT !.status = status]
Tried(status, n) == [Marked(status) EXCEPT !.attempts = n]

(* A faulty Put: a record that is not new is left as it is.                *)
PutIfNew(c) ==
  /\ At(c, "put")
  /\ action' = IF call[c].prior = NoRecord THEN [action EXCEPT ![call[c].key] = Patched(call[c].prior, call[c].patch)]
                                           ELSE action
  /\ IF call[c].then = "idle" THEN Return(c) ELSE Goto(c, call[c].then)
  /\ UNCHANGED <<approval, strays, made, mishaps, effects, excuses>>

ReadBack(c) ==
  /\ At(c, "persist")
  /\ call' = [call EXCEPT ![c].pc = "put", ![c].prior = action[call[c].key]]
  /\ UNCHANGED <<action, approval, strays, made, mishaps, effects, excuses>>

(* and written with the patch, whatever came between.                      *)
Put(c) ==
  /\ At(c, "put")
  /\ action' = [action EXCEPT ![call[c].key] = Patched(call[c].prior, call[c].patch)]
  /\ IF call[c].then = "idle" THEN Return(c) ELSE Goto(c, call[c].then)
  /\ UNCHANGED <<approval, strays, made, mishaps, effects, excuses>>

-----------------------------------------------------------------------------
(* What a call does after it has read its record: the result is replayed,  *)
(* a rejection is thrown, an approval is asked for, or it goes on.         *)
Admission(prior, k) ==
  IF prior.status \in {"succeeded", "rejected"} THEN "idle"
  ELSE IF k \in Gated THEN "gate" ELSE "budget"

Invoke(c, k) ==
  /\ At(c, "idle") /\ k \in Asked /\ made < MaxInvocations
  /\ made' = made + 1
  /\ LET pc == Admission(action[k], k)
     IN /\ call' = [call EXCEPT ![c] = IF pc = "idle" THEN Idle
                                       ELSE [Idle EXCEPT !.pc = pc, !.key = k, !.prior = action[k]]]
        /\ excuses' = [excuses EXCEPT ![k] = @ + IF pc # "idle" /\ Busy(k) # {} THEN 1 ELSE 0]
  /\ UNCHANGED <<action, approval, strays, mishaps, effects>>

(* ensureApproval(): a decision is honoured, a pending one is asked for    *)
(* again, and a call that finds none makes a new approval of its own.      *)
AskedFor(c) == IF call[c].prior.approval # None THEN call[c].prior.approval ELSE <<call[c].key, c>>
Answered(c) == call[c].prior.approval # None /\ approval[AskedFor(c)] \in {"approved", "rejected"}

Decided(c, decision) ==
  IF decision = "approved" THEN Goto(c, "budget")
                           ELSE Persist(c, Marked("rejected"), "idle")

EnsureApproval(c) ==
  LET id == AskedFor(c)
  IN /\ At(c, "gate")
     /\ IF Answered(c)
        THEN Decided(c, approval[id]) /\ UNCHANGED approval
        ELSE /\ approval' = [approval EXCEPT ![id] = "pending"]
             /\ call' = [call EXCEPT ![c].pc = "persist", ![c].waits = id,
                           ![c].patch = [Marked("awaiting_approval") EXCEPT !.approval = id],
                           ![c].then = IF Mode = "wait" THEN "wait" ELSE "idle"]
     /\ UNCHANGED <<action, strays, made, mishaps, effects, excuses>>

(* pollApproval().                                                         *)
Wait(c) ==
  /\ At(c, "wait") /\ approval[call[c].waits] # "pending"
  /\ Decided(c, approval[call[c].waits])
  /\ UNCHANGED <<action, approval, strays, made, mishaps, effects, excuses>>

(* waitForApproval() of the host throws, say because it waited long enough.*)
WaitFails(c) ==
  /\ At(c, "wait")
  /\ Return(c)
  /\ UNCHANGED <<action, approval, strays, made, mishaps, effects, excuses>>

(* resolveApproval(), which may also change an earlier decision.           *)
Resolve(id, decision) ==
  /\ approval[id] \notin {"none", decision}
  /\ approval' = [approval EXCEPT ![id] = decision]
  /\ UNCHANGED <<action, call, strays, made, mishaps, effects, excuses>>

-----------------------------------------------------------------------------
(* stats(): succeeded actions count, whatever is under way.                *)
Succeeded == {k \in Keys : action[k].status = "succeeded"}

Spent == SumFunctionOnSet(Cost, Succeeded)

(* A faulty WithinBudget: one call more, or what it costs is looked at     *)
(* when it is spent.                                                       *)
WithinBudgetAndOne(k) == Cardinality(Succeeded) <= BudgetCalls /\ Spent + Cost[k] <= BudgetCents
WithinBudgetSpent(k) == Cardinality(Succeeded) < BudgetCalls /\ Spent <= BudgetCents

WithinBudget(k) == Cardinality(Succeeded) < BudgetCalls /\ Spent + Cost[k] <= BudgetCents

CheckBudget(c) ==
  /\ At(c, "budget")
  /\ IF WithinBudget(call[c].key) THEN Goto(c, "attempt") ELSE Return(c)
  /\ UNCHANGED <<action, approval, strays, made, mishaps, effects, excuses>>

(* The loop: an attempt is recorded as running and fn is called.           *)
Attempt(c) ==
  /\ At(c, "attempt")
  /\ call' = [call EXCEPT ![c].pc = "persist", ![c].attempt = @ + 1, ![c].then = "fn",
                          ![c].patch = Tried("running", call[c].attempt + 1)]
  /\ UNCHANGED <<action, approval, strays, made, mishaps, effects, excuses>>

FnReturns(c) ==
  /\ At(c, "fn")
  /\ effects' = [effects EXCEPT ![call[c].key] = @ + 1]
  /\ Persist(c, Tried("succeeded", call[c].attempt), "idle")
  /\ UNCHANGED <<action, approval, strays, made, mishaps, excuses>>

(* What was caught: the next attempt, or the last one failed.              *)
Caught(c, retryable) ==
  IF retryable /\ call[c].attempt < Attempts
  THEN Goto(c, "attempt")
  ELSE Persist(c, Tried("failed", call[c].attempt), "idle")

FnThrows(c) ==
  /\ At(c, "fn") /\ call[c].key \in Flaky
  /\ \E retryable \in BOOLEAN : Caught(c, retryable)
  /\ UNCHANGED <<action, approval, strays, made, mishaps, effects, excuses>>

(* withTimeout(): the attempt is given up and fn goes on by itself,        *)
TimesOut(c) ==
  LET k == call[c].key
  IN /\ At(c, "fn") /\ k \in Slow
     /\ strays' = [strays EXCEPT ![k] = @ + 1] /\ excuses' = [excuses EXCEPT ![k] = @ + 1]
     /\ Caught(c, TRUE)
     /\ UNCHANGED <<action, approval, made, mishaps, effects>>

(* and nobody learns how it ended.                                         *)
StrayEnds(k) ==
  /\ strays[k] > 0 /\ strays' = [strays EXCEPT ![k] = @ - 1]
  /\ effects' \in {effects, [effects EXCEPT ![k] = @ + 1]}
  /\ UNCHANGED <<action, approval, call, made, mishaps, excuses>>

-----------------------------------------------------------------------------
Mishap == mishaps < MaxMishaps /\ mishaps' = mishaps + 1
Excuse(k) == excuses' = [excuses EXCEPT ![k] = @ + 1]

Writing(c) == call[c].pc \in {"persist", "put"}
RecordsSuccess(c) == Writing(c) /\ call[c].patch.status = "succeeded"

(* Within the try are both persist() calls of an attempt, the second with  *)
(* the work done.                                                          *)
InTry(c) == RecordsSuccess(c) \/ (Writing(c) /\ call[c].patch.status = "running")

(* A query throws, and what it was to write may have been written: it is   *)
(* caught within the try, and else the caller has it.                      *)
QueryFails(c) ==
  LET r == call[c]
  IN /\ r.pc \in {"gate", "wait", "budget", "persist", "put"} /\ Mishap
     /\ \/ UNCHANGED action
        \/ At(c, "put") /\ action' = [action EXCEPT ![r.key] = Patched(r.prior, r.patch)]
     /\ \/ UNCHANGED approval
        \/ At(c, "gate") /\ ~Answered(c) /\ approval' = [approval EXCEPT ![AskedFor(c)] = "pending"]
     /\ IF InTry(c) THEN \E retryable \in BOOLEAN : Caught(c, retryable) ELSE Return(c)
     /\ IF RecordsSuccess(c) THEN Excuse(r.key) ELSE UNCHANGED excuses
     /\ UNCHANGED <<strays, made, effects>>

(* The process dies.  What fn was at may have been done.                   *)
Die(c) ==
  LET k == call[c].key
  IN /\ ~At(c, "idle") /\ Mishap /\ Return(c)
     /\ strays' = IF At(c, "fn") THEN [strays EXCEPT ![k] = @ + 1] ELSE strays
     /\ IF At(c, "fn") \/ RecordsSuccess(c) THEN Excuse(k) ELSE UNCHANGED excuses
     /\ UNCHANGED <<action, approval, made, effects>>

Step(c) ==
  \/ ReadBack(c) \/ Put(c) \/ EnsureApproval(c) \/ Wait(c) \/ WaitFails(c) \/ CheckBudget(c) \/ Attempt(c)
  \/ FnReturns(c) \/ FnThrows(c) \/ TimesOut(c) \/ QueryFails(c) \/ Die(c)

Next ==
  /\ UNCHANGED setup
  /\ \/ \E c \in Calls : Step(c) \/ \E k \in Keys : Invoke(c, k)
     \/ \E id \in Ids, decision \in {"approved", "rejected"} : Resolve(id, decision)
     \/ \E k \in Keys : StrayEnds(k)

Spec == Init /\ [][Next]_vercelVars
-----------------------------------------------------------------------------
(* Type correctness.                                                       *)
Statuses == {"none", "awaiting_approval", "rejected", "running", "succeeded", "failed"}

TypeOK ==
  /\ setup \in Setups
  /\ \A k \in Keys : /\ action[k].status \in Statuses /\ action[k].attempts \in 0 .. Attempts
                     /\ action[k].approval \in Ids \cup {None}
  /\ approval \in [Ids -> {"none", "pending", "approved", "rejected"}]
  /\ strays \in [Keys -> Nat] /\ effects \in [Keys -> Nat] /\ excuses \in [Keys -> Nat]

(* "Identical (tool, args) calls return the cached result instead of       *)
(* re-running side effects" (README.md:9 of the adapter): but for each     *)
(* call that overlaps another of its key, each attempt that is given up or *)
(* dies in fn, and each success whose record fails or is not lived to see, *)
(* the work may be done once more; and never otherwise, however calls,     *)
(* retries and failures that overwrite each other's records interleave.    *)
EffectsExplained == \A k \in Keys : effects[k] <= 1 + excuses[k]

(* The budget is overshot by no more than the calls that were under way    *)
(* when its last unit was spent: the check and the record of success are   *)
(* store queries apart (wrap.ts:241).                                      *)
Others == Cardinality(Calls) - 1
Dearest == Max({Cost[k] : k \in Keys})

BudgetOvershoot ==
  Cardinality(Succeeded) <= BudgetCalls + Others /\ Spent <= BudgetCents + Others * Dearest

(* What overlapping calls and failures can do at most.                     *)
AdapterBounded == TypeOK /\ EffectsExplained /\ BudgetOvershoot
=============================================================================
