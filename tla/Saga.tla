-------------------------------- MODULE Saga --------------------------------
(***************************************************************************)
(* Saga.run() / resume() of packages/core (saga.ts) for one sagaId, over a *)
(* saga store (saga-store.ts, postgres-saga.ts) and the durable ledger that*)
(* every step and every undo goes through (run.ts).                        *)
(*                                                                         *)
(* A driver makes one call of run() after another; several drivers, in one *)
(* process or several, interleave at every await.  The run() of a step is  *)
(* ActionRun with what a saga can see of it: no denying policy, no limits, *)
(* the attempts of one execute() collapsed into the last, and "pending" is *)
(* "running", since both answer DuplicateInFlightError.  currentStep is    *)
(* written and never read: only its query is here (Advance).               *)
(***************************************************************************)
EXTENDS Integers, FiniteSetsExt

CONSTANTS
  Drivers,          \* callers of Saga.run() with this sagaId
  Steps,            \* how many steps the saga has
  NoUndo,           \* steps without an undo
  ApprovalSteps,    \* steps whose policies require approval
  Flaky,            \* keys whose do() or undo() may throw
  None,             \* a model value: no saga, no row
  MaxCrashes,       \* bound: how many calls die on the way
  MaxFaults         \* bound: how many ledger or store queries fail

(* A ledger key: the step and the tool, ...:name or ...:name:undo.         *)
Keys == (1 .. Steps) \X {"do", "undo"}

RowStatus == {"running", "succeeded", "failed", "awaiting_approval", "approved", "rejected"}
SagaStatus == {"running", "awaiting_step", "succeeded", "compensating",
               "compensated", "compensation_failed"}
StepStatus == {"succeeded", "compensated", "compensation_failed"}

SagaAssumption ==
  /\ IsFiniteSet(Drivers) /\ Drivers # {}
  /\ Steps \in Nat \ {0}
  /\ NoUndo \subseteq 1 .. Steps /\ ApprovalSteps \subseteq 1 .. Steps
  /\ Flaky \subseteq Keys
  /\ {MaxCrashes, MaxFaults} \subseteq Nat
  /\ None \notin SagaStatus \cup StepStatus \cup RowStatus

VARIABLES
  status,           \* of the saga, None before createSaga
  record,           \* the step records: None or their status
  row,              \* the status of the ledger row of each key, or None
  call,             \* the locals of each driver's call
  drivers,          \* the drivers there are
  crashes, faults,
  did               \* history variable: how often each key's work was done,
                    \* 0, 1, or 2 for more than once

vars == <<status, record, row, call, drivers, crashes, faults, did>>
bounds == <<drivers, crashes, faults>>

(* Where a call is: at each await, named for what it is about to do.       *)
InRun == {"get", "claim", "park", "start", "perform", "mark", "fail"}
Places == InRun \cup {"idle", "forward", "save", "advance", "pause", "succeed",
                      "compensate", "plan", "settle"}

Locals == [pc : Places, key : Keys, outcome : StepStatus,
           todo : SUBSET (1 .. Steps), failures : BOOLEAN]

Idle == [pc |-> "idle", key |-> <<1, "do">>, outcome |-> "succeeded",
         todo |-> {}, failures |-> FALSE]

Init ==
  /\ status = None
  /\ record = [i \in 1 .. Steps |-> None]
  /\ row = [k \in Keys |-> None]
  /\ call = [d \in Drivers |-> Idle]
  /\ drivers \in (SUBSET Drivers) \ {{}}
  /\ crashes = 0 /\ faults = 0
  /\ did = [k \in Keys |-> 0]

-----------------------------------------------------------------------------
At(d, place) == call[d].pc = place
Become(d, locals) == call' = [call EXCEPT ![d] = locals]
Goto(d, place) == Become(d, [call[d] EXCEPT !.pc = place])
Return(d) == Become(d, Idle)
SetRow(k, s) == row' = [row EXCEPT ![k] = s]

Key(d) == call[d].key
Undoing(d) == Key(d)[2] = "undo"

(* run() returned, or a step has nothing to undo: record that.             *)
Done(d) ==
  Become(d, [call[d] EXCEPT !.pc = "save",
               !.outcome = IF Undoing(d) THEN "compensated" ELSE "succeeded"])

(* run() threw: roll back, or note the failure and go on rolling back.     *)
Thrown(d) ==
  IF Undoing(d)
  THEN Become(d, [call[d] EXCEPT !.pc = "save", !.outcome = "compensation_failed"])
  ELSE Goto(d, "compensate")

(* run() threw ApprovalRequiredError or DuplicateInFlightError.            *)
Parked(d) == IF Undoing(d) THEN Thrown(d) ELSE Goto(d, "pause")

(* A faulty Latest: undo in the order of the steps.                        *)
Earliest(todo) == Min(todo)

(* The loop of compensate() goes through the steps in reverse.             *)
Latest(todo) == Max(todo)

(* It goes on with the steps that are left to undo.                        *)
NextUndo(d, locals) ==
  IF locals.todo = {}
  THEN Become(d, [locals EXCEPT !.pc = "settle"])
  ELSE LET i == Latest(locals.todo)
       IN Become(d, [locals EXCEPT !.key = <<i, "undo">>,
                       !.pc = IF i \in NoUndo THEN "save" ELSE "get",
                       !.outcome = "compensated", !.todo = @ \ {i}])

-----------------------------------------------------------------------------
(* A faulty RollingBack: a saga that is rolled back is rolled back again.  *)
RolledBackToo == {"compensating", "compensation_failed", "compensated"}

(* The statuses of a saga that goes on backwards.                          *)
RollingBack == {"compensating", "compensation_failed"}

(* Saga.run(): createSaga is one atomic insert; an existing saga is driven *)
(* on as its status says (a settled one just answers).                     *)
Run(d) ==
  /\ At(d, "idle")
  /\ \/ /\ status = None
        /\ status' = "running"
        /\ Goto(d, "forward")
     \/ /\ status \in {"running", "awaiting_step"}
        /\ Goto(d, "forward")
        /\ UNCHANGED status
     \/ /\ status \in RollingBack
        /\ Goto(d, "compensate")
        /\ UNCHANGED status
  /\ UNCHANGED <<record, row, bounds, did>>

(* forward(): setSagaStatus writes whatever the status is by now.          *)
Forward(d) ==
  /\ At(d, "forward")
  /\ status' = "running"
  /\ Become(d, [Idle EXCEPT !.pc = "get"])
  /\ UNCHANGED <<record, row, bounds, did>>

-----------------------------------------------------------------------------
(* run() of the step or undo the call is at.                               *)

NeedsApproval(k) == k[2] = "do" /\ k[1] \in ApprovalSteps

(* A faulty Entrance: an approval is asked for again and again.            *)
EntranceByPolicy(k) == IF NeedsApproval(k) THEN "park" ELSE "start"

(* Where a run() that may go on enters: an approved row is not evaluated.  *)
Entrance(k) == IF NeedsApproval(k) /\ row[k] # "approved" THEN "park" ELSE "start"

Get(d) ==
  LET k == Key(d)
  IN /\ At(d, "get")
     /\ \/ row[k] = "succeeded" /\ Done(d)
        \/ row[k] \in {"approved", "failed"} /\ Goto(d, Entrance(k))
        \/ row[k] = None /\ Goto(d, "claim")
        \/ row[k] \in {"running", "awaiting_approval"} /\ Parked(d)
        \/ row[k] = "rejected" /\ Thrown(d)
     /\ UNCHANGED <<status, record, row, bounds, did>>

(* A faulty Claim: it takes the row over, as an upsert would.              *)
ClaimByUpsert(d) ==
  /\ At(d, "claim")
  /\ SetRow(Key(d), "running")
  /\ Goto(d, Entrance(Key(d)))
  /\ UNCHANGED <<status, record, bounds, did>>

(* insertPending; a loser rereads the row at once.                         *)
Claim(d) ==
  LET k == Key(d)
  IN /\ At(d, "claim")
     /\ \/ /\ row[k] = None
           /\ SetRow(k, "running")
           /\ Goto(d, Entrance(k))
        \/ /\ row[k] # None
           /\ IF row[k] = "succeeded" THEN Done(d) ELSE Parked(d)
           /\ UNCHANGED row
     /\ UNCHANGED <<status, record, bounds, did>>

MarkAwaitingApproval(d) ==
  /\ At(d, "park")
  /\ SetRow(Key(d), "awaiting_approval")
  /\ Parked(d)
  /\ UNCHANGED <<status, record, bounds, did>>

MarkRunning(d) ==
  /\ At(d, "start")
  /\ SetRow(Key(d), "running")
  /\ Goto(d, "perform")
  /\ UNCHANGED <<status, record, bounds, did>>

(* do() or undo() resolves, or throws in its last attempt.                 *)
Perform(d) ==
  /\ At(d, "perform")
  /\ did' = [did EXCEPT ![Key(d)] = Min({2, @ + 1})]
  /\ Goto(d, "mark")
  /\ UNCHANGED <<status, record, row, bounds>>

PerformThrows(d) ==
  /\ At(d, "perform")
  /\ Key(d) \in Flaky
  /\ Goto(d, "fail")
  /\ UNCHANGED <<status, record, row, bounds, did>>

MarkSucceeded(d) ==
  /\ At(d, "mark")
  /\ SetRow(Key(d), "succeeded")
  /\ Done(d)
  /\ UNCHANGED <<status, record, bounds, did>>

MarkFailed(d) ==
  /\ At(d, "fail")
  /\ SetRow(Key(d), "failed")
  /\ Thrown(d)
  /\ UNCHANGED <<status, record, bounds, did>>

-----------------------------------------------------------------------------
(* What forward() and compensate() do around it.                           *)

(* recordStep.                                                             *)
Save(d) ==
  LET locals == call[d]
      i == locals.key[1]
  IN /\ At(d, "save")
     /\ record' = [record EXCEPT ![i] = locals.outcome]
     /\ IF Undoing(d)
        THEN NextUndo(d, [locals EXCEPT
               !.failures = @ \/ locals.outcome = "compensation_failed"])
        ELSE Goto(d, "advance")
     /\ UNCHANGED <<status, row, bounds, did>>

(* A faulty Advance: one step too many.                                    *)
AdvanceTooFar(d) ==
  /\ At(d, "advance")
  /\ IF Key(d)[1] > Steps
     THEN Goto(d, "succeed")
     ELSE Become(d, [call[d] EXCEPT !.pc = "get", !.key = <<@[1] + 1, "do">>])
  /\ UNCHANGED <<status, record, row, bounds, did>>

(* setCurrentStep, and on to the next step.                                *)
Advance(d) ==
  /\ At(d, "advance")
  /\ IF Key(d)[1] = Steps
     THEN Goto(d, "succeed")
     ELSE Become(d, [call[d] EXCEPT !.pc = "get", !.key = <<@[1] + 1, "do">>])
  /\ UNCHANGED <<status, record, row, bounds, did>>

(* setSagaStatus at the end of each way out writes whatever is there.      *)
Pause(d) ==
  /\ At(d, "pause")
  /\ status' = "awaiting_step"
  /\ Return(d)
  /\ UNCHANGED <<record, row, bounds, did>>

Succeed(d) ==
  /\ At(d, "succeed")
  /\ status' = "succeeded"
  /\ Return(d)
  /\ UNCHANGED <<record, row, bounds, did>>

(* compensate().                                                           *)
Compensate(d) ==
  /\ At(d, "compensate")
  /\ status' = "compensating"
  /\ Goto(d, "plan")
  /\ UNCHANGED <<record, row, bounds, did>>

(* A faulty Standing: undos that failed are not tried again.               *)
StandingUntried == {i \in 1 .. Steps : record[i] = "succeeded"}

(* The steps that are not undone.                                          *)
Standing == {i \in 1 .. Steps : record[i] \in {"succeeded", "compensation_failed"}}

(* getSteps: what to undo is settled here.                                 *)
Plan(d) ==
  /\ At(d, "plan")
  /\ NextUndo(d, [call[d] EXCEPT !.failures = FALSE, !.todo = Standing])
  /\ UNCHANGED <<status, record, row, bounds, did>>

Settle(d) ==
  /\ At(d, "settle")
  /\ status' = IF call[d].failures THEN "compensation_failed" ELSE "compensated"
  /\ Return(d)
  /\ UNCHANGED <<record, row, bounds, did>>

-----------------------------------------------------------------------------
(* approve() and reject(), as ActionRun shows them without a second        *)
(* reviewer.                                                               *)
Review(k) ==
  /\ row[k] = "awaiting_approval"
  /\ \E s \in {"approved", "rejected"} : SetRow(k, s)
  /\ UNCHANGED <<status, record, call, bounds, did>>

(* The process of a call dies, or a query outside every try fails.         *)
Crash(d) ==
  /\ ~At(d, "idle") /\ crashes < MaxCrashes
  /\ crashes' = crashes + 1
  /\ Return(d)
  /\ UNCHANGED <<status, record, row, drivers, faults, did>>

(* A query inside a try fails unapplied: in run() it throws, save that     *)
(* markSucceeded is attempted again with the work, if attempts are left.   *)
QueryFails(d) ==
  /\ faults < MaxFaults
  /\ faults' = faults + 1
  /\ \/ call[d].pc \in InRun \ {"perform", "mark"} /\ Thrown(d)
     \/ At(d, "mark") /\ (Goto(d, "start") \/ Goto(d, "fail"))
     \/ At(d, "save") /\ call[d].outcome # "compensation_failed"
                      /\ (Undoing(d) => Key(d)[1] \notin NoUndo) /\ Thrown(d)
     \/ At(d, "advance") /\ Thrown(d)
  /\ UNCHANGED <<status, record, row, drivers, crashes, did>>

Step(d) ==
  \/ Forward(d) \/ Get(d) \/ Claim(d) \/ MarkAwaitingApproval(d) \/ MarkRunning(d)
  \/ Perform(d) \/ PerformThrows(d) \/ MarkSucceeded(d) \/ MarkFailed(d)
  \/ Save(d) \/ Advance(d) \/ Pause(d) \/ Succeed(d)
  \/ Compensate(d) \/ Plan(d) \/ Settle(d)

Next ==
  \/ \E d \in drivers : Run(d) \/ Step(d) \/ QueryFails(d) \/ Crash(d)
  \/ \E k \in Keys : Review(k)

Spec == Init /\ [][Next]_vars

(* A promise that can continue does, the host calls run() again until the  *)
(* saga is settled, and reviewers answer.                                  *)
Fairness ==
  /\ \A d \in Drivers : WF_vars(d \in drivers /\ Step(d))
  /\ WF_vars(\E d \in drivers : Run(d))
  /\ \A k \in Keys : WF_vars(Review(k))

FairSpec == Spec /\ Fairness

-----------------------------------------------------------------------------
(* Properties.                                                             *)

(* Every variable has its type; a call that is undoing works off what is   *)
(* left to do before the step it is at.                                    *)
TypeOK ==
  /\ status \in SagaStatus \cup {None}
  /\ record \in [1 .. Steps -> StepStatus \cup {None}]
  /\ row \in [Keys -> RowStatus \cup {None}]
  /\ call \in [Drivers -> Locals]
  /\ \A d \in Drivers :
       /\ \A i \in call[d].todo : i < Key(d)[1] /\ Undoing(d)
       /\ At(d, "advance") => ~Undoing(d)
  /\ drivers \in SUBSET Drivers
  /\ crashes \in 0 .. MaxCrashes /\ faults \in 0 .. MaxFaults
  /\ did \in [Keys -> 0 .. 2]

Undone(i) == did[<<i, "undo">>] > 0

(* There is one driver.                                                    *)
Alone == \A d, e \in drivers : d = e

(* A saga that succeeded did all its steps and undid none.                 *)
DoneInFull ==
  status = "succeeded" => \A i \in 1 .. Steps : did[<<i, "do">>] > 0 /\ ~Undone(i)

(* A saga that is compensated has undone what it did, but for one step per *)
(* failed query: when recordStep fails after the work was done, the        *)
(* rollback passes over that step.                                         *)
Left == {i \in (1 .. Steps) \ NoUndo : did[<<i, "do">>] > 0 /\ ~Undone(i)}
UndoneInFull == status = "compensated" => Cardinality(Left) <= faults

(* One driver at a time, and whatever dies: all is done or all is undone   *)
(* (saga-store.ts:11, 13; saga.ts:67-68, 165-189).                         *)
AllOrNothing == TypeOK /\ (Alone => DoneInFull /\ UndoneInFull)

(* Steps are undone in reverse: no undo starts while a later step still    *)
(* stands (saga.ts:67-68, 213-217).                                        *)
UndoesLatest ==
  \A i \in 1 .. Steps : did'[<<i, "undo">>] # did[<<i, "undo">>] =>
    \A j \in i + 1 .. Steps : record[j] # "succeeded"
ReverseOrder == [][Alone => UndoesLatest]_vars

(* Work that does not throw and awaits no approval runs at most once,      *)
(* forward or back, however many drivers race and die (saga.ts:66-68), as  *)
(* long as no query fails: markSucceeded is repeated with the work.        *)
StableOnce ==
  faults = 0 => \A k \in Keys \ Flaky : ~NeedsApproval(k) => did[k] <= 1

(* One driver at a time: settled well, a saga stays settled.               *)
StaysSettled == (status \in {"succeeded", "compensated"}) => UNCHANGED status
SettledFinal == [][Alone => StaysSettled]_vars

(* As long as the host calls run() again and reviewers answer, every saga  *)
(* gets settled, unless a call died in the middle of a step: its ledger row*)
(* then stays running, and every resume() pauses there (saga.ts:174-186).  *)
Settled ==
  \/ status \in {"succeeded", "compensated", "compensation_failed"}
  \/ crashes > 0 /\ \E k \in Keys : row[k] = "running"
=============================================================================
