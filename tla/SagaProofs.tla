----------------------------- MODULE SagaProofs -----------------------------
(* Proofs about Saga, for any number of drivers, steps and faults.         *)
EXTENDS Saga, NumberLemmas, FiniteSetTheorems, TLAPS

(* What TypeOK says of one call.                                           *)
CallOK(l) ==
  /\ \A i \in l.todo : i < l.key[1] /\ l.key[2] = "undo"
  /\ l.pc = "advance" => l.key[2] = "do"

Typed ==
  /\ status \in SagaStatus \cup {None}
  /\ record \in [1 .. Steps -> StepStatus \cup {None}]
  /\ row \in [Keys -> RowStatus \cup {None}]
  /\ call \in [Drivers -> Locals] /\ \A d \in Drivers : CallOK(call[d])
  /\ drivers \in SUBSET Drivers
  /\ crashes \in 0 .. MaxCrashes /\ faults \in 0 .. MaxFaults
  /\ did \in [Keys -> 0 .. 2]

LEMMA KeyParts ==
  ASSUME NEW k \in Keys
  PROVE  k[1] \in 1 .. Steps /\ k[2] \in {"do", "undo"} /\ k = <<k[1], k[2]>>
BY DEF Keys

LEMMA TypeParts == TypeOK <=> Typed
<1>1. ASSUME call \in [Drivers -> Locals], NEW d \in Drivers
      PROVE  call[d].key[2] \in {"do", "undo"}
  BY <1>1, KeyParts DEF Locals
<1> QED  BY <1>1 DEF TypeOK, Typed, CallOK, At, Undoing, Key

(* A call that gets well-typed locals keeps every call well-typed.         *)
LEMMA BecomeKeeps ==
  ASSUME call \in [Drivers -> Locals], \A d \in Drivers : CallOK(call[d]),
         NEW d \in Drivers, NEW l \in Locals, CallOK(l), call' = [call EXCEPT ![d] = l]
  PROVE  call' \in [Drivers -> Locals] /\ \A e \in Drivers : CallOK(call'[e])
OBVIOUS

(* How the calls of the code are made up.                                  *)
LEMMA GotoKeeps ==
  ASSUME call \in [Drivers -> Locals], \A d \in Drivers : CallOK(call[d]),
         NEW d \in Drivers, NEW place \in Places, Goto(d, place),
         place = "advance" => ~Undoing(d)
  PROVE  call' \in [Drivers -> Locals] /\ \A e \in Drivers : CallOK(call'[e])
<1> DEFINE l == [call[d] EXCEPT !.pc = place]
<1>1. l \in Locals  BY DEF Locals
<1>2. l.pc = place /\ l.key = call[d].key /\ l.todo = call[d].todo  BY DEF Locals
<1>3. call[d].key[2] \in {"do", "undo"}  BY KeyParts DEF Locals
<1>4. CallOK(l)  BY <1>2, <1>3 DEF CallOK, Undoing, Key
<1>5. call' = [call EXCEPT ![d] = l]  BY DEF Goto, Become
<1> HIDE DEF l
<1> QED  BY <1>1, <1>4, <1>5, BecomeKeeps

LEMMA SaveKeeps ==
  ASSUME call \in [Drivers -> Locals], \A d \in Drivers : CallOK(call[d]),
         NEW d \in Drivers, NEW o \in StepStatus,
         Become(d, [call[d] EXCEPT !.pc = "save", !.outcome = o])
  PROVE  call' \in [Drivers -> Locals] /\ \A e \in Drivers : CallOK(call'[e])
<1> DEFINE l == [call[d] EXCEPT !.pc = "save", !.outcome = o]
<1>1. l \in Locals  BY DEF Locals, Places
<1>2. l.pc = "save" /\ l.key = call[d].key /\ l.todo = call[d].todo  BY DEF Locals
<1>4. CallOK(l)  BY <1>2 DEF CallOK
<1>5. call' = [call EXCEPT ![d] = l]  BY DEF Become
<1> HIDE DEF l
<1> QED  BY <1>1, <1>4, <1>5, BecomeKeeps

LEMMA OutcomeKeeps ==
  ASSUME call \in [Drivers -> Locals], \A d \in Drivers : CallOK(call[d]),
         NEW d \in Drivers, Done(d) \/ Thrown(d) \/ Parked(d)
  PROVE  call' \in [Drivers -> Locals] /\ \A e \in Drivers : CallOK(call'[e])
<1>1. CASE Done(d)
  <2>1. (IF Undoing(d) THEN "compensated" ELSE "succeeded") \in StepStatus  BY SMTT(30) DEF StepStatus
  <2> QED  BY <1>1, <2>1, SaveKeeps DEF Done
<1>2. CASE Thrown(d)
  BY ZenonT(30), <1>2, SaveKeeps, GotoKeeps DEF Thrown, StepStatus, Places
<1>3. CASE Parked(d)
  BY <1>2, <1>3, GotoKeeps DEF Parked, Places
<1> QED  BY <1>1, <1>2, <1>3

(* The loop of compensate() goes on with a later step than those left.     *)
LEMMA NextUndoKeeps ==
  ASSUME call \in [Drivers -> Locals], \A d \in Drivers : CallOK(call[d]), Steps \in Nat,
         NEW d \in Drivers, NEW l \in Locals, l.todo = {} \/ l.pc # "advance", NextUndo(d, l)
  PROVE  call' \in [Drivers -> Locals] /\ \A e \in Drivers : CallOK(call'[e])
<1>1. CASE l.todo = {}
  <2> DEFINE m == [l EXCEPT !.pc = "settle"]
  <2>1. m \in Locals /\ m.pc = "settle" /\ m.todo = {}  BY <1>1 DEF Locals, Places
  <2>2. call' = [call EXCEPT ![d] = m]  BY <1>1 DEF NextUndo, Become
  <2> HIDE DEF m
  <2>3. CallOK(m)  BY <2>1 DEF CallOK
  <2> QED  BY <2>1, <2>2, <2>3, BecomeKeeps
<1>2. CASE l.todo # {}
  <2> DEFINE i == Latest(l.todo)
             m == [l EXCEPT !.key = <<i, "undo">>,
                       !.pc = IF i \in NoUndo THEN "save" ELSE "get",
                       !.outcome = "compensated", !.todo = @ \ {i}]
  <2>1. l.todo \in SUBSET (1 .. Steps)  BY DEF Locals
  <2>2. i \in l.todo /\ \A j \in l.todo : j <= i
    <3> HIDE DEF i
    <3> QED  BY <1>2, <2>1, MaxBetween DEF i, Latest
  <2>3. call' = [call EXCEPT ![d] = m]  BY <1>2 DEF NextUndo, Become
  <2> HIDE DEF i
  <2>4. <<i, "undo">> \in Keys  BY <2>1, <2>2 DEF Keys
  <2>5. m \in Locals
    <3> DEFINE place == IF i \in NoUndo THEN "save" ELSE "get"
               key == <<i, "undo">>
               rest == l.todo \ {i}
    <3>1. place \in Places /\ key \in Keys /\ rest \in SUBSET (1 .. Steps)
      BY <2>1, <2>4 DEF Places, InRun
    <3>2. m = [l EXCEPT !.key = key, !.pc = place, !.outcome = "compensated", !.todo = rest]
      OBVIOUS
    <3> HIDE DEF place, key, rest, m
    <3> QED  BY <3>1, <3>2 DEF Locals, StepStatus
  <2>6. m.pc # "advance" /\ m.key = <<i, "undo">> /\ m.todo = l.todo \ {i}  BY DEF Locals
  <2> HIDE DEF m
  <2>7. CallOK(m)  BY <2>1, <2>2, <2>6 DEF CallOK
  <2> QED  BY <2>3, <2>5, <2>7, BecomeKeeps
<1> QED  BY <1>1, <1>2

LEMMA NextType ==
  ASSUME SagaAssumption, Typed, [Next]_vars
  PROVE  Typed'
<1> DEFINE Calls == call' \in [Drivers -> Locals] /\ \A e \in Drivers : CallOK(call'[e])
<1>0. /\ Steps \in Nat \ {0} /\ {MaxCrashes, MaxFaults} \subseteq Nat
      /\ call \in [Drivers -> Locals] /\ \A d \in Drivers : CallOK(call[d])
      /\ \A d \in Drivers : Key(d) \in Keys
  BY DEF SagaAssumption, Typed, Locals, Key
<1>a. \A p \in InRun \cup {"forward", "advance", "pause", "succeed", "compensate", "plan"} : p \in Places
  BY DEF Places
<1>b. \A k \in Keys : Entrance(k) \in InRun /\ Entrance(k) # "advance"  BY DEF Entrance, InRun
<1>c. \A d \in Drivers : Return(d) => Calls
  <2> SUFFICES ASSUME NEW d \in Drivers, Return(d) PROVE Calls  OBVIOUS
  <2>1. Idle \in Locals /\ CallOK(Idle)
    BY <1>0 DEF Idle, Locals, Places, CallOK, Keys, StepStatus
  <2> HIDE DEF Calls
  <2> QED  BY <1>0, <2>1, BecomeKeeps DEF Return, Become, Calls
<1>d. \A d \in Drivers : Done(d) \/ Thrown(d) \/ Parked(d) => Calls
  BY <1>0, OutcomeKeeps
<1>e. \A d \in Drivers, p \in Places : Goto(d, p) /\ (p = "advance" => ~Undoing(d)) => Calls
  BY <1>0, GotoKeeps
<1>f. Calls /\ status' \in SagaStatus \cup {None} /\ record' \in [1 .. Steps -> StepStatus \cup {None}]
      /\ row' \in [Keys -> RowStatus \cup {None}] /\ drivers' = drivers /\ crashes' \in 0 .. MaxCrashes
      /\ faults' \in 0 .. MaxFaults /\ did' \in [Keys -> 0 .. 2] => Typed'
  BY DEF Typed
<1> HIDE DEF Calls
<1> USE DEF Typed, bounds
<1>1. ASSUME NEW d \in Drivers, Run(d) PROVE Typed'
  BY <1>1, <1>a, <1>e, <1>f DEF Run, SagaStatus
<1>2. ASSUME NEW d \in Drivers, Forward(d) PROVE Typed'
  <2> DEFINE l == [Idle EXCEPT !.pc = "get"]
  <2>1. l \in Locals /\ CallOK(l)
    <3>1. Idle \in Locals  BY <1>0 DEF Idle, Locals, Places, Keys, StepStatus
    <3>2. l \in Locals  BY <3>1 DEF Locals, Places, InRun
    <3>3. l.pc = "get" /\ l.todo = {}  BY DEF Idle
    <3> HIDE DEF l
    <3> QED  BY <3>2, <3>3 DEF CallOK
  <2>2. call' = [call EXCEPT ![d] = l]  BY <1>2 DEF Forward, Become
  <2> HIDE DEF l
  <2>3. Calls  BY <1>0, <2>1, <2>2, BecomeKeeps DEF Calls
  <2> QED  BY <1>2, <1>f, <2>3 DEF Forward, SagaStatus
<1>3. ASSUME NEW d \in Drivers, Get(d) PROVE Typed'
  <2>1. Calls  BY <1>3, <1>0, <1>a, <1>b, <1>d, <1>e DEF Get, InRun
  <2> QED  BY <1>3, <1>f, <2>1 DEF Get
<1>4. ASSUME NEW d \in Drivers, Claim(d) PROVE Typed'
  <2>1. Calls  BY <1>4, <1>0, <1>a, <1>b, <1>d, <1>e DEF Claim
  <2> QED  BY <1>4, <1>f, <2>1 DEF Claim, SetRow, RowStatus
<1>5. ASSUME NEW d \in Drivers, MarkAwaitingApproval(d) PROVE Typed'
  BY <1>5, <1>d, <1>f DEF MarkAwaitingApproval, SetRow, RowStatus
<1>6. ASSUME NEW d \in Drivers, MarkRunning(d) PROVE Typed'
  <2>1. Calls  BY <1>6, <1>a, <1>e DEF MarkRunning, InRun
  <2> QED  BY <1>6, <1>f, <2>1 DEF MarkRunning, SetRow, RowStatus
<1>7. ASSUME NEW d \in Drivers, Perform(d) PROVE Typed'
  <2>1. Calls  BY <1>7, <1>a, <1>e DEF Perform, InRun
  <2>2. \A n \in 0 .. 2 : Min({2, n + 1}) \in 0 .. 2
    <3> TAKE n \in 0 .. 2
    <3>1. {2, n + 1} \in SUBSET Nat /\ {2, n + 1} # {}  OBVIOUS
    <3>2. Min({2, n + 1}) \in {2, n + 1} /\ Min({2, n + 1}) <= 2  BY <3>1, MinMember, MinLeast
    <3> QED  BY <3>2
  <2>3. did' \in [Keys -> 0 .. 2]  BY <1>7, <1>0, <2>2 DEF Perform
  <2> QED  BY <1>7, <1>f, <2>1, <2>3 DEF Perform
<1>8. ASSUME NEW d \in Drivers, PerformThrows(d) PROVE Typed'
  <2>1. Calls  BY <1>8, <1>a, <1>e DEF PerformThrows, InRun
  <2> QED  BY <1>8, <1>f, <2>1 DEF PerformThrows
<1>9. ASSUME NEW d \in Drivers, MarkSucceeded(d) PROVE Typed'
  BY <1>9, <1>d, <1>f DEF MarkSucceeded, SetRow, RowStatus
<1>10. ASSUME NEW d \in Drivers, MarkFailed(d) PROVE Typed'
  BY <1>10, <1>d, <1>f DEF MarkFailed, SetRow, RowStatus
<1>11. ASSUME NEW d \in Drivers, Save(d) PROVE Typed'
  <2>1. record' \in [1 .. Steps -> StepStatus \cup {None}]
    <3>1. call[d].outcome \in StepStatus  BY <1>0 DEF Locals
    <3> QED  BY <1>11, <3>1 DEF Save
  <2>2. CASE ~Undoing(d)
    <3>1. Calls  BY <1>11, <1>a, <1>e, <2>2 DEF Save
    <3> QED  BY <1>11, <1>f, <2>1, <3>1 DEF Save
  <2>3. CASE Undoing(d)
    <3> DEFINE l == [call[d] EXCEPT
                 !.failures = @ \/ call[d].outcome = "compensation_failed"]
    <3>1. l \in Locals /\ l.pc = "save"
      <4> DEFINE b == call[d].failures \/ call[d].outcome = "compensation_failed"
      <4>1. b \in BOOLEAN  OBVIOUS
      <4>2. l = [call[d] EXCEPT !.failures = b]  OBVIOUS
      <4> HIDE DEF b, l
      <4> QED  BY <1>11, <1>0, <4>1, <4>2 DEF Locals, Save, At
    <3>2. NextUndo(d, l)  BY <1>11, <2>3 DEF Save
    <3> HIDE DEF l
    <3>3. Calls  BY <1>0, <3>1, <3>2, NextUndoKeeps DEF Calls
    <3> QED  BY <1>11, <1>f, <2>1, <3>3 DEF Save
  <2> QED  BY <2>2, <2>3
<1>12. ASSUME NEW d \in Drivers, Advance(d) PROVE Typed'
  <2>1. CASE Key(d)[1] = Steps
    <3>1. Calls  BY <1>12, <1>a, <1>e, <2>1 DEF Advance
    <3> QED  BY <1>12, <1>f, <3>1 DEF Advance
  <2>2. CASE Key(d)[1] # Steps
    <3> DEFINE key == <<Key(d)[1] + 1, "do">>
               l == [call[d] EXCEPT !.pc = "get", !.key = key]
    <3>1. call' = [call EXCEPT ![d] = l]  BY <1>12, <2>2 DEF Advance, Become, Key
    <3>2. key \in Keys
      <4>1. Key(d)[1] \in 1 .. Steps  BY <1>0, KeyParts
      <4> QED  BY <1>0, <2>2, <4>1 DEF Keys
    <3>3. call[d].todo = {}
      BY <1>12, <1>0 DEF Advance, At, CallOK
    <3> HIDE DEF key
    <3>4. l \in Locals /\ l.pc = "get" /\ l.todo = {}
      BY <1>0, <3>2, <3>3 DEF Locals, Places, InRun
    <3> HIDE DEF l
    <3>5. CallOK(l)  BY <3>4 DEF CallOK
    <3>6. Calls  BY <1>0, <3>1, <3>4, <3>5, BecomeKeeps DEF Calls
    <3> QED  BY <1>12, <1>f, <3>6 DEF Advance
  <2> QED  BY <2>1, <2>2
<1>13. ASSUME NEW d \in Drivers, Pause(d) \/ Succeed(d) \/ Settle(d) PROVE Typed'
  BY <1>13, <1>c, <1>f DEF Pause, Succeed, Settle, SagaStatus
<1>14. ASSUME NEW d \in Drivers, Compensate(d) PROVE Typed'
  BY <1>14, <1>a, <1>e, <1>f DEF Compensate, SagaStatus
<1>15. ASSUME NEW d \in Drivers, Plan(d) PROVE Typed'
  <2> DEFINE l == [call[d] EXCEPT !.failures = FALSE, !.todo = Standing]
  <2>1. l \in Locals /\ l.pc = "plan"
    BY <1>15, <1>0 DEF Locals, Standing, Plan, At
  <2>2. NextUndo(d, l)  BY <1>15 DEF Plan
  <2> HIDE DEF l
  <2>3. Calls  BY <1>0, <2>1, <2>2, NextUndoKeeps DEF Calls
  <2> QED  BY <1>15, <1>f, <2>3 DEF Plan
<1>16. ASSUME NEW d \in Drivers, QueryFails(d) PROVE Typed'
  <2>1. Calls  BY <1>16, <1>a, <1>d, <1>e DEF QueryFails, InRun
  <2>2. faults' \in 0 .. MaxFaults  BY <1>16, <1>0 DEF QueryFails
  <2> QED  BY <1>16, <1>f, <2>1, <2>2 DEF QueryFails
<1>17. ASSUME NEW d \in Drivers, Crash(d) PROVE Typed'
  <2>1. crashes' \in 0 .. MaxCrashes  BY <1>17, <1>0 DEF Crash
  <2> QED  BY <1>17, <1>c, <1>f, <2>1 DEF Crash
<1>18. ASSUME NEW k \in Keys, Review(k) PROVE Typed'
  BY <1>18 DEF Review, SetRow, RowStatus
<1>19. CASE UNCHANGED vars  BY <1>19 DEF vars
<1> QED
  BY <1>1, <1>2, <1>3, <1>4, <1>5, <1>6, <1>7, <1>8, <1>9, <1>10, <1>11, <1>12, <1>13,
     <1>14, <1>15, <1>16, <1>17, <1>18, <1>19 DEF Next, Step

LEMMA InitTyped ==
  ASSUME SagaAssumption, Init
  PROVE  Typed
<1>1. call \in [Drivers -> Locals] /\ \A d \in Drivers : CallOK(call[d])
  BY DEF SagaAssumption, Init, Idle, Locals, Places, CallOK, Keys, StepStatus
<1> QED  BY <1>1 DEF SagaAssumption, Init, Typed

(* Saga.run() on any number of drivers keeps every variable in its type.   *)
THEOREM TypeCorrect == ASSUME SagaAssumption PROVE Spec => []TypeOK
<1>1. Init => Typed  BY InitTyped
<1>2. Typed /\ [Next]_vars => Typed'  BY NextType
<1>3. Typed => TypeOK  BY TypeParts
<1> QED  BY <1>1, <1>2, <1>3, PTL DEF Spec

-----------------------------------------------------------------------------
(* Work that does not throw and needs no approval.                         *)
Stable == {k \in Keys \ Flaky : ~NeedsApproval(k)}

(* Driver d is at the work of k, on its way to it or back from it.         *)
AtWork(d, k) == call[d].key = k /\ call[d].pc \in {"start", "perform", "mark"}

(* Whoever claimed the row of a stable key is alone at its work: the row   *)
(* never becomes one that a second call may take over.                     *)
Owned(k) ==
  /\ row[k] \in {None, "running", "succeeded"}
  /\ did[k] \in {0, 1}
  /\ row[k] = None => did[k] = 0
  /\ \A d \in Drivers : call[d].key = k => call[d].pc \notin {"park", "fail"}
  /\ \A d \in Drivers : AtWork(d, k) => row[k] = "running" /\ (call[d].pc # "mark" => did[k] = 0)
  /\ \A d, e \in Drivers : AtWork(d, k) /\ AtWork(e, k) => d = e

OwnedAll == faults = 0 => \A k \in Stable : Owned(k)

(* A call that leaves k, or goes to a place away from its work, disturbs   *)
(* nobody.                                                                 *)
Away(p) == p \notin {"start", "perform", "mark", "park", "fail"}

LEMMA AwayKeeps ==
  ASSUME Typed, NEW k \in Keys, Owned(k), NEW d \in Drivers, NEW l,
         call' = [call EXCEPT ![d] = l], l.key = k => Away(l.pc),
         row'[k] = row[k], did'[k] = did[k]
  PROVE  Owned(k)'
<1>1. call'[d] = l /\ \A e \in Drivers \ {d} : call'[e] = call[e]  BY DEF Typed
<1>2. ~AtWork(d, k)' /\ \A e \in Drivers \ {d} : AtWork(e, k)' <=> AtWork(e, k)
  BY <1>1 DEF AtWork, Away
<1> QED  BY <1>1, <1>2 DEF Owned, Away

LEMMA GotoAway ==
  ASSUME Typed, NEW k \in Keys, Owned(k), NEW d \in Drivers, NEW p, Goto(d, p),
         Key(d) = k => Away(p), row'[k] = row[k], did'[k] = did[k]
  PROVE  Owned(k)'
<1> DEFINE l == [call[d] EXCEPT !.pc = p]
<1>1. l.pc = p /\ l.key = Key(d) /\ call' = [call EXCEPT ![d] = l]
  BY DEF Typed, Locals, Goto, Become, Key
<1> HIDE DEF l
<1> QED  BY <1>1, AwayKeeps

LEMMA LeaveAway ==
  ASSUME Typed, NEW k \in Keys, Owned(k), NEW d \in Drivers,
         Done(d) \/ Thrown(d) \/ Parked(d) \/ Return(d),
         row'[k] = row[k], did'[k] = did[k]
  PROVE  Owned(k)'
<1>1. ASSUME NEW o, Become(d, [call[d] EXCEPT !.pc = "save", !.outcome = o]) PROVE Owned(k)'
  <2> DEFINE l == [call[d] EXCEPT !.pc = "save", !.outcome = o]
  <2>1. l.pc = "save" /\ call' = [call EXCEPT ![d] = l]
    BY <1>1 DEF Typed, Locals, Become
  <2> HIDE DEF l
  <2> QED  BY <2>1, AwayKeeps DEF Away
<1>2. CASE Done(d)  BY <1>1, <1>2 DEF Done
<1>3. CASE Thrown(d)  BY <1>1, <1>3, GotoAway DEF Thrown, Away
<1>4. CASE Parked(d)  BY <1>3, <1>4, GotoAway DEF Parked, Away
<1>5. CASE Return(d)
  <2>1. Idle.pc = "idle"  BY DEF Idle
  <2> QED  BY <1>5, <2>1, AwayKeeps DEF Return, Become, Away
<1> QED  BY <1>2, <1>3, <1>4, <1>5

LEMMA NextUndoAway ==
  ASSUME Typed, NEW k \in Keys, Owned(k), NEW d \in Drivers, NEW l \in Locals,
         NextUndo(d, l), row'[k] = row[k], did'[k] = did[k]
  PROVE  Owned(k)'
<1>1. CASE l.todo = {}
  <2> DEFINE m == [l EXCEPT !.pc = "settle"]
  <2>1. m.pc = "settle" /\ call' = [call EXCEPT ![d] = m]
    BY <1>1 DEF NextUndo, Become, Locals
  <2> HIDE DEF m
  <2> QED  BY <2>1, AwayKeeps DEF Away
<1>2. CASE l.todo # {}
  <2> DEFINE i == Latest(l.todo)
             m == [l EXCEPT !.key = <<i, "undo">>,
                       !.pc = IF i \in NoUndo THEN "save" ELSE "get",
                       !.outcome = "compensated", !.todo = @ \ {i}]
  <2>1. call' = [call EXCEPT ![d] = m]  BY <1>2 DEF NextUndo, Become
  <2> HIDE DEF i
  <2>2. m.pc \in {"save", "get"}  BY DEF Locals
  <2> HIDE DEF m
  <2> QED  BY <2>1, <2>2, AwayKeeps DEF Away
<1> QED  BY <1>1, <1>2

LEMMA NextOwned ==
  ASSUME SagaAssumption, Typed, OwnedAll, [Next]_vars
  PROVE  OwnedAll'
<1> SUFFICES ASSUME faults' = 0, NEW k \in Stable PROVE Owned(k)'
  BY DEF OwnedAll, Stable, NeedsApproval
<1>0. /\ call \in [Drivers -> Locals] /\ row \in [Keys -> RowStatus \cup {None}]
      /\ did \in [Keys -> 0 .. 2] /\ faults \in Nat /\ drivers \subseteq Drivers
      /\ \A d \in Drivers : Key(d) \in Keys
      /\ k \in Keys /\ k \notin Flaky /\ ~NeedsApproval(k)
      /\ None \notin RowStatus
  BY DEF SagaAssumption, Typed, Locals, Key, Stable
<1>a. faults = 0 /\ ~\E d \in Drivers : QueryFails(d)
  <2>1. ASSUME NEW d \in Drivers, QueryFails(d) PROVE FALSE
    BY <1>0, <2>1 DEF QueryFails
  <2> QED
    BY <1>0, <2>1 DEF Next, Step, vars, bounds, Run, Forward, Get, Claim, MarkAwaitingApproval,
         MarkRunning, Perform, PerformThrows, MarkSucceeded, MarkFailed, Save, Advance, Pause,
         Succeed, Compensate, Plan, Settle, Crash, Review
<1>b. Owned(k)  BY <1>a DEF OwnedAll
<1>c. k[2] = "do" => k[1] \notin ApprovalSteps  BY <1>0 DEF NeedsApproval
<1>1. ASSUME NEW d \in Drivers,
             Run(d) \/ Compensate(d) \/ Pause(d) \/ Succeed(d) \/ Settle(d) \/ Crash(d)
      PROVE  Owned(k)'
  BY <1>1, <1>0, <1>b, GotoAway, LeaveAway
     DEF Run, Compensate, Pause, Succeed, Settle, Crash, Away
<1>2. ASSUME NEW d \in Drivers, Forward(d) PROVE Owned(k)'
  <2> DEFINE l == [Idle EXCEPT !.pc = "get"]
  <2>1. l.pc = "get" /\ call' = [call EXCEPT ![d] = l]  BY <1>2 DEF Forward, Become, Idle
  <2> HIDE DEF l
  <2> QED  BY <1>2, <1>0, <1>b, <2>1, AwayKeeps DEF Forward, Away
<1>3. ASSUME NEW d \in Drivers, Get(d) PROVE Owned(k)'
  <2>1. row[Key(d)] \in {"approved", "failed"} => Key(d) # k
    BY <1>b, <1>0 DEF Owned, RowStatus
  <2>2. UNCHANGED <<row, did>>  BY <1>3 DEF Get
  <2> QED  BY <1>3, <1>0, <1>b, <2>1, <2>2, GotoAway, LeaveAway DEF Get, Away
<1>4. ASSUME NEW d \in Drivers, Claim(d) PROVE Owned(k)'
  <2>1. CASE row[Key(d)] # None
    BY <1>4, <1>0, <1>b, <2>1, LeaveAway DEF Claim
  <2>2. CASE row[Key(d)] = None /\ Key(d) # k
    BY <1>4, <1>0, <1>b, <2>2, GotoAway DEF Claim, SetRow
  <2>3. CASE row[Key(d)] = None /\ Key(d) = k
    <3>1. /\ call' = [call EXCEPT ![d] = [call[d] EXCEPT !.pc = "start"]]
          /\ row'[k] = "running" /\ did' = did
      BY <1>4, <1>0, <2>3 DEF Claim, SetRow, Goto, Become, Entrance
    <3>2. call'[d].pc = "start" /\ call'[d].key = k /\ \A e \in Drivers \ {d} : call'[e] = call[e]
      BY <1>0, <2>3, <3>1 DEF Locals, Key
    <3>3. \A e \in Drivers : ~AtWork(e, k)  BY <1>b, <1>0, <2>3 DEF Owned, RowStatus
    <3>4. \A e \in Drivers : AtWork(e, k)' => e = d  BY <3>2, <3>3 DEF AtWork
    <3> QED  BY <1>0, <1>b, <2>3, <3>1, <3>2, <3>4 DEF Owned
  <2> QED  BY <2>1, <2>2, <2>3
<1>5. ASSUME NEW d \in Drivers, MarkAwaitingApproval(d) PROVE Owned(k)'
  <2>1. Key(d) # k  BY <1>5, <1>b DEF MarkAwaitingApproval, Owned, At, Key
  <2> QED  BY <1>5, <1>0, <1>b, <2>1, LeaveAway DEF MarkAwaitingApproval, SetRow
<1>6. ASSUME NEW d \in Drivers, MarkRunning(d) PROVE Owned(k)'
  <2>1. CASE Key(d) # k  BY <1>6, <1>0, <1>b, <2>1, GotoAway DEF MarkRunning, SetRow
  <2>2. CASE Key(d) = k
    <3>1. AtWork(d, k) /\ row[k] = "running" /\ did[k] = 0
      BY <1>6, <1>b, <2>2 DEF AtWork, MarkRunning, At, Key, Owned
    <3>2. /\ call' = [call EXCEPT ![d] = [call[d] EXCEPT !.pc = "perform"]]
          /\ row'[k] = "running" /\ did' = did
      BY <1>6, <1>0, <2>2 DEF MarkRunning, SetRow, Goto, Become
    <3>3. /\ call'[d].pc = "perform" /\ call'[d].key = k
          /\ \A e \in Drivers \ {d} : call'[e] = call[e]
      BY <1>0, <2>2, <3>2 DEF Locals, Key
    <3>4. \A e \in Drivers : AtWork(e, k)' => e = d
      BY <1>b, <3>1, <3>3 DEF AtWork, Owned
    <3> QED  BY <1>0, <1>b, <3>1, <3>2, <3>3, <3>4 DEF Owned
  <2> QED  BY <2>1, <2>2
<1>7. ASSUME NEW d \in Drivers, Perform(d) PROVE Owned(k)'
  <2>1. CASE Key(d) # k  BY <1>7, <1>0, <1>b, <2>1, GotoAway DEF Perform
  <2>2. CASE Key(d) = k
    <3>1. AtWork(d, k) /\ row[k] = "running" /\ did[k] = 0
      BY <1>7, <1>b, <2>2 DEF AtWork, Perform, At, Key, Owned
    <3>2. Min({2, did[k] + 1}) = 1
      <4>1. {2, 1} \in SUBSET Nat  OBVIOUS
      <4>2. Min({2, 1}) \in {2, 1} /\ Min({2, 1}) <= 1  BY <4>1, MinMember, MinLeast
      <4>3. Min({2, 1}) = 1  BY <4>2
      <4> QED  BY <3>1, <4>3
    <3>3. did'[k] = 1 /\ row' = row  BY <1>7, <1>0, <2>2, <3>2 DEF Perform
    <3>4. call' = [call EXCEPT ![d] = [call[d] EXCEPT !.pc = "mark"]]
      BY <1>7 DEF Perform, Goto, Become
    <3>5. /\ call'[d].pc = "mark" /\ call'[d].key = k
          /\ \A e \in Drivers \ {d} : call'[e] = call[e]
      BY <1>0, <2>2, <3>4 DEF Locals, Key
    <3>6. \A e \in Drivers : AtWork(e, k)' => e = d
      BY <1>b, <3>1, <3>5 DEF AtWork, Owned
    <3> QED  BY <1>0, <1>b, <3>1, <3>3, <3>5, <3>6 DEF Owned, RowStatus
  <2> QED  BY <2>1, <2>2
<1>8. ASSUME NEW d \in Drivers, PerformThrows(d) PROVE Owned(k)'
  BY <1>8, <1>0, <1>b, GotoAway DEF PerformThrows
<1>9. ASSUME NEW d \in Drivers, MarkSucceeded(d) PROVE Owned(k)'
  <2>1. CASE Key(d) # k  BY <1>9, <1>0, <1>b, <2>1, LeaveAway DEF MarkSucceeded, SetRow
  <2>2. CASE Key(d) = k
    <3>1. AtWork(d, k)  BY <1>9, <2>2 DEF AtWork, MarkSucceeded, At, Key
    <3>2. row'[k] = "succeeded" /\ did' = did
      BY <1>9, <1>0, <2>2 DEF MarkSucceeded, SetRow
    <3> DEFINE l == [call[d] EXCEPT !.pc = "save",
                      !.outcome = IF Undoing(d) THEN "compensated" ELSE "succeeded"]
    <3>3. l.pc = "save" /\ call' = [call EXCEPT ![d] = l]
      BY <1>9, <1>0 DEF MarkSucceeded, Done, Become, Locals
    <3> HIDE DEF l
    <3>4. call'[d].pc = "save" /\ \A e \in Drivers \ {d} : call'[e] = call[e]
      BY <1>0, <3>3
    <3>5. \A e \in Drivers : ~AtWork(e, k)'
      BY <1>b, <3>1, <3>4 DEF AtWork, Owned
    <3> QED  BY <1>0, <1>b, <3>2, <3>4, <3>5 DEF Owned, RowStatus
  <2> QED  BY <2>1, <2>2
<1>10. ASSUME NEW d \in Drivers, MarkFailed(d) PROVE Owned(k)'
  <2>1. Key(d) # k  BY <1>10, <1>b DEF MarkFailed, Owned, At, Key
  <2> QED  BY <1>10, <1>0, <1>b, <2>1, LeaveAway DEF MarkFailed, SetRow
<1>11. ASSUME NEW d \in Drivers, Save(d) PROVE Owned(k)'
  <2>1. CASE ~Undoing(d)  BY <1>11, <1>0, <1>b, <2>1, GotoAway DEF Save, Away
  <2>2. CASE Undoing(d)
    <3> DEFINE b == call[d].failures \/ call[d].outcome = "compensation_failed"
               l == [call[d] EXCEPT !.failures = b]
    <3>1. b \in BOOLEAN  BY <1>0 DEF Locals
    <3>2. NextUndo(d, l)  BY <1>11, <2>2 DEF Save
    <3> HIDE DEF b
    <3>3. l \in Locals  BY <1>0, <3>1 DEF Locals
    <3> HIDE DEF l
    <3> QED  BY <1>11, <1>0, <1>b, <3>2, <3>3, NextUndoAway DEF Save
  <2> QED  BY <2>1, <2>2
<1>12. ASSUME NEW d \in Drivers, Advance(d) PROVE Owned(k)'
  <2>1. CASE Key(d)[1] = Steps  BY <1>12, <1>0, <1>b, <2>1, GotoAway DEF Advance, Away
  <2>2. CASE Key(d)[1] # Steps
    <3> DEFINE l == [call[d] EXCEPT !.pc = "get", !.key = <<@[1] + 1, "do">>]
    <3>1. l.pc = "get" /\ call' = [call EXCEPT ![d] = l]
      BY <1>12, <1>0, <2>2 DEF Advance, Become, Locals
    <3> HIDE DEF l
    <3> QED  BY <1>12, <1>0, <1>b, <3>1, AwayKeeps DEF Advance, Away
  <2> QED  BY <2>1, <2>2
<1>13. ASSUME NEW d \in Drivers, Plan(d) PROVE Owned(k)'
  <2> DEFINE l == [call[d] EXCEPT !.failures = FALSE, !.todo = Standing]
  <2>1. l \in Locals  BY <1>0 DEF Locals, Standing
  <2>2. NextUndo(d, l)  BY <1>13 DEF Plan
  <2> HIDE DEF l
  <2> QED  BY <1>13, <1>0, <1>b, <2>1, <2>2, NextUndoAway DEF Plan
<1>14. ASSUME NEW j \in Keys, Review(j) PROVE Owned(k)'
  <2>1. j # k  BY <1>14, <1>0, <1>b DEF Review, Owned, RowStatus
  <2>2. call' = call /\ row'[k] = row[k] /\ did' = did  BY <1>14, <1>0, <2>1 DEF Review, SetRow
  <2> QED  BY <1>b, <2>2 DEF Owned, AtWork
<1>15. CASE UNCHANGED vars  BY <1>15, <1>b DEF vars, Owned, AtWork
<1> QED
  BY <1>0, <1>a, <1>1, <1>2, <1>3, <1>4, <1>5, <1>6, <1>7, <1>8, <1>9, <1>10, <1>11, <1>12,
     <1>13, <1>14, <1>15 DEF Next, Step

(* However many drivers race, pause, roll back and die, work that does not *)
(* throw and awaits no approval is done at most once, and so is each undo, *)
(* while no query fails.                                                   *)
THEOREM StableOnceHolds == ASSUME SagaAssumption PROVE Spec => []StableOnce
<1>1. Init => Typed /\ OwnedAll
  <2>1. Init => \A k \in Stable : Owned(k)
    BY DEF Init, Idle, Owned, AtWork, Stable
  <2> QED  BY <2>1, InitTyped DEF OwnedAll
<1>2. Typed /\ OwnedAll /\ [Next]_vars => Typed' /\ OwnedAll'  BY NextType, NextOwned
<1>3. Typed /\ OwnedAll => StableOnce
  BY DEF OwnedAll, Owned, StableOnce, Stable
<1> QED  BY <1>1, <1>2, <1>3, PTL DEF Spec

-----------------------------------------------------------------------------
(* What the moves of a call leave in its locals.                           *)
LEMMA GotoEffect ==
  ASSUME Typed, NEW d \in Drivers, NEW place, Goto(d, place)
  PROVE  /\ call'[d].pc = place /\ call'[d].key = call[d].key
         /\ call'[d].outcome = call[d].outcome /\ call'[d].todo = call[d].todo
         /\ call'[d].failures = call[d].failures
<1> DEFINE l == [call[d] EXCEPT !.pc = place]
<1>1. /\ l.pc = place /\ l.key = call[d].key /\ l.outcome = call[d].outcome
      /\ l.todo = call[d].todo /\ l.failures = call[d].failures
  BY DEF Typed, Locals
<1>2. call' = [call EXCEPT ![d] = l]  BY DEF Goto, Become
<1> HIDE DEF l
<1> QED  BY <1>1, <1>2 DEF Typed

LEMMA SaveEffect ==
  ASSUME Typed, NEW d \in Drivers, NEW o,
         Become(d, [call[d] EXCEPT !.pc = "save", !.outcome = o])
  PROVE  /\ call'[d].pc = "save" /\ call'[d].outcome = o /\ call'[d].key = call[d].key
         /\ call'[d].todo = call[d].todo /\ call'[d].failures = call[d].failures
<1> DEFINE l == [call[d] EXCEPT !.pc = "save", !.outcome = o]
<1>1. /\ l.pc = "save" /\ l.key = call[d].key /\ l.outcome = o
      /\ l.todo = call[d].todo /\ l.failures = call[d].failures
  BY DEF Typed, Locals
<1>2. call' = [call EXCEPT ![d] = l]  BY DEF Become
<1> HIDE DEF l
<1> QED  BY <1>1, <1>2 DEF Typed

LEMMA ReturnEffect ==
  ASSUME Typed, NEW d \in Drivers, Return(d)
  PROVE  call'[d].pc = "idle" /\ call'[d].key = <<1, "do">>
BY DEF Typed, Return, Become, Idle

(* The loop of compensate() is through, or at the latest step that is left.*)
LEMMA NextUndoEffect ==
  ASSUME SagaAssumption, Typed, NEW d \in Drivers, NEW l \in Locals, NextUndo(d, l)
  PROVE  /\ call'[d].failures = l.failures
         /\ \/ l.todo = {} /\ call'[d].pc = "settle" /\ call'[d].key = l.key
            \/ \E i \in l.todo :
                 /\ call'[d].key = <<i, "undo">> /\ call'[d].outcome = "compensated"
                 /\ call'[d].todo = l.todo \ {i}
                 /\ call'[d].pc = IF i \in NoUndo THEN "save" ELSE "get"
<1>1. CASE l.todo = {}
  <2> DEFINE m == [l EXCEPT !.pc = "settle"]
  <2>1. m.pc = "settle" /\ m.key = l.key /\ m.failures = l.failures  BY DEF Locals
  <2>2. call' = [call EXCEPT ![d] = m]  BY <1>1 DEF NextUndo, Become
  <2> HIDE DEF m
  <2> QED  BY <1>1, <2>1, <2>2 DEF Typed
<1>2. CASE l.todo # {}
  <2> DEFINE i == Latest(l.todo)
             place == IF i \in NoUndo THEN "save" ELSE "get"
             m == [l EXCEPT !.key = <<i, "undo">>, !.pc = place,
                       !.outcome = "compensated", !.todo = @ \ {i}]
  <2>1. i \in l.todo
    <3>1. l.todo \in SUBSET (1 .. Steps) /\ Steps \in Nat  BY DEF Locals, SagaAssumption
    <3> QED  BY ZenonT(30), <1>2, <3>1, MaxBetween DEF Latest
  <2>2. call' = [call EXCEPT ![d] = m]  BY <1>2 DEF NextUndo, Become
  <2> HIDE DEF i, place
  <2>3. /\ m.key = <<i, "undo">> /\ m.outcome = "compensated" /\ m.todo = l.todo \ {i}
        /\ m.pc = place /\ m.failures = l.failures
    BY DEF Locals
  <2> HIDE DEF m
  <2> QED  BY <2>1, <2>2, <2>3 DEF Typed, place
<1> QED  BY <1>1, <1>2

-----------------------------------------------------------------------------
(* One driver.                                                             *)

(* The statuses of a saga that never went backwards.                       *)
Forth == {None, "running", "awaiting_step", "succeeded"}
DidDo(i) == did[<<i, "do">>] > 0

(* Driver d is at a step, or at its undo.                                  *)
Walking(d) == ~Undoing(d) /\ call[d].pc \in InRun \cup {"save", "advance", "pause", "succeed"}
UndoAt(d) == Undoing(d) /\ call[d].pc \in InRun \cup {"save"}

(* What the place of the lone driver tells of the saga's status.           *)
Course(d) ==
  /\ status \in {None, "succeeded", "compensated"} => At(d, "idle")
  /\ At(d, "forward") => status \in {"running", "awaiting_step"}
  /\ Walking(d) => status = "running"
  /\ At(d, "compensate") => status \in {"running"} \cup RollingBack
  /\ UndoAt(d) \/ call[d].pc \in {"plan", "settle"} => status = "compensating"
  /\ call[d].pc \in {"advance", "pause", "succeed"} => ~Undoing(d)

(* What it tells of the row it works on.                                   *)
RowHeld(d) ==
  /\ At(d, "claim") => row[Key(d)] = None
  /\ call[d].pc \in {"park", "start"} => row[Key(d)] \in {"running", "approved", "failed"}
  /\ call[d].pc \in {"perform", "mark", "fail"} => row[Key(d)] = "running"
  /\ Walking(d) /\ call[d].pc \in {"save", "advance", "succeed"} => row[Key(d)] = "succeeded"
  /\ Walking(d) /\ At(d, "save") => call[d].outcome = "succeeded"
  /\ At(d, "mark") => did[Key(d)] > 0
  /\ UndoAt(d) /\ At(d, "save") =>
       /\ call[d].outcome # "succeeded"
       /\ call[d].outcome = "compensated" /\ Key(d)[1] \notin NoUndo => Undone(Key(d)[1])

(* What rows and records tell of the work.                                 *)
Kept ==
  /\ \A k \in Keys : row[k] = "succeeded" => did[k] > 0
  /\ \A i \in 1 .. Steps : record[i] = "succeeded" => row[<<i, "do">>] = "succeeded"
  /\ \A i \in 1 .. Steps : record[i] = "compensated" /\ i \notin NoUndo => Undone(i)
  /\ status \in Forth => \A i \in 1 .. Steps : ~Undone(i) /\ record[i] \in {None, "succeeded"}
  /\ status = "compensated" => \A i \in 1 .. Steps : record[i] \notin {"succeeded", "compensation_failed"}
  /\ status = "succeeded" => \A i \in 1 .. Steps : DidDo(i)

(* Steps are done in order, each after the one before it is recorded.      *)
InOrder(d) ==
  /\ \A i \in 1 .. Steps : DidDo(i) => \A j \in 1 .. i - 1 : record[j] # None
  /\ Walking(d) => \A j \in 1 .. Key(d)[1] - 1 : record[j] # None /\ DidDo(j)
  /\ call[d].pc \in {"advance", "succeed"} => record[Key(d)[1]] # None
  /\ At(d, "succeed") => Key(d)[1] = Steps

(* A rollback has before it all that stands.                               *)
Ahead(d) == IF At(d, "settle") THEN {} ELSE call[d].todo \cup {Key(d)[1]}
ToUndo(d) ==
  UndoAt(d) \/ At(d, "settle") =>
    \A j \in 1 .. Steps :
      /\ record[j] = "succeeded" => j \in Ahead(d)
      /\ record[j] = "compensation_failed" => j \in Ahead(d) \/ call[d].failures

(* Without a failed query no step is passed over.                          *)
NoneLost(d) ==
  faults = 0 =>
    /\ \A i \in 1 .. Steps : DidDo(i) =>
         /\ row[<<i, "do">>] \in {"running", "succeeded"}
         /\ call[d].pc \in {"claim", "park", "start", "perform", "fail"} => Key(d) # <<i, "do">>
    /\ status \notin Forth \/ At(d, "compensate") =>
         \A i \in 1 .. Steps : DidDo(i) => record[i] # None

OnCourse(d) == Course(d) /\ RowHeld(d) /\ InOrder(d) /\ ToUndo(d) /\ NoneLost(d)
LoneInv == Alone => Kept /\ \A d \in drivers : OnCourse(d)

LEMMA LoneStep ==
  ASSUME SagaAssumption, Typed, Kept, NEW d \in drivers, OnCourse(d),
         Step(d) \/ Run(d) \/ QueryFails(d) \/ Crash(d)
  PROVE  Kept' /\ OnCourse(d)'
<1>0. /\ d \in Drivers /\ call \in [Drivers -> Locals] /\ CallOK(call[d]) /\ call[d] \in Locals
      /\ Key(d) \in Keys /\ Key(d)[1] \in 1 .. Steps /\ Key(d)[2] \in {"do", "undo"}
      /\ Key(d) = <<Key(d)[1], Key(d)[2]>>
      /\ row \in [Keys -> RowStatus \cup {None}] /\ did \in [Keys -> 0 .. 2]
      /\ record \in [1 .. Steps -> StepStatus \cup {None}] /\ faults \in Nat /\ Steps \in Nat
      /\ None \notin RowStatus \cup StepStatus \cup SagaStatus
      /\ None \notin {"running", "awaiting_step", "succeeded", "compensating", "compensated",
                     "compensation_failed"}
      /\ call[d].todo \in SUBSET (1 .. Steps)
      /\ \A i \in 1 .. Steps : <<i, "do">> \in Keys /\ <<i, "undo">> \in Keys
  <2>1. /\ d \in Drivers /\ call \in [Drivers -> Locals] /\ CallOK(call[d]) /\ call[d] \in Locals
        /\ row \in [Keys -> RowStatus \cup {None}] /\ did \in [Keys -> 0 .. 2]
        /\ record \in [1 .. Steps -> StepStatus \cup {None}] /\ faults \in Nat /\ Steps \in Nat
        /\ None \notin RowStatus \cup StepStatus \cup SagaStatus
    BY DEF SagaAssumption, Typed
  <2>2. Key(d) \in Keys /\ call[d].todo \in SUBSET (1 .. Steps)
    BY <2>1 DEF Locals, Key
  <2>3. /\ Key(d)[1] \in 1 .. Steps /\ Key(d)[2] \in {"do", "undo"}
        /\ Key(d) = <<Key(d)[1], Key(d)[2]>>
    BY <2>2, KeyParts
  <2>4. None \notin {"running", "awaiting_step", "succeeded", "compensating", "compensated",
                     "compensation_failed"}
    BY <2>1 DEF SagaStatus, StepStatus
  <2>5. \A i \in 1 .. Steps : <<i, "do">> \in Keys /\ <<i, "undo">> \in Keys
    BY DEF Keys
  <2> QED  BY <2>1, <2>2, <2>3, <2>4, <2>5, Zenon
<1> USE DEF Kept, OnCourse, Course, RowHeld, InOrder, ToUndo, NoneLost, Ahead, DidDo, Undone,
        Forth, RollingBack, Walking, UndoAt, InRun, At, Undoing, Key
<1>k. ~Undoing(d) => Key(d) = <<Key(d)[1], "do">> /\ (DidDo(Key(d)[1]) <=> did[Key(d)] # 0)
  BY SMTT(30), <1>0
<1>1. CASE Run(d)
  <2>1. /\ call'[d].key = call[d].key
        /\ \/ call'[d].pc = "forward" /\ status' \in {"running", "awaiting_step"} /\ status \in Forth
           \/ call'[d].pc = "compensate" /\ status \in RollingBack /\ status' = status
    BY <1>1, <1>0, GotoEffect DEF Run
  <2>2. UNCHANGED <<record, row, did, faults>>  BY <1>1 DEF Run, bounds
  <2>3. Kept'  BY <1>0, <2>1, <2>2
  <2>4. Course(d)'  BY <1>0, <2>1, <2>2
  <2>5. RowHeld(d)'  BY <1>0, <2>1, <2>2
  <2>6. InOrder(d)'  BY <1>0, <2>1, <2>2
  <2>7. ToUndo(d)'  BY <1>0, <2>1, <2>2
  <2>8. NoneLost(d)'  BY <1>0, <2>1, <2>2
  <2> QED  BY <2>3, <2>4, <2>5, <2>6, <2>7, <2>8
<1>2. CASE Forward(d)
  <2> DEFINE l == [Idle EXCEPT !.pc = "get"]
  <2>1. l.pc = "get" /\ l.key = <<1, "do">> /\ call' = [call EXCEPT ![d] = l]
    BY <1>2 DEF Forward, Become, Idle
  <2> HIDE DEF l
  <2>2. call'[d].pc = "get" /\ call'[d].key = <<1, "do">>  BY <1>0, <2>1
  <2>3. UNCHANGED <<record, row, did, faults>> /\ status' = "running" /\ call[d].pc = "forward"
    BY <1>2 DEF Forward, bounds
  <2>4. Kept'  BY <1>0, <2>2, <2>3
  <2>5. Course(d)'  BY <1>0, <2>2, <2>3
  <2>6. RowHeld(d)'  BY <1>0, <2>2, <2>3
  <2>7. InOrder(d)'  BY <1>0, <2>2, <2>3
  <2>8. ToUndo(d)'  BY <1>0, <2>2, <2>3
  <2>9. NoneLost(d)'  BY <1>0, <2>2, <2>3
  <2> QED  BY <2>4, <2>5, <2>6, <2>7, <2>8, <2>9
<1>a. ASSUME UNCHANGED <<status, record, did, faults>>, call[d].pc \in InRun,
             UNCHANGED row \/ \E s \in {"succeeded"} : SetRow(Key(d), s),
             row'[Key(d)] = "succeeded", did[Key(d)] > 0, Done(d)
      PROVE  Kept' /\ OnCourse(d)'
  <2>1. /\ call'[d].pc = "save" /\ call'[d].key = call[d].key /\ call'[d].todo = call[d].todo
        /\ call'[d].failures = call[d].failures
        /\ call'[d].outcome = IF Undoing(d) THEN "compensated" ELSE "succeeded"
    BY ZenonT(30), <1>a, <1>0, SaveEffect DEF Done
  <2>2. \A k \in Keys : row'[k] = IF k = Key(d) THEN "succeeded" ELSE row[k]
    BY <1>a, <1>0 DEF SetRow
  <2>3. Kept'
    <3>1. \A k \in Keys : row'[k] = "succeeded" => did[k] > 0  BY <1>a, <2>2
    <3>2. \A i \in 1 .. Steps : row[<<i, "do">>] = "succeeded" => row'[<<i, "do">>] = "succeeded"
      BY <1>0, <2>2
    <3> QED  BY <1>a, <3>1, <3>2
  <2>4. Course(d)'  BY <1>0, <1>a, <2>1, <2>2
  <2>5. RowHeld(d)'  BY <1>0, <1>a, <2>1, <2>2
  <2>6. InOrder(d)'  BY <1>0, <1>a, <2>1, <2>2
  <2>7. ToUndo(d)'  BY <1>0, <1>a, <2>1, <2>2
  <2>8. NoneLost(d)'  BY <1>0, <1>a, <2>1, <2>2
  <2> QED  BY <2>3, <2>4, <2>5, <2>6, <2>7, <2>8
<1>b. ASSUME UNCHANGED <<status, record, did>>, call[d].pc \in InRun \cup {"save", "advance"},
             faults' \in Nat, faults' = 0 => faults = 0,
             \A k \in Keys \ {Key(d)} : row'[k] = row[k],
             \/ row'[Key(d)] = row[Key(d)]
             \/ /\ row[Key(d)] # "succeeded" /\ row'[Key(d)] \in {"failed", "awaiting_approval"}
                /\ ~Undoing(d) /\ faults' = 0 => did[Key(d)] = 0,
             ~Undoing(d) /\ faults' = 0 => did[Key(d)] = 0 /\ row[Key(d)] # "succeeded",
             Thrown(d)
      PROVE  Kept' /\ OnCourse(d)'
  <2>1. /\ call'[d].key = call[d].key /\ call'[d].todo = call[d].todo
        /\ call'[d].failures = call[d].failures
        /\ Undoing(d) => call'[d].pc = "save" /\ call'[d].outcome = "compensation_failed"
        /\ ~Undoing(d) => call'[d].pc = "compensate"
    <3>1. CASE Undoing(d)
      <4>1. Become(d, [call[d] EXCEPT !.pc = "save", !.outcome = "compensation_failed"])
        BY <1>b, <3>1 DEF Thrown
      <4> QED  BY ZenonT(30), <1>0, <3>1, <4>1, SaveEffect
    <3>2. CASE ~Undoing(d)  BY <1>b, <1>0, <3>2, GotoEffect DEF Thrown
    <3> QED  BY <3>1, <3>2
  <2>2. ASSUME ~Undoing(d), faults' = 0, NEW i \in 1 .. Steps, DidDo(i) PROVE record[i] # None
    <3>1. CASE i < Key(d)[1]  BY <1>0, <1>b, <2>2, <3>1
    <3>2. i # Key(d)[1]  BY <1>0, <1>k, <1>b, <2>2
    <3>3. CASE i > Key(d)[1]
      <4>1. record[Key(d)[1]] # None  BY <1>0, <2>2, <3>3
      <4>2. status \in Forth  BY <1>0, <1>b, <2>2
      <4>3. record[Key(d)[1]] = "succeeded"  BY <1>0, <4>1, <4>2
      <4> QED  BY <1>0, <1>k, <1>b, <2>2, <4>3
    <3> QED  BY <1>0, <3>1, <3>2, <3>3
  <2>j. \A k \in Keys : row'[k] = "succeeded" <=> row[k] = "succeeded"  BY <1>0, <1>b
  <2>k. ASSUME faults' = 0, NEW i \in 1 .. Steps, DidDo(i) PROVE row'[<<i, "do">>] \in {"running", "succeeded"}
    <3>1. row[<<i, "do">>] \in {"running", "succeeded"} /\ did[<<i, "do">>] # 0  BY <1>0, <1>b, <2>k
    <3>2. CASE Key(d) # <<i, "do">>  BY <1>0, <1>b, <3>1, <3>2
    <3>3. CASE Key(d) = <<i, "do">>  BY <1>0, <1>b, <2>k, <3>1, <3>3
    <3> QED  BY <3>2, <3>3
  <2>3. Kept'  BY <1>0, <1>b, <2>1, <2>2, <2>j, <2>k
  <2>4. Course(d)'  BY <1>0, <1>b, <2>1, <2>2, <2>j, <2>k
  <2>5. RowHeld(d)'  BY <1>0, <1>b, <2>1, <2>2, <2>j, <2>k
  <2>6. InOrder(d)'  BY <1>0, <1>b, <2>1, <2>2, <2>j, <2>k
  <2>7. ToUndo(d)'  BY <1>0, <1>b, <2>1, <2>2, <2>j, <2>k
  <2>8. NoneLost(d)'  BY SMTT(30), <1>0, <1>b, <2>1, <2>2, <2>j, <2>k
  <2> QED  BY <2>3, <2>4, <2>5, <2>6, <2>7, <2>8
<1>c. ASSUME UNCHANGED <<status, record, did, faults>>, call[d].pc \in InRun,
             \A k \in Keys \ {Key(d)} : row'[k] = row[k],
             \/ row'[Key(d)] = row[Key(d)]
             \/ /\ row[Key(d)] # "succeeded" /\ row'[Key(d)] \in {"failed", "awaiting_approval"}
                /\ ~Undoing(d) /\ faults = 0 => did[Key(d)] = 0,
             Parked(d)
      PROVE  Kept' /\ OnCourse(d)'
  <2>1. CASE Undoing(d)  BY <1>0, <1>b, <1>c, <2>1 DEF Parked
  <2>2. CASE ~Undoing(d)
    <3>1. call'[d].pc = "pause" /\ call'[d].key = call[d].key
      BY <1>c, <1>0, <2>2, GotoEffect DEF Parked
    <3>j. \A k \in Keys : row'[k] = "succeeded" <=> row[k] = "succeeded"  BY <1>0, <1>c
    <3>k. ASSUME faults = 0, NEW i \in 1 .. Steps, DidDo(i) PROVE row'[<<i, "do">>] \in {"running", "succeeded"}
      <4>1. row[<<i, "do">>] \in {"running", "succeeded"} /\ did[<<i, "do">>] # 0  BY <1>0, <1>c, <3>k
      <4>2. CASE Key(d) # <<i, "do">>  BY <1>0, <1>c, <4>1, <4>2
      <4>3. CASE Key(d) = <<i, "do">>  BY <1>0, <1>c, <3>k, <4>1, <4>3
      <4> QED  BY <4>2, <4>3
    <3>2. Kept'  BY <1>0, <1>c, <2>2, <3>1, <3>j, <3>k
    <3>3. Course(d)'  BY <1>0, <1>c, <2>2, <3>1, <3>j, <3>k
    <3>4. RowHeld(d)'  BY <1>0, <1>c, <2>2, <3>1, <3>j, <3>k
    <3>5. InOrder(d)'  BY <1>0, <1>c, <2>2, <3>1, <3>j, <3>k
    <3>6. ToUndo(d)'  BY <1>0, <1>c, <2>2, <3>1, <3>j, <3>k
    <3>7. NoneLost(d)'  BY SMTT(30), <1>0, <1>c, <2>2, <3>1, <3>j, <3>k
    <3> QED  BY <3>2, <3>3, <3>4, <3>5, <3>6, <3>7
  <2> QED  BY SMTT(30), <2>1, <2>2
<1>3. CASE Get(d)
  <2>0. UNCHANGED <<status, record, row, did, faults>> /\ call[d].pc = "get"
    BY <1>3 DEF Get, bounds
  <2>1. CASE row[Key(d)] = "succeeded" /\ Done(d)  BY <1>0, <1>a, <2>0, <2>1
  <2>2. CASE row[Key(d)] \in {"running", "awaiting_approval"} /\ Parked(d)
    BY <1>0, <1>c, <2>0, <2>2
  <2>3. CASE row[Key(d)] = "rejected" /\ Thrown(d)
    <3>1. ~Undoing(d) /\ faults = 0 => did[Key(d)] = 0  BY <1>0, <1>k, <2>0, <2>3
    <3> QED  BY <1>0, <1>b, <2>0, <2>3, <3>1
  <2>4. CASE (row[Key(d)] = None /\ Goto(d, "claim"))
             \/ (row[Key(d)] \in {"approved", "failed"} /\ Goto(d, Entrance(Key(d))))
    <3>1. /\ call'[d].key = call[d].key /\ call'[d].todo = call[d].todo
          /\ call'[d].failures = call[d].failures
          /\ \/ call'[d].pc = "claim" /\ row[Key(d)] = None
             \/ call'[d].pc \in {"park", "start"} /\ row[Key(d)] \in {"approved", "failed"}
      BY <1>0, <2>4, GotoEffect DEF Entrance
    <3>2. Kept'  BY <1>0, <2>0, <3>1
    <3>3. Course(d)'  BY <1>0, <2>0, <3>1
    <3>4. RowHeld(d)'  BY <1>0, <2>0, <3>1
    <3>5. InOrder(d)'  BY <1>0, <2>0, <3>1
    <3>6. ToUndo(d)'  BY <1>0, <2>0, <3>1
    <3>7. NoneLost(d)'  BY <1>0, <2>0, <3>1
    <3> QED  BY <3>2, <3>3, <3>4, <3>5, <3>6, <3>7
  <2> QED  BY <1>3, <2>1, <2>2, <2>3, <2>4 DEF Get
<1>d. ASSUME UNCHANGED <<status, record, did>>, call[d].pc \in InRun,
             faults' = 0 => faults = 0 /\ (~Undoing(d) => did[Key(d)] = 0),
             \A k \in Keys \ {Key(d)} : row'[k] = row[k], row[Key(d)] # "succeeded",
             row'[Key(d)] \in {"running", "approved", "failed"},
             NEW p \in {"park", "start", "perform", "fail"}, Goto(d, p),
             p \in {"perform", "fail"} => row'[Key(d)] = "running"
      PROVE  Kept' /\ OnCourse(d)'
  <2>1. /\ call'[d].key = call[d].key /\ call'[d].todo = call[d].todo
        /\ call'[d].failures = call[d].failures /\ call'[d].pc = p
    BY <1>d, <1>0, GotoEffect
  <2>2. \A k \in Keys : row'[k] = "succeeded" <=> row[k] = "succeeded"  BY <1>0, <1>d
  <2>3. ASSUME faults' = 0, NEW i \in 1 .. Steps, DidDo(i)
        PROVE  row'[<<i, "do">>] \in {"running", "succeeded"} /\ Key(d) # <<i, "do">>
    <3>1. row[<<i, "do">>] \in {"running", "succeeded"} /\ did[<<i, "do">>] # 0  BY <1>0, <1>d, <2>3
    <3>2. Key(d) # <<i, "do">>
      <4> SUFFICES ASSUME Key(d) = <<i, "do">> PROVE FALSE  OBVIOUS
      <4>1. ~Undoing(d)  OBVIOUS
      <4> QED  BY <1>d, <2>3, <3>1, <4>1
    <3> QED  BY <1>0, <1>d, <3>1, <3>2
  <2>4. Kept'  BY <1>0, <1>d, <2>1, <2>2, <2>3
  <2>5. Course(d)'  BY <1>0, <1>d, <2>1, <2>2, <2>3
  <2>6. RowHeld(d)'  BY <1>0, <1>d, <2>1, <2>2, <2>3
  <2>7. InOrder(d)'  BY <1>0, <1>d, <2>1, <2>2, <2>3
  <2>8. ToUndo(d)'  BY <1>0, <1>d, <2>1, <2>2, <2>3
  <2>9. NoneLost(d)'  BY SMTT(30), <1>0, <1>d, <2>1, <2>2, <2>3
  <2> QED  BY <2>4, <2>5, <2>6, <2>7, <2>8, <2>9
<1>4. CASE Claim(d)
  <2>0. UNCHANGED <<status, record, did, faults>> /\ call[d].pc = "claim" /\ row[Key(d)] = None
    BY <1>4, <1>0 DEF Claim, bounds
  <2>1. /\ Goto(d, Entrance(Key(d))) /\ row'[Key(d)] = "running"
        /\ \A k \in Keys \ {Key(d)} : row'[k] = row[k]
    BY <1>4, <1>0, <2>0 DEF Claim, SetRow
  <2>2. Entrance(Key(d)) \in {"park", "start"}  BY DEF Entrance
  <2>3. ~Undoing(d) /\ faults = 0 => did[Key(d)] = 0  BY <1>0, <1>k, <2>0
  <2> QED  BY <1>0, <1>d, <2>0, <2>1, <2>2, <2>3
<1>5. CASE MarkAwaitingApproval(d)
  <2>0. UNCHANGED <<status, record, did, faults>> /\ call[d].pc = "park" /\ Parked(d)
    BY <1>5 DEF MarkAwaitingApproval, bounds
  <2>1. row'[Key(d)] = "awaiting_approval" /\ \A k \in Keys \ {Key(d)} : row'[k] = row[k]
    BY <1>5, <1>0 DEF MarkAwaitingApproval, SetRow
  <2>2. ~Undoing(d) /\ faults = 0 => did[Key(d)] = 0  BY SMTT(30), <1>0, <1>k, <2>0
  <2> QED  BY <1>0, <1>c, <2>0, <2>1, <2>2
<1>6. CASE MarkRunning(d)
  <2>0. UNCHANGED <<status, record, did, faults>> /\ call[d].pc = "start" /\ Goto(d, "perform")
    BY <1>6 DEF MarkRunning, bounds
  <2>1. row'[Key(d)] = "running" /\ \A k \in Keys \ {Key(d)} : row'[k] = row[k]
    BY <1>6, <1>0 DEF MarkRunning, SetRow
  <2>2. ~Undoing(d) /\ faults = 0 => did[Key(d)] = 0  BY <1>0, <1>k, <2>0
  <2> QED  BY ZenonT(30), <1>0, <1>d, <2>0, <2>1, <2>2
<1>7. CASE Perform(d)
  <2>0. /\ UNCHANGED <<status, record, row, faults>> /\ call[d].pc = "perform"
    BY <1>7 DEF Perform, bounds
  <2>1. /\ call'[d].key = call[d].key /\ call'[d].todo = call[d].todo
        /\ call'[d].failures = call[d].failures /\ call'[d].pc = "mark"
    BY <1>7, <1>0, GotoEffect DEF Perform
  <2>2. did'[Key(d)] > 0 /\ \A k \in Keys \ {Key(d)} : did'[k] = did[k]
    <3> DEFINE m == did[Key(d)]
               n == Min({2, m + 1})
    <3>1. m \in Nat  BY <1>0
    <3>2. did' = [did EXCEPT ![Key(d)] = n]  BY <1>7 DEF Perform
    <3> HIDE DEF m
    <3>3. n \in {2, m + 1}  BY <3>1, MinMember
    <3> HIDE DEF n
    <3>4. n > 0  BY <3>1, <3>3
    <3> QED  BY <1>0, <3>2, <3>4
  <2>3. \A k \in Keys : did[k] > 0 => did'[k] > 0  BY <1>0, <2>2
  <2>u. \A i \in 1 .. Steps : Undone(i)' => Undone(i) \/ Undoing(d)
    <3> TAKE i \in 1 .. Steps
    <3>1. <<i, "undo">> # Key(d) => did'[<<i, "undo">>] = did[<<i, "undo">>]  BY <1>0, <2>2
    <3> QED  BY <3>1
  <2>d. \A i \in 1 .. Steps : DidDo(i)' => DidDo(i) \/ (~Undoing(d) /\ Key(d)[1] = i)
    <3> TAKE i \in 1 .. Steps
    <3>1. <<i, "do">> # Key(d) => did'[<<i, "do">>] = did[<<i, "do">>]  BY <1>0, <2>2
    <3> QED  BY <3>1
  <2>4. Kept'  BY <1>0, <1>k, <2>0, <2>1, <2>2, <2>3, <2>u, <2>d
  <2>5. Course(d)'  BY <1>0, <1>k, <2>0, <2>1, <2>2, <2>3, <2>u, <2>d
  <2>6. RowHeld(d)'  BY <1>0, <1>k, <2>0, <2>1, <2>2, <2>3, <2>u, <2>d
  <2>7. InOrder(d)'
    <3>1. ASSUME NEW i \in 1 .. Steps, DidDo(i)', NEW j \in 1 .. i - 1 PROVE record'[j] # None
      <4>1. CASE DidDo(i)  BY <2>0, <3>1, <4>1
      <4>2. CASE ~Undoing(d) /\ Key(d)[1] = i  BY <2>0, <3>1, <4>2
      <4> QED  BY <2>d, <3>1, <4>1, <4>2
    <3>2. ASSUME Walking(d)', NEW j \in 1 .. Key(d)[1] - 1 PROVE record'[j] # None /\ DidDo(j)'
      <4>1. Walking(d) /\ j \in 1 .. Steps  BY <1>0, <2>0, <2>1, <3>2
      <4> QED  BY <1>0, <2>0, <2>3, <3>2, <4>1
    <3> QED  BY <2>1, <3>1, <3>2
  <2>8. ToUndo(d)'  BY <1>0, <1>k, <2>0, <2>1, <2>2, <2>3, <2>u, <2>d
  <2>9. NoneLost(d)'  BY ZenonT(30), <1>0, <1>k, <2>0, <2>1, <2>2, <2>3, <2>u, <2>d
  <2> QED  BY <2>4, <2>5, <2>6, <2>7, <2>8, <2>9
<1>8. CASE PerformThrows(d)
  <2>0. UNCHANGED <<status, record, row, did, faults>> /\ call[d].pc = "perform" /\ Goto(d, "fail")
    BY <1>8 DEF PerformThrows, bounds
  <2>2. ~Undoing(d) /\ faults = 0 => did[Key(d)] = 0  BY <1>0, <1>k, <2>0
  <2> QED  BY ZenonT(30), <1>0, <1>d, <2>0, <2>2
<1>9. CASE MarkSucceeded(d)
  <2>1. /\ UNCHANGED <<status, record, did, faults>> /\ call[d].pc = "mark"
        /\ SetRow(Key(d), "succeeded") /\ Done(d)
    BY <1>9 DEF MarkSucceeded, bounds
  <2>2. row'[Key(d)] = "succeeded" /\ did[Key(d)] > 0  BY SMTT(30), <1>0, <2>1 DEF SetRow
  <2> QED  BY <1>0, <1>a, <2>1, <2>2
<1>10. CASE MarkFailed(d)
  <2>0. UNCHANGED <<status, record, did, faults>> /\ call[d].pc = "fail" /\ Thrown(d)
    BY <1>10 DEF MarkFailed, bounds
  <2>1. row'[Key(d)] = "failed" /\ \A k \in Keys \ {Key(d)} : row'[k] = row[k]
    BY <1>10, <1>0 DEF MarkFailed, SetRow
  <2>2. ~Undoing(d) /\ faults = 0 => did[Key(d)] = 0  BY SMTT(30), <1>0, <1>k, <2>0
  <2> QED  BY <1>0, <1>b, <2>0, <2>1, <2>2
<1>11. CASE Save(d)
  <2>0. UNCHANGED <<status, row, did, faults>> /\ call[d].pc = "save"
    BY <1>11 DEF Save, bounds
  <2>1. /\ record'[Key(d)[1]] = call[d].outcome
        /\ \A j \in (1 .. Steps) \ {Key(d)[1]} : record'[j] = record[j]
        /\ call[d].outcome \in StepStatus
    BY <1>11, <1>0 DEF Save, Locals
  <2>2. \A j \in 1 .. Steps : record[j] # None => record'[j] # None  BY <1>0, <2>1
  <2>3. CASE ~Undoing(d)
    <3>1. call'[d].key = call[d].key /\ call'[d].pc = "advance"
      BY <1>11, <1>0, <2>3, GotoEffect DEF Save
    <3>2. record'[Key(d)[1]] = "succeeded"  BY <2>0, <2>1, <2>3
    <3>3. Kept'  BY SMTT(30), <1>0, <2>0, <2>1, <2>2, <2>3, <3>1, <3>2
    <3>4. Course(d)'  BY <1>0, <2>0, <2>1, <2>2, <2>3, <3>1, <3>2
    <3>5. RowHeld(d)'  BY <1>0, <2>0, <2>1, <2>2, <2>3, <3>1, <3>2
    <3>6. InOrder(d)'  BY <1>0, <2>0, <2>1, <2>2, <2>3, <3>1, <3>2
    <3>7. ToUndo(d)'  BY <1>0, <2>0, <2>1, <2>2, <2>3, <3>1, <3>2
    <3>8. NoneLost(d)'  BY <1>0, <2>0, <2>1, <2>2, <2>3, <3>1, <3>2
    <3> QED  BY <3>3, <3>4, <3>5, <3>6, <3>7, <3>8
  <2>4. CASE Undoing(d)
    <3> DEFINE b == call[d].failures \/ call[d].outcome = "compensation_failed"
               l == [call[d] EXCEPT !.failures = b]
    <3>1. b \in BOOLEAN  BY <1>0 DEF Locals
    <3>2. NextUndo(d, l)  BY <1>11, <2>4 DEF Save
    <3>b. b <=> call[d].failures \/ call[d].outcome = "compensation_failed"  OBVIOUS
    <3> HIDE DEF b
    <3>3. /\ l \in Locals /\ l.failures = b /\ l.todo = call[d].todo /\ l.key = call[d].key
      BY <1>0, <3>1 DEF Locals
    <3> HIDE DEF l
    <3>4. /\ call'[d].failures = b
          /\ \/ call[d].todo = {} /\ call'[d].pc = "settle" /\ call'[d].key = call[d].key
             \/ \E i \in call[d].todo :
                  /\ call'[d].key = <<i, "undo">> /\ call'[d].outcome = "compensated"
                  /\ call'[d].todo = call[d].todo \ {i}
                  /\ call'[d].pc = IF i \in NoUndo THEN "save" ELSE "get"
      BY <1>0, <3>2, <3>3, NextUndoEffect
    <3>5. record'[Key(d)[1]] \in {"compensated", "compensation_failed"} /\ status = "compensating"
      BY <1>0, <2>0, <2>1, <2>4 DEF StepStatus
    <3>6. Kept'
      <4>1. \A i \in 1 .. Steps : i # Key(d)[1] => record'[i] = record[i]  BY <2>1
      <4>2. \A i \in 1 .. Steps : record'[i] = "succeeded" => record[i] = "succeeded"
        BY <3>5, <4>1
      <4>3. \A i \in 1 .. Steps : record'[i] = "compensated" /\ i \notin NoUndo => Undone(i)
        <5>1. record'[Key(d)[1]] = "compensated" /\ Key(d)[1] \notin NoUndo => Undone(Key(d)[1])
          BY <1>0, <2>0, <2>1, <2>4
        <5> QED  BY <4>1, <5>1
      <4> QED  BY <2>0, <3>5, <4>2, <4>3
    <3>7. Course(d)'  BY <1>0, <2>0, <2>1, <2>2, <2>4, <3>b, <3>4, <3>5
    <3>8. RowHeld(d)'  BY <1>0, <2>0, <2>1, <2>2, <2>4, <3>b, <3>4, <3>5
    <3>9. InOrder(d)'  BY <1>0, <2>0, <2>1, <2>2, <2>4, <3>b, <3>4, <3>5
    <3>10. ToUndo(d)'
      <4> SUFFICES ASSUME NEW j \in 1 .. Steps
                   PROVE  /\ record'[j] = "succeeded" => j \in Ahead(d)'
                          /\ record'[j] = "compensation_failed" => j \in Ahead(d)' \/ call'[d].failures
        OBVIOUS
      <4>1. /\ record'[j] = "succeeded" => j \in call[d].todo
            /\ record'[j] = "compensation_failed" => j \in call[d].todo \/ b
        BY <1>0, <2>0, <2>1, <2>4, <3>b, <3>5
      <4>2. j \in call[d].todo => j \in Ahead(d)'
        <5>1. CASE call[d].todo = {}  BY <5>1
        <5>2. ASSUME NEW i \in call[d].todo, call'[d].key = <<i, "undo">>,
                     call'[d].todo = call[d].todo \ {i}, call'[d].pc # "settle"
              PROVE  j \in call[d].todo => j \in Ahead(d)'
          BY <5>2
        <5> QED  BY <3>4, <5>1, <5>2
      <4> QED  BY <3>4, <4>1, <4>2
    <3>11. NoneLost(d)'  BY SMTT(30), <1>0, <2>0, <2>1, <2>2, <2>4, <3>b, <3>4, <3>5
    <3> QED  BY <3>6, <3>7, <3>8, <3>9, <3>10, <3>11
  <2> QED  BY <2>3, <2>4
<1>12. CASE Advance(d)
  <2>0. UNCHANGED <<status, record, row, did, faults>> /\ call[d].pc = "advance" /\ ~Undoing(d)
    BY <1>12, <1>0 DEF Advance, bounds
  <2>1. DidDo(Key(d)[1]) /\ record[Key(d)[1]] # None  BY <1>0, <1>k, <2>0
  <2>2. CASE Key(d)[1] = Steps
    <3>1. call'[d].key = call[d].key /\ call'[d].pc = "succeed"
      BY <1>12, <1>0, <2>2, GotoEffect DEF Advance
    <3>2. Kept'  BY <1>0, <2>0, <2>1, <2>2, <3>1
    <3>3. Course(d)'  BY <1>0, <2>0, <2>1, <2>2, <3>1
    <3>4. RowHeld(d)'  BY <1>0, <2>0, <2>1, <2>2, <3>1
    <3>5. InOrder(d)'  BY <1>0, <2>0, <2>1, <2>2, <3>1
    <3>6. ToUndo(d)'  BY <1>0, <2>0, <2>1, <2>2, <3>1
    <3>7. NoneLost(d)'  BY <1>0, <2>0, <2>1, <2>2, <3>1
    <3> QED  BY <3>2, <3>3, <3>4, <3>5, <3>6, <3>7
  <2>3. CASE Key(d)[1] # Steps
    <3> DEFINE l == [call[d] EXCEPT !.pc = "get", !.key = <<@[1] + 1, "do">>]
    <3>1. call' = [call EXCEPT ![d] = l]  BY <1>12, <2>3 DEF Advance, Become
    <3>2. l.pc = "get" /\ l.key = <<Key(d)[1] + 1, "do">>  BY <1>0 DEF Locals
    <3> HIDE DEF l
    <3>3. call'[d].pc = "get" /\ call'[d].key = <<Key(d)[1] + 1, "do">>  BY <1>0, <3>1, <3>2
    <3>4. Kept'  BY <1>0, <2>0, <2>1, <2>3, <3>3
    <3>5. Course(d)'  BY <1>0, <2>0, <2>1, <2>3, <3>3
    <3>6. RowHeld(d)'  BY <1>0, <2>0, <2>1, <2>3, <3>3
    <3>7. InOrder(d)'
      <4>1. \A j \in 1 .. Key(d)[1] : record[j] # None /\ DidDo(j)
        <5> TAKE j \in 1 .. Key(d)[1]
        <5>1. CASE j = Key(d)[1]  BY <2>1, <5>1
        <5>2. CASE j # Key(d)[1]
          <6>1. j \in 1 .. Key(d)[1] - 1 /\ Walking(d)  BY <1>0, <2>0, <5>2
          <6> QED  BY <6>1
        <5> QED  BY <5>1, <5>2
      <4>2. call'[d].key[1] - 1 = Key(d)[1]  BY <1>0, <3>3
      <4> QED  BY <1>0, <2>0, <3>3, <4>1, <4>2
    <3>8. ToUndo(d)'  BY <1>0, <2>0, <2>1, <2>3, <3>3
    <3>9. NoneLost(d)'  BY <1>0, <2>0, <2>1, <2>3, <3>3
    <3> QED  BY <3>4, <3>5, <3>6, <3>7, <3>8, <3>9
  <2> QED  BY <2>2, <2>3
<1>13. CASE Pause(d)
  <2>1. /\ UNCHANGED <<record, row, did, faults>> /\ call[d].pc = "pause"
        /\ status' = "awaiting_step" /\ call'[d].pc = "idle" /\ call'[d].key = <<1, "do">>
    BY <1>13, <1>0, ReturnEffect DEF Pause, bounds
  <2>2. Kept'  BY <1>0, <2>1
  <2>3. Course(d)'  BY <1>0, <2>1
  <2>4. RowHeld(d)'  BY <1>0, <2>1
  <2>5. InOrder(d)'  BY <1>0, <2>1
  <2>6. ToUndo(d)'  BY <1>0, <2>1
  <2>7. NoneLost(d)'  BY <1>0, <2>1
  <2> QED  BY <2>2, <2>3, <2>4, <2>5, <2>6, <2>7
<1>14. CASE Succeed(d)
  <2>1. /\ UNCHANGED <<record, row, did, faults>> /\ call[d].pc = "succeed"
        /\ status' = "succeeded" /\ call'[d].pc = "idle" /\ call'[d].key = <<1, "do">>
    BY <1>14, <1>0, ReturnEffect DEF Succeed, bounds
  <2>2. \A i \in 1 .. Steps : DidDo(i)
    <3>1. ~Undoing(d) /\ Key(d)[1] = Steps  BY <1>0, <2>1
    <3>2. DidDo(Steps)  BY <1>0, <1>k, <2>1, <3>1
    <3>3. \A i \in 1 .. Steps - 1 : DidDo(i)  BY <1>0, <2>1, <3>1
    <3>4. \A i \in 1 .. Steps : i = Steps \/ i \in 1 .. Steps - 1  BY <1>0
    <3> HIDE DEF DidDo
    <3> QED  BY <3>2, <3>3, <3>4
  <2>3. Kept'  BY <1>0, <2>1, <2>2
  <2>4. Course(d)'  BY <1>0, <2>1, <2>2
  <2>5. RowHeld(d)'  BY <1>0, <2>1, <2>2
  <2>6. InOrder(d)'  BY <1>0, <2>1, <2>2
  <2>7. ToUndo(d)'  BY <1>0, <2>1, <2>2
  <2>8. NoneLost(d)'  BY <1>0, <2>1, <2>2
  <2> QED  BY <2>3, <2>4, <2>5, <2>6, <2>7, <2>8
<1>15. CASE Compensate(d)
  <2>1. /\ UNCHANGED <<record, row, did, faults>> /\ call[d].pc = "compensate"
        /\ status' = "compensating" /\ call'[d].pc = "plan" /\ call'[d].key = call[d].key
    BY <1>15, <1>0, GotoEffect DEF Compensate, bounds
  <2>2. Kept'  BY <1>0, <2>1
  <2>3. Course(d)'  BY <1>0, <2>1
  <2>4. RowHeld(d)'  BY <1>0, <2>1
  <2>5. InOrder(d)'  BY <1>0, <2>1
  <2>6. ToUndo(d)'  BY <1>0, <2>1
  <2>7. NoneLost(d)'  BY <1>0, <2>1
  <2> QED  BY <2>2, <2>3, <2>4, <2>5, <2>6, <2>7
<1>16. CASE Plan(d)
  <2> DEFINE l == [call[d] EXCEPT !.failures = FALSE, !.todo = Standing]
  <2>0. UNCHANGED <<status, record, row, did, faults>> /\ call[d].pc = "plan" /\ NextUndo(d, l)
    BY <1>16 DEF Plan, bounds
  <2>1. /\ l \in Locals /\ l.failures = FALSE /\ l.todo = Standing /\ l.key = call[d].key
    BY <1>0 DEF Locals, Standing
  <2> HIDE DEF l
  <2>2. \/ Standing = {} /\ call'[d].pc = "settle"
        \/ \E i \in Standing :
             /\ call'[d].key = <<i, "undo">> /\ call'[d].outcome = "compensated"
             /\ call'[d].todo = Standing \ {i}
             /\ call'[d].pc = IF i \in NoUndo THEN "save" ELSE "get"
    BY <1>0, <2>0, <2>1, NextUndoEffect
  <2>3. Kept'  BY <1>0, <2>0, <2>2 DEF Standing
  <2>4. Course(d)'  BY <1>0, <2>0, <2>2 DEF Standing
  <2>5. RowHeld(d)'  BY <1>0, <2>0, <2>2 DEF Standing
  <2>6. InOrder(d)'  BY <1>0, <2>0, <2>2 DEF Standing
  <2>7. ToUndo(d)'
    <3>1. CASE Standing = {} /\ call'[d].pc = "settle"  BY <2>0, <3>1 DEF Standing
    <3>2. ASSUME NEW i \in Standing, call'[d].key = <<i, "undo">>,
                 call'[d].todo = Standing \ {i}, call'[d].pc # "settle"
          PROVE  ToUndo(d)'
      <4>1. Ahead(d)' = Standing  BY <3>2
      <4> QED  BY <2>0, <4>1 DEF Standing
    <3> QED  BY <2>2, <3>1, <3>2
  <2>8. NoneLost(d)'  BY <1>0, <2>0, <2>2 DEF Standing
  <2> QED  BY <2>3, <2>4, <2>5, <2>6, <2>7, <2>8
<1>17. CASE Settle(d)
  <2>1. /\ UNCHANGED <<record, row, did, faults>> /\ call[d].pc = "settle"
        /\ status' = IF call[d].failures THEN "compensation_failed" ELSE "compensated"
        /\ call'[d].pc = "idle" /\ call'[d].key = <<1, "do">>
    BY <1>17, <1>0, ReturnEffect DEF Settle, bounds
  <2>2. Kept'  BY <1>0, <2>1
  <2>3. Course(d)'  BY <1>0, <2>1
  <2>4. RowHeld(d)'  BY <1>0, <2>1
  <2>5. InOrder(d)'  BY <1>0, <2>1
  <2>6. ToUndo(d)'  BY <1>0, <2>1
  <2>7. NoneLost(d)'  BY SMTT(30), <1>0, <2>1
  <2> QED  BY <2>2, <2>3, <2>4, <2>5, <2>6, <2>7
<1>18. CASE QueryFails(d)
  <2>0. UNCHANGED <<status, record, row, did>> /\ faults' \in Nat \ {0}
    BY SMTT(30), <1>18, <1>0 DEF QueryFails
  <2>1. CASE Thrown(d) /\ call[d].pc \in InRun \cup {"save", "advance"}
    BY SMTT(30), <1>0, <1>b, <2>0, <2>1
  <2>2. CASE call[d].pc = "mark" /\ (Goto(d, "start") \/ Goto(d, "fail"))
    BY ZenonT(30), <1>0, <1>d, <2>0, <2>2
  <2> QED  BY <1>18, <2>1, <2>2 DEF QueryFails
<1>19. CASE Crash(d)
  <2>1. /\ UNCHANGED <<status, record, row, did, faults>> /\ call[d].pc # "idle"
        /\ call'[d].pc = "idle" /\ call'[d].key = <<1, "do">>
    BY <1>19, <1>0, ReturnEffect DEF Crash
  <2>2. Kept'  BY <1>0, <2>1
  <2>3. Course(d)'  BY <1>0, <2>1
  <2>4. RowHeld(d)'  BY <1>0, <2>1
  <2>5. InOrder(d)'  BY <1>0, <2>1
  <2>6. ToUndo(d)'  BY <1>0, <2>1
  <2>7. NoneLost(d)'  BY <1>0, <2>1
  <2> QED  BY <2>2, <2>3, <2>4, <2>5, <2>6, <2>7
<1> QED
  BY ZenonT(30), <1>1, <1>2, <1>3, <1>4, <1>5, <1>6, <1>7, <1>8, <1>9, <1>10, <1>11, <1>12, <1>13, <1>14,
     <1>15, <1>16, <1>17, <1>18, <1>19 DEF Step

(* A review touches a row that nobody is at the work of.                   *)
LEMMA LoneReview ==
  ASSUME SagaAssumption, Typed, Kept, NEW k \in Keys, Review(k)
  PROVE  Kept' /\ \A d \in drivers : OnCourse(d) => OnCourse(d)'
<1>0. /\ row \in [Keys -> RowStatus \cup {None}] /\ None \notin RowStatus
      /\ \A i \in 1 .. Steps : <<i, "do">> \in Keys
  BY DEF SagaAssumption, Typed, Keys
<1>1. /\ UNCHANGED <<status, record, call, drivers, did, faults>> /\ row[k] = "awaiting_approval"
      /\ row'[k] \in {"approved", "rejected"} /\ \A j \in Keys \ {k} : row'[j] = row[j]
  BY <1>0 DEF Review, SetRow, bounds
<1>2. \A j \in Keys : row[j] \in {None, "running", "approved", "failed", "succeeded"} => row'[j] = row[j]
  BY <1>0, <1>1 DEF RowStatus
<1>3. \A j \in Keys : row'[j] = "succeeded" => row[j] = "succeeded"
  BY <1>0, <1>1
<1>4. Kept'  BY <1>0, <1>1, <1>2, <1>3 DEF Kept, Undone, DidDo
<1> SUFFICES ASSUME NEW d \in drivers, OnCourse(d) PROVE OnCourse(d)'
  BY <1>4
<1>5. Key(d) \in Keys  BY DEF Typed, Locals, Key
<1>6. Course(d)' /\ InOrder(d)' /\ ToUndo(d)'
  BY <1>1 DEF Course, InOrder, ToUndo, OnCourse, Walking, UndoAt, At, Undoing, Key, DidDo, Ahead
<1>7. RowHeld(d)'
  BY <1>1, <1>2, <1>5 DEF RowHeld, OnCourse, Walking, UndoAt, At, Undoing, Key, Undone
<1>8. NoneLost(d)'
  BY <1>0, <1>1, <1>2 DEF NoneLost, OnCourse, At, Key, DidDo
<1> QED  BY <1>6, <1>7, <1>8 DEF OnCourse

LEMMA DriversStay ==
  ASSUME [Next]_vars
  PROVE  drivers' = drivers
BY ZenonT(30) DEF Next, Step, vars, bounds, Run, Forward, Get, Claim, MarkAwaitingApproval, MarkRunning,
   Perform, PerformThrows, MarkSucceeded, MarkFailed, Save, Advance, Pause, Succeed,
   Compensate, Plan, Settle, Crash, QueryFails, Review

LEMMA NextLone ==
  ASSUME SagaAssumption, Typed, LoneInv, [Next]_vars
  PROVE  LoneInv'
<1>1. drivers' = drivers /\ Typed'  BY NextType, DriversStay
<1> SUFFICES ASSUME Alone PROVE Kept' /\ \A d \in drivers : OnCourse(d)'
  BY <1>1 DEF LoneInv, Alone
<1>2. Kept /\ \A d \in drivers : OnCourse(d)  BY DEF LoneInv
<1>3. ASSUME NEW d \in drivers, Step(d) \/ Run(d) \/ QueryFails(d) \/ Crash(d)
      PROVE  Kept' /\ \A e \in drivers : OnCourse(e)'
  <2>1. Kept' /\ OnCourse(d)'  BY <1>2, <1>3, LoneStep
  <2>2. \A e \in drivers : e = d  BY DEF Alone
  <2> QED  BY <2>1, <2>2
<1>4. ASSUME NEW k \in Keys, Review(k) PROVE Kept' /\ \A e \in drivers : OnCourse(e)'
  BY <1>2, <1>4, LoneReview
<1>5. CASE UNCHANGED vars
  BY <1>2, <1>5 DEF vars, OnCourse, Kept, Course, RowHeld, InOrder, ToUndo, NoneLost, Ahead,
     DidDo, Undone, Walking, UndoAt, At, Undoing, Key
<1> QED  BY <1>3, <1>4, <1>5 DEF Next

LEMMA InitLone ==
  ASSUME SagaAssumption, Init
  PROVE  LoneInv
BY DEF SagaAssumption, Init, Idle, LoneInv, OnCourse, Kept, Course, RowHeld, InOrder, ToUndo,
   NoneLost, Ahead, DidDo, Undone, Walking, UndoAt, At, Undoing, Key, InRun, Keys, RollingBack,
   Forth, SagaStatus, StepStatus, RowStatus

(* What a lone driver leaves undone is at most the one step whose record   *)
(* was lost to a failed query.                                             *)
LEMMA OneLeft ==
  ASSUME SagaAssumption, Typed, LoneInv, Alone, drivers # {}, status = "compensated"
  PROVE  Cardinality(Left) <= faults
<1>0. PICK d \in drivers : OnCourse(d) /\ Kept  BY DEF LoneInv
<1>1. faults \in Nat /\ Steps \in Nat /\ record \in [1 .. Steps -> StepStatus \cup {None}]
  BY DEF SagaAssumption, Typed
<1>2. \A i \in Left : i \in 1 .. Steps /\ DidDo(i) /\ record[i] = None
  BY <1>0, <1>1 DEF Left, Kept, DidDo, StepStatus
<1>3. \A i, j \in Left : i = j
  <2> SUFFICES ASSUME NEW i \in Left, NEW j \in Left, i < j PROVE FALSE
    BY <1>1, <1>2
  <2>1. i \in 1 .. j - 1  BY <1>1, <1>2
  <2> QED  BY <1>0, <1>2, <2>1 DEF OnCourse, InOrder
<1>4. faults = 0 => Left = {}
  BY <1>0, <1>2 DEF OnCourse, NoneLost, Forth, SagaAssumption, SagaStatus
<1>5. CASE Left = {}  BY <1>1, <1>5, FS_EmptySet
<1>6. CASE Left # {}
  <2>1. PICK i \in Left : Left = {i}  BY <1>3, <1>6
  <2>2. Cardinality({i}) = 1  BY FS_Singleton
  <2> QED  BY <1>1, <1>4, <1>6, <2>1, <2>2
<1> QED  BY <1>5, <1>6

(* There is a driver in every state.                                       *)
Manned == drivers # {}

LEMMA LoneHolds == ASSUME SagaAssumption PROVE Spec => [](Typed /\ Manned /\ LoneInv)
<1>1. Init => Typed /\ Manned /\ LoneInv
  <2>1. Init => Manned  BY DEF Init, Manned
  <2> QED  BY <2>1, InitTyped, InitLone
<1>2. Typed /\ Manned /\ LoneInv /\ [Next]_vars => (Typed /\ Manned /\ LoneInv)'
  BY NextType, NextLone, DriversStay DEF Manned
<1> QED  BY <1>1, <1>2, PTL DEF Spec

(* With one driver at a time, whatever dies and whichever queries fail, a  *)
(* saga that succeeded did all its steps and undid none, and one that is   *)
(* compensated passed over at most one step for each failed query.         *)
THEOREM AllOrNothingHolds == ASSUME SagaAssumption PROVE Spec => []AllOrNothing
<1>1. Typed /\ Manned /\ LoneInv => AllOrNothing
  <2> SUFFICES ASSUME Typed, Manned, LoneInv, Alone PROVE DoneInFull /\ UndoneInFull
    BY TypeParts DEF AllOrNothing
  <2>1. Kept  BY DEF LoneInv
  <2>2. DoneInFull  BY <2>1 DEF DoneInFull, Kept, Forth, DidDo
  <2>3. UndoneInFull  BY OneLeft DEF UndoneInFull, Manned
  <2> QED  BY <2>2, <2>3
<1> QED  BY <1>1, LoneHolds, PTL

(* A lone driver undoes the steps in reverse: while a later step stands, no*)
(* undo starts.                                                            *)
THEOREM ReverseOrderHolds == ASSUME SagaAssumption PROVE Spec => ReverseOrder
<1>1. ASSUME Typed, LoneInv, [Next]_vars, Alone PROVE UndoesLatest
  <2> SUFFICES ASSUME NEW i \in 1 .. Steps, did'[<<i, "undo">>] # did[<<i, "undo">>],
                      NEW j \in i + 1 .. Steps, record[j] = "succeeded"
               PROVE  FALSE
    BY DEF UndoesLatest
  <2>0. Steps \in Nat /\ drivers \subseteq Drivers  BY <1>1 DEF SagaAssumption, Typed
  <2>1. PICK d \in drivers : Perform(d)
    BY ZenonT(30), <1>1 DEF Next, Step, vars, bounds, Run, Forward, Get, Claim, MarkAwaitingApproval, MarkRunning,
         PerformThrows, MarkSucceeded, MarkFailed, Save, Advance, Pause, Succeed,
         Compensate, Plan, Settle, Crash, QueryFails, Review
  <2>2. Key(d) = <<i, "undo">> /\ call[d].pc = "perform"
    BY <1>1, <2>0, <2>1 DEF Perform, At, Typed
  <2>3. j \in Ahead(d) /\ j \in 1 .. Steps
    <3>1. UndoAt(d) /\ j \in 1 .. Steps  BY <2>0, <2>2 DEF UndoAt, Undoing, InRun
    <3>2. ToUndo(d)  BY <1>1 DEF LoneInv, OnCourse
    <3> QED  BY <3>1, <3>2 DEF ToUndo
  <2>4. j <= i  
    <3>1. j \in call[d].todo \cup {i}  BY <2>2, <2>3 DEF Ahead, At
    <3>2. CallOK(call[d])  BY <1>1, <2>0 DEF Typed
    <3> QED  BY <2>2, <2>3, <3>1, <3>2 DEF CallOK, Key
  <2> QED  BY <2>0, <2>4
<1>2. Typed /\ Manned /\ LoneInv /\ [Next]_vars => [Alone => UndoesLatest]_vars  BY <1>1
<1> QED  BY <1>2, LoneHolds, PTL DEF Spec, ReverseOrder

(* With one driver at a time no call, and no rollback that a call was on   *)
(* its way to when it died, ever changes the status of a saga that         *)
(* succeeded or was compensated.                                           *)
THEOREM SettledFinalHolds == ASSUME SagaAssumption PROVE Spec => SettledFinal
<1>1. ASSUME Typed, LoneInv, [Next]_vars, Alone, status \in {"succeeded", "compensated"}
      PROVE  UNCHANGED status
  <2>1. \A d \in drivers : call[d].pc = "idle"
    BY <1>1 DEF LoneInv, OnCourse, Course, At
  <2>2. None \notin {"succeeded", "compensated", "running", "awaiting_step"}
    BY DEF SagaAssumption, SagaStatus
  <2> QED
    BY <1>1, <2>1, <2>2 DEF Next, Step, vars, Run, Forward, Get, Claim, MarkAwaitingApproval,
         MarkRunning, Perform, PerformThrows, MarkSucceeded, MarkFailed, Save, Advance, Pause,
         Succeed, Compensate, Plan, Settle, Crash, QueryFails, Review, At, RollingBack, InRun
<1>2. Typed /\ Manned /\ LoneInv /\ [Next]_vars => [Alone => StaysSettled]_vars
  BY <1>1 DEF StaysSettled
<1> QED  BY <1>2, LoneHolds, PTL DEF Spec, SettledFinal

=============================================================================
