-------------------------- MODULE ActionRunProofs --------------------------
(***************************************************************************)
(* Proofs about ActionRun, for every number of callers, reviewers and keys *)
(* and every policy, limit and retry count.                                *)
(***************************************************************************)
EXTENDS ActionRun, NumberLemmas

(* The verdict of the policies is a verdict.                               *)
LEMMA VerdictType ==
  /\ \A v, w : Stricter(v, w) \in Verdicts
  /\ \A k : BudgetVerdict(k) \in Verdicts /\ PredicateVerdict(k) \in Verdicts
  /\ RateVerdict \in Verdicts
BY ConstantsAssumption DEF Stricter, BudgetVerdict, PredicateVerdict, RateVerdict, Verdicts

(* The verdict decides where a call goes on.                               *)
LEMMA SequelPlace ==
  ASSUME NEW v \in Verdicts
  PROVE  /\ Sequel(v) \in {"deny", "park", "start"}
         /\ Sequel(v) = "start" <=> v = "allow"
         /\ Sequel(v) = "park" <=> v = "require_approval"
BY DEF Sequel, Verdicts

-----------------------------------------------------------------------------
(* What a step does to the locals of the call it belongs to, field by      *)
(* field; the other calls keep theirs.                                     *)

Others(c) == \A d \in Callers \ {c} : call'[d] = call[d]

(* The fields that only Call and Return touch.                             *)
Keeps(c) == call'[c].key = call[c].key /\ call'[c].attempt \in 0 .. Retries

(* The caller computes the key.                                            *)
LEMMA CallEffect ==
  ASSUME TypeOK, NEW c \in Callers, NEW k \in Keys, Call(c, k)
  PROVE  /\ call' \in [Callers -> Calls] /\ Others(c)
         /\ call'[c].pc = "get" /\ call'[c].key = k
         /\ call[c].pc = "idle" /\ call'[c].existing = call[c].existing
         /\ call'[c].verdict = call[c].verdict
<1>1. call[c].pc = "idle" /\ call \in [Callers -> Calls]
  BY DEF TypeOK, Call, At
<1>2. call' = [call EXCEPT ![c] = [@ EXCEPT !.pc = "get", !.key = k]]
  BY DEF Call
<1>3. QED
  BY <1>1, <1>2 DEF Calls, Places, Others, Idle

(* The row was absent or failed: on to the policies.                       *)
LEMMA OpenEffect ==
  ASSUME TypeOK, NEW c \in Callers,
         call' = [call EXCEPT ![c] = [@ EXCEPT !.pc = "policy",
                                               !.existing = row[call[c].key] # "none"]]
  PROVE  /\ call' \in [Callers -> Calls] /\ Others(c) /\ Keeps(c)
         /\ call'[c].pc = "policy" /\ call'[c].verdict = call[c].verdict
         /\ row[call[c].key] = "none" => call'[c].existing = FALSE
<1>1. call \in [Callers -> Calls]
  BY DEF TypeOK
<1>2. CASE row[call[c].key] = "none"
  <2>1. (row[call[c].key] # "none") = FALSE
    BY <1>2
  <2>2. call' = [call EXCEPT ![c] = [@ EXCEPT !.pc = "policy", !.existing = FALSE]]
    BY <2>1
  <2> DEFINE r == [call[c] EXCEPT !.pc = "policy", !.existing = FALSE]
  <2>3. /\ r \in Calls /\ r.pc = "policy" /\ r.existing = FALSE
        /\ r.verdict = call[c].verdict /\ r.key = call[c].key
        /\ r.attempt \in 0 .. Retries
    BY <1>1 DEF Calls, Places
  <2>4. call' = [call EXCEPT ![c] = r]
    BY <2>2
  <2> HIDE DEF r
  <2>5. QED
    BY <1>1, <1>2, <2>3, <2>4 DEF Others, Keeps
<1>3. CASE row[call[c].key] # "none"
  <2>1. (row[call[c].key] # "none") = TRUE
    BY <1>3
  <2>2. call' = [call EXCEPT ![c] = [@ EXCEPT !.pc = "policy", !.existing = TRUE]]
    BY <2>1
  <2> DEFINE r == [call[c] EXCEPT !.pc = "policy", !.existing = TRUE]
  <2>3. /\ r \in Calls /\ r.pc = "policy" /\ r.existing = TRUE
        /\ r.verdict = call[c].verdict /\ r.key = call[c].key
        /\ r.attempt \in 0 .. Retries
    BY <1>1 DEF Calls, Places
  <2>4. call' = [call EXCEPT ![c] = r]
    BY <2>2
  <2> HIDE DEF r
  <2>5. QED
    BY <1>1, <1>3, <2>3, <2>4 DEF Others, Keeps
<1>4. QED
  BY <1>2, <1>3

(* All policies are evaluated.                                             *)
LEMMA DecidedEffect ==
  ASSUME TypeOK, NEW c \in Callers, NEW v \in Verdicts, Decided(c, v)
  PROVE  /\ call' \in [Callers -> Calls] /\ Others(c) /\ Keeps(c)
         /\ call'[c].verdict = v /\ call'[c].existing = call[c].existing
         /\ call[c].existing => call'[c].pc = Sequel(v)
         /\ ~call[c].existing => call'[c].pc = "claim"
         /\ call'[c].pc \in {"claim", "deny", "park", "start"}
<1>1. call \in [Callers -> Calls]
  BY DEF TypeOK
<1> DEFINE next == IF call[c].existing THEN Sequel(v) ELSE "claim"
<1>2. /\ next \in {"claim", "deny", "park", "start"}
      /\ call[c].existing => next = Sequel(v)
      /\ ~call[c].existing => next = "claim"
  BY SequelPlace
<1>3. call' = [call EXCEPT ![c] = [@ EXCEPT !.verdict = v, !.pc = next]]
  BY DEF Decided
<1> HIDE DEF next
<1>4. /\ call' \in [Callers -> Calls] /\ Others(c) /\ Keeps(c)
      /\ call'[c].verdict = v /\ call'[c].existing = call[c].existing
      /\ call'[c].pc = next
  BY <1>1, <1>2, <1>3 DEF Calls, Places, Others, Keeps
<1>5. QED
  BY <1>2, <1>4

(* denyWhen, requireApprovalWhen and budget are evaluated.                 *)
LEMMA BudgetEffect ==
  ASSUME TypeOK, NEW c \in Callers, EvaluateBudget(c),
         NEW v, v = Stricter(PredicateVerdict(call[c].key), BudgetVerdict(call[c].key))
  PROVE  /\ call' \in [Callers -> Calls] /\ Others(c) /\ Keeps(c)
         /\ v \in Verdicts /\ call'[c].verdict = v
         /\ call'[c].existing = call[c].existing
         /\ \/ call'[c].pc = "rateLimit"
            \/ call'[c].pc = "claim" /\ ~call[c].existing /\ v = "deny"
            \/ call'[c].pc = "deny" /\ call[c].existing /\ v = "deny"
<1>1. call \in [Callers -> Calls] /\ v \in Verdicts
  BY VerdictType DEF TypeOK
<1>2. CASE v = "deny"
  <2>1. Decided(c, v)
    BY <1>2 DEF EvaluateBudget
  <2>2. Sequel(v) = "deny"
    BY <1>2 DEF Sequel
  <2>3. call[c].existing \in BOOLEAN
    BY <1>1 DEF Calls
  <2>4. QED
    BY <1>1, <1>2, <2>1, <2>2, <2>3, DecidedEffect
<1>3. CASE v # "deny"
  <2>1. call' = [call EXCEPT ![c] = [@ EXCEPT !.pc = "rateLimit", !.verdict = v]]
    BY <1>3 DEF EvaluateBudget
  <2>2. QED
    BY <1>1, <2>1 DEF Calls, Places, Others, Keeps
<1>4. QED
  BY <1>2, <1>3

(* The catch block: another attempt, or none.                              *)
LEMMA CaughtEffect ==
  ASSUME TypeOK, NEW c \in Callers, Caught(c)
  PROVE  /\ call' \in [Callers -> Calls] /\ Others(c) /\ Keeps(c)
         /\ call'[c].pc \in {"start", "fail"}
         /\ call'[c].existing = call[c].existing /\ call'[c].verdict = call[c].verdict
<1>1. call \in [Callers -> Calls]
  BY DEF TypeOK
<1>2. CASE call[c].attempt < Retries
  <2>1. call[c].attempt + 1 \in 0 .. Retries
    BY <1>1, <1>2, ConstantsAssumption DEF Calls
  <2>2. call' = [call EXCEPT ![c] = [@ EXCEPT !.pc = "start",
                                              !.attempt = call[c].attempt + 1]]
    BY <1>2 DEF Caught
  <2>3. QED
    BY <1>1, <2>1, <2>2 DEF Calls, Places, Others, Keeps
<1>3. CASE ~(call[c].attempt < Retries)
  <2>1. call' = [call EXCEPT ![c].pc = "fail"]
    BY <1>3 DEF Caught, Goto
  <2>2. QED
    BY <1>1, <2>1 DEF Calls, Places, Others, Keeps
<1>4. QED
  BY <1>2, <1>3

(* A call goes on to another place, or is over.                            *)
LEMMA GotoEffect ==
  ASSUME TypeOK, NEW c \in Callers, NEW place \in Places, Goto(c, place)
  PROVE  /\ call' \in [Callers -> Calls] /\ Others(c) /\ Keeps(c)
         /\ call'[c].pc = place
         /\ call'[c].existing = call[c].existing /\ call'[c].verdict = call[c].verdict
<1>1. call \in [Callers -> Calls]
  BY DEF TypeOK
<1>2. call' = [call EXCEPT ![c] = [@ EXCEPT !.pc = place]]
  BY DEF Goto
<1>3. QED
  BY <1>1, <1>2 DEF Calls, Others, Keeps

LEMMA ReturnEffect ==
  ASSUME TypeOK, NEW c \in Callers, Return(c)
  PROVE  /\ call' \in [Callers -> Calls] /\ Others(c)
         /\ call'[c].pc = "idle" /\ call'[c].key = NoKey
<1>1. call \in [Callers -> Calls]
  BY DEF TypeOK
<1>2. Idle \in Calls /\ Idle.pc = "idle" /\ Idle.key = NoKey
  BY ConstantsAssumption DEF Idle, Calls, Places, Verdicts
<1>3. QED
  BY <1>1, <1>2 DEF Return, Others

(* The row that answers a call: it returns, or an approved one executes.   *)
LEMMA AnswerEffect ==
  ASSUME TypeOK, NEW c \in Callers, Get(c), row[call[c].key] \notin {"none", "failed"}
  PROVE  /\ call' \in [Callers -> Calls] /\ Others(c)
         /\ call'[c].pc \in {"idle", "start"}
         /\ call'[c].pc = "start" => Keeps(c) /\ row[call[c].key] = "approved"
         /\ call'[c].pc = "idle" => call'[c].key = NoKey
         /\ UNCHANGED <<row, aged, left, reviewing, done, cleared>>
<1>1. UNCHANGED <<row, aged, left, reviewing, done, cleared>>
  BY DEF Get, ReturnResult, ledger, history
<1>2. Return(c) \/ (Goto(c, "start") /\ row[call[c].key] = "approved")
  BY DEF Get, ReturnResult
<1>3. "start" \in Places
  BY DEF Places
<1>4. QED
  BY <1>1, <1>2, <1>3, ReturnEffect, GotoEffect

-----------------------------------------------------------------------------
(* Types.                                                                  *)

(* The initial state is well typed.                                        *)
LEMMA InitType == Init => TypeOK
BY ConstantsAssumption
   DEF Init, TypeOK, Idle, Calls, Places, Verdicts, Status, At

(* The steps that update several locals keep them well typed.              *)
LocalsOK ==
  /\ call \in [Callers -> Calls]
  /\ \A c \in Callers : (call[c].pc = "idle") <=> (call[c].key = NoKey)

LEMMA LocalsType ==
  ASSUME TypeOK, NEW c \in Callers,
         \/ \E k \in Keys : Call(c, k)
         \/ Get(c) /\ row[call[c].key] \in {"none", "failed"}
         \/ EvaluateBudget(c) \/ EvaluateRateLimit(c)
         \/ PerformThrows(c) \/ MarkSucceededThrows(c)
  PROVE  LocalsOK'
<1>1. LocalsOK
  BY DEF TypeOK, LocalsOK, At
<1>2. ASSUME NEW k \in Keys, Call(c, k) PROVE LocalsOK'
  BY <1>1, <1>2, CallEffect, ConstantsAssumption DEF Others, LocalsOK
<1>3. ASSUME call' \in [Callers -> Calls], Others(c), Keeps(c),
             call[c].pc # "idle", call'[c].pc # "idle"
      PROVE  LocalsOK'
  BY <1>1, <1>3 DEF Others, Keeps, LocalsOK
<1>4. ASSUME Get(c), row[call[c].key] \in {"none", "failed"} PROVE LocalsOK'
  <2>1. call[c].pc = "get"
    BY <1>4 DEF Get, At
  <2>2. call' = [call EXCEPT ![c] = [@ EXCEPT !.pc = "policy",
                                              !.existing = row[call[c].key] # "none"]]
    BY <1>4 DEF Get
  <2>3. QED
    BY <1>3, <2>1, <2>2, OpenEffect
<1>5. ASSUME EvaluateBudget(c) PROVE LocalsOK'
  <2>1. call[c].pc = "policy"
    BY <1>5 DEF EvaluateBudget, At
  <2>2. QED
    BY <1>3, <1>5, <2>1, BudgetEffect
<1>6. ASSUME EvaluateRateLimit(c) PROVE LocalsOK'
  <2>1. call[c].pc = "rateLimit"
    BY <1>6 DEF EvaluateRateLimit, At
  <2>2. PICK v \in Verdicts : Decided(c, v)
    BY <1>6, VerdictType DEF EvaluateRateLimit
  <2>3. QED
    BY <1>3, <2>1, <2>2, DecidedEffect
<1>7. ASSUME PerformThrows(c) \/ MarkSucceededThrows(c) PROVE LocalsOK'
  <2>1. call[c].pc \in {"perform", "record"} /\ Caught(c)
    BY <1>7 DEF PerformThrows, MarkSucceededThrows, At
  <2>2. QED
    BY <1>3, <2>1, CaughtEffect
<1>8. QED
  BY <1>2, <1>4, <1>5, <1>6, <1>7

(* Each step of run(), approve() and reject() preserves the types.         *)
LEMMA NextType == TypeOK /\ [Next]_vars => TypeOK'
<1> SUFFICES ASSUME TypeOK, [Next]_vars PROVE TypeOK'
  OBVIOUS
<1>2. ASSUME NEW c \in Callers, Get(c) PROVE TypeOK'
  <2>1. call[c].key \in Keys /\ told \subseteq Keys
    BY <1>2, ConstantsAssumption DEF Get, TypeOK, Calls, At
  <2>2. UNCHANGED <<row, aged, left, reviewing, done, cleared>>
    BY <1>2 DEF Get, ReturnResult, ledger, history
  <2>3. told' = told \/ told' = told \cup {call[c].key}
    BY <1>2 DEF Get, ReturnResult, history
  <2>4. told' \subseteq Keys
    BY <2>1, <2>3
  <2>5. LocalsOK'
    <3>1. CASE row[call[c].key] \in {"none", "failed"}
      BY <1>2, <3>1, LocalsType
    <3>2. CASE row[call[c].key] \notin {"none", "failed"}
      <4>1. /\ call' \in [Callers -> Calls] /\ Others(c)
            /\ call'[c].pc \in {"idle", "start"}
            /\ call'[c].pc = "start" => call'[c].key = call[c].key
            /\ call'[c].pc = "idle" => call'[c].key = NoKey
        BY <1>2, <3>2, AnswerEffect DEF Keeps
      <4> QED  BY <2>1, <4>1, ConstantsAssumption DEF LocalsOK, TypeOK, At, Others
    <3> QED  BY <3>1, <3>2
  <2>6. QED
    BY <2>2, <2>4, <2>5 DEF TypeOK, LocalsOK, At
<1> USE ConstantsAssumption
<1> USE DEF TypeOK, Calls, Places, Verdicts, Status, At, Goto, Return, Idle,
            SetRow, ledger, history
<1>1. ASSUME NEW c \in Callers, NEW k \in Keys, Call(c, k) PROVE TypeOK'
  <2>1. LocalsOK'
    BY <1>1, LocalsType
  <2>2. QED
    BY <1>1, <2>1 DEF Call, LocalsOK
<1>3. ASSUME NEW c \in Callers, EvaluateBudget(c) PROVE TypeOK'
  <2>1. LocalsOK'
    BY <1>3, LocalsType
  <2>2. QED
    BY <1>3, <2>1 DEF EvaluateBudget, LocalsOK
<1>4. ASSUME NEW c \in Callers, EvaluateRateLimit(c) PROVE TypeOK'
  <2>1. LocalsOK'
    BY <1>4, LocalsType
  <2>2. QED
    BY <1>4, <2>1 DEF EvaluateRateLimit, LocalsOK
<1>5. ASSUME NEW c \in Callers, Claim(c) PROVE TypeOK'
  <2> DEFINE next == Sequel(call[c].verdict)
  <2>1. call[c].pc = "claim" /\ call[c].key \in Keys /\ call[c].verdict \in Verdicts
    BY <1>5 DEF Claim
  <2>2. next \in {"deny", "park", "start"}
    BY <2>1, SequelPlace
  <2>3. SetRow(call[c].key, "pending") \/ UNCHANGED row
    BY <1>5 DEF Claim
  <2>4. Goto(c, next) \/ Goto(c, "reread")
    BY <1>5 DEF Claim
  <2> HIDE DEF next
  <2>5. LocalsOK'
    BY <2>1, <2>2, <2>4 DEF LocalsOK
  <2>6. UNCHANGED <<aged, left, reviewing, done, told, cleared>>
    BY <1>5 DEF Claim
  <2>7. QED
    BY <2>1, <2>3, <2>5, <2>6 DEF LocalsOK
<1>6. ASSUME NEW c \in Callers, Reread(c) PROVE TypeOK'
  <2>1. call[c].key \in Keys /\ Return(c)
    BY <1>6 DEF Reread, ReturnResult
  <2>2. QED
    BY <1>6, <2>1 DEF Reread, ReturnResult
<1>7. ASSUME NEW c \in Callers, MarkDenied(c) PROVE TypeOK'
  BY <1>7 DEF MarkDenied
<1>8. ASSUME NEW c \in Callers, MarkAwaitingApproval(c) PROVE TypeOK'
  BY <1>8 DEF MarkAwaitingApproval
<1>9. ASSUME NEW c \in Callers, MarkRunning(c) PROVE TypeOK'
  BY <1>9 DEF MarkRunning
<1>10. ASSUME NEW c \in Callers, Perform(c) PROVE TypeOK'
  BY <1>10 DEF Perform
<1>11. ASSUME NEW c \in Callers, PerformThrows(c) PROVE TypeOK'
  <2>1. LocalsOK'
    BY <1>11, LocalsType
  <2>2. QED
    BY <1>11, <2>1 DEF PerformThrows, LocalsOK
<1>12. ASSUME NEW c \in Callers, MarkSucceeded(c) PROVE TypeOK'
  BY <1>12 DEF MarkSucceeded, ReturnResult
<1>13. ASSUME NEW c \in Callers, MarkSucceededThrows(c) PROVE TypeOK'
  <2>1. LocalsOK'
    BY <1>13, LocalsType
  <2>2. QED
    BY <1>13, <2>1 DEF MarkSucceededThrows, LocalsOK
<1>14. ASSUME NEW c \in Callers, MarkFailed(c) PROVE TypeOK'
  BY <1>14 DEF MarkFailed
<1>15. ASSUME NEW c \in Callers, Crash(c) PROVE TypeOK'
  BY <1>15 DEF Crash
<1>16. ASSUME NEW r \in Reviewers, NEW k \in Keys, Review(r, k) PROVE TypeOK'
  BY <1>16 DEF Review
<1>17. ASSUME NEW r \in Reviewers, MarkApproved(r) PROVE TypeOK'
  BY <1>17 DEF MarkApproved
<1>18. ASSUME NEW r \in Reviewers, MarkRejected(r) PROVE TypeOK'
  BY <1>18 DEF MarkRejected
<1>19. CASE WindowPasses
  BY <1>19 DEF WindowPasses
<1>20. CASE UNCHANGED vars
  BY <1>20 DEF vars
<1>21. QED
  BY <1>1, <1>2, <1>3, <1>4, <1>5, <1>6, <1>7, <1>8, <1>9, <1>10, <1>11, <1>12,
     <1>13, <1>14, <1>15, <1>16, <1>17, <1>18, <1>19, <1>20
  DEF Next, Step

(* Every reachable state of run(), approve() and reject() is well typed.   *)
THEOREM TypeCorrect == Spec => []TypeOK
<1>1. QED BY InitType, NextType, PTL DEF Spec

-----------------------------------------------------------------------------
(* The gate.                                                               *)

(* k may be worked on: not forbidden, and approved if it has to be.        *)
MayRun(k) == k \notin DenyKeys /\ (k \in ApprovalKeys => k \in cleared)

(* Gate is not inductive: that a call may go on to do the work rests on the*)
(* verdict it holds, on what the row it read may say, and on which keys can*)
(* come before a reviewer at all.                                          *)
GateInv ==
  /\ \A c \in Callers :
       LET l == call[c]
       IN /\ l.pc \in Executing => MayRun(l.key)
          /\ l.pc \in {"rateLimit", "claim"} /\ l.verdict = "allow"
               => l.key \notin DenyKeys \cup ApprovalKeys
          /\ l.pc \in {"rateLimit", "claim"} /\ l.verdict = "require_approval"
               => l.key \notin DenyKeys
          /\ l.pc = "park" => l.key \notin DenyKeys
  /\ \A r \in Reviewers : reviewing[r] \notin DenyKeys
  /\ \A k \in Keys :
       /\ row[k] \in {"awaiting_approval", "approved"} => k \notin DenyKeys
       /\ row[k] = "approved" => k \in cleared
       /\ done[k] > 0 => MayRun(k)

(* The predicates decide the verdict before the limits may tighten it.     *)
LEMMA StricterVerdict ==
  ASSUME NEW k \in Keys, NEW v \in Verdicts, NEW w \in Verdicts
  PROVE  /\ Stricter(v, w) = "allow" => v = "allow"
         /\ Stricter(v, w) = "require_approval" => v # "deny"
         /\ PredicateVerdict(k) = "allow" => k \notin DenyKeys \cup ApprovalKeys
         /\ PredicateVerdict(k) # "deny" => k \notin DenyKeys
BY DEF Stricter, PredicateVerdict, Verdicts

(* No step of a call, a review or the window lets forbidden work through.  *)
LEMMA NextGate == TypeOK /\ GateInv /\ [Next]_vars => GateInv'
<1> SUFFICES ASSUME TypeOK, GateInv, [Next]_vars PROVE GateInv'
  OBVIOUS
<1>1. ASSUME NEW c \in Callers, NEW k \in Keys, Call(c, k) PROVE GateInv'
  <2>1. /\ Others(c) /\ call'[c].pc = "get" /\ call[c].pc = "idle"
        /\ call'[c].existing = call[c].existing /\ call'[c].verdict = call[c].verdict
    BY <1>1, CallEffect
  <2>2. UNCHANGED <<row, reviewing, done, cleared>>
    BY <1>1 DEF Call, ledger, history
  <2>3. QED
    BY <2>1, <2>2
    DEF GateInv, MayRun, Executing, Others, Keeps
<1>2. ASSUME NEW c \in Callers, Get(c), row[call[c].key] \in {"none", "failed"}
      PROVE  GateInv'
  <2>1. call' = [call EXCEPT ![c] = [@ EXCEPT !.pc = "policy",
                                              !.existing = row[call[c].key] # "none"]]
    BY <1>2 DEF Get
  <2>2. /\ Others(c) /\ Keeps(c) /\ call'[c].pc = "policy"
        /\ call'[c].verdict = call[c].verdict
        /\ row[call[c].key] = "none" => call'[c].existing = FALSE
    BY <2>1, OpenEffect
  <2>3. call[c].pc = "get" /\ UNCHANGED <<row, reviewing, done, cleared>>
    BY <1>2 DEF Get, At, ledger, history
  <2>4. QED
    BY <1>2, <2>2, <2>3
    DEF GateInv, MayRun, Executing, Others, Keeps
<1>3. ASSUME NEW c \in Callers, EvaluateBudget(c) PROVE GateInv'
  <2> DEFINE key == call[c].key
             p == PredicateVerdict(key)
             v == Stricter(p, BudgetVerdict(key))
  <2>1. key \in Keys
    BY <1>3 DEF EvaluateBudget, TypeOK, Calls, At
  <2>2. /\ v = "allow" => key \notin DenyKeys \cup ApprovalKeys
        /\ v = "require_approval" => key \notin DenyKeys
    BY <2>1, VerdictType, StricterVerdict
  <2>3. /\ Others(c) /\ Keeps(c) /\ v \in Verdicts /\ call'[c].verdict = v
        /\ call'[c].pc \in {"rateLimit", "claim", "deny"}
    BY <1>3, BudgetEffect
  <2>4. UNCHANGED <<row, reviewing, done, cleared>>
    BY <1>3 DEF EvaluateBudget, ledger, history
  <2> HIDE DEF v
  <2>5. QED
    BY <2>2, <2>3, <2>4 DEF GateInv, MayRun, Executing, Others, Keeps
<1>4. ASSUME NEW c \in Callers, EvaluateRateLimit(c) PROVE GateInv'
  <2> DEFINE v == Stricter(call[c].verdict, RateVerdict)
  <2>1. /\ call[c].key \in Keys /\ call[c].pc = "rateLimit"
        /\ call[c].verdict \in Verdicts
    BY <1>4 DEF EvaluateRateLimit, TypeOK, Calls, At
  <2>2. v \in Verdicts
    BY VerdictType
  <2>3. /\ v = "allow" => call[c].verdict = "allow"
        /\ v = "require_approval" => call[c].verdict # "deny"
    BY <2>1, VerdictType, StricterVerdict
  <2>4. Decided(c, v)
    BY <1>4 DEF EvaluateRateLimit
  <2> HIDE DEF v
  <2>5. /\ Others(c) /\ Keeps(c) /\ call'[c].verdict = v
        /\ call'[c].pc \in {"claim", Sequel(v)}
    <3>1. call[c].existing \in BOOLEAN
      BY DEF TypeOK, Calls
    <3>2. QED
      BY <2>2, <2>4, <3>1, DecidedEffect
  <2>6. UNCHANGED <<row, reviewing, done, cleared>>
    BY <1>4 DEF EvaluateRateLimit, ledger, history
  <2>7. /\ Sequel(v) \in {"deny", "park", "start"}
        /\ Sequel(v) = "start" => v = "allow"
        /\ Sequel(v) = "park" => v = "require_approval"
    BY <2>2, SequelPlace
  <2>8. v \in {"allow", "require_approval", "deny"}
    BY <2>2 DEF Verdicts
  <2>9. /\ v = "allow" => call[c].key \notin DenyKeys \cup ApprovalKeys
        /\ v = "require_approval" => call[c].key \notin DenyKeys
    BY <2>1, <2>3 DEF GateInv, Verdicts
  <2>10. QED
    BY <2>5, <2>6, <2>7, <2>8, <2>9 DEF GateInv, MayRun, Executing, Others, Keeps
<1>5. ASSUME NEW c \in Callers, PerformThrows(c) \/ MarkSucceededThrows(c)
      PROVE  GateInv'
  <2>1. /\ Others(c) /\ Keeps(c) /\ call'[c].pc \in {"start", "fail"}
    BY <1>5, CaughtEffect DEF PerformThrows, MarkSucceededThrows
  <2>2. call[c].pc \in {"perform", "record"} /\ UNCHANGED <<reviewing, done, cleared>>
    BY <1>5 DEF PerformThrows, MarkSucceededThrows, At, history
  <2>3. \A k \in Keys : row'[k] = row[k] \/ row'[k] = "succeeded"
    BY <1>5 DEF PerformThrows, MarkSucceededThrows, SetRow, ledger, TypeOK
  <2>4. QED
    BY <2>1, <2>2, <2>3 DEF GateInv, MayRun, Executing, Others, Keeps
<1>6. ASSUME NEW c \in Callers, Get(c), row[call[c].key] \notin {"none", "failed"}
      PROVE  GateInv'
  <2>1. /\ Others(c) /\ call'[c].pc \in {"idle", "start"}
        /\ call'[c].pc = "start" => Keeps(c) /\ row[call[c].key] = "approved"
        /\ UNCHANGED <<row, reviewing, done, cleared>>
    BY <1>6, AnswerEffect
  <2>2. call[c].key \in Keys
    BY <1>6 DEF Get, TypeOK, Calls, At
  <2>3. QED
    BY <2>1, <2>2 DEF GateInv, MayRun, Executing, Others, Keeps
<1> USE ConstantsAssumption
<1> USE DEF TypeOK, Calls, Status, At, Goto, Return, Idle, SetRow, ledger,
            history, GateInv, MayRun, Executing
<1>7. ASSUME NEW c \in Callers, Claim(c) PROVE GateInv'
  BY <1>7, SequelPlace DEF Claim
<1>8. ASSUME NEW c \in Callers, Reread(c) PROVE GateInv'
  BY <1>8 DEF Reread, ReturnResult
<1>9. ASSUME NEW c \in Callers, MarkDenied(c) PROVE GateInv'
  BY <1>9 DEF MarkDenied
<1>10. ASSUME NEW c \in Callers, MarkAwaitingApproval(c) PROVE GateInv'
  BY <1>10 DEF MarkAwaitingApproval
<1>11. ASSUME NEW c \in Callers, MarkRunning(c) PROVE GateInv'
  BY <1>11 DEF MarkRunning
<1>12. ASSUME NEW c \in Callers, Perform(c) PROVE GateInv'
  BY <1>12 DEF Perform
<1>13. ASSUME NEW c \in Callers, MarkSucceeded(c) PROVE GateInv'
  BY <1>13 DEF MarkSucceeded, ReturnResult
<1>14. ASSUME NEW c \in Callers, MarkFailed(c) PROVE GateInv'
  BY <1>14 DEF MarkFailed
<1>15. ASSUME NEW c \in Callers, Crash(c) PROVE GateInv'
  BY <1>15 DEF Crash
<1>16. ASSUME NEW r \in Reviewers, NEW k \in Keys, Review(r, k) PROVE GateInv'
  BY <1>16 DEF Review
<1>17. ASSUME NEW r \in Reviewers, MarkApproved(r) PROVE GateInv'
  BY <1>17 DEF MarkApproved
<1>18. ASSUME NEW r \in Reviewers, MarkRejected(r) PROVE GateInv'
  BY <1>18 DEF MarkRejected
<1>19. CASE WindowPasses
  BY <1>19 DEF WindowPasses
<1>20. CASE UNCHANGED vars
  BY <1>20 DEF vars
<1>21. QED
  BY <1>1, <1>2, <1>3, <1>4, <1>5, <1>6, <1>7, <1>8, <1>9, <1>10, <1>11,
     <1>12, <1>13, <1>14, <1>15, <1>16, <1>17, <1>18, <1>19, <1>20
  DEF Next, Step

(* Forbidden work never starts, and work that needs approval starts only   *)
(* after a human approved it (run.ts:57-104), in every deployment.         *)
THEOREM GateHolds == Spec => []Gate
<1>1. Init => GateInv
  BY ConstantsAssumption DEF Init, GateInv, MayRun, Idle, Executing
<1>2. TypeOK /\ GateInv => Gate
  BY DEF TypeOK, GateInv, MayRun, Gate, Executing
<1>3. QED
  BY <1>1, <1>2, NextGate, TypeCorrect, PTL DEF Spec

-----------------------------------------------------------------------------
(* At most once.                                                           *)

(* The calls that have claimed a key and not yet let go of it.             *)
Owning == {"deny", "park", "start", "perform", "record", "fail"}

(* Why the work of a stable key runs once: its row, once claimed, is owned *)
(* by the one call that claimed it, and no status it can get lets another  *)
(* call in.                                                                *)
OnceInv ==
  /\ \A c \in Callers :
       LET l == call[c]
       IN /\ l.key \in StableKeys \cup {NoKey} =>
               l.existing = FALSE /\ l.verdict # "require_approval"
          /\ l.key \in StableKeys =>
               /\ l.pc \notin {"park", "fail"}
               /\ l.pc \in Owning => row[l.key] \in {"pending", "running"}
               /\ l.pc \in {"start", "perform"} => done[l.key] = 0
               /\ l.pc = "record" => done[l.key] = 1
  /\ \A c, d \in Callers :
       /\ call[c].key = call[d].key /\ call[c].key \in StableKeys
       /\ call[c].pc \in Owning /\ call[d].pc \in Owning
       => c = d
  /\ \A r \in Reviewers : reviewing[r] \notin StableKeys
  /\ \A k \in StableKeys :
       /\ row[k] \in {"none", "pending", "running", "succeeded", "denied"}
       /\ row[k] = "none" => done[k] = 0
       /\ row[k] = "succeeded" \/ k \in told => done[k] = 1
       /\ done[k] \in {0, 1}

(* What makes a key stable.                                                *)
LEMMA Stable ==
  /\ StableKeys \subseteq Keys /\ NoKey \notin StableKeys
  /\ \A k \in StableKeys :
       /\ k \notin FlakyKeys /\ k \notin ApprovalKeys
       /\ ~RecordFaults
       /\ BudgetVerdict(k) # "require_approval"
       /\ RateVerdict # "require_approval"
       /\ PredicateVerdict(k) # "require_approval"
BY ConstantsAssumption DEF StableKeys, BudgetVerdict, RateVerdict, PredicateVerdict

(* Approval is asked for only by some policy.                              *)
LEMMA StricterApproval ==
  ASSUME NEW v \in Verdicts, NEW w \in Verdicts,
         v # "require_approval", w # "require_approval"
  PROVE  Stricter(v, w) # "require_approval"
<1>1. v \in {"allow", "deny"} /\ w \in {"allow", "deny"}  BY DEF Verdicts
<1>2. CASE "deny" \in {v, w}  BY <1>2 DEF Stricter
<1>3. CASE v = "allow" /\ w = "allow"
  <2>1. \A x \in {v, w} : x = "allow"  BY <1>3, Zenon
  <2>2. "deny" # "allow" /\ "require_approval" # "allow"  OBVIOUS
  <2>3. "deny" \notin {v, w} /\ "require_approval" \notin {v, w}  BY <2>1, <2>2, ZenonT(30)
  <2> QED  BY <2>2, <2>3, ZenonT(30) DEF Stricter
<1> QED  BY <1>1, <1>2, <1>3

(* A claim gives a stable key one owner, and its steps keep it that.       *)
LEMMA NextOnce == TypeOK /\ OnceInv /\ [Next]_vars => OnceInv'
<1> SUFFICES ASSUME TypeOK, OnceInv, [Next]_vars PROVE OnceInv'
  OBVIOUS
<1>1. ASSUME NEW c \in Callers, NEW k \in Keys, Call(c, k) PROVE OnceInv'
  <2>1. /\ Others(c) /\ call'[c].pc = "get" /\ call[c].pc = "idle"
        /\ call'[c].existing = call[c].existing /\ call'[c].verdict = call[c].verdict
    BY <1>1, CallEffect
  <2>2. UNCHANGED <<row, reviewing, done, told>>
    BY <1>1 DEF Call, ledger, history
  <2>3. call[c].key = NoKey
    BY <2>1 DEF TypeOK, At
  <2>4. QED
    BY <2>1, <2>2, <2>3 DEF OnceInv, Owning, Others
<1>2. ASSUME NEW c \in Callers, Get(c), row[call[c].key] \in {"none", "failed"}
      PROVE  OnceInv'
  <2>1. call' = [call EXCEPT ![c] = [@ EXCEPT !.pc = "policy",
                                              !.existing = row[call[c].key] # "none"]]
    BY <1>2 DEF Get
  <2>2. /\ Others(c) /\ Keeps(c) /\ call'[c].pc = "policy"
        /\ call'[c].verdict = call[c].verdict
        /\ row[call[c].key] = "none" => call'[c].existing = FALSE
    BY <2>1, OpenEffect
  <2>3. call[c].pc = "get" /\ UNCHANGED <<row, reviewing, done, told>>
    BY <1>2 DEF Get, At, ledger, history
  <2>4. call[c].key # NoKey
    BY <2>3 DEF TypeOK, At
  <2>5. QED
    BY <1>2, <2>2, <2>3, <2>4 DEF OnceInv, Owning, Others, Keeps
<1>3. ASSUME NEW c \in Callers, EvaluateBudget(c) PROVE OnceInv'
  <2> DEFINE key == call[c].key
             v == Stricter(PredicateVerdict(key), BudgetVerdict(key))
  <2>1. key \in Keys /\ call[c].pc = "policy" /\ key # NoKey
    BY <1>3, ConstantsAssumption DEF EvaluateBudget, TypeOK, Calls, At
  <2>2. key \in StableKeys => v # "require_approval"
    BY VerdictType, StricterApproval, Stable
  <2>3. /\ Others(c) /\ Keeps(c) /\ v \in Verdicts /\ call'[c].verdict = v
        /\ call'[c].existing = call[c].existing
        /\ call[c].existing = FALSE => call'[c].pc \in {"rateLimit", "claim"}
    BY <1>3, BudgetEffect
  <2>4. UNCHANGED <<row, reviewing, done, told>>
    BY <1>3 DEF EvaluateBudget, ledger, history
  <2> HIDE DEF v
  <2>5. QED
    BY <2>1, <2>2, <2>3, <2>4 DEF OnceInv, Owning, Others, Keeps
<1>4. ASSUME NEW c \in Callers, EvaluateRateLimit(c) PROVE OnceInv'
  <2> DEFINE v == Stricter(call[c].verdict, RateVerdict)
  <2>1. /\ call[c].key \in Keys /\ call[c].pc = "rateLimit"
        /\ call[c].verdict \in Verdicts /\ call[c].key # NoKey
    BY <1>4, ConstantsAssumption DEF EvaluateRateLimit, TypeOK, Calls, At
  <2>2. v \in Verdicts
    BY VerdictType
  <2>3. call[c].key \in StableKeys => v # "require_approval"
    BY <2>1, VerdictType, StricterApproval, Stable DEF OnceInv
  <2>4. Decided(c, v)
    BY <1>4 DEF EvaluateRateLimit
  <2> HIDE DEF v
  <2>5. /\ Others(c) /\ Keeps(c) /\ call'[c].verdict = v
        /\ call'[c].existing = call[c].existing
        /\ call[c].existing = FALSE => call'[c].pc = "claim"
    BY <2>2, <2>4, DecidedEffect
  <2>6. UNCHANGED <<row, reviewing, done, told>>
    BY <1>4 DEF EvaluateRateLimit, ledger, history
  <2>7. QED
    BY <2>1, <2>3, <2>5, <2>6 DEF OnceInv, Owning, Others, Keeps
<1>5. ASSUME NEW c \in Callers, PerformThrows(c) \/ MarkSucceededThrows(c)
      PROVE  OnceInv'
  <2>1. /\ Others(c) /\ Keeps(c) /\ call'[c].pc \in {"start", "fail"}
        /\ call'[c].existing = call[c].existing /\ call'[c].verdict = call[c].verdict
    BY <1>5, CaughtEffect DEF PerformThrows, MarkSucceededThrows
  <2>2. /\ call[c].pc # "idle" /\ call[c].key \in Keys \ StableKeys
        /\ UNCHANGED <<reviewing, done, told>>
    BY <1>5, Stable, ConstantsAssumption
    DEF PerformThrows, MarkSucceededThrows, At, history, TypeOK, Calls
  <2>3. \A k \in StableKeys : row'[k] = row[k]
    BY <1>5, <2>2, Stable
    DEF PerformThrows, MarkSucceededThrows, SetRow, ledger, TypeOK
  <2>4. call[c].key # NoKey
    BY <2>2, ConstantsAssumption
  <2>5. QED
    BY <2>1, <2>2, <2>3, <2>4 DEF OnceInv, Owning, Others, Keeps
<1> USE ConstantsAssumption, Stable
<1> USE DEF TypeOK, Calls, Status, At, Goto, Return, Idle, SetRow, ledger,
            history, OnceInv, Owning
<1>6. ASSUME NEW c \in Callers, Get(c), row[call[c].key] \notin {"none", "failed"}
      PROVE OnceInv'
  <2>1. /\ call[c].key \in Keys /\ call[c].pc = "get"
        /\ UNCHANGED <<row, done, reviewing>>
    BY <1>6 DEF Get, ReturnResult
  <2>2. CASE row[call[c].key] = "approved"
    <3>1. Goto(c, "start") /\ UNCHANGED told /\ call[c].key \notin StableKeys
      BY <1>6, <2>1, <2>2 DEF Get
    <3>2. QED
      BY <2>1, <3>1
  <2>3. CASE row[call[c].key] # "approved"
    <3>1. Return(c)
      BY <1>6, <2>3 DEF Get, ReturnResult
    <3>2. \/ UNCHANGED told
          \/ row[call[c].key] = "succeeded" /\ told' = told \cup {call[c].key}
      BY <1>6 DEF Get, ReturnResult
    <3>3. QED
      BY <2>1, <3>1, <3>2
  <2>4. QED
    BY <2>2, <2>3
<1>7. ASSUME NEW c \in Callers, Claim(c) PROVE OnceInv'
  <2> DEFINE k == call[c].key
  <2>1. k \in Keys /\ call[c].pc = "claim" /\ UNCHANGED <<done, told, reviewing>>
    BY <1>7 DEF Claim
  <2>2. CASE row[k] = "none"
    <3>1. /\ row' = [row EXCEPT ![k] = "pending"]
          /\ Goto(c, Sequel(call[c].verdict))
      BY <1>7, <2>2 DEF Claim
    <3>2. k \in StableKeys => Sequel(call[c].verdict) \in {"deny", "start"}
      BY <2>1, SequelPlace DEF Verdicts
    <3>3. k \in StableKeys => \A d \in Callers : call[d].key = k => call[d].pc \notin Owning
      BY <2>2
    <3>4. QED
      BY <2>1, <2>2, <3>1, <3>2, <3>3
  <2>3. CASE row[k] # "none"
    <3>1. UNCHANGED row /\ Goto(c, "reread")
      BY <1>7, <2>3 DEF Claim
    <3>2. QED
      BY <2>1, <3>1
  <2>4. QED
    BY <2>2, <2>3
<1>8. ASSUME NEW c \in Callers, Reread(c) PROVE OnceInv'
  <2>1. /\ call[c].key \in Keys /\ Return(c)
        /\ UNCHANGED <<row, done, reviewing>>
    BY <1>8 DEF Reread, ReturnResult
  <2>2. \/ UNCHANGED told
        \/ row[call[c].key] = "succeeded" /\ told' = told \cup {call[c].key}
    BY <1>8 DEF Reread, ReturnResult
  <2>3. QED
    BY <2>1, <2>2
<1>9. ASSUME NEW c \in Callers, MarkDenied(c) PROVE OnceInv'
  BY <1>9 DEF MarkDenied
<1>10. ASSUME NEW c \in Callers, MarkAwaitingApproval(c) PROVE OnceInv'
  BY <1>10 DEF MarkAwaitingApproval
<1>11. ASSUME NEW c \in Callers, MarkRunning(c) PROVE OnceInv'
  BY <1>11 DEF MarkRunning
<1>12. ASSUME NEW c \in Callers, Perform(c) PROVE OnceInv'
  BY <1>12 DEF Perform
<1>13. ASSUME NEW c \in Callers, MarkSucceeded(c) PROVE OnceInv'
  BY <1>13 DEF MarkSucceeded, ReturnResult
<1>14. ASSUME NEW c \in Callers, MarkFailed(c) PROVE OnceInv'
  BY <1>14 DEF MarkFailed
<1>15. ASSUME NEW c \in Callers, Crash(c) PROVE OnceInv'
  BY <1>15 DEF Crash
<1>16. ASSUME NEW r \in Reviewers, NEW k \in Keys, Review(r, k) PROVE OnceInv'
  BY <1>16 DEF Review
<1>17. ASSUME NEW r \in Reviewers, MarkApproved(r) PROVE OnceInv'
  BY <1>17 DEF MarkApproved
<1>18. ASSUME NEW r \in Reviewers, MarkRejected(r) PROVE OnceInv'
  BY <1>18 DEF MarkRejected
<1>19. CASE WindowPasses
  BY <1>19 DEF WindowPasses
<1>20. CASE UNCHANGED vars
  BY <1>20 DEF vars
<1>21. QED
  BY <1>1, <1>2, <1>3, <1>4, <1>5, <1>6, <1>7, <1>8, <1>9, <1>10, <1>11,
     <1>12, <1>13, <1>14, <1>15, <1>16, <1>17, <1>18, <1>19, <1>20
  DEF Next, Step

(* A step of run() is a step of the promise, or changes nothing it sees.   *)
LEMMA StepOnce == TypeOK /\ OnceInv /\ [Next]_vars => [Once!Next]_Once!vars
<1> SUFFICES ASSUME TypeOK, OnceInv, [Next]_vars PROVE [Once!Next]_Once!vars
  OBVIOUS
<1> USE ConstantsAssumption, Stable
<1> DEFINE effects == [k \in StableKeys |-> done[k]]
           answers == told \cap StableKeys
<1>1. ASSUME UNCHANGED done,
             \/ UNCHANGED told
             \/ \E k \in Keys : told' = told \cup {k} /\ (k \in StableKeys => done[k] = 1)
      PROVE  [Once!Next]_Once!vars
  <2>1. UNCHANGED effects
    BY <1>1
  <2>2. CASE UNCHANGED told
    BY <2>1, <2>2 DEF Once!vars
  <2>3. ASSUME NEW k \in Keys, told' = told \cup {k}, k \in StableKeys => done[k] = 1
        PROVE  [Once!Next]_Once!vars
    <3>1. CASE k \in StableKeys
      <4>1. effects[k] = 1 /\ answers' = answers \cup {k}
        BY <2>3, <3>1
      <4>2. Once!Tell(k)
        BY <2>1, <4>1 DEF Once!Tell
      <4>3. QED
        BY <3>1, <4>2 DEF Once!Next
    <3>2. CASE k \notin StableKeys
      <4>1. UNCHANGED answers
        BY <2>3, <3>2
      <4>2. QED
        BY <2>1, <4>1 DEF Once!vars
    <3>3. QED
      BY <3>1, <3>2
  <2>4. QED
    BY <1>1, <2>2, <2>3
<1>2. ASSUME NEW c \in Callers, Perform(c) PROVE [Once!Next]_Once!vars
  <2>1. call[c].key \in Keys /\ call[c].pc = "perform"
    BY <1>2 DEF Perform, TypeOK, Calls, At
  <2> PICK k \in Keys : k = call[c].key
    BY <2>1
  <2>2. done' = [done EXCEPT ![k] = @ + 1] /\ UNCHANGED told
    BY <1>2 DEF Perform
  <2>3. CASE k \in StableKeys
    <3>1. done[k] = 0
      BY <2>1, <2>3 DEF OnceInv
    <3>2. effects[k] = 0 /\ effects' = [effects EXCEPT ![k] = 1]
      BY <2>1, <2>2, <2>3, <3>1 DEF TypeOK
    <3>3. UNCHANGED answers
      BY <2>2
    <3> HIDE DEF effects, answers
    <3>4. Once!Perform(k)
      BY <3>2, <3>3 DEF Once!Perform, effects, answers
    <3>5. QED
      BY <2>3, <3>4 DEF Once!Next
  <2>4. CASE k \notin StableKeys
    <3>1. UNCHANGED effects /\ UNCHANGED answers
      BY <2>1, <2>2, <2>4 DEF TypeOK
    <3>2. QED
      BY <3>1 DEF Once!vars
  <2>5. QED
    BY <2>3, <2>4
<1>3. ASSUME NEW c \in Callers, Get(c) \/ Reread(c) PROVE [Once!Next]_Once!vars
  <2>1. call[c].key \in Keys /\ UNCHANGED done
    BY <1>3 DEF Get, Reread, TypeOK, Calls, At, ReturnResult, history
  <2>2. \/ UNCHANGED told
        \/ row[call[c].key] = "succeeded" /\ told' = told \cup {call[c].key}
    BY <1>3 DEF Get, Reread, ReturnResult, history
  <2>3. QED
    BY <1>1, <2>1, <2>2 DEF OnceInv
<1>4. ASSUME NEW c \in Callers, MarkSucceeded(c) PROVE [Once!Next]_Once!vars
  <2>1. /\ call[c].key \in Keys /\ call[c].pc = "record"
        /\ UNCHANGED done /\ told' = told \cup {call[c].key}
    BY <1>4 DEF MarkSucceeded, TypeOK, Calls, At, ReturnResult
  <2>2. QED
    BY <1>1, <2>1 DEF OnceInv
<1>5. ASSUME NEW c \in Callers,
             \/ \E k \in Keys : Call(c, k)
             \/ EvaluateBudget(c) \/ EvaluateRateLimit(c) \/ Claim(c)
             \/ MarkDenied(c) \/ MarkAwaitingApproval(c) \/ MarkRunning(c)
             \/ PerformThrows(c) \/ MarkSucceededThrows(c) \/ MarkFailed(c)
             \/ Crash(c)
      PROVE  [Once!Next]_Once!vars
  BY <1>1, <1>5
  DEF Call, EvaluateBudget, EvaluateRateLimit, Claim, MarkDenied,
      MarkAwaitingApproval, MarkRunning, PerformThrows, MarkSucceededThrows,
      MarkFailed, Crash, history
<1>6. ASSUME NEW r \in Reviewers,
             \/ \E k \in Keys : Review(r, k)
             \/ MarkApproved(r) \/ MarkRejected(r)
      PROVE  [Once!Next]_Once!vars
  BY <1>1, <1>6 DEF Review, MarkApproved, MarkRejected, history
<1>7. CASE WindowPasses \/ UNCHANGED vars
  BY <1>1, <1>7 DEF WindowPasses, history, vars
<1>8. QED
  BY <1>2, <1>3, <1>4, <1>5, <1>6, <1>7 DEF Next, Step

(* run() implements its promise for every key that cannot be reopened: the *)
(* work completes at most once and results come only from it.              *)
THEOREM ImplementsOncePerKey == Spec => OncePerStableKey
<1>1. Init => OnceInv
  BY ConstantsAssumption, Stable DEF Init, OnceInv, Idle, Owning
<1>2. Init => Once!Init
  <2> SUFFICES ASSUME Init PROVE Once!Init
    OBVIOUS
  <2>1. [k \in StableKeys |-> done[k]] = [k \in StableKeys |-> 0]
    BY Stable DEF Init
  <2>2. told \cap StableKeys = {}
    BY DEF Init
  <2>3. QED
    BY <2>1, <2>2 DEF Once!Init
<1>3. QED
  BY <1>1, <1>2, NextOnce, StepOnce, TypeCorrect, PTL
  DEF Spec, OncePerStableKey, Once!Spec

-----------------------------------------------------------------------------
(* The overshoot.                                                          *)

(* The calls whose policies let the action through, or whose approval did. *)
Admitted(c) ==
  \/ call[c].pc \in {"park", "start", "perform", "record", "fail"}
  \/ call[c].pc = "claim" /\ call[c].verdict # "deny"

(* What is held within the window, or may become held by a step under way. *)
Committed ==
  {k \in Keys \ aged :
     \/ k \in Held
     \/ \E c \in Callers : Admitted(c) /\ call[c].key = k
     \/ \E r \in Reviewers : reviewing[r] = k}

Bound == Limit + Cardinality(Callers) - 1 + Cardinality(Reviewers)

(* Held alone is not inductive: a call that was let through adds its key   *)
(* later, when others have been let through too.  Committed counts it from *)
(* the moment its policies were evaluated, and from then on only shrinks.  *)
RateInv ==
  /\ \A k \in aged : row[k] # "none"
  /\ OnExceed = "deny" => Cardinality(Committed) <= Bound

(* What is held or under way is a finite set of keys.                      *)
LEMMA CommittedType ==
  /\ IsFiniteSet(Committed) /\ Cardinality(Committed) \in Nat
  /\ Held \ aged \subseteq Committed
BY ConstantsAssumption, FS_Subset, FS_CardinalityType DEF Committed, Held

(* A set that shrinks stays within its bound.                              *)
LEMMA Shrinks ==
  ASSUME TypeOK, RateInv, Committed' \subseteq Committed
  PROVE  OnExceed = "deny" => Cardinality(Committed') <= Bound
<1>1. Cardinality(Committed') <= Cardinality(Committed)
  BY CommittedType, FS_Subset
<1>2. IsFiniteSet(Committed')
  BY CommittedType, FS_Subset
<1>3. /\ Cardinality(Committed) \in Nat /\ Cardinality(Committed') \in Nat
      /\ Bound \in Int
  BY <1>2, CommittedType, ConstantsAssumption, FS_CardinalityType DEF Bound
<1>4. QED
  BY <1>1, <1>3 DEF RateInv

(* A call that rateLimit lets through saw fewer than Limit actions: all    *)
(* else that is committed belongs to a call or a review under way.         *)
LEMMA LetThrough ==
  ASSUME TypeOK, TypeOK', RateInv, NEW c \in Callers, EvaluateRateLimit(c),
         OnExceed = "deny"
  PROVE  Cardinality(Committed') <= Bound
<1> USE ConstantsAssumption
<1>1. CASE RateVerdict = "deny"
  <2>1. Decided(c, "deny")
    BY <1>1 DEF EvaluateRateLimit, Stricter
  <2>2. /\ Others(c) /\ Keeps(c) /\ call'[c].verdict = "deny"
        /\ call'[c].pc \in {"claim", "deny"}
    <3>1. "deny" \in Verdicts /\ Sequel("deny") = "deny" /\ call[c].existing \in BOOLEAN
      BY DEF Verdicts, Sequel, TypeOK, Calls
    <3>2. QED
      BY <2>1, <3>1, DecidedEffect
  <2>3. \A d \in Callers : call'[d].key = call[d].key /\ (Admitted(d)' => Admitted(d))
    BY <2>2 DEF Admitted, Others, Keeps
  <2>4. Committed' \subseteq Committed
    BY <2>3 DEF EvaluateRateLimit, Committed, Held, ledger
  <2>5. QED
    BY <2>4, Shrinks
<1>2. CASE RateVerdict # "deny"
  <2> DEFINE keyOf == [d \in Callers |-> call'[d].key]
             keyIn == [r \in Reviewers |-> reviewing[r]]
             seen == Counting \ aged
             calls == {keyOf[d] : d \in Callers}
             reviews == {keyIn[r] : r \in Reviewers}
  <2>1. Committed' \subseteq (seen \cup calls) \cup reviews
    BY DEF EvaluateRateLimit, ledger, Committed, Admitted, Held, Counting, NonCounting
  <2>2. IsFiniteSet(calls) /\ Cardinality(calls) <= Cardinality(Callers)
    <3>1. keyOf \in [Callers -> Keys \cup {NoKey}]
      BY DEF TypeOK, Calls
    <3>2. \A y \in calls : \E d \in Callers : y = keyOf[d]
      OBVIOUS
    <3> HIDE DEF keyOf, calls
    <3>3. QED
      BY <3>1, <3>2, ImageCardinality
  <2>3. IsFiniteSet(reviews) /\ Cardinality(reviews) <= Cardinality(Reviewers)
    <3>1. keyIn \in [Reviewers -> Keys \cup {NoKey}]
      BY DEF TypeOK
    <3>2. \A y \in reviews : \E r \in Reviewers : y = keyIn[r]
      OBVIOUS
    <3> HIDE DEF keyIn, reviews
    <3>3. QED
      BY <3>1, <3>2, ImageCardinality
  <2>4. IsFiniteSet(seen) /\ Cardinality(seen) \in Nat
    BY FS_Subset, FS_CardinalityType DEF Counting
  <2>5. Cardinality(seen) < Limit
    BY <1>2, <2>4 DEF RateVerdict
  <2> HIDE DEF calls, reviews, seen
  <2>6. /\ IsFiniteSet(seen \cup calls)
        /\ Cardinality(seen \cup calls) <= Cardinality(seen) + Cardinality(calls)
    BY <2>2, <2>4, UnionCardinality
  <2>7. /\ IsFiniteSet((seen \cup calls) \cup reviews)
        /\ Cardinality((seen \cup calls) \cup reviews)
             <= Cardinality(seen \cup calls) + Cardinality(reviews)
    BY <2>3, <2>6, UnionCardinality
  <2>8. /\ IsFiniteSet(Committed')
        /\ Cardinality(Committed') <= Cardinality((seen \cup calls) \cup reviews)
    BY <2>1, <2>7, FS_Subset
  <2>9. /\ Cardinality(calls) \in Nat /\ Cardinality(reviews) \in Nat
        /\ Cardinality(seen \cup calls) \in Nat
        /\ Cardinality((seen \cup calls) \cup reviews) \in Nat
        /\ Cardinality(Committed') \in Nat
        /\ Cardinality(Callers) \in Nat /\ Cardinality(Reviewers) \in Nat
    BY <2>2, <2>3, <2>6, <2>7, <2>8, FS_CardinalityType
  <2>10. QED
    BY <2>2, <2>3, <2>4, <2>5, <2>6, <2>7, <2>8, <2>9 DEF Bound
<1>3. QED
  BY <1>1, <1>2

(* Every other step adds to what is held only what was committed before.   *)
LEMMA NextRate == TypeOK /\ TypeOK' /\ RateInv /\ [Next]_vars => RateInv'
<1> SUFFICES ASSUME TypeOK, TypeOK', RateInv, [Next]_vars PROVE RateInv'
  OBVIOUS
<1>0. ASSUME UNCHANGED aged, \A k \in Keys : row[k] # "none" => row'[k] # "none",
             Committed' \subseteq Committed
      PROVE  RateInv'
  BY <1>0, Shrinks DEF RateInv, Bound, TypeOK
<1>1. ASSUME NEW c \in Callers, NEW k \in Keys, Call(c, k) PROVE RateInv'
  <2>1. /\ Others(c) /\ call'[c].pc = "get"
    BY <1>1, CallEffect
  <2>2. UNCHANGED <<row, aged, reviewing>>
    BY <1>1 DEF Call, ledger, history
  <2>3. Committed' \subseteq Committed
    BY <2>1, <2>2 DEF Committed, Held, Admitted, Others
  <2>4. QED
    BY <1>0, <2>2, <2>3
<1>2. ASSUME NEW c \in Callers, Get(c), row[call[c].key] \in {"none", "failed"}
      PROVE  RateInv'
  <2>1. call' = [call EXCEPT ![c] = [@ EXCEPT !.pc = "policy",
                                              !.existing = row[call[c].key] # "none"]]
    BY <1>2 DEF Get
  <2>2. Others(c) /\ call'[c].pc = "policy"
    BY <2>1, OpenEffect
  <2>3. UNCHANGED <<row, aged, reviewing>>
    BY <1>2 DEF Get, ledger
  <2>4. Committed' \subseteq Committed
    BY <2>2, <2>3 DEF Committed, Held, Admitted, Others
  <2>5. QED
    BY <1>0, <2>3, <2>4
<1>3. ASSUME NEW c \in Callers, EvaluateBudget(c) PROVE RateInv'
  <2>1. /\ Others(c)
        /\ \/ call'[c].pc \in {"rateLimit", "deny"}
           \/ call'[c].pc = "claim" /\ call'[c].verdict = "deny"
    BY <1>3, BudgetEffect
  <2>2. UNCHANGED <<row, aged, reviewing>>
    BY <1>3 DEF EvaluateBudget, ledger
  <2>3. Committed' \subseteq Committed
    BY <2>1, <2>2 DEF Committed, Held, Admitted, Others
  <2>4. QED
    BY <1>0, <2>2, <2>3
<1>4. ASSUME NEW c \in Callers, EvaluateRateLimit(c) PROVE RateInv'
  <2>1. UNCHANGED <<row, aged>>
    BY <1>4 DEF EvaluateRateLimit, ledger
  <2>2. \A k \in aged' : row'[k] # "none"
    BY <2>1 DEF RateInv
  <2>3. OnExceed = "deny" => Cardinality(Committed') <= Bound
    BY <1>4, LetThrough
  <2>4. QED
    BY <2>2, <2>3 DEF RateInv, Bound
<1>5. ASSUME NEW c \in Callers, PerformThrows(c) \/ MarkSucceededThrows(c)
      PROVE  RateInv'
  <2>1. /\ Others(c) /\ Keeps(c)
    BY <1>5, CaughtEffect DEF PerformThrows, MarkSucceededThrows
  <2>2. /\ call[c].pc \in {"perform", "record"} /\ call[c].key \in Keys
        /\ UNCHANGED <<aged, reviewing>>
    BY <1>5, ConstantsAssumption
    DEF PerformThrows, MarkSucceededThrows, At, ledger, TypeOK, Calls
  <2>3. \A k \in Keys : row'[k] = row[k] \/ (k = call[c].key /\ row'[k] = "succeeded")
    BY <1>5 DEF PerformThrows, MarkSucceededThrows, SetRow, ledger, TypeOK
  <2>4. Committed' \subseteq Committed
    BY <2>1, <2>2, <2>3 DEF Committed, Held, Admitted, Others, Keeps
  <2>5. QED
    BY <1>0, <2>2, <2>3, <2>4
<1> USE ConstantsAssumption
<1> USE DEF At, Goto, Return, Idle, SetRow, ledger, TypeOK, Calls, Status, history
<1>6. ASSUME NEW c \in Callers, Get(c), row[call[c].key] \notin {"none", "failed"}
      PROVE RateInv'
  <2>1. UNCHANGED aged /\ \A k \in Keys : row[k] # "none" => row'[k] # "none"
    BY <1>6 DEF Get, ReturnResult
  <2>2. Committed' \subseteq Committed
    BY <1>6 DEF Get, ReturnResult, Committed, Held, Admitted
  <2>3. QED
    BY <1>0, <2>1, <2>2
<1>7. ASSUME NEW c \in Callers, Claim(c) PROVE RateInv'
  <2>1. UNCHANGED aged /\ \A k \in Keys : row[k] # "none" => row'[k] # "none"
    BY <1>7 DEF Claim
  <2>2. Committed' \subseteq Committed
    BY <1>7, SequelPlace DEF Claim, Committed, Held, Admitted
  <2>3. QED
    BY <1>0, <2>1, <2>2
<1>8. ASSUME NEW c \in Callers, Reread(c) PROVE RateInv'
  <2>1. UNCHANGED aged /\ \A k \in Keys : row[k] # "none" => row'[k] # "none"
    BY <1>8 DEF Reread, ReturnResult
  <2>2. Committed' \subseteq Committed
    BY <1>8 DEF Reread, ReturnResult, Committed, Held, Admitted
  <2>3. QED
    BY <1>0, <2>1, <2>2
<1>9. ASSUME NEW c \in Callers, MarkDenied(c) PROVE RateInv'
  <2>1. UNCHANGED aged /\ \A k \in Keys : row[k] # "none" => row'[k] # "none"
    BY <1>9 DEF MarkDenied
  <2>2. Committed' \subseteq Committed
    BY <1>9 DEF MarkDenied, Committed, Held, Admitted
  <2>3. QED
    BY <1>0, <2>1, <2>2
<1>10. ASSUME NEW c \in Callers, MarkAwaitingApproval(c) PROVE RateInv'
  <2>1. UNCHANGED aged /\ \A k \in Keys : row[k] # "none" => row'[k] # "none"
    BY <1>10 DEF MarkAwaitingApproval
  <2>2. Committed' \subseteq Committed
    BY <1>10 DEF MarkAwaitingApproval, Committed, Held, Admitted
  <2>3. QED
    BY <1>0, <2>1, <2>2
<1>11. ASSUME NEW c \in Callers, MarkRunning(c) PROVE RateInv'
  <2>1. UNCHANGED aged /\ \A k \in Keys : row[k] # "none" => row'[k] # "none"
    BY <1>11 DEF MarkRunning
  <2>2. Committed' \subseteq Committed
    BY <1>11 DEF MarkRunning, Committed, Held, Admitted
  <2>3. QED
    BY <1>0, <2>1, <2>2
<1>12. ASSUME NEW c \in Callers, Perform(c) PROVE RateInv'
  <2>1. UNCHANGED aged /\ \A k \in Keys : row[k] # "none" => row'[k] # "none"
    BY <1>12 DEF Perform
  <2>2. Committed' \subseteq Committed
    BY <1>12 DEF Perform, Committed, Held, Admitted
  <2>3. QED
    BY <1>0, <2>1, <2>2
<1>13. ASSUME NEW c \in Callers, MarkSucceeded(c) PROVE RateInv'
  <2>1. UNCHANGED aged /\ \A k \in Keys : row[k] # "none" => row'[k] # "none"
    BY <1>13 DEF MarkSucceeded, ReturnResult
  <2>2. Committed' \subseteq Committed
    BY <1>13 DEF MarkSucceeded, ReturnResult, Committed, Held, Admitted
  <2>3. QED
    BY <1>0, <2>1, <2>2
<1>14. ASSUME NEW c \in Callers, MarkFailed(c) PROVE RateInv'
  <2>1. UNCHANGED aged /\ \A k \in Keys : row[k] # "none" => row'[k] # "none"
    BY <1>14 DEF MarkFailed
  <2>2. Committed' \subseteq Committed
    BY <1>14 DEF MarkFailed, Committed, Held, Admitted
  <2>3. QED
    BY <1>0, <2>1, <2>2
<1>15. ASSUME NEW c \in Callers, Crash(c) PROVE RateInv'
  <2>1. UNCHANGED aged /\ \A k \in Keys : row[k] # "none" => row'[k] # "none"
    BY <1>15 DEF Crash
  <2>2. Committed' \subseteq Committed
    BY <1>15 DEF Crash, Committed, Held, Admitted
  <2>3. QED
    BY <1>0, <2>1, <2>2
<1>16. ASSUME NEW r \in Reviewers, NEW k \in Keys, Review(r, k) PROVE RateInv'
  <2>1. UNCHANGED aged /\ \A j \in Keys : row[j] # "none" => row'[j] # "none"
    BY <1>16 DEF Review
  <2>2. Committed' \subseteq Committed
    BY <1>16 DEF Review, Committed, Held, Admitted
  <2>3. QED
    BY <1>0, <2>1, <2>2
<1>17. ASSUME NEW r \in Reviewers, MarkApproved(r) PROVE RateInv'
  <2>1. UNCHANGED aged /\ \A k \in Keys : row[k] # "none" => row'[k] # "none"
    BY <1>17 DEF MarkApproved
  <2>2. Committed' \subseteq Committed
    BY <1>17 DEF MarkApproved, Committed, Held, Admitted
  <2>3. QED
    BY <1>0, <2>1, <2>2
<1>18. ASSUME NEW r \in Reviewers, MarkRejected(r) PROVE RateInv'
  <2>1. UNCHANGED aged /\ \A k \in Keys : row[k] # "none" => row'[k] # "none"
    BY <1>18 DEF MarkRejected
  <2>2. Committed' \subseteq Committed
    BY <1>18 DEF MarkRejected, Committed, Held, Admitted
  <2>3. QED
    BY <1>0, <2>1, <2>2
<1>19. CASE WindowPasses
  <2>1. aged' = {k \in Keys : row[k] # "none"} /\ UNCHANGED <<row, call, reviewing>>
    BY <1>19 DEF WindowPasses
  <2>2. Committed' \subseteq Committed
    BY <2>1 DEF Committed, Held, Admitted, RateInv
  <2>3. OnExceed = "deny" => Cardinality(Committed') <= Bound
    BY <2>2, Shrinks
  <2>4. \A k \in aged' : row'[k] # "none"
    BY <2>1
  <2>5. QED
    BY <2>3, <2>4 DEF RateInv, Bound
<1>20. CASE UNCHANGED vars
  <2>1. UNCHANGED <<row, aged, call, reviewing>>
    BY <1>20 DEF vars
  <2>2. Committed' \subseteq Committed
    BY <2>1 DEF Committed, Held, Admitted
  <2>3. QED
    BY <1>0, <2>1, <2>2
<1>21. QED
  BY <1>1, <1>2, <1>3, <1>4, <1>5, <1>6, <1>7, <1>8, <1>9, <1>10, <1>11,
     <1>12, <1>13, <1>14, <1>15, <1>16, <1>17, <1>18, <1>19, <1>20
  DEF Next, Step

(* However many calls race, the rate limit is overshot by at most one per  *)
(* call and review under way: policy is evaluated before the claim         *)
(* (run.ts:78-80) but a row counts from its insert on (ledger.ts:78).      *)
THEOREM RateOvershootBounded == Spec => []RateOvershoot
<1>1. Init => RateInv
  <2> SUFFICES ASSUME Init PROVE RateInv
    OBVIOUS
  <2>1. Committed = {} /\ aged = {}
    BY ConstantsAssumption DEF Init, Committed, Held, Admitted, Idle
  <2>2. QED
    BY <2>1, ConstantsAssumption, FS_EmptySet, FS_CardinalityType DEF RateInv, Bound
<1>2. RateInv => RateOvershoot
  <2> SUFFICES ASSUME RateInv, OnExceed = "deny"
               PROVE  Cardinality(Held \ aged) <= Bound
    BY DEF RateOvershoot, Bound
  <2>1. /\ IsFiniteSet(Held \ aged)
        /\ Cardinality(Held \ aged) <= Cardinality(Committed)
    BY CommittedType, FS_Subset
  <2>2. QED
    BY <2>1, CommittedType, ConstantsAssumption, FS_CardinalityType DEF RateInv, Bound
<1>3. QED
  BY <1>1, <1>2, NextRate, TypeCorrect, PTL DEF Spec

-----------------------------------------------------------------------------
(* The cost of a set of keys.                                              *)

(* Its cents, one by one: their number is the sum of the costs.            *)
Cents(ks) == Units(Cost, ks)

LEMMA CentsFinite ==
  ASSUME NEW ks \in SUBSET Keys
  PROVE  IsFiniteSet(Cents(ks)) /\ Cardinality(Cents(ks)) \in Nat
<1>1. IsFiniteSet(ks) /\ \A k \in ks : Cost[k] \in Nat
  BY ConstantsAssumption, FS_Subset
<1> QED  BY <1>1, UnitsFinite DEF Cents

(* The cents of a key more.                                                *)
LEMMA CentsAdd ==
  ASSUME NEW ks \in SUBSET Keys, NEW k \in ks
  PROVE  Cardinality(Cents(ks)) = Cost[k] + Cardinality(Cents(ks \ {k}))
<1>1. Cost[k] \in Nat /\ IsFiniteSet(Units(Cost, ks \ {k}))
  BY ConstantsAssumption, CentsFinite DEF Cents
<1> QED  BY <1>1, UnitsAdd DEF Cents

LEMMA TotalCostCounts ==
  ASSUME NEW ks \in SUBSET Keys
  PROVE  TotalCost(ks) = Cardinality(Cents(ks))
<1>1. IsFiniteSet(ks) /\ \A k \in ks : Cost[k] \in Nat
  BY ConstantsAssumption, FS_Subset
<1> QED  BY <1>1, SumCounts DEF TotalCost, Cents

(* No key costs more than the dearest.                                     *)
LEMMA Dearest == MaxCost \in Nat /\ \A k \in Keys : Cost[k] <= MaxCost
<1> DEFINE costs == {Cost[k] : k \in Keys}
           all == {0} \cup costs
<1>1. all \in SUBSET Nat /\ all # {}  BY ConstantsAssumption
<1>2. IsFiniteSet(all)
  <2>1. \A y \in costs : \E k \in Keys : y = Cost[k]  OBVIOUS
  <2> HIDE DEF costs
  <2>2. IsFiniteSet(costs)  BY <2>1, ConstantsAssumption, ImageCardinality
  <2> QED  BY <2>2, FS_Singleton, UnionCardinality
<1>3. \A k \in Keys : Cost[k] \in all  OBVIOUS
<1>4. MaxCost = Max(all)  BY DEF MaxCost
<1> HIDE DEF all
<1> QED  BY <1>1, <1>2, <1>3, <1>4, FiniteMax

(* What more keys cost at most.                                            *)
LEMMA CostsAdd ==
  ASSUME NEW S \in SUBSET Keys, NEW T, IsFiniteSet(T),
         NEW U \in SUBSET Keys, U \subseteq S \cup T
  PROVE  TotalCost(U) <= TotalCost(S) + MaxCost * Cardinality(T)
<1>1. IsFiniteSet(S) /\ MaxCost \in Nat /\ \A k \in U : Cost[k] \in Nat /\ Cost[k] <= MaxCost
  BY ConstantsAssumption, FS_Subset, Dearest
<1>2. \A k \in S : Cost[k] \in Nat  BY ConstantsAssumption
<1> QED  BY <1>1, <1>2, SumCovers DEF TotalCost

(* And fewer keys cost no more.                                            *)
LEMMA CostsShrink ==
  ASSUME NEW S \in SUBSET Keys, NEW U \in SUBSET S
  PROVE  /\ TotalCost(U) <= TotalCost(S)
         /\ TotalCost(U) \in Nat /\ TotalCost(S) \in Nat
<1>1. Cents(U) \subseteq Cents(S)  BY DEF Cents, Units
<1>2. Cardinality(Cents(U)) <= Cardinality(Cents(S))  BY <1>1, CentsFinite, FS_Subset
<1> QED  BY <1>2, CentsFinite, TotalCostCounts

-----------------------------------------------------------------------------
(* The budget.                                                             *)

(* The calls that the budget let through.                                  *)
Afforded(c) ==
  \/ call[c].pc \in {"rateLimit", "park", "start", "perform", "record", "fail"}
  \/ call[c].pc = "claim" /\ call[c].verdict # "deny"

(* What is held, or may become held by a call or a review under way.       *)
Spending ==
  {k \in Keys :
     \/ k \in Held
     \/ \E c \in Callers : Afforded(c) /\ call[c].key = k
     \/ \E r \in Reviewers : reviewing[r] = k}

Means == Budget + MaxCost * (Cardinality(Callers) - 1 + Cardinality(Reviewers))

(* As with the rate limit, what is held alone is not inductive.            *)
BudgetInv == OnExceed = "deny" => TotalCost(Spending) <= Means

(* The bound is a number.                                                  *)
LEMMA MeansType ==
  /\ Means \in Nat /\ Cardinality(Callers) \in Nat /\ Cardinality(Reviewers) \in Nat
  /\ Cardinality(Callers) >= 1
<1>1. /\ Cardinality(Callers) \in Nat /\ Cardinality(Reviewers) \in Nat
      /\ Cardinality(Callers) # 0
  BY ConstantsAssumption, FS_CardinalityType, FS_EmptySet
<1> DEFINE n == Cardinality(Callers) - 1 + Cardinality(Reviewers)
<1>2. n \in Nat /\ Cardinality(Callers) >= 1  BY <1>1
<1> HIDE DEF n
<1>3. MaxCost * n \in Nat  BY <1>2, Dearest
<1>4. Means \in Nat  BY <1>3, ConstantsAssumption DEF Means, n
<1> QED  BY <1>1, <1>2, <1>4

(* What shrinks stays within the means.                                    *)
LEMMA SpendsLess ==
  ASSUME BudgetInv, Spending' \subseteq Spending
  PROVE  BudgetInv'
<1>1. Spending \in SUBSET Keys  BY DEF Spending
<1>2. /\ TotalCost(Spending') <= TotalCost(Spending)
      /\ TotalCost(Spending') \in Nat /\ TotalCost(Spending) \in Nat
  BY <1>1, CostsShrink
<1> QED  BY <1>2, MeansType DEF BudgetInv, Means

(* A call that the budget lets through saw what it costs, and its own cost,*)
(* within the budget; all else belongs to another call or a review.        *)
LEMMA BudgetLets ==
  ASSUME TypeOK, BudgetInv, NEW c \in Callers, EvaluateBudget(c)
  PROVE  BudgetInv'
<1> USE ConstantsAssumption
<1> DEFINE k == call[c].key
           v == Stricter(PredicateVerdict(k), BudgetVerdict(k))
<1>1. UNCHANGED <<row, reviewing>>  BY DEF EvaluateBudget, ledger
<1>2. Others(c) /\ Keeps(c)  BY BudgetEffect
<1>3. CASE ~Afforded(c)'
  <2>1. \A d \in Callers : Afforded(d)' => Afforded(d) /\ call'[d].key = call[d].key
    BY <1>2, <1>3 DEF Afforded, Others
  <2>2. Spending' \subseteq Spending  BY <1>1, <2>1 DEF Spending, Held
  <2> QED  BY <2>2, SpendsLess
<1>4. CASE Afforded(c)'
  <2> SUFFICES ASSUME OnExceed = "deny" PROVE TotalCost(Spending') <= Means
    BY DEF BudgetInv, Means
  <2>1. v # "deny" /\ k \in Keys
    <3>1. call'[c].verdict = v /\ (call'[c].pc = "rateLimit" \/ v = "deny")
      BY BudgetEffect
    <3>2. v = "deny" => call'[c].pc \in {"claim", "deny"}
      <4> SUFFICES ASSUME v = "deny" PROVE call'[c].pc \in {"claim", "deny"}  OBVIOUS
      <4>1. Decided(c, "deny")  BY DEF EvaluateBudget
      <4>2. "deny" \in Verdicts /\ Sequel("deny") = "deny" /\ call[c].existing \in BOOLEAN
        BY DEF Verdicts, Sequel, TypeOK, Calls
      <4> QED  BY <4>1, <4>2, DecidedEffect
    <3>3. call[c].pc = "policy" /\ call[c].key \in Keys
      BY DEF EvaluateBudget, At, TypeOK, Calls
    <3> QED  BY <1>4, <3>1, <3>2, <3>3 DEF Afforded
  <2>2. TotalCost(Counting) + Cost[k] <= Budget
    <3>1. BudgetVerdict(k) # "deny"  BY <2>1 DEF Stricter
    <3>2. ~(TotalCost(Counting) + Cost[k] > Budget)  BY <3>1 DEF BudgetVerdict
    <3>3. Counting \in SUBSET Keys /\ TotalCost(Counting) \in Nat
      BY CostsShrink DEF Counting
    <3> QED  BY <2>1, <3>2, <3>3
  <2> DEFINE keyOf == [d \in Callers \ {c} |-> call[d].key]
             keyIn == [r \in Reviewers |-> reviewing[r]]
             calls == {keyOf[d] : d \in Callers \ {c}}
             reviews == {keyIn[r] : r \in Reviewers}
             others == calls \cup reviews
  <2>3. Spending' \subseteq (Counting \cup {k}) \cup others
    BY <1>1, <1>2 DEF Spending, Held, Counting, NonCounting, Others, Keeps
  <2>4. IsFiniteSet(calls) /\ Cardinality(calls) <= Cardinality(Callers) - 1
    <3>1. keyOf \in [Callers \ {c} -> Keys \cup {NoKey}]  BY DEF TypeOK, Calls
    <3>2. \A y \in calls : \E d \in Callers \ {c} : y = keyOf[d]  OBVIOUS
    <3>3. IsFiniteSet(Callers \ {c}) /\ Cardinality(Callers \ {c}) = Cardinality(Callers) - 1
      BY FS_RemoveElement
    <3> HIDE DEF keyOf, calls
    <3>4. IsFiniteSet(calls) /\ Cardinality(calls) <= Cardinality(Callers \ {c})
      BY <3>1, <3>2, <3>3, ImageCardinality
    <3> QED  BY <3>3, <3>4
  <2>5. IsFiniteSet(reviews) /\ Cardinality(reviews) <= Cardinality(Reviewers)
    <3>1. keyIn \in [Reviewers -> Keys \cup {NoKey}]  BY DEF TypeOK
    <3>2. \A y \in reviews : \E r \in Reviewers : y = keyIn[r]  OBVIOUS
    <3> HIDE DEF keyIn, reviews
    <3> QED  BY <3>1, <3>2, ImageCardinality
  <2> HIDE DEF calls, reviews
  <2>6. /\ IsFiniteSet(others)
        /\ Cardinality(others) <= Cardinality(Callers) - 1 + Cardinality(Reviewers)
    <3>1. /\ IsFiniteSet(others)
          /\ Cardinality(others) <= Cardinality(calls) + Cardinality(reviews)
      BY <2>4, <2>5, UnionCardinality
    <3>2. /\ Cardinality(calls) \in Nat /\ Cardinality(reviews) \in Nat
          /\ Cardinality(others) \in Nat
      BY <2>4, <2>5, <3>1, FS_CardinalityType
    <3> QED  BY <2>4, <2>5, <3>1, <3>2, MeansType
  <2> HIDE DEF others, k
  <2>7. TotalCost(Counting \cup {k}) <= TotalCost(Counting) + Cost[k]
    <3>1. Counting \in SUBSET Keys /\ Counting \cup {k} \in SUBSET Keys  BY <2>1 DEF Counting
    <3>2. CASE k \in Counting
      <4>1. Counting \cup {k} = Counting  BY <3>2
      <4>2. TotalCost(Counting) \in Nat /\ Cost[k] \in Nat  BY <2>1, <3>1, CostsShrink
      <4>3. TotalCost(Counting) <= TotalCost(Counting) + Cost[k]  BY <4>2
      <4> QED  BY <4>1, <4>3
    <3>3. CASE k \notin Counting
      <4>1. (Counting \cup {k}) \ {k} = Counting  BY <3>3
      <4>2. /\ IsFiniteSet(Cents(Counting)) /\ Cardinality(Cents(Counting)) \in Nat
        BY <3>1, CentsFinite
      <4>3. Cardinality(Cents(Counting \cup {k})) = Cost[k] + Cardinality(Cents(Counting))
        BY <3>1, <4>1, <4>2, CentsAdd
      <4> QED  BY <2>1, <3>1, <4>2, <4>3, TotalCostCounts
    <3> QED  BY <3>2, <3>3
  <2>8. TotalCost(Spending') <= TotalCost(Counting \cup {k}) + MaxCost * Cardinality(others)
    <3>1. Counting \cup {k} \in SUBSET Keys /\ Spending' \in SUBSET Keys
      BY <2>1 DEF Counting, Spending
    <3> QED  BY <2>3, <2>6, <3>1, CostsAdd
  <2> DEFINE n == Cardinality(Callers) - 1 + Cardinality(Reviewers)
             o == Cardinality(others)
             s == TotalCost(Spending')
             t == TotalCost(Counting \cup {k})
             u == TotalCost(Counting)
  <2>9. /\ n \in Nat /\ o \in Nat /\ s \in Nat /\ t \in Nat /\ u \in Nat /\ Cost[k] \in Nat
        /\ MaxCost \in Nat
    <3>1. Counting \in SUBSET Keys /\ Counting \cup {k} \in SUBSET Keys /\ Spending' \in SUBSET Keys
      BY <2>1 DEF Counting, Spending
    <3> QED  BY <2>1, <2>6, <3>1, MeansType, FS_CardinalityType, CostsShrink, Dearest
  <2>10. o <= n /\ s <= t + MaxCost * o /\ t <= u + Cost[k] /\ u + Cost[k] <= Budget
    BY <2>2, <2>6, <2>7, <2>8
  <2>11. Means = Budget + MaxCost * n  BY DEF Means
  <2> HIDE DEF n, o, s, t, u
  <2>12. MaxCost * o <= MaxCost * n /\ MaxCost * o \in Nat /\ MaxCost * n \in Nat
    <3>1. PICK e \in Nat : n = o + e
      <4>1. n - o \in Nat /\ n = o + (n - o)  BY <2>9, <2>10
      <4> QED  BY <4>1
    <3>2. MaxCost * (o + e) = MaxCost * o + MaxCost * e  BY <2>9
    <3>3. MaxCost * o \in Nat /\ MaxCost * e \in Nat  BY <2>9
    <3> QED  BY <3>1, <3>2, <3>3
  <2> DEFINE x == MaxCost * o
             y == MaxCost * n
  <2>13. x \in Nat /\ y \in Nat /\ x <= y /\ s <= t + x /\ Means = Budget + y
    BY <2>10, <2>11, <2>12
  <2> HIDE DEF x, y
  <2>14. s <= Means  BY <2>9, <2>10, <2>13
  <2> QED  BY <2>14 DEF s
<1> QED  BY <1>3, <1>4

(* Every other step adds to what is held only what was counted before.     *)
LEMMA NextBudget == TypeOK /\ BudgetInv /\ [Next]_vars => BudgetInv'
<1> SUFFICES ASSUME TypeOK, BudgetInv, [Next]_vars PROVE BudgetInv'
  OBVIOUS
<1>0. ASSUME Spending' \subseteq Spending PROVE BudgetInv'  BY <1>0, SpendsLess
<1>1. ASSUME NEW c \in Callers, NEW k \in Keys, Call(c, k) PROVE BudgetInv'
  <2>1. /\ Others(c) /\ call'[c].pc = "get" /\ UNCHANGED <<row, reviewing>>
    BY <1>1, CallEffect DEF Call, ledger
  <2>2. Spending' \subseteq Spending  BY <2>1 DEF Spending, Held, Afforded, Others
  <2> QED  BY <1>0, <2>2
<1>2. ASSUME NEW c \in Callers, Get(c), row[call[c].key] \in {"none", "failed"}
      PROVE  BudgetInv'
  <2>1. call' = [call EXCEPT ![c] = [@ EXCEPT !.pc = "policy",
                                              !.existing = row[call[c].key] # "none"]]
    BY <1>2 DEF Get
  <2>2. Others(c) /\ call'[c].pc = "policy"  BY <2>1, OpenEffect
  <2>3. UNCHANGED <<row, reviewing>>  BY <1>2 DEF Get, ledger
  <2>4. Spending' \subseteq Spending  BY <2>2, <2>3 DEF Spending, Held, Afforded, Others
  <2> QED  BY <1>0, <2>4
<1>3. ASSUME NEW c \in Callers, EvaluateBudget(c) PROVE BudgetInv'
  BY <1>3, BudgetLets
<1>4. ASSUME NEW c \in Callers, EvaluateRateLimit(c) PROVE BudgetInv'
  <2> DEFINE v == Stricter(call[c].verdict, RateVerdict)
  <2>1. v \in Verdicts /\ Decided(c, v) /\ call[c].pc = "rateLimit"
    BY <1>4, VerdictType DEF EvaluateRateLimit, At
  <2> HIDE DEF v
  <2>2. Others(c) /\ Keeps(c)  BY <2>1, DecidedEffect
  <2>3. UNCHANGED <<row, reviewing>>  BY <1>4 DEF EvaluateRateLimit, ledger
  <2>4. Spending' \subseteq Spending
    BY <2>1, <2>2, <2>3 DEF Spending, Held, Afforded, Others, Keeps
  <2> QED  BY <1>0, <2>4
<1>5. ASSUME NEW c \in Callers, PerformThrows(c) \/ MarkSucceededThrows(c)
      PROVE  BudgetInv'
  <2>1. /\ Others(c) /\ Keeps(c)
    BY <1>5, CaughtEffect DEF PerformThrows, MarkSucceededThrows
  <2>2. /\ call[c].pc \in {"perform", "record"} /\ call[c].key \in Keys
        /\ UNCHANGED reviewing
    BY <1>5, ConstantsAssumption DEF PerformThrows, MarkSucceededThrows, At, TypeOK, Calls
  <2>3. \A k \in Keys : row'[k] = row[k] \/ (k = call[c].key /\ row'[k] = "succeeded")
    BY <1>5 DEF PerformThrows, MarkSucceededThrows, SetRow, ledger, TypeOK
  <2>4. Spending' \subseteq Spending
    BY <2>1, <2>2, <2>3 DEF Spending, Held, Afforded, Others, Keeps
  <2> QED  BY <1>0, <2>4
<1>6. ASSUME NEW c \in Callers, Get(c), row[call[c].key] \notin {"none", "failed"}
      PROVE  BudgetInv'
  <2>1. /\ Others(c) /\ call'[c].pc \in {"idle", "start"}
        /\ call'[c].pc = "start" => Keeps(c) /\ row[call[c].key] = "approved"
        /\ UNCHANGED <<row, reviewing>>
    BY <1>6, AnswerEffect
  <2>2. Spending' \subseteq Spending
    BY <2>1 DEF Spending, Held, Afforded, Others, Keeps
  <2> QED  BY <1>0, <2>2
<1>7. ASSUME NEW c \in Callers, Claim(c) PROVE BudgetInv'
  <2>1. /\ call[c].pc = "claim" /\ call[c].key \in Keys /\ call[c].verdict \in Verdicts
        /\ UNCHANGED reviewing /\ row \in [Keys -> Status]
    BY <1>7 DEF Claim, At, TypeOK, Calls
  <2> DEFINE place == Sequel(call[c].verdict)
  <2>2. place \in {"deny", "park", "start"} /\ (place \in {"park", "start"} => call[c].verdict # "deny")
    BY <2>1, SequelPlace
  <2>3. /\ Others(c) /\ Keeps(c)
        /\ call'[c].pc \in {place, "reread"}
    <3>1. place \in Places /\ "reread" \in Places  BY <2>2 DEF Places
    <3>2. Goto(c, place) \/ Goto(c, "reread")  BY <1>7 DEF Claim
    <3> HIDE DEF place
    <3> QED  BY <3>1, <3>2, GotoEffect
  <2>4. \A k \in Keys : row'[k] = row[k] \/ row'[k] = "pending"
    BY <1>7, <2>1 DEF Claim, SetRow
  <2> HIDE DEF place
  <2>5. Spending' \subseteq Spending
    BY <2>1, <2>2, <2>3, <2>4 DEF Spending, Held, Afforded, Others, Keeps
  <2> QED  BY <1>0, <2>5
<1> USE ConstantsAssumption
<1> USE DEF At, Goto, Return, Idle, SetRow, ledger, TypeOK, Calls, Status, history
<1>8. ASSUME NEW c \in Callers, Reread(c) PROVE BudgetInv'
  <2>1. Spending' \subseteq Spending
    BY <1>8 DEF Reread, ReturnResult, Spending, Held, Afforded
  <2> QED  BY <1>0, <2>1
<1>9. ASSUME NEW c \in Callers, MarkDenied(c) PROVE BudgetInv'
  <2>1. Spending' \subseteq Spending
    BY <1>9 DEF MarkDenied, Spending, Held, Afforded
  <2> QED  BY <1>0, <2>1
<1>10. ASSUME NEW c \in Callers, MarkAwaitingApproval(c) PROVE BudgetInv'
  <2>1. Spending' \subseteq Spending
    BY <1>10 DEF MarkAwaitingApproval, Spending, Held, Afforded
  <2> QED  BY <1>0, <2>1
<1>11. ASSUME NEW c \in Callers, MarkRunning(c) PROVE BudgetInv'
  <2>1. Spending' \subseteq Spending
    BY <1>11 DEF MarkRunning, Spending, Held, Afforded
  <2> QED  BY <1>0, <2>1
<1>12. ASSUME NEW c \in Callers, Perform(c) PROVE BudgetInv'
  <2>1. Spending' \subseteq Spending
    BY <1>12 DEF Perform, Spending, Held, Afforded
  <2> QED  BY <1>0, <2>1
<1>13. ASSUME NEW c \in Callers, MarkSucceeded(c) PROVE BudgetInv'
  <2>1. Spending' \subseteq Spending
    BY <1>13 DEF MarkSucceeded, ReturnResult, Spending, Held, Afforded
  <2> QED  BY <1>0, <2>1
<1>14. ASSUME NEW c \in Callers, MarkFailed(c) PROVE BudgetInv'
  <2>1. Spending' \subseteq Spending
    BY <1>14 DEF MarkFailed, Spending, Held, Afforded
  <2> QED  BY <1>0, <2>1
<1>15. ASSUME NEW c \in Callers, Crash(c) PROVE BudgetInv'
  <2>1. Spending' \subseteq Spending
    BY <1>15 DEF Crash, Spending, Held, Afforded
  <2> QED  BY <1>0, <2>1
<1>16. ASSUME NEW r \in Reviewers, NEW k \in Keys, Review(r, k) PROVE BudgetInv'
  <2>1. Spending' \subseteq Spending
    BY <1>16 DEF Review, Spending, Held, Afforded
  <2> QED  BY <1>0, <2>1
<1>17. ASSUME NEW r \in Reviewers, MarkApproved(r) PROVE BudgetInv'
  <2>1. Spending' \subseteq Spending
    BY <1>17 DEF MarkApproved, Spending, Held, Afforded
  <2> QED  BY <1>0, <2>1
<1>18. ASSUME NEW r \in Reviewers, MarkRejected(r) PROVE BudgetInv'
  <2>1. Spending' \subseteq Spending
    BY <1>18 DEF MarkRejected, Spending, Held, Afforded
  <2> QED  BY <1>0, <2>1
<1>19. CASE WindowPasses
  <2>1. Spending' \subseteq Spending
    BY <1>19 DEF WindowPasses, Spending, Held, Afforded
  <2> QED  BY <1>0, <2>1
<1>20. CASE UNCHANGED vars
  <2>1. Spending' \subseteq Spending
    BY <1>20 DEF vars, Spending, Held, Afforded
  <2> QED  BY <1>0, <2>1
<1> QED
  BY <1>1, <1>2, <1>3, <1>4, <1>5, <1>6, <1>7, <1>8, <1>9, <1>10, <1>11,
     <1>12, <1>13, <1>14, <1>15, <1>16, <1>17, <1>18, <1>19, <1>20
  DEF Next, Step

(* However many calls race, and whatever each of them costs, the budget is *)
(* overshot by at most the dearest action per call and review under way    *)
(* besides the one that saw the budget (policy.ts, run.ts:78-80).          *)
THEOREM BudgetOvershootBounded == Spec => []BudgetOvershoot
<1>1. ASSUME Init PROVE BudgetInv
  <2>1. Spending = {}
    BY <1>1, ConstantsAssumption DEF Init, Spending, Held, Afforded, Idle
  <2>2. TotalCost({}) = 0
    <3>1. Cents({}) = {}  BY DEF Cents, Units
    <3> QED  BY <3>1, FS_EmptySet, TotalCostCounts
  <2> QED  BY <2>1, <2>2, MeansType DEF BudgetInv
<1>2. ASSUME BudgetInv PROVE BudgetOvershoot
  <2> SUFFICES ASSUME OnExceed = "deny" PROVE TotalCost(Held) <= Means
    BY DEF BudgetOvershoot, Means
  <2>1. Spending \in SUBSET Keys /\ Held \in SUBSET Spending  BY DEF Spending, Held
  <2>2. /\ TotalCost(Held) <= TotalCost(Spending)
        /\ TotalCost(Held) \in Nat /\ TotalCost(Spending) \in Nat
    BY <2>1, CostsShrink
  <2>3. TotalCost(Spending) <= Means  BY <1>2 DEF BudgetInv
  <2> QED  BY <2>2, <2>3, MeansType
<1> QED
  <2>1. Init => BudgetInv  BY <1>1
  <2>2. BudgetInv => BudgetOvershoot  BY <1>2
  <2> QED  BY <2>1, <2>2, NextBudget, TypeCorrect, PTL DEF Spec
=============================================================================
