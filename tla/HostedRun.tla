------------------------------ MODULE HostedRun ------------------------------
(***************************************************************************)
(* run(), approve() and reject() of packages/core over HostedLedger        *)
(* (hosted.ts), whose every call is a request to the cloud API: the request*)
(* or its answer may be lost, the caller may die while its request is under*)
(* way, and nothing is sent twice.  The policies are those that look at the*)
(* action alone (see ActionRun for limits), and there is no quota (see     *)
(* CloudActions).                                                          *)
(***************************************************************************)
EXTENDS Integers, FiniteSets, ActionStatus

CONSTANTS
  Callers, Keys, None,
  Deployments,      \* what programs there are: records of the fields below
  MaxFaults         \* bound: losses and crashes

HostedAssumption ==
  /\ Deployments \subseteq [gated : SUBSET Keys, denied : SUBSET Keys, flaky : SUBSET Keys,
                            retries : Nat, calls : Nat]
  /\ IsFiniteSet(Callers) /\ None \notin Keys /\ MaxFaults \in Nat

VARIABLES
  deployed,         \* the program, which does not change
  row,              \* the status of each action in the cloud
  caller,           \* per caller: where it is, in which call, for which key, and at which attempt
  request,          \* per caller: its request and, once served, the answer
  late,             \* requests whose sender no longer waits
  calls, faults,    \* counters
  effects,          \* history: [key -> how often its work was done]
  told,             \* history: keys whose result some call returned
  approvals,        \* history: [key -> how often a reviewer asked for its approval]
  unheard           \* history: keys of which markSucceeded failed before it was applied

hostedVars == <<deployed, row, caller, request, late, calls, faults, effects, told, approvals, unheard>>

Gated == deployed.gated       \* keys for which requireApprovalWhen() holds
Denied == deployed.denied     \* and denyWhen()
Flaky == deployed.flaky       \* keys whose work may throw
Retries == deployed.retries   \* opts.retries
MaxCalls == deployed.calls    \* bound: calls of run(), approve() and reject()

Idle == [pc |-> "idle", does |-> "run", key |-> None, attempt |-> 0]
NoRequest == [op |-> "none", key |-> None, at |-> "none", answer |-> "none"]

Init ==
  /\ deployed \in Deployments
  /\ row = [k \in Keys |-> "missing"]
  /\ caller = [c \in Callers |-> Idle] /\ request = [c \in Callers |-> NoRequest]
  /\ late = {} /\ calls = 0 /\ faults = 0
  /\ effects = [k \in Keys |-> 0] /\ told = {} /\ unheard = {}
  /\ approvals = [k \in Keys |-> 0]

-----------------------------------------------------------------------------
(* request(): one fetch, which the caller waits for.                       *)
Become(c, state) == caller' = [caller EXCEPT ![c] = state]

Ask(c, state, op) ==
  /\ Become(c, [state EXCEPT !.pc = op])
  /\ request' = [request EXCEPT ![c] = [op |-> op, key |-> state.key, at |-> "sent", answer |-> "none"]]

Return(c) == Become(c, Idle) /\ request' = [request EXCEPT ![c] = NoRequest]

Answered(c, op) == caller[c].pc = op /\ request[c].at = "answered"

Call(c, k, does) ==
  /\ caller[c] = Idle /\ calls < MaxCalls /\ calls' = calls + 1
  /\ Ask(c, [Idle EXCEPT !.key = k, !.does = does], "get")
  /\ UNCHANGED <<row, late, faults, effects, told, approvals, unheard>>

-----------------------------------------------------------------------------
(* The API, for a caller's request or a late one.                          *)
Target ==
  [running |-> "running", succeed |-> "succeeded", fail |-> "failed", park |-> "awaiting_approval",
   deny |-> "denied", approve |-> "approved", reject |-> "rejected"]

(* A faulty Permitted: what the action is by now does not matter.          *)
AnythingPermitted(r) == row[r.key] # "missing"

Permitted(r) == row[r.key] # "missing" /\ Target[r.op] \in Allowed[row[r.key]]

(* Serving a request changes the action and yields an answer; a transition *)
(* is checked and then applied, and a missing action is answered as if it  *)
(* had been (service.ts:438).                                              *)
Served(r) ==
  IF r.op \in {"get", "insert"} THEN [r EXCEPT !.at = "answered", !.answer = row[r.key]]
  ELSE CASE r.at = "checked" \/ row[r.key] = "missing" -> [r EXCEPT !.at = "answered", !.answer = "done"]
         [] r.at = "sent" /\ Permitted(r) -> [r EXCEPT !.at = "checked"]
         [] OTHER -> [r EXCEPT !.at = "answered", !.answer = "error"]

Write(r) ==
  row' = [row EXCEPT ![r.key] = CASE r.op = "insert" /\ @ = "missing" -> "pending"
                                  [] r.at = "checked" -> Target[r.op]
                                  [] OTHER -> @]

Serve(c) ==
  /\ request[c].at \in {"sent", "checked"}
  /\ request' = [request EXCEPT ![c] = Served(@)] /\ Write(request[c])
  /\ UNCHANGED <<caller, late, calls, faults, effects, told, approvals, unheard>>

ServeLate(r) ==
  /\ late' = (late \ {r}) \cup {s \in {Served(r)} : s.at # "answered"} /\ Write(r)
  /\ UNCHANGED <<caller, request, calls, faults, effects, told, approvals, unheard>>

-----------------------------------------------------------------------------
(* The fetch fails: before the request was served, which then is lost or   *)
(* still to be served, or after.                                           *)
Fault == faults < MaxFaults /\ faults' = faults + 1

FetchFails(c) ==
  /\ request[c].at # "none" /\ request[c].answer # "error" /\ Fault
  /\ late' \in {late, late \cup {r \in {request[c]} : r.at # "answered"}}
  /\ request' = [request EXCEPT ![c].at = "answered", ![c].answer = "error"]
  /\ unheard' = unheard \cup {k \in {request[c].key} : request[c].op = "succeed" /\ request[c].at # "answered"}
  /\ UNCHANGED <<row, caller, calls, effects, told, approvals>>

Dies(c) ==
  /\ caller[c] # Idle /\ Fault
  /\ late' = late \cup {r \in {request[c]} : r.at \in {"sent", "checked"}}
  /\ Return(c)
  /\ UNCHANGED <<row, calls, effects, told, approvals, unheard>>

-----------------------------------------------------------------------------
(* run(): what the action is and what the policies say of it decide what  *)
(* the call does.                                                          *)
Tell(c) == told' = told \cup {caller[c].key}

Verdict(k) ==
  IF k \in Denied THEN "deny" ELSE IF k \in Gated THEN "park" ELSE "running"

(* A faulty OnGet: an action that is pending is taken to be abandoned.     *)
OnGetTakingOver(c) ==
  /\ Answered(c, "get") /\ caller[c].does = "run"
  /\ CASE request[c].answer = "missing" -> Ask(c, caller[c], "insert")
       [] request[c].answer = "failed" -> Ask(c, caller[c], Verdict(caller[c].key))
       [] request[c].answer \in {"approved", "pending"} -> Ask(c, caller[c], "running")
       [] OTHER -> Return(c)
  /\ UNCHANGED <<row, late, calls, faults, effects, told, approvals, unheard>>

OnGet(c) ==
  /\ Answered(c, "get") /\ caller[c].does = "run"
  /\ LET found == request[c].answer
     IN /\ CASE found = "missing" -> Ask(c, caller[c], "insert")
             [] found = "failed" -> Ask(c, caller[c], Verdict(caller[c].key))
             [] found = "approved" -> Ask(c, caller[c], "running")
             [] OTHER -> Return(c)
        /\ IF found = "succeeded" THEN Tell(c) ELSE UNCHANGED told
  /\ UNCHANGED <<row, late, calls, faults, effects, approvals, unheard>>

(* approve() and reject(): a parked action is decided on.                  *)
Decide(c) ==
  /\ Answered(c, "get") /\ caller[c].does # "run"
  /\ IF request[c].answer = "awaiting_approval" THEN Ask(c, caller[c], caller[c].does) ELSE Return(c)
  /\ approvals' = IF request[c].answer = "awaiting_approval" /\ caller[c].does = "approve"
                  THEN [approvals EXCEPT ![caller[c].key] = @ + 1] ELSE approvals
  /\ UNCHANGED <<row, late, calls, faults, effects, told, unheard>>

(* A faulty OnInsert: the claim that another call won is shared.           *)
OnInsertShared(c) ==
  /\ Answered(c, "insert")
  /\ IF request[c].answer = "error" THEN Return(c)
     ELSE Ask(c, caller[c], Verdict(caller[c].key))
  /\ UNCHANGED <<row, late, calls, faults, effects, told, approvals, unheard>>

OnInsert(c) ==
  /\ Answered(c, "insert")
  /\ LET found == request[c].answer
     IN /\ IF found = "missing" THEN Ask(c, caller[c], Verdict(caller[c].key)) ELSE Return(c)
        /\ IF found = "succeeded" THEN Tell(c) ELSE UNCHANGED told
  /\ UNCHANGED <<row, late, calls, faults, effects, approvals, unheard>>

(* The call ends with what it asked for last, or throws.                   *)
OnMark(c) ==
  /\ \E op \in {"fail", "park", "deny", "approve", "reject"} : Answered(c, op)
  /\ Return(c)
  /\ UNCHANGED <<row, late, calls, faults, effects, told, approvals, unheard>>

(* execute(): markRunning is outside the try, markSucceeded inside it.     *)
OnRunning(c) ==
  /\ Answered(c, "running")
  /\ IF request[c].answer = "error" THEN Return(c)
     ELSE Become(c, [caller[c] EXCEPT !.pc = "work"]) /\ request' = [request EXCEPT ![c] = NoRequest]
  /\ UNCHANGED <<row, late, calls, faults, effects, told, approvals, unheard>>

Caught(c) ==
  IF caller[c].attempt < Retries
  THEN Ask(c, [caller[c] EXCEPT !.attempt = @ + 1], "running")
  ELSE Ask(c, caller[c], "fail")

Work(c) ==
  /\ caller[c].pc = "work"
  /\ effects' = [effects EXCEPT ![caller[c].key] = @ + 1]
  /\ Ask(c, caller[c], "succeed")
  /\ UNCHANGED <<row, late, calls, faults, told, approvals, unheard>>

WorkThrows(c) ==
  /\ caller[c].pc = "work" /\ caller[c].key \in Flaky
  /\ Caught(c)
  /\ UNCHANGED <<row, late, calls, faults, effects, told, approvals, unheard>>

OnSucceed(c) ==
  /\ Answered(c, "succeed")
  /\ IF request[c].answer = "error" THEN Caught(c) /\ UNCHANGED told ELSE Return(c) /\ Tell(c)
  /\ UNCHANGED <<row, late, calls, faults, effects, approvals, unheard>>

Advance(c) ==
  \/ \E k \in Keys, does \in {"run", "approve", "reject"} : Call(c, k, does)
  \/ Serve(c) \/ FetchFails(c) \/ Dies(c)
  \/ OnGet(c) \/ Decide(c) \/ OnInsert(c) \/ OnMark(c)
  \/ OnRunning(c) \/ Work(c) \/ WorkThrows(c) \/ OnSucceed(c)

Next ==
  /\ UNCHANGED deployed
  /\ (\E c \in Callers : Advance(c)) \/ (\E r \in late : ServeLate(r))

Spec == Init /\ [][Next]_hostedVars
-----------------------------------------------------------------------------
(* Type correctness.                                                       *)
Marks == DOMAIN Target
Fetches ==
  [op : Marks \cup {"get", "insert"}, key : Keys, at : {"sent", "checked", "answered"},
   answer : Status \cup {"none", "done", "error", "missing"}]

TypeOK ==
  /\ deployed \in Deployments
  /\ row \in [Keys -> Status \cup {"missing"}]
  /\ caller \in [Callers -> [pc : Marks \cup {"idle", "get", "insert", "work"}, key : Keys \cup {None},
                             does : {"run", "approve", "reject"}, attempt : 0 .. Retries]]
  /\ request \in [Callers -> Fetches \cup {NoRequest}] /\ late \subseteq Fetches
  /\ calls \in Nat /\ faults \in Nat
  /\ told \subseteq Keys /\ unheard \subseteq Keys /\ {effects, approvals} \subseteq [Keys -> Nat]

(* Lost answers, dead callers and late requests do not make work that does *)
(* not throw and awaits no approval happen twice: when its success was     *)
(* recorded but not heard of, the API refuses what the retry asks for next *)
(* (service.ts:440).  Only a markSucceeded that fails before it is applied *)
(* can; and no call returns a result that nobody produced.                 *)
OnceDespiteLosses ==
  /\ \A k \in Keys \ (Gated \cup Flaky \cup unheard) : effects[k] <= 1
  /\ \A k \in told : effects[k] >= 1

(* Whatever request of a call is lost, late or taken for made, what the    *)
(* policies deny is never done, and what they park only after somebody     *)
(* asked for its approval: a call that dies or is not heard before it has  *)
(* parked the action (run.ts:102) leaves one that nobody can run.  An      *)
(* approval is good for the attempts of the calls that are under way, each *)
(* of which may find it (run.ts:62), and for no later call.                *)
GateDespiteLosses ==
  /\ \A k \in Denied : effects[k] = 0
  /\ \A k \in Gated : effects[k] <= approvals[k] * Cardinality(Callers) * (1 + Retries)

(* What the SDK may rely on, whatever the network does.                    *)
HostedSafe == TypeOK /\ OnceDespiteLosses /\ GateDespiteLosses
=============================================================================
