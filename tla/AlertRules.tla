----------------------------- MODULE AlertRules -----------------------------
(***************************************************************************)
(* The alert rules of an organisation and the alerts they route:           *)
(* createAlertRule(), updateAlertRule() and deleteAlertRule() of           *)
(* service.ts over the stores of alertRules.ts, and AlertDispatcher of     *)
(* alerts.ts, whose events a queue delivers again when a transport fails.  *)
(***************************************************************************)
EXTENDS Integers, FiniteSets

CONSTANTS
  Creators,         \* requests that create a rule
  Channels,         \* the configured transports; rules may name others
  Drafts,           \* the rules users write
  Plans,
  MaxRules,         \* [Plans -> Nat]: PLAN_FEATURES.maxAlertRules
  Alerts,           \* events that alert, each a record of a trigger and a scope
  Attempts,         \* how often an event is delivered
  AnyScope,         \* a rule without a scope
  MaxEdits          \* bound: updates, deletions and changes of plan

RulesAssumption ==
  /\ IsFiniteSet(Creators)
  /\ MaxRules \in [Plans -> Nat \ {0}] /\ Attempts \in Nat \ {0} /\ MaxEdits \in Nat
  /\ \A r \in Drafts : r.enabled \in BOOLEAN
  /\ \A a \in Alerts : a.scope # AnyScope

VARIABLES
  plan,             \* of the organisation, as webhooks set it
  rules,            \* the rows of alert_rules: [id -> rule]
  creator,          \* per request: where it is and the limit it read
  dispatch,         \* per event: the sends under way
  edits,
  allowance,        \* history: the highest limit there has been
  peak,             \* history: the most requests between their count and their insertion
  wanted,           \* history: the channels selected for each event at its last delivery
  received          \* history: the channels that have each event

rulesVars == <<plan, rules, creator, dispatch, edits, allowance, peak, wanted, received>>

Init ==
  /\ plan \in Plans
  /\ rules = <<>>
  /\ creator = [c \in Creators |-> [pc |-> "idle", max |-> 0]]
  /\ dispatch = [a \in Alerts |-> [pc |-> "idle", open |-> {}, attempt |-> 0, failing |-> FALSE]]
  /\ edits = 0
  /\ allowance = MaxRules[plan] /\ peak = 0
  /\ wanted = [a \in Alerts |-> {}] /\ received = [a \in Alerts |-> {}]

-----------------------------------------------------------------------------
At(c, pc) == creator[c].pc = pc
dispatching == <<dispatch, wanted, received>>

(* createAlertRule(): the plan is read,                                    *)
GetOrg(c) ==
  /\ At(c, "idle")
  /\ creator' = [creator EXCEPT ![c] = [pc |-> "list", max |-> MaxRules[plan]]]
  /\ UNCHANGED <<plan, rules, edits, allowance, peak, dispatching>>

(* A faulty Room: a rule too many before the limit is seen.                *)
RoomForOneMore(c) == Cardinality(DOMAIN rules) <= creator[c].max

Room(c) == Cardinality(DOMAIN rules) < creator[c].max
Creating == {c \in Creators : At(c, "create")}

(* the rules are counted,                                                  *)
List(c) ==
  /\ At(c, "list")
  /\ creator' = [creator EXCEPT ![c].pc = IF Room(c) THEN "create" ELSE "refused"]
  /\ peak' = IF Room(c) /\ Cardinality(Creating) = peak THEN peak + 1 ELSE peak
  /\ UNCHANGED <<plan, rules, edits, allowance, dispatching>>

(* and one more is inserted.                                               *)
Create(c) ==
  /\ At(c, "create")
  /\ \E r \in Drafts :
       rules' = [i \in DOMAIN rules \cup {c} |-> IF i = c THEN r ELSE rules[i]]
  /\ creator' = [creator EXCEPT ![c].pc = "created"]
  /\ UNCHANGED <<plan, edits, allowance, peak, dispatching>>

Edit == edits < MaxEdits /\ edits' = edits + 1

(* updateAlertRule(): any of the fields, in one statement.                 *)
Update ==
  /\ Edit
  /\ \E i \in DOMAIN rules, r \in Drafts : rules' = [rules EXCEPT ![i] = r]
  /\ UNCHANGED <<plan, creator, allowance, peak, dispatching>>

Delete ==
  /\ Edit
  /\ \E i \in DOMAIN rules : rules' = [j \in DOMAIN rules \ {i} |-> rules[j]]
  /\ UNCHANGED <<plan, creator, allowance, peak, dispatching>>

(* setOrgPlan() of a billing webhook.                                      *)
ChangePlan ==
  /\ Edit
  /\ \E p \in Plans \ {plan} :
       /\ plan' = p
       /\ allowance' = IF MaxRules[p] > allowance THEN MaxRules[p] ELSE allowance
  /\ UNCHANGED <<rules, creator, peak, dispatching>>

-----------------------------------------------------------------------------
(* selectTransports(): every transport for an organisation without rules,  *)
(* otherwise those of them that an enabled rule of the trigger and scope   *)
(* names.                                                                  *)
Matching(a) == {i \in DOMAIN rules : /\ rules[i].enabled /\ rules[i].trigger = a.trigger
                                     /\ rules[i].scope \in {AnyScope, a.scope}}
Targets(a) ==
  IF DOMAIN rules = {} THEN Channels ELSE {c \in Channels : \E i \in Matching(a) : c \in rules[i].channels}

(* AlertDispatcher.handle(): the rules are listed and all sends start;     *)
(* nobody waits for those still open from a delivery that failed.          *)
Dispatch(a) ==
  /\ dispatch[a].pc \in {"idle", "failed"} /\ dispatch[a].attempt < Attempts
  /\ dispatch' = [dispatch EXCEPT ![a] =
       [pc |-> IF Targets(a) = {} THEN "handled" ELSE "sending",
        open |-> Targets(a), attempt |-> @.attempt + 1, failing |-> FALSE]]
  /\ wanted' = [wanted EXCEPT ![a] = Targets(a)]
  /\ \E late \in SUBSET dispatch[a].open : received' = [received EXCEPT ![a] = @ \cup late]
  /\ UNCHANGED <<plan, rules, creator, edits, allowance, peak>>

(* A faulty Settled: a send that fails does not fail the handling.         *)
SettledAnyway(a, c, failed) ==
  dispatch' = [dispatch EXCEPT ![a].open = @ \ {c},
                 ![a].pc = IF dispatch[a].open = {c} THEN "handled" ELSE @]

(* One send ends, well or not: Promise.all() fails with the first that     *)
(* does, and the queue may deliver again while others are under way.       *)
Settled(a, c, failed) ==
  LET d == dispatch[a]
  IN dispatch' = [dispatch EXCEPT ![a].open = @ \ {c}, ![a].failing = @ \/ failed,
                    ![a].pc = IF d.failing \/ failed THEN "failed"
                              ELSE IF d.open = {c} THEN "handled" ELSE @]

Sent(a) ==
  /\ \E c \in dispatch[a].open :
       Settled(a, c, FALSE) /\ received' = [received EXCEPT ![a] = @ \cup {c}]
  /\ UNCHANGED <<plan, rules, creator, edits, allowance, peak, wanted>>

SendFails(a) ==
  /\ \E c \in dispatch[a].open : Settled(a, c, TRUE)
  /\ UNCHANGED <<plan, rules, creator, edits, allowance, peak, wanted, received>>

Next ==
  \/ \E c \in Creators : GetOrg(c) \/ List(c) \/ Create(c)
  \/ Update \/ Delete \/ ChangePlan
  \/ \E a \in Alerts : Dispatch(a) \/ Sent(a) \/ SendFails(a)

Spec == Init /\ [][Next]_rulesVars
-----------------------------------------------------------------------------
(* Type correctness.                                                       *)
TypeOK ==
  /\ plan \in Plans /\ edits \in 0 .. MaxEdits /\ {allowance, peak} \subseteq Nat
  /\ DOMAIN rules \subseteq Creators /\ \A i \in DOMAIN rules : At(i, "created") /\ rules[i] \in Drafts
  /\ creator \in [Creators -> [pc : {"idle", "list", "create", "created", "refused"}, max : Nat]]
  /\ dispatch \in [Alerts -> [pc : {"idle", "sending", "failed", "handled"}, open : SUBSET Channels,
                              attempt : 0 .. Attempts, failing : BOOLEAN]]
  /\ {wanted, received} \subseteq [Alerts -> SUBSET Channels]

(* The limit of the plan is checked before the insertion (service.ts:725): *)
(* there are as many rules too many as requests were between the two at a  *)
(* time, less one, through all changes of rules and plan.                  *)
RulesBounded ==
  Cardinality(DOMAIN rules) + Cardinality(Creating) <= allowance + (IF peak = 0 THEN 0 ELSE peak - 1)

(* An event counts as handled only when each channel that the rules of its *)
(* last delivery select has it, in spite of the failures of other channels *)
(* and of deliveries that still go on (alerts.ts:165).                     *)
AlertsArrive ==
  \A a \in Alerts : dispatch[a].pc = "handled" => wanted[a] \subseteq received[a]

(* What the rules are bounded by, and what they are for.                   *)
AlertsSafe == TypeOK /\ RulesBounded /\ AlertsArrive
=============================================================================
