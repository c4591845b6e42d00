------------------------------ MODULE Billing -------------------------------
(***************************************************************************)
(* The plan of an organisation as Paddle's webhooks set it: handleWebhook  *)
(* and resolvePlan() of paddle.ts, with the answers of router.ts, over the *)
(* organisation's row, and the billing portal of service.ts.  Paddle       *)
(* sends every event until an attempt is answered with a 2xx, and any      *)
(* number of attempts may be under way.                                    *)
(***************************************************************************)
EXTENDS Integers, FiniteSets

CONSTANTS
  Events,           \* [1 .. n -> event]: what happened to the subscription, in order
  Price,            \* priceToPlan: [price -> plan]
  Attempts,         \* bound: attempts under way
  None,
  MaxFaults         \* bound: queries that fail, crashes and answers that are lost

(* Paddle's subscriptions name their customer.                             *)
BillingAssumption ==
  /\ DOMAIN Events \subseteq Nat /\ \A e \in DOMAIN Events : 1 .. e \subseteq DOMAIN Events
  /\ \A e \in DOMAIN Events :
       /\ Events[e].type \in {"subscription", "canceled", "transaction", "foreign"}
       /\ Events[e].status \in {"active", "paused", "past_due", "canceled"}
       /\ Events[e].type = "subscription" => Events[e].customer # None
  /\ None \notin {Price[p] : p \in DOMAIN Price} \cup {"free"} /\ MaxFaults \in Nat

VARIABLES
  org,              \* the row: its plan and its Paddle customer
  happened,         \* how many of the events have happened
  acked,            \* the events whose answer Paddle has: a 2xx, or a 4xx for a forged one
  attempt,          \* per attempt: its event and where it is
  faults,
  latest,           \* history: the latest event an attempt has begun with
  crossed           \* history: an attempt began during another, or after a later event's

billingVars == <<org, happened, acked, attempt, faults, latest, crossed>>

Numbers == DOMAIN Events
Idle == [pc |-> "idle", event |-> 0]

Init ==
  /\ org = [plan |-> "free", customer |-> None]
  /\ happened = 0
  /\ acked = {}
  /\ attempt = [a \in Attempts |-> Idle]
  /\ faults = 0
  /\ latest = 0
  /\ crossed = FALSE

-----------------------------------------------------------------------------
(* resolvePlan(): cancelled and paused subscriptions are free, and a price *)
(* that is not configured implies nothing.                                 *)
ResolvePlan(e) ==
  LET v == Events[e]
  IN IF v.type \notin {"subscription", "canceled"} THEN None
     ELSE IF v.type = "canceled" \/ v.status \in {"canceled", "paused"} THEN "free"
     ELSE IF v.price \in DOMAIN Price THEN Price[v.price] ELSE None

At(a, pc) == attempt[a].pc = pc
Goto(a, pc) == attempt' = [attempt EXCEPT ![a].pc = pc]

Happen ==
  /\ happened \in Nat /\ happened + 1 \in Numbers
  /\ happened' = happened + 1
  /\ UNCHANGED <<org, acked, attempt, faults, latest, crossed>>

Begin(a, e) ==
  /\ At(a, "idle") /\ e \in (1 .. happened) \ acked
  /\ crossed' = (crossed \/ e < latest \/ \E b \in Attempts : ~At(b, "idle"))
  /\ latest' = IF e > latest THEN e ELSE latest
  /\ attempt' = [attempt EXCEPT ![a] =
       [pc |-> IF Events[e].type = "foreign" THEN "answer" ELSE "customer", event |-> e]]

(* A faulty Deliver: the webhook is acknowledged before it is handled.     *)
DeliverAcknowledged(a) ==
  /\ \E e \in Numbers : Begin(a, e) /\ acked' = acked \cup {e}
  /\ UNCHANGED <<org, happened, faults>>

(* handleWebhook(): nothing is written for an event that is forged, broken *)
(* or of no organisation of ours.                                          *)
Deliver(a) ==
  /\ \E e \in Numbers : Begin(a, e)
  /\ UNCHANGED <<org, happened, acked, faults>>

(* A faulty SetOrgPaddleCustomer: a failure of it is swallowed.            *)
SetCustomerIfItCan(a) ==
  /\ At(a, "customer")
  /\ \E c \in {Events[attempt[a].event].customer, org.customer} : org' = [org EXCEPT !.customer = c]
  /\ Goto(a, "plan")
  /\ UNCHANGED <<happened, acked, faults, latest, crossed>>

SetOrgPaddleCustomer(a) ==
  LET customer == Events[attempt[a].event].customer
  IN /\ At(a, "customer")
     /\ org' = IF customer = None THEN org ELSE [org EXCEPT !.customer = customer]
     /\ Goto(a, "plan")
     /\ UNCHANGED <<happened, acked, faults, latest, crossed>>

SetOrgPlan(a) ==
  LET plan == ResolvePlan(attempt[a].event)
  IN /\ At(a, "plan")
     /\ org' = IF plan = None THEN org ELSE [org EXCEPT !.plan = plan]
     /\ Goto(a, "answer")
     /\ UNCHANGED <<happened, acked, faults, latest, crossed>>

Answer(a) ==
  /\ At(a, "answer")
  /\ acked' = acked \cup {attempt[a].event}
  /\ attempt' = [attempt EXCEPT ![a] = Idle]
  /\ UNCHANGED <<org, happened, faults, latest, crossed>>

(* A query fails (500), the process dies or the answer is lost.            *)
Lose(a) ==
  /\ ~At(a, "idle") /\ faults < MaxFaults
  /\ faults' = faults + 1
  /\ attempt' = [attempt EXCEPT ![a] = Idle]
  /\ UNCHANGED <<org, happened, acked, latest, crossed>>

Proceed(a) == SetOrgPaddleCustomer(a) \/ SetOrgPlan(a) \/ Answer(a)

Next == Happen \/ \E a \in Attempts : Deliver(a) \/ Proceed(a) \/ Lose(a)

Spec == Init /\ [][Next]_billingVars
-----------------------------------------------------------------------------
OrgPlans == {"free"} \cup {Price[p] : p \in DOMAIN Price}

(* Type correctness.                                                       *)
TypeOK ==
  /\ org.plan \in OrgPlans /\ org.customer \in {None} \cup {Events[e].customer : e \in Numbers}
  /\ happened \in Nat /\ acked \subseteq 1 .. happened /\ latest \in 0 .. happened
  /\ attempt \in [Attempts -> [pc : {"idle", "customer", "plan", "answer"}, event : 0 .. happened]]
  /\ faults \in 0 .. MaxFaults /\ crossed \in BOOLEAN

Telling == {e \in 1 .. happened : ResolvePlan(e) # None}

(* Once Paddle has no event left to send, the plan is that of the last     *)
(* event that implies one, whatever queries and answers failed, provided   *)
(* the attempts came one at a time and in order: nothing in an event tells *)
(* handleWebhook() that it is older than what it has applied.              *)
PlanFollows ==
  acked = 1 .. happened /\ (\A a \in Attempts : At(a, "idle")) /\ ~crossed =>
    org.plan = IF Telling = {} THEN "free"
               ELSE ResolvePlan(CHOOSE e \in Telling : \A f \in Telling : f <= e)

(* An organisation that pays can open the portal: its customer is stored   *)
(* before its plan (paddle.ts:218), in every overlap of attempts.          *)
PortalOpens == org.plan # "free" => org.customer # None

(* What an organisation that pays may rely on.                             *)
PlansSafe == TypeOK /\ PlanFollows /\ PortalOpens
=============================================================================
