------------------------------ MODULE Tenants -------------------------------
(***************************************************************************)
(* What the API keeps of an organisation besides its actions: how it is    *)
(* provisioned and shown to its first users (the module extended here),    *)
(* its keys, its alert rules, its plan and the notices of its usage.  They *)
(* share no state: here are their parameters, their variables and what     *)
(* each promises.                                                          *)
(***************************************************************************)
EXTENDS Onboarding

CONSTANTS
  Guarded, MaxKeys, MaxRevocations, MaxLosses,                           \* KeysPage
  Creators, Channels, Drafts, Plans, MaxRules, Alerts, AnyScope, MaxEdits,  \* AlertRules
  Events, Price, Deliveries, MaxFaults,                                  \* Billing
  Inserts, Limit, Near, Periods, MaxReserved, MaxFailures, MaxRestarts,  \* UsageNotices
  Attempts                                                               \* of the last and of AlertRules

VARIABLES
  status, user, revocations, losses, known, shown, doing, doubt,         \* KeysPage
  plan, rules, creator, dispatch, edits, allowance, peak, wanted, received,  \* AlertRules
  org, happened, acked, attempt, faults, latest, crossed,                \* Billing
  period, used, reserved, event, seen, failures, restarts, sent, missed  \* UsageNotices

Page == INSTANCE KeysPage

Routes == INSTANCE AlertRules

Paddle == INSTANCE Billing WITH Attempts <- Deliveries

Notifier == INSTANCE UsageNotices

TenantsAssumption ==
  /\ ProvisioningAssumption /\ Page!KeysAssumption /\ Routes!RulesAssumption
  /\ Paddle!BillingAssumption /\ Notifier!NoticesAssumption

-----------------------------------------------------------------------------
(* See Provisioning: whoever founds an organisation owns it, it has its one*)
(* first key, and in Postgres users are members of one organisation.  See  *)
(* Onboarding: the first key is shown once, and samples are settled.       *)
FirstVisitsSafe == Membership /\ FirstSteps

(* See KeysPage: the table of the keys tells what is active and what not.  *)
KeysTold == Page!KeysTold

(* See AlertRules: the limit is overshot by concurrent creations only, and *)
(* a handled event has reached every selected channel.                     *)
AlertsSafe == Routes!AlertsSafe

(* See Billing: the plan is that of the last event delivered, and who pays *)
(* can open the portal.  See UsageNotices: a notice is sent once by a      *)
(* process, and one that is due is sent or its sending failed.             *)
PlansSafe == Paddle!PlansSafe
NoticesSafe == Notifier!NoticesSafe
BillingSafe == PlansSafe /\ NoticesSafe
=============================================================================
