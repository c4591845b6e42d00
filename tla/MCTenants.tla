------------------------------ MODULE MCTenants ------------------------------
(***************************************************************************)
(* The components of Tenants share no state, so each is explored on its    *)
(* own.  As in MCOperations, `part' says which of them a behaviour is of,  *)
(* and a part in memory leaves one session out.                            *)
(***************************************************************************)
EXTENDS Tenants, TLC

CONSTANTS s1, s2, s3, s4, u1, u2, none

VARIABLE part

TwoEach == [s \in Sessions |-> IF s \in {s1, s2} THEN u1 ELSE u2]

Draft(trigger, scope, channels, enabled) ==
  [trigger |-> trigger, scope |-> scope, channels |-> channels, enabled |-> enabled]
ThreeDrafts ==
  {Draft("failed", none, {"slack", "webhook"}, TRUE), Draft("failed", "agent", {"slack", "email"}, TRUE),
   Draft("denied", none, {"email"}, FALSE)}
OneOrTwo == ("free" :> 1) @@ ("pro" :> 2)
AgentFailed == {[trigger |-> "failed", scope |-> "agent"]}

Happened(type, stat, price, customer) ==
  [type |-> type, status |-> stat, price |-> price, customer |-> customer]
FiveEvents ==
  <<Happened("subscription", "active", "price of pro", "customer"),
    Happened("subscription", "paused", "price of pro", "customer"),
    Happened("foreign", "active", "price of scale", "customer"),
    Happened("subscription", "active", "price of scale", "customer"),
    Happened("transaction", "active", "price of pro", none)>>
ProAndScale == ("price of pro" :> "pro") @@ ("price of scale" :> "scale")

ASSUME TenantsAssumed == TenantsAssumption

keyVars == <<status, user, revocations, losses, known, shown, doing, doubt>>
rulesVars == <<plan, rules, creator, dispatch, edits, allowance, peak, wanted, received>>
billingVars == <<org, happened, acked, attempt, faults, latest, crossed>>
noticesVars == <<period, used, reserved, event, seen, failures, restarts, sent, missed>>
allVars == <<part, provisioningVars, onboardingVars, keyVars, rulesVars, billingVars, noticesVars>>

InitEach ==
  /\ InitPage
  /\ Page!InitPage /\ (part # "keys" => known = {})
  /\ Routes!Init /\ (part # "rules" => plan = "free")
  /\ Paddle!Init /\ Notifier!Init

InitAll ==
  /\ part \in {"postgres", "memory", "visits", "local visits", "keys", "rules", "billing", "notices"}
  /\ InitEach
  /\ unique <=> part \notin {"memory", "local visits"}

OfProvisioning(p, A) ==
  part = p /\ A /\ UNCHANGED <<part, onboardingVars, keyVars, rulesVars, billingVars, noticesVars>>
OfOnboarding(p, A) == part = p /\ A /\ UNCHANGED <<part, keyVars, rulesVars, billingVars, noticesVars>>
OfKeys(A) ==
  part = "keys" /\ A /\ UNCHANGED <<part, provisioningVars, onboardingVars, rulesVars, billingVars, noticesVars>>
OfRules(A) ==
  part = "rules" /\ A /\ UNCHANGED <<part, provisioningVars, onboardingVars, keyVars, billingVars, noticesVars>>
OfBilling(A) ==
  part = "billing" /\ A /\ UNCHANGED <<part, provisioningVars, onboardingVars, keyVars, rulesVars, noticesVars>>
OfNotices(A) ==
  part = "notices" /\ A /\ UNCHANGED <<part, provisioningVars, onboardingVars, keyVars, rulesVars, billingVars>>

PostgresNext == OfProvisioning("postgres", Next)
MemoryNext == OfProvisioning("memory", Next) /\ session'[s4].pc = "idle"
VisitsNext == OfOnboarding("visits", NextPage)
LocalVisitsNext == OfOnboarding("local visits", NextPage) /\ session'[s4].pc = "idle"
KeysNext == OfKeys(Page!Next)
RulesNext == OfRules(Routes!Next)
BillingNext == OfBilling(Paddle!Next)
NoticesNext == OfNotices(Notifier!Next)

NextAll ==
  \/ PostgresNext \/ MemoryNext \/ VisitsNext \/ LocalVisitsNext \/ KeysNext
  \/ RulesNext \/ BillingNext \/ NoticesNext

(* KeysPage!Fairness: requests are answered, and an admin without a key    *)
(* comes to create one.                                                    *)
Fairness ==
  \A u \in {u1, u2} :
    /\ WF_allVars(OfKeys(Page!Proceed(u)))
    /\ SF_allVars(OfKeys(Page!NoAccess /\ Page!Create(u)))

SpecAll == InitAll /\ [][NextAll]_allVars /\ Fairness

(* The first visit of the only user there is.                              *)
InitVisit == part = "visits" /\ InitEach /\ (unique <=> part = "visits")

FirstVisitSpec == InitVisit /\ [][VisitsNext]_allVars
-----------------------------------------------------------------------------
(* See KeysPage: whoever lost the last key and creates one has access.     *)
AccessRegained ==
  part = "keys" /\ Page!NoAccess ~> ~Page!NoAccess \/ Page!Rows = Page!Ids
=============================================================================
