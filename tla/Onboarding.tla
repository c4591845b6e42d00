----------------------------- MODULE Onboarding -----------------------------
(***************************************************************************)
(* The first visit of a user: the page /onboarding of apps/dashboard and   *)
(* its OnboardingFlow, over the API of Provisioning.  The page asks for    *)
(* one recent action as it is rendered; its buttons provision the          *)
(* organisation and seed sample actions.  Each request is a session of     *)
(* Provisioning, and each user has one tab.                                *)
(***************************************************************************)
EXTENDS Provisioning

Samples == 3        \* the sample actions of seedSampleData()

VARIABLES
  tab,              \* per user: where the page is, its request, and what it tells
  samples,          \* the rows of the sample actions, by status
  handed            \* history: the users who were shown the first key

onboardingVars == <<tab, samples, handed>>
pageVars == <<provisioningVars, onboardingVars>>

Closed == [pc |-> "closed", request |-> None, made |-> FALSE, told |-> "nothing", sample |-> 0]

InitTab ==
  /\ tab = [u \in Users |-> Closed]
  /\ samples = [pending |-> 0, settled |-> 0]
  /\ handed = {}

InitPage == Init /\ InitTab

-----------------------------------------------------------------------------
InTab(u, pc) == tab[u].pc = pc
Fresh(u) == {s \in Sessions : UserOf[s] = u /\ session[s].pc = "idle"}
Arrived(u, pc) == InTab(u, pc) /\ session[tab[u].request].pc \in Ended
Succeeded(u) == session[tab[u].request].pc = "answered"
Request(u, pc, s) == tab' = [tab EXCEPT ![u] = [@ EXCEPT !.pc = pc, !.request = s, !.made = FALSE]]
Show(u, told) == tab' = [tab EXCEPT ![u] = [@ EXCEPT !.pc = "open", !.request = None, !.told = told, !.sample = 0]]

(* OnboardingPage: listRecent(1), authenticated as every request of the    *)
(* dashboard is.                                                           *)
Visit(u) ==
  /\ InTab(u, "closed")
  /\ \E s \in Fresh(u) : Authenticate(s) /\ Request(u, "loading", s)
  /\ UNCHANGED <<samples, handed>>

(* The page is there, whether or not the request failed.                   *)
Loaded(u) ==
  /\ Arrived(u, "loading")
  /\ Show(u, IF Succeeded(u) /\ samples # [pending |-> 0, settled |-> 0] THEN "actions" ELSE "nothing")
  /\ UNCHANGED <<provisioningVars, samples, handed>>

(* onProvision(): both buttons are disabled until the answer is there.     *)
OnProvision(u) ==
  /\ InTab(u, "open")
  /\ \E s \in Fresh(u) : RequestProvision(s) /\ Request(u, "provisioning", s)
  /\ UNCHANGED <<samples, handed>>

(* The answer of provisionAction() has an apiKey only if the organisation  *)
(* was made for it.                                                        *)
ShowKey(u) ==
  /\ Arrived(u, "provisioning")
  /\ Show(u, IF ~Succeeded(u) THEN "error" ELSE IF tab[u].made THEN "key" ELSE "exists")
  /\ handed' = IF Succeeded(u) /\ tab[u].made THEN handed \cup {u} ELSE handed
  /\ UNCHANGED <<provisioningVars, samples>>

(* onSeed(), and the authentication of its request.                        *)
OnSeed(u) ==
  /\ InTab(u, "open")
  /\ \E s \in Fresh(u) : Authenticate(s) /\ Request(u, "seed", s)
  /\ UNCHANGED <<samples, handed>>

SeedStarts(u) ==
  /\ Arrived(u, "seed")
  /\ IF Succeeded(u)
     THEN tab' = [tab EXCEPT ![u] = [@ EXCEPT !.pc = "insert", !.sample = 1]]
     ELSE Show(u, "error")
  /\ UNCHANGED <<provisioningVars, samples, handed>>

(* seedSampleData(): one sample after the other is inserted ...            *)
InsertSample(u) ==
  /\ InTab(u, "insert")
  /\ samples' = [samples EXCEPT !.pending = @ + 1]
  /\ tab' = [tab EXCEPT ![u].pc = "settle"]
  /\ UNCHANGED <<provisioningVars, handed>>

(* ... and made to await an approval, or to have succeeded.                *)
SettleSample(u) ==
  /\ InTab(u, "settle")
  /\ samples' = [pending |-> samples.pending - 1, settled |-> samples.settled + 1]
  /\ IF tab[u].sample < Samples
     THEN tab' = [tab EXCEPT ![u] = [@ EXCEPT !.pc = "insert", !.sample = tab[u].sample + 1]]
     ELSE Show(u, "actions")
  /\ UNCHANGED <<provisioningVars, handed>>

(* The API goes on with a request; the one that makes the organisation and *)
(* its key answers with the key.                                           *)
Serve(s) ==
  \/ /\ InsertKey(s)
     /\ tab' = [u \in Users |-> IF tab[u].request = s THEN [tab[u] EXCEPT !.made = TRUE] ELSE tab[u]]
     /\ UNCHANGED <<samples, handed>>
  \/ /\ \/ GetMember(s) \/ Join(s) \/ Provision(s) \/ GetProvisioned(s)
        \/ JoinProvisioned(s) \/ InsertOrg(s) \/ Own(s)
     /\ UNCHANGED onboardingVars

(* The API dies; a request that was seeding fails.                         *)
Die ==
  /\ Crash
  /\ tab' = [u \in Users |-> IF tab[u].pc \in {"insert", "settle"}
                             THEN [Closed EXCEPT !.pc = "open", !.told = "error"] ELSE tab[u]]
  /\ samples' = IF unique THEN samples ELSE [pending |-> 0, settled |-> 0]
  /\ UNCHANGED handed

NextPage ==
  \/ \E u \in Users : \/ Visit(u) \/ Loaded(u) \/ OnProvision(u) \/ ShowKey(u)
                      \/ OnSeed(u) \/ SeedStarts(u) \/ InsertSample(u) \/ SettleSample(u)
  \/ \E s \in Sessions : Serve(s)
  \/ Die

SpecPage == InitPage /\ [][NextPage]_pageVars
-----------------------------------------------------------------------------
Seeding == {u \in Users : InTab(u, "settle")}

PageTypeOK ==
  /\ TypeOK
  /\ \A u \in Users :
       /\ tab[u].pc \in {"closed", "loading", "open", "provisioning", "seed", "insert", "settle"}
       /\ tab[u].request \in Sessions \cup {None} /\ tab[u].made \in BOOLEAN
       /\ tab[u].told \in {"nothing", "actions", "key", "exists", "error"}
       /\ tab[u].sample \in 0 .. Samples
  /\ samples \in [pending : Nat, settled : Nat] /\ handed \subseteq Users

(* The key of an organisation's provisioning is shown to one user at most, *)
(* and a sample stays pending, for ever, only where the API died between   *)
(* its insertion and its transition (service.ts:676).                      *)
FirstSteps ==
  /\ PageTypeOK
  /\ unique => Cardinality(handed) <= 1
  /\ samples.pending <= Cardinality(Seeding) + (IF crashed = 0 THEN 0 ELSE crashed * Cardinality(Users))

(* "provisionAction ensures the signed-in Clerk org is mirrored in Neon    *)
(* and returns the first API key (only on initial creation)"               *)
(* (onboarding/actions.ts:6): whoever is told that the organisation is set *)
(* up already knows that the first key was shown to somebody.              *)
FirstKeyShown == (\E u \in Users : tab[u].told = "exists") => handed # {}
=============================================================================
