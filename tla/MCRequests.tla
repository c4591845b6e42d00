----------------------------- MODULE MCRequests -----------------------------
(***************************************************************************)
(* The requests of the API on small instances for TLC: the operation they  *)
(* are for, the Idempotency-Key they come with, the actions and the quota  *)
(* they change, with more actions than slots, a crash and the end of a     *)
(* month, and the pages of a listing; and those of Mission Control's page. *)
(* Each is explored on its own: `part' says which a behaviour is of.       *)
(***************************************************************************)
EXTENDS WriteRequests, TLC

CONSTANTS c1, c2, c3, b1, b2, q1, q2, k1, k2, t1, t2

VARIABLES
  part,
  store, now, listed, reader, changes, steady,                                 \* Listings
  guarded, status, beats, screen, moves, due, posts, stream, drops, worked     \* MissionControl

listingVars == <<store, now, listed, reader, changes, steady>>
pageVars == <<guarded, status, beats, screen, moves, due, posts, stream, drops, worked>>
allVars == <<part, vars, actionVars, routingVars, listingVars, pageVars>>

(* Three clients and two bodies; handlers fail, and nothing else does.     *)
Once == INSTANCE IdempotencyKeys WITH
  MaxCrashes <- 0, MaxLapses <- 0, MaxFaults <- 0

(* Two clients, a crash, two handlers that outlive the stale window and a  *)
(* failed query.                                                           *)
Losses == INSTANCE IdempotencyKeys WITH Bodies <- {b1}

(* One action and every transition.                                        *)
Transitions == INSTANCE CloudActions WITH
  Keys <- {k1}, Targets <- Cloud!Status \ {"pending"}, Months <- 1, Ceiling <- 3, MaxCrashes <- 0,
  row <- rows, request <- writes, crashes <- deaths

(* Two actions of a millisecond that are sorted the other way than cut, and*)
(* cursors that round two times of the database down to one.               *)
ListingRuns == INSTANCE Listings WITH
  Keys <- {1, 2, 3}, Collated <- (1 :> 2) @@ (2 :> 1) @@ (3 :> 3), Micro <- 2, Limits <- {1, 2},
  MaxTick <- 4, MaxChanges <- 1, MaxRead <- 4, rows <- listed

(* A tab that goes twice to a view and loses its stream once; and two that *)
(* decide on one action.                                                   *)
OneTab == INSTANCE MissionControl WITH
  Actions <- {"a1"}, Tabs <- {t1}, ListRows <- 2, FeedRows <- 2, MaxMoves <- 2, MaxPushes <- 1,
  MaxDrops <- 1, rows <- guarded, done <- worked
TwoTabs == INSTANCE MissionControl WITH
  Actions <- {"a1"}, Tabs <- {t1, t2}, ListRows <- 2, FeedRows <- 2, MaxMoves <- 1, MaxPushes <- 1,
  MaxDrops <- 0, rows <- guarded, done <- worked

ASSUME RequestsAssumption ==
  /\ IdempotencyAssumption
  /\ Cloud!CloudAssumption /\ Transitions!CloudAssumption /\ Router!RoutingAssumption
  /\ ListingRuns!ListingsAssumption /\ OneTab!MissionAssumption /\ TwoTabs!MissionAssumption

InitEach ==
  /\ Init /\ senders = IF part = "once" THEN Clients ELSE {c1, c2}
  /\ Router!Init /\ ListingRuns!Init
  /\ (part # "listings" => store = "memory" /\ reader.recent /\ reader.limit = 1)
InitAll ==
  /\ part \in {"once", "losses", "quota", "routing", "listings", "one tab"}
  /\ InitEach /\ Cloud!Init /\ (part # "quota" => ~overage) /\ OneTab!Init

Of(p, A) == part = p /\ A /\ UNCHANGED part
OfKeys(p, A) == Of(p, A) /\ UNCHANGED <<actionVars, routingVars, listingVars, pageVars>>
OfActions(p, A) == Of(p, A) /\ UNCHANGED <<vars, routingVars, listingVars, pageVars>>
OfPages(p, A) == Of(p, A) /\ UNCHANGED <<vars, actionVars, routingVars, listingVars>>

OnceNext == OfKeys("once", Once!Next)
LossesNext == OfKeys("losses", Losses!Next)
(* A plan that allows more is followed within a month and without a crash. *)
QuotaNext ==
  OfActions("quota", Cloud!Next /\ (overage => UNCHANGED <<month, deaths>>))
RoutingNext ==
  Of("routing", Router!Next) /\ UNCHANGED <<vars, actionVars, listingVars, pageVars>>
ListingsNext ==
  Of("listings", ListingRuns!Next) /\ UNCHANGED <<vars, actionVars, routingVars, pageVars>>
OneTabNext == OfPages("one tab", OneTab!Next)

NextAll ==
  OnceNext \/ LossesNext \/ QuotaNext \/ RoutingNext \/ ListingsNext \/ OneTabNext

(* IdempotencyKeys!Fairness, of the clients with losses.                   *)
FairnessAll ==
  /\ \A c \in {c1, c2} : WF_allVars(OfKeys("losses", Losses!Step(c)))
  /\ WF_allVars(OfKeys("losses", Losses!GoesStale))
  /\ SF_allVars(\E c \in {c1, c2} : OfKeys("losses", Losses!Send(c, b1)))

(* Of the page: timers, and requests and streams that get through in the   *)
(* end.  Nobody has to click.                                              *)
PageFairness ==
  /\ WF_pageVars(OfPages("one tab", OneTab!Heartbeat))
  /\ WF_pageVars(OfPages("one tab", OneTab!Pulse))
  /\ WF_pageVars(OfPages("one tab", OneTab!Reconnect(t1)))
  /\ WF_pageVars(OfPages("one tab", OneTab!Hear(t1)))
  /\ WF_pageVars(OfPages("one tab", OneTab!Arrive(t1)))

SpecAll == InitAll /\ [][NextAll]_allVars /\ FairnessAll /\ PageFairness

(* The specifications of the transitions alone, and of two tabs.           *)
TransitionsSpec ==
  /\ part = "transitions" /\ InitEach /\ Transitions!Init /\ ~overage /\ OneTab!Init
  /\ [][OfActions("transitions", Transitions!Next)]_allVars
TwoTabsSpec ==
  /\ part = "two tabs" /\ InitEach /\ Cloud!Init /\ ~overage /\ TwoTabs!Init
  /\ [][OfPages("two tabs", TwoTabs!Next)]_allVars
-----------------------------------------------------------------------------
(* The promise for one key: the handler completes at most once, and a 2xx  *)
(* answer is that of the one execution.                                    *)
OnceKey == INSTANCE OncePerKey WITH
  Keys <- {"key"},
  done <- [k \in {"key"} |-> IF part = "once" THEN Len(done) ELSE 0],
  told <- IF part # "once" \/ told = {} THEN {} ELSE {"key"}

(* While nothing dies, lapses or fails, racing and retried requests run the*)
(* handler once and replay its answer (service.ts:247-249).                *)
OncePerIdempotencyKey == OnceKey!Spec

(* An orphaned claim does not answer 409 for ever (service.ts:275-277): as *)
(* long as clients retry, every claim in progress is given up or answered. *)
ClaimsEnd ==
  part = "losses" /\ row # None /\ row.answer = 0 ~> row = None \/ row.answer # 0

(* "Terminal states (succeeded, rejected, denied) have NO outgoing         *)
(* transitions", which is "enforced server-side" (service.ts:54-58): two   *)
(* transitions checked against the same status are both applied.           *)
TerminalFinal ==
  [][\A k \in {k1} : rows[k] \in {"succeeded", "rejected", "denied"}
       => rows'[k] = rows[k]]_allVars

(* See Listings and MissionControl: what is paged through, or watched in   *)
(* the feed, is shown once; and a listing leaves nothing out.              *)
ShownOnce ==
  /\ part = "listings" => ListingRuns!NoGapsNoRepeats
  /\ part = "one tab" => OneTab!TypeOK /\ OneTab!FeedOnce

(* Whatever the page missed while its stream was down, the count of        *)
(* approvals in its navigation ends up as the number that await one,       *)
(* wherever the user is (onPulse(), app.js:288-297).                       *)
BadgesCatchUp ==
  \A n \in 0 .. 1 :
    <>[](part = "one tab" /\ Cardinality(OneTab!Awaiting) = n) => <>[](screen[t1].badge = n)

(* See MissionControl: "exactly once", which two decisions break.          *)
DoneOnce == TwoTabs!DoneOnce
=============================================================================
