---------------------------- MODULE UsageNotices ----------------------------
(***************************************************************************)
(* The e-mails about a plan's limit: UsageNotifier of usageNotifier.ts,    *)
(* subscribed to the events of inserted actions, over UsageMeter.usage()   *)
(* of billing.ts.  The queue delivers an event again when its handling     *)
(* fails, and what was sent is remembered in the process only.             *)
(***************************************************************************)
EXTENDS Integers, FiniteSets

CONSTANTS
  Inserts,          \* events action.created
  Limit,            \* the limit of the plan
  Near,             \* the usage from which 80% of it are used
  Attempts,         \* how often an event is delivered
  Periods,          \* bound: billing periods, numbered from 1
  MaxReserved,      \* bound: slots reserved and not yet returned
  MaxFailures,        \* bound: queries and sends that fail
  MaxRestarts       \* bound: restarts of the process

NoticesAssumption ==
  /\ {Limit, Near, Attempts, Periods} \subseteq Nat \ {0} /\ Near <= Limit
  /\ {MaxReserved, MaxFailures, MaxRestarts} \subseteq Nat

VARIABLES
  period,           \* currentPeriod()
  used,             \* usage_counters of each period
  reserved,         \* slots of duplicates and of inserts over the limit, soon returned
  event,            \* per event: where its handling is
  seen,             \* MemNotifyStateStore: the notices marked
  failures, restarts,
  sent,             \* history: how often each notice was sent
  missed            \* history: the notices whose sending failed

noticesVars == <<period, used, reserved, event, seen, failures, restarts, sent, missed>>

Levels == {"near", "over"}
Notices == (1 .. Periods) \X Levels
NoNotice == <<0, "near">>

Init ==
  /\ period = 1
  /\ used = [p \in 1 .. Periods |-> 0]
  /\ event = [e \in Inserts |-> [pc |-> "none", attempt |-> 1, notice |-> NoNotice]]
  /\ reserved = 0 /\ seen = {}
  /\ failures = 0 /\ restarts = 0
  /\ sent = [n \in Notices |-> 0] /\ missed = {}

-----------------------------------------------------------------------------
At(e, pc) == event[e].pc = pc
Goto(e, pc, n) == event' = [event EXCEPT ![e].pc = pc, ![e].notice = n]

(* A plan with overage keeps counting beyond its limit.                    *)
Insert(e) ==
  /\ At(e, "none")
  /\ used' = [used EXCEPT ![period] = @ + 1]
  /\ Goto(e, "usage", NoNotice)
  /\ UNCHANGED <<period, reserved, seen, failures, restarts, sent, missed>>

(* reserve() counts what it may have to give back.                         *)
Reserve ==
  /\ reserved < MaxReserved
  /\ used' = [used EXCEPT ![period] = @ + 1] /\ reserved' = reserved + 1
  /\ UNCHANGED <<period, event, seen, failures, restarts, sent, missed>>

Return ==
  /\ reserved > 0 /\ used[period] > 0
  /\ used' = [used EXCEPT ![period] = @ - 1] /\ reserved' = reserved - 1
  /\ UNCHANGED <<period, event, seen, failures, restarts, sent, missed>>

(* usage(): "over" at the limit, "near" below it.                          *)
Usage(e) ==
  /\ At(e, "usage")
  /\ IF used[period] < Near THEN Goto(e, "done", NoNotice)
     ELSE Goto(e, "mark", <<period, IF used[period] >= Limit THEN "over" ELSE "near">>)
  /\ UNCHANGED <<period, used, reserved, seen, failures, restarts, sent, missed>>

(* A faulty MarkIfFirst: the mark follows the sending.                     *)
LookIfFirst(e) ==
  /\ At(e, "mark")
  /\ Goto(e, IF event[e].notice \in seen THEN "done" ELSE "send", event[e].notice)
  /\ seen' = seen \cup {n \in Notices : sent[n] > 0}
  /\ UNCHANGED <<period, used, reserved, failures, restarts, sent, missed>>

(* A faulty MarkIfFirst: what is over is marked as near as well.           *)
MarkAllLevels(e) ==
  /\ At(e, "mark")
  /\ Goto(e, IF event[e].notice \in seen THEN "done" ELSE "send", event[e].notice)
  /\ seen' = seen \cup {event[e].notice, <<event[e].notice[1], "near">>}
  /\ UNCHANGED <<period, used, reserved, failures, restarts, sent, missed>>

MarkIfFirst(e) ==
  /\ At(e, "mark")
  /\ Goto(e, IF event[e].notice \in seen THEN "done" ELSE "send", event[e].notice)
  /\ seen' = seen \cup {event[e].notice}
  /\ UNCHANGED <<period, used, reserved, failures, restarts, sent, missed>>

Send(e) ==
  /\ At(e, "send")
  /\ sent' = [sent EXCEPT ![event[e].notice] = @ + 1]
  /\ Goto(e, "done", event[e].notice)
  /\ UNCHANGED <<period, used, reserved, seen, failures, restarts, missed>>

(* The query or the transport fails, and the event is delivered again.     *)
Fail(e) ==
  /\ event[e].pc \in {"usage", "send"} /\ failures < MaxFailures
  /\ failures' = failures + 1
  /\ event' = [event EXCEPT ![e] = [pc |-> IF @.attempt = Attempts THEN "done" ELSE "usage",
                                    attempt |-> IF @.attempt = Attempts THEN Attempts ELSE @.attempt + 1,
                                    notice |-> NoNotice]]
  /\ missed' = IF At(e, "send") THEN missed \cup {event[e].notice} ELSE missed
  /\ UNCHANGED <<period, used, reserved, seen, restarts, sent>>

(* The events under way are delivered again, or lost with the process.     *)
Restart ==
  LET open == {e \in Inserts : event[e].pc \in {"usage", "mark", "send"}}
  IN /\ restarts < MaxRestarts
     /\ restarts' = restarts + 1
     /\ \E pc \in {"usage", "done"} :
          event' = [e \in Inserts |-> IF e \in open THEN [event[e] EXCEPT !.pc = pc, !.notice = NoNotice]
                                      ELSE event[e]]
     /\ missed' = missed \cup {event[e].notice : e \in {o \in open : At(o, "send")}}
     /\ seen' = {}
     /\ UNCHANGED <<period, used, reserved, failures, sent>>

NewPeriod ==
  /\ period < Periods /\ period' = period + 1
  /\ UNCHANGED <<used, reserved, event, seen, failures, restarts, sent, missed>>

Handle(e) == Usage(e) \/ MarkIfFirst(e) \/ Send(e)

Next ==
  \/ \E e \in Inserts : Insert(e) \/ Handle(e) \/ Fail(e)
  \/ Reserve \/ Return \/ Restart \/ NewPeriod

Spec == Init /\ [][Next]_noticesVars
-----------------------------------------------------------------------------
(* Type correctness.                                                       *)
TypeOK ==
  /\ period \in 1 .. Periods /\ used \in [1 .. Periods -> Nat]
  /\ event \in [Inserts -> [pc : {"none", "usage", "mark", "send", "done"}, attempt : 1 .. Attempts,
                            notice : Notices \cup {NoNotice}]]
  /\ reserved \in 0 .. MaxReserved /\ {seen, missed} \subseteq SUBSET Notices /\ sent \in [Notices -> Nat]
  /\ failures \in 0 .. MaxFailures /\ restarts \in 0 .. MaxRestarts

(* No notice is sent twice by one process, whatever handlings of events    *)
(* overlap and are repeated (usageNotifier.ts:57).                         *)
NoticeOnce == \A n \in Notices : sent[n] <= 1 + restarts

(* A notice that is due is sent, unless a sending of it failed: it is sent *)
(* by the time the event that reached the threshold has been handled.      *)
NoticeSent ==
  (\A e \in Inserts : event[e].pc \in {"none", "done"}) /\ restarts = 0 =>
    \A n \in seen : sent[n] = 1 \/ n \in missed

(* Never twice, and not never.                                             *)
NoticesSafe == TypeOK /\ NoticeOnce /\ NoticeSent
=============================================================================
