------------------------------ MODULE Timeline ------------------------------
(***************************************************************************)
(* The log of an action's life: insertPending() and transition() of        *)
(* service.ts publish what they read after their write (events.ts), and    *)
(* the sink of actionEvents.ts appends it, in the order of its arrival.    *)
(* Requests for one action interleave between store queries.               *)
(*                                                                         *)
(* In process the request appends the event itself, or leaves a dead       *)
(* letter.  With REDIS_URL a worker appends it, and the queue repeats the  *)
(* whole fan-out when another subscriber fails after that (wiring.ts).  See*)
(* EventDelivery for how an event gets from `due' to the subscriber: here  *)
(* it is delivered at any time, in any order, and maybe again.             *)
(***************************************************************************)
EXTENDS Integers, Sequences, FiniteSets, ActionStatus

CONSTANTS
  Requests,
  Statuses,         \* what requests mark the action as
  None,
  MaxUpdates,       \* bound: updates of the action
  MaxLosses,        \* bound: requests that die and events that are dropped
  MaxRepeats        \* bound: deliveries of an event that is to be delivered again

TimelineAssumption ==
  /\ Statuses \subseteq Status /\ None \notin Status
  /\ {MaxUpdates, MaxLosses, MaxRepeats} \subseteq Nat

VARIABLES
  bus,              \* "process" or "redis": what wiring.ts chose
  row,              \* the action's status, None before its insertion
  updatedAt,        \* how often the action was written: the time of its last update
  request,          \* per request: where it is, what it marks and the event it publishes
  log,              \* action_events, by id
  due,              \* events in the queue of Redis or among the dead letters
  losses, repeats,
  applied,          \* history: the statuses the action has had, in order
  clashed,          \* history: two requests were under way at a time
  late              \* history: an event has been put off

timelineVars ==
  <<bus, row, updatedAt, request, log, due, losses, repeats, applied, clashed, late>>

(* An event tells what the action was `at' a time, on account of the update*)
(* `of' which it is the event.                                             *)
NoEvent == [type |-> "none", status |-> None, at |-> 0, of |-> 0]
Idle == [pc |-> "idle", to |-> None, event |-> NoEvent]

Init ==
  /\ bus \in {"process", "redis"}
  /\ row = None /\ updatedAt = 0
  /\ request = [q \in Requests |-> Idle]
  /\ log = <<>> /\ due = {} /\ losses = 0 /\ repeats = 0
  /\ applied = <<>> /\ clashed = FALSE /\ late = FALSE

-----------------------------------------------------------------------------
At(q, pc) == request[q].pc = pc
Become(q, r) == request' = [request EXCEPT ![q] = r]

Busy == {q \in Requests : ~At(q, "idle")}
Arrive(q, r) ==
  /\ At(q, "idle")
  /\ Become(q, r)
  /\ clashed' = (clashed \/ (Busy # {} /\ r # Idle))

Write(status) ==
  /\ updatedAt < MaxUpdates /\ updatedAt' = updatedAt + 1
  /\ row' = status /\ applied' = Append(applied, status)

Publishing(type) ==
  [pc |-> "reread", to |-> None, event |-> [NoEvent EXCEPT !.type = type, !.of = updatedAt']]

Unsent == UNCHANGED <<log, due, repeats, late>>

(* A faulty Insert: a duplicate is published as well.                      *)
InsertDuplicate(q) ==
  /\ IF row = None THEN Write("pending") ELSE UNCHANGED <<row, updatedAt, applied>>
  /\ Arrive(q, Publishing("created"))
  /\ Unsent /\ UNCHANGED <<bus, losses>>

(* insertPending(): a duplicate is answered and not published.             *)
Insert(q) ==
  /\ row = None
  /\ Write("pending") /\ Arrive(q, Publishing("created"))
  /\ Unsent /\ UNCHANGED <<bus, losses>>

(* transition(): the status is read and checked,                           *)
Read(q) ==
  /\ row # None
  /\ \E to \in Statuses \cap Allowed[row] : Arrive(q, [Idle EXCEPT !.pc = "apply", !.to = to])
  /\ Unsent /\ UNCHANGED <<bus, row, updatedAt, losses, applied>>

(* A faulty Apply: the event is built from what was read before.           *)
ApplyAfterEvent(q) ==
  /\ At(q, "apply")
  /\ Write(request[q].to)
  /\ Become(q, [pc |-> "publish", to |-> None,
                event |-> [type |-> "transition", status |-> row, at |-> updatedAt, of |-> updatedAt']])
  /\ Unsent /\ UNCHANGED <<bus, losses, clashed>>

(* applied, whatever it is by now,                                         *)
Apply(q) ==
  /\ At(q, "apply")
  /\ Write(request[q].to)
  /\ Become(q, Publishing("transition"))
  /\ Unsent /\ UNCHANGED <<bus, losses, clashed>>

(* and the action is read again,                                           *)
Reread(q) ==
  /\ At(q, "reread")
  /\ Become(q, [request[q] EXCEPT !.pc = "publish", !.event.status = row, !.event.at = updatedAt])
  /\ Unsent /\ UNCHANGED <<bus, row, updatedAt, losses, applied, clashed>>

(* The sink appends it, and once more when it is called once more.         *)
Append1(e) == log' = Append(log, e)
AppendAgain(e) == repeats < MaxRepeats /\ repeats' = repeats + 1 /\ Append1(e)
PutOff(e) == due' = due \cup {e} /\ late' = TRUE

(* for the event that is published: in process the sink has it at once.    *)
Publish(q) ==
  LET e == request[q].event
  IN /\ At(q, "publish") /\ Become(q, Idle)
     /\ \/ bus = "process" /\ Append1(e) /\ UNCHANGED <<due, repeats, late>>
        \/ bus = "redis" /\ PutOff(e) /\ UNCHANGED <<log, repeats>>
     /\ UNCHANGED <<bus, row, updatedAt, losses, applied, clashed>>

(* In process the append fails, or only its answer is lost: a dead letter. *)
AppendFails(q) ==
  LET e == request[q].event
  IN /\ At(q, "publish") /\ bus = "process" /\ Become(q, Idle)
     /\ PutOff(e)
     /\ AppendAgain(e) \/ UNCHANGED <<log, repeats>>
     /\ UNCHANGED <<bus, row, updatedAt, losses, applied, clashed>>

(* The process of a request dies, or a query of it fails.                  *)
Lose(q) ==
  /\ ~At(q, "idle") /\ losses < MaxLosses
  /\ losses' = losses + 1
  /\ Become(q, Idle)
  /\ Unsent /\ UNCHANGED <<bus, row, updatedAt, applied, clashed>>

(* A worker, or the replay of a dead letter, gets through to the end: after*)
(* any other, since retries are delayed, workers are several and operators *)
(* choose.                                                                 *)
Deliver(e) ==
  /\ Append1(e) /\ due' = due \ {e}
  /\ UNCHANGED <<bus, row, updatedAt, request, losses, repeats, applied, clashed, late>>

(* It appends the event and fails after that, and the event is still due: a*)
(* later subscriber throws, an answer is lost, a worker dies; or two       *)
(* operators replay one letter.                                            *)
Redeliver(e) ==
  /\ AppendAgain(e)
  /\ UNCHANGED <<bus, row, updatedAt, request, due, losses, applied, clashed, late>>

(* A dead letter is discarded or not recorded, or a job is lost.           *)
Drop(e) ==
  /\ losses < MaxLosses /\ losses' = losses + 1
  /\ due' = due \ {e}
  /\ UNCHANGED <<bus, row, updatedAt, request, log, repeats, applied, clashed, late>>

Next ==
  \/ \E q \in Requests :
       Insert(q) \/ Read(q) \/ Apply(q) \/ Reread(q) \/ Publish(q) \/ AppendFails(q) \/ Lose(q)
  \/ \E e \in due : Deliver(e) \/ Redeliver(e) \/ Drop(e)

Spec == Init /\ [][Next]_timelineVars
-----------------------------------------------------------------------------
(* Type correctness.                                                       *)
EventsOf(statuses) ==
  [type : {"none", "created", "transition"}, status : statuses \cup {None},
   at : 0 .. MaxUpdates, of : 0 .. MaxUpdates]

TypeOK ==
  /\ bus \in {"process", "redis"}
  /\ row \in Status \cup {None} /\ updatedAt \in 0 .. MaxUpdates
  /\ request \in [Requests -> [pc : {"idle", "apply", "reread", "publish"},
                               to : Statuses \cup {None}, event : EventsOf(Status)]]
  /\ log \in Seq(EventsOf(Status)) /\ due \subseteq EventsOf(Status)
  /\ losses \in 0 .. MaxLosses /\ repeats \in 0 .. MaxRepeats
  /\ applied \in Seq(Status) /\ clashed \in BOOLEAN /\ late \in BOOLEAN

(* Requests have ended, and nothing is queued, dead or lost.               *)
Quiet == Busy = {} /\ due = {} /\ losses = 0

(* The timeline catches up: the status the action ended in is on it, in    *)
(* whatever order racing requests wrote, read again and published, and     *)
(* their events were delivered (service.ts:446).                           *)
CatchesUp ==
  Quiet /\ row # None => \E i \in DOMAIN log : log[i].status = row /\ log[i].at = updatedAt

(* What is on the timeline is what the action was at that time; and an     *)
(* update, its creation above all, is there once, racing duplicates or not,*)
(* and once more only for a delivery that was repeated.                    *)
NothingButTrue ==
  /\ \A i \in DOMAIN log : log[i].at \in DOMAIN applied /\ log[i].status = applied[log[i].at]
  /\ \A n \in 0 .. MaxUpdates :
       Cardinality({i \in DOMAIN log : log[i].of = n}) <= IF n \in DOMAIN applied THEN 1 + repeats ELSE 0
  /\ \A i \in DOMAIN log : log[i].type = "created" <=> log[i].of = 1

(* Requests that come one at a time leave the whole history, and in order  *)
(* unless an event was put off, as it always is with a queue: then order   *)
(* is what the events' own times say.                                      *)
Faithful ==
  /\ Quiet /\ ~clashed => DOMAIN applied = {log[i].at : i \in DOMAIN log}
  /\ Quiet /\ ~clashed /\ ~late => [i \in DOMAIN log |-> log[i].status] = applied

(* What a reader of the timeline may rely on.                              *)
TimelineTells == TypeOK /\ NothingButTrue /\ Faithful /\ CatchesUp
=============================================================================
