---------------------------- MODULE EventDelivery ----------------------------
(***************************************************************************)
(* Delivery of domain events to their subscribers: bus.ts, queue.ts,       *)
(* deadLetters.ts as wiring.ts puts them together, with the replay and     *)
(* discarding of dead letters of service.ts.                               *)
(*                                                                         *)
(* In process, the request that publishes runs the subscribers, each       *)
(* isolated by resilient().  Through a queue, one worker runs the whole    *)
(* fan-out and retries it; the queue is in memory (InMemoryQueue) or in    *)
(* Redis (BullMQQueue), where it outlives the process.  The process dies,  *)
(* or is told to end and drains first (index.ts).                          *)
(***************************************************************************)
EXTENDS Integers, Sequences

CONSTANTS
  Events,
  Subscribers,      \* how many: they run in the order of their numbers
  Attempts,         \* RetryOptions.attempts of the queue
  Operators,        \* who replays and discards dead letters
  MaxJobs,          \* bound: publications of one event, replays included
  MaxFailures,      \* bound: failing subscribers
  MaxFaults,        \* bound: failing queries of the dead letters and of Redis
  MaxCrashes        \* bound: ends of the process

DeliveryAssumption ==
  /\ {Subscribers, Attempts, MaxJobs} \subseteq Nat \ {0}
  /\ {MaxFailures, MaxFaults, MaxCrashes} \subseteq Nat

VARIABLES
  kind,             \* "process" or "redis": what wiring.ts chose; "memory": a queue without REDIS_URL
  job,              \* per publication of an event: where it is
  line,             \* the jobs that wait in memory, in order
  started,          \* ensureStarted(): whether this process has a worker
  phase,            \* "up", or the stage of the shutdown
  letters,          \* the dead letters
  operator,         \* per operator: the replay under way
  failures, faults, crashes,
  \* history variables
  handled,          \* how often each subscriber has handled each event
  failed,           \* the pairs of an event and a subscriber that failed on it
  excused           \* the pairs given up: lost by a fault or crash, or discarded

deliveryVars ==
  <<kind, job, line, started, phase, letters, operator, failures, faults, crashes, handled, failed, excused>>

Numbers == 1 .. Subscribers
Jobs == Events \X (1 .. MaxJobs)
All == 0                            \* subscriber "*" of a dead letter

Init ==
  /\ kind \in {"process", "memory", "redis"}
  /\ job = [j \in Jobs |-> [pc |-> "unpublished", next |-> 1, attempt |-> 1, stalled |-> FALSE]]
  /\ line = <<>>
  /\ started = FALSE
  /\ phase = "up"
  /\ letters = {}
  /\ operator = [o \in Operators |-> [pc |-> "idle", letter |-> <<>>]]
  /\ failures = 0 /\ faults = 0 /\ crashes = 0
  /\ handled = [e \in Events |-> [s \in Numbers |-> 0]]
  /\ failed = {} /\ excused = {}

-----------------------------------------------------------------------------
EventOf(j) == j[1]
Pairs(e, numbers) == {e} \X numbers
Rest(j) == Pairs(EventOf(j), job[j].next .. Subscribers)
Published(e) == \E j \in Jobs : EventOf(j) = e /\ job[j].pc # "unpublished"
Fresh(e) == {j \in Jobs : EventOf(j) = e /\ job[j].pc = "unpublished"
                          /\ \A i \in Jobs : EventOf(i) = e /\ i[2] < j[2] => job[i].pc # "unpublished"}

(* bus.publish(e): in process the subscribers start at once; otherwise the *)
(* event is enqueued, and the first publication starts the worker.         *)
Publish(j) ==
  IF kind = "process"
  THEN job' = [job EXCEPT ![j].pc = "running"] /\ UNCHANGED <<line, started>>
  ELSE /\ job' = [job EXCEPT ![j].pc = "waiting"]
       /\ line' = IF kind = "memory" THEN Append(line, j) ELSE line
       /\ started' = TRUE

PublishEvent(e) ==
  /\ phase = "up" /\ ~Published(e)
  /\ \E j \in Fresh(e) : Publish(j)
  /\ UNCHANGED <<kind, phase, letters, operator, failures, faults, crashes, handled, failed, excused>>

(* Redis does not answer: the request fails, after its transition.         *)
EnqueueFails(e) ==
  /\ phase = "up" /\ kind = "redis" /\ ~Published(e) /\ faults < MaxFaults
  /\ faults' = faults + 1
  /\ \E j \in Fresh(e) : job' = [job EXCEPT ![j].pc = "over"]
  /\ started' = TRUE
  /\ excused' = excused \cup Pairs(e, Numbers)
  /\ UNCHANGED <<kind, line, phase, letters, operator, failures, crashes, handled, failed>>

(* A faulty Free: the tail of the queue breaks with its first dead letter. *)
FreeUntilDead == (\A j \in Jobs : job[j].pc # "running") /\ letters = {}

Free == \A j \in Jobs : job[j].pc # "running"

(* The worker takes a job: in memory the first; in Redis, where retries    *)
(* are delayed, any.                                                       *)
Take(j) ==
  /\ kind # "process" /\ started /\ phase # "closing" /\ Free
  /\ job[j].pc = "waiting"
  /\ \/ kind = "memory" /\ line # <<>> /\ j = Head(line) /\ line' = Tail(line)
     \/ kind = "redis" /\ UNCHANGED line
  /\ job' = [job EXCEPT ![j].pc = "running"]
  /\ UNCHANGED <<kind, started, phase, letters, operator, failures, faults, crashes, handled, failed, excused>>

(* The next subscriber of a running job handles the event, or fails on it. *)
Handle(j) ==
  LET s == job[j].next
  IN /\ job[j].pc = "running"
     /\ handled' = [handled EXCEPT ![EventOf(j)][s] = @ + 1]
     /\ job' = [job EXCEPT ![j].next = s + 1, ![j].pc = IF s = Subscribers THEN "over" ELSE @]
     /\ UNCHANGED <<kind, line, started, phase, letters, operator, failures, faults, crashes, failed, excused>>

(* A failed fan-out of the queue: again from the first subscriber, in      *)
(* place or back in Redis, until the attempts are used up.                 *)
Retry(j) ==
  LET again == [job[j] EXCEPT !.next = 1, !.attempt = @ + 1]
  IN job' = [job EXCEPT ![j] = IF @.attempt = Attempts THEN [@ EXCEPT !.pc = "sinking"]
                               ELSE IF kind = "memory" THEN again
                               ELSE [again EXCEPT !.pc = "waiting"]]

(* A faulty HandleFails: without resilient(), a failure ends the request.  *)
HandleThrows(j) ==
  /\ job[j].pc = "running" /\ failures < MaxFailures
  /\ failures' = failures + 1
  /\ failed' = failed \cup {<<EventOf(j), job[j].next>>}
  /\ IF kind = "process" THEN job' = [job EXCEPT ![j].pc = "over"] ELSE Retry(j)
  /\ UNCHANGED <<kind, line, started, phase, letters, operator, faults, crashes, handled, excused>>

HandleFails(j) ==
  /\ job[j].pc = "running" /\ failures < MaxFailures
  /\ failures' = failures + 1
  /\ failed' = failed \cup {<<EventOf(j), job[j].next>>}
  /\ IF kind = "process" THEN job' = [job EXCEPT ![j].pc = "sinking"] ELSE Retry(j)
  /\ UNCHANGED <<kind, line, started, phase, letters, operator, faults, crashes, handled, excused>>

(* After the sink, in process, the next subscriber has its turn; the queue *)
(* has not waited for its sink.                                            *)
Sunk(j) ==
  job' = [job EXCEPT ![j].next = @ + 1,
                     ![j].pc = IF kind = "process" /\ job[j].next < Subscribers THEN "running" ELSE "over"]

(* makeSink(): a failure to record the dead letter is swallowed.           *)
Sink(j) ==
  /\ job[j].pc = "sinking"
  /\ letters' = letters \cup {<<j, IF kind = "process" THEN job[j].next ELSE All>>}
  /\ Sunk(j)
  /\ UNCHANGED <<kind, line, started, phase, operator, failures, faults, crashes, handled, failed, excused>>

SinkFails(j) ==
  /\ job[j].pc = "sinking" /\ faults < MaxFaults
  /\ faults' = faults + 1
  /\ excused' = excused \cup (IF kind = "process" THEN {<<EventOf(j), job[j].next>>} ELSE Rest(j))
  /\ Sunk(j)
  /\ UNCHANGED <<kind, line, started, phase, letters, operator, failures, crashes, handled, failed>>

-----------------------------------------------------------------------------
At(o, pc) == operator[o].pc = pc
Let(o, pc, l) == operator' = [operator EXCEPT ![o] = [pc |-> pc, letter |-> l]]
Leave(o) == Let(o, "idle", <<>>)
LetterPairs(l) == Pairs(EventOf(l[1]), IF l[2] = All THEN Numbers ELSE {l[2]})

(* replayDeadLetter(): getDeadLetter(), the replay, deleteDeadLetter().    *)
GetLetter(o) ==
  /\ phase = "up" /\ At(o, "idle")
  /\ \E l \in letters : Let(o, "replaying", l)
  /\ UNCHANGED <<kind, job, line, started, phase, letters, failures, faults, crashes, handled, failed, excused>>

(* A faulty ReplayAll: the event is published whichever subscriber failed. *)
ReplayEvent(o) ==
  LET l == operator[o].letter
  IN /\ At(o, "replaying")
     /\ \E j \in Fresh(EventOf(l[1])) : Publish(j)
     /\ Let(o, "deleting", l)
     /\ UNCHANGED <<kind, phase, letters, failures, faults, crashes, handled, failed, excused>>

(* deadLetterReplay of "*": the event is published again.                  *)
ReplayAll(o) ==
  LET l == operator[o].letter
  IN /\ At(o, "replaying") /\ l[2] = All
     /\ \E j \in Fresh(EventOf(l[1])) : Publish(j)
     /\ Let(o, "deleting", l)
     /\ UNCHANGED <<kind, phase, letters, failures, faults, crashes, handled, failed, excused>>

(* deadLetterReplay of one subscriber, which may fail again: the letter    *)
(* is kept.                                                                *)
ReplayOne(o) ==
  LET l == operator[o].letter
  IN /\ At(o, "replaying") /\ l[2] # All
     /\ handled' = [handled EXCEPT ![EventOf(l[1])][l[2]] = @ + 1]
     /\ Let(o, "deleting", l)
     /\ UNCHANGED <<kind, job, line, started, phase, letters, failures, faults, crashes, failed, excused>>

ReplayFails(o) ==
  /\ At(o, "replaying") /\ failures < MaxFailures
  /\ failures' = failures + 1
  /\ Leave(o)
  /\ UNCHANGED <<kind, job, line, started, phase, letters, faults, crashes, handled, failed, excused>>

DeleteLetter(o) ==
  /\ At(o, "deleting")
  /\ letters' = letters \ {operator[o].letter}
  /\ Leave(o)
  /\ UNCHANGED <<kind, job, line, started, phase, failures, faults, crashes, handled, failed, excused>>

(* discardDeadLetter().                                                    *)
Discard(o) ==
  /\ phase = "up" /\ At(o, "idle")
  /\ \E l \in letters : letters' = letters \ {l} /\ excused' = excused \cup LetterPairs(l)
  /\ UNCHANGED <<kind, job, line, started, phase, operator, failures, faults, crashes, handled, failed>>

(* A new process.  With the old one requests, sinks and a queue in memory  *)
(* are gone; a job of Redis stalls and is taken again, once there is a     *)
(* worker.  A job that stalls again BullMQ gives up (its maxStalledCount is*)
(* 1): its attempts are not used up, so the worker writes no dead letter   *)
(* (queue.ts:157).                                                         *)
Stalls(j) == kind = "redis" /\ job[j].pc = "running" /\ ~job[j].stalled
Lost(j) ==
  \/ job[j].pc = "sinking" \/ (job[j].pc = "running" /\ ~Stalls(j))
  \/ (job[j].pc = "waiting" /\ kind = "memory")

Restart ==
  /\ crashes' = crashes + 1
  /\ phase' = "up"
  /\ job' = [j \in Jobs |-> IF Stalls(j) THEN [job[j] EXCEPT !.pc = "waiting", !.next = 1, !.stalled = TRUE]
                            ELSE IF Lost(j) THEN [job[j] EXCEPT !.pc = "over"] ELSE job[j]]
  /\ line' = <<>>
  /\ started' = FALSE
  /\ operator' = [o \in Operators |-> [pc |-> "idle", letter |-> <<>>]]
  /\ UNCHANGED <<kind, letters, failures, faults, handled, failed>>

(* The process dies, or its shutdown takes ten seconds and is forced.      *)
Crash ==
  /\ crashes < MaxCrashes
  /\ Restart
  /\ excused' = excused \cup UNION {Rest(j) : j \in {i \in Jobs : Lost(i)}}

OnlyPhase(p) ==
  /\ phase' = p
  /\ UNCHANGED <<kind, job, line, started, letters, operator, failures, faults, crashes, handled, failed, excused>>

(* shutdown(): no request is let in any more ...                           *)
ShutDown == phase = "up" /\ crashes < MaxCrashes /\ OnlyPhase("draining")

(* A faulty Drained: close() comes first.                                  *)
DrainedAtOnce == phase = "draining" /\ OnlyPhase("closing")

(* ... app.close(): those under way end, and in process with them what     *)
(* they publish ...                                                        *)
Drained ==
  /\ phase = "draining"
  /\ \A o \in Operators : At(o, "idle")
  /\ kind = "process" => \A j \in Jobs : job[j].pc \notin {"running", "sinking"}
  /\ OnlyPhase("closing")

(* ... close(): the worker of Redis ends its job and takes no other; sinks *)
(* of the queue, and a queue in memory, are not waited for.                *)
Exit ==
  /\ phase = "closing" /\ (kind = "redis" => Free)
  /\ Restart
  /\ excused' = excused \cup UNION {Rest(j) : j \in {i \in Jobs : kind # "process" /\ Lost(i)}}

Deliver(j) == Take(j) \/ Handle(j) \/ HandleFails(j) \/ Sink(j) \/ SinkFails(j)
Replay(o) == GetLetter(o) \/ ReplayAll(o) \/ ReplayOne(o) \/ ReplayFails(o) \/ DeleteLetter(o) \/ Discard(o)

Leaving == Drained \/ Exit

Next ==
  \/ \E e \in Events : PublishEvent(e) \/ EnqueueFails(e)
  \/ \E j \in Jobs : Deliver(j)
  \/ \E o \in Operators : Replay(o)
  \/ Crash \/ ShutDown \/ Leaving

Spec == Init /\ [][Next]_deliveryVars

-----------------------------------------------------------------------------
OnTheWay(e, s) ==
  \E j \in Jobs : /\ EventOf(j) = e
                  /\ job[j].pc \in {"waiting", "running", "sinking"} /\ job[j].next <= s

(* No published event is dropped silently: each subscriber has handled it, *)
(* will come to it, or is on record as a dead letter, unless a crash or a  *)
(* fault of the store took it or an operator discarded it, through every   *)
(* overlap of retries, crashes and replays (bus.ts, queue.ts, service.ts). *)
(* In process a shutdown that is not forced takes none (index.ts:64).      *)
Accounted ==
  \A e \in Events, s \in Numbers : Published(e) =>
    \/ handled[e][s] > 0
    \/ OnTheWay(e, s)
    \/ \E l \in letters : <<e, s>> \in LetterPairs(l)
    \/ <<e, s>> \in excused

(* A subscriber that has not failed on an event handles it once, whatever  *)
(* of the others' failures is replayed, and by however many at once        *)
(* (deadLetters.ts:6).  It is so in process; a queue repeats the fan-out.  *)
HealthyOnce ==
  \A e \in Events, s \in Numbers : <<e, s>> \notin failed => handled[e][s] <= 1

(* The two of them: a queue may repeat, but nothing gets lost.             *)
EventsAccounted == Accounted /\ (kind = "process" => HealthyOnce)
=============================================================================
