------------------------------ MODULE Workflow ------------------------------
(***************************************************************************)
(* The durable workflow engine of packages/core: start(), resume(),        *)
(* signal() and tick() of workflow.ts over a store (workflow-store.ts,     *)
(* postgres-workflow.ts), for one workflow.                                *)
(*                                                                         *)
(* A worker makes one call at a time; calls of several workers, in one     *)
(* process or in several, interleave at every await.  A drive replays the  *)
(* body against the history it loaded: the body is deterministic (the rule *)
(* of workflow.ts:19-22), so it is a fixed sequence of commands, for each  *)
(* deployed version.  Other workflows share nothing with this one.         *)
(***************************************************************************)
EXTENDS Integers, Sequences, FiniteSetsExt

CONSTANTS
  Workers,          \* callers of the engine
  Names,            \* names of commands and signals
  Versions,         \* how many versions of the workflow get deployed
  Body,             \* the commands of each version: a type and a name each
  Signals,          \* the signals that will be sent, one signal() call each
  NameOf,           \* the name of each signal
  None,             \* a model value: no event, signal or result
  FlakySteps,       \* names of the steps whose fn may throw
  Retries,          \* the retries option of every step
  MaxCrashes,       \* bound: how many calls die on the way
  MaxFaults         \* bound: how many queries throw inside a try

Types == {"step", "value", "sleep", "signal"}
Statuses == {"running", "suspended", "completed", "failed"}
Values == Nat \cup Signals \cup {None}
Events ==
  [type : Types, name : Names, value : Values, status : {"pending", "completed"}]

WorkflowAssumption ==
  /\ IsFiniteSet(Workers) /\ Workers # {}
  /\ Versions \in Nat \ {0}
  /\ Body \in [1 .. Versions -> Seq([type : Types, name : Names])]
  /\ \A v \in 1 .. Versions : Body[v] # <<>>
  /\ IsFiniteSet(Signals) /\ NameOf \in [Signals -> Names]
  /\ None \notin Nat \cup Signals \cup Events \cup Statuses /\ Signals \cap Nat = {}
  /\ FlakySteps \subseteq Names
  /\ {Retries, MaxCrashes, MaxFaults} \subseteq Nat

(* The positions (seq) of commands.                                        *)
Positions == 1 .. Max({Len(Body[v]) : v \in 1 .. Versions})

VARIABLES
  status,           \* of the run, None before createRun
  result,           \* of the run: the values its result was computed from
  events,           \* the history: at each position an event, or None
  inbox,            \* buffered signals that are not consumed, oldest first
  callers,          \* the workers there are
  drive,            \* the locals of each worker's call
  deployed,         \* the version registered now
  unsent,           \* signals that have not been sent yet, or were refused
  crashes, faults,  \* how many there were
  \* history variable
  ran               \* how often the work of each position was evaluated

vars == <<status, result, events, inbox, callers, drive, deployed, unsent, crashes, faults, ran>>
run == <<status, result>>
world == <<callers, deployed, unsent, crashes, faults>>

(* Where a call is: at each await, named for what it is about to do.       *)
Places == {"idle", "getRun", "begin", "load", "work", "consume", "append",
           "suspend", "complete", "fail", "send", "buffer", "deliver", "fire"}

Idle == [pc |-> "idle", version |-> 1, past |-> [i \in Positions |-> None],
         seen |-> <<>>, value |-> None, attempt |-> 0, signal |-> None, seq |-> 1]

Init ==
  /\ status = None /\ result = None
  /\ events = [i \in Positions |-> None]
  /\ inbox = <<>>
  /\ callers \in (SUBSET Workers) \ {{}}
  /\ drive = [w \in Workers |-> Idle]
  /\ deployed = 1
  /\ unsent = Signals
  /\ crashes = 0 /\ faults = 0
  /\ ran = [i \in Positions |-> 0]

-----------------------------------------------------------------------------
(* Small steps of a call.                                                  *)

At(w, place) == drive[w].pc = place
Become(w, locals) == drive' = [drive EXCEPT ![w] = locals]
Goto(w, place) == Become(w, [drive[w] EXCEPT !.pc = place])
Return(w) == Become(w, Idle)

(* A query of the store throws where the code catches that.                *)
Fault ==
  /\ faults < MaxFaults /\ faults' = faults + 1
  /\ UNCHANGED <<callers, deployed, unsent, crashes>>

(* The command a drive is at, and its position.                            *)
Here(d) == Len(d.seen) + 1
Command(d) == Body[d.version][Here(d)]

(* matchOrThrow.                                                           *)
Matches(event, command) == event.type = command.type /\ event.name = command.name

(* The body goes on from where the drive is: commands that the history it  *)
(* loaded holds completed return their values at once, and the first other *)
(* one decides where the drive goes.                                       *)
Proceed(d) ==
  LET body == Body[d.version]
      replayed(i) == /\ d.past[i] # None
                     /\ d.past[i].status = "completed"
                     /\ Matches(d.past[i], body[i])
      stop == Max({n \in Here(d) .. Len(body) + 1 :
                     \A i \in Here(d) .. n - 1 : replayed(i)})
      place ==
        CASE stop > Len(body) -> "complete"
          [] stop <= Len(body) /\ d.past[stop] # None ->
               IF Matches(d.past[stop], body[stop]) THEN "suspend" ELSE "fail"
          [] OTHER ->
               CASE body[stop].type \in {"step", "value"} -> "work"
                 [] body[stop].type = "sleep" -> "append"
                 [] body[stop].type = "signal" -> "consume"
  IN [d EXCEPT !.pc = place, !.value = None, !.attempt = 0,
               !.seen = @ \o [i \in 1 .. stop - Here(d) |-> d.past[Here(d) + i - 1].value]]

(* The event a command appends: pending, unless it has a value.            *)
Event(d) ==
  [type |-> Command(d).type, name |-> Command(d).name, value |-> d.value,
   status |-> IF d.value = None THEN "pending" ELSE "completed"]

(* A faulty Caught: one attempt too many.                                  *)
CaughtOnceMore(w) ==
  IF drive[w].attempt <= Retries
  THEN Become(w, [drive[w] EXCEPT !.pc = "work", !.attempt = @ + 1])
  ELSE Goto(w, "fail")

(* The catch block of step(): the next attempt, or the step throws.        *)
Caught(w) ==
  IF drive[w].attempt < Retries
  THEN Become(w, [drive[w] EXCEPT !.pc = "work", !.attempt = @ + 1])
  ELSE Goto(w, "fail")

-----------------------------------------------------------------------------
(* start() and resume().                                                   *)

(* createRun: one atomic insert; a duplicate start resumes.                *)
Start(w) ==
  /\ At(w, "idle")
  /\ \/ /\ status = None
        /\ status' = "running"
        /\ Become(w, [Idle EXCEPT !.pc = "begin", !.version = deployed])
     \/ /\ status # None
        /\ UNCHANGED status
        /\ Goto(w, "getRun")
  /\ UNCHANGED <<result, events, inbox, world, ran>>

(* resume() throws unless there is a run.                                  *)
Resume(w) ==
  /\ At(w, "idle")
  /\ status # None
  /\ Goto(w, "getRun")
  /\ UNCHANGED <<run, events, inbox, world, ran>>

(* A faulty GetRun: a failed run is final too.                             *)
GetRunUnlessFailed(w) ==
  /\ At(w, "getRun")
  /\ IF status \in {"completed", "failed"}
     THEN Return(w)
     ELSE Become(w, [Idle EXCEPT !.pc = "begin", !.version = deployed])
  /\ UNCHANGED <<run, events, inbox, world, ran>>

(* resume() reads the run: a completed one is returned as it is.           *)
GetRun(w) ==
  /\ At(w, "getRun")
  /\ IF status = "completed"
     THEN Return(w)
     ELSE Become(w, [Idle EXCEPT !.pc = "begin", !.version = deployed])
  /\ UNCHANGED <<run, events, inbox, world, ran>>

-----------------------------------------------------------------------------
(* drive().                                                                *)

Begin(w) ==
  /\ At(w, "begin")
  /\ status' = "running"
  /\ Goto(w, "load")
  /\ UNCHANGED <<result, events, inbox, world, ran>>

(* A faulty Load: the history is not read.                                 *)
LoadNothing(w) ==
  /\ At(w, "load")
  /\ Become(w, Proceed(drive[w]))
  /\ UNCHANGED <<run, events, inbox, world, ran>>

(* getEvents, and the body runs until its next await.                      *)
Load(w) ==
  /\ At(w, "load")
  /\ Become(w, Proceed([drive[w] EXCEPT !.past = events]))
  /\ UNCHANGED <<run, events, inbox, world, ran>>

(* fn of a step resolves, or now() / random() evaluates.                   *)
Work(w) ==
  LET s == Here(drive[w])
  IN /\ At(w, "work")
     /\ ran' = [ran EXCEPT ![s] = @ + 1]
     /\ Become(w, [drive[w] EXCEPT !.pc = "append", !.value = ran[s] + 1])
     /\ UNCHANGED <<run, events, inbox, world>>

(* fn throws.                                                              *)
WorkThrows(w) ==
  /\ At(w, "work")
  /\ Command(drive[w]).type = "step" /\ Command(drive[w]).name \in FlakySteps
  /\ Caught(w)
  /\ UNCHANGED <<run, events, inbox, world, ran>>

(* A faulty Consume: the buffer is not looked at.                          *)
ConsumeNothing(w) ==
  /\ At(w, "consume")
  /\ Goto(w, "append")
  /\ UNCHANGED <<run, events, inbox, world, ran>>

(* A faulty Consume: the signal is read and stays buffered.                *)
ConsumeCopy(w) ==
  /\ At(w, "consume")
  /\ LET fits == {i \in DOMAIN inbox : NameOf[inbox[i]] = Command(drive[w]).name}
     IN Become(w, [drive[w] EXCEPT !.pc = "append",
                     !.value = IF fits = {} THEN None ELSE inbox[Min(fits)]])
  /\ UNCHANGED <<run, events, inbox, world, ran>>

(* waitForSignal: the oldest buffered signal of that name, if there is one,*)
(* is claimed atomically.                                                  *)
Fitting(w) == {i \in DOMAIN inbox : NameOf[inbox[i]] = Command(drive[w]).name}
Claim(n) == inbox' = [i \in 1 .. Len(inbox) - 1 |-> IF i < n THEN inbox[i] ELSE inbox[i + 1]]

Consume(w) ==
  /\ At(w, "consume")
  /\ \/ /\ Fitting(w) = {}
        /\ Goto(w, "append")
        /\ UNCHANGED inbox
     \/ /\ Fitting(w) # {}
        /\ Become(w, [drive[w] EXCEPT !.pc = "append", !.value = inbox[Min(Fitting(w))]])
        /\ Claim(Min(Fitting(w)))
  /\ UNCHANGED <<run, events, world, ran>>

(* consumeSignal throws, applied or not: the catch of drive() has it.      *)
ConsumeThrows(w) ==
  /\ At(w, "consume") /\ Fault
  /\ Goto(w, "fail")
  /\ (Fitting(w) # {} /\ Claim(Min(Fitting(w)))) \/ UNCHANGED inbox
  /\ UNCHANGED <<run, events, ran>>

(* A faulty Record: the last writer wins.                                  *)
Overwrite(d) == events' = [events EXCEPT ![Here(d)] = Event(d)]

(* appendEvent does nothing when the position is taken.                    *)
Record(d) ==
  events' = [events EXCEPT ![Here(d)] = IF @ = None THEN Event(d) ELSE @]

(* A faulty AppendEvent: the body goes on after a pending command too.     *)
AppendEventAndGoOn(w) ==
  /\ At(w, "append")
  /\ Record(drive[w])
  /\ Become(w, Proceed([drive[w] EXCEPT !.seen = Append(@, drive[w].value)]))
  /\ UNCHANGED <<run, inbox, world, ran>>

(* After it a pending command suspends the drive; a completed one returns  *)
(* the drive's own value.                                                  *)
AppendEvent(w) ==
  LET d == drive[w]
  IN /\ At(w, "append")
     /\ Record(d)
     /\ IF d.value = None
        THEN Goto(w, "suspend")
        ELSE Become(w, Proceed([d EXCEPT !.seen = Append(@, d.value)]))
     /\ UNCHANGED <<run, inbox, world, ran>>

(* appendEvent throws, applied or not: only step() catches that.           *)
AppendThrows(w) ==
  /\ At(w, "append") /\ Fault
  /\ Record(drive[w]) \/ UNCHANGED events
  /\ IF Command(drive[w]).type = "step" THEN Caught(w) ELSE Goto(w, "fail")
  /\ UNCHANGED <<run, inbox, ran>>

(* setRunStatus at the end of a drive writes whatever is there.            *)
Suspend(w) ==
  /\ At(w, "suspend")
  /\ status' = "suspended"
  /\ Return(w)
  /\ UNCHANGED <<result, events, inbox, world, ran>>

Complete(w) ==
  /\ At(w, "complete")
  /\ status' = "completed"
  /\ result' = drive[w].seen
  /\ Return(w)
  /\ UNCHANGED <<events, inbox, world, ran>>

(* It throws, applied or not, or the run cannot be read after it: the run  *)
(* has failed.                                                             *)
CompleteThrows(w) ==
  /\ At(w, "complete") /\ Fault
  /\ Goto(w, "fail")
  /\ (status' = "completed" /\ result' = drive[w].seen) \/ UNCHANGED run
  /\ UNCHANGED <<events, inbox, ran>>

Fail(w) ==
  /\ At(w, "fail")
  /\ status' = "failed"
  /\ Return(w)
  /\ UNCHANGED <<result, events, inbox, world, ran>>

-----------------------------------------------------------------------------
(* signal() and tick().                                                    *)

Signal(w, x) ==
  /\ At(w, "idle")
  /\ unsent' = unsent \ {x}
  /\ Become(w, [Idle EXCEPT !.pc = "send", !.signal = x])
  /\ UNCHANGED <<run, events, inbox, callers, deployed, crashes, faults, ran>>

Pending(type) ==
  {i \in Positions : /\ events[i] # None
                     /\ events[i].type = type /\ events[i].status = "pending"}

(* getEvents: is the workflow waiting for a signal of this name?           *)
Send(w) ==
  LET waiting == {i \in Pending("signal") : events[i].name = NameOf[drive[w].signal]}
  IN /\ At(w, "send")
     /\ IF waiting = {}
        THEN Goto(w, "buffer")
        ELSE Become(w, [drive[w] EXCEPT !.pc = "deliver", !.seq = Min(waiting)])
     /\ UNCHANGED <<run, events, inbox, world, ran>>

(* enqueueSignal: Postgres refuses a signal of a run that is not there, and*)
(* then signal() throws (the in-memory store keeps it, and it throws too). *)
Buffer(w) ==
  /\ At(w, "buffer")
  /\ \/ /\ inbox' = Append(inbox, drive[w].signal)
        /\ UNCHANGED unsent
     \/ /\ status = None
        /\ unsent' = unsent \cup {drive[w].signal}
        /\ UNCHANGED inbox
  /\ Return(w)
  /\ UNCHANGED <<run, events, callers, deployed, crashes, faults, ran>>

(* getDueTimers: a body suspends at each timer, so at most one is pending. *)
Tick(w) ==
  /\ At(w, "idle")
  /\ \E i \in Pending("sleep") :
       Become(w, [Idle EXCEPT !.pc = "fire", !.seq = i])
  /\ UNCHANGED <<run, events, inbox, world, ran>>

(* completeEvent, with the payload or for a timer with none, whatever the  *)
(* status is by now; then resume().                                        *)
CompleteEvent(w) ==
  LET d == drive[w]
  IN /\ At(w, "deliver") \/ At(w, "fire")
     /\ events' = [events EXCEPT ![d.seq] =
                     [@ EXCEPT !.status = "completed", !.value = d.signal]]
     /\ Become(w, [Idle EXCEPT !.pc = "getRun"])
     /\ UNCHANGED <<run, inbox, world, ran>>

-----------------------------------------------------------------------------
(* The process of a call dies, or a store call throws out of it.           *)
Crash(w) ==
  /\ ~At(w, "idle") /\ crashes < MaxCrashes
  /\ crashes' = crashes + 1
  /\ Return(w)
  /\ UNCHANGED <<run, events, inbox, callers, deployed, unsent, faults, ran>>

(* Processes that start now register the next version of the body.         *)
Deploy ==
  /\ deployed < Versions
  /\ deployed' = deployed + 1
  /\ UNCHANGED <<run, events, inbox, callers, drive, unsent, crashes, faults, ran>>

(* A call that is on its way goes on.                                      *)
Step(w) ==
  \/ GetRun(w) \/ Begin(w) \/ Load(w)
  \/ Work(w) \/ WorkThrows(w) \/ Consume(w) \/ ConsumeThrows(w) \/ AppendEvent(w) \/ AppendThrows(w)
  \/ Suspend(w) \/ Complete(w) \/ CompleteThrows(w) \/ Fail(w)
  \/ Send(w) \/ Buffer(w) \/ CompleteEvent(w)

Next ==
  \/ \E w \in callers :
       \/ Start(w) \/ Resume(w) \/ Tick(w) \/ \E x \in unsent : Signal(w, x)
       \/ Step(w)
       \/ Crash(w)
  \/ Deploy

Spec == Init /\ [][Next]_vars

(* A promise that can continue does, and the host polls: it starts the     *)
(* workflow, calls tick() again and again, and resumes runs it finds       *)
(* unfinished, each of them however busy the workers are with other calls. *)
Fairness ==
  /\ \A w \in Workers : WF_vars(Step(w))
  /\ SF_vars(\E w \in callers : Start(w) /\ status = None)
  /\ SF_vars(\E w \in callers : Tick(w))
  /\ SF_vars(\E w \in callers : Resume(w) /\ status # "completed")

FairSpec == Spec /\ Fairness

-----------------------------------------------------------------------------
(* Properties.                                                             *)

Histories == [Positions -> Events \cup {None}]
Locals ==
  [pc : Places, version : 1 .. Versions, past : Histories, seen : Seq(Values),
   value : Values, attempt : 0 .. Retries, signal : Signals \cup {None}, seq : Positions]

(* Every variable has its type, a drive is at a command of its body while  *)
(* it works on one, and only signal() and tick() hold what they deliver.   *)
TypeOK ==
  /\ status \in Statuses \cup {None}
  /\ result = None \/ result \in Seq(Values)
  /\ events \in Histories
  /\ inbox \in Seq(Signals)
  /\ callers \in SUBSET Workers /\ drive \in [Workers -> Locals]
  /\ \A w \in Workers :
       LET d == drive[w]
       IN /\ d.version <= deployed
          /\ d.pc \in {"begin", "load", "work", "consume", "append"} => Here(d) <= Len(Body[d.version])
          /\ d.pc \in {"send", "buffer", "deliver"} => d.signal # None
          /\ d.pc \in {"deliver", "fire"} => events[d.seq] # None
  /\ deployed \in 1 .. Versions
  /\ unsent \subseteq Signals
  /\ crashes \in 0 .. MaxCrashes /\ faults \in 0 .. MaxFaults
  /\ ran \in [Positions -> Nat]

Completed(i) == events[i] # None /\ events[i].status = "completed"

(* The values of the completed commands that no open command precedes.     *)
CommittedValues ==
  LET n == Max({m \in 0 .. Max(Positions) : \A i \in 1 .. m : Completed(i)})
  IN [i \in 1 .. n |-> events[i].value]

(* Concurrent drives and timers: what is completed stays as it is, so every*)
(* later replay agrees with every earlier one (appendEvent is idempotent,  *)
(* workflow-store.ts:70-72).                                               *)
HistoryKept == \A i \in Positions : Completed(i) => events'[i] = events[i]
HistoryFixed == [][HistoryKept]_vars

(* Concurrent drives too: nothing is recorded after a command that is still*)
(* open, so a replay never meets a gap, and a command is evaluated again   *)
(* only for a concurrent drive, a crash or a query that failed: replays    *)
(* never repeat it.                                                        *)
NoGaps == \A i, j \in Positions : i < j /\ events[j] # None => Completed(i)
RunsBounded == \A i \in Positions : ran[i] <= Cardinality(callers) + crashes + faults
ReplaysSound == TypeOK /\ NoGaps /\ RunsBounded

(* signal() wakes a matching wait or else buffers (workflow.ts:127-130):   *)
(* when no call is under way, no signal lies buffered for a wait that is   *)
(* pending.                                                                *)
NoStrandedSignal ==
  (\A w \in Workers : At(w, "idle")) =>
    \A i \in Pending("signal"), j \in DOMAIN inbox : NameOf[inbox[j]] # events[i].name

(* Where a signal is, once its signal() call is under way.                 *)
Holders(x) ==
  Cardinality({w \in Workers : drive[w].signal = x \/ (At(w, "append") /\ drive[w].value = x)})
    + Cardinality({j \in DOMAIN inbox : inbox[j] = x})
    + Cardinality({i \in Positions : events[i] # None /\ events[i].value = x})

(* No signal is used twice, and none is lost but to a crash, a failed claim*)
(* or a failed append after it was taken from the buffer or before it was  *)
(* written.                                                                *)
SignalsKept ==
  /\ \A x \in Signals : Holders(x) <= 1
  /\ Cardinality({x \in Signals \ unsent : Holders(x) = 0}) <= crashes + faults

(* One call is under way at a time.                                        *)
Alone == \A u, v \in callers : u = v

(* One call at a time: no signal is stranded in the buffer, used twice or  *)
(* lost (workflow.ts:136-147, 295-299).                                    *)
SignalsSafe == Alone => NoStrandedSignal /\ SignalsKept

(* One call at a time, whatever dies or is deployed in between: commands   *)
(* commit once and in order, replays see the committed values, and the     *)
(* result is computed from exactly those (workflow-store.ts:9-11).         *)
Durable == INSTANCE DurableRun WITH
  Nothing <- None,
  committed <- IF Alone THEN CommittedValues ELSE <<>>,
  result <- IF Alone THEN result ELSE None
ImplementsDurableRun == Durable!Spec
=============================================================================
