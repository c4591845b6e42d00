----------------------------- MODULE MCWorkflow -----------------------------
(***************************************************************************)
(* Small instances of Workflow for TLC, each explored on its own: `part'   *)
(* says which of them a behaviour is of.                                   *)
(***************************************************************************)
EXTENDS Workflow

CONSTANTS w1, w2, x1, x2

VARIABLE part

allVars == <<part, vars>>

AllNames == {"a", "b", "t", "u", "go", "now"}
command(type, name) == [type |-> type, name |-> name]

(* A step, a timer, a clock reading and another step.                      *)
Plain == <<command("step", "a"), command("sleep", "t"), command("value", "now"),
           command("step", "b")>>

(* Two waits for signals of the same name around a step.                   *)
Waits == <<command("signal", "go"), command("step", "a"), command("signal", "go"),
           command("step", "b")>>

(* Of every kind one; the next version replaces a step by a timer.         *)
Mixed == <<command("step", "a"), command("signal", "go"), command("sleep", "t"),
           command("value", "now")>>
Changed == <<command("step", "a"), command("signal", "go"), command("sleep", "u"),
             command("step", "now")>>

(* What the constants of the cfg are; the instances say where they differ. *)
Versioned == <<Mixed, Changed>>
AllGo == [x \in {x1, x2} |-> "go"]

(* One call at a time, that dies twice; a new body, signals, a step that   *)
(* throws and is tried again.                                              *)
Serial == INSTANCE Workflow WITH MaxFaults <- 0

(* Two drives at once, a crash and a failed append.                        *)
Racing == INSTANCE Workflow WITH
  Versions <- 1, Body <- <<Plain>>, Signals <- {}, NameOf <- <<>>,
  FlakySteps <- {}, Retries <- 0, MaxCrashes <- 1, MaxFaults <- 1

(* One call at a time, whose queries fail: signals and their waits.        *)
Failing == INSTANCE Workflow WITH
  Versions <- 1, Body <- <<Waits>>, FlakySteps <- {}, Retries <- 0, MaxCrashes <- 1, MaxFaults <- 2

(* Two drives and a signal.                                                *)
Signalled == INSTANCE Workflow WITH
  Versions <- 1, Body <- <<Waits>>, Signals <- {x1}, NameOf <- [x \in {x1} |-> "go"],
  FlakySteps <- {}, Retries <- 0, MaxCrashes <- 0, MaxFaults <- 0

ASSUME InstancesAssumption ==
  /\ WorkflowAssumption /\ Serial!WorkflowAssumption
  /\ Racing!WorkflowAssumption /\ Failing!WorkflowAssumption /\ Signalled!WorkflowAssumption

InitAll ==
  \/ part = "serial" /\ Serial!Init /\ callers = {w1}
  \/ part = "racing" /\ Racing!Init /\ callers = Workers
  \/ part = "failing" /\ Failing!Init /\ callers = {w1}

OfSerial(A) == part = "serial" /\ A /\ UNCHANGED part
OfRacing(A) == part = "racing" /\ A /\ UNCHANGED part
OfFailing(A) == part = "failing" /\ A /\ UNCHANGED part

SerialNext == OfSerial(Serial!Next)
RacingNext == OfRacing(Racing!Next)
FailingNext == OfFailing(Failing!Next)
NextAll == SerialNext \/ RacingNext \/ FailingNext

(* Workflow!Fairness, of the racing drives.                                *)
FairnessAll ==
  /\ \A w \in {w1, w2} : WF_allVars(OfRacing(Racing!Step(w)))
  /\ SF_allVars(\E w \in {w1, w2} : OfRacing(Racing!Start(w) /\ status = None))
  /\ SF_allVars(\E w \in {w1, w2} : OfRacing(Racing!Tick(w)))
  /\ SF_allVars(\E w \in {w1, w2} : OfRacing(Racing!Resume(w) /\ status # "completed"))

SpecAll == InitAll /\ [][NextAll]_allVars /\ FairnessAll

(* The specification of the two drives and a signal alone.                 *)
SignalledSpec ==
  part = "signalled" /\ Signalled!Init /\ callers = Workers /\ [][Signalled!Next /\ UNCHANGED part]_allVars
-----------------------------------------------------------------------------
(* A workflow that was started completes, through crashes, failed appends  *)
(* and concurrent drives, as long as the host keeps polling.               *)
Finishes == part = "racing" /\ status # None ~> status = "completed"
=============================================================================
