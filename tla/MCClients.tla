------------------------------ MODULE MCClients ------------------------------
(***************************************************************************)
(* What the clients of the API and of the SDK do and see: the timeline of  *)
(* an action, metrics, the Vercel adapter, the hosted SDK and tool loops.  *)
(* As in MCOperations, `part' says which module a behaviour is of.         *)
(***************************************************************************)
EXTENDS Clients, TLC

CONSTANTS c1, c2, k1, k2, k3, none

VARIABLES
  part,
  window, counted, created, outcomes, createdAt, terminalAt, shown, again   \* Metrics

(* A run that ends twice, first and last in any order, one that takes some *)
(* time and one that is created last; in a wide window and in an instant.  *)
Logs(run, type, statuses, times) == [run : {run}, type : {type}, status : statuses, at : times]
LogsOfEach ==
  Logs(k1, "created", {"running", "succeeded"}, {1, 3}) \cup Logs(k1, "transition", {"failed"}, 1 .. 3)
    \cup Logs(k1, "transition", {"succeeded"}, {2}) \cup Logs(k2, "created", {"pending"}, {1})
    \cup Logs(k2, "transition", {"succeeded"}, {1, 3})
    \cup Logs(k3, "created", {"running"}, {1}) \cup Logs(k3, "transition", {"denied"}, {2, 3})
MetricRuns == INSTANCE Metrics WITH
  Loggable <- LogsOfEach, Windows <- {<<1, 3>>, <<2, 2>>}, MaxEvents <- 6, MaxRepeats <- 1,
  events <- counted, runs <- created, log <- shown, repeated <- again

(* A tool that needs an approval and one that may take too long; a wait for*)
(* the approval; three that cost all that may be spent, and three of which *)
(* one may be called; and the first two, which are tried again, over a     *)
(* store whose queries fail and in processes that die.                     *)
Interrupted ==
  [gated |-> {k1}, flaky |-> {}, slow |-> {k2}, cost |-> [k \in {k1, k2, k3} |-> 1], maxCalls |-> 1,
   maxCents |-> 3, attempts |-> 1, mode |-> "interrupt", asked |-> {k1, k2}, invocations |-> 3, mishaps |-> 0]
Waiting ==
  [gated |-> {k1}, flaky |-> {}, slow |-> {}, cost |-> [k \in {k1, k2, k3} |-> 1], maxCalls |-> 1,
   maxCents |-> 3, attempts |-> 1, mode |-> "wait", asked |-> {k1, k2}, invocations |-> 3, mishaps |-> 0]
Spending ==
  [gated |-> {}, flaky |-> {k3}, slow |-> {}, cost |-> [k \in {k1, k2, k3} |-> 2], maxCalls |-> 3,
   maxCents |-> 2, attempts |-> 1, mode |-> "interrupt", asked |-> {k1, k2, k3}, invocations |-> 4, mishaps |-> 0]
Numbered ==
  [gated |-> {}, flaky |-> {}, slow |-> {}, cost |-> [k \in {k1, k2, k3} |-> 1], maxCalls |-> 1,
   maxCents |-> 3, attempts |-> 1, mode |-> "interrupt", asked |-> {k1, k2, k3}, invocations |-> 3, mishaps |-> 0]
Failing ==
  [gated |-> {k1}, flaky |-> {}, slow |-> {k2}, cost |-> [k \in {k1, k2, k3} |-> 1], maxCalls |-> 1,
   maxCents |-> 3, attempts |-> 2, mode |-> "interrupt", asked |-> {k1, k2}, invocations |-> 2, mishaps |-> 1]
FiveSetups == {Interrupted, Waiting, Spending, Numbered, Failing}

(* Work that is let through; and work that is parked or denied.            *)
LetThrough == [gated |-> {}, denied |-> {}, flaky |-> {k2}, retries |-> 1, calls |-> 3]
Held == [gated |-> {k1}, denied |-> {k2}, flaky |-> {k1}, retries |-> 0, calls |-> 4]
TwoDeployments == {LetThrough, Held}

(* Three agents that call the same tools over three surfaces.              *)
Chat(id, name, fields) ==
  [id |-> id, function |-> [name |-> name, arguments |-> [fields |-> fields]]]
Responses(id, name, fields) == [call_id |-> id, name |-> name, arguments |-> [fields |-> fields]]
SurfaceOfEach == ("a1" :> "functions") @@ ("a2" :> "graph") @@ ("a3" :> "mcp")
ScopeOfEach == ("a1" :> none) @@ ("a2" :> none) @@ ("a3" :> "global")
ab == <<"a", "b">>
ba == <<"b", "a">>
BatchOfEach ==
  ("a1" :> <<Chat("1", "send", ab), Chat("2", "refund", ab), Chat("3", "send", ba), Chat("4", "other", ab)>>) @@
  ("a2" :> <<Responses("1", "refund", ba), Responses("2", "lookup", ab), Responses("3", "send", ab),
             Responses("4", "drop", ab), Responses("5", "refund", <<"a">>)>>) @@
  ("a3" :> <<Chat("1", "lookup", ab), Chat("2", "refund", <<"a">>), Chat("3", "drop", ab)>>)
PolicyOfEach ==
  ("send" :> "allow") @@ ("refund" :> "require_approval") @@ ("lookup" :> "allow") @@ ("drop" :> "deny")

ASSUME ClientsAssumed ==
  ClientsAssumption /\ MetricRuns!MetricsAssumption

timelineVars ==
  <<bus, stamped, updatedAt, writer, log, undelivered, losses, repeats, applied, clashed, putOff>>
countVars == <<window, counted, created, outcomes, createdAt, terminalAt, shown, again>>
adapterVars == <<setup, action, approval, call, strays, made, mishaps, toolEffects, excuses>>
loopVars == <<ledger, agent, failures, rounds, worked>>
readVars == <<timelineVars, countVars>>
callVars == <<adapterVars, hostedVars, loopVars>>
allVars == <<part, readVars, callVars>>

InitAll ==
  /\ part \in {"timeline", "metrics", "adapter", "hosted", "loop"}
  /\ History!Init /\ MetricRuns!Init
  /\ Adapter!Init /\ Init /\ Loop!Init
  /\ (part # "timeline" => bus = "process") /\ (part # "metrics" => window = <<2, 2>>)
  /\ (part # "adapter" => setup = Spending) /\ (part # "hosted" => deployed = Held)

OfReads(p, A) == part = p /\ A /\ UNCHANGED <<part, callVars>>
OfCalls(p, A) == part = p /\ A /\ UNCHANGED <<part, readVars>>

TimelineNext == OfReads("timeline", History!Next /\ UNCHANGED countVars)
MetricsNext == OfReads("metrics", MetricRuns!Next /\ UNCHANGED timelineVars)
AdapterNext == OfCalls("adapter", Adapter!Next /\ UNCHANGED <<hostedVars, loopVars>>)
HostedNext == OfCalls("hosted", Next /\ UNCHANGED <<adapterVars, loopVars>>)
LoopNext == OfCalls("loop", Loop!Next /\ UNCHANGED <<adapterVars, hostedVars>>)

NextAll == TimelineNext \/ MetricsNext \/ AdapterNext \/ HostedNext \/ LoopNext

SpecAll == InitAll /\ [][NextAll]_allVars

-----------------------------------------------------------------------------
(* See Metrics: what is computed from a log does not depend on the order in*)
(* which its rows were appended, and percentiles are quantiles.            *)
MetricsAgree == part = "metrics" => MetricRuns!MetricsAgree
=============================================================================
