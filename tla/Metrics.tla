------------------------------- MODULE Metrics -------------------------------
(***************************************************************************)
(* computeMetrics() and percentile() of actionEvents.ts: the loop over the *)
(* rows of the log, one row a step, and what is made of its maps after any *)
(* of them.                                                                *)
(*                                                                         *)
(* The rows come in the order of their ids, which is any order of their    *)
(* times, and one may be there twice (see Timeline).  ISO strings of one   *)
(* format compare as the times they stand for.  The error rate and the     *)
(* average are arithmetic on these results and left out.                   *)
(***************************************************************************)
EXTENDS Integers, Sequences, FiniteSets, FiniteSetsExt, SequencesExt, TLC

CONSTANTS
  Loggable,         \* the events that logs are made of: run, type, status and at
  Windows,          \* pairs of since and until
  MaxEvents,        \* bound: rows of a log
  MaxRepeats        \* bound: rows that are there twice

Outcomes == {"succeeded", "failed", "denied", "rejected"}
Statuses == {"pending", "running"} \cup Outcomes

Runs == {e.run : e \in Loggable}
MetricsAssumption ==
  /\ \A e \in Loggable : e.type \in {"created", "transition"} /\ e.status \in Statuses /\ e.at \in Nat
  /\ Windows \subseteq Nat \X Nat /\ {MaxEvents, MaxRepeats} \subseteq Nat

VARIABLES
  window,
  events, runs, outcomes,       \* counts
  createdAt, terminalAt,        \* maps from runs to times
  log, repeated                 \* history: the rows so far, and those that came twice

metricsVars == <<window, events, runs, outcomes, createdAt, terminalAt, log, repeated>>

Empty == <<>>

Init ==
  /\ window \in Windows
  /\ events = 0 /\ runs = 0 /\ outcomes = [s \in Outcomes |-> 0]
  /\ createdAt = Empty /\ terminalAt = Empty
  /\ log = {} /\ repeated = {}

-----------------------------------------------------------------------------
(* A faulty InWindow: the end of the window is not part of it.             *)
InOpenWindow(e) == window[1] <= e.at /\ e.at < window[2]

InWindow(e) == window[1] <= e.at /\ e.at <= window[2]

Earliest(map, run, at) == IF run \in DOMAIN map /\ map[run] <= at THEN map ELSE (run :> at) @@ map

(* A faulty Latest: the last row wins, as if rows came in time order.      *)
LastWins(map, run, at) == (run :> at) @@ map

Latest(map, run, at) == IF run \in DOMAIN map /\ map[run] >= at THEN map ELSE (run :> at) @@ map

Count(e) ==
  IF InWindow(e)
  THEN /\ events' = events + 1
       /\ IF e.type = "created"
          THEN runs' = runs + 1 /\ createdAt' = Earliest(createdAt, e.run, e.at)
          ELSE UNCHANGED <<runs, createdAt>>
       /\ IF e.status \in Outcomes
          THEN /\ outcomes' = [outcomes EXCEPT ![e.status] = @ + 1]
               /\ terminalAt' = Latest(terminalAt, e.run, e.at)
          ELSE UNCHANGED <<outcomes, terminalAt>>
  ELSE UNCHANGED <<events, runs, outcomes, createdAt, terminalAt>>

(* The next row.  A run has one event of its creation.                     *)
Row(e) ==
  /\ Cardinality(log) + Cardinality(repeated) < MaxEvents
  /\ Count(e)
  /\ \/ /\ e \notin log /\ log' = log \cup {e}
        /\ e.type = "created" => \A d \in log : d.type = "created" => d.run # e.run
        /\ UNCHANGED repeated
     \/ /\ e \in log \ repeated /\ Cardinality(repeated) < MaxRepeats
        /\ repeated' = repeated \cup {e}
        /\ UNCHANGED log
  /\ UNCHANGED window

Next == \E e \in Loggable : Row(e)

Spec == Init /\ [][Next]_metricsVars
-----------------------------------------------------------------------------
(* After the last row.  A creation that was read again after an outcome, of*)
(* a run that was retried, is later than that outcome: then, if no later   *)
(* one is within the window, there is no latency.                          *)
Measured == {run \in DOMAIN createdAt \cap DOMAIN terminalAt : terminalAt[run] >= createdAt[run]}

(* A faulty Sorted: there is no sort().                                    *)
Unsorted(durations) == durations

Sorted(durations) == SortSeq(durations, <)

Durations ==
  LET measured == SetToSeq(Measured)
  IN Sorted([i \in DOMAIN measured |-> terminalAt[measured[i]] - createdAt[measured[i]]])

(* percentile(): 0-based rank floor(p / 100 * n).                          *)
Percentile(sorted, p) == sorted[1 + Min({Len(sorted) - 1, (p * Len(sorted)) \div 100})]

-----------------------------------------------------------------------------
Within == {e \in log : e.at \in window[1] .. window[2]}
Twice(S) == Cardinality(S) + Cardinality(S \cap repeated)
Creations == {e \in Within : e.type = "created"}
Ends == {e \in Within : e.status \in Outcomes}
TimesOf(run, S) == {e.at : e \in {d \in S : d.run = run}}

(* The counts are of the rows within the window, both ends included, and a *)
(* row that is there twice counts twice.                                   *)
Counted ==
  /\ events = Twice(Within) /\ runs = Twice(Creations)
  /\ \A s \in Outcomes : outcomes[s] = Twice({e \in Ends : e.status = s})

(* The latencies do not depend on the order of the rows nor on what is     *)
(* there twice: of each run that was created and ended in the window, from *)
(* its creation to its last outcome, unless that is before it.             *)
LatenciesOfRuns ==
  LET latency(run) == Max(TimesOf(run, Ends)) - Min(TimesOf(run, Creations))
      ended == {run \in Runs : TimesOf(run, Creations) # {} /\ TimesOf(run, Ends) # {}}
  IN \A ms \in {latency(run) : run \in ended} \cup ToSet(Durations) :
       Cardinality({i \in DOMAIN Durations : Durations[i] = ms}) =
         Cardinality({run \in ended : latency(run) = ms /\ ms >= 0})

AtMost(ms) == Cardinality({i \in DOMAIN Durations : Durations[i] <= ms})
Below(ms) == Cardinality({i \in DOMAIN Durations : Durations[i] < ms})

(* p50 and p95 are quantiles of the latencies, the upper one where there is*)
(* a choice: no more than p% are below and more than p% are at most it.    *)
Quantiles ==
  Durations # <<>> => \A p \in {50, 95} :
    LET ms == Percentile(Durations, p)
    IN 100 * Below(ms) <= p * Len(Durations) /\ 100 * AtMost(ms) > p * Len(Durations)

(* What a reader of the metrics may rely on.                               *)
MetricsAgree == Counted /\ LatenciesOfRuns /\ Quantiles
=============================================================================
