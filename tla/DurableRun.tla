----------------------------- MODULE DurableRun -----------------------------
(***************************************************************************)
(* What the workflow engine of packages/core promises for one workflow:    *)
(* each command of its body commits once, in order, with a value that      *)
(* never changes after ("completed work never runs twice"), and the result *)
(* is computed from exactly the committed values.  Nothing is said of      *)
(* drives, replays, timers, signals or crashes.                            *)
(***************************************************************************)
EXTENDS Naturals, Sequences

CONSTANT Nothing    \* no result yet

VARIABLES
  committed,        \* the values of the committed commands, in order
  result            \* the values the result was computed from, or Nothing

vars == <<committed, result>>

Init ==
  /\ committed = <<>>
  /\ result = Nothing

(* The next command commits, with whatever value it has.                   *)
Commit ==
  /\ result = Nothing
  /\ Len(committed') = Len(committed) + 1
  /\ SubSeq(committed', 1, Len(committed)) = committed
  /\ UNCHANGED result

Finish ==
  /\ result = Nothing
  /\ result' = committed
  /\ UNCHANGED committed

Next == Commit \/ Finish

Spec == Init /\ [][Next]_vars
=============================================================================
