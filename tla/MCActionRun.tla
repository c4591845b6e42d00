---------------------------- MODULE MCActionRun ----------------------------
(***************************************************************************)
(* Small instances of ActionRun for TLC, each explored on its own: `part'  *)
(* says which of them a behaviour is of.  The module extends ActionRun     *)
(* with callers that race and die; in Settling they do not die, but        *)
(* records of success fail, and limits ask for an approval.                *)
(***************************************************************************)
EXTENDS ActionRun, TLC

CONSTANTS c1, c2, r1, k1, k2, k3, k4, none

VARIABLES
  part,
  sRow, sAged, sCall, sLeft, sReviewing, sDone, sTold, sCleared   \* Settling's

UnitCost == [k \in Keys |-> 1]
MixedCost == [k \in Keys |-> IF k = k1 THEN 1 ELSE 2]

(* One key is denied, one is gated and flaky; one retry.                   *)
Settling == INSTANCE ActionRun WITH
  row <- sRow, aged <- sAged, call <- sCall, left <- sLeft, reviewing <- sReviewing,
  done <- sDone, told <- sTold, cleared <- sCleared,
  Callers <- {c1, c2}, Reviewers <- {r1}, Keys <- {k1, k2, k3}, NoKey <- none,
  DenyKeys <- {k1}, ApprovalKeys <- {k2}, FlakyKeys <- {k2}, Cost <- [k \in {k1, k2, k3} |-> 1],
  Budget <- 3, Limit <- 2, OnExceed <- "require_approval", Retries <- 1, MaxCalls <- 2,
  Windows <- FALSE, Crashes <- FALSE, RecordFaults <- TRUE

sVars == <<sRow, sAged, sCall, sLeft, sReviewing, sDone, sTold, sCleared>>
allVars == <<part, vars, sVars>>

InitAll == part \in {"racing", "settling"} /\ Init /\ Settling!Init

OfRacing(A) == part = "racing" /\ A /\ UNCHANGED <<part, sVars>>
OfSettling(A) == part = "settling" /\ A /\ UNCHANGED <<part, vars>>

RacingNext == OfRacing(Next)
SettlingNext == OfSettling(Settling!Next)
NextAll == RacingNext \/ SettlingNext

(* ActionRun!Fairness, of the callers that settle.                         *)
FairnessAll == \A c \in {c1, c2} : WF_allVars(OfSettling(Settling!Step(c)))

SpecAll == InitAll /\ [][NextAll]_allVars /\ FairnessAll

(* The racing callers alone.                                               *)
RacingSpec == InitAll /\ part = "racing" /\ [][RacingNext]_allVars
-----------------------------------------------------------------------------
(* See ActionRun: no row is left pending or running for ever.              *)
RowsSettle ==
  \A k \in {k1, k2, k3} :
    sRow[k] \in {"pending", "running"} ~> sRow[k] \notin {"pending", "running"}
=============================================================================
