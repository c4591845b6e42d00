------------------------------- MODULE MCSaga -------------------------------
(***************************************************************************)
(* Small instances of Saga for TLC, each explored on its own: `part' says  *)
(* which of them a behaviour is of.  One driver at a time is "serial"; two *)
(* at once, one of which may die, are "racing".                            *)
(***************************************************************************)
EXTENDS Saga

CONSTANTS d1, d2

VARIABLE part

allVars == <<part, vars>>

(* The first step has no undo, the second needs an approval, and this work *)
(* may throw.                                                              *)
First == {1}
Second == {2}
SomeThrow == {<<2, "do">>, <<3, "do">>, <<2, "undo">>}

(* One driver at a time, a crash and two failed queries are what the       *)
(* constants of the cfg stand for; two drivers at once come with no failed *)
(* query.                                                                  *)
Racing == INSTANCE Saga WITH Flaky <- {<<3, "do">>, <<2, "undo">>}, MaxFaults <- 0

ASSUME SagaAssumed == SagaAssumption /\ Racing!SagaAssumption

InitAll ==
  \/ part = "serial" /\ Init /\ drivers = {d1}
  \/ part = "racing" /\ Racing!Init /\ drivers = {d1, d2}

OfSerial(A) == part = "serial" /\ A /\ UNCHANGED part
OfRacing(A) == part = "racing" /\ A /\ UNCHANGED part

SerialNext == OfSerial(Next)
RacingNext == OfRacing(Racing!Next)
NextAll == SerialNext \/ RacingNext

(* Saga!Fairness, of the racing drivers.                                   *)
FairnessAll ==
  /\ \A d \in Drivers : WF_allVars(OfRacing(Racing!Step(d)))
  /\ WF_allVars(\E d \in Drivers : OfRacing(Racing!Run(d)))
  /\ \A k \in Keys : WF_allVars(OfRacing(Racing!Review(k)))

SpecAll == InitAll /\ [][NextAll]_allVars /\ FairnessAll
-----------------------------------------------------------------------------
(* See Saga: a saga gets settled, or is stuck where a call died in a step. *)
Settles == part = "racing" /\ status # None ~> Settled
=============================================================================
