----------------------------- MODULE OncePerKey -----------------------------
(***************************************************************************)
(* What run() of packages/core promises for one idempotency key: the real, *)
(* side-effecting work "runs AT MOST ONCE across duplicate calls"          *)
(* (run.ts:33), and a call that returns a result returns the result of     *)
(* that one execution.                                                     *)
(* Nothing is said of how: there is no ledger, no caller and no policy.    *)
(***************************************************************************)
EXTENDS Naturals

CONSTANT Keys       \* the idempotency keys the promise is made for

VARIABLES
  done,             \* how often the work of each key has completed
  told              \* the keys for which some call has returned a result

vars == <<done, told>>

Init ==
  /\ done = [k \in Keys |-> 0]
  /\ told = {}

(* The work of a key completes, for the first and only time.               *)
Perform(k) ==
  /\ done[k] = 0
  /\ done' = [done EXCEPT ![k] = 1]
  /\ UNCHANGED told

(* A call returns a result, which somebody must have produced before.      *)
Tell(k) ==
  /\ done[k] = 1
  /\ told' = told \cup {k}
  /\ UNCHANGED done

Next == \E k \in Keys : Perform(k) \/ Tell(k)

Spec == Init /\ [][Next]_vars
=============================================================================
