--------------------------- MODULE CircuitBreaker ---------------------------
(***************************************************************************)
(* resilience.ts: the breaker around one dependency, Postgres (index.ts)   *)
(* or Paddle (wiring.ts).  Callers go through exec() at the same time, and *)
(* a call that was started in one state of the breaker may end in another. *)
(*                                                                         *)
(* Time is relative: age is how long ago the breaker opened, followed up   *)
(* to the cooldown, after which more of it makes no difference; failures   *)
(* are followed up to their threshold for the same reason.                 *)
(***************************************************************************)
EXTENDS Naturals, FiniteSets

CONSTANTS
  Callers,          \* concurrent users of the dependency
  FailureThreshold,
  SuccessThreshold,
  Cooldown,         \* cooldownMs, in ticks
  Second            \* ticks in a second, which retryAfterSeconds() rounds to

BreakerAssumption ==
  /\ IsFiniteSet(Callers) /\ Cooldown \in Nat
  /\ {FailureThreshold, SuccessThreshold, Second} \subseteq Nat \ {0}

VARIABLES
  state,            \* "closed", "open" or "half_open"
  failures,
  successes,
  age,              \* now() - openedAt
  call,             \* per caller: "idle", or how the call under way will end
  healthy,          \* whether calls of the dependency that start now succeed
  \* history variables
  told,             \* callers refused since the breaker last opened
  wait              \* per caller: what is left of the retry-after it was told

breakerVars == <<state, failures, successes, age, call, healthy, told, wait>>

Init ==
  /\ state = "closed"
  /\ failures = 0 /\ successes = 0
  /\ age = 0
  /\ call = [c \in Callers |-> "idle"]
  /\ healthy = TRUE
  /\ told = {}
  /\ wait = [c \in Callers |-> 0]

-----------------------------------------------------------------------------
(* A faulty Transition: without its first line.                            *)
EagerTransition(next) ==
  /\ state' = next
  /\ successes' = 0
  /\ age' = IF next = "open" THEN 0 ELSE age
  /\ told' = IF next = "open" /\ state # "open" THEN {} ELSE told

(* transition(next), but for the failures: nothing when the state stays.   *)
(* As the breaker opens anew, what callers were told before is void.       *)
Transition(next) ==
  IF next = state
  THEN UNCHANGED <<state, successes, age, told>>
  ELSE /\ state' = next
       /\ successes' = 0
       /\ age' = IF next = "open" THEN 0 ELSE age
       /\ told' = IF next = "open" THEN {} ELSE told

(* retryAfterSeconds(), in ticks: what is left, rounded up to a second.    *)
RetryAfter ==
  LET seconds == (Cooldown - age + Second - 1) \div Second
  IN  Second * (IF seconds < 1 THEN 1 ELSE seconds)

(* exec() of an open breaker that has not cooled down: a 503.              *)
Refuse(c) ==
  /\ call[c] = "idle"
  /\ state = "open" /\ age < Cooldown
  /\ told' = told \cup {c}
  /\ wait' = [wait EXCEPT ![c] = RetryAfter]
  /\ UNCHANGED <<state, failures, successes, age, call, healthy>>

(* A faulty Admit: an open breaker lets no trial through.                  *)
AdmitClosedOnly(c) ==
  /\ call[c] = "idle"
  /\ state # "open"
  /\ call' = [call EXCEPT ![c] = IF healthy THEN "succeeds" ELSE "fails"]
  /\ UNCHANGED <<state, failures, successes, age, healthy, told, wait>>

(* exec() otherwise: an open breaker goes half open, and fn() starts.      *)
Admit(c) ==
  /\ call[c] = "idle"
  /\ state = "open" => age >= Cooldown
  /\ Transition(IF state = "open" THEN "half_open" ELSE state)
  /\ call' = [call EXCEPT ![c] = IF healthy THEN "succeeds" ELSE "fails"]
  /\ UNCHANGED <<failures, healthy, wait>>

(* onSuccess().                                                            *)
Succeed(c) ==
  /\ call[c] = "succeeds"
  /\ call' = [call EXCEPT ![c] = "idle"]
  /\ \/ /\ state = "half_open" /\ successes + 1 >= SuccessThreshold
        /\ Transition("closed")
        /\ failures' = 0
     \/ /\ state = "half_open" /\ successes + 1 < SuccessThreshold
        /\ successes' = successes + 1
        /\ UNCHANGED <<state, failures, age, told>>
     \/ /\ state # "half_open"
        /\ failures' = 0
        /\ UNCHANGED <<state, successes, age, told>>
  /\ UNCHANGED <<healthy, wait>>

(* onFailure().                                                            *)
Fail(c) ==
  /\ call[c] = "fails"
  /\ call' = [call EXCEPT ![c] = "idle"]
  /\ \/ /\ state = "half_open"
        /\ Transition("open")
        /\ UNCHANGED failures
     \/ /\ state # "half_open" /\ failures + 1 >= FailureThreshold
        /\ failures' = FailureThreshold
        /\ Transition("open")
     \/ /\ state # "half_open" /\ failures + 1 < FailureThreshold
        /\ failures' = failures + 1
        /\ UNCHANGED <<state, successes, age, told>>
  /\ UNCHANGED <<healthy, wait>>

(* External: the clock, and the dependency that falls ill and recovers.    *)
Tick ==
  /\ age' = IF age < Cooldown THEN age + 1 ELSE age
  /\ wait' = [c \in Callers |-> IF wait[c] > 0 THEN wait[c] - 1 ELSE 0]
  /\ UNCHANGED <<state, failures, successes, call, healthy, told>>

Turn ==
  /\ healthy' = ~healthy
  /\ UNCHANGED <<state, failures, successes, age, call, told, wait>>

Exec(c) == Refuse(c) \/ Admit(c) \/ Succeed(c) \/ Fail(c)

Next == (\E c \in Callers : Exec(c)) \/ Tick \/ Turn

Spec == Init /\ [][Next]_breakerVars

-----------------------------------------------------------------------------
TypeOK ==
  /\ state \in {"closed", "open", "half_open"}
  /\ failures \in 0 .. FailureThreshold
  /\ successes \in 0 .. SuccessThreshold - 1
  /\ age \in 0 .. Cooldown
  /\ call \in [Callers -> {"idle", "succeeds", "fails"}]
  /\ healthy \in BOOLEAN
  /\ told \subseteq Callers
  /\ wait \in [Callers -> Nat]

(* A caller that was refused and has waited the retryAfter of its 503 is   *)
(* not refused again unless the breaker opened anew meanwhile: failures of *)
(* calls that were started earlier do not prolong the cooldown.            *)
RetryAfterHonest ==
  \A c \in told : state = "open" /\ wait[c] = 0 => age >= Cooldown
=============================================================================
