-------------------------- MODULE OperationsProofs --------------------------
(* Proofs about the components of Operations, for every number of callers, *)
(* processes, events and subscribers.  They share no state, so each has an *)
(* inductive invariant of its own.                                         *)
EXTENDS Operations, NumberLemmas
-----------------------------------------------------------------------------
(* The circuit breaker.                                                    *)

(* The retry-after covers what is left of the cooldown.                    *)
LEMMA RetryAfterCovers ==
  ASSUME BreakerAssumption, age \in 0 .. Cooldown
  PROVE  RetryAfter \in Nat /\ RetryAfter >= Cooldown - age
<1> DEFINE left == Cooldown - age
           seconds == (left + Second - 1) \div Second
<1>1. left \in Nat /\ Second \in Nat \ {0}  BY DEF BreakerAssumption
<1>2. seconds \in Nat /\ Second * seconds > left + Second - 1 - Second
  BY <1>1, SMT
<1>3. RetryAfter = Second * (IF seconds < 1 THEN 1 ELSE seconds)  BY DEF RetryAfter
<1>4. Second * seconds >= left  BY <1>1, <1>2
<1> HIDE DEF seconds, left
<1>5. CASE seconds < 1
  <2>1. seconds = 0  BY <1>2, <1>5
  <2> QED  BY <1>1, <1>3, <1>4, <1>5, <2>1 DEF left
<1>6. CASE ~(seconds < 1)  BY <1>1, <1>2, <1>3, <1>4, <1>6 DEF left
<1> QED  BY <1>5, <1>6

(* The inductive invariant: whoever was refused has at least as long to    *)
(* wait as the breaker that refused it.                                    *)
Waits == \A c \in told : state = "open" => wait[c] >= Cooldown - age

BreakerInv == TypeOK /\ Waits

LEMMA TransitionSafe ==
  ASSUME BreakerAssumption, BreakerInv, NEW next \in {"closed", "open", "half_open"},
         Transition(next), wait' = wait
  PROVE  /\ state' \in {"closed", "open", "half_open"}
         /\ successes' \in 0 .. SuccessThreshold - 1
         /\ age' \in 0 .. Cooldown
         /\ told' \subseteq Callers
         /\ Waits'
  BY DEF BreakerAssumption, BreakerInv, TypeOK, Waits, Transition

LEMMA Inductive ==
  ASSUME BreakerAssumption
  PROVE  /\ Init => BreakerInv
         /\ BreakerInv /\ [Next]_breakerVars => BreakerInv'
         /\ BreakerInv => RetryAfterHonest
<1>1. Init => BreakerInv  BY DEF BreakerAssumption, Init, BreakerInv, TypeOK, Waits
<1>2. ASSUME BreakerInv, [Next]_breakerVars PROVE BreakerInv'
  <2> USE <1>2 DEF BreakerInv
  <2>1. ASSUME NEW c \in Callers, Refuse(c) PROVE BreakerInv'
    <3>1. RetryAfter \in Nat /\ RetryAfter >= Cooldown - age
      BY RetryAfterCovers DEF TypeOK
    <3> QED  BY <2>1, <3>1 DEF Refuse, TypeOK, Waits
  <2>2. ASSUME NEW c \in Callers, Admit(c) PROVE BreakerInv'
    <3>1. call' \in [Callers -> {"idle", "succeeds", "fails"}]
      BY <2>2 DEF Admit, TypeOK
    <3>2. (IF state = "open" THEN "half_open" ELSE state) \in {"closed", "open", "half_open"}
      BY DEF TypeOK
    <3> QED  BY <2>2, <3>1, <3>2, TransitionSafe DEF Admit, TypeOK
  <2>3. ASSUME NEW c \in Callers, Succeed(c) PROVE BreakerInv'
    <3>1. call' \in [Callers -> {"idle", "succeeds", "fails"}]
      BY <2>3 DEF Succeed, TypeOK
    <3>2. CASE state = "half_open" /\ successes + 1 >= SuccessThreshold
      BY <2>3, <3>1, <3>2, TransitionSafe DEF Succeed, TypeOK, BreakerAssumption
    <3>3. CASE ~(state = "half_open" /\ successes + 1 >= SuccessThreshold)
      BY <2>3, <3>1, <3>3 DEF Succeed, TypeOK, Waits, BreakerAssumption
    <3> QED  BY <3>2, <3>3
  <2>4. ASSUME NEW c \in Callers, Fail(c) PROVE BreakerInv'
    <3>1. call' \in [Callers -> {"idle", "succeeds", "fails"}]
      BY <2>4 DEF Fail, TypeOK
    <3>2. failures' \in 0 .. FailureThreshold
      BY <2>4 DEF Fail, TypeOK, BreakerAssumption
    <3>3. CASE Transition("open")
      BY <2>4, <3>1, <3>2, <3>3, TransitionSafe DEF Fail, TypeOK
    <3>4. CASE ~Transition("open")
      BY <2>4, <3>1, <3>2, <3>4 DEF Fail, TypeOK, Waits
    <3> QED  BY <3>3, <3>4
  <2>5. CASE Tick
    <3>1. TypeOK'  BY <2>5 DEF Tick, TypeOK, BreakerAssumption
    <3>2. Waits'
      BY <2>5 DEF Tick, TypeOK, Waits, BreakerAssumption
    <3> QED  BY <3>1, <3>2
  <2>6. CASE Turn  BY <2>6 DEF Turn, TypeOK, Waits
  <2>7. CASE UNCHANGED breakerVars  BY <2>7 DEF breakerVars, TypeOK, Waits
  <2> QED  BY <2>1, <2>2, <2>3, <2>4, <2>5, <2>6, <2>7 DEF Next, Exec
<1>3. BreakerInv => RetryAfterHonest
  BY DEF BreakerInv, TypeOK, Waits, RetryAfterHonest, BreakerAssumption
<1> QED  BY <1>1, <1>2, <1>3

(* Whoever waits the retryAfter of its 503 is not refused for the same     *)
(* opening of the breaker (resilience.ts:82, 91).                          *)
THEOREM RetryAfterHolds ==
  ASSUME BreakerAssumption
  PROVE  Spec => [](TypeOK /\ RetryAfterHonest)
<1>1. Init => BreakerInv  BY Inductive
<1>2. BreakerInv /\ [Next]_breakerVars => BreakerInv'  BY Inductive
<1>3. BreakerInv => TypeOK /\ RetryAfterHonest  BY Inductive DEF BreakerInv
<1> QED  BY <1>1, <1>2, <1>3, PTL DEF Spec

-----------------------------------------------------------------------------
(* The rate limiter.                                                       *)

Rows == [1 .. Window -> Nat]
Buckets == [count : Nat, left : 0 .. Window]

(* What a row of the history adds up to up to an age.                      *)
UpTo(row, m) == SumFunctionOnSet(row, 1 .. m)

(* What the open window of a bucket has let through.                       *)
Given(b, max) == IF b.left = 0 THEN 0 ELSE IF b.count < max THEN b.count ELSE max

(* Since the tick in which it opened a window let less through than in all,*)
(* for its first request was in that tick; with that tick it is all of it. *)
Fits(b, row, max) ==
  b.left > 0 =>
    /\ UpTo(row, Window - b.left) < Given(b, max)
    /\ UpTo(row, Window - b.left + 1) >= Given(b, max)

(* What the last window's length saw beyond the open window: less than a   *)
(* limit, unless a restart has opened windows too early.                   *)
Before(b, row, max) ==
  LET beyond == UpTo(row, Window) - Given(b, max)
  IN IF beyond > max - 1 THEN beyond ELSE max - 1

LEMMA UpToAdds ==
  ASSUME Window \in Nat, NEW row \in Rows, NEW m \in 0 .. Window
  PROVE  /\ UpTo(row, m) \in Nat
         /\ m = 0 => UpTo(row, m) = 0
         /\ m > 0 => UpTo(row, m - 1) \in Nat /\ UpTo(row, m) = UpTo(row, m - 1) + row[m]
<1> DEFINE S == 1 .. m
<1>0. IsFiniteSet(S)
  <2>1. 1 \in Int /\ m \in Int  OBVIOUS
  <2> QED  BY <2>1, FS_Interval
<1>1. IsFiniteSet(S) /\ \A x \in S : row[x] \in Nat  BY <1>0 DEF Rows
<1>2. m > 0 => m \in S /\ S \ {m} = 1 .. m - 1 /\ row[m] \in Nat  BY DEF Rows
<1>3. m = 0 => S = {}  OBVIOUS
<1> HIDE DEF S
<1>4. /\ SumFunctionOnSet(row, S) \in Nat
      /\ S = {} => SumFunctionOnSet(row, S) = 0
      /\ \A k \in S : /\ SumFunctionOnSet(row, S \ {k}) \in Nat
                      /\ SumFunctionOnSet(row, S) = row[k] + SumFunctionOnSet(row, S \ {k})
  BY <1>1, SumAdds
<1>5. UpTo(row, m) = SumFunctionOnSet(row, S)  BY DEF UpTo, S
<1>6. m > 0 => /\ UpTo(row, m - 1) = SumFunctionOnSet(row, S \ {m})
               /\ UpTo(row, m - 1) \in Nat
               /\ UpTo(row, m) = row[m] + UpTo(row, m - 1)
  BY <1>2, <1>4, <1>5 DEF UpTo
<1>7. m > 0 => row[m] + UpTo(row, m - 1) = UpTo(row, m - 1) + row[m]  BY <1>2, <1>6
<1> QED  BY <1>3, <1>4, <1>5, <1>6, <1>7

LEMMA UpToGrows ==
  ASSUME Window \in Nat, NEW row \in Rows, NEW m \in 0 .. Window
  PROVE  UpTo(row, m) <= UpTo(row, Window)
<1>1. IsFiniteSet(1 .. Window) /\ IsFiniteSet(1 .. m)  BY FS_Interval
<1>2. (\A x \in 1 .. Window : row[x] \in Nat) /\ \A x \in 1 .. m : row[x] \in Nat  BY DEF Rows
<1>3. /\ UpTo(row, m) = Cardinality(Units(row, 1 .. m))
      /\ UpTo(row, Window) = Cardinality(Units(row, 1 .. Window))
  BY <1>1, <1>2, SumCounts DEF UpTo
<1>4. Units(row, 1 .. m) \subseteq Units(row, 1 .. Window)  BY DEF Units
<1>5. IsFiniteSet(Units(row, 1 .. Window))  BY <1>1, <1>2, UnitsFinite
<1> QED  BY <1>3, <1>4, <1>5, FS_Subset

(* A request more in the tick that is.                                     *)
LEMMA UpToHit ==
  ASSUME Window \in Nat, NEW row \in Rows, NEW m \in 1 .. Window,
         NEW new, new = [row EXCEPT ![1] = @ + 1]
  PROVE  new \in Rows /\ UpTo(new, m) = UpTo(row, m) + 1
<1> DEFINE S == 1 .. m
           R == S \ {1}
<1>1. new \in Rows /\ new[1] = row[1] + 1 /\ row[1] \in Nat /\ \A x \in R : new[x] = row[x]
  BY DEF Rows
<1>0. IsFiniteSet(S) /\ 1 \in S
  <2>1. 1 \in Int /\ m \in Int /\ 1 \in S  OBVIOUS
  <2> QED  BY <2>1, FS_Interval
<1>2. IsFiniteSet(S) /\ 1 \in S /\ \A x \in S : row[x] \in Nat /\ new[x] \in Nat
  BY <1>0, <1>1 DEF Rows
<1>3. IsFiniteSet(R) /\ \A x \in R : row[x] \in Nat /\ row[x] = new[x]
  BY <1>1, <1>2, FS_RemoveElement
<1> HIDE DEF S
<1>4. SumFunctionOnSet(row, R) = SumFunctionOnSet(new, R)
  <2> HIDE DEF R
  <2> QED  BY <1>3, SumSame
<1>5. SumFunctionOnSet(row, S) = row[1] + SumFunctionOnSet(row, R) /\ SumFunctionOnSet(row, R) \in Nat
  BY <1>2, SumAdds
<1>6. SumFunctionOnSet(new, S) = new[1] + SumFunctionOnSet(new, R)
  BY <1>2, SumAdds
<1> DEFINE r == row[1]
           n == SumFunctionOnSet(row, R)
<1>7. r \in Nat /\ n \in Nat  BY <1>1, <1>5
<1>8. SumFunctionOnSet(row, S) = r + n /\ SumFunctionOnSet(new, S) = r + 1 + n
  BY <1>1, <1>4, <1>5, <1>6
<1> HIDE DEF r, n
<1>9. r + 1 + n = r + n + 1  BY <1>7
<1> QED  BY <1>1, <1>8, <1>9 DEF UpTo, S

(* A tick later, all is one older.                                         *)
LEMMA UpToTick ==
  ASSUME Window \in Nat \ {0}, NEW row \in Rows,
         NEW new, new = [a \in 1 .. Window |-> IF a = 1 THEN 0 ELSE row[a - 1]]
  PROVE  new \in Rows /\ \A m \in 1 .. Window : UpTo(new, m) = UpTo(row, m - 1)
<1>1. new \in Rows
  <2>1. \A a \in 1 .. Window : a # 1 => a - 1 \in 1 .. Window  OBVIOUS
  <2> QED  BY <2>1 DEF Rows
<1> DEFINE bad == {m \in 1 .. Window : UpTo(new, m) # UpTo(row, m - 1)}
<1>2. SUFFICES ASSUME bad # {} PROVE FALSE  BY <1>1
<1>3. bad \in SUBSET Nat  OBVIOUS
<1>4. PICK m \in bad : \A k \in bad : m <= k  BY <1>2, <1>3, Least
<1>5. m \in 1 .. Window /\ UpTo(new, m) # UpTo(row, m - 1)  OBVIOUS
<1>6. UpTo(new, m) = UpTo(new, m - 1) + new[m] /\ UpTo(new, m - 1) \in Nat
  <2> HIDE DEF bad
  <2>1. m \in 0 .. Window /\ m > 0  BY <1>5
  <2> QED  BY <1>1, <2>1, UpToAdds
<1>7. UpTo(new, 0) = 0 /\ UpTo(row, 0) = 0
  <2>1. 0 \in 0 .. Window  OBVIOUS
  <2> QED  BY <1>1, <2>1, UpToAdds
<1>8. CASE m = 1
  <2>1. new[m] = 0 /\ m - 1 = 0  BY <1>8
  <2> QED  BY <1>5, <1>6, <1>7, <2>1
<1>9. CASE m # 1
  <2> HIDE DEF bad
  <2>1. m - 1 \in 1 .. Window /\ ~(m <= m - 1)  BY <1>5, <1>9
  <2>2. m - 1 \notin bad  BY <1>4, <2>1
  <2>3. UpTo(new, m - 1) = UpTo(row, (m - 1) - 1)  BY <2>1, <2>2 DEF bad
  <2>4. UpTo(row, m - 1) = UpTo(row, (m - 1) - 1) + row[m - 1]
    <3> DEFINE k == m - 1
    <3>1. k \in 0 .. Window /\ k > 0  BY <2>1
    <3> HIDE DEF k
    <3>2. UpTo(row, k) = UpTo(row, k - 1) + row[k]  BY <3>1, UpToAdds
    <3> QED  BY <3>2 DEF k
  <2>5. new[m] = row[m - 1]  BY <1>5, <1>9
  <2> QED  BY <1>5, <1>6, <2>3, <2>4, <2>5
<1> QED  BY <1>8, <1>9

(* One more request fits.                                                  *)
LEMMA HitFits ==
  ASSUME Window \in Nat \ {0}, NEW max \in Nat \ {0}, NEW row \in Rows, NEW b \in Buckets,
         Fits(b, row, max), NEW c, c = Limiter!Hit(b, max),
         NEW new, new = IF Limiter!Admitted(c, max) THEN [row EXCEPT ![1] = @ + 1] ELSE row
  PROVE  /\ c \in Buckets /\ new \in Rows
         /\ Fits(c, new, max) /\ Before(c, new, max) = Before(b, row, max)
<1>0. b.count \in Nat /\ b.left \in 0 .. Window  BY DEF Buckets
<1>1. /\ c \in Buckets /\ c.count \in Nat
      /\ c.left = IF b.left = 0 THEN Window ELSE b.left
      /\ c.count = IF b.left = 0 THEN 1 ELSE IF b.count > max THEN b.count ELSE b.count + 1
  <2>1. CASE b.left = 0
    <3>1. c = [count |-> 1, left |-> Window]  BY <2>1 DEF Limiter!Hit
    <3> QED  BY <2>1, <3>1 DEF Buckets
  <2>2. CASE b.left # 0
    <3>1. c = [b EXCEPT !.count = IF @ > max THEN @ ELSE @ + 1]  BY <2>2 DEF Limiter!Hit
    <3>2. (IF b.count > max THEN b.count ELSE b.count + 1) \in Nat  BY <1>0
    <3> QED  BY <2>2, <3>1, <3>2 DEF Buckets
  <2> QED  BY <2>1, <2>2
<1>2. Given(b, max) \in Nat /\ Given(c, max) \in Nat
  BY <1>0, <1>1 DEF Given
<1>3. CASE Limiter!Admitted(c, max)
  <2>1. new = [row EXCEPT ![1] = @ + 1]  BY <1>3
  <2>2. new \in Rows /\ \A m \in 1 .. Window : UpTo(new, m) = UpTo(row, m) + 1
    <3>1. ASSUME NEW m \in 1 .. Window PROVE new \in Rows /\ UpTo(new, m) = UpTo(row, m) + 1
      BY <2>1, UpToHit
    <3>2. 1 \in 1 .. Window  OBVIOUS
    <3> QED  BY <3>1, <3>2
  <2>3. Given(c, max) = Given(b, max) + 1
    BY <1>0, <1>1, <1>3 DEF Given, Limiter!Admitted
  <2>4. Window \in 1 .. Window /\ Window \in 0 .. Window  OBVIOUS
  <2>5. UpTo(new, Window) = UpTo(row, Window) + 1 /\ UpTo(row, Window) \in Nat
    BY <2>2, <2>4, UpToAdds
  <2>6. Before(c, new, max) = Before(b, row, max)
    BY <1>2, <2>3, <2>5 DEF Before
  <2> DEFINE m == Window - c.left
  <2>7. m \in 0 .. Window /\ m + 1 \in 1 .. Window
    BY <1>0, <1>1
  <2>8. UpTo(new, m) < Given(c, max)
    <3>1. CASE m = 0
      <4>1. UpTo(new, m) = 0  BY <2>2, <2>7, <3>1, UpToAdds
      <4> QED  BY <1>2, <2>3, <4>1
    <3>2. CASE m # 0
      <4>1. c.left = b.left /\ b.left > 0  BY <1>0, <1>1, <3>2
      <4>2. UpTo(row, m) < Given(b, max)  BY <4>1 DEF Fits
      <4> HIDE DEF m
      <4>0. m \in 1 .. Window  BY <2>7, <3>2
      <4>3. UpTo(new, m) = UpTo(row, m) + 1 /\ UpTo(row, m) \in Nat
        BY <2>2, <2>7, <4>0, UpToAdds
      <4> QED  BY <1>2, <2>3, <4>2, <4>3
    <3> QED  BY <3>1, <3>2
  <2>9. UpTo(new, m + 1) >= Given(c, max)
    <3>1. UpTo(new, m + 1) = UpTo(row, m + 1) + 1 /\ UpTo(row, m + 1) \in Nat
      <4>1. m + 1 \in 0 .. Window  BY <2>7
      <4> QED  BY <2>2, <2>7, <4>1, UpToAdds
    <3>2. UpTo(row, m + 1) >= Given(b, max)
      <4>1. CASE b.left = 0  BY <3>1, <4>1 DEF Given
      <4>2. CASE b.left # 0
        <5>1. c.left = b.left /\ b.left > 0  BY <1>0, <1>1, <4>2
        <5> QED  BY <5>1 DEF Fits
      <4> QED  BY <4>1, <4>2
    <3> HIDE DEF m
    <3> QED  BY <1>2, <2>3, <3>1, <3>2
  <2> QED  BY <1>1, <2>2, <2>6, <2>8, <2>9 DEF Fits
<1>4. CASE ~Limiter!Admitted(c, max)
  <2>1. new = row /\ c.count > max  BY <1>1, <1>4 DEF Limiter!Admitted
  <2>2. b.left # 0 /\ c.left = b.left  BY <1>1, <2>1
  <2>3. Given(c, max) = Given(b, max)  BY <1>0, <1>1, <2>1, <2>2 DEF Given
  <2> QED  BY <1>1, <2>1, <2>2, <2>3 DEF Fits, Before
<1> QED  BY <1>3, <1>4

(* And so does a tick, after which no more was before the window: when the *)
(* window ends, the tick in which it opened is out of sight.               *)
LEMMA TickFits ==
  ASSUME Window \in Nat \ {0}, NEW max \in Nat \ {0}, NEW row \in Rows, NEW b \in Buckets,
         Fits(b, row, max), NEW c, c = [b EXCEPT !.left = IF @ > 0 THEN @ - 1 ELSE 0],
         NEW new, new = [a \in 1 .. Window |-> IF a = 1 THEN 0 ELSE row[a - 1]]
  PROVE  /\ c \in Buckets /\ new \in Rows
         /\ Fits(c, new, max) /\ Before(c, new, max) <= Before(b, row, max)
<1>0. b.count \in Nat /\ b.left \in 0 .. Window  BY DEF Buckets
<1>1. /\ c \in Buckets /\ c.count = b.count
      /\ c.left = IF b.left > 0 THEN b.left - 1 ELSE 0
  BY <1>0 DEF Buckets
<1>2. new \in Rows /\ \A m \in 1 .. Window : UpTo(new, m) = UpTo(row, m - 1)
  BY UpToTick
<1>3. Given(b, max) \in Nat /\ Given(b, max) <= max /\ Given(c, max) \in Nat
  BY <1>0, <1>1 DEF Given
<1>4. /\ UpTo(new, Window) = UpTo(row, Window - 1) /\ UpTo(row, Window - 1) \in Nat
      /\ UpTo(row, Window - 1) <= UpTo(row, Window) /\ UpTo(row, Window) \in Nat
  <2>1. Window \in 1 .. Window /\ Window \in 0 .. Window /\ Window - 1 \in 0 .. Window  OBVIOUS
  <2> QED  BY <1>2, <2>1, UpToAdds, UpToGrows
<1>5. CASE c.left > 0
  <2>1. b.left > 0 /\ c.left = b.left - 1 /\ b.left \in 2 .. Window  BY <1>0, <1>1, <1>5
  <2>2. Given(c, max) = Given(b, max)  BY <1>1, <2>1 DEF Given
  <2>3. Before(c, new, max) <= Before(b, row, max)
    BY <1>3, <1>4, <2>2 DEF Before
  <2> DEFINE m == Window - b.left
  <2>4. /\ Window - c.left = m + 1 /\ Window - c.left + 1 = m + 2
        /\ m + 1 \in 1 .. Window /\ m + 2 \in 1 .. Window /\ (m + 1) - 1 = m /\ (m + 2) - 1 = m + 1
    BY <2>1
  <2> HIDE DEF m
  <2>5. UpTo(new, m + 1) = UpTo(row, m) /\ UpTo(new, m + 2) = UpTo(row, m + 1)
    BY <1>2, <2>4
  <2>6. UpTo(row, m) < Given(b, max) /\ UpTo(row, m + 1) >= Given(b, max)
    BY <2>1 DEF Fits, m
  <2> QED  BY <1>1, <1>2, <2>2, <2>3, <2>4, <2>5, <2>6 DEF Fits
<1>6. CASE ~(c.left > 0)
  <2>1. c.left = 0  BY <1>0, <1>1, <1>6
  <2>2. Given(c, max) = 0 /\ Fits(c, new, max)  BY <2>1 DEF Given, Fits
  <2>3. CASE b.left = 0
    <3>1. Given(b, max) = 0  BY <2>3 DEF Given
    <3> QED  BY <1>1, <1>2, <1>4, <2>2, <3>1 DEF Before
  <2>4. CASE b.left # 0
    <3>1. b.left = 1  BY <1>0, <1>1, <2>1, <2>4
    <3>2. UpTo(row, Window - 1) < Given(b, max)  BY <3>1 DEF Fits
    <3>3. Before(c, new, max) = max - 1  BY <1>3, <1>4, <2>2, <3>2 DEF Before
    <3>4. Before(b, row, max) >= max - 1
      <4>1. UpTo(row, Window) - Given(b, max) \in Int  BY <1>3, <1>4
      <4> QED  BY <4>1 DEF Before
    <3> QED  BY <1>1, <1>2, <2>2, <3>3, <3>4
  <2> QED  BY <2>3, <2>4
<1> QED  BY <1>5, <1>6

LEMMA LimiterSizes ==
  \A S : /\ Limiter!Cardinality(S) = Cardinality(S)
         /\ Limiter!IsFiniteSet(S) <=> IsFiniteSet(S)
BY DEF Limiter!Cardinality, Cardinality, Limiter!IsFiniteSet, IsFiniteSet

LEMMA LimiterSums ==
  \A f : Limiter!SumFunction(f) = SumFunctionOnSet(f, DOMAIN f)
BY DEF Limiter!SumFunction, Limiter!SumFunctionOnSet, Limiter!FoldFunctionOnSet,
       Limiter!MapThenFoldSet, SumFunctionOnSet, FoldFunctionOnSet, MapThenFoldSet

(* What was before the open windows of a caller, place by place and in all.*)
Early(c) == [p \in Limiter!Places |-> Before(bucket[p][c], passed[p][c], Limiter!MaxOf(c))]
AllEarly(c) == SumFunctionOnSet(Early(c), Limiter!Places)

LimiterTyped ==
  /\ shared \in BOOLEAN /\ restarts \in Nat
  /\ bucket \in [Limiter!Places -> [Clients -> Buckets]]
  /\ passed \in [Limiter!Places -> [Clients -> Rows]]

(* What was let through fits the bucket at each place, and what was before *)
(* the open windows is less than a limit at each, and one for a restart.   *)
LimiterInv ==
  /\ LimiterTyped
  /\ \A p \in Limiter!Places : \A c \in Clients :
       Fits(bucket[p][c], passed[p][c], Limiter!MaxOf(c))
  /\ \A c \in Clients :
       AllEarly(c) <= Cardinality(Limiter!Places) * (Limiter!MaxOf(c) - 1)
                        + (IF shared THEN 0 ELSE restarts * Limiter!MaxOf(c))

LEMMA LimiterFinite ==
  ASSUME Limiter!LimiterAssumption
  PROVE  /\ IsFiniteSet(Limiter!Places) /\ Cardinality(Limiter!Places) \in Nat
         /\ Window \in Nat \ {0}
         /\ \A c : Limiter!MaxOf(c) \in Nat \ {0}
<1>1. IsFiniteSet(Instances)  BY LimiterSizes DEF Limiter!LimiterAssumption
<1>2. IsFiniteSet({"redis"})  BY FS_Singleton
<1>3. IsFiniteSet(Limiter!Places)  BY <1>1, <1>2 DEF Limiter!Places
<1>4. Cardinality(Limiter!Places) \in Nat  BY <1>3, FS_CardinalityType
<1>5. AuthMax \in Nat \ {0} /\ AnonMax \in Nat \ {0} /\ Window \in Nat \ {0}
  BY DEF Limiter!LimiterAssumption
<1> QED  BY <1>3, <1>4, <1>5 DEF Limiter!MaxOf

LEMMA BeforeBounds ==
  ASSUME Window \in Nat \ {0}, NEW max \in Nat \ {0}, NEW row \in Rows, NEW b \in Buckets
  PROVE  /\ Given(b, max) \in 0 .. max /\ UpTo(row, Window) \in Nat
         /\ Before(b, row, max) \in Nat /\ Before(b, row, max) >= max - 1
         /\ UpTo(row, Window) <= Before(b, row, max) + Given(b, max)
         /\ Before(b, row, max) <= UpTo(row, Window) - Given(b, max) \/ Before(b, row, max) = max - 1
<1>1. b.count \in Nat /\ b.left \in 0 .. Window  BY DEF Buckets
<1>2. Given(b, max) \in 0 .. max  BY <1>1 DEF Given
<1>3. UpTo(row, Window) \in Nat
  <2>1. Window \in 0 .. Window  OBVIOUS
  <2> QED  BY <2>1, UpToAdds
<1> QED  BY <1>2, <1>3 DEF Before

(* At the start nothing was let through.                                   *)
LEMMA NothingYet ==
  ASSUME Window \in Nat \ {0}, NEW m \in 0 .. Window
  PROVE  [a \in 1 .. Window |-> 0] \in Rows /\ UpTo([a \in 1 .. Window |-> 0], m) = 0
<1> DEFINE row == [a \in 1 .. Window |-> 0]
           S == 1 .. m
<1>1. row \in Rows  BY DEF Rows
<1>2. 1 \in Int /\ m \in Int  OBVIOUS
<1>3. IsFiniteSet(S)  BY <1>2, FS_Interval
<1>4. \A x \in S : row[x] = 0  OBVIOUS
<1>5. Units(row, S) = {}
  <2>1. \A x \in S : 1 .. row[x] = {}
    <3>1. 1 .. 0 = {}  OBVIOUS
    <3> QED  BY <1>4, <3>1
  <2> HIDE DEF row, S
  <2> QED  BY <2>1 DEF Units
<1>6. SumFunctionOnSet(row, S) = 0
  <2>1. \A x \in S : row[x] \in Nat  BY <1>4
  <2> HIDE DEF row, S
  <2> QED  BY <1>3, <1>5, <2>1, SumCounts, FS_EmptySet
<1> QED  BY <1>1, <1>6 DEF UpTo

LEMMA EarlySums ==
  ASSUME Limiter!LimiterAssumption, LimiterTyped, NEW c \in Clients
  PROVE  /\ \A p \in Limiter!Places : Early(c)[p] \in Nat
         /\ AllEarly(c) \in Nat
<1>1. ASSUME NEW p \in Limiter!Places PROVE Early(c)[p] \in Nat
  <2>1. passed[p][c] \in Rows /\ bucket[p][c] \in Buckets  BY DEF LimiterTyped
  <2>2. Before(bucket[p][c], passed[p][c], Limiter!MaxOf(c)) \in Nat
    BY <2>1, LimiterFinite, BeforeBounds
  <2> QED  BY <2>2 DEF Early
<1>2. IsFiniteSet(Limiter!Places)  BY LimiterFinite
<1> QED  BY <1>1, <1>2, SumAdds DEF AllEarly

(* A step after which no place saw more before its open windows.           *)
LEMMA Quietly ==
  ASSUME Limiter!LimiterAssumption, LimiterInv, LimiterTyped', UNCHANGED <<shared, restarts>>,
         \A p \in Limiter!Places : \A c \in Clients :
           /\ Fits(bucket'[p][c], passed'[p][c], Limiter!MaxOf(c))
           /\ Before(bucket'[p][c], passed'[p][c], Limiter!MaxOf(c))
                <= Before(bucket[p][c], passed[p][c], Limiter!MaxOf(c))
  PROVE  LimiterInv'
<1>1. Limiter!Places' = Limiter!Places  BY DEF Limiter!Places
<1>2. LimiterTyped  BY DEF LimiterInv
<1>3. \A p \in Limiter!Places' : \A c \in Clients :
        Fits(bucket'[p][c], passed'[p][c], Limiter!MaxOf(c))
  BY <1>1
<1>4. ASSUME NEW c \in Clients
      PROVE  AllEarly(c)' <= Cardinality(Limiter!Places') * (Limiter!MaxOf(c) - 1)
                               + (IF shared' THEN 0 ELSE restarts' * Limiter!MaxOf(c))
  <2> DEFINE P == Limiter!Places
             f == [p \in P |-> Before(bucket'[p][c], passed'[p][c], Limiter!MaxOf(c))]
             g == Early(c)
  <2>1. AllEarly(c)' = SumFunctionOnSet(f, P)  BY <1>1 DEF AllEarly, Early
  <2>2. \A p \in P : f[p] \in Nat
    <3>1. ASSUME NEW p \in P PROVE f[p] \in Nat
      <4>1. passed'[p][c] \in Rows /\ bucket'[p][c] \in Buckets
        BY <1>1 DEF LimiterTyped
      <4>2. Before(bucket'[p][c], passed'[p][c], Limiter!MaxOf(c)) \in Nat
        BY <4>1, LimiterFinite, BeforeBounds
      <4> QED  BY <4>2
    <3> QED  BY <3>1
  <2>3. \A p \in P : g[p] \in Nat /\ f[p] <= g[p] + 0
    <3>1. ASSUME NEW p \in P PROVE g[p] \in Nat /\ f[p] <= g[p] + 0
      <4>1. g[p] \in Nat  BY <1>2, EarlySums
      <4>2. f[p] \in Nat  BY <2>2
      <4>3. f[p] <= g[p]  BY DEF Early
      <4> HIDE DEF f, g
      <4> QED  BY <4>1, <4>2, <4>3
    <3> QED  BY <3>1
  <2>4. IsFiniteSet(P) /\ Cardinality(P) \in Nat /\ Limiter!MaxOf(c) \in Nat \ {0}  BY LimiterFinite
  <2> HIDE DEF f, g, P
  <2>5. SumFunctionOnSet(f, P) <= SumFunctionOnSet(g, P) + 0 * Cardinality(P)
    <3>1. 0 \in Nat  OBVIOUS
    <3> QED  BY <2>2, <2>3, <2>4, <3>1, SumExceeds
  <2>6. SumFunctionOnSet(f, P) \in Nat /\ SumFunctionOnSet(g, P) \in Nat
    BY <2>2, <2>3, <2>4, SumAdds
  <2>7. SumFunctionOnSet(f, P) <= SumFunctionOnSet(g, P)
    <3>1. 0 * Cardinality(P) = 0  BY <2>4
    <3> QED  BY <2>5, <2>6, <3>1
  <2>8. /\ AllEarly(c) = SumFunctionOnSet(g, P)
        /\ AllEarly(c) <= Cardinality(P) * (Limiter!MaxOf(c) - 1)
                            + (IF shared THEN 0 ELSE restarts * Limiter!MaxOf(c))
    BY DEF LimiterInv, AllEarly, g, P
  <2>9. Limiter!Places' = P  BY <1>1 DEF P
  <2> DEFINE a == AllEarly(c)'
             b == SumFunctionOnSet(g, P)
             n == Cardinality(P) * (Limiter!MaxOf(c) - 1)
                    + (IF shared THEN 0 ELSE restarts * Limiter!MaxOf(c))
  <2>10. n \in Int
    <3>1. restarts \in Nat  BY <1>2 DEF LimiterTyped
    <3>2. restarts * Limiter!MaxOf(c) \in Int  BY <2>4, <3>1
    <3>3. Cardinality(P) * (Limiter!MaxOf(c) - 1) \in Int  BY <2>4
    <3> QED  BY <3>2, <3>3
  <2>11. a <= b /\ b <= n /\ a \in Nat /\ b \in Nat  BY <2>1, <2>6, <2>7, <2>8
  <2>12. a <= n
    <3> HIDE DEF a, b, n
    <3> QED  BY <2>10, <2>11
  <2> QED  BY <2>9, <2>12
<1> QED  BY <1>3, <1>4 DEF LimiterInv

LEMMA LimiterChecks ==
  ASSUME Limiter!LimiterAssumption, LimiterInv,
         NEW i \in Instances, NEW c \in Clients, Limiter!Check(i, c)
  PROVE  LimiterInv'
<1> DEFINE q == Limiter!PlaceOf(i)
           b == Limiter!Hit(bucket[q][c], Limiter!MaxOf(c))
           row == IF Limiter!Admitted(b, Limiter!MaxOf(c))
                  THEN [passed[q][c] EXCEPT ![1] = @ + 1] ELSE passed[q][c]
<1>0. UNCHANGED <<shared, restarts>> /\ Limiter!Places' = Limiter!Places /\ LimiterTyped
  BY DEF LimiterInv, Limiter!Check, Limiter!Places
<1>1. q \in Limiter!Places  BY DEF Limiter!Places, Limiter!PlaceOf
<1>2. /\ bucket[q][c] \in Buckets /\ passed[q][c] \in Rows
      /\ Fits(bucket[q][c], passed[q][c], Limiter!MaxOf(c))
      /\ Window \in Nat \ {0} /\ Limiter!MaxOf(c) \in Nat \ {0}
  BY <1>1, LimiterFinite DEF LimiterInv, LimiterTyped
<1>3. /\ b \in Buckets /\ row \in Rows /\ Fits(b, row, Limiter!MaxOf(c))
      /\ Before(b, row, Limiter!MaxOf(c)) = Before(bucket[q][c], passed[q][c], Limiter!MaxOf(c))
  <2> DEFINE u == bucket[q][c]
             v == passed[q][c]
             max == Limiter!MaxOf(c)
  <2>1. u \in Buckets /\ v \in Rows /\ Fits(u, v, max) /\ Window \in Nat \ {0} /\ max \in Nat \ {0}
    BY <1>2
  <2>2. b = Limiter!Hit(u, max)
        /\ row = IF Limiter!Admitted(b, max) THEN [v EXCEPT ![1] = @ + 1] ELSE v
    OBVIOUS
  <2> HIDE DEF u, v, max, b, row
  <2>3. b \in Buckets /\ row \in Rows /\ Fits(b, row, max) /\ Before(b, row, max) = Before(u, v, max)
    BY <2>1, <2>2, HitFits
  <2> QED  BY <2>3 DEF u, v, max
<1>4. /\ bucket' = [bucket EXCEPT ![q][c] = b]
      /\ passed' = [passed EXCEPT ![q][c] = row]
  <2>1. bucket' = [bucket EXCEPT ![q][c] = b]  BY DEF Limiter!Check
  <2>2. CASE Limiter!Admitted(b, Limiter!MaxOf(c))
    <3>1. passed' = [passed EXCEPT ![q][c][1] = @ + 1]  BY <2>2 DEF Limiter!Check
    <3>2. row = [passed[q][c] EXCEPT ![1] = @ + 1]  BY <2>2
    <3> HIDE DEF q, b, row
    <3>3. passed \in [Limiter!Places -> [Clients -> Rows]]  BY <1>0 DEF LimiterTyped
    <3>4. passed' = [passed EXCEPT ![q][c] = row]  BY <1>1, <3>1, <3>2, <3>3
    <3> QED  BY <2>1, <3>4
  <2>3. CASE ~Limiter!Admitted(b, Limiter!MaxOf(c))
    <3>1. passed' = passed  BY <2>3 DEF Limiter!Check
    <3>2. passed \in [Limiter!Places -> [Clients -> Rows]]  BY <1>0 DEF LimiterTyped
    <3>3. [passed EXCEPT ![q][c] = passed[q][c]] = passed  BY <1>1, <3>2
    <3> QED  BY <2>1, <2>3, <3>1, <3>3
  <2> QED  BY <2>2, <2>3
<1> HIDE DEF q, b, row
<1>5. LimiterTyped'  BY <1>0, <1>1, <1>3, <1>4 DEF LimiterTyped
<1>6. ASSUME NEW p \in Limiter!Places, NEW d \in Clients
      PROVE  /\ Fits(bucket'[p][d], passed'[p][d], Limiter!MaxOf(d))
             /\ Before(bucket'[p][d], passed'[p][d], Limiter!MaxOf(d))
                  <= Before(bucket[p][d], passed[p][d], Limiter!MaxOf(d))
  <2>1. bucket[p][d] \in Buckets /\ passed[p][d] \in Rows  BY <1>0 DEF LimiterTyped
  <2>2. Before(bucket[p][d], passed[p][d], Limiter!MaxOf(d)) \in Nat
    BY <2>1, LimiterFinite, BeforeBounds
  <2>3. CASE p = q /\ d = c
    <3>1. bucket'[p][d] = b /\ passed'[p][d] = row
      BY <1>0, <1>1, <1>4, <2>3 DEF LimiterTyped
    <3> QED  BY <1>3, <2>2, <2>3, <3>1
  <2>4. CASE ~(p = q /\ d = c)
    <3>1. bucket'[p][d] = bucket[p][d] /\ passed'[p][d] = passed[p][d]
      BY <1>0, <1>1, <1>4, <2>4 DEF LimiterTyped
    <3> QED  BY <2>2, <3>1 DEF LimiterInv
  <2> QED  BY <2>3, <2>4
<1> QED  BY <1>0, <1>5, <1>6, Quietly

LEMMA LimiterTicks ==
  ASSUME Limiter!LimiterAssumption, LimiterInv, Limiter!Tick
  PROVE  LimiterInv'
<1>0. UNCHANGED <<shared, restarts>> /\ Limiter!Places' = Limiter!Places /\ LimiterTyped
  BY DEF LimiterInv, Limiter!Tick, Limiter!Places
<1>1. ASSUME NEW p \in Limiter!Places, NEW c \in Clients
      PROVE  /\ bucket'[p][c] \in Buckets /\ passed'[p][c] \in Rows
             /\ Fits(bucket'[p][c], passed'[p][c], Limiter!MaxOf(c))
             /\ Before(bucket'[p][c], passed'[p][c], Limiter!MaxOf(c))
                  <= Before(bucket[p][c], passed[p][c], Limiter!MaxOf(c))
  <2> DEFINE b == bucket[p][c]
             row == passed[p][c]
             max == Limiter!MaxOf(c)
             b2 == bucket'[p][c]
             row2 == passed'[p][c]
  <2>1. b \in Buckets /\ row \in Rows /\ Fits(b, row, max)
    BY <1>0 DEF LimiterInv, LimiterTyped
  <2>2. b2 = [b EXCEPT !.left = IF @ > 0 THEN @ - 1 ELSE 0]
    BY DEF Limiter!Tick
  <2>3. row2 = [a \in 1 .. Window |-> IF a = 1 THEN 0 ELSE row[a - 1]]
    BY DEF Limiter!Tick
  <2>4. Window \in Nat \ {0} /\ max \in Nat \ {0}  BY LimiterFinite
  <2> HIDE DEF b, row, max, b2, row2
  <2>5. b2 \in Buckets /\ row2 \in Rows /\ Fits(b2, row2, max) /\ Before(b2, row2, max) <= Before(b, row, max)
    BY <2>1, <2>2, <2>3, <2>4, TickFits
  <2> QED  BY <2>5 DEF b, row, max, b2, row2
<1>2. LimiterTyped'
  <2>1. bucket' = [p \in Limiter!Places |-> [c \in Clients |-> bucket'[p][c]]]
    BY DEF Limiter!Tick
  <2>2. passed' = [p \in Limiter!Places |-> [c \in Clients |-> passed'[p][c]]]
    BY DEF Limiter!Tick
  <2>3. bucket' \in [Limiter!Places -> [Clients -> Buckets]]  BY <1>1, <2>1
  <2>4. passed' \in [Limiter!Places -> [Clients -> Rows]]  BY <1>1, <2>2
  <2> QED  BY <1>0, <2>3, <2>4 DEF LimiterTyped
<1> QED  BY <1>0, <1>1, <1>2, Quietly

LEMMA LimiterSweeps ==
  ASSUME Limiter!LimiterAssumption, LimiterInv, NEW q \in Limiter!Places, Limiter!Sweep(q)
  PROVE  LimiterInv'
<1>0. UNCHANGED <<shared, restarts>> /\ Limiter!Places' = Limiter!Places /\ LimiterTyped /\ passed' = passed
  BY DEF LimiterInv, Limiter!Sweep, Limiter!Places
<1>1. ASSUME NEW p \in Limiter!Places, NEW c \in Clients
      PROVE  /\ bucket'[p][c] \in Buckets
             /\ \/ bucket'[p][c] = bucket[p][c]
                \/ bucket'[p][c].left = 0 /\ bucket[p][c].left = 0
  <2>1. bucket[p][c] \in Buckets  BY <1>0 DEF LimiterTyped
  <2>2. bucket' = [bucket EXCEPT ![q] =
                     [d \in Clients |-> IF @[d].left = 0 THEN Limiter!NoBucket ELSE @[d]]]
    BY DEF Limiter!Sweep
  <2> DEFINE swept == [d \in Clients |-> IF bucket[q][d].left = 0 THEN Limiter!NoBucket ELSE bucket[q][d]]
  <2>a. bucket' = [bucket EXCEPT ![q] = swept]  BY <2>2
  <2>b. swept[c] = IF bucket[q][c].left = 0 THEN Limiter!NoBucket ELSE bucket[q][c]  OBVIOUS
  <2> HIDE DEF swept
  <2>c. bucket'[p][c] = IF p = q THEN swept[c] ELSE bucket[p][c]
    BY <1>0, <2>a DEF LimiterTyped
  <2>3. \/ bucket'[p][c] = bucket[p][c]
        \/ /\ bucket'[p][c] = Limiter!NoBucket
           /\ bucket[p][c].left = 0
    BY <2>b, <2>c
  <2>4. Limiter!NoBucket \in Buckets /\ Limiter!NoBucket.left = 0
    <3>1. 0 \in 0 .. Window  BY LimiterFinite
    <3> QED  BY <3>1 DEF Limiter!NoBucket, Buckets
  <2> QED  BY <2>1, <2>3, <2>4
<1>2. LimiterTyped'
  <2>1. bucket' = [p \in Limiter!Places |-> [c \in Clients |-> bucket'[p][c]]]
    BY <1>0 DEF Limiter!Sweep, LimiterTyped
  <2>2. bucket' \in [Limiter!Places -> [Clients -> Buckets]]  BY <1>1, <2>1
  <2> QED  BY <1>0, <2>2 DEF LimiterTyped
<1>3. ASSUME NEW p \in Limiter!Places, NEW c \in Clients
      PROVE  /\ Fits(bucket'[p][c], passed'[p][c], Limiter!MaxOf(c))
             /\ Before(bucket'[p][c], passed'[p][c], Limiter!MaxOf(c))
                  <= Before(bucket[p][c], passed[p][c], Limiter!MaxOf(c))
  <2>1. bucket[p][c] \in Buckets /\ passed[p][c] \in Rows  BY <1>0 DEF LimiterTyped
  <2>2. Before(bucket[p][c], passed[p][c], Limiter!MaxOf(c)) \in Nat
    BY <2>1, LimiterFinite, BeforeBounds
  <2>3. CASE bucket'[p][c] = bucket[p][c]
    BY <1>0, <2>2, <2>3 DEF LimiterInv
  <2>4. CASE bucket'[p][c].left = 0 /\ bucket[p][c].left = 0
    <3>1. Given(bucket'[p][c], Limiter!MaxOf(c)) = Given(bucket[p][c], Limiter!MaxOf(c))
      BY <2>4 DEF Given
    <3>2. Before(bucket'[p][c], passed'[p][c], Limiter!MaxOf(c))
            = Before(bucket[p][c], passed[p][c], Limiter!MaxOf(c))
      BY <1>0, <3>1 DEF Before
    <3>3. Fits(bucket'[p][c], passed'[p][c], Limiter!MaxOf(c))  BY <2>4 DEF Fits
    <3> QED  BY <2>2, <3>2, <3>3
  <2> QED  BY <1>1, <2>3, <2>4
<1> QED  BY <1>0, <1>2, <1>3, Quietly

(* A restart shows a limit at most that the open window had hidden.        *)
LEMMA LimiterRestarts ==
  ASSUME Limiter!LimiterAssumption, LimiterInv, NEW i \in Instances, Limiter!Restart(i)
  PROVE  LimiterInv'
<1>0. /\ shared' = shared /\ restarts' = restarts + 1 /\ passed' = passed
      /\ Limiter!Places' = Limiter!Places /\ LimiterTyped /\ restarts \in Nat
  BY DEF LimiterInv, LimiterTyped, Limiter!Restart, Limiter!Places
<1>1. CASE shared
  <2>1. bucket' = bucket  BY <1>1 DEF Limiter!Restart
  <2>2. LimiterTyped'  BY <1>0, <2>1 DEF LimiterTyped
  <2>3. \A c : Early(c)' = Early(c)  BY <1>0, <2>1 DEF Early, Limiter!MaxOf
  <2>4. \A c : AllEarly(c)' = AllEarly(c)  BY <1>0, <2>3 DEF AllEarly
  <2> QED  BY <1>0, <1>1, <2>1, <2>2, <2>4 DEF LimiterInv
<1>2. CASE ~shared
  <2>1. bucket' = [bucket EXCEPT ![i] = [c \in Clients |-> Limiter!NoBucket]]
    BY <1>2 DEF Limiter!Restart
  <2>2. Limiter!NoBucket \in Buckets /\ Limiter!NoBucket.left = 0
    <3>1. 0 \in 0 .. Window  BY LimiterFinite
    <3> QED  BY <3>1 DEF Limiter!NoBucket, Buckets
  <2>3. i \in Limiter!Places  BY <1>2 DEF Limiter!Places
  <2>4. LimiterTyped'
    <3> DEFINE fresh == [c \in Clients |-> Limiter!NoBucket]
    <3>1. fresh \in [Clients -> Buckets] /\ bucket' = [bucket EXCEPT ![i] = fresh]
      BY <2>1, <2>2
    <3> HIDE DEF fresh
    <3>2. bucket \in [Limiter!Places -> [Clients -> Buckets]]  BY <1>0 DEF LimiterTyped
    <3>3. bucket' \in [Limiter!Places -> [Clients -> Buckets]]  BY <3>1, <3>2
    <3>4. restarts + 1 \in Nat  BY <1>0
    <3> QED  BY <1>0, <3>3, <3>4 DEF LimiterTyped
  <2>5. ASSUME NEW p \in Limiter!Places, NEW c \in Clients
        PROVE  Fits(bucket'[p][c], passed'[p][c], Limiter!MaxOf(c))
    <3>1. CASE p = i
      <4>1. bucket'[p][c].left = 0  BY <1>0, <2>1, <2>2, <2>3, <3>1 DEF LimiterTyped
      <4> QED  BY <4>1 DEF Fits
    <3>2. CASE p # i
      <4>1. bucket'[p][c] = bucket[p][c]  BY <1>0, <2>1, <3>2 DEF LimiterTyped
      <4> QED  BY <1>0, <4>1 DEF LimiterInv
    <3> QED  BY <3>1, <3>2
  <2>6. ASSUME NEW c \in Clients
        PROVE  AllEarly(c)' <= Cardinality(Limiter!Places) * (Limiter!MaxOf(c) - 1)
                                 + restarts' * Limiter!MaxOf(c)
    <3> DEFINE P == Limiter!Places
               max == Limiter!MaxOf(c)
               f == [p \in P |-> Before(bucket'[p][c], passed'[p][c], max)]
               g == Early(c)
               R == P \ {i}
    <3>1. AllEarly(c)' = SumFunctionOnSet(f, P) /\ AllEarly(c) = SumFunctionOnSet(g, P)
      BY <1>0 DEF AllEarly, Early
    <3>2. IsFiniteSet(P) /\ IsFiniteSet(R) /\ i \in P /\ max \in Nat \ {0} /\ Cardinality(P) \in Nat
      BY <2>3, LimiterFinite, FS_RemoveElement
    <3>3. ASSUME NEW p \in P PROVE f[p] \in Nat /\ g[p] \in Nat
      <4>1. passed'[p][c] \in Rows /\ bucket'[p][c] \in Buckets
        BY <1>0, <2>4 DEF LimiterTyped
      <4>2. Before(bucket'[p][c], passed'[p][c], Limiter!MaxOf(c)) \in Nat
        BY <4>1, LimiterFinite, BeforeBounds
      <4> QED  BY <1>0, <4>2, EarlySums
    <3>4. ASSUME NEW p \in R PROVE f[p] = g[p]
      <4>1. bucket'[p][c] = bucket[p][c]  BY <1>0, <2>1 DEF LimiterTyped
      <4> QED  BY <1>0, <4>1 DEF Early
    <3>5. f[i] <= g[i] + max
      <4> DEFINE row == passed[i][c]
                 b == bucket[i][c]
      <4>1. row \in Rows /\ b \in Buckets  BY <1>0, <2>3 DEF LimiterTyped
      <4>2. bucket'[i][c] = Limiter!NoBucket /\ passed'[i][c] = row
        BY <1>0, <2>1, <2>3 DEF LimiterTyped
      <4>3. f[i] = Before(Limiter!NoBucket, row, max) /\ g[i] = Before(b, row, max)
        BY <2>3, <4>2 DEF Early
      <4>4. Given(Limiter!NoBucket, max) = 0  BY <2>2 DEF Given
      <4>5. Window \in Nat \ {0}  BY LimiterFinite
      <4> HIDE DEF f, g, b, row, max
      <4>6. /\ Before(Limiter!NoBucket, row, max) \in Nat
            /\ \/ Before(Limiter!NoBucket, row, max) <= UpTo(row, Window) - 0
               \/ Before(Limiter!NoBucket, row, max) = max - 1
        BY <2>2, <3>2, <4>1, <4>4, <4>5, BeforeBounds
      <4>7. /\ Given(b, max) \in 0 .. max /\ UpTo(row, Window) \in Nat /\ Before(b, row, max) \in Nat
            /\ UpTo(row, Window) <= Before(b, row, max) + Given(b, max)
        BY <3>2, <4>1, <4>5, BeforeBounds
      <4>8. Before(Limiter!NoBucket, row, max) <= Before(b, row, max) + max
        BY <3>2, <4>6, <4>7
      <4> QED  BY <4>3, <4>8
    <3> HIDE DEF f, g, max, P, R
    <3>6. /\ SumFunctionOnSet(f, P) = f[i] + SumFunctionOnSet(f, P \ {i})
          /\ SumFunctionOnSet(g, P) = g[i] + SumFunctionOnSet(g, P \ {i})
          /\ SumFunctionOnSet(f, P \ {i}) \in Nat
      BY <3>2, <3>3, SumAdds
    <3>7. SumFunctionOnSet(f, R) = SumFunctionOnSet(g, R)
      <4>1. \A p \in R : f[p] \in Nat /\ f[p] = g[p]  BY <3>3, <3>4 DEF R
      <4> QED  BY <3>2, <4>1, SumSame
    <3> DEFINE rest == SumFunctionOnSet(f, R)
               fi == f[i]
               gi == g[i]
               sf == SumFunctionOnSet(f, P)
               sg == SumFunctionOnSet(g, P)
               k == Cardinality(P) * (max - 1)
               m == restarts * max
               m2 == restarts' * max
    <3>8. /\ rest \in Nat /\ fi \in Nat /\ gi \in Nat /\ max \in Nat
          /\ sf = fi + rest /\ sg = gi + rest /\ fi <= gi + max
      BY <3>2, <3>3, <3>5, <3>6, <3>7 DEF R
    <3>9. k \in Int /\ m \in Int /\ m2 = m + max
      <4>1. max - 1 \in Int /\ Cardinality(P) \in Int /\ restarts \in Int /\ max \in Int
        BY <1>0, <3>2
      <4>2. k \in Int /\ m \in Int  BY <4>1
      <4>3. (restarts + 1) * max = restarts * max + max  BY <4>1
      <4> QED  BY <1>0, <4>2, <4>3
    <3>10. sg <= k + m  BY <1>2, <3>1 DEF LimiterInv, P, max
    <3>11. AllEarly(c)' = sf  BY <3>1
    <3>12. sf <= k + m2
      <4> HIDE DEF rest, fi, gi, sf, sg, k, m, m2
      <4> QED  BY <3>8, <3>9, <3>10
    <3> QED  BY <3>11, <3>12 DEF P, max
  <2> QED  BY <1>0, <1>2, <2>4, <2>5, <2>6 DEF LimiterInv
<1> QED  BY <1>1, <1>2

LEMMA LimiterStarts ==
  ASSUME Limiter!LimiterAssumption, Limiter!Init
  PROVE  LimiterInv
<1> DEFINE row == [a \in 1 .. Window |-> 0]
<1>1. Window \in Nat \ {0} /\ IsFiniteSet(Limiter!Places) /\ Cardinality(Limiter!Places) \in Nat
  BY LimiterFinite
<1>2. Limiter!NoBucket \in Buckets /\ Limiter!NoBucket.left = 0
  <2>1. 0 \in 0 .. Window  BY <1>1
  <2> QED  BY <2>1 DEF Limiter!NoBucket, Buckets
<1>3. row \in Rows /\ UpTo(row, Window) = 0
  <2>1. Window \in 0 .. Window  BY <1>1
  <2> QED  BY <1>1, <2>1, NothingYet
<1>4. \A p \in Limiter!Places : \A c \in Clients :
        bucket[p][c] = Limiter!NoBucket /\ passed[p][c] = row
  BY DEF Limiter!Init
<1>5. LimiterTyped
  <2>1. /\ shared \in BOOLEAN /\ restarts = 0
        /\ bucket = [p \in Limiter!Places |-> [c \in Clients |-> Limiter!NoBucket]]
        /\ passed = [p \in Limiter!Places |-> [c \in Clients |-> row]]
    BY DEF Limiter!Init
  <2> HIDE DEF row
  <2>2. bucket \in [Limiter!Places -> [Clients -> Buckets]]  BY <1>2, <2>1
  <2>3. passed \in [Limiter!Places -> [Clients -> Rows]]  BY <1>3, <2>1
  <2> QED  BY <2>1, <2>2, <2>3 DEF LimiterTyped
<1> HIDE DEF row
<1>6. \A p \in Limiter!Places : \A c \in Clients :
        Fits(bucket[p][c], passed[p][c], Limiter!MaxOf(c))
  BY <1>2, <1>4 DEF Fits
<1>7. ASSUME NEW c \in Clients
      PROVE  AllEarly(c) <= Cardinality(Limiter!Places) * (Limiter!MaxOf(c) - 1)
                              + (IF shared THEN 0 ELSE restarts * Limiter!MaxOf(c))
  <2> DEFINE P == Limiter!Places
             f == Early(c)
             g == [p \in P |-> 0]
             less == Limiter!MaxOf(c) - 1
  <2>1. Limiter!MaxOf(c) \in Nat \ {0} /\ less \in Nat  BY LimiterFinite
  <2>2. ASSUME NEW p \in P PROVE f[p] = less
    <3>1. f[p] = Before(Limiter!NoBucket, row, Limiter!MaxOf(c))  BY <1>4 DEF Early
    <3>2. Given(Limiter!NoBucket, Limiter!MaxOf(c)) = 0  BY <1>2 DEF Given
    <3> QED  BY <1>3, <2>1, <3>1, <3>2 DEF Before
  <2>3. \A p \in P : g[p] = 0  OBVIOUS
  <2> HIDE DEF f, g, less, P
  <2>4. \A p \in P : f[p] \in Nat /\ g[p] \in Nat /\ f[p] <= g[p] + less
    BY <2>1, <2>2, <2>3
  <2>5. IsFiniteSet(P) /\ Cardinality(P) \in Nat  BY <1>1 DEF P
  <2>6. SumFunctionOnSet(f, P) <= SumFunctionOnSet(g, P) + less * Cardinality(P)
    BY <2>1, <2>4, <2>5, SumExceeds
  <2>7. SumFunctionOnSet(g, P) = 0
    <3>1. \A p \in P : 1 .. g[p] = {}
      <4>1. 1 .. 0 = {}  OBVIOUS
      <4> QED  BY <2>3, <4>1
    <3>2. Units(g, P) = {}  BY <3>1 DEF Units
    <3> QED  BY <2>4, <2>5, <3>2, SumCounts, FS_EmptySet
  <2>8. SumFunctionOnSet(f, P) <= Cardinality(P) * less + 0
    <3>1. less * Cardinality(P) = Cardinality(P) * less  BY <2>1, <2>5
    <3>2. SumFunctionOnSet(f, P) \in Nat  BY <2>4, <2>5, SumAdds
    <3>3. Cardinality(P) * less \in Nat  BY <2>1, <2>5
    <3> QED  BY <2>6, <2>7, <3>1, <3>2, <3>3
  <2>9. (IF shared THEN 0 ELSE restarts * Limiter!MaxOf(c)) = 0
    <3>1. restarts = 0  BY DEF Limiter!Init
    <3>2. 0 * Limiter!MaxOf(c) = 0  BY <2>1
    <3> QED  BY <3>1, <3>2
  <2>10. AllEarly(c) = SumFunctionOnSet(f, P)  BY DEF AllEarly, f, P
  <2> QED  BY <2>8, <2>9, <2>10 DEF P, less
<1> QED  BY <1>5, <1>6, <1>7 DEF LimiterInv

LEMMA LimiterSteps ==
  ASSUME Limiter!LimiterAssumption, LimiterInv, [Limiter!Next]_(Limiter!limiterVars)
  PROVE  LimiterInv'
<1>1. CASE Limiter!Next
  BY <1>1, LimiterChecks, LimiterSweeps, LimiterRestarts, LimiterTicks DEF Limiter!Next
<1>2. CASE UNCHANGED Limiter!limiterVars
  <2>1. /\ UNCHANGED <<shared, bucket, restarts, passed>> /\ Limiter!Places' = Limiter!Places
    BY <1>2 DEF Limiter!limiterVars, Limiter!Places
  <2>2. \A c : AllEarly(c)' = AllEarly(c)  BY <2>1 DEF AllEarly, Early
  <2>3. LimiterTyped'  BY <2>1 DEF LimiterInv, LimiterTyped
  <2> QED  BY <2>1, <2>2, <2>3 DEF LimiterInv
<1> QED  BY <1>1, <1>2

LEMMA LimiterBounds ==
  ASSUME Limiter!LimiterAssumption, LimiterInv
  PROVE  LimiterHonest
<1>0. LimiterTyped  BY DEF LimiterInv
<1>1. ASSUME NEW p \in Limiter!Places, NEW c \in Clients
      PROVE  /\ Limiter!Recent(p, c) = UpTo(passed[p][c], Window)
             /\ passed[p][c] \in Rows /\ bucket[p][c] \in Buckets
  <2>1. passed[p][c] \in Rows /\ bucket[p][c] \in Buckets  BY <1>0 DEF LimiterTyped
  <2>2. DOMAIN passed[p][c] = 1 .. Window  BY <2>1 DEF Rows
  <2> QED  BY <2>1, <2>2, LimiterSums DEF Limiter!Recent, UpTo
<1>2. ASSUME NEW c \in Clients
      PROVE  Limiter!SumFunction([p \in Limiter!Places |-> Limiter!Recent(p, c)])
               <= Limiter!Cardinality(Limiter!Places) * (2 * Limiter!MaxOf(c) - 1)
                    + (IF shared THEN 0 ELSE restarts * Limiter!MaxOf(c))
  <2> DEFINE P == Limiter!Places
             max == Limiter!MaxOf(c)
             f == [p \in P |-> Limiter!Recent(p, c)]
             g == Early(c)
             n == Cardinality(P)
  <2>1. ASSUME NEW p \in P PROVE f[p] \in Nat /\ g[p] \in Nat /\ f[p] <= g[p] + max
    <3>1. /\ Given(bucket[p][c], max) \in 0 .. max /\ UpTo(passed[p][c], Window) \in Nat
          /\ Before(bucket[p][c], passed[p][c], max) \in Nat /\ max \in Nat
          /\ UpTo(passed[p][c], Window)
               <= Before(bucket[p][c], passed[p][c], max) + Given(bucket[p][c], max)
      BY <1>1, LimiterFinite, BeforeBounds
    <3>2. f[p] = UpTo(passed[p][c], Window) /\ g[p] = Before(bucket[p][c], passed[p][c], max)
      BY <1>1 DEF Early
    <3> HIDE DEF f, g, max
    <3> QED  BY <3>1, <3>2
  <2>2. IsFiniteSet(P) /\ n \in Nat /\ max \in Nat \ {0} /\ Limiter!Cardinality(P) = n
    BY LimiterFinite, LimiterSizes
  <2>3. Limiter!SumFunction(f) = SumFunctionOnSet(f, P)
    <3>1. DOMAIN f = P  OBVIOUS
    <3> HIDE DEF f
    <3> QED  BY <3>1, LimiterSums
  <2> DEFINE sf == SumFunctionOnSet(f, P)
             sg == SumFunctionOnSet(g, P)
             more == IF shared THEN 0 ELSE restarts * Limiter!MaxOf(c)
  <2>4. sg <= n * (max - 1) + more  BY DEF LimiterInv, AllEarly
  <2>5. sf <= sg + max * n
    <3> HIDE DEF f, g, P, max
    <3>1. max \in Nat  BY <2>2
    <3> QED  BY <2>1, <2>2, <3>1, SumExceeds
  <2>6. sf \in Nat /\ sg \in Nat
    <3> HIDE DEF f, g, P
    <3> QED  BY <2>1, <2>2, SumAdds
  <2>7. more \in Int
    <3>1. restarts \in Nat  BY <1>0 DEF LimiterTyped
    <3>2. restarts * max \in Int  BY <2>2, <3>1
    <3> QED  BY <3>2
  <2>8. n * (max - 1) \in Int /\ max * n \in Int /\ n * (max - 1) + max * n = n * (2 * max - 1)
    <3> HIDE DEF n, max
    <3> QED  BY <2>2
  <2>9. sf <= n * (2 * max - 1) + more
    <3> DEFINE u == n * (max - 1)
               v == max * n
               w == n * (2 * max - 1)
    <3>1. u \in Int /\ v \in Int /\ u + v = w /\ sg <= u + more /\ sf <= sg + v
      BY <2>4, <2>5, <2>8
    <3> HIDE DEF u, v, sf, sg, more
    <3>2. sf <= (u + v) + more  BY <2>6, <2>7, <3>1
    <3> HIDE DEF w
    <3>3. sf <= w + more  BY <3>1, <3>2
    <3> QED  BY <3>3 DEF w
  <2> QED  BY <2>2, <2>3, <2>9
<1>3. ASSUME NEW p \in Limiter!Places, NEW c \in Clients,
             bucket[p][c].left > 0, bucket[p][c].count >= Limiter!MaxOf(c)
      PROVE  Limiter!Recent(p, c) >= Limiter!MaxOf(c)
  <2> DEFINE b == bucket[p][c]
             row == passed[p][c]
             max == Limiter!MaxOf(c)
             m == Window - b.left + 1
  <2>1. /\ Window \in Nat \ {0} /\ max \in Nat \ {0} /\ row \in Rows /\ b \in Buckets
        /\ b.left > 0 /\ b.count >= max
    BY <1>1, <1>3, LimiterFinite
  <2>2. b.count \in Nat /\ b.left \in 1 .. Window
    <3> HIDE DEF b, max
    <3> QED  BY <2>1 DEF Buckets
  <2>3. m \in 0 .. Window /\ Window \in 0 .. Window  BY <2>1, <2>2
  <2>4. Fits(b, row, max)  BY DEF LimiterInv
  <2>5. Limiter!Recent(p, c) = UpTo(row, Window)  BY <1>1
  <2> HIDE DEF b, row, max
  <2>6. Given(b, max) = max  BY <2>1, <2>2 DEF Given
  <2>7. UpTo(row, m) >= max  BY <2>1, <2>4, <2>6 DEF Fits
  <2> HIDE DEF m
  <2>8. UpTo(row, m) <= UpTo(row, Window) /\ UpTo(row, m) \in Nat /\ UpTo(row, Window) \in Nat
    BY <2>1, <2>3, UpToGrows, UpToAdds
  <2>9. UpTo(row, Window) >= max  BY <2>1, <2>7, <2>8
  <2> QED  BY <2>5, <2>9 DEF max
<1> QED
  BY <1>2, <1>3 DEF LimiterHonest, Limiter!LimiterHonest, Limiter!SlidingBound, Limiter!RefusedForCause

(* However the requests of a caller fall about the boundaries of its       *)
(* windows, whatever instances they reach and however often these restart, *)
(* no more gets through than the limiter promises, and a 429 is given only *)
(* where the whole limit was let through.                                  *)
THEOREM LimiterHonestHolds ==
  ASSUME Limiter!LimiterAssumption
  PROVE  Limiter!Spec => []LimiterHonest
<1>1. Limiter!Init => LimiterInv  BY LimiterStarts
<1>2. LimiterInv /\ [Limiter!Next]_(Limiter!limiterVars) => LimiterInv'  BY LimiterSteps
<1>3. LimiterInv => LimiterHonest  BY LimiterBounds
<1> QED  BY <1>1, <1>2, <1>3, PTL DEF Limiter!Spec
-----------------------------------------------------------------------------
(* The migrations.                                                         *)

(* What a table may say of a migration.                                    *)
Sums == {None} \cup UNION {{List[p][i] : i \in DOMAIN List[p]} : p \in Runs!Processes}

RunLocals == [pc : Runs!Places, seen : [Runs!Ids -> Sums], next : Nat \ {0}]

RunsTyped ==
  /\ recorded \in [Runs!Tables -> [Runs!Ids -> Sums]]
  /\ executed \in [Runs!Tables -> [Runs!Ids -> Nat]]
  /\ process \in [Runs!Processes -> RunLocals]
  /\ lock \in Boots \cup {None}

(* Between its lock and its unlock a boot is alone, and so is a script     *)
(* while none has overlapped another.                                      *)
Exclusive ==
  /\ \A p \in Boots : process[p].pc \in {"reading", "applying"} => lock = p
  /\ \A p \in Runs!Processes : process[p].pc = "waiting" => p \in Boots
  /\ ~overlapped => \A p \in Scripts, q \in Scripts : Runs!Running(p) /\ Runs!Running(q) => p = q

(* Of a process at l that is alone, the copy of the table tells what the   *)
(* table does of the migrations still to come, and those before are there. *)
InStep(p, l) ==
  l.pc = "applying" /\ (p \in Boots \/ ~(overlapped \/ Forced)) =>
    LET row == recorded[Runs!TableOf(p)]
    IN /\ l.next <= Len(List[p]) + 1
       /\ \A i \in Runs!Ids : i >= l.next => l.seen[i] = row[i]
       /\ \A i \in 1 .. l.next - 1 :
            /\ row[i] # None
            /\ p \in Boots /\ ~AllowDrift => row[i] = List[p][i]

(* Boots record what some boot ships with.                                 *)
FromBoots ==
  \A i \in Runs!Ids : recorded["schema_migrations"][i] # None =>
    \E q \in Boots : i \in DOMAIN List[q] /\ recorded["schema_migrations"][i] = List[q][i]

RunsInv ==
  /\ RunsTyped /\ Exclusive /\ FromBoots
  /\ \A p \in Runs!Processes : InStep(p, process[p])
  /\ Runs!AppliedOnce /\ ~clashed /\ Runs!ServesItsSchema

(* A step of one process that changes no row: its locals become r, and the *)
(* lock stays with any boot that had it but this one.                      *)
LEMMA RunsQuietly ==
  ASSUME Runs!MigrationsAssumption, RunsInv,
         NEW p \in Runs!Processes, NEW r \in RunLocals, process' = [process EXCEPT ![p] = r],
         UNCHANGED <<recorded, executed, clashed>>, overlapped => overlapped',
         lock' \in Boots \cup {None}, \A q \in Boots \ {p} : lock = q => lock' = q,
         p \in Boots /\ r.pc \in {"reading", "applying"} => lock' = p,
         r.pc = "waiting" => p \in Boots,
         p \in Scripts /\ r.pc \notin {"off", "done", "exited"} =>
           overlapped' \/ \A q \in Scripts \ {p} : ~Runs!Running(q),
         InStep(p, r),
         p \in Boots /\ r.pc = "done" =>
           \A i \in DOMAIN List[p] :
             /\ recorded["schema_migrations"][i] # None
             /\ ~AllowDrift => recorded["schema_migrations"][i] = List[p][i]
  PROVE  RunsInv'
<1>1. /\ process'[p] = r /\ \A q \in Runs!Processes \ {p} : process'[q] = process[q]
      /\ process' \in [Runs!Processes -> RunLocals]
  BY DEF RunsInv, RunsTyped
<1>2. RunsTyped'  BY <1>1 DEF RunsInv, RunsTyped, Sums, RunLocals
<1>3. Exclusive'
  <2>1. ASSUME NEW q \in Boots, process'[q].pc \in {"reading", "applying"} PROVE lock' = q
    <3>1. CASE q = p  BY <1>1, <2>1, <3>1
    <3>2. CASE q # p
      <4>1. process'[q] = process[q]  BY <1>1, <3>2 DEF Runs!Processes
      <4>2. lock = q  BY <2>1, <4>1 DEF RunsInv, Exclusive
      <4> QED  BY <3>2, <4>2
    <3> QED  BY <3>1, <3>2
  <2>2. ASSUME ~overlapped', NEW q \in Scripts, NEW s \in Scripts, q # s,
               Runs!Running(q)', Runs!Running(s)'
        PROVE  FALSE
    <3>1. ~overlapped  BY <2>2
    <3>2. \A u \in Scripts \ {p} : Runs!Running(u)' = Runs!Running(u)
      BY <1>1 DEF Runs!Running, Runs!At, Runs!Processes
    <3>3. CASE p \notin {q, s}  BY <2>2, <3>1, <3>2, <3>3 DEF RunsInv, Exclusive
    <3>4. CASE p \in {q, s}
      <4>1. p \in Scripts /\ Runs!Running(p)'  BY <2>2, <3>4
      <4>2. r.pc \notin {"off", "done", "exited"}  BY <1>1, <4>1 DEF Runs!Running, Runs!At
      <4>3. \A u \in Scripts \ {p} : ~Runs!Running(u)  BY <2>2, <4>1, <4>2
      <4> QED  BY <2>2, <3>2, <3>4, <4>3
    <3> QED  BY <3>3, <3>4
  <2>3. \A q \in Runs!Processes : process'[q].pc = "waiting" => q \in Boots
    BY <1>1 DEF RunsInv, Exclusive
  <2> QED  BY <2>1, <2>2, <2>3 DEF Exclusive
<1>4. FromBoots'  BY DEF RunsInv, FromBoots
<1>5. ASSUME NEW q \in Runs!Processes PROVE InStep(q, process[q])'
  <2>1. InStep(q, process'[q])
    <3>1. CASE q = p  BY <1>1, <3>1
    <3>2. CASE q # p  BY <1>1, <3>2 DEF RunsInv
    <3> QED  BY <3>1, <3>2
  <2> QED  BY <2>1 DEF InStep
<1>6. Runs!AppliedOnce'  BY DEF RunsInv, Runs!AppliedOnce
<1>7. Runs!ServesItsSchema'
  <2> SUFFICES ASSUME NEW q \in Boots, process'[q].pc = "done", NEW i \in DOMAIN List[q]
               PROVE  recorded["schema_migrations"][i] \in
                        IF AllowDrift THEN {List[u][i] : u \in {v \in Boots : i \in DOMAIN List[v]}}
                        ELSE {List[q][i]}
    BY DEF Runs!ServesItsSchema, Runs!At
  <2>0. q \in Runs!Processes  BY DEF Runs!Processes
  <2>1. CASE q = p
    <3>1. i \in Runs!Ids  BY <2>0 DEF Runs!Ids
    <3> QED  BY <1>1, <2>1, <3>1 DEF RunsInv, FromBoots
  <2>2. CASE q # p
    <3>1. process[q].pc = "done"  BY <1>1, <2>0, <2>2
    <3> QED  BY <3>1 DEF RunsInv, Runs!ServesItsSchema, Runs!At
  <2> QED  BY <2>1, <2>2
<1> QED  BY <1>2, <1>3, <1>4, <1>5, <1>6, <1>7 DEF RunsInv

(* However a process ends, it is out of the way.                           *)
LEMMA RunsExit ==
  ASSUME Runs!MigrationsAssumption, RunsInv, NEW p \in Runs!Processes, Runs!Exit(p),
         UNCHANGED <<recorded, executed, clashed, overlapped>>
  PROVE  RunsInv'
<1> DEFINE r == [Runs!Off EXCEPT !.pc = "exited"]
<1>1. r \in RunLocals /\ r.pc = "exited"
  BY DEF Runs!Off, Runs!Nothing, RunLocals, Runs!Places, Sums
<1>2. process' = [process EXCEPT ![p] = r]  BY DEF Runs!Exit
<1>3. lock' \in Boots \cup {None} /\ \A q \in Boots \ {p} : lock = q => lock' = q
  BY DEF Runs!Exit, RunsInv, RunsTyped
<1>4. InStep(p, r)  BY <1>1 DEF InStep
<1> HIDE DEF r
<1> QED  BY <1>1, <1>2, <1>3, <1>4, RunsQuietly

(* A step that moves a process on, short of applying anything.             *)
LEMMA RunsGoto ==
  ASSUME Runs!MigrationsAssumption, RunsInv, NEW p \in Runs!Processes,
         NEW place \in {"creating", "waiting", "reading"}, Runs!Goto(p, place),
         UNCHANGED <<recorded, executed, clashed>>, overlapped => overlapped',
         lock' \in Boots \cup {None}, \A q \in Boots \ {p} : lock = q => lock' = q,
         p \in Boots /\ place = "reading" => lock' = p,
         place = "waiting" => p \in Boots,
         p \in Scripts => overlapped' \/ \A q \in Scripts \ {p} : ~Runs!Running(q)
  PROVE  RunsInv'
<1> DEFINE r == [process[p] EXCEPT !.pc = place]
<1>1. r \in RunLocals /\ r.pc = place
  <2>1. process[p] \in RunLocals /\ place \in Runs!Places  BY DEF RunsInv, RunsTyped, Runs!Places
  <2> QED  BY <2>1 DEF RunLocals
<1>2. process' = [process EXCEPT ![p] = r]  BY DEF Runs!Goto
<1>3. InStep(p, r)  BY <1>1 DEF InStep
<1> HIDE DEF r
<1> QED  BY <1>1, <1>2, <1>3, RunsQuietly

(* Of a script under way that has not overlapped, no other is.             *)
LEMMA RunsAlone ==
  ASSUME RunsInv, NEW p \in Runs!Processes, Runs!Running(p), p \in Scripts
  PROVE  overlapped \/ \A q \in Scripts \ {p} : ~Runs!Running(q)
BY DEF RunsInv, Exclusive

(* A migration that is to be applied, and is not forced, was not.          *)
LEMMA ToApplyIsNew ==
  ASSUME Runs!MigrationsAssumption, RunsInv, NEW p \in Runs!Processes, Runs!ToApply(p),
         p \in Boots \/ ~(overlapped \/ Forced)
  PROVE  recorded[Runs!TableOf(p)][process[p].next] = None
<1> DEFINE i == process[p].next
<1>1. /\ process[p].pc = "applying" /\ ~Runs!Drifted(p) /\ i \in DOMAIN List[p]
      /\ ~Runs!Skipped(p, i)
  BY DEF Runs!ToApply, Runs!At
<1>2. i \in Runs!Ids /\ i \in Nat /\ i >= i
  <2>1. i \in Nat \ {0}  BY DEF RunsInv, RunsTyped, RunLocals
  <2> QED  BY <1>1, <2>1 DEF Runs!Ids
<1>3. process[p].seen[i] = recorded[Runs!TableOf(p)][i]
  BY <1>1, <1>2 DEF RunsInv, InStep
<1>4. p \in Boots => p \notin Scripts  BY DEF Runs!MigrationsAssumption
<1>5. process[p].seen[i] = None
  <2>1. CASE p \in Boots  BY <1>1, <1>4, <2>1 DEF Runs!Skipped
  <2>2. CASE p \notin Boots  BY <1>1, <2>2 DEF Runs!Skipped, Runs!Drifted
  <2> QED  BY <2>1, <2>2
<1> QED  BY <1>3, <1>5

(* BEGIN, the SQL, the record, COMMIT.                                     *)
LEMMA RunsApply ==
  ASSUME Runs!MigrationsAssumption, RunsInv, NEW p \in Runs!Processes, Runs!Apply(p)
  PROVE  RunsInv'
<1> DEFINE i == process[p].next
           t == Runs!TableOf(p)
           sure == p \in Boots \/ ~(overlapped \/ Forced)
           r == [process[p] EXCEPT !.next = @ + 1]
<1>1. /\ process[p] \in RunLocals /\ i \in Nat \ {0} /\ i \in DOMAIN List[p] /\ i \in Runs!Ids
      /\ process[p].pc = "applying" /\ t \in Runs!Tables /\ ~Runs!Drifted(p)
      /\ Len(List[p]) \in Nat /\ i <= Len(List[p]) /\ DOMAIN List[p] = 1 .. Len(List[p])
  <2>1. process[p] \in RunLocals /\ i \in DOMAIN List[p] /\ process[p].pc = "applying" /\ ~Runs!Drifted(p)
    BY DEF Runs!Apply, Runs!ToApply, RunsInv, RunsTyped, Runs!At
  <2>2. t \in Runs!Tables  BY DEF Runs!TableOf, Runs!Tables
  <2>3. Len(List[p]) \in Nat /\ DOMAIN List[p] = 1 .. Len(List[p])
    BY DEF Runs!MigrationsAssumption, Runs!Processes
  <2> QED  BY <2>1, <2>2, <2>3 DEF RunLocals, Runs!Ids
<1>2. sure => recorded[t][i] = None  BY ToApplyIsNew DEF Runs!Apply
<1>3. /\ recorded' = [recorded EXCEPT ![t][i] = List[p][i]]
      /\ executed' = [executed EXCEPT ![t][i] = @ + 1]
      /\ process' = [process EXCEPT ![p] = r]
      /\ UNCHANGED <<lock, clashed, overlapped>>
  BY <1>2 DEF Runs!Apply
<1>4. r \in RunLocals /\ r.pc = "applying" /\ r.next = i + 1 /\ r.seen = process[p].seen
  BY <1>1 DEF RunLocals
<1>5. List[p][i] \in Sums /\ List[p][i] # None
  BY <1>1 DEF Sums, Runs!MigrationsAssumption, Runs!Processes
<1> HIDE DEF r
<1>6. /\ process'[p] = r /\ \A q \in Runs!Processes \ {p} : process'[q] = process[q]
      /\ process' \in [Runs!Processes -> RunLocals]
  BY <1>3, <1>4 DEF RunsInv, RunsTyped
<1>7. /\ recorded'[t][i] = List[p][i] /\ executed'[t][i] = executed[t][i] + 1
      /\ \A u \in Runs!Tables, j \in Runs!Ids : <<u, j>> # <<t, i>> =>
           recorded'[u][j] = recorded[u][j] /\ executed'[u][j] = executed[u][j]
      /\ recorded' \in [Runs!Tables -> [Runs!Ids -> Sums]]
      /\ executed' \in [Runs!Tables -> [Runs!Ids -> Nat]]
  <2>1. /\ recorded \in [Runs!Tables -> [Runs!Ids -> Sums]]
        /\ executed \in [Runs!Tables -> [Runs!Ids -> Nat]]
    BY DEF RunsInv, RunsTyped
  <2> HIDE DEF i, t
  <2>2. executed[t][i] + 1 \in Nat  BY <1>1, <2>1
  <2> QED  BY <1>1, <1>3, <1>5, <2>1, <2>2
<1>8. p \in Boots => p \notin Scripts /\ t = "schema_migrations"
  BY DEF Runs!MigrationsAssumption, Runs!TableOf
<1>9. p \notin Boots => p \in Scripts /\ t = "belay_migrations"
  BY DEF Runs!Processes, Runs!TableOf
<1> HIDE DEF t, i
<1>t. t = Runs!TableOf(p) /\ i = process[p].next  BY DEF t, i
<1>10. RunsTyped'  BY <1>3, <1>6, <1>7 DEF RunsInv, RunsTyped, RunLocals, Sums
<1>11. \A q \in Runs!Processes : process'[q].pc = process[q].pc
  BY <1>1, <1>4, <1>6
<1>12. Exclusive'
  <2>1. Boots \subseteq Runs!Processes /\ Scripts \subseteq Runs!Processes  BY DEF Runs!Processes
  <2> QED  BY <1>3, <1>11, <2>1 DEF RunsInv, Exclusive, Runs!Running, Runs!At
<1>13. FromBoots'
  <2> SUFFICES ASSUME NEW j \in Runs!Ids, recorded'["schema_migrations"][j] # None
               PROVE  \E q \in Boots : j \in DOMAIN List[q] /\ recorded'["schema_migrations"][j] = List[q][j]
    BY DEF FromBoots
  <2>1. "schema_migrations" \in Runs!Tables  BY DEF Runs!Tables
  <2>2. CASE t = "schema_migrations" /\ j = i
    <3>1. p \in Boots  BY <1>9, <2>2
    <3> QED  BY <1>1, <1>7, <2>2, <3>1
  <2>3. CASE ~(t = "schema_migrations" /\ j = i)
    <3>1. <<"schema_migrations", j>> # <<t, i>>  BY <2>3
    <3>2. recorded'["schema_migrations"][j] = recorded["schema_migrations"][j]  BY <1>7, <2>1, <3>1
    <3> QED  BY <3>2 DEF RunsInv, FromBoots
  <2> QED  BY <2>2, <2>3
<1>14. ASSUME sure
       PROVE  /\ i <= Len(List[p]) + 1
              /\ \A j \in Runs!Ids : j >= i => process[p].seen[j] = recorded[t][j]
              /\ \A j \in 1 .. i - 1 : recorded[t][j] # None
                   /\ (p \in Boots /\ ~AllowDrift => recorded[t][j] = List[p][j])
  BY <1>1, <1>14, <1>t DEF RunsInv, InStep
<1>15. \A q \in Runs!Processes : \A j \in DOMAIN List[q] : j \in Runs!Ids  BY DEF Runs!Ids
<1>16. ASSUME NEW q \in Runs!Processes PROVE InStep(q, process[q])'
  <2> SUFFICES ASSUME process'[q].pc = "applying", q \in Boots \/ ~(overlapped \/ Forced)
               PROVE  /\ process'[q].next <= Len(List[q]) + 1
                      /\ \A j \in Runs!Ids : j >= process'[q].next =>
                           process'[q].seen[j] = recorded'[Runs!TableOf(q)][j]
                      /\ \A j \in 1 .. process'[q].next - 1 :
                           /\ recorded'[Runs!TableOf(q)][j] # None
                           /\ q \in Boots /\ ~AllowDrift => recorded'[Runs!TableOf(q)][j] = List[q][j]
    BY <1>3 DEF InStep
  <2>1. CASE q = p
    <3>1. sure /\ process'[q] = r  BY <1>6, <2>1
    <3>2. i + 1 <= Len(List[p]) + 1  BY <1>1
    <3>3. ASSUME NEW j \in Runs!Ids, j >= i + 1 PROVE r.seen[j] = recorded'[t][j]
      <4>0. j \in Int  BY <1>15 DEF Runs!Ids, Runs!MigrationsAssumption, Runs!Processes
      <4>1. j # i /\ j >= i  BY <1>1, <3>3, <4>0
      <4>2. recorded'[t][j] = recorded[t][j]  BY <1>1, <1>7, <4>1
      <4> QED  BY <1>4, <1>14, <3>1, <4>1, <4>2
    <3>4. ASSUME NEW j \in 1 .. i
          PROVE  recorded'[t][j] # None /\ (p \in Boots /\ ~AllowDrift => recorded'[t][j] = List[p][j])
      <4>1. CASE j = i  BY <1>5, <1>7, <4>1
      <4>2. CASE j # i
        <5>1. j \in 1 .. i - 1 /\ j \in DOMAIN List[p]  BY <1>1, <4>2
        <5>2. recorded'[t][j] = recorded[t][j]  BY <1>1, <1>7, <1>15, <4>2, <5>1
        <5> QED  BY <1>14, <3>1, <5>1, <5>2
      <4> QED  BY <4>1, <4>2
    <3>0. process'[p].next = i + 1 /\ Runs!TableOf(p) = t  BY <1>4, <1>t, <2>1, <3>1
    <3>5. process'[p].next - 1 = i /\ process'[p].next = i + 1 /\ Runs!TableOf(p) = t
      BY <1>1, <3>0
    <3>6. \A j \in Runs!Ids : j >= process'[p].next => process'[p].seen[j] = recorded'[t][j]
      BY <2>1, <3>1, <3>3, <3>5
    <3>7. \A j \in 1 .. process'[p].next - 1 :
            recorded'[t][j] # None /\ (p \in Boots /\ ~AllowDrift => recorded'[t][j] = List[p][j])
      BY <3>4, <3>5
    <3> QED  BY <2>1, <3>2, <3>5, <3>6, <3>7
  <2>2. CASE q # p
    <3>1. process'[q] = process[q]  BY <1>6, <2>2
    <3>2. Runs!TableOf(q) # t
      <4> SUFFICES ASSUME Runs!TableOf(q) = t PROVE FALSE  OBVIOUS
      <4>1. CASE p \in Boots
        <5>1. q \in Boots  BY <1>8, <4>1 DEF Runs!TableOf
        <5> QED  BY <1>1, <2>2, <3>1, <4>1, <5>1 DEF RunsInv, Exclusive
      <4>2. CASE p \notin Boots
        <5>1. q \in Scripts /\ ~overlapped /\ p \in Scripts
          BY <1>9, <4>2 DEF Runs!TableOf, Runs!Processes
        <5>2. Runs!Running(p) /\ Runs!Running(q)  BY <1>1, <3>1 DEF Runs!Running, Runs!At
        <5> QED  BY <2>2, <5>1, <5>2 DEF RunsInv, Exclusive
      <4> QED  BY <4>1, <4>2
    <3>3. Runs!TableOf(q) \in Runs!Tables  BY DEF Runs!TableOf, Runs!Tables
    <3>4. \A j \in Runs!Ids : recorded'[Runs!TableOf(q)][j] = recorded[Runs!TableOf(q)][j]
      BY <1>7, <3>2, <3>3
    <3>5. InStep(q, process[q])  BY DEF RunsInv
    <3>6. \A j \in 1 .. process[q].next - 1 : j \in Runs!Ids
      <4>1. process[q].next \in Nat \ {0}  BY DEF RunsInv, RunsTyped, RunLocals
      <4>2. DOMAIN List[q] = 1 .. Len(List[q]) /\ Len(List[q]) \in Nat
        BY DEF Runs!MigrationsAssumption, Runs!Processes
      <4>3. process[q].next <= Len(List[q]) + 1  BY <3>1, <3>5 DEF InStep
      <4>4. \A j \in 1 .. process[q].next - 1 : j \in DOMAIN List[q]  BY <4>1, <4>2, <4>3
      <4> QED  BY <1>15, <4>4
    <3> QED  BY <3>1, <3>4, <3>5, <3>6 DEF InStep
  <2> QED  BY <2>1, <2>2
<1>17. Runs!AppliedOnce'
  <2> SUFFICES ASSUME NEW u \in Runs!Tables, ~(u = "belay_migrations" /\ (overlapped \/ Forced)),
                      NEW k \in Runs!Ids
               PROVE  /\ executed'[u][k] = IF recorded'[u][k] = None THEN 0 ELSE 1
                      /\ \A j \in 1 .. k - 1 : recorded'[u][k] # None => recorded'[u][j] # None
    BY <1>3 DEF Runs!AppliedOnce
  <2>1. /\ executed[u][k] = IF recorded[u][k] = None THEN 0 ELSE 1
        /\ \A j \in 1 .. k - 1 : recorded[u][k] # None => recorded[u][j] # None
    BY DEF RunsInv, Runs!AppliedOnce
  <2>2. \A j \in 1 .. k - 1 : j \in Runs!Ids
    <3>1. PICK q \in Runs!Processes : k \in DOMAIN List[q]  BY DEF Runs!Ids
    <3>2. DOMAIN List[q] = 1 .. Len(List[q]) /\ Len(List[q]) \in Nat
      BY DEF Runs!MigrationsAssumption, Runs!Processes
    <3>3. \A j \in 1 .. k - 1 : j \in DOMAIN List[q]  BY <3>1, <3>2
    <3> QED  BY <1>15, <3>3
  <2>3. \A j \in Runs!Ids : recorded[u][j] # None => recorded'[u][j] # None
    <3> SUFFICES ASSUME NEW j \in Runs!Ids, recorded[u][j] # None PROVE recorded'[u][j] # None
      OBVIOUS
    <3>1. CASE <<u, j>> = <<t, i>>  BY <1>5, <1>7, <3>1
    <3>2. CASE <<u, j>> # <<t, i>>  BY <1>7, <3>2
    <3> QED  BY <3>1, <3>2
  <2>4. CASE <<u, k>> = <<t, i>>
    <3>0. u = t /\ k = i  BY <2>4
    <3>1. sure
      <4>1. CASE p \in Boots  BY <4>1
      <4>2. CASE p \notin Boots  BY <1>9, <3>0, <4>2
      <4> QED  BY <4>1, <4>2
    <3>2. recorded[t][i] = None  BY <1>2, <1>t, <3>1
    <3>3. executed'[t][i] = 1 /\ recorded'[t][i] # None
      <4>1. executed[t][i] = 0  BY <2>1, <3>0, <3>2
      <4> QED  BY <1>5, <1>7, <4>1
    <3>4. \A j \in 1 .. i - 1 : recorded[t][j] # None  BY <1>14, <3>1
    <3> QED  BY <2>2, <2>3, <3>0, <3>3, <3>4
  <2>5. CASE <<u, k>> # <<t, i>>
    <3>1. recorded'[u][k] = recorded[u][k] /\ executed'[u][k] = executed[u][k]  BY <1>7, <2>5
    <3> QED  BY <2>1, <2>2, <2>3, <3>1
  <2> QED  BY <2>4, <2>5
<1>18. Runs!ServesItsSchema'
  <2> SUFFICES ASSUME NEW q \in Boots, process'[q].pc = "done", NEW j \in DOMAIN List[q]
               PROVE  recorded'["schema_migrations"][j] \in
                        IF AllowDrift THEN {List[u][j] : u \in {v \in Boots : j \in DOMAIN List[v]}}
                        ELSE {List[q][j]}
    BY DEF Runs!ServesItsSchema, Runs!At
  <2>0. q \in Runs!Processes /\ "schema_migrations" \in Runs!Tables
    BY DEF Runs!Processes, Runs!Tables
  <2>1. recorded["schema_migrations"][j] \in
          IF AllowDrift THEN {List[u][j] : u \in {v \in Boots : j \in DOMAIN List[v]}}
          ELSE {List[q][j]}
    <3>1. process[q].pc = "done"  BY <1>11, <2>0
    <3> QED  BY <3>1 DEF RunsInv, Runs!ServesItsSchema, Runs!At
  <2>2. recorded["schema_migrations"][j] # None
    <3>1. \A u \in Boots : j \in DOMAIN List[u] => List[u][j] # None
      BY DEF Runs!MigrationsAssumption, Runs!Processes
    <3> QED  BY <2>1, <3>1
  <2>3. <<"schema_migrations", j>> # <<t, i>>
    <3> SUFFICES ASSUME t = "schema_migrations", j = i PROVE FALSE  OBVIOUS
    <3>1. sure  BY <1>9
    <3> QED  BY <1>2, <1>t, <2>2, <3>1
  <2>4. recorded'["schema_migrations"][j] = recorded["schema_migrations"][j]
    BY <1>7, <1>15, <2>0, <2>3
  <2> QED  BY <2>1, <2>4
<1> QED  BY <1>3, <1>10, <1>12, <1>13, <1>16, <1>17, <1>18 DEF RunsInv

LEMMA RunsNext ==
  ASSUME Runs!MigrationsAssumption, RunsInv, [Runs!Next]_(Runs!migrationVars)
  PROVE  RunsInv'
<1>0. /\ lock \in Boots \cup {None}
      /\ \A p \in Runs!Processes : process[p] \in RunLocals
  BY DEF RunsInv, RunsTyped
<1>1. ASSUME NEW p \in Runs!Processes, Runs!Start(p) PROVE RunsInv'
  <2>1. PICK place \in {"creating", "waiting", "reading"} :
          /\ Runs!Goto(p, place) /\ (p \in Boots => place # "reading")
          /\ place = "waiting" => p \in Boots
    BY <1>1 DEF Runs!Start
  <2>2. UNCHANGED <<recorded, executed, clashed, lock>>  BY <1>1 DEF Runs!Start
  <2>3. /\ overlapped => overlapped'
        /\ p \in Scripts => overlapped' \/ \A q \in Scripts \ {p} : ~Runs!Running(q)
    BY <1>1 DEF Runs!Start
  <2> QED  BY <1>0, <2>1, <2>2, <2>3, RunsGoto
<1>2. ASSUME NEW p \in Runs!Processes, Runs!Lock(p) PROVE RunsInv'
  <2>1. /\ lock = None /\ lock' = p /\ Runs!Goto(p, "reading") /\ process[p].pc = "waiting"
        /\ UNCHANGED <<recorded, executed, clashed, overlapped>>
    BY <1>2 DEF Runs!Lock, Runs!At
  <2>2. p \in Boots  BY <2>1 DEF RunsInv, Exclusive
  <2>3. p \notin Scripts /\ None \notin Boots  BY <2>2 DEF Runs!MigrationsAssumption
  <2> QED  BY <1>0, <2>1, <2>2, <2>3, RunsGoto
<1>3. ASSUME NEW p \in Runs!Processes, Runs!Create(p) PROVE RunsInv'
  <2>1. UNCHANGED <<recorded, executed, clashed, overlapped>>  BY <1>3 DEF Runs!Create
  <2>2. CASE Runs!Exit(p)  BY <2>1, <2>2, RunsExit
  <2>3. CASE UNCHANGED lock /\ Runs!Goto(p, IF p \in Boots THEN "waiting" ELSE "reading")
    <3>1. PICK place \in {"creating", "waiting", "reading"} :
            /\ Runs!Goto(p, place) /\ (p \in Boots => place # "reading")
            /\ place = "waiting" => p \in Boots
      BY <2>3
    <3>2. Runs!Running(p)  BY <1>3 DEF Runs!Create, Runs!Running, Runs!At
    <3> QED  BY <1>0, <2>1, <2>3, <3>1, <3>2, RunsAlone, RunsGoto
  <2> QED  BY <1>3, <2>2, <2>3 DEF Runs!Create
<1>4. ASSUME NEW p \in Runs!Processes, Runs!Read(p) PROVE RunsInv'
  <2> DEFINE r == [pc |-> "applying", seen |-> recorded[Runs!TableOf(p)], next |-> 1]
  <2>1. /\ process' = [process EXCEPT ![p] = r] /\ process[p].pc = "reading"
        /\ UNCHANGED <<recorded, executed, clashed, overlapped, lock>>
    BY <1>4 DEF Runs!Read, Runs!At
  <2>2. r \in RunLocals
    BY DEF RunLocals, Runs!Places, RunsInv, RunsTyped, Runs!TableOf, Runs!Tables
  <2>3. InStep(p, r)
    <3>1. 1 <= Len(List[p]) + 1  BY DEF Runs!MigrationsAssumption, Runs!Processes
    <3> QED  BY <3>1 DEF InStep
  <2>4. Runs!Running(p) /\ (p \in Boots => lock = p)
    BY <2>1 DEF Runs!Running, Runs!At, RunsInv, Exclusive
  <2>5. r.pc = "applying"  OBVIOUS
  <2> HIDE DEF r
  <2> QED  BY <1>0, <2>1, <2>2, <2>3, <2>4, <2>5, RunsAlone, RunsQuietly
<1>5. ASSUME NEW p \in Runs!Processes, Runs!Skip(p) PROVE RunsInv'
  <2> DEFINE i == process[p].next
             r == [process[p] EXCEPT !.next = @ + 1]
  <2>1. /\ process' = [process EXCEPT ![p] = r] /\ process[p].pc = "applying"
        /\ i \in DOMAIN List[p] /\ Runs!Skipped(p, i) /\ ~Runs!Drifted(p)
        /\ UNCHANGED <<recorded, executed, clashed, overlapped, lock>>
    BY <1>5 DEF Runs!Skip, Runs!At
  <2>2. i \in Nat \ {0} /\ i \in Runs!Ids  BY <1>0, <2>1 DEF RunLocals, Runs!Ids
  <2>3. r \in RunLocals /\ r.pc = "applying" /\ r.next = i + 1 /\ r.seen = process[p].seen
    BY <1>0, <2>1 DEF RunLocals
  <2>4. InStep(p, r)
    <3> SUFFICES ASSUME p \in Boots \/ ~(overlapped \/ Forced)
                 PROVE  /\ i + 1 <= Len(List[p]) + 1
                        /\ \A j \in Runs!Ids : j >= i + 1 =>
                             process[p].seen[j] = recorded[Runs!TableOf(p)][j]
                        /\ \A j \in 1 .. i :
                             /\ recorded[Runs!TableOf(p)][j] # None
                             /\ p \in Boots /\ ~AllowDrift => recorded[Runs!TableOf(p)][j] = List[p][j]
      BY <2>2, <2>3 DEF InStep
    <3>1. /\ \A j \in Runs!Ids : j >= i => process[p].seen[j] = recorded[Runs!TableOf(p)][j]
          /\ \A j \in 1 .. i - 1 :
               /\ recorded[Runs!TableOf(p)][j] # None
               /\ p \in Boots /\ ~AllowDrift => recorded[Runs!TableOf(p)][j] = List[p][j]
      BY <2>1 DEF RunsInv, InStep
    <3>2. i <= Len(List[p]) /\ Len(List[p]) \in Nat
      BY <2>1, <2>2 DEF Runs!MigrationsAssumption, Runs!Processes
    <3>3. \A j \in Runs!Ids : j \in Int
      BY DEF Runs!Ids, Runs!MigrationsAssumption, Runs!Processes
    <3>4. recorded[Runs!TableOf(p)][i] = process[p].seen[i]  BY <2>2, <3>1
    <3>5. process[p].seen[i] # None  BY <2>1 DEF Runs!Skipped
    <3>6. p \in Boots /\ ~AllowDrift => process[p].seen[i] = List[p][i]
      BY <2>1, <3>5 DEF Runs!Drifted, Runs!Changed
    <3> HIDE DEF i
    <3>7. \A j \in 1 .. i : j = i \/ j \in 1 .. i - 1  BY <2>2
    <3>8. \A j \in Runs!Ids : j >= i + 1 => j >= i  BY <2>2, <3>3
    <3>9. i + 1 <= Len(List[p]) + 1  BY <2>2, <3>2
    <3> QED  BY <3>1, <3>4, <3>5, <3>6, <3>7, <3>8, <3>9
  <2>5. Runs!Running(p) /\ (p \in Boots => lock = p)
    BY <2>1 DEF Runs!Running, Runs!At, RunsInv, Exclusive
  <2> HIDE DEF r
  <2> QED  BY <1>0, <2>1, <2>3, <2>4, <2>5, RunsAlone, RunsQuietly
<1>6. ASSUME NEW p \in Runs!Processes, Runs!Finish(p) PROVE RunsInv'
  <2> DEFINE r == [Runs!Off EXCEPT !.pc = "done"]
  <2>1. /\ process' = [process EXCEPT ![p] = r] /\ process[p].pc = "applying"
        /\ process[p].next \notin DOMAIN List[p]
        /\ UNCHANGED <<recorded, executed, clashed, overlapped>>
        /\ lock' = IF lock = p THEN None ELSE lock
    BY <1>6 DEF Runs!Finish, Runs!At
  <2>2. r \in RunLocals /\ r.pc = "done"
    BY DEF Runs!Off, Runs!Nothing, RunLocals, Runs!Places, Sums
  <2>3. ASSUME p \in Boots, NEW i \in DOMAIN List[p]
        PROVE  /\ recorded["schema_migrations"][i] # None
               /\ ~AllowDrift => recorded["schema_migrations"][i] = List[p][i]
    <3>1. Runs!TableOf(p) = "schema_migrations"  BY <2>3 DEF Runs!TableOf
    <3>2. i \in 1 .. process[p].next - 1
      <4>1. process[p].next \in Nat \ {0}  BY <1>0 DEF RunLocals
      <4>2. DOMAIN List[p] = 1 .. Len(List[p]) /\ Len(List[p]) \in Nat
        BY DEF Runs!MigrationsAssumption, Runs!Processes
      <4> QED  BY <2>1, <2>3, <4>1, <4>2
    <3> QED  BY <2>1, <2>3, <3>1, <3>2 DEF RunsInv, InStep
  <2>4. InStep(p, r)  BY <2>2 DEF InStep
  <2> HIDE DEF r
  <2>5. lock' \in Boots \cup {None} /\ \A q \in Boots \ {p} : lock = q => lock' = q
    BY <1>0, <2>1
  <2> QED  BY <2>1, <2>2, <2>3, <2>4, <2>5, RunsQuietly
<1>7. ASSUME NEW p \in Runs!Processes, Runs!Drift(p) \/ Runs!ApplyFails(p) \/ Runs!Crash(p)
      PROVE  RunsInv'
  <2>1. Runs!Exit(p) /\ UNCHANGED <<recorded, executed, clashed, overlapped>>
    BY <1>7 DEF Runs!Drift, Runs!ApplyFails, Runs!Crash
  <2> QED  BY <2>1, RunsExit
<1>8. CASE UNCHANGED Runs!migrationVars
  <2>1. UNCHANGED <<made, recorded, lock, process, faults, executed, overlapped, clashed>>
    BY <1>8 DEF Runs!migrationVars
  <2>2. RunsTyped' /\ FromBoots'  BY <2>1 DEF RunsInv, RunsTyped, FromBoots
  <2>3. \A p : Runs!Running(p)' <=> Runs!Running(p)  BY <2>1 DEF Runs!Running, Runs!At
  <2>4. Exclusive'  BY <2>1, <2>3 DEF RunsInv, Exclusive
  <2>5. \A p \in Runs!Processes : InStep(p, process[p])'  BY <2>1 DEF RunsInv, InStep
  <2>6. Runs!AppliedOnce' /\ ~clashed' /\ Runs!ServesItsSchema'
    BY <2>1 DEF RunsInv, Runs!AppliedOnce, Runs!ServesItsSchema, Runs!At
  <2> QED  BY <2>2, <2>4, <2>5, <2>6 DEF RunsInv
<1> QED
  BY <1>1, <1>2, <1>3, <1>4, <1>5, <1>6, <1>7, <1>8, RunsApply DEF Runs!Next, Runs!Step

(* Whatever boots and runs of the script meet on one database, and die or  *)
(* fail at whatever step: no migration is committed twice or passed over,  *)
(* no boot's insert meets the row of another, and an instance that serves  *)
(* has the schema it ships with (migrations.ts:100-149).                   *)
THEOREM BootsSafeHolds ==
  ASSUME Runs!MigrationsAssumption
  PROVE  Runs!Spec => []BootsSafe
<1>1. Runs!Init => RunsInv
  <2> SUFFICES ASSUME Runs!Init PROVE RunsInv  OBVIOUS
  <2> USE DEF Runs!Init, Runs!Nothing, Runs!Off
  <2>1. RunsTyped  BY DEF RunsTyped, RunLocals, Runs!Places, Sums
  <2>2. \A p \in Runs!Processes : process[p].pc = "off"  OBVIOUS
  <2>3. Exclusive  BY <2>2 DEF Exclusive, Runs!Running, Runs!At, Runs!Processes
  <2>4. FromBoots  BY DEF FromBoots, Runs!Tables
  <2>5. \A p \in Runs!Processes : InStep(p, process[p])  BY <2>2 DEF InStep
  <2>6. Runs!AppliedOnce  BY DEF Runs!AppliedOnce
  <2>7. Runs!ServesItsSchema  BY <2>2 DEF Runs!ServesItsSchema, Runs!At, Runs!Processes
  <2> QED  BY <2>1, <2>3, <2>4, <2>5, <2>6, <2>7 DEF RunsInv
<1>2. RunsInv => BootsSafe  BY DEF RunsInv, BootsSafe, Runs!BootsSafe, Runs!NoClash
<1>3. RunsInv /\ [Runs!Next]_(Runs!migrationVars) => RunsInv'  BY RunsNext
<1> QED  BY <1>1, <1>2, <1>3, PTL DEF Runs!Spec
-----------------------------------------------------------------------------
(* The delivery of events.                                                 *)

BusLocals ==
  [pc : {"unpublished", "waiting", "running", "sinking", "over"}, next : 1 .. Subscribers + 1, attempt : Nat,
   stalled : BOOLEAN]

BusLetters == Bus!Jobs \X (0 .. Subscribers)

Active(l) == l.pc \in {"waiting", "running", "sinking"}

(* A subscriber has handled an event, was given up, or is still on record  *)
(* with a publication after the n-th: a job that will come to it, or a     *)
(* dead letter.                                                            *)
Cover(e, s, n) ==
  \/ handled[e][s] > 0
  \/ <<e, s>> \in excused
  \/ \E j \in Bus!Jobs : j[1] = e /\ j[2] > n /\ Active(job[j]) /\ job[j].next <= s
  \/ \E l \in letters : l[1][2] > n /\ <<e, s>> \in Bus!LetterPairs(l)

BusTyped ==
  /\ kind \in {"process", "memory", "redis"}
  /\ phase \in {"up", "draining", "closing"}
  /\ job \in [Bus!Jobs -> BusLocals]
  /\ handled \in [Events -> [Bus!Numbers -> Nat]]
  /\ operator \in [Operators -> [pc : {"idle", "replaying", "deleting"}, letter : BusLetters \cup {<<>>}]]

(* A dead letter is of a job there was; in process it is of one subscriber *)
(* that failed.                                                            *)
Genuine(l) ==
  /\ l \in BusLetters /\ job[l[1]].pc # "unpublished"
  /\ kind = "process" => l[2] # Bus!All /\ <<l[1][1], l[2]>> \in failed

(* Where a job is: who waits will begin anew, in process nobody does, and  *)
(* once the process closes nothing is under way there.                     *)
Placed(l) ==
  /\ l.pc \in {"unpublished", "waiting"} => l.next = 1
  /\ l.pc \in {"running", "sinking"} => l.next <= Subscribers
  /\ kind = "process" => l.pc # "waiting" /\ (phase = "closing" => l.pc \notin {"running", "sinking"})

BusOrdered ==
  /\ \A j \in Bus!Jobs : Placed(job[j])
  /\ \A i \in Bus!Jobs, j \in Bus!Jobs :
       i[1] = j[1] /\ i[2] < j[2] /\ job[j].pc # "unpublished" => job[i].pc # "unpublished"
  /\ \A l \in letters : Genuine(l)
  /\ \A o \in Operators : operator[o].pc # "idle" => Genuine(operator[o].letter) /\ phase # "closing"

(* What an operator is about to delete is on record with a publication     *)
(* after the deleted one: were it only with that letter, or with another   *)
(* that a second operator deletes, it would be lost.                       *)
Covered ==
  /\ \A e \in Events, s \in Bus!Numbers : Bus!Published(e) => Cover(e, s, 0)
  /\ \A o \in Operators : operator[o].pc = "deleting" =>
       \A e \in Events, s \in Bus!Numbers :
         <<e, s>> \in Bus!LetterPairs(operator[o].letter) => Cover(e, s, operator[o].letter[1][2])

(* In process an event is published once, and a subscriber that has not    *)
(* failed on it handles it when its turn comes.                            *)
InTurn ==
  /\ \A i \in Bus!Jobs, j \in Bus!Jobs :
       i[1] = j[1] /\ job[i].pc # "unpublished" /\ job[j].pc # "unpublished" => i = j
  /\ \A j \in Bus!Jobs : job[j].pc = "sinking" => <<j[1], job[j].next>> \in failed
  /\ \A e \in Events, s \in Bus!Numbers : <<e, s>> \notin failed =>
       /\ handled[e][s] <= 1
       /\ ~Bus!Published(e) => handled[e][s] = 0
       /\ \A j \in Bus!Jobs : j[1] = e /\ Active(job[j]) /\ job[j].next <= s => handled[e][s] = 0

BusInv == BusTyped /\ BusOrdered /\ Covered /\ (kind = "process" => InTurn)

(* A job and a dead letter, taken apart.                                   *)
LEMMA JobParts ==
  ASSUME Bus!DeliveryAssumption, NEW j \in Bus!Jobs
  PROVE  j[1] \in Events /\ j[2] \in Nat /\ j[2] > 0 /\ j = <<j[1], j[2]>>
BY DEF Bus!Jobs, Bus!DeliveryAssumption

LEMMA LetterParts ==
  ASSUME Bus!DeliveryAssumption, NEW l \in BusLetters
  PROVE  /\ l[1] \in Bus!Jobs /\ l[2] \in 0 .. Subscribers
         /\ \A e, s : <<e, s>> \in Bus!LetterPairs(l) <=>
              e = l[1][1] /\ s \in (IF l[2] = Bus!All THEN Bus!Numbers ELSE {l[2]})
BY DEF BusLetters, Bus!LetterPairs, Bus!Pairs, Bus!EventOf

LEMMA RestOf ==
  ASSUME Bus!DeliveryAssumption, BusTyped, NEW j \in Bus!Jobs
  PROVE  /\ job[j] \in BusLocals /\ job[j].next \in Nat \ {0}
         /\ \A s \in Bus!Numbers : job[j].next <= s => <<j[1], s>> \in Bus!Rest(j)
<1>1. job[j] \in BusLocals /\ job[j].next \in Nat \ {0} /\ Subscribers \in Nat
  BY DEF BusTyped, BusLocals, Bus!DeliveryAssumption
<1>2. ASSUME NEW s \in Bus!Numbers, job[j].next <= s PROVE <<j[1], s>> \in Bus!Rest(j)
  <2>1. s \in job[j].next .. Subscribers  BY <1>1, <1>2 DEF Bus!Numbers
  <2> QED  BY <2>1 DEF Bus!Rest, Bus!Pairs, Bus!EventOf
<1> QED  BY <1>1, <1>2

(* What a step keeps of the cover of a pair: who was handled or given up   *)
(* stays so, a job that will come to it goes on, settles it or leaves a    *)
(* letter, and a letter goes only with the pair given up.                  *)
Settled(e, s) == handled[e][s] > 0 \/ <<e, s>> \in excused

Keeps(e, s) ==
  /\ Settled(e, s) => Settled(e, s)'
  /\ \A j \in Bus!Jobs : j[1] = e /\ Active(job[j]) /\ job[j].next <= s =>
       \/ Settled(e, s)'
       \/ Active(job'[j]) /\ job'[j].next <= s
       \/ \E l \in letters' : l[1] = j /\ <<e, s>> \in Bus!LetterPairs(l)
  /\ \A l \in letters : <<e, s>> \in Bus!LetterPairs(l) => Settled(e, s)' \/ l \in letters'

LEMMA KeepsCover ==
  ASSUME NEW e, NEW s, NEW n, Keeps(e, s), Cover(e, s, n)
  PROVE  Cover(e, s, n)'
<1>1. CASE Settled(e, s)'  BY <1>1 DEF Cover, Settled
<1>2. CASE ~Settled(e, s)'
  <2>1. ~Settled(e, s)  BY <1>2 DEF Keeps
  <2>2. CASE \E j \in Bus!Jobs : j[1] = e /\ j[2] > n /\ Active(job[j]) /\ job[j].next <= s
    <3>1. PICK j \in Bus!Jobs : j[1] = e /\ j[2] > n /\ Active(job[j]) /\ job[j].next <= s
      BY <2>2
    <3>2. CASE Active(job'[j]) /\ job'[j].next <= s  BY <3>1, <3>2 DEF Cover, Active
    <3>3. CASE \E l \in letters' : l[1] = j /\ <<e, s>> \in Bus!LetterPairs(l)
      <4>1. PICK l \in letters' : l[1] = j /\ <<e, s>> \in Bus!LetterPairs(l)  BY <3>3
      <4>2. l[1][2] > n  BY <3>1, <4>1
      <4> QED  BY <4>1, <4>2 DEF Cover, Bus!LetterPairs, Bus!Pairs, Bus!EventOf
    <3> QED  BY <1>2, <3>1, <3>2, <3>3 DEF Keeps
  <2>3. CASE \E l \in letters : l[1][2] > n /\ <<e, s>> \in Bus!LetterPairs(l)
    <3>1. PICK l \in letters : l[1][2] > n /\ <<e, s>> \in Bus!LetterPairs(l)  BY <2>3
    <3>2. l \in letters'  BY <1>2, <3>1 DEF Keeps
    <3> QED  BY <3>1, <3>2 DEF Cover, Bus!LetterPairs, Bus!Pairs, Bus!EventOf
  <2> QED  BY <2>1, <2>2, <2>3 DEF Cover, Settled
<1> QED  BY <1>1, <1>2

LEMMA KeepsCovered ==
  ASSUME Covered, \A e \in Events, s \in Bus!Numbers : Keeps(e, s),
         \A e \in Events : Bus!Published(e)' =>
           Bus!Published(e) \/ \A s \in Bus!Numbers : Cover(e, s, 0)',
         \A o \in Operators : operator'[o].pc = "deleting" =>
           \/ operator'[o] = operator[o]
           \/ \A n : \A e \in Events, s \in Bus!Numbers :
                <<e, s>> \in Bus!LetterPairs(operator'[o].letter) /\ n = operator'[o].letter[1][2]
                  => Cover(e, s, n)'
  PROVE  Covered'
<1>1. ASSUME NEW e \in Events, NEW s \in Bus!Numbers, Bus!Published(e)' PROVE Cover(e, s, 0)'
  <2>1. CASE Bus!Published(e)
    <3>1. Keeps(e, s) /\ Cover(e, s, 0)  BY <2>1 DEF Covered
    <3> QED  BY <3>1, KeepsCover
  <2> QED  BY <1>1, <2>1
<1>2. ASSUME NEW o \in Operators, operator'[o].pc = "deleting", NEW e \in Events, NEW s \in Bus!Numbers,
             <<e, s>> \in Bus!LetterPairs(operator'[o].letter),
             NEW n, n = operator'[o].letter[1][2]
      PROVE  Cover(e, s, n)'
  <2>1. CASE operator'[o] = operator[o]
    <3>1. <<e, s>> \in Bus!LetterPairs(operator[o].letter) /\ n = operator[o].letter[1][2]
      BY <1>2, <2>1
    <3>2. Cover(e, s, operator[o].letter[1][2])  BY <1>2, <2>1, <3>1 DEF Covered
    <3>3. Keeps(e, s) /\ Cover(e, s, n)  BY <3>1, <3>2
    <3> QED  BY <3>3, KeepsCover
  <2> QED  BY <1>2, <2>1
<1>3. ASSUME NEW o \in Operators, operator'[o].pc = "deleting", NEW e \in Events, NEW s \in Bus!Numbers,
             <<e, s>> \in Bus!LetterPairs(operator'[o].letter)
      PROVE  Cover(e, s, operator[o].letter[1][2])'
  <2>1. PICK n : n = operator'[o].letter[1][2]  OBVIOUS
  <2>2. Cover(e, s, n)'  BY <1>2, <1>3, <2>1
  <2> QED  BY <2>1, <2>2 DEF Cover
<1> QED  BY <1>1, <1>3 DEF Covered, Bus!LetterPairs, Bus!Pairs, Bus!EventOf

(* A dead letter stays genuine.                                            *)
LEMMA GenuineStays ==
  ASSUME NEW l, Genuine(l), kind' = kind, failed \subseteq failed',
         \A j \in Bus!Jobs : job[j].pc # "unpublished" => job'[j].pc # "unpublished",
         Bus!DeliveryAssumption
  PROVE  Genuine(l)'
BY LetterParts DEF Genuine

(* A job under way moves on: its locals become r, it may have handled the  *)
(* event once more for the subscriber whose turn it was, and left a letter.*)
LEMMA BusMoves ==
  ASSUME Bus!DeliveryAssumption, BusInv, NEW j \in Bus!Jobs, NEW r \in BusLocals,
         job' = [job EXCEPT ![j] = r], Active(job[j]), r.pc # "unpublished",
         UNCHANGED <<kind, phase, operator>>, Placed(r),
         letters \subseteq letters', failed \subseteq failed', excused \subseteq excused',
         \A l \in letters' \ letters :
           /\ l \in BusLetters /\ l[1] = j
           /\ kind = "process" => l[2] # Bus!All /\ <<j[1], l[2]>> \in failed,
         \/ handled' = handled
         \/ /\ handled' = [handled EXCEPT ![j[1]][job[j].next] = @ + 1]
            /\ job[j].next \in Bus!Numbers
            /\ Active(r) /\ kind = "process" => r.next > job[j].next,
         \A s \in Bus!Numbers : job[j].next <= s =>
           \/ Settled(j[1], s)'
           \/ Active(r) /\ r.next <= s
           \/ \E l \in letters' : l[1] = j /\ <<j[1], s>> \in Bus!LetterPairs(l),
         kind = "process" =>
           /\ r.pc = "sinking" => <<j[1], r.next>> \in failed'
           /\ Active(r) => r.next >= job[j].next
  PROVE  BusInv'
<1>1. /\ job'[j] = r /\ \A i \in Bus!Jobs \ {j} : job'[i] = job[i]
      /\ job' \in [Bus!Jobs -> BusLocals]
  BY DEF BusInv, BusTyped
<1>2. \A i \in Bus!Jobs : (job'[i].pc = "unpublished" <=> job[i].pc = "unpublished")
  <2>1. job[j].pc # "unpublished"  BY DEF Active
  <2> QED  BY <1>1, <2>1
<1>3. /\ handled' \in [Events -> [Bus!Numbers -> Nat]]
      /\ \A e \in Events, s \in Bus!Numbers :
           handled'[e][s] = handled[e][s] + (IF handled' # handled /\ e = j[1] /\ s = job[j].next THEN 1 ELSE 0)
  <2>1. handled \in [Events -> [Bus!Numbers -> Nat]]  BY DEF BusInv, BusTyped
  <2>2. CASE handled' = handled  BY <2>1, <2>2
  <2>3. CASE handled' # handled
    <3> DEFINE s0 == job[j].next
               e0 == j[1]
    <3>1. handled' = [handled EXCEPT ![e0][s0] = @ + 1] /\ s0 \in Bus!Numbers /\ e0 \in Events
      BY <2>3, JobParts
    <3> HIDE DEF s0, e0
    <3>2. handled[e0][s0] + 1 \in Nat  BY <2>1, <3>1
    <3>3. handled' \in [Events -> [Bus!Numbers -> Nat]]  BY <2>1, <3>1, <3>2
    <3>4. \A e \in Events, s \in Bus!Numbers :
            handled'[e][s] = IF e = e0 /\ s = s0 THEN handled[e0][s0] + 1 ELSE handled[e][s]
      BY <2>1, <3>1
    <3>5. \A e \in Events, s \in Bus!Numbers : handled[e][s] \in Nat  BY <2>1
    <3> QED  BY <2>3, <3>3, <3>4, <3>5 DEF s0, e0
  <2> QED  BY <2>2, <2>3
<1>4. BusTyped'  BY <1>1, <1>3 DEF BusInv, BusTyped, BusLocals, BusLetters
<1>5. BusOrdered'
  <2>1. \A i \in Bus!Jobs : Placed(job[i])'
    <3>1. \A i \in Bus!Jobs : Placed(job'[i])
      BY <1>1 DEF BusInv, BusOrdered
    <3> QED  BY <3>1 DEF Placed
  <2>2. \A i \in Bus!Jobs, k \in Bus!Jobs :
          i[1] = k[1] /\ i[2] < k[2] /\ job'[k].pc # "unpublished" => job'[i].pc # "unpublished"
    BY <1>2 DEF BusInv, BusOrdered
  <2>3. ASSUME NEW l \in letters' PROVE Genuine(l)'
    <3>1. CASE l \in letters
      <4>1. Genuine(l)  BY <3>1 DEF BusInv, BusOrdered
      <4> QED  BY <1>2, <4>1, GenuineStays
    <3>2. CASE l \notin letters
      BY <1>1, <2>3, <3>2 DEF Genuine, BusLetters
    <3> QED  BY <3>1, <3>2
  <2>4. ASSUME NEW o \in Operators, operator'[o].pc # "idle"
        PROVE  Genuine(operator[o].letter)' /\ phase' # "closing"
    <3>1. Genuine(operator[o].letter) /\ phase # "closing"  BY <2>4 DEF BusInv, BusOrdered
    <3>2. PICK l : l = operator[o].letter  OBVIOUS
    <3>3. Genuine(l)'  BY <1>2, <3>1, <3>2, GenuineStays
    <3> QED  BY <3>1, <3>2, <3>3 DEF Genuine
  <2> QED  BY <2>1, <2>2, <2>3, <2>4 DEF BusOrdered
<1>6. Covered'
  <2>1. ASSUME NEW e \in Events, NEW s \in Bus!Numbers PROVE Keeps(e, s)
    <3>1. Settled(e, s) => Settled(e, s)'
      <4>1. handled[e][s] \in Nat  BY DEF BusInv, BusTyped
      <4>2. handled'[e][s] = handled[e][s] \/ handled'[e][s] = handled[e][s] + 1  BY <1>3, <4>1
      <4> QED  BY <4>1, <4>2 DEF Settled
    <3>2. ASSUME NEW i \in Bus!Jobs, i[1] = e, Active(job[i]), job[i].next <= s
          PROVE  \/ Settled(e, s)'
                 \/ Active(job'[i]) /\ job'[i].next <= s
                 \/ \E l \in letters' : l[1] = i /\ <<e, s>> \in Bus!LetterPairs(l)
      <4>1. CASE i = j  BY <1>1, <3>2, <4>1 DEF Settled
      <4>2. CASE i # j  BY <1>1, <3>2, <4>2
      <4> QED  BY <4>1, <4>2
    <3> QED  BY <3>1, <3>2 DEF Keeps
  <2>2. \A e \in Events : Bus!Published(e)' => Bus!Published(e)
    BY <1>2 DEF Bus!Published, Bus!EventOf
  <2>3. \A o \in Operators : operator'[o] = operator[o]  OBVIOUS
  <2> QED  BY <2>1, <2>2, <2>3, KeepsCovered DEF BusInv
<1>7. ASSUME kind = "process" PROVE InTurn'
  <2>0. InTurn  BY <1>7 DEF BusInv
  <2>1. \A i \in Bus!Jobs, k \in Bus!Jobs :
          i[1] = k[1] /\ job'[i].pc # "unpublished" /\ job'[k].pc # "unpublished" => i = k
    BY <1>2, <2>0 DEF InTurn
  <2>2. \A i \in Bus!Jobs : job'[i].pc = "sinking" => <<i[1], job'[i].next>> \in failed'
    BY <1>1, <1>7, <2>0 DEF InTurn
  <2>3. ASSUME NEW e \in Events, NEW s \in Bus!Numbers, <<e, s>> \notin failed'
        PROVE  /\ handled'[e][s] <= 1
               /\ ~Bus!Published(e)' => handled'[e][s] = 0
               /\ \A i \in Bus!Jobs : i[1] = e /\ Active(job'[i]) /\ job'[i].next <= s => handled'[e][s] = 0
    <3>1. <<e, s>> \notin failed  BY <2>3
    <3>2. /\ handled[e][s] <= 1 /\ handled[e][s] \in Nat
          /\ ~Bus!Published(e) => handled[e][s] = 0
          /\ \A i \in Bus!Jobs : i[1] = e /\ Active(job[i]) /\ job[i].next <= s => handled[e][s] = 0
      BY <2>0, <3>1 DEF InTurn, BusInv, BusTyped
    <3>3. Bus!Published(e) <=> Bus!Published(e)'  BY <1>2 DEF Bus!Published, Bus!EventOf
    <3>4. \A i \in Bus!Jobs : i[1] = e /\ Active(job'[i]) /\ e = j[1] => i = j
      BY <1>2, <2>0 DEF InTurn, Active
    <3>5. job[j].next \in Nat /\ r.next \in Nat /\ s \in Nat
      BY DEF BusInv, BusTyped, BusLocals, Bus!Numbers
    <3>6. CASE handled'[e][s] = handled[e][s]
      <4>1. ASSUME NEW i \in Bus!Jobs, i[1] = e, Active(job'[i]), job'[i].next <= s
            PROVE  handled[e][s] = 0
        <5>1. CASE i = j
          <6>1. r.next <= s /\ r.next >= job[j].next  BY <1>1, <1>7, <4>1, <5>1
          <6>2. job[j].next <= s  BY <3>5, <6>1
          <6> QED  BY <3>2, <4>1, <5>1, <6>2
        <5>2. CASE i # j  BY <1>1, <3>2, <4>1, <5>2
        <5> QED  BY <5>1, <5>2
      <4> QED  BY <3>2, <3>3, <3>6, <4>1
    <3>7. CASE handled'[e][s] # handled[e][s]
      <4>1. handled' # handled /\ e = j[1] /\ s = job[j].next /\ handled'[e][s] = handled[e][s] + 1
        BY <1>3, <3>2, <3>7
      <4>2. handled[e][s] = 0  BY <3>2, <3>5, <4>1
      <4>3. Bus!Published(e)'
        <5>1. Bus!Published(e)  BY <4>1 DEF Bus!Published, Bus!EventOf, Active
        <5> QED  BY <3>3, <5>1
      <4>4. ASSUME NEW i \in Bus!Jobs, i[1] = e, Active(job'[i]), job'[i].next <= s PROVE FALSE
        <5>1. i = j  BY <3>4, <4>1, <4>4
        <5>2. r.next > job[j].next  BY <1>1, <1>7, <4>1, <4>4, <5>1
        <5>3. r.next <= job[j].next  BY <1>1, <4>1, <4>4, <5>1
        <5> QED  BY <3>5, <5>2, <5>3
      <4> QED  BY <4>1, <4>2, <4>3, <4>4
    <3> QED  BY <3>6, <3>7
  <2> QED  BY <2>1, <2>2, <2>3 DEF InTurn, Active, Bus!Published, Bus!EventOf
<1> QED  BY <1>4, <1>5, <1>6, <1>7 DEF BusInv

(* An event is published: its next job starts, waits or is given up, and   *)
(* an operator that replays a letter of the event is about to delete it.   *)
LEMMA BusPublishes ==
  ASSUME Bus!DeliveryAssumption, BusInv, NEW e \in Events, NEW j \in Bus!Fresh(e),
         NEW place \in {"waiting", "running", "over"}, job' = [job EXCEPT ![j].pc = place],
         UNCHANGED <<kind, phase, letters, handled, failed>>, phase # "closing",
         excused \subseteq excused',
         place = "over" => Bus!Pairs(e, Bus!Numbers) \subseteq excused',
         kind = "process" => ~Bus!Published(e) /\ place # "waiting",
         \A o \in Operators : operator'[o] # operator[o] =>
           /\ operator[o].pc # "idle" /\ operator'[o].letter = operator[o].letter
           /\ operator[o].letter[1][1] = e,
         operator' \in [Operators -> [pc : {"idle", "replaying", "deleting"}, letter : BusLetters \cup {<<>>}]]
  PROVE  BusInv'
<1> DEFINE r == [job[j] EXCEPT !.pc = place]
<1>1. /\ j \in Bus!Jobs /\ j[1] = e /\ job[j].pc = "unpublished"
      /\ \A i \in Bus!Jobs : i[1] = e /\ i[2] < j[2] => job[i].pc # "unpublished"
      /\ j[2] \in Nat /\ j[2] > 0 /\ j = <<j[1], j[2]>>
  BY JobParts DEF Bus!Fresh, Bus!EventOf
<1>2. r \in BusLocals /\ r.pc = place /\ r.next = 1 /\ job' = [job EXCEPT ![j] = r]
      /\ job[j].next = 1
  <2>1. job[j] \in BusLocals /\ Placed(job[j])  BY <1>1 DEF BusInv, BusTyped, BusOrdered
  <2>2. job[j].next = 1  BY <1>1, <2>1 DEF Placed
  <2>3. r \in BusLocals /\ r.pc = place /\ r.next = 1
    BY <2>1, <2>2 DEF BusLocals
  <2> QED  BY <2>2, <2>3
<1> HIDE DEF r
<1>3. /\ job'[j] = r /\ \A i \in Bus!Jobs \ {j} : job'[i] = job[i]
      /\ job' \in [Bus!Jobs -> BusLocals]
  BY <1>1, <1>2 DEF BusInv, BusTyped
<1>4. \A i \in Bus!Jobs : job[i].pc # "unpublished" => job'[i].pc # "unpublished"
  BY <1>1, <1>2, <1>3
<1>5. \A i \in Bus!Jobs : i[1] = e /\ job[i].pc # "unpublished" => i[2] < j[2]
  <2> SUFFICES ASSUME NEW i \in Bus!Jobs, i[1] = e, job[i].pc # "unpublished", ~(i[2] < j[2])
               PROVE  FALSE
    OBVIOUS
  <2>1. i[2] \in Nat /\ i = <<i[1], i[2]>>  BY JobParts
  <2>2. CASE i[2] = j[2]  BY <1>1, <2>1, <2>2
  <2>3. CASE j[2] < i[2]  BY <1>1, <2>3 DEF BusInv, BusOrdered
  <2> QED  BY <1>1, <2>1, <2>2, <2>3
<1>6. BusTyped'  BY <1>3 DEF BusInv, BusTyped, BusLocals, BusLetters
<1>7. BusOrdered'
  <2>1. \A i \in Bus!Jobs : Placed(job[i])'
    <3>0. Placed(r)
      <4>1. 1 <= Subscribers  BY DEF Bus!DeliveryAssumption
      <4> QED  BY <1>2, <4>1 DEF Placed
    <3>1. \A i \in Bus!Jobs : Placed(job'[i])
      BY <1>3, <3>0 DEF BusInv, BusOrdered
    <3> QED  BY <3>1 DEF Placed
  <2>2. ASSUME NEW i \in Bus!Jobs, NEW k \in Bus!Jobs,
               i[1] = k[1], i[2] < k[2], job'[k].pc # "unpublished"
        PROVE  job'[i].pc # "unpublished"
    <3>1. CASE k = j  BY <1>1, <1>4, <2>2, <3>1
    <3>2. CASE k # j
      <4>1. job[k].pc # "unpublished"  BY <1>3, <2>2, <3>2
      <4> QED  BY <1>4, <2>2, <4>1 DEF BusInv, BusOrdered
    <3> QED  BY <3>1, <3>2
  <2>3. ASSUME NEW l \in letters' PROVE Genuine(l)'
    <3>1. Genuine(l)  BY <2>3 DEF BusInv, BusOrdered
    <3> QED  BY <1>4, <3>1, GenuineStays
  <2>4. ASSUME NEW o \in Operators, operator'[o].pc # "idle"
        PROVE  Genuine(operator[o].letter)' /\ phase' # "closing"
    <3>1. operator[o].pc # "idle" /\ operator'[o].letter = operator[o].letter  BY <2>4
    <3>2. Genuine(operator[o].letter)  BY <3>1 DEF BusInv, BusOrdered
    <3>3. PICK l : l = operator[o].letter  OBVIOUS
    <3>4. Genuine(l)'  BY <1>4, <3>2, <3>3, GenuineStays
    <3> QED  BY <3>1, <3>3, <3>4 DEF Genuine
  <2> QED  BY <2>1, <2>2, <2>3, <2>4 DEF BusOrdered
<1>8. Covered'
  <2>1. ASSUME NEW d \in Events, NEW s \in Bus!Numbers PROVE Keeps(d, s)
    <3>1. Settled(d, s) => Settled(d, s)'  BY DEF Settled
    <3>2. \A i \in Bus!Jobs : Active(job[i]) => job'[i] = job[i]  BY <1>1, <1>3 DEF Active
    <3> QED  BY <3>1, <3>2 DEF Keeps
  <2>2. ASSUME NEW n, n = 0 \/ \E i \in Bus!Jobs : i[1] = e /\ job[i].pc # "unpublished" /\ n = i[2],
               NEW s \in Bus!Numbers
        PROVE  Cover(e, s, n)'
    <3>1. j[2] > n  BY <1>1, <1>5, <2>2
    <3>2. CASE place = "over"
      <4>1. <<e, s>> \in excused'  BY <3>2 DEF Bus!Pairs
      <4> QED  BY <4>1 DEF Cover
    <3>3. CASE place # "over"
      <4>1. Active(job'[j]) /\ job'[j].next <= s
        BY <1>2, <1>3, <3>3 DEF Active, Bus!Numbers
      <4> QED  BY <1>1, <3>1, <4>1 DEF Cover, Active
    <3> QED  BY <3>2, <3>3
  <2>3. ASSUME NEW d \in Events, Bus!Published(d)', ~Bus!Published(d), NEW s \in Bus!Numbers
        PROVE  Cover(d, s, 0)'
    <3>1. PICK i \in Bus!Jobs : i[1] = d /\ job'[i].pc # "unpublished" /\ job[i].pc = "unpublished"
      BY <2>3 DEF Bus!Published, Bus!EventOf
    <3>2. d = e  BY <1>1, <1>3, <3>1
    <3> QED  BY <2>2, <3>2
  <2>4. ASSUME NEW o \in Operators, operator'[o] # operator[o], NEW n, n = operator'[o].letter[1][2],
               NEW d \in Events, NEW s \in Bus!Numbers, <<d, s>> \in Bus!LetterPairs(operator'[o].letter)
        PROVE  Cover(d, s, n)'
    <3> DEFINE l == operator[o].letter
    <3>1. Genuine(l) /\ l[1][1] = e /\ operator'[o].letter = l
      BY <2>4 DEF BusInv, BusOrdered
    <3> HIDE DEF l
    <3>2. l \in BusLetters /\ job[l[1]].pc # "unpublished"  BY <3>1 DEF Genuine
    <3>3. l[1] \in Bus!Jobs /\ d = l[1][1]  BY <2>4, <3>1, <3>2, LetterParts
    <3>4. Cover(e, s, n)'  BY <2>2, <2>4, <3>1, <3>2, <3>3
    <3> QED  BY <3>1, <3>3, <3>4
  <2> QED  BY <2>1, <2>3, <2>4, KeepsCovered DEF BusInv
<1>9. ASSUME kind = "process" PROVE InTurn'
  <2>0. InTurn /\ ~Bus!Published(e)  BY <1>9 DEF BusInv
  <2>1. \A i \in Bus!Jobs : i[1] = e => job[i].pc = "unpublished"
    BY <2>0 DEF Bus!Published, Bus!EventOf
  <2>2. \A i \in Bus!Jobs, k \in Bus!Jobs :
          i[1] = k[1] /\ job'[i].pc # "unpublished" /\ job'[k].pc # "unpublished" => i = k
    BY <1>1, <1>3, <2>0, <2>1 DEF InTurn
  <2>3. \A i \in Bus!Jobs : job'[i].pc = "sinking" => <<i[1], job'[i].next>> \in failed'
    BY <1>2, <1>3, <2>0 DEF InTurn
  <2>4. ASSUME NEW d \in Events, NEW s \in Bus!Numbers, <<d, s>> \notin failed
        PROVE  /\ handled[d][s] <= 1
               /\ ~Bus!Published(d)' => handled[d][s] = 0
               /\ \A i \in Bus!Jobs : i[1] = d /\ Active(job'[i]) /\ job'[i].next <= s => handled[d][s] = 0
    <3>1. /\ handled[d][s] <= 1
          /\ ~Bus!Published(d) => handled[d][s] = 0
          /\ \A i \in Bus!Jobs : i[1] = d /\ Active(job[i]) /\ job[i].next <= s => handled[d][s] = 0
      BY <2>0, <2>4 DEF InTurn
    <3>2. Bus!Published(d) => Bus!Published(d)'  BY <1>4 DEF Bus!Published, Bus!EventOf
    <3> QED  BY <1>1, <1>3, <2>0, <3>1, <3>2
  <2> QED  BY <2>2, <2>3, <2>4 DEF InTurn, Active, Bus!Published, Bus!EventOf
<1> QED  BY <1>6, <1>7, <1>8, <1>9 DEF BusInv

(* A step of an operator, jobs aside.                                      *)
LEMMA BusAside ==
  ASSUME Bus!DeliveryAssumption, BusInv, UNCHANGED <<kind, phase, job, failed>>,
         letters' \subseteq letters, handled' \in [Events -> [Bus!Numbers -> Nat]],
         \A e \in Events, s \in Bus!Numbers :
           kind = "process" /\ <<e, s>> \notin failed => handled'[e][s] = handled[e][s],
         operator' \in [Operators -> [pc : {"idle", "replaying", "deleting"}, letter : BusLetters \cup {<<>>}]],
         \A o \in Operators : operator'[o].pc # "idle" => Genuine(operator'[o].letter) /\ phase # "closing"
  PROVE  BusTyped' /\ BusOrdered' /\ (kind' = "process" => InTurn')
<1>1. BusTyped'  BY DEF BusInv, BusTyped, BusLocals, BusLetters
<1>2. BusOrdered'
  <2>1. \A i \in Bus!Jobs : Placed(job[i])'  BY DEF BusInv, BusOrdered, Placed
  <2>2. \A l \in letters' : Genuine(l)'  BY DEF BusInv, BusOrdered, Genuine
  <2>3. \A o \in Operators : operator'[o].pc # "idle" => Genuine(operator[o].letter)' /\ phase' # "closing"
    BY DEF Genuine
  <2> QED  BY <2>1, <2>2, <2>3 DEF BusInv, BusOrdered
<1>3. kind = "process" => InTurn'
  BY DEF BusInv, InTurn, Active, Bus!Published, Bus!EventOf
<1> QED  BY <1>1, <1>2, <1>3

(* A restart: what is lost was given up.                                   *)
LEMMA BusRestarts ==
  ASSUME Bus!DeliveryAssumption, BusInv, Bus!Restart, excused \subseteq excused',
         kind = "process" => \A j \in Bus!Jobs : Bus!Lost(j) => Bus!Rest(j) \subseteq excused',
         \A j \in Bus!Jobs : kind # "process" /\ Bus!Lost(j) => Bus!Rest(j) \subseteq excused'
  PROVE  BusInv'
<1> DEFINE r(j) == IF Bus!Stalls(j) THEN [job[j] EXCEPT !.pc = "waiting", !.next = 1, !.stalled = TRUE]
                   ELSE IF Bus!Lost(j) THEN [job[j] EXCEPT !.pc = "over"] ELSE job[j]
<1>1. ASSUME NEW j \in Bus!Jobs
      PROVE  /\ r(j) \in BusLocals /\ job[j] \in BusLocals
             /\ r(j).pc = "unpublished" <=> job[j].pc = "unpublished"
             /\ Placed(job[j])
             /\ \/ r(j).pc = "waiting" /\ r(j).next = 1 /\ kind = "redis"
                \/ r(j).pc \in {"over", "unpublished"} /\ r(j).next = job[j].next
             /\ Active(job[j]) => r(j).pc = "waiting" \/ Bus!Lost(j)
  <2>1. job[j] \in BusLocals /\ Placed(job[j])  BY DEF BusInv, BusTyped, BusOrdered
  <2>2. kind \in {"process", "memory", "redis"} /\ Subscribers \in Nat \ {0}
    BY DEF BusInv, BusTyped, Bus!DeliveryAssumption
  <2>3. 1 \in 1 .. Subscribers + 1  BY <2>2
  <2> DEFINE l == job[j]
  <2>4. /\ [l EXCEPT !.pc = "waiting", !.next = 1, !.stalled = TRUE] \in BusLocals
        /\ [l EXCEPT !.pc = "over"] \in BusLocals
    BY <2>1, <2>3 DEF BusLocals
  <2>5. l.pc \in {"unpublished", "waiting", "running", "sinking", "over"}  BY <2>1 DEF BusLocals
  <2>6. /\ [l EXCEPT !.pc = "waiting", !.next = 1, !.stalled = TRUE].pc = "waiting"
        /\ [l EXCEPT !.pc = "waiting", !.next = 1, !.stalled = TRUE].next = 1
        /\ [l EXCEPT !.pc = "over"].pc = "over" /\ [l EXCEPT !.pc = "over"].next = l.next
    BY <2>1 DEF BusLocals
  <2>7. CASE Bus!Stalls(j)
    <3>1. r(j) = [l EXCEPT !.pc = "waiting", !.next = 1, !.stalled = TRUE]  BY <2>7
    <3> QED  BY <2>1, <2>4, <2>6, <2>7, <3>1 DEF Bus!Stalls
  <2>8. CASE ~Bus!Stalls(j) /\ Bus!Lost(j)
    <3>1. r(j) = [l EXCEPT !.pc = "over"]  BY <2>8
    <3> QED  BY <2>1, <2>4, <2>6, <2>8, <3>1 DEF Bus!Lost
  <2>9. CASE ~Bus!Stalls(j) /\ ~Bus!Lost(j)
    <3>1. r(j) = l  BY <2>9
    <3>2. l.pc \notin {"running", "sinking"}  BY <2>9 DEF Bus!Lost
    <3>3. l.pc = "waiting" => l.next = 1 /\ kind = "redis"
      BY <2>1, <2>2, <2>9 DEF Bus!Lost, Placed
    <3> QED  BY <2>1, <2>5, <3>1, <3>2, <3>3 DEF Active
  <2> QED  BY <2>7, <2>8, <2>9
<1>2. /\ job' = [j \in Bus!Jobs |-> r(j)]
      /\ phase' = "up" /\ operator' = [o \in Operators |-> [pc |-> "idle", letter |-> <<>>]]
      /\ UNCHANGED <<kind, letters, handled, failed>>
  BY DEF Bus!Restart
<1> HIDE DEF r
<1>3. \A j \in Bus!Jobs : job'[j] = r(j)  BY <1>2
<1>4. BusTyped'  BY <1>1, <1>2 DEF BusInv, BusTyped, BusLocals, BusLetters
<1>5. BusOrdered'
  <2>1. ASSUME NEW j \in Bus!Jobs PROVE Placed(job[j])'
    <3>1. 1 <= Subscribers  BY DEF Bus!DeliveryAssumption
    <3>2. job'[j].pc \in {"unpublished", "waiting"} => job'[j].next = 1
      BY <1>1, <1>3 DEF Placed
    <3>3. job'[j].pc \notin {"running", "sinking"}  BY <1>1, <1>3
    <3>4. kind' = "process" => job'[j].pc # "waiting"  BY <1>1, <1>2, <1>3
    <3> QED  BY <3>2, <3>3, <3>4 DEF Placed
  <2>2. \A i \in Bus!Jobs : (job'[i].pc = "unpublished" <=> job[i].pc = "unpublished")
    BY <1>1, <1>3
  <2>3. ASSUME NEW l \in letters' PROVE Genuine(l)'
    <3>1. Genuine(l)  BY <1>2, <2>3 DEF BusInv, BusOrdered
    <3> QED  BY <1>2, <2>2, <3>1, GenuineStays
  <2>4. \A o \in Operators : operator'[o].pc = "idle"  BY <1>2
  <2>5. \A i \in Bus!Jobs, k \in Bus!Jobs :
          i[1] = k[1] /\ i[2] < k[2] /\ job'[k].pc # "unpublished" => job'[i].pc # "unpublished"
    BY <2>2 DEF BusInv, BusOrdered
  <2> QED  BY <2>1, <2>3, <2>4, <2>5 DEF BusOrdered
<1>6. Covered'
  <2>1. ASSUME NEW e \in Events, NEW s \in Bus!Numbers PROVE Keeps(e, s)
    <3>1. Settled(e, s) => Settled(e, s)'  BY <1>2 DEF Settled
    <3>2. ASSUME NEW j \in Bus!Jobs, j[1] = e, Active(job[j]), job[j].next <= s
          PROVE  Settled(e, s)' \/ (Active(job'[j]) /\ job'[j].next <= s)
      <4>1. CASE Bus!Lost(j)
        <5>1. Bus!Rest(j) \subseteq excused'  BY <4>1
        <5>2. <<e, s>> \in Bus!Rest(j)  BY <3>2, RestOf DEF BusInv
        <5> QED  BY <5>1, <5>2 DEF Settled
      <4>2. CASE ~Bus!Lost(j)
        <5>1. job'[j].pc = "waiting" /\ job'[j].next = 1  BY <1>1, <1>3, <3>2, <4>2
        <5> QED  BY <5>1 DEF Active, Bus!Numbers
      <4> QED  BY <4>1, <4>2
    <3> QED  BY <1>2, <3>1, <3>2 DEF Keeps
  <2>2. \A e \in Events : Bus!Published(e)' => Bus!Published(e)
    BY <1>1, <1>3 DEF Bus!Published, Bus!EventOf
  <2>3. \A o \in Operators : operator'[o].pc # "deleting"  BY <1>2
  <2> QED  BY <2>1, <2>2, <2>3, KeepsCovered DEF BusInv
<1>7. ASSUME kind = "process" PROVE InTurn'
  <2>1. InTurn  BY <1>7 DEF BusInv
  <2>2. \A j \in Bus!Jobs : job'[j].pc \in {"over", "unpublished"}  BY <1>1, <1>3, <1>7
  <2>3. \A j \in Bus!Jobs : (job'[j].pc = "unpublished" <=> job[j].pc = "unpublished")
    BY <1>1, <1>3
  <2>4. \A e : Bus!Published(e)' <=> Bus!Published(e)
    BY <2>3 DEF Bus!Published, Bus!EventOf
  <2>5. \A e \in Events, s \in Bus!Numbers : <<e, s>> \notin failed' =>
          handled'[e][s] <= 1 /\ (~Bus!Published(e) => handled'[e][s] = 0)
    BY <1>2, <2>1 DEF InTurn
  <2>6. \A j \in Bus!Jobs : ~Active(job'[j]) /\ job'[j].pc # "sinking"  BY <2>2 DEF Active
  <2>7. \A i \in Bus!Jobs, j \in Bus!Jobs :
          i[1] = j[1] /\ job'[i].pc # "unpublished" /\ job'[j].pc # "unpublished" => i = j
    BY <2>1, <2>3 DEF InTurn
  <2>8. \A e \in Events, s \in Bus!Numbers : <<e, s>> \notin failed' =>
          handled'[e][s] <= 1 /\ (~Bus!Published(e)' => handled'[e][s] = 0)
    BY <2>4, <2>5
  <2> QED  BY <2>6, <2>7, <2>8 DEF InTurn, Active, Bus!Published, Bus!EventOf
<1> QED  BY <1>2, <1>4, <1>5, <1>6, <1>7 DEF BusInv

(* The locals of a job that moves on.                                      *)
LEMMA BusSteps ==
  ASSUME Bus!DeliveryAssumption, BusInv, NEW j \in Bus!Jobs, Bus!Deliver(j)
  PROVE  BusInv'
<1> DEFINE l == job[j]
<1>1. /\ l \in BusLocals /\ Placed(l) /\ l.next \in Nat \ {0} /\ Subscribers \in Nat \ {0}
      /\ l.attempt \in Nat /\ job \in [Bus!Jobs -> BusLocals]
      /\ kind \in {"process", "memory", "redis"}
      /\ l.pc \in {"running", "sinking"} => l.next \in Bus!Numbers /\ l.next + 1 \in 1 .. Subscribers + 1
  BY DEF BusInv, BusTyped, BusOrdered, Bus!DeliveryAssumption, BusLocals, Placed, Bus!Numbers
<1>2. ASSUME NEW s \in Bus!Numbers, l.next <= s
      PROVE  <<j[1], s>> \in Bus!Rest(j)
  BY <1>2, RestOf DEF BusInv
<1>3. j[1] \in Events /\ handled \in [Events -> [Bus!Numbers -> Nat]]
  BY JobParts DEF BusInv, BusTyped
<1>4. CASE Bus!Take(j)
  <2> DEFINE r == [l EXCEPT !.pc = "running"]
  <2>1. /\ l.pc = "waiting" /\ job' = [job EXCEPT ![j] = r] /\ kind # "process"
        /\ UNCHANGED <<kind, phase, letters, operator, handled, failed, excused>>
    BY <1>1, <1>4 DEF Bus!Take
  <2>2. r \in BusLocals /\ r.pc = "running" /\ r.next = l.next  BY <1>1 DEF BusLocals
  <2> HIDE DEF r
  <2>3. Placed(r)
    <3>1. l.next = 1  BY <1>1, <2>1 DEF Placed
    <3> QED  BY <1>1, <2>1, <2>2, <3>1 DEF Placed
  <2>4. Active(l) /\ Active(r)  BY <2>1, <2>2 DEF Active
  <2>5. \A s \in Bus!Numbers : l.next <= s => Active(r) /\ r.next <= s  BY <2>2, <2>4
  <2> QED  BY <2>1, <2>2, <2>3, <2>4, <2>5, BusMoves
<1>5. CASE Bus!Handle(j)
  <2> DEFINE s0 == l.next
             r == [l EXCEPT !.next = s0 + 1, !.pc = IF s0 = Subscribers THEN "over" ELSE @]
  <2>1. /\ l.pc = "running" /\ job' = [job EXCEPT ![j] = r]
        /\ handled' = [handled EXCEPT ![j[1]][s0] = @ + 1]
        /\ UNCHANGED <<kind, phase, letters, operator, failed, excused>>
    BY <1>1, <1>5 DEF Bus!Handle, Bus!EventOf
  <2>2. /\ r \in BusLocals /\ r.next = s0 + 1 /\ s0 \in Bus!Numbers
        /\ r.pc = IF s0 = Subscribers THEN "over" ELSE "running"
    BY <1>1, <2>1 DEF BusLocals
  <2> HIDE DEF r
  <2>3. Placed(r)
    <3>1. s0 \in 1 .. Subscribers  BY <2>2 DEF Bus!Numbers
    <3>2. r.pc = "running" => s0 + 1 <= Subscribers  BY <1>1, <2>2, <3>1
    <3>3. kind = "process" /\ phase = "closing" => FALSE  BY <1>1, <2>1 DEF Placed
    <3> QED  BY <2>2, <3>2, <3>3 DEF Placed
  <2>4. Active(l)  BY <2>1 DEF Active
  <2>5. ASSUME NEW s \in Bus!Numbers, s0 <= s
        PROVE  Settled(j[1], s)' \/ (Active(r) /\ r.next <= s)
    <3>1. CASE s = s0
      <4>1. handled'[j[1]][s0] = handled[j[1]][s0] + 1 /\ handled[j[1]][s0] \in Nat
        BY <1>3, <2>1, <2>2
      <4> QED  BY <3>1, <4>1 DEF Settled
    <3>2. CASE s # s0
      <4>1. s >= s0 + 1 /\ s0 # Subscribers
        BY <1>1, <2>2, <2>5, <3>2 DEF Bus!Numbers
      <4> QED  BY <2>2, <4>1 DEF Active
    <3> QED  BY <3>1, <3>2
  <2>6. r.next > s0 /\ r.next >= s0 /\ r.pc \notin {"sinking", "unpublished"}  BY <1>1, <2>2
  <2>7. handled' = [handled EXCEPT ![j[1]][job[j].next] = @ + 1] /\ job[j].next \in Bus!Numbers
    BY <2>1, <2>2
  <2>8. /\ r.next > job[j].next /\ r.next >= job[j].next
        /\ \A s \in Bus!Numbers : job[j].next <= s => Settled(j[1], s)' \/ (Active(r) /\ r.next <= s)
    BY <2>5, <2>6
  <2>9. job' = [job EXCEPT ![j] = r] /\ Active(job[j])  BY <2>1, <2>4
  <2> HIDE DEF s0, l
  <2> QED  BY <2>1, <2>2, <2>3, <2>6, <2>7, <2>8, <2>9, BusMoves
<1>6. CASE Bus!HandleFails(j)
  <2> DEFINE again == [l EXCEPT !.next = 1, !.attempt = @ + 1]
             r == IF kind = "process" THEN [l EXCEPT !.pc = "sinking"]
                  ELSE IF l.attempt = Attempts THEN [l EXCEPT !.pc = "sinking"]
                  ELSE IF kind = "memory" THEN again
                  ELSE [again EXCEPT !.pc = "waiting"]
  <2>1. /\ l.pc = "running" /\ job' = [job EXCEPT ![j] = r]
        /\ failed' = failed \cup {<<j[1], l.next>>}
        /\ UNCHANGED <<kind, phase, letters, operator, handled, excused>>
    BY <1>1, <1>6 DEF Bus!HandleFails, Bus!Retry, Bus!EventOf
  <2>2. /\ r \in BusLocals
        /\ \/ r.pc = "sinking" /\ r.next = l.next
           \/ r.pc = "running" /\ r.next = 1 /\ kind = "memory"
           \/ r.pc = "waiting" /\ r.next = 1 /\ kind = "redis"
    <3>1. 1 \in 1 .. Subscribers + 1 /\ l.attempt + 1 \in Nat  BY <1>1
    <3>2. again \in BusLocals /\ again.pc = "running" /\ again.next = 1
      BY <1>1, <2>1, <3>1 DEF BusLocals
    <3>3. /\ [l EXCEPT !.pc = "sinking"] \in BusLocals
          /\ [l EXCEPT !.pc = "sinking"].pc = "sinking" /\ [l EXCEPT !.pc = "sinking"].next = l.next
      BY <1>1 DEF BusLocals
    <3> HIDE DEF again
    <3>4. /\ [again EXCEPT !.pc = "waiting"] \in BusLocals
          /\ [again EXCEPT !.pc = "waiting"].pc = "waiting" /\ [again EXCEPT !.pc = "waiting"].next = 1
      BY <3>2 DEF BusLocals
    <3> QED  BY <1>1, <3>2, <3>3, <3>4
  <2> HIDE DEF r
  <2>3. Placed(r)
    <3>1. kind = "process" /\ phase = "closing" => FALSE  BY <1>1, <2>1 DEF Placed
    <3>2. l.next <= Subscribers /\ 1 <= Subscribers  BY <1>1, <2>1 DEF Bus!Numbers
    <3> QED  BY <2>2, <3>1, <3>2 DEF Placed
  <2>4. Active(job[j]) /\ Active(r) /\ r.pc # "unpublished"  BY <2>1, <2>2 DEF Active
  <2>5. \A s \in Bus!Numbers : job[j].next <= s => Active(r) /\ r.next <= s
    BY <2>2, <2>4 DEF Bus!Numbers
  <2>6. kind = "process" =>
          /\ r.pc = "sinking" => <<j[1], r.next>> \in failed'
          /\ Active(r) => r.next >= job[j].next
    BY <1>1, <2>1, <2>2
  <2> HIDE DEF l
  <2> QED  BY <2>1, <2>2, <2>3, <2>4, <2>5, <2>6, BusMoves
<1>7. ASSUME l.pc = "sinking", Bus!Sunk(j),
             UNCHANGED <<kind, phase, operator, handled, failed>>,
             letters \subseteq letters', excused \subseteq excused',
             letters' \ letters \subseteq {<<j, IF kind = "process" THEN l.next ELSE Bus!All>>},
             \A s \in Bus!Numbers : l.next <= s =>
               \/ <<j[1], s>> \in excused'
               \/ kind = "process" /\ s # l.next
               \/ \E m \in letters' : m[1] = j /\ <<j[1], s>> \in Bus!LetterPairs(m)
      PROVE  BusInv'
  <2> DEFINE r == [l EXCEPT !.next = @ + 1,
                            !.pc = IF kind = "process" /\ l.next < Subscribers THEN "running" ELSE "over"]
  <2>1. job' = [job EXCEPT ![j] = r]  BY <1>1, <1>7 DEF Bus!Sunk
  <2>2. /\ r \in BusLocals /\ r.next = l.next + 1 /\ l.next \in Bus!Numbers
        /\ r.pc = IF kind = "process" /\ l.next < Subscribers THEN "running" ELSE "over"
    BY <1>1, <1>7 DEF BusLocals
  <2> HIDE DEF r
  <2>3. Placed(r)
    <3>1. kind = "process" /\ phase = "closing" => FALSE  BY <1>1, <1>7 DEF Placed
    <3>2. r.pc = "running" => l.next + 1 <= Subscribers  BY <1>1, <2>2
    <3> QED  BY <2>2, <3>1, <3>2 DEF Placed
  <2>4. Active(job[j]) /\ r.pc \notin {"unpublished", "sinking"}  BY <1>7, <2>2 DEF Active
  <2>5. ASSUME NEW s \in Bus!Numbers, job[j].next <= s, ~Settled(j[1], s)',
               ~\E m \in letters' : m[1] = j /\ <<j[1], s>> \in Bus!LetterPairs(m)
        PROVE  Active(r) /\ r.next <= s
    <3>1. kind = "process" /\ s # l.next  BY <1>7, <2>5 DEF Settled
    <3>2. s >= l.next + 1 /\ l.next < Subscribers
      BY <1>1, <2>5, <3>1 DEF Bus!Numbers
    <3> QED  BY <2>2, <3>1, <3>2 DEF Active
  <2>6. ASSUME NEW m \in letters' \ letters
        PROVE  /\ m \in BusLetters /\ m[1] = j
               /\ kind = "process" => m[2] # Bus!All /\ <<j[1], m[2]>> \in failed
    <3>1. m = <<j, IF kind = "process" THEN l.next ELSE Bus!All>>  BY <1>7
    <3>2. m \in BusLetters /\ m[1] = j
      BY <1>1, <2>2, <3>1 DEF BusLetters, Bus!All, Bus!Numbers
    <3>3. ASSUME kind = "process" PROVE m[2] # Bus!All /\ <<j[1], m[2]>> \in failed
      <4>1. m[2] = l.next  BY <3>1, <3>3
      <4>2. <<j[1], l.next>> \in failed  BY <1>7, <3>3 DEF BusInv, InTurn
      <4> QED  BY <1>1, <4>1, <4>2 DEF Bus!All
    <3> QED  BY <3>2, <3>3
  <2>7. r.next >= job[j].next  BY <1>1, <2>2
  <2>8. \A s \in Bus!Numbers : job[j].next <= s =>
          \/ Settled(j[1], s)'
          \/ Active(r) /\ r.next <= s
          \/ \E m \in letters' : m[1] = j /\ <<j[1], s>> \in Bus!LetterPairs(m)
    BY <2>5
  <2> HIDE DEF l
  <2> QED  BY <1>7, <2>1, <2>2, <2>3, <2>4, <2>6, <2>7, <2>8, BusMoves
<1>8. CASE Bus!Sink(j)
  <2> DEFINE n == IF kind = "process" THEN l.next ELSE Bus!All
  <2>1. /\ l.pc = "sinking" /\ letters' = letters \cup {<<j, n>>} /\ Bus!Sunk(j)
        /\ UNCHANGED <<kind, phase, operator, handled, failed, excused>>
    BY <1>8 DEF Bus!Sink
  <2>2. ASSUME NEW s \in Bus!Numbers, ~(kind = "process" /\ s # l.next)
        PROVE  <<j, n>>[1] = j /\ <<j[1], s>> \in Bus!LetterPairs(<<j, n>>)
    <3>1. s \in (IF n = Bus!All THEN Bus!Numbers ELSE {n})  BY <2>2
    <3> HIDE DEF n
    <3> QED  BY <3>1 DEF Bus!LetterPairs, Bus!Pairs, Bus!EventOf
  <2>3. <<j, n>> \in letters'  BY <2>1
  <2> QED  BY <1>7, <2>1, <2>2, <2>3
<1>9. CASE Bus!SinkFails(j)
  <2>1. /\ l.pc = "sinking" /\ Bus!Sunk(j)
        /\ UNCHANGED <<kind, phase, operator, handled, failed, letters>>
        /\ excused' = excused \cup (IF kind = "process" THEN {<<j[1], l.next>>} ELSE Bus!Rest(j))
    BY <1>9 DEF Bus!SinkFails, Bus!EventOf
  <2> QED  BY <1>2, <1>7, <2>1
<1> QED  BY <1>4, <1>5, <1>6, <1>8, <1>9 DEF Bus!Deliver

LEMMA BusReplays ==
  ASSUME Bus!DeliveryAssumption, BusInv, NEW o \in Operators, Bus!Replay(o)
  PROVE  BusInv'
<1> DEFINE l == operator[o].letter
<1>1. /\ operator \in [Operators -> [pc : {"idle", "replaying", "deleting"}, letter : BusLetters \cup {<<>>}]]
      /\ handled \in [Events -> [Bus!Numbers -> Nat]]
      /\ \A m \in letters : Genuine(m) /\ m \in BusLetters
      /\ operator[o].pc # "idle" => Genuine(l) /\ l \in BusLetters /\ phase # "closing"
      /\ \A q \in Operators : operator[q].pc # "idle" => Genuine(operator[q].letter) /\ phase # "closing"
  BY DEF BusInv, BusTyped, BusOrdered, Genuine
<1>2. \A pc \in {"idle", "replaying", "deleting"}, m \in BusLetters \cup {<<>>} : Bus!Let(o, pc, m) =>
        /\ operator' \in [Operators -> [pc : {"idle", "replaying", "deleting"}, letter : BusLetters \cup {<<>>}]]
        /\ operator'[o].pc = pc /\ operator'[o].letter = m
        /\ \A q \in Operators \ {o} : operator'[q] = operator[q]
  BY <1>1 DEF Bus!Let
<1>3. ASSUME UNCHANGED <<kind, phase, job, failed, letters, handled, excused>>,
             NEW pc \in {"idle", "replaying"}, NEW m \in BusLetters \cup {<<>>}, Bus!Let(o, pc, m),
             pc # "idle" => m \in letters /\ phase # "closing"
      PROVE  BusInv'
  <2>1. ASSUME NEW q \in Operators, operator'[q].pc # "idle"
        PROVE  Genuine(operator'[q].letter) /\ phase # "closing"
    <3>1. CASE q = o
      <4>1. operator'[o].pc = pc /\ operator'[o].letter = m  BY <1>2, <1>3
      <4> QED  BY <1>1, <1>3, <2>1, <3>1, <4>1
    <3>2. CASE q # o
      <4>1. operator'[q] = operator[q]  BY <1>2, <1>3, <3>2
      <4> QED  BY <1>1, <2>1, <4>1
    <3> QED  BY <3>1, <3>2
  <2>2. BusTyped' /\ BusOrdered' /\ (kind' = "process" => InTurn')
    <3>1. operator' \in [Operators -> [pc : {"idle", "replaying", "deleting"}, letter : BusLetters \cup {<<>>}]]
      BY <1>2, <1>3
    <3> QED  BY <1>1, <1>3, <2>1, <3>1, BusAside
  <2>3. \A e \in Events, s \in Bus!Numbers : Keeps(e, s)  BY <1>3 DEF Keeps, Settled
  <2>4. \A q \in Operators : operator'[q].pc = "deleting" => operator'[q] = operator[q]
    BY <1>2, <1>3
  <2>5. \A e : Bus!Published(e)' => Bus!Published(e)  BY <1>3 DEF Bus!Published, Bus!EventOf
  <2>6. Covered'  BY <2>3, <2>4, <2>5, KeepsCovered DEF BusInv
  <2> QED  BY <2>2, <2>6 DEF BusInv
<1>4. CASE Bus!GetLetter(o)
  <2>1. PICK m \in letters : Bus!Let(o, "replaying", m)  BY <1>4 DEF Bus!GetLetter
  <2>2. UNCHANGED <<kind, phase, job, failed, letters, handled, excused>> /\ phase # "closing"
    BY <1>4 DEF Bus!GetLetter
  <2> QED  BY <1>1, <1>3, <2>1, <2>2
<1>5. CASE Bus!ReplayFails(o)
  BY <1>3, <1>5 DEF Bus!ReplayFails, Bus!Leave
<1>6. CASE Bus!ReplayAll(o)
  <2>1. /\ operator[o].pc = "replaying" /\ l[2] = Bus!All /\ Bus!Let(o, "deleting", l)
        /\ UNCHANGED <<kind, phase, letters, handled, failed, excused>>
    BY <1>6 DEF Bus!ReplayAll, Bus!At
  <2>2. Genuine(l) /\ l \in BusLetters /\ phase # "closing"  BY <1>1, <2>1
  <2>3. kind # "process"  BY <2>1, <2>2 DEF Genuine
  <2> DEFINE e == l[1][1]
  <2>4. e \in Events  BY <2>2, LetterParts, JobParts
  <2>5. PICK j \in Bus!Fresh(e) : Bus!Publish(j)  BY <1>6 DEF Bus!ReplayAll, Bus!EventOf
  <2>6. job' = [job EXCEPT ![j].pc = "waiting"]  BY <2>3, <2>5 DEF Bus!Publish
  <2>7. \A q \in Operators : operator'[q] # operator[q] =>
          /\ operator[q].pc # "idle" /\ operator'[q].letter = operator[q].letter
          /\ operator[q].letter[1][1] = e
    BY <1>2, <2>1, <2>2
  <2>8. operator' \in [Operators -> [pc : {"idle", "replaying", "deleting"}, letter : BusLetters \cup {<<>>}]]
    BY <1>2, <2>1, <2>2
  <2> HIDE DEF e
  <2> QED  BY <2>1, <2>2, <2>3, <2>4, <2>5, <2>6, <2>7, <2>8, BusPublishes
<1>7. CASE Bus!ReplayOne(o)
  <2>0. PICK e0, s0 : e0 = l[1][1] /\ s0 = l[2]  OBVIOUS
  <2>1. /\ operator[o].pc = "replaying" /\ s0 # Bus!All /\ Bus!Let(o, "deleting", l)
        /\ handled' = [handled EXCEPT ![e0][s0] = @ + 1]
        /\ UNCHANGED <<kind, phase, job, letters, failed, excused>>
    BY <1>7, <2>0 DEF Bus!ReplayOne, Bus!At, Bus!EventOf
  <2>2. Genuine(l) /\ l \in BusLetters /\ phase # "closing"  BY <1>1, <2>1
  <2>3. /\ e0 \in Events /\ s0 \in Bus!Numbers
        /\ \A e \in Events, s \in Bus!Numbers : <<e, s>> \in Bus!LetterPairs(l) => e = e0 /\ s = s0
    <3>1. l[1] \in Bus!Jobs /\ s0 \in 0 .. Subscribers  BY <2>0, <2>2, LetterParts
    <3>2. s0 \in Bus!Numbers  BY <2>1, <3>1 DEF Bus!Numbers, Bus!All, Bus!DeliveryAssumption
    <3> QED  BY <2>0, <2>1, <2>2, <3>1, <3>2, LetterParts, JobParts
  <2>4. kind = "process" => <<e0, s0>> \in failed  BY <2>0, <2>2 DEF Genuine
  <2>5. /\ operator' \in [Operators -> [pc : {"idle", "replaying", "deleting"}, letter : BusLetters \cup {<<>>}]]
        /\ operator'[o].letter = l /\ \A q \in Operators \ {o} : operator'[q] = operator[q]
    BY <1>2, <2>1, <2>2
  <2> HIDE DEF l
  <2>6. /\ handled' \in [Events -> [Bus!Numbers -> Nat]]
        /\ \A e \in Events, s \in Bus!Numbers :
             handled'[e][s] = IF e = e0 /\ s = s0 THEN handled[e0][s0] + 1 ELSE handled[e][s]
    <3>1. handled[e0][s0] + 1 \in Nat  BY <1>1, <2>3
    <3> QED  BY <1>1, <2>1, <2>3, <3>1
  <2>7. \A q \in Operators : operator'[q].pc # "idle" => Genuine(operator'[q].letter) /\ phase # "closing"
    BY <1>1, <2>2, <2>5
  <2>8. BusTyped' /\ BusOrdered' /\ (kind' = "process" => InTurn')
    BY <2>1, <2>4, <2>5, <2>6, <2>7, BusAside
  <2>9. ASSUME NEW e \in Events, NEW s \in Bus!Numbers PROVE Keeps(e, s)
    <3>1. handled[e][s] \in Nat  BY <1>1
    <3>2. handled[e][s] > 0 => handled'[e][s] > 0  BY <2>6, <3>1
    <3> QED  BY <2>1, <3>2 DEF Keeps, Settled
  <2>10. Settled(e0, s0)'
    <3>1. handled'[e0][s0] = handled[e0][s0] + 1 /\ handled[e0][s0] \in Nat  BY <1>1, <2>3, <2>6
    <3> QED  BY <3>1 DEF Settled
  <2>11. \A n : Cover(e0, s0, n)'  BY <2>10 DEF Cover, Settled
  <2>12. \A q \in Operators : operator'[q].pc = "deleting" =>
           \/ operator'[q] = operator[q]
           \/ \A n : \A e \in Events, s \in Bus!Numbers :
                <<e, s>> \in Bus!LetterPairs(operator'[q].letter) /\ n = operator'[q].letter[1][2]
                  => Cover(e, s, n)'
    BY <2>3, <2>5, <2>11
  <2>13. \A e : Bus!Published(e)' => Bus!Published(e)  BY <2>1 DEF Bus!Published, Bus!EventOf
  <2>14. Covered'  BY <2>9, <2>12, <2>13, KeepsCovered DEF BusInv
  <2> QED  BY <2>8, <2>14 DEF BusInv
<1>8. CASE Bus!DeleteLetter(o)
  <2>1. /\ operator[o].pc = "deleting" /\ letters' = letters \ {l} /\ Bus!Let(o, "idle", <<>>)
        /\ UNCHANGED <<kind, phase, job, handled, failed, excused>>
    BY <1>8 DEF Bus!DeleteLetter, Bus!At, Bus!Leave
  <2>2. /\ operator' \in [Operators -> [pc : {"idle", "replaying", "deleting"}, letter : BusLetters \cup {<<>>}]]
        /\ operator'[o].pc = "idle" /\ \A q \in Operators \ {o} : operator'[q] = operator[q]
    BY <1>2, <2>1
  <2>3. \A q \in Operators : operator'[q].pc # "idle" => Genuine(operator'[q].letter) /\ phase # "closing"
    BY <1>1, <2>2
  <2>4. BusTyped' /\ BusOrdered' /\ (kind' = "process" => InTurn')
    <3>1. letters' \subseteq letters  BY <2>1
    <3> QED  BY <1>1, <2>1, <2>2, <2>3, <3>1, BusAside
  <2>5. ASSUME NEW e \in Events, NEW s \in Bus!Numbers, NEW n \in Nat, Cover(e, s, n)
        PROVE  Cover(e, s, n)'
    <3>1. CASE \/ Settled(e, s)
               \/ \E j \in Bus!Jobs : j[1] = e /\ j[2] > n /\ Active(job[j]) /\ job[j].next <= s
      BY <2>1, <3>1 DEF Cover, Settled, Active
    <3>2. CASE \E m \in letters \ {l} : m[1][2] > n /\ <<e, s>> \in Bus!LetterPairs(m)
      BY <2>1, <3>2 DEF Cover, Bus!LetterPairs, Bus!Pairs, Bus!EventOf
    <3>3. CASE l[1][2] > n /\ <<e, s>> \in Bus!LetterPairs(l)
      <4> DEFINE k == l[1][2]
      <4>0. \A m \in BusLetters : m[1][2] \in Nat  BY LetterParts, JobParts
      <4>1. Cover(e, s, k)  BY <2>1, <3>3 DEF BusInv, Covered
      <4>2. l \in BusLetters  BY <1>1, <2>1
      <4>3. k \in Nat /\ k > n /\ \A m \in letters : m[1][2] \in Nat  BY <1>1, <3>3, <4>0, <4>2
      <4>4. \A m \in letters : m[1][2] > k => m # l  BY <4>3
      <4> HIDE DEF k
      <4>5. \/ Settled(e, s)
            \/ \E j \in Bus!Jobs : j[1] = e /\ j[2] > k /\ Active(job[j]) /\ job[j].next <= s
            \/ \E m \in letters \ {l} : m[1][2] > k /\ <<e, s>> \in Bus!LetterPairs(m)
        <5>1. CASE \E m \in letters : m[1][2] > k /\ <<e, s>> \in Bus!LetterPairs(m)
          <6>1. PICK m \in letters : m[1][2] > k /\ <<e, s>> \in Bus!LetterPairs(m)  BY <5>1
          <6>2. m # l  BY <4>3, <4>4, <6>1
          <6> QED  BY <6>1, <6>2
        <5> QED  BY <4>1, <5>1 DEF Cover, Settled
      <4>6. \A j \in Bus!Jobs : j[2] > k => j[2] > n  BY <4>3, JobParts
      <4>7. \A m \in letters : m[1][2] > k => m[1][2] > n  BY <4>3
      <4> QED  BY <3>1, <3>2, <4>5, <4>6, <4>7
    <3> QED  BY <2>5, <3>1, <3>2, <3>3 DEF Cover, Settled
  <2>6. ASSUME NEW e \in Events, NEW s \in Bus!Numbers, Bus!Published(e)' PROVE Cover(e, s, 0)'
    <3>1. Bus!Published(e)  BY <2>1, <2>6 DEF Bus!Published, Bus!EventOf
    <3>2. Cover(e, s, 0)  BY <3>1 DEF BusInv, Covered
    <3> QED  BY <2>5, <3>2
  <2>7. ASSUME NEW q \in Operators, operator'[q].pc = "deleting", NEW e \in Events, NEW s \in Bus!Numbers,
               <<e, s>> \in Bus!LetterPairs(operator'[q].letter)
        PROVE  Cover(e, s, operator[q].letter[1][2])'
    <3>1. operator'[q] = operator[q]  BY <2>2, <2>7
    <3>2. <<e, s>> \in Bus!LetterPairs(operator[q].letter) /\ operator[q].pc = "deleting"
      BY <2>7, <3>1
    <3>3. PICK n : n = operator[q].letter[1][2]  OBVIOUS
    <3>4. Cover(e, s, n)  BY <3>2, <3>3 DEF BusInv, Covered
    <3>5. n \in Nat  BY <1>1, <3>2, <3>3, LetterParts, JobParts DEF Genuine
    <3>6. Cover(e, s, n)'  BY <2>5, <3>4, <3>5
    <3>7. n = operator'[q].letter[1][2]  BY <3>1, <3>3
    <3> QED  BY <3>6, <3>7 DEF Cover
  <2>8. Covered'  BY <2>6, <2>7 DEF Covered, Bus!LetterPairs, Bus!Pairs, Bus!EventOf
  <2> QED  BY <2>4, <2>8 DEF BusInv
<1>9. CASE Bus!Discard(o)
  <2>1. PICK m \in letters : letters' = letters \ {m} /\ excused' = excused \cup Bus!LetterPairs(m)
    BY <1>9 DEF Bus!Discard
  <2>2. UNCHANGED <<kind, phase, job, operator, handled, failed>>  BY <1>9 DEF Bus!Discard
  <2>3. BusTyped' /\ BusOrdered' /\ (kind' = "process" => InTurn')
    <3>1. letters' \subseteq letters  BY <2>1
    <3> QED  BY <1>1, <2>2, <3>1, BusAside
  <2>4. \A e \in Events, s \in Bus!Numbers : Keeps(e, s)  BY <2>1, <2>2 DEF Keeps, Settled
  <2>5. \A q \in Operators : operator'[q] = operator[q]  BY <2>2
  <2>6. \A e : Bus!Published(e)' => Bus!Published(e)  BY <2>2 DEF Bus!Published, Bus!EventOf
  <2>7. Covered'  BY <2>4, <2>5, <2>6, KeepsCovered DEF BusInv
  <2> QED  BY <2>3, <2>7 DEF BusInv
<1> QED  BY <1>4, <1>5, <1>6, <1>7, <1>8, <1>9 DEF Bus!Replay

(* Steps that leave all this be.                                           *)
LEMMA BusStill ==
  ASSUME BusInv, UNCHANGED <<kind, job, letters, operator, handled, failed, excused>>
  PROVE  Covered' /\ (kind' = "process" => InTurn')
<1>1. \A e \in Events, s \in Bus!Numbers : Keeps(e, s)  BY DEF Keeps, Settled
<1>2. \A e : Bus!Published(e)' <=> Bus!Published(e)  BY DEF Bus!Published, Bus!EventOf
<1>3. Covered'  BY <1>1, <1>2, KeepsCovered DEF BusInv
<1>4. InTurn => InTurn'  BY DEF InTurn, Active, Bus!Published, Bus!EventOf
<1> QED  BY <1>3, <1>4 DEF BusInv

(* A step of the shutdown that changes the phase only.                     *)
LEMMA BusPhases ==
  ASSUME Bus!DeliveryAssumption, BusInv, NEW p \in {"draining", "closing"}, Bus!OnlyPhase(p),
         p = "closing" =>
           /\ \A o \in Operators : operator[o].pc = "idle"
           /\ kind = "process" => \A j \in Bus!Jobs : job[j].pc \notin {"running", "sinking"}
  PROVE  BusInv'
<1>1. /\ UNCHANGED <<kind, job, letters, operator, handled, failed, excused>> /\ phase' = p
  BY DEF Bus!OnlyPhase
<1>2. BusTyped'  BY <1>1 DEF BusInv, BusTyped, BusLocals, BusLetters
<1>3. BusOrdered'
  <2>1. \A j \in Bus!Jobs : Placed(job[j])'  BY <1>1 DEF BusInv, BusOrdered, Placed
  <2>2. \A l \in letters' : Genuine(l)'  BY <1>1 DEF BusInv, BusOrdered, Genuine
  <2>3. \A o \in Operators : operator'[o].pc # "idle" => Genuine(operator[o].letter)' /\ phase' # "closing"
    BY <1>1 DEF BusInv, BusOrdered, Genuine
  <2> QED  BY <1>1, <2>1, <2>2, <2>3 DEF BusInv, BusOrdered
<1>4. Covered' /\ (kind' = "process" => InTurn')  BY <1>1, BusStill
<1> QED  BY <1>2, <1>3, <1>4 DEF BusInv

LEMMA BusNext ==
  ASSUME Bus!DeliveryAssumption, BusInv, [Bus!Next]_(Bus!deliveryVars)
  PROVE  BusInv'
<1>0. operator \in [Operators -> [pc : {"idle", "replaying", "deleting"}, letter : BusLetters \cup {<<>>}]]
  BY DEF BusInv, BusTyped
<1>1. ASSUME NEW e \in Events, Bus!PublishEvent(e) PROVE BusInv'
  <2>1. PICK j \in Bus!Fresh(e) : Bus!Publish(j)  BY <1>1 DEF Bus!PublishEvent
  <2>2. PICK place \in {"waiting", "running", "over"} :
          /\ job' = [job EXCEPT ![j].pc = place] /\ place # "over"
          /\ kind = "process" => place # "waiting"
    BY <2>1 DEF Bus!Publish
  <2>3. /\ UNCHANGED <<kind, phase, letters, operator, handled, failed, excused>>
        /\ phase # "closing" /\ ~Bus!Published(e)
    BY <1>1 DEF Bus!PublishEvent
  <2> QED  BY <1>0, <2>2, <2>3, BusPublishes
<1>2. ASSUME NEW e \in Events, Bus!EnqueueFails(e) PROVE BusInv'
  <2>1. PICK j \in Bus!Fresh(e) : job' = [job EXCEPT ![j].pc = "over"]  BY <1>2 DEF Bus!EnqueueFails
  <2>2. /\ UNCHANGED <<kind, phase, letters, operator, handled, failed>>
        /\ excused' = excused \cup Bus!Pairs(e, Bus!Numbers)
        /\ phase # "closing" /\ ~Bus!Published(e)
    BY <1>2 DEF Bus!EnqueueFails
  <2> QED  BY <1>0, <2>1, <2>2, BusPublishes
<1>3. ASSUME Bus!Crash PROVE BusInv'
  <2>1. Bus!Restart /\ excused' = excused \cup UNION {Bus!Rest(j) : j \in {i \in Bus!Jobs : Bus!Lost(i)}}
    BY <1>3 DEF Bus!Crash
  <2>2. excused \subseteq excused' /\ \A j \in Bus!Jobs : Bus!Lost(j) => Bus!Rest(j) \subseteq excused'
    BY <2>1
  <2> QED  BY <2>1, <2>2, BusRestarts
<1>4. ASSUME Bus!Exit PROVE BusInv'
  <2>1. /\ Bus!Restart /\ phase = "closing"
        /\ excused' = excused \cup
             UNION {Bus!Rest(j) : j \in {i \in Bus!Jobs : kind # "process" /\ Bus!Lost(i)}}
    BY <1>4 DEF Bus!Exit
  <2>2. /\ excused \subseteq excused'
        /\ \A j \in Bus!Jobs : kind # "process" /\ Bus!Lost(j) => Bus!Rest(j) \subseteq excused'
    BY <2>1
  <2>3. kind = "process" => \A j \in Bus!Jobs : ~Bus!Lost(j)
    BY <2>1 DEF BusInv, BusOrdered, Placed, Bus!Lost
  <2> QED  BY <2>1, <2>2, <2>3, BusRestarts
<1>5. ASSUME Bus!ShutDown \/ Bus!Drained PROVE BusInv'
  <2>1. CASE Bus!ShutDown  BY <2>1, BusPhases DEF Bus!ShutDown
  <2>2. CASE Bus!Drained  BY <2>2, BusPhases DEF Bus!Drained, Bus!At
  <2> QED  BY <1>5, <2>1, <2>2
<1>6. CASE UNCHANGED Bus!deliveryVars
  <2>1. UNCHANGED <<kind, phase, job, letters, operator, handled, failed, excused>>
    BY <1>6 DEF Bus!deliveryVars
  <2>2. BusTyped'  BY <2>1 DEF BusInv, BusTyped, BusLocals, BusLetters
  <2>3. BusOrdered'  BY <2>1 DEF BusInv, BusOrdered, Placed, Genuine
  <2>4. Covered' /\ (kind' = "process" => InTurn')  BY <2>1, BusStill
  <2> QED  BY <2>2, <2>3, <2>4 DEF BusInv
<1> QED
  BY <1>1, <1>2, <1>3, <1>4, <1>5, <1>6, BusSteps, BusReplays DEF Bus!Next, Bus!Leaving

(* No published event is dropped silently: whatever retries, replays by    *)
(* several operators, crashes, restarts and shutdowns overlap, each        *)
(* subscriber has handled it, will come to it, is on record as a dead      *)
(* letter, or was given up where a fault, a crash or an operator says so;  *)
(* and in process nobody handles an event again for the failures of others *)
(* (bus.ts, queue.ts, deadLetters.ts, service.ts).                         *)
THEOREM EventsAccountedHolds ==
  ASSUME Bus!DeliveryAssumption
  PROVE  Bus!Spec => []EventsAccounted
<1>1. Bus!Init => BusInv
  <2> SUFFICES ASSUME Bus!Init PROVE BusInv  OBVIOUS
  <2>1. /\ \A j \in Bus!Jobs : job[j] = [pc |-> "unpublished", next |-> 1, attempt |-> 1, stalled |-> FALSE]
        /\ job \in [Bus!Jobs -> BusLocals]
    <3>1. 1 \in 1 .. Subscribers + 1  BY DEF Bus!DeliveryAssumption
    <3>2. [pc |-> "unpublished", next |-> 1, attempt |-> 1, stalled |-> FALSE] \in BusLocals  BY <3>1 DEF BusLocals
    <3> QED  BY <3>2 DEF Bus!Init
  <2>2. BusTyped  BY <2>1 DEF Bus!Init, BusTyped
  <2>3. BusOrdered  BY <2>1 DEF Bus!Init, BusOrdered, Placed
  <2>4. \A e : ~Bus!Published(e)  BY <2>1 DEF Bus!Published
  <2>5. Covered  BY <2>4 DEF Bus!Init, Covered
  <2>6. InTurn  BY <2>1 DEF Bus!Init, InTurn, Active
  <2> QED  BY <2>2, <2>3, <2>5, <2>6 DEF BusInv
<1>2. BusInv => EventsAccounted
  <2> SUFFICES ASSUME BusInv PROVE EventsAccounted  OBVIOUS
  <2>1. ASSUME NEW e \in Events, NEW s \in Bus!Numbers, Bus!Published(e)
        PROVE  \/ handled[e][s] > 0
               \/ Bus!OnTheWay(e, s)
               \/ \E l \in letters : <<e, s>> \in Bus!LetterPairs(l)
               \/ <<e, s>> \in excused
    BY <2>1 DEF BusInv, Covered, Cover, Active, Bus!OnTheWay, Bus!EventOf
  <2>2. kind = "process" => Bus!HealthyOnce  BY DEF BusInv, InTurn, Bus!HealthyOnce
  <2> QED  BY <2>1, <2>2 DEF EventsAccounted, Bus!EventsAccounted, Bus!Accounted
<1>3. BusInv /\ [Bus!Next]_(Bus!deliveryVars) => BusInv'  BY BusNext
<1> QED  BY <1>1, <1>2, <1>3, PTL DEF Bus!Spec
=============================================================================
