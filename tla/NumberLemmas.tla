---------------------------- MODULE NumberLemmas ----------------------------
(* Facts about sets of natural numbers, and about how many members a set   *)
(* has, that the proofs share.  There is no induction over a formula in    *)
(* them: the least element takes its place.                                *)
EXTENDS Integers, FiniteSetsExt, FiniteSetTheorems, WellFoundedInduction, TLAPS

(* Every set of numbers has a least one: Nat is well-founded.              *)
LEMMA Least ==
  ASSUME NEW T \in SUBSET Nat, T # {}
  PROVE  \E x \in T : \A y \in T : x <= y
<1> DEFINE R == {ss \in Nat \X Nat : ss[1] < ss[2]}
<1>1. IsWellFoundedOn(R, Nat)  BY NatLessThanWellFounded DEF OpToRel
<1>2. PICK x \in T : \A y \in T : ~(<<y, x>> \in R)  BY <1>1, WFMin
<1>3. ASSUME NEW y \in T PROVE x <= y
  <2>1. <<y, x>> \notin R  BY <1>2
  <2>2. <<y, x>> \in Nat \X Nat  OBVIOUS
  <2>3. ~(y < x)  BY <2>1, <2>2
  <2> QED  BY <2>3
<1> QED  BY <1>3

(* What Max of FiniteSetsExt is of a set between two bounds.               *)
LEMMA MaxBetween ==
  ASSUME NEW a \in Nat, NEW b \in Nat, NEW T \in SUBSET (a .. b), T # {}
  PROVE  Max(T) \in T /\ \A y \in T : y <= Max(T)
<1> DEFINE U == {b - y : y \in T}
<1>1. U \in SUBSET Nat /\ U # {}  OBVIOUS
<1>2. PICK u \in U : \A v \in U : u <= v  BY <1>1, Least
<1>3. PICK x \in T : u = b - x  BY <1>2
<1>4. \A y \in T : x >= y
  <2> TAKE y \in T
  <2>1. u <= b - y  BY <1>2
  <2> QED  BY <1>3, <2>1
<1> QED  BY <1>4 DEF Max

(* Finitely many numbers have an upper bound.                              *)
LEMMA Bounded ==
  ASSUME NEW n \in Nat, NEW f \in [1 .. n -> Nat]
  PROVE  \E b \in Nat : \A i \in 1 .. n : f[i] <= b
<1> DEFINE bound(m) == \E b \in Nat : \A i \in 1 .. m : f[i] <= b
           T == {m \in 0 .. n : ~bound(m)}
<1>0. T \in SUBSET Nat /\ \A m \in 0 .. n : m \in T <=> ~bound(m)
  <2> HIDE DEF bound
  <2> QED  OBVIOUS
<1>1. SUFFICES ASSUME T # {} PROVE FALSE
  <2>1. n \in 0 .. n  OBVIOUS
  <2> QED  BY <1>0, <2>1
<1>2. PICK m \in T : \A k \in T : m <= k  BY <1>0, <1>1, Least
<1>3. bound(0)
  <2>1. \A i \in 1 .. 0 : f[i] <= 0  OBVIOUS
  <2> QED  BY <2>1
<1>a. m \in 0 .. n /\ ~bound(m)  OBVIOUS
<1>b. m # 0
  <2> SUFFICES ASSUME m = 0 PROVE FALSE  OBVIOUS
  <2> HIDE DEF bound
  <2> QED  BY <1>3, <1>a
<1>4. m - 1 \in 0 .. n /\ m \in 1 .. n
  <2> HIDE DEF bound, T
  <2> QED  BY <1>a, <1>b
<1>5. bound(m - 1)
  <2>1. m - 1 \notin T
    <3> HIDE DEF bound, T
    <3> QED  BY <1>2, <1>4
  <2> HIDE DEF bound, T
  <2> QED  BY <1>0, <1>4, <2>1
<1>6. PICK b \in Nat : \A i \in 1 .. m - 1 : f[i] <= b  BY <1>5
<1>7. PICK c \in Nat : b <= c /\ f[m] <= c
  <2>1. f[m] \in Nat  BY <1>4
  <2>2. b + f[m] \in Nat /\ b <= b + f[m] /\ f[m] <= b + f[m]  BY <2>1
  <2> HIDE DEF bound, T
  <2> QED  BY <2>2
<1>8. \A i \in 1 .. m : f[i] <= c
  <2> TAKE i \in 1 .. m
  <2>1. CASE i = m  BY <1>7, <2>1
  <2>2. CASE i # m
    <3>1. i \in 1 .. m - 1 /\ f[i] \in Nat  BY <1>4, <2>2
    <3> QED  BY <1>6, <1>7, <3>1
  <2> QED  BY <2>1, <2>2
<1>9. bound(m)  BY <1>8
<1> QED  BY <1>a, <1>9

(* A finite set of them has a greatest one.                                *)
LEMMA FiniteMax ==
  ASSUME NEW T \in SUBSET Nat, IsFiniteSet(T), T # {}
  PROVE  Max(T) \in T /\ \A y \in T : y <= Max(T)
<1>1. PICK n \in Nat : ExistsSurjection(1 .. n, T)  BY FS_NatSurjection
<1>a. PICK f \in [1 .. n -> T] : \A y \in T : \E i \in 1 .. n : f[i] = y
  BY <1>1 DEF ExistsSurjection, Surjection
<1>2. f \in [1 .. n -> Nat]  OBVIOUS
<1>3. PICK b \in Nat : \A i \in 1 .. n : f[i] <= b  BY <1>2, Bounded
<1>4. T \in SUBSET (0 .. b)
  <2>1. ASSUME NEW y \in T PROVE y \in Nat /\ y <= b  BY <1>a, <1>3
  <2> QED  BY <2>1
<1> QED  BY <1>4, MaxBetween

(* And what Min is of any set of them.                                     *)
LEMMA MinMember ==
  ASSUME NEW T \in SUBSET Nat, T # {}
  PROVE  Min(T) \in T
BY Least DEF Min

LEMMA MinLeast ==
  ASSUME NEW T \in SUBSET Nat, T # {}, NEW x \in T
  PROVE  Min(T) <= x
BY Least DEF Min

(* Two sets that differ in what c has to do with them.                     *)
LEMMA OneMoves ==
  ASSUME NEW S, IsFiniteSet(S), NEW T, NEW c, S \ {c} = T \ {c}
  PROVE  /\ IsFiniteSet(T) /\ Cardinality(S) \in Nat /\ Cardinality(T) \in Nat
         /\ Cardinality(T) + (IF c \in S THEN 1 ELSE 0) = Cardinality(S) + (IF c \in T THEN 1 ELSE 0)
<1> DEFINE R == S \ {c}
<1>1. IsFiniteSet(R)  BY FS_RemoveElement
<1>2. Cardinality(R) \in Nat  BY <1>1, FS_CardinalityType
<1>3. /\ IsFiniteSet(R \cup {c}) /\ Cardinality(R \cup {c}) = Cardinality(R) + 1
  BY <1>1, FS_AddElement
<1>4. /\ c \in S => S = R \cup {c}
      /\ c \notin S => S = R
      /\ c \in T => T = R \cup {c}
      /\ c \notin T => T = R
  OBVIOUS
<1> HIDE DEF R
<1>5. ASSUME NEW U, c \in U => U = R \cup {c}, c \notin U => U = R
      PROVE  Cardinality(U) = Cardinality(R) + (IF c \in U THEN 1 ELSE 0)
  <2>1. CASE c \in U  BY <1>3, <1>5, <2>1
  <2>2. CASE c \notin U  BY <1>2, <1>5, <2>2
  <2> QED  BY <2>1, <2>2
<1>6. /\ Cardinality(S) = Cardinality(R) + (IF c \in S THEN 1 ELSE 0)
      /\ Cardinality(T) = Cardinality(R) + (IF c \in T THEN 1 ELSE 0)
  BY <1>4, <1>5
<1>7. IsFiniteSet(T)  BY <1>1, <1>3, <1>4
<1> DEFINE m == Cardinality(R)
           a == IF c \in S THEN 1 ELSE 0
           b == IF c \in T THEN 1 ELSE 0
<1>8. m \in Nat /\ a \in Nat /\ b \in Nat  BY <1>2
<1> HIDE DEF m, a, b
<1>9. m + a \in Nat /\ m + b \in Nat /\ (m + b) + a = (m + a) + b  BY <1>8
<1> QED  BY <1>6, <1>7, <1>9 DEF m, a, b

(* A function has at most as many values as arguments.                     *)
LEMMA ImageCardinality ==
  ASSUME NEW S, IsFiniteSet(S), NEW T, NEW f \in [S -> T],
         NEW I, \A y \in I : \E x \in S : y = f[x]
  PROVE  /\ IsFiniteSet(I)
         /\ Cardinality(I) <= Cardinality(S)
<1> DEFINE image == {f[x] : x \in S}
<1>1. f \in Surjection(S, image)
  BY DEF Surjection
<1>2. IsFiniteSet(image) /\ Cardinality(image) <= Cardinality(S)
  BY <1>1, FS_Surjection
<1>3. I \subseteq image
  OBVIOUS
<1>4. IsFiniteSet(I) /\ Cardinality(I) <= Cardinality(image)
  BY <1>2, <1>3, FS_Subset
<1>5. /\ Cardinality(S) \in Nat /\ Cardinality(image) \in Nat
      /\ Cardinality(I) \in Nat
  BY <1>2, <1>4, FS_CardinalityType
<1>6. QED
  BY <1>2, <1>4, <1>5

(* A union has at most as many elements as its parts together.             *)
LEMMA UnionCardinality ==
  ASSUME NEW S, IsFiniteSet(S), NEW T, IsFiniteSet(T)
  PROVE  /\ IsFiniteSet(S \cup T)
         /\ Cardinality(S \cup T) <= Cardinality(S) + Cardinality(T)
<1>1. /\ IsFiniteSet(S \cup T) /\ IsFiniteSet(S \cap T)
      /\ Cardinality(S \cup T) = Cardinality(S) + Cardinality(T) - Cardinality(S \cap T)
  BY FS_Union, FS_Intersection
<1>2. Cardinality(S) \in Nat /\ Cardinality(T) \in Nat /\ Cardinality(S \cap T) \in Nat
  BY <1>1, FS_CardinalityType
<1>3. QED
  BY <1>1, <1>2

-----------------------------------------------------------------------------
(* Sums of the values of a function at finitely many places.               *)

(* Its units, one by one: there are as many as their sum.                  *)
Units(f, S) == {p \in S \X Nat : p[2] \in 1 .. f[p[1]]}

(* The units of one place more.                                            *)
LEMMA UnitsAdd ==
  ASSUME NEW S, NEW f, NEW k \in S, f[k] \in Nat, IsFiniteSet(Units(f, S \ {k}))
  PROVE  /\ IsFiniteSet(Units(f, S))
         /\ Cardinality(Units(f, S)) = f[k] + Cardinality(Units(f, S \ {k}))
<1> DEFINE own == {k} \X (1 .. f[k])
           rest == Units(f, S \ {k})
<1>1. Units(f, S) = own \cup rest /\ own \cap rest = {}
  BY DEF Units
<1>2. IsFiniteSet(own) /\ Cardinality(own) = f[k]
  <2>1. IsFiniteSet(1 .. f[k]) /\ Cardinality(1 .. f[k]) = f[k]
    <3> DEFINE n == f[k]
    <3>1. n \in Nat /\ n \in Int /\ 1 \in Int  OBVIOUS
    <3> HIDE DEF n
    <3>2. IsFiniteSet(1 .. n) /\ Cardinality(1 .. n) = IF 1 > n THEN 0 ELSE n - 1 + 1
      BY <3>1, FS_Interval
    <3>3. (IF 1 > n THEN 0 ELSE n - 1 + 1) = n  BY <3>1
    <3>4. IsFiniteSet(1 .. n) /\ Cardinality(1 .. n) = n  BY <3>2, <3>3
    <3> QED  BY <3>4 DEF n
  <2>2. IsFiniteSet({k}) /\ Cardinality({k}) = 1  BY FS_Singleton
  <2> DEFINE one == {k}
             units == 1 .. f[k]
  <2>3. 1 * f[k] = f[k]  OBVIOUS
  <2>4. own = one \X units  OBVIOUS
  <2> HIDE DEF one, units, own
  <2>5. IsFiniteSet(one \X units) /\ Cardinality(one \X units) = Cardinality(one) * Cardinality(units)
    <3>1. IsFiniteSet(one) /\ IsFiniteSet(units)  BY <2>1, <2>2 DEF one, units
    <3> QED  BY <3>1, FS_Product
  <2>6. Cardinality(one) = 1 /\ Cardinality(units) = f[k]  BY <2>1, <2>2 DEF one, units
  <2> QED  BY <2>3, <2>4, <2>5, <2>6
<1> HIDE DEF own, rest
<1>3. /\ IsFiniteSet(own \cup rest)
      /\ Cardinality(own \cup rest) = Cardinality(own) + Cardinality(rest) - Cardinality(own \cap rest)
  BY <1>2, FS_Union DEF rest
<1>4. Cardinality(own \cap rest) = 0  BY <1>1, FS_EmptySet
<1>5. Cardinality(rest) \in Nat  BY FS_CardinalityType DEF rest
<1> QED  BY <1>1, <1>2, <1>3, <1>4, <1>5 DEF rest

(* There are finitely many.                                                *)
LEMMA UnitsFinite ==
  ASSUME NEW S, IsFiniteSet(S), NEW f, \A x \in S : f[x] \in Nat
  PROVE  IsFiniteSet(Units(f, S)) /\ Cardinality(Units(f, S)) \in Nat
<1> DEFINE bad == {s \in SUBSET S : ~IsFiniteSet(Units(f, s))}
           sizes == {Cardinality(s) : s \in bad}
<1>0. \A s \in SUBSET S : IsFiniteSet(s) /\ Cardinality(s) \in Nat
  BY FS_Subset, FS_CardinalityType
<1>1. SUFFICES ASSUME bad # {} PROVE FALSE
  BY FS_CardinalityType
<1>2. sizes \in SUBSET Nat /\ sizes # {}  BY <1>0, <1>1
<1>3. PICK n \in sizes : \A m \in sizes : n <= m
  <2> HIDE DEF sizes
  <2> QED  BY <1>2, Least
<1>4. PICK s \in bad : n = Cardinality(s)  BY <1>3
<1>5. s # {}
  <2> SUFFICES ASSUME s = {} PROVE FALSE  OBVIOUS
  <2>1. Units(f, s) = {}  BY DEF Units
  <2> QED  BY <1>4, <2>1, FS_EmptySet
<1>6. PICK k \in s : TRUE  BY <1>5
<1>7. Cardinality(s \ {k}) = n - 1 /\ n \in Nat
  BY <1>0, <1>4, <1>6, FS_RemoveElement
<1>8. s \ {k} \notin bad
  <2> SUFFICES ASSUME s \ {k} \in bad PROVE FALSE  OBVIOUS
  <2>1. n <= n - 1  BY <1>3, <1>7
  <2> QED  BY <1>7, <2>1
<1>9. IsFiniteSet(Units(f, s \ {k}))  BY <1>4, <1>8
<1>10. IsFiniteSet(Units(f, s))
  <2> HIDE DEF bad
  <2>1. s \in SUBSET S  BY <1>4 DEF bad
  <2>2. f[k] \in Nat  BY <1>6, <2>1
  <2> QED  BY <1>6, <1>9, <2>2, UnitsAdd
<1> QED  BY <1>4, <1>10

(* The fold adds the values up in an order of its own; what it comes to is *)
(* the number of their units, in any order.                                *)
LEMMA SumCounts ==
  ASSUME NEW S, IsFiniteSet(S), NEW f, \A x \in S : f[x] \in Nat
  PROVE  SumFunctionOnSet(f, S) = Cardinality(Units(f, S))
<1> DEFINE pick(s) == CHOOSE x \in s : TRUE
           Adds(g) == g = [s \in SUBSET S |-> IF s = {} THEN 0 ELSE f[pick(s)] + g[s \ {pick(s)}]]
           count == [s \in SUBSET S |-> Cardinality(Units(f, s))]
           iter == CHOOSE g : Adds(g)
<1>0. \A s \in SUBSET S : IsFiniteSet(s) /\ Cardinality(s) \in Nat /\ \A x \in s : f[x] \in Nat
  BY FS_Subset, FS_CardinalityType
<1>1. SumFunctionOnSet(f, S) = iter[S]
  BY DEF SumFunctionOnSet, FoldFunctionOnSet, MapThenFoldSet
<1>2. ASSUME NEW s \in SUBSET S, s # {}
      PROVE  /\ pick(s) \in s /\ s \ {pick(s)} \in SUBSET S
             /\ Cardinality(Units(f, s)) = f[pick(s)] + Cardinality(Units(f, s \ {pick(s)}))
  <2>1. pick(s) \in s  BY <1>2
  <2> HIDE DEF pick
  <2>2. s \ {pick(s)} \in SUBSET S  OBVIOUS
  <2>3. IsFiniteSet(Units(f, s \ {pick(s)}))  BY <1>0, <2>2, UnitsFinite
  <2>4. f[pick(s)] \in Nat  BY <1>0, <2>1
  <2> QED  BY <2>1, <2>2, <2>3, <2>4, UnitsAdd
<1>3. Units(f, {}) = {} /\ Cardinality(Units(f, {})) = 0
  <2>1. Units(f, {}) = {}  BY DEF Units
  <2> QED  BY <2>1, FS_EmptySet
<1>4. Adds(count)
  <2> HIDE DEF pick
  <2> QED  BY <1>2, <1>3
<1>5. Adds(iter)
  <2> HIDE DEF count
  <2> QED  BY <1>4
<1>6. \A s \in SUBSET S : iter[s] = Cardinality(Units(f, s))
  <2> DEFINE bad == {s \in SUBSET S : iter[s] # Cardinality(Units(f, s))}
             sizes == {Cardinality(s) : s \in bad}
  <2>1. SUFFICES ASSUME bad # {} PROVE FALSE  OBVIOUS
  <2> HIDE DEF iter
  <2>2. sizes \in SUBSET Nat /\ sizes # {}  BY <1>0, <2>1
  <2>3. PICK n \in sizes : \A m \in sizes : n <= m
    <3> HIDE DEF sizes
    <3> QED  BY <2>2, Least
  <2>4. PICK s \in bad : n = Cardinality(s)  BY <2>3
  <2>5. s # {}
    <3> SUFFICES ASSUME s = {} PROVE FALSE  OBVIOUS
    <3>1. iter[{}] = 0  BY <1>5
    <3> QED  BY <1>3, <2>4, <3>1
  <2> HIDE DEF pick
  <2>6. /\ pick(s) \in s /\ s \ {pick(s)} \in SUBSET S
        /\ Cardinality(Units(f, s)) = f[pick(s)] + Cardinality(Units(f, s \ {pick(s)}))
    BY <1>2, <2>5
  <2>7. Cardinality(s \ {pick(s)}) = n - 1 /\ n \in Nat
    BY <1>0, <2>4, <2>6, FS_RemoveElement
  <2>8. s \ {pick(s)} \notin bad
    <3> SUFFICES ASSUME s \ {pick(s)} \in bad PROVE FALSE  OBVIOUS
    <3>1. n <= n - 1  BY <2>3, <2>7
    <3> QED  BY <2>7, <3>1
  <2>9. iter[s] = f[pick(s)] + iter[s \ {pick(s)}]  BY <1>5, <2>5
  <2> QED  BY <2>4, <2>6, <2>8, <2>9
<1> QED  BY <1>1, <1>6

(* A sum, one place at a time.                                             *)
LEMMA SumAdds ==
  ASSUME NEW S, IsFiniteSet(S), NEW f, \A x \in S : f[x] \in Nat
  PROVE  /\ SumFunctionOnSet(f, S) \in Nat
         /\ S = {} => SumFunctionOnSet(f, S) = 0
         /\ \A k \in S : /\ SumFunctionOnSet(f, S \ {k}) \in Nat
                         /\ SumFunctionOnSet(f, S) = f[k] + SumFunctionOnSet(f, S \ {k})
<1>1. SumFunctionOnSet(f, S) = Cardinality(Units(f, S)) /\ Cardinality(Units(f, S)) \in Nat
  BY SumCounts, UnitsFinite
<1>2. S = {} => SumFunctionOnSet(f, S) = 0
  <2>1. S = {} => Units(f, S) = {}  BY DEF Units
  <2> QED  BY <1>1, <2>1, FS_EmptySet
<1>3. ASSUME NEW k \in S
      PROVE  /\ SumFunctionOnSet(f, S \ {k}) \in Nat
             /\ SumFunctionOnSet(f, S) = f[k] + SumFunctionOnSet(f, S \ {k})
  <2>1. IsFiniteSet(S \ {k})  BY FS_RemoveElement
  <2>2. /\ IsFiniteSet(Units(f, S \ {k})) /\ Cardinality(Units(f, S \ {k})) \in Nat
        /\ SumFunctionOnSet(f, S \ {k}) = Cardinality(Units(f, S \ {k}))
    BY <2>1, UnitsFinite, SumCounts
  <2> QED  BY <1>1, <2>2, UnitsAdd
<1> QED  BY <1>1, <1>2, <1>3

(* Values that exceed others by c at most add up to c more per place.      *)
LEMMA SumExceeds ==
  ASSUME NEW S, IsFiniteSet(S), NEW f, NEW g, NEW c \in Nat,
         \A x \in S : f[x] \in Nat /\ g[x] \in Nat /\ f[x] <= g[x] + c
  PROVE  SumFunctionOnSet(f, S) <= SumFunctionOnSet(g, S) + c * Cardinality(S)
<1> DEFINE F(s) == SumFunctionOnSet(f, s)
           G(s) == SumFunctionOnSet(g, s)
           bad == {s \in SUBSET S : ~(F(s) <= G(s) + c * Cardinality(s))}
           sizes == {Cardinality(s) : s \in bad}
<1>0. \A s \in SUBSET S : IsFiniteSet(s) /\ Cardinality(s) \in Nat
  BY FS_Subset, FS_CardinalityType
<1>1. SUFFICES ASSUME bad # {} PROVE FALSE  OBVIOUS
<1>2. sizes \in SUBSET Nat /\ sizes # {}  BY <1>0, <1>1
<1>3. PICK n \in sizes : \A m \in sizes : n <= m
  <2> HIDE DEF sizes
  <2> QED  BY <1>2, Least
<1>4. PICK s \in bad : n = Cardinality(s)  BY <1>3
<1>5. /\ s \in SUBSET S /\ IsFiniteSet(s) /\ n \in Nat /\ ~(F(s) <= G(s) + c * n)
      /\ \A x \in s : f[x] \in Nat /\ g[x] \in Nat /\ f[x] <= g[x] + c
  BY <1>0, <1>4
<1>6. F(s) \in Nat /\ G(s) \in Nat /\ (s = {} => F(s) = 0)
  BY <1>5, SumAdds
<1>7. s # {}
  <2> SUFFICES ASSUME s = {} PROVE FALSE  OBVIOUS
  <2>1. n = 0  BY <1>4, FS_EmptySet
  <2> HIDE DEF F, G, bad
  <2>2. c * n = 0  BY <2>1
  <2> QED  BY <1>5, <1>6, <2>2
<1>8. PICK k \in s : TRUE  BY <1>7
<1>9. Cardinality(s \ {k}) = n - 1  BY <1>4, <1>5, <1>8, FS_RemoveElement
<1> DEFINE r == s \ {k}
<1>10. r \in SUBSET S /\ r \notin bad
  <2> SUFFICES ASSUME r \in bad PROVE FALSE  BY <1>5
  <2>1. n <= n - 1  BY <1>3, <1>9
  <2> QED  BY <1>5, <2>1
<1>11. F(r) <= G(r) + c * (n - 1)  BY <1>9, <1>10
<1>12. /\ F(s) = f[k] + F(r) /\ F(r) \in Nat
       /\ G(s) = g[k] + G(r) /\ G(r) \in Nat
  <2>1. F(s) = f[k] + F(r) /\ F(r) \in Nat  BY <1>5, <1>8, SumAdds
  <2>2. G(s) = g[k] + G(r) /\ G(r) \in Nat  BY <1>5, <1>8, SumAdds
  <2> QED  BY <2>1, <2>2
<1>13. f[k] \in Nat /\ g[k] \in Nat /\ f[k] <= g[k] + c  BY <1>5, <1>8
<1> HIDE DEF F, G, bad, sizes, r
<1> DEFINE fr == F(r)
           gr == G(r)
           fk == f[k]
           gk == g[k]
<1>14. fr \in Nat /\ gr \in Nat /\ fk \in Nat /\ gk \in Nat
  BY <1>12, <1>13
<1>15. F(s) = fk + fr /\ G(s) = gk + gr /\ fr <= gr + c * (n - 1) /\ fk <= gk + c
  BY <1>11, <1>12, <1>13
<1> HIDE DEF fr, gr, fk, gk
<1>16. c * (n - 1) = c * n - c /\ c * n \in Int
  BY <1>5
<1>17. fk + fr <= gk + gr + c * n  BY <1>5, <1>14, <1>15, <1>16
<1> QED  BY <1>5, <1>14, <1>15, <1>17

(* Equal values, equal sums.                                               *)
LEMMA SumSame ==
  ASSUME NEW S, IsFiniteSet(S), NEW f, NEW g, \A x \in S : f[x] \in Nat /\ f[x] = g[x]
  PROVE  SumFunctionOnSet(f, S) = SumFunctionOnSet(g, S)
<1>1. Units(f, S) = Units(g, S)  BY DEF Units
<1>2. \A x \in S : g[x] \in Nat  OBVIOUS
<1> QED  BY <1>1, <1>2, SumCounts

(* Fewer places, no greater a sum.                                         *)
LEMMA SumShrinks ==
  ASSUME NEW S, IsFiniteSet(S), NEW f, \A x \in S : f[x] \in Nat, NEW U \in SUBSET S
  PROVE  SumFunctionOnSet(f, U) <= SumFunctionOnSet(f, S)
<1>1. IsFiniteSet(U) /\ \A x \in U : f[x] \in Nat  BY FS_Subset
<1>2. Units(f, U) \subseteq Units(f, S)  BY DEF Units
<1>3. Cardinality(Units(f, U)) <= Cardinality(Units(f, S))  BY <1>2, UnitsFinite, FS_Subset
<1>4. QED  BY <1>1, <1>3, SumCounts

(* What places of T, none of more than c, can add to the sum of S.         *)
LEMMA SumCovers ==
  ASSUME NEW S, IsFiniteSet(S), NEW T, IsFiniteSet(T), NEW U, U \subseteq S \cup T, NEW c \in Nat,
         NEW f, \A x \in S : f[x] \in Nat, \A x \in U : f[x] \in Nat /\ f[x] <= c
  PROVE  SumFunctionOnSet(f, U) <= SumFunctionOnSet(f, S) + c * Cardinality(T)
<1> DEFINE m == 1 .. c
           more == T \X m
<1>1. IsFiniteSet(m) /\ Cardinality(m) = c  BY FS_Interval
<1>2. IsFiniteSet(more) /\ Cardinality(more) = Cardinality(T) * Cardinality(m)
  BY <1>1, FS_Product
<1>3. Units(f, U) \subseteq Units(f, S) \cup more
  <2> SUFFICES ASSUME NEW x \in U, NEW i \in Nat, i \in 1 .. f[x], x \notin S
               PROVE  <<x, i>> \in more
    BY DEF Units
  <2>1. x \in T /\ f[x] <= c /\ f[x] \in Nat  OBVIOUS
  <2> QED  BY <2>1
<1> HIDE DEF more
<1>4. IsFiniteSet(U)
  <2>1. IsFiniteSet(S \cup T)  BY FS_Union
  <2>2. QED  BY <2>1, FS_Subset
<1>5. /\ IsFiniteSet(Units(f, S)) /\ Cardinality(Units(f, S)) \in Nat
      /\ IsFiniteSet(Units(f, U)) /\ Cardinality(Units(f, U)) \in Nat
  BY <1>4, UnitsFinite
<1>6. /\ IsFiniteSet(Units(f, S) \cup more)
      /\ Cardinality(Units(f, S) \cup more) <= Cardinality(Units(f, S)) + Cardinality(more)
  BY <1>2, <1>5, UnionCardinality
<1>7. Cardinality(Units(f, U)) <= Cardinality(Units(f, S) \cup more)
  BY <1>3, <1>6, FS_Subset
<1>8. /\ Cardinality(Units(f, S) \cup more) \in Nat /\ Cardinality(more) \in Nat
      /\ Cardinality(T) \in Nat
  BY <1>2, <1>6, FS_CardinalityType
<1>9. Cardinality(more) = c * Cardinality(T)  BY <1>1, <1>2, <1>8
<1>10. Cardinality(Units(f, U)) <= Cardinality(Units(f, S)) + Cardinality(more)
  BY <1>5, <1>6, <1>7, <1>8
<1>11. QED  BY <1>4, <1>9, <1>10, SumCounts
=============================================================================
