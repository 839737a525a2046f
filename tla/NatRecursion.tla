---------------------------- MODULE NatRecursion ----------------------------
(***************************************************************************)
(* Induction and recursion on the natural numbers, for the proofs about    *)
(* the recursive functions of MessageJson: step by step up to a number     *)
(* (folds along a list), and by halving (floats).  The theorems of the     *)
(* library on induction and recursion take an operator; these take sets    *)
(* and functions, and rest on the order of finite sets by inclusion, which *)
(* is well-founded.  Hypotheses are gathered in predicates: a lemma is     *)
(* cited with one fact.                                                    *)
(***************************************************************************)
EXTENDS Integers, FiniteSetTheorems, TLAPS

\* A set of numbers that is not empty has a least one.
LEMMA Least ==
  ASSUME NEW T, T \subseteq Nat, T # {}
  PROVE  \E n \in T : \A m \in T : n <= m
<1> DEFINE Under(n) == 0..(n - 1)
           B == {Under(n) : n \in T}
<1>1. IsWellFoundedOn(StrictSubsetOrdering(Nat), FiniteSubsetsOf(Nat))
  BY FS_StrictSubsetOrderingWellFounded
<1>2. B \subseteq FiniteSubsetsOf(Nat) /\ B # {}
  <2>1. ASSUME NEW n \in T PROVE Under(n) \in FiniteSubsetsOf(Nat)
    <3>1. Under(n) \in SUBSET Nat
      OBVIOUS
    <3>2. 0 \in Int /\ n - 1 \in Int
      OBVIOUS
    <3>3. IsFiniteSet(Under(n))
      BY <3>2, FS_Interval
    <3> HIDE DEF Under
    <3> QED BY <3>1, <3>3 DEF FiniteSubsetsOf
  <2> QED BY <2>1
<1>3. PICK b \in B : \A c \in B : ~(<<c, b>> \in StrictSubsetOrdering(Nat))
  <2> HIDE DEF B
  <2> QED BY <1>1, <1>2, WFMin
<1>4. PICK n \in T : b = Under(n)
  OBVIOUS
<1>5. ASSUME NEW m \in T, m < n PROVE FALSE
  <2>1. Under(m) \in B
    OBVIOUS
  <2>2. Under(m) \subseteq Nat /\ Under(n) \subseteq Nat /\ Under(m) \subseteq Under(n)
    BY <1>5
  <2>3. m \in Under(n) /\ m \notin Under(m)
    BY <1>5
  <2>4. Under(m) # Under(n)
    BY <2>3
  <2>5. <<Under(m), Under(n)>> \in StrictSubsetOrdering(Nat)
    <3> HIDE DEF Under
    <3> QED BY <2>2, <2>4 DEF StrictSubsetOrdering
  <2> QED BY <2>1, <2>5, <1>3, <1>4
<1> QED BY <1>5

\* Induction up to a bound: a set with 0 that holds the successor of each number
\* below the bound it holds has all numbers up to it.
LEMMA InductionUpTo ==
  ASSUME NEW k \in Nat, NEW S, 0 \in S, \A n \in 0..(k - 1) : n \in S => n + 1 \in S
  PROVE  0..k \subseteq S
<1> DEFINE T == (0..k) \ S
<1> SUFFICES ASSUME T # {} PROVE FALSE
  OBVIOUS
<1>1. T \subseteq Nat
  OBVIOUS
<1>2. PICK n \in T : \A m \in T : n <= m
  <2> HIDE DEF T
  <2> QED BY <1>1, Least
<1>3. n \in 0..k /\ n \notin S
  OBVIOUS
<1>4. n - 1 \in 0..(k - 1) /\ n - 1 \notin T
  BY <1>2, <1>3
<1>5. n - 1 \in S
  BY <1>4
<1> QED BY <1>3, <1>4, <1>5

\* A recursive definition on a set D of numbers that is closed downwards: a value
\* in X for each, given for some, and for the others made of the value of one
\* smaller number.
Recursion(D, X, base, first, step, previous) ==
  /\ D \subseteq Nat /\ \A n \in D : 0..n \subseteq D
  /\ first \in [D -> X] /\ step \in [D -> [X -> X]]
  /\ previous \in [D -> Nat]
  /\ \A n \in D : n \notin base => previous[n] < n

Solves(f, D, X, base, first, step, previous) ==
  /\ f \in [D -> X]
  /\ \A n \in D : f[n] = IF n \in base THEN first[n] ELSE step[n][f[previous[n]]]

\* It defines something.
LEMMA RecursiveFunction ==
  ASSUME NEW D, NEW X, NEW base, NEW first, NEW step, NEW previous,
         Recursion(D, X, base, first, step, previous)
  PROVE  \E f : Solves(f, D, X, base, first, step, previous)
<1> USE DEF Recursion
<1> DEFINE Body(n, g) == IF n \in base THEN first[n] ELSE step[n][g[previous[n]]]
           Approx(k) == {g \in [0..k -> X] : \A n \in 0..k : g[n] = Body(n, g)}
<1>1. ASSUME NEW n \in D, n \notin base PROVE previous[n] \in 0..n /\ previous[n] # n
  BY <1>1
<1>2. ASSUME NEW n \in D, NEW k \in D, n <= k, NEW g \in [0..k -> X]
      PROVE  Body(n, g) \in X
  <2>1. CASE n \in base
    BY <2>1
  <2>2. CASE n \notin base
    <3>1. previous[n] \in 0..k
      BY <1>1, <1>2, <2>2
    <3>2. g[previous[n]] \in X
      BY <3>1
    <3> QED BY <2>2, <3>2
  <2> QED BY <2>1, <2>2
<1>3. \A k \in D : Approx(k) # {}
  <2> SUFFICES ASSUME NEW z \in D, Approx(z) = {} PROVE FALSE
    OBVIOUS
  <2>1. PICK k \in D : Approx(k) = {} /\ \A m \in D : Approx(m) = {} => k <= m
    <3> HIDE DEF Approx
    <3> DEFINE T == {m \in D : Approx(m) = {}}
    <3>1. T \subseteq Nat /\ T # {}
      OBVIOUS
    <3>2. \E m \in T : \A n \in T : m <= n
      <4> HIDE DEF T
      <4> QED BY <3>1, Least
    <3> QED BY <3>2
  <2>2. k \in Nat
    OBVIOUS
  <2>3. CASE k = 0
    <3> HIDE DEF Approx
    <3>1. 0 \in base
      BY <1>1, <2>3
    <3> DEFINE g == [n \in 0..k |-> first[n]]
    <3>2. g \in [0..k -> X] /\ \A n \in 0..k : n = 0
      BY <2>3
    <3>3. \A n \in 0..k : g[n] = Body(n, g)
      BY <3>1, <3>2
    <3>4. g \in Approx(k)
      <4> HIDE DEF g, Body
      <4> QED BY <3>2, <3>3 DEF Approx
    <3> QED BY <3>4, <2>1
  <2>4. CASE k # 0
    <3> HIDE DEF Approx
    <3>1. k - 1 \in D /\ k - 1 \in Nat
      BY <2>2, <2>4
    <3>2. Approx(k - 1) # {}
      BY <2>1, <2>2, <3>1
    <3>3. PICK h \in Approx(k - 1) : TRUE
      BY <3>2
    <3>4. h \in [0..(k - 1) -> X] /\ \A n \in 0..(k - 1) : h[n] = Body(n, h)
      <4> HIDE DEF Body
      <4> QED BY <3>3 DEF Approx
    <3> DEFINE g == [n \in 0..k |-> IF n = k THEN Body(k, h) ELSE h[n]]
    <3>5. Body(k, h) \in X
      <4>1. CASE k \in base
        BY <4>1
      <4>2. CASE k \notin base
        <5>1. previous[k] \in 0..(k - 1)
          BY <1>1, <2>2, <4>2
        <5>2. h[previous[k]] \in X
          BY <3>4, <5>1
        <5> QED BY <4>2, <5>2
      <4> QED BY <4>1, <4>2
    <3>6. g \in [0..k -> X] /\ (\A n \in 0..(k - 1) : g[n] = h[n]) /\ g[k] = Body(k, h)
      <4> HIDE DEF Body
      <4> QED BY <2>2, <3>4, <3>5
    <3>7. ASSUME NEW n \in 0..k PROVE g[n] = Body(n, g)
      <4> HIDE DEF g
      <4>0. n \in D /\ (n \in 0..(k - 1) \/ n = k)
        BY <2>2
      <4>1. CASE n \in base
        <5>1. Body(n, g) = first[n] /\ Body(n, h) = first[n]
          BY <4>1
        <5> HIDE DEF Body
        <5> QED BY <3>4, <3>6, <4>0, <5>1
      <4>2. CASE n \notin base
        <5>1. previous[n] \in 0..(k - 1)
          BY <1>1, <2>2, <4>0, <4>2
        <5>2. Body(n, g) = Body(n, h)
          BY <3>6, <5>1
        <5> HIDE DEF Body
        <5> QED BY <3>4, <3>6, <4>0, <5>2
      <4> QED BY <4>1, <4>2
    <3>8. g \in Approx(k)
      <4> HIDE DEF Body, g
      <4> QED BY <3>6, <3>7 DEF Approx
    <3> QED BY <3>8, <2>1
  <2> QED BY <2>3, <2>4
<1>4. ASSUME NEW j \in D, NEW k \in D, NEW g \in Approx(j), NEW h \in Approx(k)
      PROVE  \A n \in (0..j) \cap (0..k) : g[n] = h[n]
  <2> DEFINE T == {n \in (0..j) \cap (0..k) : g[n] # h[n]}
  <2> SUFFICES ASSUME T # {} PROVE FALSE
    OBVIOUS
  <2>1. T \subseteq Nat
    <3> HIDE DEF Approx
    <3> QED OBVIOUS
  <2>2. PICK n \in T : \A m \in T : n <= m
    <3> HIDE DEF T
    <3> QED BY <2>1, Least
  <2>0. n \in (0..j) \cap (0..k) /\ g[n] # h[n]
    <3> HIDE DEF Approx
    <3> QED OBVIOUS
  <2>3. n \in 0..j /\ n \in 0..k /\ g[n] # h[n] /\ n \in D
    <3> HIDE DEF Approx, T
    <3> QED BY <2>0
  <2>4. g[n] = Body(n, g) /\ h[n] = Body(n, h)
    <3> HIDE DEF Body, T
    <3> QED BY <2>3
  <2> HIDE DEF Approx
  <2>5. n \notin base
    BY <2>3, <2>4
  <2>6. previous[n] \in 0..n /\ previous[n] # n
    BY <1>1, <2>3, <2>5
  <2>7. previous[n] \notin T /\ previous[n] \in (0..j) \cap (0..k)
    BY <2>2, <2>3, <2>6
  <2>8. g[previous[n]] = h[previous[n]]
    BY <2>7
  <2> QED BY <2>3, <2>4, <2>5, <2>8
<1> DEFINE best == [k \in D |-> CHOOSE g : g \in Approx(k)]
           f == [n \in D |-> best[n][n]]
<1>5. \A k \in D : best[k] \in Approx(k)
  <2> HIDE DEF Approx
  <2> QED BY <1>3
<1>6. \A k \in D : /\ k \in 0..k
                   /\ best[k] \in [0..k -> X]
                   /\ \A n \in 0..k : best[k][n] = Body(n, best[k])
  <2> HIDE DEF Body, best
  <2> QED BY <1>5
<1>7. f \in [D -> X]
  <2> HIDE DEF best
  <2> QED BY <1>6
<1>8. ASSUME NEW n \in D PROVE f[n] = Body(n, f)
  <2>1. f[n] = Body(n, best[n])
    <3> HIDE DEF Body, best
    <3> QED BY <1>6
  <2>2. CASE n \in base
    BY <2>1, <2>2
  <2>3. CASE n \notin base
    <3>1. previous[n] \in 0..n /\ previous[n] \in D
      BY <1>1, <2>3
    <3>2. best[n][previous[n]] = best[previous[n]][previous[n]]
      <4>1. previous[n] \in (0..n) \cap (0..previous[n])
        BY <3>1
      <4> HIDE DEF best, Approx
      <4> QED BY <1>4, <1>5, <3>1, <4>1
    <3>3. f[previous[n]] = best[n][previous[n]]
      <4> HIDE DEF best
      <4> QED BY <3>1, <3>2
    <3> HIDE DEF best, f
    <3> QED BY <2>1, <2>3, <3>3
  <2> QED BY <2>2, <2>3
<1> HIDE DEF f
<1> QED BY <1>7, <1>8 DEF Solves

\* A value for each number up to n: given for 0, and made of the value before.
Folding(n, X, first, step) ==
  n \in Nat /\ first \in X /\ step \in [1..n -> [X -> X]]

Folds(f, n, X, first, step) ==
  /\ f \in [0..n -> X]
  /\ f[0] = first
  /\ \A i \in 1..n : f[i] = step[i][f[i - 1]]

\* Such a definition defines something.
LEMMA FoldingFunction ==
  ASSUME NEW n, NEW X, NEW first, NEW step, Folding(n, X, first, step)
  PROVE  \E f : Folds(f, n, X, first, step)
<1> DEFINE all == [i \in 0..n |-> first]
           next == [i \in 0..n |-> IF i = 0 THEN [x \in X |-> x] ELSE step[i]]
           before == [i \in 0..n |-> IF i = 0 THEN 0 ELSE i - 1]
<1>1. n \in Nat /\ first \in X /\ step \in [1..n -> [X -> X]]
  BY DEF Folding
<1>2. all \in [0..n -> X] /\ \A i \in 0..n : all[i] = first
  BY <1>1
<1>3. /\ next \in [0..n -> [X -> X]]
      /\ \A i \in 1..n : next[i] = step[i]
  <2>1. \A i \in 0..n : i # 0 => i \in 1..n
    BY <1>1
  <2>2. [x \in X |-> x] \in [X -> X]
    OBVIOUS
  <2> QED BY <1>1, <2>1, <2>2
<1>4. /\ before \in [0..n -> Nat]
      /\ \A i \in 0..n : i \notin {0} => before[i] < i /\ before[i] = i - 1
  BY <1>1
<1>5. 0..n \subseteq Nat /\ \A i \in 0..n : 0..i \subseteq 0..n
  BY <1>1
<1> HIDE DEF all, next, before
<1>6. Recursion(0..n, X, {0}, all, next, before)
  BY <1>2, <1>3, <1>4, <1>5 DEF Recursion
<1>7. PICK f : Solves(f, 0..n, X, {0}, all, next, before)
  BY <1>6, RecursiveFunction
<1>8. f \in [0..n -> X]
  BY <1>7 DEF Solves
<1>9. f[0] = first
  BY <1>1, <1>2, <1>7 DEF Solves
<1>10. ASSUME NEW i \in 1..n PROVE f[i] = step[i][f[i - 1]]
  <2>1. i \in 0..n /\ i \notin {0}
    BY <1>1
  <2>2. f[i] = next[i][f[before[i]]]
    BY <1>7, <2>1 DEF Solves
  <2> QED BY <1>3, <1>4, <2>1, <2>2
<1> QED BY <1>8, <1>9, <1>10 DEF Folds

-----------------------------------------------------------------------------
(* Halving                                                                 *)

\* Half of a number that is not 0.
LEMMA Half ==
  ASSUME NEW n \in Nat, n # 0
  PROVE  /\ n \div 2 \in Nat /\ n \div 2 < n
         /\ n = 2 * (n \div 2) \/ n = 2 * (n \div 2) + 1
         /\ n % 2 = 0 <=> n = 2 * (n \div 2)
OBVIOUS

\* What holds of all numbers below a bound, and of every other number if it
\* holds of its half, holds of all numbers.
LEMMA HalvingInduction ==
  ASSUME NEW exact \in Nat \ {0}, NEW S, \A n \in Nat : n < exact => n \in S,
         \A n \in Nat : n >= exact /\ n \div 2 \in S => n \in S
  PROVE  Nat \subseteq S
<1> DEFINE T == Nat \ S
<1> SUFFICES ASSUME T # {} PROVE FALSE
  OBVIOUS
<1>1. T \subseteq Nat
  OBVIOUS
<1>2. PICK n \in T : \A m \in T : n <= m
  <2> HIDE DEF T
  <2> QED BY <1>1, Least
<1>3. n \in Nat /\ n \notin S /\ n >= exact /\ n # 0
  OBVIOUS
<1>4. n \div 2 \in Nat /\ n \div 2 < n
  BY <1>3, Half
<1>5. n \div 2 \in S
  BY <1>2, <1>3, <1>4
<1> QED BY <1>3, <1>5

\* A value for each number, made of the value of its half above a bound.
Halving(exact, X, first, step) ==
  exact \in Nat \ {0} /\ first \in [Nat -> X] /\ step \in [Nat -> [X -> X]]

Halves(f, exact, X, first, step) ==
  /\ f \in [Nat -> X]
  /\ \A n \in Nat : f[n] = IF n < exact THEN first[n] ELSE step[n][f[n \div 2]]

\* Such a definition defines something.
LEMMA HalvingFunction ==
  ASSUME NEW exact, NEW X, NEW first, NEW step, Halving(exact, X, first, step)
  PROVE  \E f : Halves(f, exact, X, first, step)
<1> DEFINE base == 0..(exact - 1)
           previous == [n \in Nat |-> n \div 2]
<1>0. exact \in Nat \ {0} /\ first \in [Nat -> X] /\ step \in [Nat -> [X -> X]]
  BY DEF Halving
<1>1. previous \in [Nat -> Nat]
  OBVIOUS
<1>2. ASSUME NEW n \in Nat, n \notin base PROVE previous[n] < n
  <2>1. n # 0
    BY <1>0, <1>2
  <2> QED BY <2>1, Half
<1>3. Recursion(Nat, X, base, first, step, previous)
  <2> HIDE DEF base, previous
  <2> QED BY <1>0, <1>1, <1>2 DEF Recursion
<1>4. PICK f : Solves(f, Nat, X, base, first, step, previous)
  <2> HIDE DEF base, previous
  <2> QED BY <1>3, RecursiveFunction
<1>5. \A n \in Nat : n \in base <=> n < exact
  BY <1>0
<1>6. \A n \in Nat : previous[n] = n \div 2
  OBVIOUS
<1>7. Halves(f, exact, X, first, step)
  <2> HIDE DEF base, previous
  <2> QED BY <1>4, <1>5, <1>6 DEF Solves, Halves
<1> QED BY <1>7
=============================================================================
