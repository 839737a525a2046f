-------------------------- MODULE MessageJsonProofs --------------------------
(***************************************************************************)
(* What decoding and encoding do to every JSON value and every message, of *)
(* types that nest to any depth, for floats of any width.                  *)
(***************************************************************************)
EXTENDS MessageJson, NatRecursion

-----------------------------------------------------------------------------
(* Floating point                                                          *)

\* The greatest float up to a number, by its defining equation.
LEMMA BelowEquation ==
  ASSUME NEW exact \in Nat \ {0}
  PROVE  /\ Below(exact) \in [Nat -> Nat]
         /\ \A n \in Nat : Below(exact)[n] =
              IF n < exact THEN n ELSE 2 * Below(exact)[n \div 2]
<1> DEFINE P(g) == g = [n \in Nat |-> IF n < exact THEN n ELSE 2 * g[n \div 2]]
           first == [n \in Nat |-> n]
           step == [n \in Nat |-> [x \in Nat |-> 2 * x]]
<1>1. first \in [Nat -> Nat] /\ step \in [Nat -> [Nat -> Nat]]
  OBVIOUS
<1>2. PICK f : Halves(f, exact, Nat, first, step)
  <2> HIDE DEF first, step
  <2>1. Halving(exact, Nat, first, step)
    BY <1>1 DEF Halving
  <2> QED BY <2>1, HalvingFunction
<1>3. P(f)
  <2>1. \A n \in Nat : n \div 2 \in Nat
    OBVIOUS
  <2>2. ASSUME NEW n \in Nat
        PROVE  f[n] = IF n < exact THEN n ELSE 2 * f[n \div 2]
    <3>1. first[n] = n /\ step[n][f[n \div 2]] = 2 * f[n \div 2]
      BY <1>2, <2>1 DEF Halves
    <3> HIDE DEF first, step
    <3> QED BY <1>2, <3>1 DEF Halves
  <2>3. f = [n \in Nat |-> f[n]]
    BY <1>2 DEF Halves
  <2> QED BY <2>2, <2>3
<1>4. Below(exact) = CHOOSE g : P(g)
  BY DEF Below
<1>5. P(Below(exact))
  <2> HIDE DEF P
  <2> QED BY <1>3, <1>4
<1>6. \A n \in Nat : Below(exact)[n] =
        IF n < exact THEN n ELSE 2 * Below(exact)[n \div 2]
  BY <1>5
<1> DEFINE S == {n \in Nat : Below(exact)[n] \in Nat}
<1>7. Nat \subseteq S
  <2>1. \A n \in Nat : n < exact => n \in S
    BY <1>6
  <2>2. \A n \in Nat : n >= exact /\ n \div 2 \in S => n \in S
    BY <1>6
  <2> HIDE DEF S
  <2> QED BY <2>1, <2>2, HalvingInduction
<1>8. Below(exact) = [n \in Nat |-> Below(exact)[n]]
  BY <1>5
<1> QED BY <1>6, <1>7, <1>8

\* The distance of neighbours, by its defining equation.
LEMMA UnitEquation ==
  ASSUME NEW exact \in Nat \ {0}
  PROVE  \A n \in Nat :
           /\ Unit(exact)[n] \in Nat \ {0}
           /\ Unit(exact)[n] = IF n < exact THEN 1 ELSE 2 * Unit(exact)[n \div 2]
<1> DEFINE P(g) == g = [n \in Nat |-> IF n < exact THEN 1 ELSE 2 * g[n \div 2]]
           first == [n \in Nat |-> 1]
           step == [n \in Nat |-> [x \in Nat |-> 2 * x]]
<1>1. first \in [Nat -> Nat] /\ step \in [Nat -> [Nat -> Nat]]
  OBVIOUS
<1>2. PICK f : Halves(f, exact, Nat, first, step)
  <2> HIDE DEF first, step
  <2>1. Halving(exact, Nat, first, step)
    BY <1>1 DEF Halving
  <2> QED BY <2>1, HalvingFunction
<1>3. P(f)
  <2>1. \A n \in Nat : n \div 2 \in Nat
    OBVIOUS
  <2>2. ASSUME NEW n \in Nat
        PROVE  f[n] = IF n < exact THEN 1 ELSE 2 * f[n \div 2]
    <3>1. first[n] = 1 /\ step[n][f[n \div 2]] = 2 * f[n \div 2]
      BY <1>2, <2>1 DEF Halves
    <3> HIDE DEF first, step
    <3> QED BY <1>2, <3>1 DEF Halves
  <2>3. f = [n \in Nat |-> f[n]]
    BY <1>2 DEF Halves
  <2> QED BY <2>2, <2>3
<1>4. Unit(exact) = CHOOSE g : P(g)
  BY DEF Unit
<1>5. P(Unit(exact))
  <2> HIDE DEF P
  <2> QED BY <1>3, <1>4
<1>6. \A n \in Nat : Unit(exact)[n] =
        IF n < exact THEN 1 ELSE 2 * Unit(exact)[n \div 2]
  BY <1>5
<1> DEFINE S == {n \in Nat : Unit(exact)[n] \in Nat \ {0}}
<1>7. Nat \subseteq S
  <2>1. \A n \in Nat : n < exact => n \in S
    BY <1>6
  <2>2. \A n \in Nat : n >= exact /\ n \div 2 \in S => n \in S
    BY <1>6
  <2> HIDE DEF S
  <2> QED BY <2>1, <2>2, HalvingInduction
<1> QED BY <1>6, <1>7

\* Which numbers are floats, by the defining equation.
LEMMA RepresentableEquation ==
  ASSUME NEW exact \in Nat \ {0}
  PROVE  /\ Representable(exact) \in [Nat -> BOOLEAN]
         /\ \A n \in Nat : Representable(exact)[n] <=>
              n < exact \/ (n % 2 = 0 /\ Representable(exact)[n \div 2])
<1> DEFINE P(g) == g = [n \in Nat |-> n < exact \/ (n % 2 = 0 /\ g[n \div 2])]
           first == [n \in Nat |-> TRUE]
           step == [n \in Nat |-> [x \in BOOLEAN |-> n % 2 = 0 /\ x]]
<1>1. first \in [Nat -> BOOLEAN] /\ step \in [Nat -> [BOOLEAN -> BOOLEAN]]
  OBVIOUS
<1>2. PICK f : Halves(f, exact, BOOLEAN, first, step)
  <2> HIDE DEF first, step
  <2>1. Halving(exact, BOOLEAN, first, step)
    BY <1>1 DEF Halving
  <2> QED BY <2>1, HalvingFunction
<1>3. P(f)
  <2>1. \A n \in Nat : n \div 2 \in Nat
    OBVIOUS
  <2>2. ASSUME NEW n \in Nat
        PROVE  f[n] = (n < exact \/ (n % 2 = 0 /\ f[n \div 2]))
    <3>0. f[n \div 2] \in BOOLEAN /\ f[n] \in BOOLEAN
      BY <1>2, <2>1 DEF Halves
    <3>1. first[n] = TRUE /\ step[n][f[n \div 2]] = (n % 2 = 0 /\ f[n \div 2])
      BY <3>0
    <3>2. f[n] = IF n < exact THEN TRUE ELSE (n % 2 = 0 /\ f[n \div 2])
      <4> HIDE DEF first, step
      <4> QED BY <1>2, <3>1 DEF Halves
    <3> QED BY <3>0, <3>2
  <2>3. f = [n \in Nat |-> f[n]]
    BY <1>2 DEF Halves
  <2> QED BY <2>2, <2>3
<1>4. Representable(exact) = CHOOSE g : P(g)
  BY DEF Representable
<1>5. P(Representable(exact))
  <2> HIDE DEF P
  <2> QED BY <1>3, <1>4
<1>6. \A n \in Nat : Representable(exact)[n] =
        (n < exact \/ (n % 2 = 0 /\ Representable(exact)[n \div 2]))
  BY <1>5
<1>7. \A n \in Nat : Representable(exact)[n] \in BOOLEAN
  BY <1>6
<1>8. Representable(exact) = [n \in Nat |-> Representable(exact)[n]]
  BY <1>5
<1> QED BY <1>6, <1>7, <1>8

\* The widths of floats.
Width(exact) == exact \in Nat \ {0} /\ exact % 2 = 0

\* A number lies between its neighbours among the floats.
LEMMA BetweenNeighbours ==
  ASSUME NEW exact, Width(exact)
  PROVE  \A n \in Nat : Below(exact)[n] <= n /\ n < Below(exact)[n] + Unit(exact)[n]
<1> DEFINE B == Below(exact)
           U == Unit(exact)
           S == {n \in Nat : B[n] <= n /\ n < B[n] + U[n]}
<1>0. exact \in Nat \ {0}
  BY DEF Width
<1>1. /\ B \in [Nat -> Nat]
      /\ \A n \in Nat : B[n] = IF n < exact THEN n ELSE 2 * B[n \div 2]
      /\ \A n \in Nat : U[n] \in Nat
      /\ \A n \in Nat : U[n] = IF n < exact THEN 1 ELSE 2 * U[n \div 2]
  BY <1>0, BelowEquation, UnitEquation
<1> HIDE DEF B, U
<1>2. \A n \in Nat : n < exact => n \in S
  BY <1>1
<1>3. ASSUME NEW n \in Nat, n >= exact, n \div 2 \in S PROVE n \in S
  <2>1. /\ n \div 2 \in Nat
        /\ n = 2 * (n \div 2) \/ n = 2 * (n \div 2) + 1
    BY <1>0, <1>3, Half
  <2>2. B[n \div 2] <= n \div 2 /\ n \div 2 < B[n \div 2] + U[n \div 2]
    BY <1>3
  <2>3. B[n] = 2 * B[n \div 2] /\ U[n] = 2 * U[n \div 2]
    BY <1>0, <1>1, <1>3
  <2>4. B[n \div 2] \in Nat /\ U[n \div 2] \in Nat
    BY <1>1, <2>1
  <2>5. B[n] <= n /\ n < B[n] + U[n]
    BY <2>1, <2>2, <2>3, <2>4
  <2> QED BY <2>5
<1>4. Nat \subseteq S
  <2> HIDE DEF S
  <2> QED BY <1>0, <1>2, <1>3, HalvingInduction
<1> QED BY <1>4 DEF B, U

\* The float below a number that is not exact is not either.
LEMMA BelowInexact ==
  ASSUME NEW exact, Width(exact), NEW n \in Nat, n >= exact
  PROVE  Below(exact)[n] >= exact
<1> DEFINE B == Below(exact)
           S == {k \in Nat : k >= exact => B[k] >= exact}
<1>0. exact \in Nat \ {0} /\ exact % 2 = 0
  BY DEF Width
<1>1. /\ B \in [Nat -> Nat]
      /\ \A k \in Nat : B[k] = IF k < exact THEN k ELSE 2 * B[k \div 2]
  BY <1>0, BelowEquation
<1> HIDE DEF B
<1>2. \A k \in Nat : k < exact => k \in S
  BY <1>0
<1>3. ASSUME NEW k \in Nat, k >= exact, k \div 2 \in S PROVE k \in S
  <2>1. /\ k \div 2 \in Nat
        /\ k = 2 * (k \div 2) \/ k = 2 * (k \div 2) + 1
    BY <1>0, <1>3, Half
  <2>2. B[k] = 2 * B[k \div 2] /\ B[k \div 2] \in Nat
    BY <1>0, <1>1, <1>3, <2>1
  <2>3. CASE k \div 2 >= exact
    <3>1. B[k \div 2] >= exact
      BY <1>3, <2>3
    <3>2. B[k] >= exact
      BY <1>0, <2>2, <3>1
    <3> QED BY <3>2
  <2>4. CASE k \div 2 < exact
    <3>1. B[k \div 2] = k \div 2
      BY <1>1, <2>1, <2>4
    <3>2. 2 * (k \div 2) >= exact
      <4>1. PICK h \in Nat : exact = 2 * h
        BY <1>0, Half
      <4> QED BY <1>3, <2>1, <4>1
    <3>3. B[k] >= exact
      BY <2>2, <3>1, <3>2
    <3> QED BY <3>3
  <2> QED BY <1>0, <2>1, <2>3, <2>4
<1>4. Nat \subseteq S
  <2> HIDE DEF S
  <2> QED BY <1>0, <1>2, <1>3, HalvingInduction
<1> QED BY <1>4 DEF B

\* Twice a float is a float.
LEMMA DoubleRepresentable ==
  ASSUME NEW exact, Width(exact), NEW n \in Nat, Representable(exact)[n]
  PROVE  Representable(exact)[2 * n]
<1>0. exact \in Nat \ {0}
  BY DEF Width
<1>1. 2 * n \in Nat /\ (2 * n) % 2 = 0 /\ (2 * n) \div 2 = n
  OBVIOUS
<1> QED BY <1>0, <1>1, RepresentableEquation

\* The neighbours of a number are floats.
LEMMA NeighboursRepresentable ==
  ASSUME NEW exact, Width(exact)
  PROVE  \A n \in Nat : /\ Representable(exact)[Below(exact)[n]]
                        /\ Representable(exact)[Below(exact)[n] + Unit(exact)[n]]
<1> DEFINE B == Below(exact)
           U == Unit(exact)
           R == Representable(exact)
           S == {n \in Nat : R[B[n]] /\ R[B[n] + U[n]]}
<1>0. exact \in Nat \ {0} /\ exact % 2 = 0
  BY DEF Width
<1>1. /\ B \in [Nat -> Nat]
      /\ \A n \in Nat : B[n] = IF n < exact THEN n ELSE 2 * B[n \div 2]
      /\ \A n \in Nat : U[n] \in Nat
      /\ \A n \in Nat : U[n] = IF n < exact THEN 1 ELSE 2 * U[n \div 2]
      /\ \A n \in Nat : R[n] <=> n < exact \/ (n % 2 = 0 /\ R[n \div 2])
      /\ \A n \in Nat : R[n] => R[2 * n]
  BY <1>0, BelowEquation, UnitEquation, RepresentableEquation, DoubleRepresentable
<1> HIDE DEF B, U, R
<1>2. ASSUME NEW n \in Nat, n < exact PROVE n \in S
  <2>1. B[n] = n /\ U[n] = 1
    BY <1>1, <1>2
  <2>2. R[n]
    BY <1>1, <1>2
  <2>3. R[n + 1]
    <3>1. CASE n + 1 < exact
      BY <1>1, <3>1
    <3>2. CASE n + 1 = exact
      <4>1. exact \div 2 \in Nat /\ exact \div 2 < exact
        BY <1>0, Half
      <4> QED BY <1>0, <1>1, <3>2, <4>1
    <3> QED BY <1>0, <1>2, <3>1, <3>2
  <2> QED BY <2>1, <2>2, <2>3
<1>3. ASSUME NEW n \in Nat, n >= exact, n \div 2 \in S PROVE n \in S
  <2>1. B[n] = 2 * B[n \div 2] /\ U[n] = 2 * U[n \div 2] /\ n \div 2 \in Nat
    BY <1>0, <1>1, <1>3
  <2>2. B[n \div 2] \in Nat /\ U[n \div 2] \in Nat
    BY <1>1, <2>1
  <2>3. R[B[n \div 2]] /\ R[B[n \div 2] + U[n \div 2]]
    BY <1>3
  <2>4. R[2 * B[n \div 2]] /\ R[2 * (B[n \div 2] + U[n \div 2])]
    BY <1>1, <2>2, <2>3
  <2>5. 2 * (B[n \div 2] + U[n \div 2]) = B[n] + U[n]
    BY <2>1, <2>2
  <2> QED BY <2>1, <2>4, <2>5
<1>4. Nat \subseteq S
  <2> HIDE DEF S
  <2> QED BY <1>0, <1>2, <1>3, HalvingInduction
<1> QED BY <1>4 DEF B, U, R

\* No float lies between the neighbours of a number.
LEMMA NoneBetweenNeighbours ==
  ASSUME NEW exact, Width(exact)
  PROVE  \A n, m \in Nat :
           Below(exact)[n] < m /\ m < Below(exact)[n] + Unit(exact)[n] =>
             ~Representable(exact)[m]
<1> DEFINE B == Below(exact)
           U == Unit(exact)
           R == Representable(exact)
           S == {n \in Nat : \A m \in Nat : B[n] < m /\ m < B[n] + U[n] => ~R[m]}
<1>0. exact \in Nat \ {0}
  BY DEF Width
<1>1. /\ B \in [Nat -> Nat]
      /\ \A n \in Nat : B[n] = IF n < exact THEN n ELSE 2 * B[n \div 2]
      /\ \A n \in Nat : U[n] \in Nat
      /\ \A n \in Nat : U[n] = IF n < exact THEN 1 ELSE 2 * U[n \div 2]
      /\ \A n \in Nat : R[n] <=> n < exact \/ (n % 2 = 0 /\ R[n \div 2])
      /\ \A n \in Nat : n >= exact => B[n] >= exact
  BY <1>0, BelowEquation, UnitEquation, RepresentableEquation, BelowInexact
<1> HIDE DEF B, U, R
<1>2. ASSUME NEW n \in Nat, n < exact PROVE n \in S
  <2>1. B[n] = n /\ U[n] = 1
    BY <1>1, <1>2
  <2> QED BY <2>1
<1>3. ASSUME NEW n \in Nat, n >= exact, n \div 2 \in S PROVE n \in S
  <2> SUFFICES ASSUME NEW m \in Nat, B[n] < m, m < B[n] + U[n], R[m] PROVE FALSE
    OBVIOUS
  <2>1. B[n] = 2 * B[n \div 2] /\ U[n] = 2 * U[n \div 2] /\ n \div 2 \in Nat
    BY <1>0, <1>1, <1>3
  <2>2. B[n \div 2] \in Nat /\ U[n \div 2] \in Nat /\ B[n] \in Nat
    BY <1>1, <2>1
  <2>3. m >= exact /\ m # 0
    BY <1>0, <1>1, <1>3, <2>2
  <2>4. m % 2 = 0 /\ R[m \div 2]
    BY <1>0, <1>1, <2>3
  <2>5. m = 2 * (m \div 2) /\ m \div 2 \in Nat
    BY <2>3, <2>4, Half
  <2>6. B[n \div 2] < m \div 2 /\ m \div 2 < B[n \div 2] + U[n \div 2]
    BY <2>1, <2>2, <2>5
  <2> QED BY <1>3, <2>4, <2>5, <2>6
<1>4. Nat \subseteq S
  <2> HIDE DEF S
  <2> QED BY <1>0, <1>2, <1>3, HalvingInduction
<1> QED BY <1>4 DEF B, U, R

\* A narrower float is one of a wider kind.
LEMMA WiderRepresentable ==
  ASSUME NEW narrow, Width(narrow), NEW wide, Width(wide), narrow <= wide
  PROVE  \A n \in Nat : Representable(narrow)[n] => Representable(wide)[n]
<1> DEFINE R(exact) == Representable(exact)
           S == {n \in Nat : R(narrow)[n] => R(wide)[n]}
<1>0. narrow \in Nat \ {0} /\ wide \in Nat \ {0}
  BY DEF Width
<1>1. /\ \A n \in Nat : R(narrow)[n] <=> n < narrow \/ (n % 2 = 0 /\ R(narrow)[n \div 2])
      /\ \A n \in Nat : R(wide)[n] <=> n < wide \/ (n % 2 = 0 /\ R(wide)[n \div 2])
  BY <1>0, RepresentableEquation
<1> HIDE DEF R
<1>2. \A n \in Nat : n < narrow => n \in S
  BY <1>0, <1>1
<1>3. ASSUME NEW n \in Nat, n >= narrow, n \div 2 \in S PROVE n \in S
  BY <1>0, <1>1, <1>3
<1>4. Nat \subseteq S
  <2> HIDE DEF S
  <2> QED BY <1>0, <1>2, <1>3, HalvingInduction
<1> QED BY <1>4 DEF R

\* Rounding gives a float with no other one between it and the number, on the
\* number's side of 0; a float stays as it is.
THEOREM RoundedNearest ==
  ASSUME NEW exact, Width(exact), NEW n \in Int
  PROVE  /\ Rounded(exact, n) \in Int
         /\ Representable(exact)[Magnitude(Rounded(exact, n))]
         /\ \A m \in Between(Rounded(exact, n), n) : ~Representable(exact)[Magnitude(m)]
         /\ Representable(exact)[Magnitude(n)] => Rounded(exact, n) = n
         /\ Rounded(exact, n) # 0 => Sign(Rounded(exact, n)) = Sign(n)
<1> DEFINE B == Below(exact)[Magnitude(n)]
           U == Unit(exact)[Magnitude(n)]
           R == Representable(exact)
           x == Magnitude(Rounded(exact, n))
<1>1. Magnitude(n) \in Nat
  BY DEF Magnitude
<1>2. exact \in Nat \ {0}
  BY DEF Width
<1>3. B \in Nat /\ U \in Nat \ {0}
  BY <1>1, <1>2, BelowEquation, UnitEquation
<1>4. /\ B <= Magnitude(n) /\ Magnitude(n) < B + U
      /\ R[B] /\ R[B + U]
      /\ \A m \in Nat : B < m /\ m < B + U => ~R[m]
  BY <1>1, BetweenNeighbours, NeighboursRepresentable, NoneBetweenNeighbours
<1> HIDE DEF B, U, R
<1>5. \E y \in {B, B + U} :
        Rounded(exact, n) = Sign(n) * y /\ (Magnitude(n) = B => y = B)
  BY <1>1, <1>3 DEF Rounded, B, U
<1>6. PICK y \in {B, B + U} :
        Rounded(exact, n) = Sign(n) * y /\ (Magnitude(n) = B => y = B)
  BY <1>5
<1>7. y \in Nat /\ R[y]
  BY <1>3, <1>4
<1>8. Rounded(exact, n) = (IF n < 0 THEN -y ELSE y)
  BY <1>6, <1>7 DEF Sign
<1>9. Rounded(exact, n) \in Int /\ Magnitude(Rounded(exact, n)) = y
  BY <1>7, <1>8 DEF Magnitude
<1>10. R[Magnitude(Rounded(exact, n))]
  BY <1>7, <1>9
<1>11. ASSUME NEW m \in Between(Rounded(exact, n), n) PROVE ~R[Magnitude(m)]
  <2>1. m \in Int /\ Magnitude(m) \in Nat
    BY <1>9 DEF Between, Magnitude
  <2>2. B < Magnitude(m) /\ Magnitude(m) < B + U
    BY <1>3, <1>4, <1>6, <1>8, <2>1 DEF Between, Magnitude
  <2> QED BY <1>4, <2>1, <2>2
<1>12. R[Magnitude(n)] => Rounded(exact, n) = n
  <2>1. R[Magnitude(n)] => Magnitude(n) = B
    BY <1>1, <1>3, <1>4
  <2> QED BY <1>6, <1>8, <2>1 DEF Magnitude
<1>13. Rounded(exact, n) # 0 => Sign(Rounded(exact, n)) = Sign(n)
  BY <1>7, <1>8 DEF Sign
<1> QED BY <1>9, <1>10, <1>11, <1>12, <1>13 DEF R

\* The widths of f32 and f64.
LEMMA Widths ==
  /\ Width(FLOAT_EXACT) /\ Width(DOUBLE_EXACT) /\ FLOAT_EXACT <= DOUBLE_EXACT
  /\ FLOAT_MAX \in Nat \ {0} /\ Representable(FLOAT_EXACT)[FLOAT_MAX]
BY FloatAssumption DEF Width

\* A number read as an f64 is the nearest on its side.
LEMMA DoubleStandsFor ==
  ASSUME NEW kind, kind.shape = "double", NEW n \in Int
  PROVE  StandsFor(kind, Finite(Rounded(DOUBLE_EXACT, n)), n)
<1>1. Exact(kind) = DOUBLE_EXACT
  BY DEF Exact
<1> QED BY <1>1, Widths, RoundedNearest DEF StandsFor, Finite

\* Rounding a number to an f64 and that to an f32 still leaves no f32 between
\* the result and the number, and becomes infinite only if the number is too
\* large for one.
LEMMA FloatStandsFor ==
  ASSUME NEW kind, kind.shape = "float", NEW n \in Int
  PROVE  StandsFor(kind, Narrow(Finite(Rounded(DOUBLE_EXACT, n))), n)
<1> DEFINE d == Rounded(DOUBLE_EXACT, n)
           f == Rounded(FLOAT_EXACT, d)
           D == Representable(DOUBLE_EXACT)
           F == Representable(FLOAT_EXACT)
<1>1. Exact(kind) = FLOAT_EXACT
  BY DEF Exact
<1>2. /\ d \in Int /\ D[Magnitude(d)]
      /\ \A m \in Between(d, n) : ~D[Magnitude(m)]
      /\ D[Magnitude(n)] => d = n
      /\ d # 0 => Sign(d) = Sign(n)
  BY Widths, RoundedNearest
<1>3. /\ f \in Int /\ F[Magnitude(f)]
      /\ \A m \in Between(f, d) : ~F[Magnitude(m)]
      /\ F[Magnitude(d)] => f = d
      /\ f # 0 => Sign(f) = Sign(d)
  BY <1>2, Widths, RoundedNearest
<1>4. \A m \in Nat : F[m] => D[m]
  BY Widths, WiderRepresentable
<1>5. Narrow(Finite(d)) =
        IF Magnitude(f) > FLOAT_MAX THEN Infinite(Sign(f)) ELSE Finite(f)
  BY DEF Narrow, Finite
<1> HIDE DEF d, f, D, F
<1>6. \A m \in Int : Magnitude(m) \in Nat
  BY DEF Magnitude
<1>7. ASSUME NEW m \in Between(f, n) PROVE ~F[Magnitude(m)]
  <2>1. m \in Int
    BY <1>3 DEF Between
  <2>2. m \in Between(f, d) \/ m = d \/ m \in Between(d, n)
    BY <1>2, <1>3, <2>1 DEF Between
  <2>3. m = d => ~F[Magnitude(m)]
    BY <1>3, <1>7 DEF Between
  <2>4. m \in Between(d, n) => ~F[Magnitude(m)]
    BY <1>2, <1>4, <1>6, <2>1
  <2> QED BY <1>3, <2>2, <2>3, <2>4
<1>8. CASE Magnitude(f) <= FLOAT_MAX
  <2>1. Narrow(Finite(d)) = Finite(f)
    BY <1>3, <1>5, <1>6, <1>8, Widths
  <2>2. Finite(f).finite /\ Finite(f).value = f
    BY DEF Finite
  <2>3. StandsFor(kind, Finite(f), n)
    BY <1>1, <1>3, <1>7, <2>2 DEF StandsFor, F
  <2> QED BY <2>1, <2>3 DEF d
<1>9. CASE Magnitude(f) > FLOAT_MAX
  <2>1. f # 0
    BY <1>9, Widths DEF Magnitude
  <2>2. Sign(f) = Sign(n)
    <3>1. Sign(f) = Sign(d)
      BY <1>3, <2>1
    <3>2. F[Magnitude(0)]
      BY Widths, RepresentableEquation DEF Width, Magnitude, F
    <3>3. d # 0
      BY <1>3, <2>1, <3>2
    <3> QED BY <1>2, <3>1, <3>3
  <2>3. Magnitude(n) > FLOAT_MAX
    <3> SUFFICES ASSUME Magnitude(n) <= FLOAT_MAX PROVE FALSE
      BY <1>6, Widths
    <3> DEFINE max == Sign(n) * FLOAT_MAX
    <3>1. max \in Int /\ Magnitude(max) = FLOAT_MAX
      BY Widths DEF Sign, Magnitude
    <3>2. max = n \/ max \in Between(f, n)
      BY <1>3, <1>9, <2>1, <2>2, Widths DEF Between, Sign, Magnitude
    <3>3. F[Magnitude(max)] /\ D[Magnitude(max)]
      BY <1>4, <3>1, Widths DEF F
    <3>4. max = n
      BY <1>7, <3>2, <3>3
    <3>5. f = n
      BY <1>2, <1>3, <3>3, <3>4
    <3> QED BY <1>9, <3>1, <3>4, <3>5, Widths
  <2>4. Narrow(Finite(d)) = Infinite(Sign(n))
    BY <1>5, <1>9, <2>2
  <2> QED BY <1>1, <2>3, <2>4 DEF StandsFor, Infinite, d
<1> QED BY <1>3, <1>6, <1>8, <1>9, Widths

-----------------------------------------------------------------------------
(* Decoding                                                                *)

\* What holds of every type whose parts it holds of holds of all types.
LEMMA KindInduction ==
  ASSUME NEW S, \A kind \in Kinds : PartKinds(kind) \subseteq S => kind \in S
  PROVE  Kinds \subseteq S
<1> DEFINE T == Kinds \ S
<1> SUFFICES ASSUME T # {} PROVE FALSE
  OBVIOUS
<1>1. T \in (SUBSET Kinds) \ {{}}
  OBVIOUS
<1>2. PICK kind \in T : PartKinds(kind) \cap T = {}
  <2> HIDE DEF T
  <2> QED BY <1>1, KindAssumption
<1>3. PartKinds(kind) \subseteq S
  BY <1>2, KindAssumption
<1> QED BY <1>3

\* The operators of parts are the operators.
DecodingClosed ==
  /\ \A kind \in Kinds :
       /\ \A slot, item : AssignPart(kind, slot, item) = Assign(kind, slot, item)
       /\ \A before, item, value :
            MeansPart(kind, before, item, value) <=> Means(kind, before, item, value)
       /\ \A value : TypedPart(kind, value) <=> Typed(kind, value)
  /\ \A item : ValidPart(item) <=> Valid(item)

\* A whole has a result of each part.
LEMMA WholeParts ==
  ASSUME NEW results, NEW value \in Whole(results)
  PROVE  /\ value = [x \in DOMAIN results |-> value[x]]
         /\ \A x \in DOMAIN results : value[x] \in results[x]
BY DEF Whole

\* The elements of a list, and the fields of a message, are types.
LEMMA PartKindsOf ==
  ASSUME NEW kind \in Kinds
  PROVE  /\ kind.shape \in Lists => kind.of \in PartKinds(kind) /\ kind.of \in Kinds
         /\ kind.shape = "message" =>
              \A name \in DOMAIN kind.fields :
                kind.fields[name] \in PartKinds(kind) /\ kind.fields[name] \in Kinds
<1>1. PartKinds(kind) \subseteq Kinds
  BY KindAssumption
<1> QED BY <1>1 DEF PartKinds, Lists

\* Decoding into a slot of the type gives a value of the type, the one the JSON
\* value means.
Faithful(kind) ==
  \A slot, item, value :
    Typed(kind, slot) /\ Valid(item) /\ value \in Assign(kind, slot, item) =>
      Typed(kind, value) /\ Means(kind, slot, item, value)

\* ... for the parts of a type.
FaithfulPart(kind) ==
  \A slot, item, value :
    TypedPart(kind, slot) /\ ValidPart(item) /\ value \in AssignPart(kind, slot, item) =>
      TypedPart(kind, value) /\ MeansPart(kind, slot, item, value)

\* A number read as a float of either kind is one.
LEMMA FloatTyped ==
  ASSUME NEW n \in Int
  PROVE  /\ \A kind : kind.shape = "double" =>
                        Typed(kind, Finite(Rounded(DOUBLE_EXACT, n)))
         /\ \A kind : kind.shape = "float" =>
                        Typed(kind, Narrow(Finite(Rounded(DOUBLE_EXACT, n))))
<1> DEFINE d == Rounded(DOUBLE_EXACT, n)
           f == Rounded(FLOAT_EXACT, d)
<1>1. d \in Int /\ Representable(DOUBLE_EXACT)[Magnitude(d)]
  BY Widths, RoundedNearest
<1>2. f \in Int /\ Representable(FLOAT_EXACT)[Magnitude(f)]
  BY <1>1, Widths, RoundedNearest
<1>3. Narrow(Finite(d)) =
        IF Magnitude(f) > FLOAT_MAX THEN Infinite(Sign(f)) ELSE Finite(f)
  BY DEF Narrow, Finite
<1> HIDE DEF d, f
<1>4. Finite(d).value = d /\ Finite(f).value = f
  BY DEF Finite
<1>5. IsFloat(DOUBLE_EXACT, Finite(d)) /\ IsFloat(FLOAT_EXACT, Finite(f))
  BY <1>1, <1>2, <1>4 DEF IsFloat
<1>6. IsFloat(FLOAT_EXACT, Infinite(Sign(f))) /\ ~Infinite(Sign(f)).finite
  BY DEF IsFloat, Sign, Infinite
<1>7. ASSUME NEW kind, kind.shape = "double" PROVE Typed(kind, Finite(d))
  BY <1>5, <1>7 DEF Typed, Lists
<1>8. ASSUME NEW kind, kind.shape = "float" PROVE Typed(kind, Narrow(Finite(d)))
  <2>1. Magnitude(f) \in Nat
    BY <1>2 DEF Magnitude
  <2>2. CASE Magnitude(f) > FLOAT_MAX
    BY <1>3, <1>6, <1>8, <2>2 DEF Typed, Lists
  <2>3. CASE Magnitude(f) <= FLOAT_MAX
    <3>1. Narrow(Finite(d)) = Finite(f)
      BY <1>3, <2>1, <2>3, Widths
    <3> QED BY <1>4, <1>5, <1>8, <2>3, <3>1 DEF Typed, Lists
  <2> QED BY <2>1, <2>2, <2>3, Widths
<1> QED BY <1>7, <1>8 DEF d

\* A value that is not a whole.
LEMMA SimpleFaithful ==
  ASSUME NEW kind \in Kinds, kind.shape \notin Lists \cup {"message"}
  PROVE  Faithful(kind)
<1> SUFFICES ASSUME NEW slot, NEW item, NEW value, Valid(item),
                    value \in Assign(kind, slot, item)
             PROVE  Typed(kind, value) /\ Means(kind, slot, item, value)
  BY DEF Faithful
<1>0. kind.shape \in {"integer", "float", "double", "long double", "boolean", "string"}
  BY KindAssumption DEF Shapes, Lists
<1>1. value \in Simple(kind, slot, item)
  BY <1>0 DEF Assign
<1>2. CASE kind.shape = "integer"
  BY <1>1, <1>2 DEF Simple, Integers, Means, Typed
<1>3. CASE kind.shape \in {"float", "double"}
  <2> DEFINE Cast(x) == IF kind.shape = "float" THEN Narrow(x) ELSE x
  <2>1. value \in {Cast(x) : x \in Doubles(item)}
    BY <1>1, <1>3 DEF Simple
  <2>2. PICK x \in Doubles(item) : value = Cast(x)
    BY <2>1
  <2>3. CASE item.json = "null"
    <3>1. value = NaN
      BY <2>2, <2>3 DEF Doubles, Narrow, NaN
    <3>2. IsFloat(Exact(kind), value) /\ ~value.finite
      BY <3>1 DEF IsFloat, NaN
    <3>3. Typed(kind, value)
      BY <1>3, <3>2 DEF Typed, Exact
    <3> QED BY <1>3, <2>3, <3>1, <3>3 DEF Means
  <2>4. CASE item.json = "number"
    <3>1. item.value \in Int
      BY <2>4 DEF Valid
    <3>2. value = Cast(Finite(Rounded(DOUBLE_EXACT, item.value)))
      BY <2>2, <2>4 DEF Doubles
    <3>3. StandsFor(kind, value, item.value) /\ Typed(kind, value)
      BY <1>3, <3>1, <3>2, FloatStandsFor, DoubleStandsFor, FloatTyped
    <3> QED BY <1>3, <2>4, <3>3 DEF Means
  <2> QED BY <2>2, <2>3, <2>4 DEF Doubles
<1>5. CASE kind.shape = "boolean"
  BY <1>1, <1>5 DEF Simple, Means, Typed, Valid
<1>6. CASE kind.shape = "string"
  BY <1>1, <1>6 DEF Simple, Means, Typed, Valid
<1>7. CASE kind.shape = "long double"
  BY <1>1, <1>7 DEF Simple
<1> QED BY <1>0, <1>2, <1>3, <1>5, <1>6, <1>7

\* The elements of a list mean the items, each after what its slot held.
LEMMA ElementsFaithful ==
  ASSUME NEW kind, FaithfulPart(kind), NEW item, item.json = "array", Valid(item),
         NEW slots, \A i \in DOMAIN item.items : TypedPart(kind, slots[i]),
         NEW value \in Elements(kind, item, slots)
  PROVE  /\ value = [i \in DOMAIN item.items |-> value[i]]
         /\ \A i \in DOMAIN item.items :
              TypedPart(kind, value[i]) /\ MeansPart(kind, slots[i], item.items[i], value[i])
<1> DEFINE results == [i \in DOMAIN item.items |-> AssignPart(kind, slots[i], item.items[i])]
<1>1. value \in Whole(results)
  BY DEF Elements
<1>2. DOMAIN results = DOMAIN item.items
  OBVIOUS
<1>3. /\ value = [i \in DOMAIN results |-> value[i]]
      /\ \A i \in DOMAIN results : value[i] \in results[i]
  <2> HIDE DEF results
  <2> QED BY <1>1, WholeParts
<1>4. \A i \in DOMAIN item.items : value[i] \in AssignPart(kind, slots[i], item.items[i])
  BY <1>3
<1>5. \A i \in DOMAIN item.items : ValidPart(item.items[i])
  BY DEF Valid
<1>6. \A i \in DOMAIN item.items :
        TypedPart(kind, value[i]) /\ MeansPart(kind, slots[i], item.items[i], value[i])
  BY <1>4, <1>5 DEF FaithfulPart
<1> HIDE DEF results
<1> QED BY <1>2, <1>3, <1>6

\* A function on the indices of a sequence is one as long.
LEMMA AsLong ==
  ASSUME NEW s, IsSequence(s), NEW t, t = [i \in DOMAIN s |-> t[i]]
  PROVE  IsSequence(t) /\ Len(t) = Len(s) /\ Len(s) \in Nat /\ DOMAIN s = 1..Len(s)
<1>1. Len(s) \in Nat /\ DOMAIN s = 1..Len(s)
  BY DEF IsSequence
<1>2. t \in [1..Len(s) -> {t[i] : i \in DOMAIN t}]
  BY <1>1
<1>3. t \in Seq({t[i] : i \in DOMAIN t}) /\ Len(t) = Len(s)
  BY <1>1, <1>2
<1> QED BY <1>1, <1>3 DEF IsSequence

\* A list, if its elements are decoded faithfully.
LEMMA ListFaithful ==
  ASSUME DecodingClosed, NEW kind \in Kinds, kind.shape \in Lists, FaithfulPart(kind.of)
  PROVE  Faithful(kind)
<1> SUFFICES ASSUME NEW slot, NEW item, NEW value, Typed(kind, slot), Valid(item),
                    value \in Assign(kind, slot, item)
             PROVE  Typed(kind, value) /\ Means(kind, slot, item, value)
  BY DEF Faithful
<1> DEFINE slots == IF kind.shape = "array" THEN slot ELSE Reset(kind.of, item)
<1>1. /\ item.json = "array" /\ value \in Elements(kind.of, item, slots)
      /\ kind.shape = "array" => Len(item.items) = Len(slot)
      /\ kind.shape = "bounded sequence" => Len(item.items) <= kind.bound
  BY DEF Assign, Array, Sequence, BoundedSequence, Lists
<1>2. IsSequence(item.items)
  BY <1>1 DEF Valid
<1>3. Len(item.items) \in Nat /\ DOMAIN item.items = 1..Len(item.items)
  BY <1>2 DEF IsSequence
<1>4. kind.shape = "array" =>
        /\ IsSequence(slot) /\ Len(slot) = Len(kind.default) /\ DOMAIN slot = DOMAIN item.items
        /\ \A i \in DOMAIN slot : TypedPart(kind.of, slot[i])
  <2> SUFFICES ASSUME kind.shape = "array"
               PROVE  /\ IsSequence(slot) /\ Len(slot) = Len(kind.default)
                      /\ DOMAIN slot = DOMAIN item.items
                      /\ \A i \in DOMAIN slot : TypedPart(kind.of, slot[i])
    OBVIOUS
  <2>1. /\ IsSequence(slot) /\ Len(slot) = Len(kind.default)
        /\ \A i \in DOMAIN slot : TypedPart(kind.of, slot[i])
    BY DEF Typed, Lists
  <2>2. DOMAIN slot = 1..Len(slot)
    BY <2>1 DEF IsSequence
  <2> QED BY <1>1, <1>3, <2>1, <2>2
<1>5. TypedPart(kind.of, kind.of.default)
  <2>1. kind.of \in Kinds
    BY PartKindsOf
  <2>2. Typed(kind.of, kind.of.default)
    BY <2>1, KindAssumption
  <2> QED BY <2>1, <2>2 DEF DecodingClosed
<1>6. \A i \in DOMAIN item.items : TypedPart(kind.of, slots[i])
  BY <1>4, <1>5 DEF Reset
<1>7. kind.shape # "array" => \A i \in DOMAIN item.items : slots[i] = kind.of.default
  BY DEF Reset
<1> HIDE DEF slots
<1>8. /\ value = [i \in DOMAIN item.items |-> value[i]]
      /\ \A i \in DOMAIN item.items :
           TypedPart(kind.of, value[i])
             /\ MeansPart(kind.of, slots[i], item.items[i], value[i])
  BY <1>1, <1>6, ElementsFaithful
<1>9. DOMAIN value = DOMAIN item.items
  BY <1>8
<1>10. IsSequence(value) /\ Len(value) = Len(item.items)
  BY <1>2, <1>8, AsLong
<1>11. Typed(kind, value)
  BY <1>1, <1>4, <1>8, <1>9, <1>10 DEF Typed, Lists
<1>12. Means(kind, slot, item, value)
  <2>1. CASE kind.shape = "array"
    <3>1. slots = slot
      BY <2>1 DEF slots
    <3> QED BY <1>1, <1>4, <1>8, <1>9, <2>1, <3>1 DEF Means
  <2>2. CASE kind.shape \in {"sequence", "bounded sequence"}
    BY <1>1, <1>7, <1>8, <1>9, <1>10, <2>2 DEF Means
  <2> QED BY <2>1, <2>2 DEF Lists
<1> QED BY <1>11, <1>12

\* A message, if its fields are decoded faithfully.
LEMMA MessageFaithful ==
  ASSUME DecodingClosed, NEW kind \in Kinds, kind.shape = "message",
         \A name \in DOMAIN kind.fields : FaithfulPart(kind.fields[name])
  PROVE  Faithful(kind)
<1> SUFFICES ASSUME NEW slot, NEW item, NEW value, Typed(kind, slot), Valid(item),
                    value \in Assign(kind, slot, item)
             PROVE  Typed(kind, value) /\ Means(kind, slot, item, value)
  BY DEF Faithful
<1> DEFINE results == [name \in DOMAIN kind.fields |->
                         IF name \in DOMAIN item.members
                         THEN AssignPart(kind.fields[name], slot[name], item.members[name])
                         ELSE {slot[name]}]
<1>1. /\ item.json = "object" /\ DOMAIN item.members \subseteq DOMAIN kind.fields
      /\ value \in Whole(results)
  BY DEF Assign, Simple, Message, Known
<1>2. DOMAIN results = DOMAIN kind.fields
  OBVIOUS
<1>3. /\ value = [name \in DOMAIN results |-> value[name]]
      /\ \A name \in DOMAIN results : value[name] \in results[name]
  <2> HIDE DEF results
  <2> QED BY <1>1, WholeParts
<1>4. \A name \in DOMAIN kind.fields :
        IF name \in DOMAIN item.members
        THEN value[name] \in AssignPart(kind.fields[name], slot[name], item.members[name])
        ELSE value[name] = slot[name]
  BY <1>3
<1>5. value = [name \in DOMAIN kind.fields |-> value[name]]
  <2> HIDE DEF results
  <2> QED BY <1>2, <1>3
<1> HIDE DEF results
<1>6. DOMAIN value = DOMAIN kind.fields
  BY <1>5
<1>7. \A name \in DOMAIN item.members : ValidPart(item.members[name])
  BY <1>1 DEF Valid
<1>8. \A name \in DOMAIN kind.fields : TypedPart(kind.fields[name], slot[name])
  BY DEF Typed, Lists
<1>9. ASSUME NEW name \in DOMAIN kind.fields
      PROVE  /\ TypedPart(kind.fields[name], value[name])
             /\ IF name \in DOMAIN item.members
                THEN MeansPart(kind.fields[name], slot[name], item.members[name],
                               value[name])
                ELSE value[name] = slot[name]
  BY <1>4, <1>7, <1>8 DEF FaithfulPart
<1>10. Typed(kind, value)
  BY <1>5, <1>6, <1>9 DEF Typed, Lists
<1>11. Means(kind, slot, item, value)
  BY <1>1, <1>6, <1>9 DEF Means
<1> QED BY <1>10, <1>11

\* Whatever decode makes of a JSON value, into whatever slot, is a value of the
\* slot's type and what the JSON value means.
THEOREM DecodeFaithful ==
  ASSUME DecodingClosed
  PROVE  \A kind \in Kinds : Faithful(kind)
<1> DEFINE S == {kind \in Kinds : Faithful(kind)}
<1>1. ASSUME NEW kind \in Kinds, PartKinds(kind) \subseteq S PROVE kind \in S
  <2>1. \A part \in PartKinds(kind) : FaithfulPart(part)
    BY <1>1 DEF DecodingClosed, Faithful, FaithfulPart
  <2>2. CASE kind.shape \in Lists
    BY <2>1, <2>2, PartKindsOf, ListFaithful
  <2>3. CASE kind.shape = "message"
    BY <2>1, <2>3, PartKindsOf, MessageFaithful
  <2>4. CASE kind.shape \notin Lists \cup {"message"}
    BY <2>4, SimpleFaithful
  <2> QED BY <2>2, <2>3, <2>4
<1>2. Kinds \subseteq S
  <2> HIDE DEF S
  <2> QED BY <1>1, KindInduction
<1> QED BY <1>2

-----------------------------------------------------------------------------
(* Encoding                                                                *)

\* The operators of parts are the operators, and numbers have a size.
EncodingClosed ==
  /\ \A kind \in Kinds :
       /\ \A out, value, depth :
            WritePart(out, kind, value, depth) = Write(out, kind, value, depth)
       /\ \A value : BytesPart(kind, value) = Bytes(kind, value)
       /\ \A value, levels :
            EncodablePart(kind, value, levels) <=> Encodable(kind, value, levels)
       /\ \A value : JsonPart(kind, value) = Json(kind, value)
       /\ \A value : PrintedPart(kind, value) = Printed(kind, value)
  /\ \A n \in Int : NumberSize(n) \in Nat

\* What an output may be: some number of bytes within the limit, or none.
Outputs == SUBSET (0..LIMIT)

\* A push adds bytes if they fit.  An output that has failed stays so.
LEMMA PushType ==
  ASSUME NEW out \in Outputs, NEW a \in Nat
  PROVE  Push(out, a) \in Outputs /\ Push({}, a) = {} /\ Push(out, 0) = out
<1>1. LIMIT \in Nat
  BY SizeAssumption
<1>2. Push(out, a) \in Outputs
  <2>1. ASSUME NEW x \in Push(out, a) PROVE x \in 0..LIMIT
    <3>1. PICK u \in out : u + a <= LIMIT /\ x = u + a
      BY <2>1 DEF Push
    <3>2. u \in 0..LIMIT
      BY DEF Outputs
    <3> QED BY <1>1, <3>1, <3>2
  <2> QED BY <2>1 DEF Outputs
<1>3. Push({}, a) = {}
  BY DEF Push
<1>4. Push(out, 0) = out
  <2>1. \A u \in out : u \in 0..LIMIT
    BY DEF Outputs
  <2>2. ASSUME NEW x PROVE x \in Push(out, 0) <=> x \in out
    <3>1. x \in out => x + 0 = x /\ x + 0 <= LIMIT
      BY <1>1, <2>1
    <3>2. x \in Push(out, 0) => \E u \in out : x = u + 0
      BY DEF Push
    <3>3. x \in Push(out, 0) => x \in out
      BY <2>1, <3>2
    <3>4. x \in out => x \in Push(out, 0)
      BY <3>1 DEF Push
    <3> QED BY <3>3, <3>4
  <2> QED BY <2>2
<1> QED BY <1>2, <1>3, <1>4

\* Two pushes are one of both sizes: the limit that stops the first stops their
\* sum.
LEMMA PushPush ==
  ASSUME NEW out \in Outputs, NEW a \in Nat, NEW b \in Nat
  PROVE  Push(Push(out, a), b) = Push(out, a + b)
<1>1. LIMIT \in Nat
  BY SizeAssumption
<1>2. ASSUME NEW x PROVE x \in Push(Push(out, a), b) <=> x \in Push(out, a + b)
  <2>1. ASSUME x \in Push(Push(out, a), b) PROVE x \in Push(out, a + b)
    <3>1. PICK u \in Push(out, a) : u + b <= LIMIT /\ x = u + b
      BY <2>1 DEF Push
    <3>2. PICK v \in out : v + a <= LIMIT /\ u = v + a
      BY <3>1 DEF Push
    <3>3. v \in Int
      BY DEF Outputs
    <3>4. v + (a + b) <= LIMIT /\ x = v + (a + b)
      BY <1>1, <3>1, <3>2, <3>3
    <3> QED BY <3>4 DEF Push
  <2>2. ASSUME x \in Push(out, a + b) PROVE x \in Push(Push(out, a), b)
    <3>1. PICK v \in out : v + (a + b) <= LIMIT /\ x = v + (a + b)
      BY <2>2 DEF Push
    <3>2. v \in Int
      BY DEF Outputs
    <3>3. v + a <= LIMIT /\ (v + a) + b <= LIMIT /\ x = (v + a) + b
      BY <1>1, <3>1, <3>2
    <3>4. v + a \in Push(out, a)
      BY <3>3 DEF Push
    <3> QED BY <3>3, <3>4 DEF Push
  <2> QED BY <2>1, <2>2
<1> QED BY <1>2

\* The text of a whole: pieces that fit one after the other, if they all can be
\* written, fit if and only if their sum does.
Grow(written, total, n, out, size, can) ==
  /\ n \in Nat /\ out \in Outputs /\ size \in [1..n -> Nat]
  /\ written[0] = Push(out, 1)
  /\ \A i \in 1..n : written[i] = IF i \in can THEN Push(written[i - 1], size[i]) ELSE {}
  /\ total[0] = 2
  /\ \A i \in 1..n : total[i] = total[i - 1] + size[i]

LEMMA WrittenWhole ==
  ASSUME NEW written, NEW total, NEW n, NEW out, NEW size, NEW can,
         Grow(written, total, n, out, size, can)
  PROVE  /\ total[n] \in Nat
         /\ Push(written[n], 1) = IF 1..n \subseteq can THEN Push(out, total[n]) ELSE {}
<1> USE DEF Grow
<1> DEFINE S == {i \in 0..n :
                   /\ total[i] \in Nat /\ total[i] >= 2
                   /\ written[i] = IF 1..i \subseteq can THEN Push(out, total[i] - 1) ELSE {}}
<1>1. 0 \in S
  OBVIOUS
<1>2. ASSUME NEW k \in 0..(n - 1), k \in S PROVE k + 1 \in S
  <2>1. k + 1 \in 1..n /\ k + 1 \in 0..n /\ (k + 1) - 1 = k
    OBVIOUS
  <2>2. size[k + 1] \in Nat
    BY <2>1
  <2>3. total[k] \in Nat /\ total[k] >= 2
    BY <1>2
  <2>4. total[k + 1] = total[k] + size[k + 1]
    BY <2>1
  <2>5. written[k + 1] = IF k + 1 \in can THEN Push(written[k], size[k + 1]) ELSE {}
    BY <2>1
  <2>6. written[k] = IF 1..k \subseteq can THEN Push(out, total[k] - 1) ELSE {}
    BY <1>2
  <2>7. 1..(k + 1) \subseteq can <=> 1..k \subseteq can /\ k + 1 \in can
    <3>1. 1..(k + 1) = 1..k \cup {k + 1}
      OBVIOUS
    <3> QED BY <3>1
  <2>8. total[k] - 1 \in Nat /\ (total[k] - 1) + size[k + 1] = total[k + 1] - 1
    BY <2>2, <2>3, <2>4
  <2>9. written[k + 1] =
          IF 1..(k + 1) \subseteq can THEN Push(out, total[k + 1] - 1) ELSE {}
    <3>1. CASE 1..(k + 1) \subseteq can
      <4>1. written[k + 1] = Push(Push(out, total[k] - 1), size[k + 1])
        BY <2>5, <2>6, <2>7, <3>1
      <4>2. Push(Push(out, total[k] - 1), size[k + 1]) = Push(out, total[k + 1] - 1)
        <5> DEFINE a == total[k] - 1
                   b == size[k + 1]
        <5>1. a \in Nat /\ b \in Nat /\ a + b = total[k + 1] - 1
          BY <2>2, <2>8
        <5> HIDE DEF a, b
        <5>2. Push(Push(out, a), b) = Push(out, a + b)
          BY <5>1, PushPush
        <5> QED BY <5>1, <5>2 DEF a, b
      <4> QED BY <3>1, <4>1, <4>2
    <3>2. CASE ~(1..(k + 1) \subseteq can)
      <4>1. written[k + 1] = {}
        BY <2>2, <2>5, <2>6, <2>7, <3>2, PushType
      <4> QED BY <3>2, <4>1
    <3> QED BY <3>1, <3>2
  <2>10. total[k + 1] \in Nat /\ total[k + 1] >= 2
    BY <2>2, <2>3, <2>4
  <2> QED BY <2>1, <2>9, <2>10
<1>3. 0..n \subseteq S
  <2> HIDE DEF S
  <2> QED BY <1>1, <1>2, InductionUpTo
<1>4. /\ total[n] \in Nat /\ total[n] >= 2
      /\ written[n] = IF 1..n \subseteq can THEN Push(out, total[n] - 1) ELSE {}
  BY <1>3
<1>5. Push(Push(out, total[n] - 1), 1) = Push(out, total[n])
  <2> DEFINE a == total[n] - 1
  <2>1. a \in Nat /\ a + 1 = total[n]
    BY <1>4
  <2> HIDE DEF a
  <2>2. Push(Push(out, a), 1) = Push(out, a + 1)
    BY <2>1, PushPush
  <2> QED BY <2>1, <2>2 DEF a
<1> QED BY <1>4, <1>5, PushType

\* A comma before all pieces but the first.
LEMMA CommaPush ==
  ASSUME NEW out \in Outputs, NEW i \in Nat
  PROVE  Comma(out, i) = Push(out, IF i > 1 THEN 1 ELSE 0)
BY PushType DEF Comma

\* Writing a value of a type to an output within the limit, at a depth that
\* messages within their nesting reach, gives the bytes of its whole text if it
\* can be encoded and they still fit, and fails otherwise.
WritesWhole(kind) ==
  \A value, depth :
    Typed(kind, value) /\ depth \in 0..(NESTING + 1) =>
      /\ Bytes(kind, value) \in Nat
      /\ \A out \in Outputs :
           Write(out, kind, value, depth) =
             IF Encodable(kind, value, NESTING + 1 - depth)
             THEN Push(out, Bytes(kind, value)) ELSE {}

\* ... for the parts of a type.
WritesWholePart(kind) ==
  \A value, depth :
    TypedPart(kind, value) /\ depth \in 0..(NESTING + 1) =>
      /\ BytesPart(kind, value) \in Nat
      /\ \A out \in Outputs :
           WritePart(out, kind, value, depth) =
             IF EncodablePart(kind, value, NESTING + 1 - depth)
             THEN Push(out, BytesPart(kind, value)) ELSE {}

\* A string in quotes is longer than its characters.
LEMMA StringSizeType ==
  ASSUME NEW text \in Seq(Characters)
  PROVE  Len(text) \in Nat /\ StringSize(text) \in Nat /\ Len(text) < StringSize(text)
<1> DEFINE escaped == {i \in DOMAIN text : text[i] = "q"}
<1>1. Len(text) \in Nat /\ DOMAIN text = 1..Len(text)
  OBVIOUS
<1>2. IsFiniteSet(1..Len(text))
  BY <1>1, FS_Interval
<1>3. Cardinality(escaped) \in Nat
  <2>1. escaped \subseteq 1..Len(text)
    BY <1>1
  <2>2. IsFiniteSet(escaped)
    <3> HIDE DEF escaped
    <3> QED BY <1>2, <2>1, FS_Subset
  <2> HIDE DEF escaped
  <2> QED BY <2>2, FS_CardinalityType
<1>4. StringSize(text) = Len(text) + Cardinality(escaped) + 2
  BY DEF StringSize
<1> HIDE DEF escaped
<1> QED BY <1>1, <1>3, <1>4

\* A value that is not a whole.
LEMMA SimpleWritten ==
  ASSUME EncodingClosed, NEW kind \in Kinds, kind.shape \notin Lists \cup {"message"}
  PROVE  WritesWhole(kind)
<1> SUFFICES ASSUME NEW value, NEW depth, Typed(kind, value), NEW out \in Outputs
             PROVE  /\ Bytes(kind, value) \in Nat
                    /\ Write(out, kind, value, depth) =
                         IF Encodable(kind, value, NESTING + 1 - depth)
                         THEN Push(out, Bytes(kind, value)) ELSE {}
  <2>1. {} \in Outputs
    BY DEF Outputs
  <2> QED BY <2>1 DEF WritesWhole
<1>0. kind.shape \in {"integer", "float", "double", "long double", "boolean", "string"}
  BY KindAssumption DEF Shapes, Lists
<1>1. \A n \in Int : NumberSize(n) \in Nat
  BY DEF EncodingClosed
<1>2. CASE kind.shape = "integer"
  <2>1. value \in kind.low..kind.high
    BY <1>2 DEF Typed, Lists
  <2>2. value \in Int
    <3>1. kind.low \in Int /\ kind.high \in Int
      BY <1>2, KindAssumption
    <3> QED BY <2>1, <3>1
  <2> QED BY <1>1, <1>2, <2>2 DEF Bytes, Write, Encodable, Lists
<1>3. CASE kind.shape \in {"float", "double"}
  <2>1. IsFloat(Exact(kind), value)
    BY <1>3 DEF Typed, Lists, Exact
  <2>2. value.finite => value.value \in Int
    BY <2>1 DEF IsFloat, NaN, Infinite
  <2>3. FloatSize(value) \in Nat
    BY <1>1, <2>2 DEF FloatSize
  <2> QED BY <1>3, <2>3 DEF Bytes, Write, Encodable, Lists
<1>4. CASE kind.shape = "boolean"
  BY <1>4 DEF Bytes, Write, Encodable, Lists, BooleanSize
<1>5. CASE kind.shape = "string"
  <2>1. value \in Seq(Characters)
    BY <1>5 DEF Typed, Lists
  <2>2. Len(value) \in Nat /\ StringSize(value) \in Nat /\ Len(value) < StringSize(value)
    BY <2>1, StringSizeType
  <2>3. ASSUME Len(value) > LIMIT PROVE Push(out, StringSize(value)) = {}
    <3>1. \A u \in out : u \in Nat /\ LIMIT \in Nat
      BY SizeAssumption DEF Outputs
    <3> QED BY <2>2, <2>3, <3>1 DEF Push
  <2>4. PushString(out, value) = Push(out, StringSize(value))
    BY <2>2, <2>3, SizeAssumption DEF PushString
  <2> QED BY <1>5, <2>2, <2>4 DEF Bytes, Write, Encodable, Lists
<1>6. CASE kind.shape = "long double"
  BY <1>6 DEF Bytes, Write, Encodable, Lists
<1> QED BY <1>0, <1>2, <1>3, <1>4, <1>5, <1>6

\* The pieces of a whole, with sizes, and those that can be written.
Pieces(pieces, size, can, depth) ==
  /\ Len(pieces) \in Nat
  /\ size \in [1..Len(pieces) -> Nat]
  /\ \A i \in 1..Len(pieces) :
       /\ pieces[i].label \in Nat
       /\ BytesPart(pieces[i].kind, pieces[i].value) = size[i]
       /\ \A out \in Outputs :
            WritePart(out, pieces[i].kind, pieces[i].value, depth) =
              IF i \in can THEN Push(out, size[i]) ELSE {}

\* A piece with what comes before it.
Extent(pieces, size) ==
  [i \in 1..Len(pieces) |-> (IF i > 1 THEN 1 ELSE 0) + pieces[i].label + size[i]]

LEMMA ExtentType ==
  ASSUME NEW pieces, NEW size, NEW can, NEW depth, Pieces(pieces, size, can, depth)
  PROVE  Extent(pieces, size) \in [1..Len(pieces) -> Nat]
<1>1. \A i \in 1..Len(pieces) :
        (IF i > 1 THEN 1 ELSE 0) + pieces[i].label + size[i] \in Nat
  BY DEF Pieces
<1> QED BY <1>1 DEF Extent

\* The bytes of a whole text, by their defining equation.
LEMMA BytesOfAllEquation ==
  ASSUME NEW pieces, NEW size, NEW can, NEW depth, Pieces(pieces, size, can, depth)
  PROVE  \E total :
           /\ BytesOfAll(pieces) = total[Len(pieces)]
           /\ total[0] = 2
           /\ \A i \in 1..Len(pieces) : total[i] = total[i - 1] + Extent(pieces, size)[i]
<1> DEFINE n == Len(pieces)
           more == Extent(pieces, size)
           P(g) == g = [i \in 0..n |->
                          IF i = 0 THEN 2
                          ELSE g[i - 1] + (IF i > 1 THEN 1 ELSE 0) + pieces[i].label
                                 + BytesPart(pieces[i].kind, pieces[i].value)]
           step == [i \in 1..n |-> [x \in Nat |-> x + more[i]]]
<1>0. n \in Nat
  BY DEF Pieces
<1>1. more \in [1..n -> Nat]
  BY ExtentType
<1>2. ASSUME NEW i \in 1..n, NEW x \in Nat
      PROVE  x + more[i] = x + (IF i > 1 THEN 1 ELSE 0) + pieces[i].label
                             + BytesPart(pieces[i].kind, pieces[i].value)
  BY DEF Extent, Pieces
<1> HIDE DEF n, more
<1>3. step \in [1..n -> [Nat -> Nat]]
  BY <1>1
<1>4. PICK f : Folds(f, n, Nat, 2, step)
  <2> HIDE DEF step
  <2>1. Folding(n, Nat, 2, step)
    BY <1>0, <1>3 DEF Folding
  <2> QED BY <2>1, FoldingFunction
<1>5. ASSUME NEW i \in 0..n, i # 0
      PROVE  f[i] = f[i - 1] + (IF i > 1 THEN 1 ELSE 0) + pieces[i].label
                      + BytesPart(pieces[i].kind, pieces[i].value)
  <2>1. i \in 1..n /\ i - 1 \in 0..n
    BY <1>0, <1>5
  <2>2. f[i - 1] \in Nat /\ f[i] = step[i][f[i - 1]]
    <3> HIDE DEF step
    <3> QED BY <1>4, <2>1 DEF Folds
  <2>3. f[i] = f[i - 1] + more[i]
    BY <2>1, <2>2
  <2> QED BY <1>2, <2>1, <2>2, <2>3
<1>6. f \in [0..n -> Nat] /\ f[0] = 2
  <2> HIDE DEF step
  <2> QED BY <1>4 DEF Folds
<1>7. P(f)
  BY <1>5, <1>6
<1> DEFINE total == CHOOSE g : P(g)
<1>8. P(total)
  <2> HIDE DEF P
  <2> QED BY <1>7
<1>9. BytesOfAll(pieces) = total[n]
  BY DEF BytesOfAll, n
<1> HIDE DEF total, step
<1>10. 0 \in 0..n /\ \A i \in 1..n : i \in 0..n /\ i # 0 /\ i - 1 \in 0..n
  BY <1>0
<1>11. total[0] = 2 /\ \A i \in 1..n :
         total[i] = total[i - 1] + (IF i > 1 THEN 1 ELSE 0) + pieces[i].label
                      + BytesPart(pieces[i].kind, pieces[i].value)
  BY <1>8, <1>10
<1> HIDE DEF P
<1> DEFINE S == {i \in 0..n : total[i] \in Nat}
<1>12. 0..n \subseteq S
  <2>1. 0 \in S
    BY <1>10, <1>11
  <2>2. ASSUME NEW k \in 0..(n - 1), k \in S PROVE k + 1 \in S
    <3>1. k + 1 \in 1..n /\ k + 1 \in 0..n /\ (k + 1) - 1 = k
      BY <1>0
    <3>2. total[k] \in Nat
      BY <2>2
    <3>3. total[k + 1] = total[k] + more[k + 1]
      BY <1>2, <1>11, <3>1, <3>2
    <3>4. more[k + 1] \in Nat
      BY <1>1, <3>1
    <3> QED BY <3>1, <3>2, <3>3, <3>4
  <2> HIDE DEF S
  <2> QED BY <1>0, <2>1, <2>2, InductionUpTo
<1>13. \A i \in 1..n : total[i] = total[i - 1] + more[i]
  BY <1>2, <1>10, <1>11, <1>12
<1> QED BY <1>9, <1>11, <1>13 DEF n, more

\* What the loop of a whole writes, if each piece is written whole or not at all.
LEMMA WriteAllEquation ==
  ASSUME NEW pieces, NEW size, NEW can, NEW depth, Pieces(pieces, size, can, depth),
         NEW out \in Outputs
  PROVE  \E written :
           /\ WriteAll(out, pieces, depth) = Push(written[Len(pieces)], 1)
           /\ written[0] = Push(out, 1)
           /\ \A i \in 1..Len(pieces) :
                written[i] = IF i \in can THEN Push(written[i - 1], Extent(pieces, size)[i])
                             ELSE {}
<1> DEFINE n == Len(pieces)
           more == Extent(pieces, size)
           Piece(x, i) == WritePart(Push(Comma(x, i), pieces[i].label),
                                    pieces[i].kind, pieces[i].value, depth)
           P(g) == g = [i \in 0..n |-> IF i = 0 THEN Push(out, 1) ELSE Piece(g[i - 1], i)]
           step == [i \in 1..n |-> [x \in Outputs |->
                      IF i \in can THEN Push(x, more[i]) ELSE {}]]
<1>0. n \in Nat
  BY DEF Pieces
<1>1. more \in [1..n -> Nat]
  BY ExtentType
<1>2. Push(out, 1) \in Outputs /\ {} \in Outputs
  BY PushType DEF Outputs
<1>3. ASSUME NEW i \in 1..n, NEW x \in Outputs
      PROVE  Piece(x, i) = IF i \in can THEN Push(x, more[i]) ELSE {}
  <2> DEFINE comma == IF i > 1 THEN 1 ELSE 0
             label == pieces[i].label
  <2>1. comma \in Nat /\ label \in Nat /\ size[i] \in Nat /\ i \in Nat
    BY DEF Pieces
  <2>2. more[i] = (comma + label) + size[i]
    BY DEF Extent
  <2>3. Comma(x, i) = Push(x, comma)
    BY <2>1, CommaPush
  <2>4. \A y \in Outputs : WritePart(y, pieces[i].kind, pieces[i].value, depth) =
          IF i \in can THEN Push(y, size[i]) ELSE {}
    BY DEF Pieces
  <2> DEFINE both == comma + label
  <2>5. both \in Nat /\ both = comma + label /\ more[i] = both + size[i]
    BY <2>1, <2>2
  <2> HIDE DEF comma, label, n, more, both
  <2>6. Push(Push(x, comma), label) = Push(x, both)
    BY <2>1, <2>5, PushPush
  <2>7. Push(x, both) \in Outputs /\ Push(Push(x, both), size[i]) = Push(x, more[i])
    <3>1. Push(Push(x, both), size[i]) = Push(x, both + size[i])
      BY <2>1, <2>5, PushPush
    <3>2. Push(x, both) \in Outputs
      BY <2>5, PushType
    <3> QED BY <2>5, <3>1, <3>2
  <2>8. Piece(x, i) = WritePart(Push(x, both), pieces[i].kind, pieces[i].value, depth)
    BY <2>3, <2>6 DEF label
  <2> QED BY <2>4, <2>7, <2>8
<1> HIDE DEF n, more, Piece
<1>4. step \in [1..n -> [Outputs -> Outputs]]
  <2>1. ASSUME NEW i \in 1..n, NEW x \in Outputs PROVE Push(x, more[i]) \in Outputs
    BY <1>1, PushType
  <2> QED BY <1>2, <2>1
<1>5. PICK f : Folds(f, n, Outputs, Push(out, 1), step)
  <2> HIDE DEF step
  <2>1. Folding(n, Outputs, Push(out, 1), step)
    BY <1>0, <1>2, <1>4 DEF Folding
  <2> QED BY <2>1, FoldingFunction
<1>6. P(f)
  <2>1. ASSUME NEW i \in 0..n, i # 0 PROVE f[i] = Piece(f[i - 1], i)
    <3>1. i \in 1..n /\ i - 1 \in 0..n
      BY <1>0, <2>1
    <3>2. f[i - 1] \in Outputs /\ f[i] = step[i][f[i - 1]]
      <4> HIDE DEF step
      <4> QED BY <1>5, <3>1 DEF Folds
    <3> QED BY <1>3, <3>1, <3>2
  <2>2. f = [i \in 0..n |-> f[i]] /\ f[0] = Push(out, 1)
    <3> HIDE DEF step
    <3> QED BY <1>5 DEF Folds
  <2> HIDE DEF step
  <2> QED BY <2>1, <2>2
<1> DEFINE written == CHOOSE g : P(g)
<1>7. P(written)
  <2> HIDE DEF P
  <2> QED BY <1>6
<1>8. WriteAll(out, pieces, depth) = Push(written[n], 1)
  BY DEF WriteAll, n, Piece
<1> HIDE DEF written, step
<1>9. 0 \in 0..n /\ \A i \in 1..n : i \in 0..n /\ i # 0 /\ i - 1 \in 0..n
  BY <1>0
<1>10. written[0] = Push(out, 1) /\ \A i \in 1..n : written[i] = Piece(written[i - 1], i)
  BY <1>7, <1>9
<1> HIDE DEF P
<1> DEFINE S == {i \in 0..n : written[i] \in Outputs}
<1>11. 0..n \subseteq S
  <2>1. 0 \in S
    BY <1>2, <1>9, <1>10
  <2>2. ASSUME NEW k \in 0..(n - 1), k \in S PROVE k + 1 \in S
    <3>1. k + 1 \in 1..n /\ k + 1 \in 0..n /\ (k + 1) - 1 = k
      BY <1>0
    <3>2. written[k] \in Outputs
      BY <2>2
    <3>3. written[k + 1] = IF k + 1 \in can THEN Push(written[k], more[k + 1]) ELSE {}
      BY <1>3, <1>10, <3>1, <3>2
    <3>4. written[k + 1] \in Outputs
      <4>1. Push(written[k], more[k + 1]) \in Outputs
        BY <1>1, <3>1, <3>2, PushType
      <4> QED BY <1>2, <3>3, <4>1
    <3> QED BY <3>1, <3>4
  <2> HIDE DEF S
  <2> QED BY <1>0, <2>1, <2>2, InductionUpTo
<1>12. \A i \in 1..n :
         written[i] = IF i \in can THEN Push(written[i - 1], more[i]) ELSE {}
  BY <1>3, <1>9, <1>10, <1>11
<1> QED BY <1>8, <1>10, <1>12 DEF n, more

\* The text of a whole fits if and only if the sum of its pieces does.
LEMMA AllWritten ==
  ASSUME NEW pieces, NEW size, NEW can, NEW depth, Pieces(pieces, size, can, depth)
  PROVE  /\ BytesOfAll(pieces) \in Nat
         /\ \A out \in Outputs :
              WriteAll(out, pieces, depth) =
                IF 1..Len(pieces) \subseteq can THEN Push(out, BytesOfAll(pieces)) ELSE {}
<1>1. Len(pieces) \in Nat /\ Extent(pieces, size) \in [1..Len(pieces) -> Nat]
  BY ExtentType DEF Pieces
<1>2. PICK total :
        /\ BytesOfAll(pieces) = total[Len(pieces)]
        /\ total[0] = 2
        /\ \A i \in 1..Len(pieces) : total[i] = total[i - 1] + Extent(pieces, size)[i]
  BY BytesOfAllEquation
<1>3. ASSUME NEW out \in Outputs
      PROVE  /\ BytesOfAll(pieces) \in Nat
             /\ WriteAll(out, pieces, depth) =
                  IF 1..Len(pieces) \subseteq can THEN Push(out, BytesOfAll(pieces)) ELSE {}
  <2>1. PICK written :
          /\ WriteAll(out, pieces, depth) = Push(written[Len(pieces)], 1)
          /\ written[0] = Push(out, 1)
          /\ \A i \in 1..Len(pieces) :
               written[i] = IF i \in can THEN Push(written[i - 1], Extent(pieces, size)[i])
                            ELSE {}
    BY WriteAllEquation
  <2>2. /\ total[Len(pieces)] \in Nat
        /\ Push(written[Len(pieces)], 1) =
             IF 1..Len(pieces) \subseteq can THEN Push(out, total[Len(pieces)]) ELSE {}
    <3>1. Grow(written, total, Len(pieces), out, Extent(pieces, size), can)
      BY <1>1, <1>2, <2>1 DEF Grow
    <3> QED BY <3>1, WrittenWhole
  <2> QED BY <1>2, <2>1, <2>2
<1>4. {} \in Outputs
  BY DEF Outputs
<1> QED BY <1>3, <1>4

\* A list, if its elements are written whole.
LEMMA ListWritten ==
  ASSUME EncodingClosed, NEW kind \in Kinds, kind.shape \in Lists,
         WritesWholePart(kind.of)
  PROVE  WritesWhole(kind)
<1> SUFFICES ASSUME NEW value, NEW depth, Typed(kind, value), depth \in 0..(NESTING + 1)
             PROVE  /\ Bytes(kind, value) \in Nat
                    /\ \A out \in Outputs :
                         Write(out, kind, value, depth) =
                           IF Encodable(kind, value, NESTING + 1 - depth)
                           THEN Push(out, Bytes(kind, value)) ELSE {}
  BY DEF WritesWhole
<1> DEFINE pieces == Items(kind.of, value)
           n == Len(value)
           levels == NESTING + 1 - depth
           size == [i \in 1..n |-> BytesPart(kind.of, value[i])]
           can == {i \in 1..n : EncodablePart(kind.of, value[i], levels)}
<1>1. IsSequence(value) /\ \A i \in DOMAIN value : TypedPart(kind.of, value[i])
  BY DEF Typed, Lists
<1>2. n \in Nat /\ DOMAIN value = 1..n
  BY <1>1 DEF IsSequence
<1>3. Len(pieces) = n /\ \A i \in 1..n : /\ pieces[i].label = 0
                                         /\ pieces[i].kind = kind.of
                                         /\ pieces[i].value = value[i]
  <2>1. pieces = [i \in DOMAIN value |-> pieces[i]]
    BY DEF Items
  <2>2. Len(pieces) = n
    <3> HIDE DEF pieces
    <3> QED BY <1>1, <2>1, AsLong
  <2>3. ASSUME NEW i \in 1..n
        PROVE  /\ pieces[i].label = 0
               /\ pieces[i].kind = kind.of
               /\ pieces[i].value = value[i]
    <3>1. pieces[i] = [label |-> 0, kind |-> kind.of, value |-> value[i]]
      BY <1>2 DEF Items
    <3> HIDE DEF pieces, n
    <3> QED BY <3>1
  <2> HIDE DEF pieces, n
  <2> QED BY <2>2, <2>3
<1>4. \A i \in 1..n :
        /\ BytesPart(kind.of, value[i]) \in Nat
        /\ \A out \in Outputs :
             WritePart(out, kind.of, value[i], depth) =
               IF EncodablePart(kind.of, value[i], levels)
               THEN Push(out, BytesPart(kind.of, value[i])) ELSE {}
  BY <1>1, <1>2 DEF WritesWholePart
<1>5. Pieces(pieces, size, can, depth)
  <2>1. size \in [1..n -> Nat]
    BY <1>4
  <2>2. \A i \in 1..n : i \in can <=> EncodablePart(kind.of, value[i], levels)
    OBVIOUS
  <2>3. \A i \in 1..n : size[i] = BytesPart(kind.of, value[i])
    OBVIOUS
  <2> HIDE DEF pieces, size, can, n, levels
  <2> QED BY <1>2, <1>3, <1>4, <2>1, <2>2, <2>3 DEF Pieces
<1>6. 1..n \subseteq can <=> \A i \in DOMAIN value : EncodablePart(kind.of, value[i], levels)
  BY <1>2
<1>7. /\ BytesOfAll(pieces) \in Nat
      /\ \A out \in Outputs :
           WriteAll(out, pieces, depth) =
             IF 1..n \subseteq can THEN Push(out, BytesOfAll(pieces)) ELSE {}
  <2> HIDE DEF pieces, size, can, n
  <2> QED BY <1>3, <1>5, AllWritten
<1>8. Bytes(kind, value) = BytesOfAll(pieces)
  BY DEF Bytes, Lists
<1>9. \A out : Write(out, kind, value, depth) =
                 IF kind.of.shape = "long double" THEN {} ELSE WriteAll(out, pieces, depth)
  BY DEF Write, Lists
<1>10. Encodable(kind, value, levels) <=>
         /\ kind.of.shape # "long double"
         /\ \A i \in DOMAIN value : EncodablePart(kind.of, value[i], levels)
  BY DEF Encodable, Lists
<1> HIDE DEF pieces, can, n
<1> QED BY <1>6, <1>7, <1>8, <1>9, <1>10

\* A message, if its fields are written whole.
LEMMA MessageWritten ==
  ASSUME EncodingClosed, NEW kind \in Kinds, kind.shape = "message",
         \A name \in DOMAIN kind.fields : WritesWholePart(kind.fields[name])
  PROVE  WritesWhole(kind)
<1> SUFFICES ASSUME NEW value, NEW depth, Typed(kind, value), depth \in 0..(NESTING + 1),
                    NEW all, all = NESTING + 1 - depth
             PROVE  /\ Bytes(kind, value) \in Nat
                    /\ \A out \in Outputs :
                         Write(out, kind, value, depth) =
                           IF Encodable(kind, value, all)
                           THEN Push(out, Bytes(kind, value)) ELSE {}
  BY DEF WritesWhole
<1> DEFINE pieces == Fields(kind, value)
           names == kind.names
           n == Len(names)
           inside == IF depth <= NESTING THEN depth + 1 ELSE 0
           levels == NESTING + 1 - inside
           part(i) == kind.fields[names[i]]
           size == [i \in 1..n |-> BytesPart(part(i), value[names[i]])]
           can == {i \in 1..n : EncodablePart(part(i), value[names[i]], levels)}
<1>1. /\ names \in Seq(DOMAIN kind.fields)
      /\ \A name \in DOMAIN kind.fields : \E i \in DOMAIN names : names[i] = name
  BY KindAssumption
<1>2. n \in Nat /\ DOMAIN names = 1..n /\ \A i \in 1..n : names[i] \in DOMAIN kind.fields
  BY <1>1
<1>3. /\ DOMAIN value = DOMAIN kind.fields
      /\ \A name \in DOMAIN value : TypedPart(kind.fields[name], value[name])
  BY DEF Typed, Lists
<1>4. NESTING \in Nat /\ NAME_SIZE + 1 \in Nat
  BY SizeAssumption
<1>5. inside \in 0..(NESTING + 1)
  BY <1>4
<1>6. Len(pieces) = n /\ \A i \in 1..n : /\ pieces[i].label = NAME_SIZE + 1
                                         /\ pieces[i].kind = part(i)
                                         /\ pieces[i].value = value[names[i]]
  <2>1. pieces = [i \in DOMAIN names |-> pieces[i]]
    BY DEF Fields
  <2>2. Len(pieces) = n
    <3>1. IsSequence(names)
      BY <1>1 DEF IsSequence
    <3> HIDE DEF pieces
    <3> QED BY <2>1, <3>1, AsLong
  <2>3. ASSUME NEW i \in 1..n
        PROVE  /\ pieces[i].label = NAME_SIZE + 1
               /\ pieces[i].kind = part(i)
               /\ pieces[i].value = value[names[i]]
    <3>1. pieces[i] = [label |-> NAME_SIZE + 1, kind |-> part(i), value |-> value[names[i]]]
      BY <1>2 DEF Fields
    <3> HIDE DEF pieces, n, part, names
    <3> QED BY <3>1
  <2> HIDE DEF pieces, n, part, names
  <2> QED BY <2>2, <2>3
<1>7. \A i \in 1..n :
        /\ BytesPart(part(i), value[names[i]]) \in Nat
        /\ \A out \in Outputs :
             WritePart(out, part(i), value[names[i]], inside) =
               IF EncodablePart(part(i), value[names[i]], levels)
               THEN Push(out, BytesPart(part(i), value[names[i]])) ELSE {}
  <2> HIDE DEF inside
  <2> QED BY <1>2, <1>3, <1>5 DEF WritesWholePart
<1>8. Pieces(pieces, size, can, inside)
  <2>1. size \in [1..n -> Nat]
    BY <1>7
  <2>2. \A i \in 1..n : i \in can <=> EncodablePart(part(i), value[names[i]], levels)
    OBVIOUS
  <2>3. \A i \in 1..n : size[i] = BytesPart(part(i), value[names[i]])
    OBVIOUS
  <2> HIDE DEF pieces, size, can, n, levels, part, names, inside
  <2> QED BY <1>2, <1>4, <1>6, <1>7, <2>1, <2>2, <2>3 DEF Pieces
<1>9. /\ BytesOfAll(pieces) \in Nat
      /\ \A out \in Outputs :
           WriteAll(out, pieces, inside) =
             IF 1..n \subseteq can THEN Push(out, BytesOfAll(pieces)) ELSE {}
  <2> HIDE DEF pieces, size, can, n, inside
  <2> QED BY <1>6, <1>8, AllWritten
<1>10. 1..n \subseteq can <=>
         \A name \in DOMAIN value : EncodablePart(kind.fields[name], value[name], levels)
  <2>1. 1..n \subseteq can <=> \A i \in 1..n : EncodablePart(part(i), value[names[i]], levels)
    OBVIOUS
  <2> HIDE DEF can, levels, n, names
  <2> QED BY <1>1, <1>2, <1>3, <2>1
<1>11. Bytes(kind, value) = BytesOfAll(pieces)
  BY DEF Bytes, Lists
<1>12. \A out : Write(out, kind, value, depth) =
                  IF depth > NESTING THEN {} ELSE WriteAll(out, pieces, depth + 1)
  BY DEF Write, WriteMessage, Lists
<1>13. Encodable(kind, value, all) <=>
         /\ all > 0
         /\ \A name \in DOMAIN value :
              EncodablePart(kind.fields[name], value[name], all - 1)
  BY DEF Encodable, Lists
<1>14. CASE depth <= NESTING
  <2>1. inside = depth + 1 /\ levels = all - 1 /\ all > 0
    BY <1>4, <1>14
  <2>2. ~(depth > NESTING)
    BY <1>4, <1>14
  <2> HIDE DEF pieces, can, n, inside, levels
  <2> QED BY <1>9, <1>10, <1>11, <1>12, <1>13, <2>1, <2>2
<1>15. CASE depth > NESTING
  <2>1. ~(all > 0)
    BY <1>4, <1>15
  <2> HIDE DEF pieces, can, n, inside, levels
  <2> QED BY <1>9, <1>11, <1>12, <1>13, <1>15, <2>1
<1> QED BY <1>4, <1>14, <1>15

\* The bounded writer: it writes every value of every type whole, or fails.
THEOREM WrittenWhenFits ==
  ASSUME EncodingClosed, DecodingClosed
  PROVE  \A kind \in Kinds : WritesWhole(kind)
<1> DEFINE S == {kind \in Kinds : WritesWhole(kind)}
<1>1. ASSUME NEW kind \in Kinds, PartKinds(kind) \subseteq S PROVE kind \in S
  <2>1. ASSUME NEW part \in PartKinds(kind) PROVE WritesWholePart(part)
    <3>1. part \in Kinds /\ WritesWhole(part)
      BY <1>1
    <3>2. /\ \A value : /\ TypedPart(part, value) <=> Typed(part, value)
                        /\ BytesPart(part, value) = Bytes(part, value)
          /\ \A value, levels :
               EncodablePart(part, value, levels) <=> Encodable(part, value, levels)
          /\ \A out, value, depth :
               WritePart(out, part, value, depth) = Write(out, part, value, depth)
      BY <3>1 DEF EncodingClosed, DecodingClosed
    <3> SUFFICES ASSUME NEW value, NEW depth,
                        TypedPart(part, value), depth \in 0..(NESTING + 1)
                 PROVE  /\ BytesPart(part, value) \in Nat
                        /\ \A out \in Outputs :
                             WritePart(out, part, value, depth) =
                               IF EncodablePart(part, value, NESTING + 1 - depth)
                               THEN Push(out, BytesPart(part, value)) ELSE {}
      BY DEF WritesWholePart
    <3>3. /\ Bytes(part, value) \in Nat
          /\ \A out \in Outputs :
               Write(out, part, value, depth) =
                 IF Encodable(part, value, NESTING + 1 - depth)
                 THEN Push(out, Bytes(part, value)) ELSE {}
      BY <3>1, <3>2 DEF WritesWhole
    <3> QED BY <3>2, <3>3
  <2>2. CASE kind.shape \in Lists
    BY <2>1, <2>2, PartKindsOf, ListWritten
  <2>3. CASE kind.shape = "message"
    BY <2>1, <2>3, PartKindsOf, MessageWritten
  <2>4. CASE kind.shape \notin Lists \cup {"message"}
    BY <2>4, SimpleWritten
  <2> QED BY <2>2, <2>3, <2>4
<1>2. Kinds \subseteq S
  <2> HIDE DEF S
  <2> QED BY <1>1, KindInduction
<1> QED BY <1>2

-----------------------------------------------------------------------------
(* Publishing a payload again                                              *)

\* Decoding what was encoded, into whatever slot, gives the value again.
RoundTrips(kind) ==
  \A slot, value, levels :
    Typed(kind, slot) /\ Typed(kind, value) /\ Encodable(kind, value, levels) =>
      Assign(kind, slot, Json(kind, value)) = {Printed(kind, value)}

\* ... for the parts of a type.
RoundTripsPart(kind) ==
  \A slot, value, levels :
    TypedPart(kind, slot) /\ TypedPart(kind, value) /\ EncodablePart(kind, value, levels) =>
      AssignPart(kind, slot, JsonPart(kind, value)) = {PrintedPart(kind, value)}

\* The result of a whole whose parts have one result each.
LEMMA WholeOfSingles ==
  ASSUME NEW results, NEW value, value = [x \in DOMAIN results |-> value[x]],
         \A x \in DOMAIN results : results[x] = {value[x]}
  PROVE  Whole(results) = {value}
<1>1. ~ \E x \in DOMAIN results : results[x] = {}
  OBVIOUS
<1>2. Whole(results) = {[x \in DOMAIN results |-> CHOOSE v \in results[x] : TRUE]}
  BY <1>1 DEF Whole
<1>3. \A x \in DOMAIN results : (CHOOSE v \in results[x] : TRUE) = value[x]
  OBVIOUS
<1>4. [x \in DOMAIN results |-> CHOOSE v \in results[x] : TRUE]
        = [x \in DOMAIN results |-> value[x]]
  BY <1>3
<1> QED BY <1>2, <1>4

\* A float is read as itself, unless it is infinite.
LEMMA FloatRoundTrips ==
  ASSUME NEW kind, kind.shape \in {"float", "double"}, NEW slot,
         NEW value, Typed(kind, value)
  PROVE  Assign(kind, slot, Json(kind, value)) = {Printed(kind, value)}
<1> DEFINE Cast(x) == IF kind.shape = "float" THEN Narrow(x) ELSE x
<1>1. \A item : Assign(kind, slot, item) = {Cast(x) : x \in Doubles(item)}
  BY DEF Assign, Simple
<1>2. /\ Json(kind, value) = Float(value)
      /\ Printed(kind, value) = IF value.finite THEN value ELSE NaN
  BY DEF Json, Printed, Lists
<1>3. /\ IsFloat(Exact(kind), value)
      /\ kind.shape = "float" /\ value.finite => Magnitude(value.value) <= FLOAT_MAX
  BY DEF Typed, Lists, Exact
<1>4. CASE ~value.finite
  <2>1. Doubles(Float(value)) = {NaN}
    BY <1>4 DEF Float, Doubles, Null
  <2>2. Cast(NaN) = NaN
    BY DEF Narrow, NaN
  <2> HIDE DEF Cast
  <2> QED BY <1>1, <1>2, <1>4, <2>1, <2>2
<1>5. CASE value.finite
  <2> DEFINE n == value.value
             R == Representable(Exact(kind))
  <2>1. value = Finite(n) /\ n \in Int /\ R[Magnitude(n)]
    BY <1>3, <1>5 DEF IsFloat, NaN, Infinite
  <2> HIDE DEF n, R
  <2>2. Magnitude(n) \in Nat
    BY <2>1 DEF Magnitude
  <2>3. Representable(DOUBLE_EXACT)[Magnitude(n)]
    <3>1. kind.shape = "double" => Exact(kind) = DOUBLE_EXACT
      BY DEF Exact
    <3>2. kind.shape = "float" => Exact(kind) = FLOAT_EXACT
      BY DEF Exact
    <3> QED BY <2>1, <2>2, <3>1, <3>2, Widths, WiderRepresentable DEF R
  <2>4. Rounded(DOUBLE_EXACT, n) = n
    BY <2>1, <2>3, Widths, RoundedNearest
  <2>5. Doubles(Float(value)) = {Finite(n)}
    <3>1. Float(value).json = "number" /\ Float(value).value = n
      BY <1>5 DEF Float, Number, n
    <3> HIDE DEF Cast
    <3> QED BY <2>4, <3>1 DEF Doubles
  <2>6. Cast(Finite(n)) = Finite(n)
    <3>1. CASE kind.shape = "float"
      <4>1. Exact(kind) = FLOAT_EXACT
        BY <3>1 DEF Exact
      <4>2. Rounded(FLOAT_EXACT, n) = n
        BY <2>1, <4>1, Widths, RoundedNearest DEF R
      <4>3. ~(Magnitude(n) > FLOAT_MAX)
        BY <1>3, <1>5, <2>2, <3>1, Widths DEF n
      <4>4. Finite(n).finite /\ Finite(n).value = n
        BY DEF Finite
      <4>5. Narrow(Finite(n)) = Finite(n)
        BY <4>2, <4>3, <4>4 DEF Narrow
      <4> QED BY <3>1, <4>5
    <3> QED BY <3>1
  <2> HIDE DEF Cast
  <2> QED BY <1>1, <1>2, <1>5, <2>1, <2>5, <2>6
<1> QED BY <1>4, <1>5

\* A value that is not a whole.
LEMMA SimpleRoundTrips ==
  ASSUME NEW kind \in Kinds, kind.shape \notin Lists \cup {"message"}
  PROVE  RoundTrips(kind)
<1> SUFFICES ASSUME NEW slot, NEW value, NEW levels,
                    Typed(kind, value), Encodable(kind, value, levels)
             PROVE  Assign(kind, slot, Json(kind, value)) = {Printed(kind, value)}
  BY DEF RoundTrips
<1>0. kind.shape \in {"integer", "float", "double", "long double", "boolean", "string"}
  BY KindAssumption DEF Shapes, Lists
<1>1. CASE kind.shape = "integer"
  <2>1. value \in kind.low..kind.high /\ Printed(kind, value) = value
    BY <1>1 DEF Typed, Printed, Lists
  <2>2. value \in -INT64_MAGNITUDE..UINT64_MAX
    BY <1>1, <2>1, KindAssumption
  <2>3. Json(kind, value) = [json |-> "number", integral |-> TRUE, value |-> value]
    BY <1>1, <2>2 DEF Json, Number
  <2>4. Integers(kind, Json(kind, value)) = {value}
    BY <2>1, <2>3 DEF Integers
  <2> QED BY <1>1, <2>1, <2>4 DEF Assign, Simple
<1>2. CASE kind.shape \in {"float", "double"}
  BY <1>2, FloatRoundTrips
<1>3. CASE kind.shape = "boolean"
  <2>1. Json(kind, value) = [json |-> "boolean", flag |-> value]
    BY <1>3 DEF Json
  <2>2. Json(kind, value).json = "boolean" /\ Json(kind, value).flag = value
    BY <2>1
  <2>3. Printed(kind, value) = value
    BY <1>3 DEF Printed, Lists
  <2> QED BY <1>3, <2>2, <2>3 DEF Assign, Simple
<1>4. CASE kind.shape = "string"
  <2>1. Json(kind, value) = [json |-> "string", text |-> value]
    BY <1>4 DEF Json
  <2>2. Json(kind, value).json = "string" /\ Json(kind, value).text = value
    BY <2>1
  <2>3. Printed(kind, value) = value /\ Len(value) <= kind.bound
    BY <1>4 DEF Printed, Typed, Lists
  <2> QED BY <1>4, <2>2, <2>3 DEF Assign, Simple
<1>5. CASE kind.shape = "long double"
  BY <1>5 DEF Encodable
<1> QED BY <1>0, <1>1, <1>2, <1>3, <1>4, <1>5

\* A list, if its elements do.
LEMMA ListRoundTrips ==
  ASSUME DecodingClosed, NEW kind \in Kinds, kind.shape \in Lists, RoundTripsPart(kind.of)
  PROVE  RoundTrips(kind)
<1> SUFFICES ASSUME NEW slot, NEW value, NEW levels, Typed(kind, slot),
                    Typed(kind, value), Encodable(kind, value, levels)
             PROVE  Assign(kind, slot, Json(kind, value)) = {Printed(kind, value)}
  BY DEF RoundTrips
<1> DEFINE item == Json(kind, value)
           printed == Printed(kind, value)
           slots == IF kind.shape = "array" THEN slot ELSE Reset(kind.of, item)
           results == [i \in DOMAIN item.items |->
                         AssignPart(kind.of, slots[i], item.items[i])]
<1>1. /\ IsSequence(value) /\ \A i \in DOMAIN value : TypedPart(kind.of, value[i])
      /\ kind.shape = "array" => Len(value) = Len(kind.default)
      /\ kind.shape = "bounded sequence" => Len(value) <= kind.bound
  BY DEF Typed, Lists
<1>2. /\ kind.of.shape # "long double"
      /\ \A i \in DOMAIN value : EncodablePart(kind.of, value[i], levels)
  BY DEF Encodable, Lists
<1>3. item = [json |-> "array", items |-> [i \in DOMAIN value |-> JsonPart(kind.of, value[i])]]
  BY DEF Json, Lists
<1>4. printed = [i \in DOMAIN value |-> PrintedPart(kind.of, value[i])]
  BY DEF Printed, Lists
<1> HIDE DEF item, printed
<1>5. /\ item.json = "array" /\ DOMAIN item.items = DOMAIN value
      /\ item.items = [i \in DOMAIN value |-> item.items[i]]
      /\ \A i \in DOMAIN value : item.items[i] = JsonPart(kind.of, value[i])
  BY <1>3
<1>6. Len(item.items) = Len(value) /\ DOMAIN value = 1..Len(value)
  BY <1>1, <1>5, AsLong
<1>7. kind.shape = "array" =>
        /\ Len(slot) = Len(value) /\ DOMAIN slot = DOMAIN value
        /\ \A i \in DOMAIN slot : TypedPart(kind.of, slot[i])
  <2> SUFFICES ASSUME kind.shape = "array"
               PROVE  /\ Len(slot) = Len(value) /\ DOMAIN slot = DOMAIN value
                      /\ \A i \in DOMAIN slot : TypedPart(kind.of, slot[i])
    OBVIOUS
  <2>1. /\ IsSequence(slot) /\ Len(slot) = Len(kind.default)
        /\ \A i \in DOMAIN slot : TypedPart(kind.of, slot[i])
    BY DEF Typed, Lists
  <2>2. DOMAIN slot = 1..Len(slot)
    BY <2>1 DEF IsSequence
  <2> QED BY <1>1, <1>6, <2>1, <2>2
<1>8. TypedPart(kind.of, kind.of.default)
  <2>1. kind.of \in Kinds
    BY PartKindsOf
  <2>2. Typed(kind.of, kind.of.default)
    BY <2>1, KindAssumption
  <2> QED BY <2>1, <2>2 DEF DecodingClosed
<1>9. \A i \in DOMAIN value : TypedPart(kind.of, slots[i])
  BY <1>5, <1>7, <1>8 DEF Reset
<1>10. Assign(kind, slot, item) = Elements(kind.of, item, slots)
  <2>1. CASE kind.shape = "array"
    BY <1>5, <1>6, <1>7, <2>1 DEF Assign, Array
  <2>2. CASE kind.shape = "sequence"
    BY <1>5, <2>2 DEF Assign, Sequence
  <2>3. CASE kind.shape = "bounded sequence"
    BY <1>1, <1>5, <1>6, <2>3 DEF Assign, BoundedSequence
  <2> QED BY <2>1, <2>2, <2>3 DEF Lists
<1>11. Elements(kind.of, item, slots) = Whole(results)
  BY <1>2 DEF Elements
<1>12. DOMAIN results = DOMAIN value
  BY <1>5
<1> HIDE DEF slots
<1>13. \A i \in DOMAIN value :
         AssignPart(kind.of, slots[i], JsonPart(kind.of, value[i]))
           = {PrintedPart(kind.of, value[i])}
  BY <1>1, <1>2, <1>9 DEF RoundTripsPart
<1>14. \A i \in DOMAIN value : results[i] = {printed[i]}
  BY <1>4, <1>5, <1>13
<1>15. printed = [i \in DOMAIN value |-> printed[i]]
  BY <1>4
<1> HIDE DEF results
<1>16. Whole(results) = {printed}
  BY <1>12, <1>14, <1>15, WholeOfSingles
<1> QED BY <1>10, <1>11, <1>16 DEF item, printed

\* A message, if its fields do.
LEMMA MessageRoundTrips ==
  ASSUME DecodingClosed, NEW kind \in Kinds, kind.shape = "message",
         \A name \in DOMAIN kind.fields : RoundTripsPart(kind.fields[name])
  PROVE  RoundTrips(kind)
<1> SUFFICES ASSUME NEW slot, NEW value, NEW levels, Typed(kind, slot),
                    Typed(kind, value), Encodable(kind, value, levels)
             PROVE  Assign(kind, slot, Json(kind, value)) = {Printed(kind, value)}
  BY DEF RoundTrips
<1> DEFINE item == Json(kind, value)
           printed == Printed(kind, value)
           results == [name \in DOMAIN kind.fields |->
                         IF name \in DOMAIN item.members
                         THEN AssignPart(kind.fields[name], slot[name], item.members[name])
                         ELSE {slot[name]}]
<1>1. /\ DOMAIN value = DOMAIN kind.fields
      /\ \A name \in DOMAIN value : TypedPart(kind.fields[name], value[name])
  BY DEF Typed, Lists
<1>2. \A name \in DOMAIN kind.fields : TypedPart(kind.fields[name], slot[name])
  BY DEF Typed, Lists
<1>3. \A name \in DOMAIN value : EncodablePart(kind.fields[name], value[name], levels - 1)
  BY DEF Encodable, Lists
<1>4. item = [json |-> "object",
              members |-> [name \in DOMAIN value |-> JsonPart(kind.fields[name], value[name])]]
  BY DEF Json, Lists
<1>5. printed = [name \in DOMAIN value |-> PrintedPart(kind.fields[name], value[name])]
  BY DEF Printed, Lists
<1> HIDE DEF item, printed
<1>6. /\ item.json = "object" /\ DOMAIN item.members = DOMAIN kind.fields
      /\ \A name \in DOMAIN kind.fields :
           item.members[name] = JsonPart(kind.fields[name], value[name])
  BY <1>1, <1>4
<1>7. Assign(kind, slot, item) = Whole(results)
  BY <1>6 DEF Assign, Simple, Message, Known
<1>8. ASSUME NEW name \in DOMAIN kind.fields
      PROVE  results[name] = {printed[name]}
  <2>1. AssignPart(kind.fields[name], slot[name], JsonPart(kind.fields[name], value[name]))
          = {PrintedPart(kind.fields[name], value[name])}
    BY <1>1, <1>2, <1>3 DEF RoundTripsPart
  <2> QED BY <1>1, <1>5, <1>6, <2>1
<1>9. DOMAIN results = DOMAIN kind.fields
  OBVIOUS
<1>10. printed = [name \in DOMAIN kind.fields |-> printed[name]]
  BY <1>1, <1>5
<1> HIDE DEF results
<1>11. Whole(results) = {printed}
  BY <1>8, <1>9, <1>10, WholeOfSingles
<1> QED BY <1>7, <1>11 DEF item, printed

\* Publishing a payload sends the sample it was made of, but for infinities: for
\* every type, whatever its slot holds before.
THEOREM EveryValueRoundTrips ==
  ASSUME EncodingClosed, DecodingClosed
  PROVE  \A kind \in Kinds : RoundTrips(kind)
<1> DEFINE S == {kind \in Kinds : RoundTrips(kind)}
<1>1. ASSUME NEW kind \in Kinds, PartKinds(kind) \subseteq S PROVE kind \in S
  <2>1. ASSUME NEW part \in PartKinds(kind) PROVE RoundTripsPart(part)
    <3>1. part \in Kinds /\ RoundTrips(part)
      BY <1>1
    <3>2. /\ \A value : /\ TypedPart(part, value) <=> Typed(part, value)
                        /\ JsonPart(part, value) = Json(part, value)
                        /\ PrintedPart(part, value) = Printed(part, value)
          /\ \A value, levels :
               EncodablePart(part, value, levels) <=> Encodable(part, value, levels)
          /\ \A slot, item : AssignPart(part, slot, item) = Assign(part, slot, item)
      BY <3>1 DEF EncodingClosed, DecodingClosed
    <3> SUFFICES ASSUME NEW slot, NEW value, NEW levels, TypedPart(part, slot),
                        TypedPart(part, value), EncodablePart(part, value, levels)
                 PROVE  AssignPart(part, slot, JsonPart(part, value))
                          = {PrintedPart(part, value)}
      BY DEF RoundTripsPart
    <3>3. Assign(part, slot, Json(part, value)) = {Printed(part, value)}
      BY <3>1, <3>2 DEF RoundTrips
    <3> QED BY <3>2, <3>3
  <2>2. CASE kind.shape \in Lists
    BY <2>1, <2>2, PartKindsOf, ListRoundTrips
  <2>3. CASE kind.shape = "message"
    BY <2>1, <2>3, PartKindsOf, MessageRoundTrips
  <2>4. CASE kind.shape \notin Lists \cup {"message"}
    BY <2>4, SimpleRoundTrips
  <2> QED BY <2>2, <2>3, <2>4
<1>2. Kinds \subseteq S
  <2> HIDE DEF S
  <2> QED BY <1>1, KindInduction
<1> QED BY <1>2

\* The payload of a sample is its whole text, if that fits and can be written.
LEMMA PayloadSize ==
  ASSUME EncodingClosed, DecodingClosed, NEW kind \in Kinds, NEW value, Typed(kind, value)
  PROVE  /\ Bytes(kind, value) \in Nat
         /\ Payload(kind, value) =
              IF /\ ENVELOPE + Bytes(kind, value) + 1 <= LIMIT
                 /\ Encodable(kind, value, NESTING + 1)
              THEN {ENVELOPE + Bytes(kind, value) + 1} ELSE {}
<1> DEFINE b == Bytes(kind, value)
           start == Push({0}, ENVELOPE)
<1>1. /\ LIMIT \in Nat /\ ENVELOPE \in Nat /\ NESTING \in Nat
      /\ 0 \in 0..(NESTING + 1) /\ NESTING + 1 - 0 = NESTING + 1
  BY SizeAssumption
<1>2. {0} \in Outputs
  BY <1>1 DEF Outputs
<1>3. start \in Outputs
  BY <1>1, <1>2, PushType
<1>4. b \in Nat /\ \A out \in Outputs :
        Write(out, kind, value, 0) =
          IF Encodable(kind, value, NESTING + 1 - 0) THEN Push(out, b) ELSE {}
  BY <1>1, WrittenWhenFits DEF WritesWhole
<1> HIDE DEF b
<1>5. Push(Push(start, b), 1) = Push({0}, ENVELOPE + b + 1)
  <2>1. Push(start, b) = Push({0}, ENVELOPE + b)
    BY <1>1, <1>2, <1>4, PushPush
  <2> DEFINE both == ENVELOPE + b
  <2>2. both \in Nat
    BY <1>1, <1>4
  <2> HIDE DEF both
  <2>3. Push(Push({0}, both), 1) = Push({0}, both + 1)
    BY <1>2, <2>2, PushPush
  <2> QED BY <2>1, <2>3 DEF both
<1>6. Push({0}, ENVELOPE + b + 1) =
        IF ENVELOPE + b + 1 <= LIMIT THEN {ENVELOPE + b + 1} ELSE {}
  <2> DEFINE all == ENVELOPE + b + 1
  <2>1. all \in Nat
    BY <1>1, <1>4
  <2> HIDE DEF all
  <2>2. Push({0}, all) = IF all <= LIMIT THEN {all} ELSE {}
    BY <1>1, <2>1 DEF Push
  <2> QED BY <2>2 DEF all
<1>7. Push({}, 1) = {}
  BY DEF Push
<1>8. Payload(kind, value) = Push(Write(start, kind, value, 0), 1)
  BY DEF Payload
<1> HIDE DEF start
<1> QED BY <1>1, <1>3, <1>4, <1>5, <1>6, <1>7, <1>8 DEF b
=============================================================================
