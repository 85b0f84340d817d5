----------------------- MODULE ReferenceAnswersProofs -----------------------
(***************************************************************************)
(* The loops of ReferenceAnswers return the numbers they are asked for.    *)
(* First, why a recursive function is what its equation says (Recursion:   *)
(* its step looks only at arguments of a smaller measure), then one part   *)
(* of mathematics for each problem: doubling, rule 110 by cases, divisors  *)
(* and the sieve, Möbius values prime by prime, and placements row by row. *)
(* LoopInv says what the accumulators are at each turn, and one lemma per  *)
(* action shows that the action keeps it.                                  *)
(***************************************************************************)
EXTENDS ReferenceAnswers, FiniteSetTheorems, SequenceTheorems, WellFoundedInduction, TLAPS

-----------------------------------------------------------------------------
(* Induction and recursion *)

\* The order of the naturals is well founded.
LEMMA NaturalOrder == IsWellFoundedOn({q \in Nat \X Nat : q[1] < q[2]}, Nat)
BY NatLessThanWellFounded DEF OpToRel

\* Induction on the naturals, stated with a set of good ones.
LEMMA Induction ==
  ASSUME NEW Good,
         \A n \in Nat : (\A m \in 0 .. n - 1 : m \in Good) => n \in Good
  PROVE  \A n \in Nat : n \in Good
<1> DEFINE Bad == {n \in Nat : n \notin Good}
           R == {q \in Nat \X Nat : q[1] < q[2]}
<1> SUFFICES ASSUME Bad # {}
             PROVE  FALSE
  OBVIOUS
<1>1. PICK n \in Bad : \A m \in Bad : ~(<<m, n>> \in R)
  <2>1. IsWellFoundedOn(R, Nat)
    BY NaturalOrder
  <2>2. Bad \subseteq Nat
    OBVIOUS
  <2> HIDE DEF Bad, R
  <2> QED
    BY <2>1, <2>2, WFMin
<1>2. ASSUME NEW m \in 0 .. n - 1
      PROVE  m \in Good
  <2>1. m \in Nat /\ n \in Nat /\ m < n
    OBVIOUS
  <2>2. <<m, n>> \in R
    BY <2>1
  <2> QED
    BY <1>1, <2>1, <2>2
<1> QED
  BY <1>2

LEMMA Predecessor == \A n \in Nat : n # 0 => n - 1 \in Nat /\ n - 1 \in 0 .. n - 1
OBVIOUS

\* The step G looks at a function only where the measure is smaller.
LooksBelow(D, S, mu, G) ==
  \A x \in D : \A f, g \in [D -> S] :
    (\A y \in D : mu[y] < mu[x] => f[y] = g[y]) => G[<<x, f>>] = G[<<x, g>>]

IsRecursion(D, S, mu, G) ==
  /\ S # {} /\ mu \in [D -> Nat] /\ G \in [D \X [D -> S] -> S]
  /\ LooksBelow(D, S, mu, G)

IsSolvable(D, S, G) == \E f \in [D -> S] : \A x \in D : f[x] = G[<<x, f>>]

\* Then it is the recursion equation of some function.
LEMMA Recursion ==
  ASSUME NEW D, NEW S, NEW mu, NEW G, IsRecursion(D, S, mu, G)
  PROVE  IsSolvable(D, S, G)
<1> S # {} /\ mu \in [D -> Nat] /\ G \in [D \X [D -> S] -> S] /\ LooksBelow(D, S, mu, G)
  BY DEF IsRecursion
<1> DEFINE Below(f, n) == \A x \in D : mu[x] < n => f[x] = G[<<x, f>>]
<1>1. ASSUME NEW f \in [D -> S], NEW g \in [D -> S], NEW n \in Nat, Below(f, n), Below(g, n)
      PROVE  \A x \in D : mu[x] < n => f[x] = g[x]
  <2> DEFINE Good == {i \in Nat : \A x \in D : mu[x] = i /\ i < n => f[x] = g[x]}
  <2>1. ASSUME NEW i \in Nat, \A j \in 0 .. i - 1 : j \in Good
        PROVE  i \in Good
    <3>1. ASSUME NEW x \in D, mu[x] = i, i < n
          PROVE  f[x] = g[x]
      <4>1. ASSUME NEW y \in D, mu[y] < i
            PROVE  f[y] = g[y]
        BY <2>1, <3>1, <4>1
      <4>2. G[<<x, f>>] = G[<<x, g>>]
        BY <3>1, <4>1 DEF LooksBelow
      <4> QED
        BY <1>1, <3>1, <4>2
    <3> QED
      BY <3>1
  <2>2. \A i \in Nat : i \in Good
    <3> HIDE DEF Good
    <3> QED
      BY <2>1, Induction
  <2> QED
    BY <2>2
<1>2. \A n \in Nat : \E f \in [D -> S] : Below(f, n)
  <2> DEFINE Good == {n \in Nat : \E f \in [D -> S] : Below(f, n)}
  <2>1. ASSUME NEW n \in Nat, \A m \in 0 .. n - 1 : m \in Good
        PROVE  n \in Good
    <3>1. CASE n = 0
      <4>1. PICK s \in S : TRUE
        OBVIOUS
      <4>2. [x \in D |-> s] \in [D -> S] /\ Below([x \in D |-> s], n)
        BY <3>1
      <4> QED
        BY <4>2
    <3>2. CASE n # 0
      <4>0. n - 1 \in Nat /\ n - 1 \in 0 .. n - 1
        BY <3>2, Predecessor
      <4>1. PICK f \in [D -> S] : Below(f, n - 1)
        BY <2>1, <4>0
      <4> DEFINE h == [x \in D |-> G[<<x, f>>]]
      <4>2. h \in [D -> S]
        OBVIOUS
      <4>3. ASSUME NEW x \in D, mu[x] < n
            PROVE  h[x] = G[<<x, h>>]
        <5>1. \A y \in D : mu[y] < mu[x] => h[y] = f[y]
          BY <4>1, <4>3
        <5>2. G[<<x, h>>] = G[<<x, f>>]
          <6> HIDE DEF h
          <6> QED
            BY <4>2, <5>1 DEF LooksBelow
        <5> QED
          BY <5>2
      <4> HIDE DEF h
      <4> QED
        BY <4>2, <4>3
    <3> QED
      BY <3>1, <3>2
  <2>2. \A n \in Nat : n \in Good
    <3> HIDE DEF Good
    <3> QED
      BY <2>1, Induction
  <2> QED
    BY <2>2
<1>3. PICK F \in [Nat -> [D -> S]] : \A n \in Nat : Below(F[n], n)
  <2> DEFINE F == [n \in Nat |-> CHOOSE f \in [D -> S] : Below(f, n)]
  <2>1. \A n \in Nat : F[n] \in [D -> S] /\ Below(F[n], n)
    <3> HIDE DEF Below
    <3> QED
      BY <1>2
  <2>2. F \in [Nat -> [D -> S]]
    BY <2>1
  <2> HIDE DEF F
  <2> QED
    BY <2>1, <2>2
<1> DEFINE h == [x \in D |-> F[mu[x] + 1][x]]
<1>4. h \in [D -> S]
  <2>1. ASSUME NEW x \in D
        PROVE  F[mu[x] + 1][x] \in S
    <3>1. mu[x] + 1 \in Nat
      OBVIOUS
    <3> QED
      BY <3>1
  <2> QED
    BY <2>1
<1>5. ASSUME NEW x \in D
      PROVE  h[x] = G[<<x, h>>]
  <2>0. mu[x] \in Nat /\ mu[x] + 1 \in Nat
    OBVIOUS
  <2> DEFINE n == mu[x] + 1
  <2>1. PICK f \in [D -> S] : f = F[n] /\ Below(f, n)
    BY <1>3, <2>0
  <2>2. ASSUME NEW y \in D, mu[y] < mu[x]
        PROVE  h[y] = f[y]
    <3>0. mu[y] \in Nat /\ mu[y] + 1 \in Nat
      OBVIOUS
    <3> DEFINE m == mu[y] + 1
    <3>1. PICK g \in [D -> S] : g = F[m] /\ Below(g, m)
      BY <1>3, <3>0
    <3>2. Below(f, m) /\ mu[y] < m
      <4>1. mu[y] < m /\ \A z \in D : mu[z] < m => mu[z] < n
        <5> \A z \in D : mu[z] \in Nat
          OBVIOUS
        <5> QED
          BY <2>0, <2>2, <3>0
      <4> HIDE DEF m, n, h
      <4> QED
        BY <2>1, <4>1
    <3>3. h[y] = g[y]
      BY <3>0, <3>1
    <3> HIDE DEF h, Below, m, n
    <3>4. \A z \in D : mu[z] < m => g[z] = f[z]
      BY <1>1, <3>0, <3>1, <3>2 DEF m
    <3> QED
      BY <3>2, <3>3, <3>4
  <2>3. f[x] = G[<<x, f>>]
    <3>1. mu[x] < n
      BY <2>0
    <3> HIDE DEF n, h
    <3> QED
      BY <2>1, <3>1
  <2>3a. h[x] = f[x]
    BY <2>1
  <2> HIDE DEF h
  <2>4. G[<<x, h>>] = G[<<x, f>>]
    BY <1>4, <2>1, <2>2 DEF LooksBelow
  <2> QED
    BY <2>3, <2>3a, <2>4
<1> HIDE DEF h
<1> QED
  BY <1>4, <1>5 DEF IsSolvable

-----------------------------------------------------------------------------
(* The functions that give the answers their meaning *)

FibStep(n, f) == IF n < 2 THEN n ELSE f[n - 1] + f[n - 2]
FibEquation(f) == f = [n \in Nat |-> FibStep(n, f)]

LEMMA FibUnfolds == Fib = CHOOSE f : FibEquation(f)
BY DEF Fib, FibEquation, FibStep

LEMMA FibFacts == Fib \in [Nat -> Nat] /\ \A n \in Nat : Fib[n] = FibStep(n, Fib)
<1> DEFINE G == [q \in Nat \X [Nat -> Nat] |-> FibStep(q[1], q[2])]
           mu == [n \in Nat |-> n]
<1>1. ASSUME NEW n \in Nat, NEW f \in [Nat -> Nat]
      PROVE  FibStep(n, f) \in Nat
  BY DEF FibStep
<1>2. G \in [Nat \X [Nat -> Nat] -> Nat]
  BY <1>1
<1>3. LooksBelow(Nat, Nat, mu, G)
  BY DEF LooksBelow, FibStep
<1>4. IsSolvable(Nat, Nat, G)
  <2>1. IsRecursion(Nat, Nat, mu, G)
    BY <1>2, <1>3 DEF IsRecursion
  <2> HIDE DEF mu, G
  <2> QED
    BY <2>1, Recursion
<1>5. PICK f \in [Nat -> Nat] : \A n \in Nat : f[n] = FibStep(n, f)
  BY <1>4 DEF IsSolvable
<1>6. FibEquation(f)
  BY <1>5 DEF FibEquation
<1>7. FibEquation(Fib)
  BY <1>6, FibUnfolds
<1>8. \A n \in Nat : Fib[n] = FibStep(n, Fib)
  BY <1>7 DEF FibEquation
<1>9. \A n \in Nat : n \in {i \in Nat : Fib[i] = f[i]}
  <2> DEFINE Good == {i \in Nat : Fib[i] = f[i]}
  <2>1. ASSUME NEW n \in Nat, \A m \in 0 .. n - 1 : m \in Good
        PROVE  n \in Good
    <3>1. CASE n < 2
      BY <3>1, <1>5, <1>8 DEF FibStep
    <3>2. CASE n >= 2
      <4>1. Fib[n - 1] = f[n - 1] /\ Fib[n - 2] = f[n - 2]
        BY <2>1, <3>2
      <4> QED
        BY <3>2, <4>1, <1>5, <1>8 DEF FibStep
    <3> QED
      BY <3>1, <3>2
  <2> HIDE DEF Good
  <2>2. \A n \in Nat : n \in Good
    BY <2>1, Induction
  <2> QED
    BY <2>2 DEF Good
<1>10. Fib = f
  <2>1. Fib = [n \in Nat |-> FibStep(n, Fib)]
    BY <1>7 DEF FibEquation
  <2>2. \A n \in Nat : FibStep(n, Fib) = f[n]
    BY <1>8, <1>9
  <2> QED
    BY <2>1, <2>2
<1> QED
  BY <1>8, <1>10

WaysStep(n, m, f) ==
  IF n = 0 THEN 1
  ELSE IF m = 0 THEN 0
  ELSE f[<<n, m - 1>>] + IF m <= n THEN f[<<n - m, m>>] ELSE 0
WaysEquation(f) == f = [q \in Nat \X Nat |-> WaysStep(q[1], q[2], f)]

LEMMA WaysUnfolds == Ways = CHOOSE f : WaysEquation(f)
BY DEF Ways, WaysEquation, WaysStep

\* The arguments Ways looks at have a smaller sum.
AgreeBelow(f, g, s) == \A i, j \in Nat : i + j < s => f[<<i, j>>] = g[<<i, j>>]

LEMMA WaysLooksBelow ==
  ASSUME NEW n \in Nat, NEW m \in Nat, NEW f, NEW g, AgreeBelow(f, g, n + m)
  PROVE  WaysStep(n, m, f) = WaysStep(n, m, g)
<1>1. n # 0 /\ m # 0 => f[<<n, m - 1>>] = g[<<n, m - 1>>]
  <2>1. m # 0 => m - 1 \in Nat /\ n + (m - 1) < n + m
    OBVIOUS
  <2> QED
    BY <2>1 DEF AgreeBelow
<1>2. n # 0 /\ m # 0 /\ m <= n => f[<<n - m, m>>] = g[<<n - m, m>>]
  <2>1. m # 0 /\ m <= n => n - m \in Nat /\ (n - m) + m < n + m
    OBVIOUS
  <2> QED
    BY <2>1 DEF AgreeBelow
<1> QED
  BY <1>1, <1>2 DEF WaysStep

LEMMA WaysFacts ==
  /\ Ways \in [Nat \X Nat -> Nat]
  /\ \A n, m \in Nat : Ways[<<n, m>>] = WaysStep(n, m, Ways)
<1> DEFINE D == Nat \X Nat
           G == [q \in D \X [D -> Nat] |-> WaysStep(q[1][1], q[1][2], q[2])]
           mu == [x \in D |-> x[1] + x[2]]
<1>1. ASSUME NEW n \in Nat, NEW m \in Nat, NEW f \in [D -> Nat]
      PROVE  WaysStep(n, m, f) \in Nat
  <2>1. m # 0 => f[<<n, m - 1>>] \in Nat
    <3>1. m # 0 => m - 1 \in Nat
      OBVIOUS
    <3> QED
      BY <3>1
  <2>2. m <= n => f[<<n - m, m>>] \in Nat
    <3>1. m <= n => n - m \in Nat
      OBVIOUS
    <3> QED
      BY <3>1
  <2> QED
    BY <2>1, <2>2 DEF WaysStep
<1>2. G \in [D \X [D -> Nat] -> Nat]
  <2>1. ASSUME NEW q \in D \X [D -> Nat]
        PROVE  WaysStep(q[1][1], q[1][2], q[2]) \in Nat
    BY <1>1
  <2> QED
    BY <2>1
<1>3. LooksBelow(D, Nat, mu, G)
  <2>1. ASSUME NEW x \in D, NEW f \in [D -> Nat], NEW g \in [D -> Nat],
               \A y \in D : mu[y] < mu[x] => f[y] = g[y]
        PROVE  G[<<x, f>>] = G[<<x, g>>]
    <3>1. x[1] \in Nat /\ x[2] \in Nat /\ mu[x] = x[1] + x[2]
      OBVIOUS
    <3>2. ASSUME NEW i \in Nat, NEW j \in Nat, i + j < x[1] + x[2]
          PROVE  f[<<i, j>>] = g[<<i, j>>]
      <4>1. <<i, j>> \in D /\ mu[<<i, j>>] = i + j
        OBVIOUS
      <4> QED
        BY <2>1, <3>1, <3>2, <4>1
    <3>3. WaysStep(x[1], x[2], f) = WaysStep(x[1], x[2], g)
      <4>1. AgreeBelow(f, g, x[1] + x[2])
        BY <3>2 DEF AgreeBelow
      <4> QED
        BY <3>1, <4>1, WaysLooksBelow
    <3> QED
      BY <3>3
  <2> QED
    BY <2>1 DEF LooksBelow
<1>4. IsSolvable(D, Nat, G)
  <2>1. IsRecursion(D, Nat, mu, G)
    <3> mu \in [D -> Nat]
      OBVIOUS
    <3> HIDE DEF mu, G, D
    <3> QED
      BY <1>2, <1>3 DEF IsRecursion
  <2> HIDE DEF mu, G, D
  <2> QED
    BY <2>1, Recursion
<1>5. PICK f \in [D -> Nat] : \A x \in D : f[x] = G[<<x, f>>]
  BY <1>4 DEF IsSolvable
<1>5a. \A n, m \in Nat : f[<<n, m>>] = WaysStep(n, m, f)
  BY <1>5
<1>6. WaysEquation(f)
  <2>1. \A x \in D : f[x] = WaysStep(x[1], x[2], f)
    BY <1>5
  <2> QED
    BY <2>1 DEF WaysEquation
<1>7. WaysEquation(Ways)
  BY <1>6, WaysUnfolds
<1>8. \A x \in D : Ways[x] = WaysStep(x[1], x[2], Ways)
  BY <1>7 DEF WaysEquation
<1>8a. \A n, m \in Nat : Ways[<<n, m>>] = WaysStep(n, m, Ways)
  BY <1>8
<1>9. \A n, m \in Nat : Ways[<<n, m>>] = f[<<n, m>>]
  <2> DEFINE Good == {j \in Nat : \A n, m \in Nat : n + m = j => Ways[<<n, m>>] = f[<<n, m>>]}
  <2>1. ASSUME NEW i \in Nat, \A j \in 0 .. i - 1 : j \in Good
        PROVE  i \in Good
    <3>1. ASSUME NEW n \in Nat, NEW m \in Nat, n + m = i
          PROVE  Ways[<<n, m>>] = f[<<n, m>>]
      <4>1. ASSUME NEW a \in Nat, NEW b \in Nat, a + b < n + m
            PROVE  Ways[<<a, b>>] = f[<<a, b>>]
        <5>1. a + b \in 0 .. i - 1
          BY <3>1, <4>1
        <5> QED
          BY <2>1, <5>1
      <4>2. WaysStep(n, m, Ways) = WaysStep(n, m, f)
        <5>1. AgreeBelow(Ways, f, n + m)
          BY <4>1 DEF AgreeBelow
        <5> QED
          BY <5>1, WaysLooksBelow
      <4> QED
        BY <1>5a, <1>8a, <4>2
    <3> QED
      BY <3>1
  <2> HIDE DEF Good
  <2>2. \A i \in Nat : i \in Good
    BY <2>1, Induction
  <2>3. ASSUME NEW n \in Nat, NEW m \in Nat
        PROVE  Ways[<<n, m>>] = f[<<n, m>>]
    <3>1. n + m \in Good
      BY <2>2
    <3> QED
      BY <3>1 DEF Good
  <2> QED
    BY <2>3
<1>10. Ways = f
  <2>1. DOMAIN Ways = D /\ Ways = [x \in D |-> Ways[x]]
    BY <1>7 DEF WaysEquation
  <2>2. \A x \in D : Ways[x] = f[x]
    BY <1>9
  <2> HIDE DEF D
  <2> QED
    BY <2>1, <2>2
<1> QED
  BY <1>8a, <1>10

PowerStep(n, f) == IF n = 0 THEN 1 ELSE 2 * f[n - 1]
PowerEquation(f) == f = [n \in Nat |-> PowerStep(n, f)]

LEMMA PowerUnfolds == Power = CHOOSE f : PowerEquation(f)
BY DEF Power, PowerEquation, PowerStep

LEMMA PowerFacts == \A n \in Nat : Power[n] = PowerStep(n, Power)
<1> DEFINE G == [q \in Nat \X [Nat -> Nat] |-> PowerStep(q[1], q[2])]
           mu == [n \in Nat |-> n]
<1>1. ASSUME NEW n \in Nat, NEW f \in [Nat -> Nat]
      PROVE  PowerStep(n, f) \in Nat
  BY DEF PowerStep
<1>2. G \in [Nat \X [Nat -> Nat] -> Nat]
  BY <1>1
<1>3. LooksBelow(Nat, Nat, mu, G)
  BY DEF LooksBelow, PowerStep
<1>4. IsSolvable(Nat, Nat, G)
  <2>1. IsRecursion(Nat, Nat, mu, G)
    BY <1>2, <1>3 DEF IsRecursion
  <2> HIDE DEF mu, G
  <2> QED
    BY <2>1, Recursion
<1>5. PICK f \in [Nat -> Nat] : \A n \in Nat : f[n] = PowerStep(n, f)
  BY <1>4 DEF IsSolvable
<1>6. PowerEquation(f)
  BY <1>5 DEF PowerEquation
<1>7. PowerEquation(Power)
  BY <1>6, PowerUnfolds
<1> QED
  BY <1>7 DEF PowerEquation

BitsStep(n, f) == IF n < 2 THEN <<n>> ELSE Append(f[n \div 2], n % 2)
BitsEquation(f) == f = [n \in Nat |-> BitsStep(n, f)]

LEMMA BitsUnfolds == Bits = CHOOSE f : BitsEquation(f)
BY DEF Bits, BitsEquation, BitsStep

LEMMA Halves ==
  \A n \in Nat : n >= 2 =>
    n \div 2 \in Nat /\ n \div 2 \in 0 .. n - 1 /\ n % 2 \in {0, 1} /\ n = 2 * (n \div 2) + (n % 2)
OBVIOUS

LEMMA BitsEquations == \A n \in Nat : Bits[n] = BitsStep(n, Bits)
<1> DEFINE S == Seq({0, 1})
           G == [q \in Nat \X [Nat -> S] |-> BitsStep(q[1], q[2])]
           mu == [n \in Nat |-> n]
<1>1. ASSUME NEW n \in Nat, NEW f \in [Nat -> S]
      PROVE  BitsStep(n, f) \in S
  <2>1. CASE n < 2
    <3>1. n \in {0, 1}
      BY <2>1
    <3> QED
      BY <2>1, <3>1 DEF BitsStep
  <2>2. CASE n >= 2
    <3>1. f[n \div 2] \in S /\ n % 2 \in {0, 1}
      BY <2>2, Halves
    <3>2. Append(f[n \div 2], n % 2) \in S
      BY <3>1, AppendProperties
    <3> QED
      BY <2>2, <3>2 DEF BitsStep
  <2> QED
    BY <2>1, <2>2
<1>2. G \in [Nat \X [Nat -> S] -> S]
  <2> HIDE DEF S
  <2> QED
    BY <1>1
<1>3. LooksBelow(Nat, S, mu, G)
  <2> HIDE DEF S
  <2>1. ASSUME NEW n \in Nat, NEW f \in [Nat -> S], NEW g \in [Nat -> S],
               \A i \in Nat : mu[i] < mu[n] => f[i] = g[i]
        PROVE  BitsStep(n, f) = BitsStep(n, g)
    <3>1. n >= 2 => f[n \div 2] = g[n \div 2]
      BY <2>1, Halves
    <3> QED
      BY <3>1 DEF BitsStep
  <2> QED
    BY <2>1 DEF LooksBelow
<1>4. IsSolvable(Nat, S, G)
  <2>1. IsRecursion(Nat, S, mu, G)
    <3>1. mu \in [Nat -> Nat]
      OBVIOUS
    <3>2. S # {}
      <4>1. <<>> \in S
        OBVIOUS
      <4> QED
        BY <4>1
    <3> HIDE DEF mu, G, S
    <3> QED
      BY <1>2, <1>3, <3>1, <3>2 DEF IsRecursion
  <2> HIDE DEF mu, G, S
  <2> QED
    BY <2>1, Recursion
<1>5. PICK f \in [Nat -> S] : \A n \in Nat : f[n] = BitsStep(n, f)
  <2> HIDE DEF S
  <2>1. PICK f \in [Nat -> S] : \A n \in Nat : f[n] = G[<<n, f>>]
    BY <1>4 DEF IsSolvable
  <2> QED
    BY <2>1
<1>6. BitsEquation(f)
  BY <1>5 DEF BitsEquation
<1>7. BitsEquation(Bits)
  BY <1>6, BitsUnfolds
<1> QED
  BY <1>7 DEF BitsEquation

\* The number each prefix of n's bits spells, up to n itself.
Prefixes(n, pre) ==
  /\ pre \in [0 .. Len(Bits[n]) -> Nat]
  /\ pre[0] = 0
  /\ \A i \in 1 .. Len(Bits[n]) : Bits[n][i] \in {0, 1} /\ pre[i] = 2 * pre[i - 1] + Bits[n][i]
  /\ pre[Len(Bits[n])] = n

LEMMA BitsFacts == \A n \in Nat : Bits[n] \in Seq({0, 1}) /\ \E pre : Prefixes(n, pre)
<1> DEFINE Good == {n \in Nat : Bits[n] \in Seq({0, 1}) /\ \E pre : Prefixes(n, pre)}
<1>1. ASSUME NEW n \in Nat, \A m \in 0 .. n - 1 : m \in Good
      PROVE  n \in Good
  <2>0. Bits[n] = BitsStep(n, Bits)
    BY BitsEquations
  <2>1. CASE n < 2
    <3>1. n \in {0, 1} /\ Bits[n] = <<n>>
      BY <2>0, <2>1 DEF BitsStep
    <3> DEFINE pre == [i \in 0 .. 1 |-> IF i = 0 THEN 0 ELSE n]
    <3>2. Bits[n] \in Seq({0, 1}) /\ Len(Bits[n]) = 1 /\ Bits[n][1] = n
      BY <3>1
    <3>3. Prefixes(n, pre)
      BY <3>1, <3>2 DEF Prefixes
    <3> QED
      BY <3>2, <3>3
  <2>2. CASE n >= 2
    <3> DEFINE h == n \div 2
               b == n % 2
               l == Len(Bits[h])
    <3>1. h \in Nat /\ h \in Good /\ b \in {0, 1} /\ n = 2 * h + b
      BY <1>1, <2>2, Halves
    <3>2. Bits[n] = Append(Bits[h], b)
      BY <2>0, <2>2 DEF BitsStep
    <3> HIDE DEF h, b
    <3>3. PICK pre : Prefixes(h, pre)
      BY <3>1
    <3>4. Bits[h] \in Seq({0, 1})
      BY <3>1
    <3>5. l \in Nat
      BY <3>4
    <3>6. /\ Bits[n] \in Seq({0, 1}) /\ Len(Bits[n]) = l + 1 /\ Bits[n][l + 1] = b
          /\ \A i \in 1 .. l : Bits[n][i] = Bits[h][i]
      BY <3>1, <3>2, <3>4, AppendProperties
    <3> DEFINE new == [i \in 0 .. l + 1 |-> IF i <= l THEN pre[i] ELSE n]
    <3>7. /\ pre \in [0 .. l -> Nat] /\ pre[0] = 0 /\ pre[l] = h
          /\ \A i \in 1 .. l : Bits[h][i] \in {0, 1} /\ pre[i] = 2 * pre[i - 1] + Bits[h][i]
      BY <3>3 DEF Prefixes
    <3> HIDE DEF l
    <3>8. new \in [0 .. l + 1 -> Nat] /\ new[0] = 0 /\ new[l + 1] = n
      BY <3>5, <3>7
    <3>9. ASSUME NEW i \in 1 .. l + 1
          PROVE  Bits[n][i] \in {0, 1} /\ new[i] = 2 * new[i - 1] + Bits[n][i]
      <4>1. CASE i = l + 1
        <5>1. i - 1 = l /\ i \in 0 .. l + 1 /\ i - 1 \in 0 .. l + 1
          BY <3>5, <4>1
        <5> QED
          BY <3>1, <3>5, <3>6, <3>7, <4>1, <5>1
      <4>2. CASE i # l + 1
        <5>1. i \in 1 .. l /\ i - 1 \in 0 .. l /\ i \in 0 .. l + 1 /\ i - 1 \in 0 .. l + 1 /\ i <= l /\ i - 1 <= l
          BY <3>5, <4>2
        <5> QED
          BY <3>6, <3>7, <5>1
      <4> QED
        BY <4>1, <4>2
    <3>10. Prefixes(n, new)
      <4> HIDE DEF new
      <4> QED
        BY <3>6, <3>8, <3>9 DEF Prefixes
    <3> QED
      BY <3>6, <3>10
  <2> QED
    BY <2>1, <2>2
<1> HIDE DEF Good
<1>2. \A n \in Nat : n \in Good
  BY <1>1, Induction
<1> QED
  BY <1>2 DEF Good

-----------------------------------------------------------------------------
(* Fibonacci numbers: the two identities of the doubling *)

LEMMA FibNext == \A n \in Nat : Fib[n] \in Nat /\ Fib[n + 2] = Fib[n + 1] + Fib[n]
<1>1. ASSUME NEW n \in Nat
      PROVE  Fib[n] \in Nat /\ Fib[n + 2] = Fib[n + 1] + Fib[n]
  <2>1. Fib[n] \in Nat
    BY FibFacts
  <2>2. Fib[n + 2] = FibStep(n + 2, Fib)
    BY FibFacts
  <2>3. ~(n + 2 < 2) /\ (n + 2) - 1 = n + 1 /\ (n + 2) - 2 = n
    OBVIOUS
  <2> QED
    BY <2>1, <2>2, <2>3 DEF FibStep
<1> QED
  BY <1>1

LEMMA FibSmall == Fib[0] = 0 /\ Fib[1] = 1
BY FibFacts DEF FibStep

LEMMA DoublingAlgebra ==
  ASSUME NEW a \in Int, NEW b \in Int, NEW even \in Int, NEW odd \in Int,
         even = a * (2 * b - a), odd = a * a + b * b
  PROVE  /\ odd + even = b * (2 * (b + a) - b)
         /\ (odd + even) + odd = b * b + (b + a) * (b + a)
OBVIOUS

Doubles(p) ==
  /\ Fib[2 * p] = Fib[p] * (2 * Fib[p + 1] - Fib[p])
  /\ Fib[2 * p + 1] = Fib[p] * Fib[p] + Fib[p + 1] * Fib[p + 1]

LEMMA Doubling == \A p \in Nat : Doubles(p)
<1> DEFINE Good == {p \in Nat : Doubles(p)}
<1>1. ASSUME NEW p \in Nat, \A m \in 0 .. p - 1 : m \in Good
      PROVE  p \in Good
  <2>1. CASE p = 0
    BY <2>1, FibSmall DEF Doubles
  <2>2. CASE p # 0
    <3>1. PICK q \in Nat : p = q + 1 /\ q \in Good
      <4>1. p - 1 \in Nat /\ p - 1 \in 0 .. p - 1 /\ p = (p - 1) + 1
        BY <2>2, Predecessor
      <4> QED
        BY <1>1, <4>1
    <3> DEFINE a == Fib[q]
               b == Fib[q + 1]
    <3>2. /\ a \in Nat /\ b \in Nat /\ Fib[q + 2] = b + a
          /\ Fib[2 * q] \in Nat /\ Fib[2 * q + 1] \in Nat
      BY FibNext
    <3>3. Fib[2 * q] = a * (2 * b - a) /\ Fib[2 * q + 1] = a * a + b * b
      BY <3>1 DEF Doubles
    <3>4. Fib[2 * q + 2] = Fib[2 * q + 1] + Fib[2 * q]
      BY FibNext
    <3>5. Fib[2 * q + 3] = Fib[2 * q + 2] + Fib[2 * q + 1]
      <4>1. 2 * q + 1 \in Nat /\ (2 * q + 1) + 2 = 2 * q + 3 /\ (2 * q + 1) + 1 = 2 * q + 2
        OBVIOUS
      <4> QED
        BY <4>1, FibNext
    <3>6. /\ Fib[2 * q + 2] = b * (2 * (b + a) - b)
          /\ Fib[2 * q + 3] = b * b + (b + a) * (b + a)
      <4> HIDE DEF a, b
      <4> QED
        BY <3>2, <3>3, <3>4, <3>5, DoublingAlgebra
    <3>7. 2 * p = 2 * q + 2 /\ 2 * p + 1 = 2 * q + 3 /\ p + 1 = q + 2
      BY <3>1
    <3> QED
      BY <3>1, <3>2, <3>6, <3>7 DEF Doubles
  <2> QED
    BY <2>1, <2>2
<1> HIDE DEF Good
<1>2. \A p \in Nat : p \in Good
  BY <1>1, Induction
<1> QED
  BY <1>2 DEF Good

\* One turn of the loop appends a bit to the number of the pair.
LEMMA DoubledIsRight ==
  ASSUME NEW p \in Nat, NEW bit \in {0, 1}
  PROVE  Doubled(Fib[p], Fib[p + 1], bit) = <<Fib[2 * p + bit], Fib[2 * p + bit + 1]>>
<1>1. Doubles(p)
  BY Doubling
<1>2. Fib[2 * p + 2] = Fib[2 * p + 1] + Fib[2 * p] /\ Fib[2 * p] \in Nat /\ Fib[2 * p + 1] \in Nat
  BY FibNext
<1>3. CASE bit = 0
  BY <1>1, <1>3 DEF Doubled, Doubles
<1>4. CASE bit = 1
  <2>1. 2 * p + bit = 2 * p + 1 /\ 2 * p + bit + 1 = 2 * p + 2 /\ bit # 0
    BY <1>4
  <2>2. Fib[2 * p] + Fib[2 * p + 1] = Fib[2 * p + 1] + Fib[2 * p]
    BY <1>2
  <2> QED
    BY <1>1, <1>2, <2>1, <2>2 DEF Doubled, Doubles
<1> QED
  BY <1>3, <1>4

-----------------------------------------------------------------------------
(* Cells *)

After(row, t, f) ==
  IF t = 0 THEN row
  ELSE [i \in 1 .. Len(row) |->
          Rule110Table(f[t - 1][(((i - 1) - 1) % Len(row)) + 1], f[t - 1][i],
                       f[t - 1][(((i + 1) - 1) % Len(row)) + 1])]
CellsEquation(row, f) == f = [t \in Nat |-> After(row, t, f)]

LEMMA CellsUnfold == ASSUME NEW row PROVE Cells(row) = CHOOSE f : CellsEquation(row, f)
BY DEF Cells, CellsEquation, After

LEMMA CellsFacts ==
  ASSUME NEW row \in Seq(BOOLEAN), row # <<>>
  PROVE  /\ \A t \in Nat : Cells(row)[t] = After(row, t, Cells(row))
         /\ \A t \in Nat : Cells(row)[t] \in [1 .. Len(row) -> BOOLEAN]
<1> DEFINE S == [1 .. Len(row) -> BOOLEAN]
           G == [q \in Nat \X [Nat -> S] |-> After(row, q[1], q[2])]
           mu == [t \in Nat |-> t]
<1>0. row \in S
  OBVIOUS
<1>1. ASSUME NEW t \in Nat, NEW f
      PROVE  After(row, t, f) \in S
  <2>1. ASSUME NEW l, NEW c, NEW r
        PROVE  Rule110Table(l, c, r) \in BOOLEAN
    BY DEF Rule110Table
  <2>2. t # 0 => After(row, t, f) \in S
    BY <2>1 DEF After
  <2> QED
    BY <1>0, <2>2 DEF After
<1> HIDE DEF S
<1>2. G \in [Nat \X [Nat -> S] -> S]
  BY <1>1
<1>3. LooksBelow(Nat, S, mu, G)
  <2>1. ASSUME NEW t \in Nat, NEW f \in [Nat -> S], NEW g \in [Nat -> S],
               \A i \in Nat : mu[i] < mu[t] => f[i] = g[i]
        PROVE  After(row, t, f) = After(row, t, g)
    <3>1. t # 0 => f[t - 1] = g[t - 1]
      BY <2>1
    <3> QED
      BY <3>1 DEF After
  <2> QED
    BY <2>1 DEF LooksBelow
<1>4. IsSolvable(Nat, S, G)
  <2>1. IsRecursion(Nat, S, mu, G)
    <3>1. mu \in [Nat -> Nat]
      OBVIOUS
    <3>2. S # {}
      BY <1>0
    <3> HIDE DEF mu, G
    <3> QED
      BY <1>2, <1>3, <3>1, <3>2 DEF IsRecursion
  <2> HIDE DEF mu, G
  <2> QED
    BY <2>1, Recursion
<1>5. PICK f \in [Nat -> S] : \A t \in Nat : f[t] = After(row, t, f)
  BY <1>4 DEF IsSolvable
<1>6. CellsEquation(row, f)
  BY <1>5 DEF CellsEquation
<1>7. CellsEquation(row, Cells(row))
  BY <1>6, CellsUnfold
<1>8. \A t \in Nat : Cells(row)[t] = After(row, t, Cells(row))
  BY <1>7 DEF CellsEquation
<1> QED
  BY <1>1, <1>8 DEF S

\* The three excluded neighbourhoods are the zeros of 110 in binary.
LEMMA Powers ==
  /\ Power[0] = 1 /\ Power[1] = 2 /\ Power[2] = 4 /\ Power[3] = 8
  /\ Power[4] = 16 /\ Power[5] = 32 /\ Power[6] = 64 /\ Power[7] = 128
BY PowerFacts DEF PowerStep

LEMMA BitsOf110 ==
  /\ 110 \div 1 = 110 /\ 110 \div 2 = 55 /\ 110 \div 4 = 27 /\ 110 \div 8 = 13
  /\ 110 \div 16 = 6 /\ 110 \div 32 = 3 /\ 110 \div 64 = 1 /\ 110 \div 128 = 0
  /\ 110 % 2 = 0 /\ 55 % 2 = 1 /\ 27 % 2 = 1 /\ 13 % 2 = 1
  /\ 6 % 2 = 0 /\ 3 % 2 = 1 /\ 1 % 2 = 1 /\ 0 % 2 = 0
OBVIOUS

LEMMA RuleByCases ==
  ASSUME NEW l \in BOOLEAN, NEW c \in BOOLEAN, NEW r \in BOOLEAN
  PROVE  Rule110(l, c, r) <=> ~ \/ l /\ c /\ r
                                \/ l /\ ~c /\ ~r
                                \/ ~l /\ ~c /\ ~r
BY DEF Rule110

LEMMA TableByCases ==
  /\ Rule110Table(TRUE, TRUE, TRUE) = FALSE
  /\ Rule110Table(TRUE, TRUE, FALSE) = TRUE
  /\ Rule110Table(TRUE, FALSE, TRUE) = TRUE
  /\ Rule110Table(TRUE, FALSE, FALSE) = FALSE
  /\ Rule110Table(FALSE, TRUE, TRUE) = TRUE
  /\ Rule110Table(FALSE, TRUE, FALSE) = TRUE
  /\ Rule110Table(FALSE, FALSE, TRUE) = TRUE
  /\ Rule110Table(FALSE, FALSE, FALSE) = FALSE
BY Powers, BitsOf110 DEF Rule110Table

LEMMA RuleIsItsTable ==
  ASSUME NEW l \in BOOLEAN, NEW c \in BOOLEAN, NEW r \in BOOLEAN
  PROVE  Rule110(l, c, r) = Rule110Table(l, c, r)
<1>1. Rule110(l, c, r) <=> Rule110Table(l, c, r)
  <2>1. CASE l /\ c /\ r
    BY <2>1, RuleByCases, TableByCases
  <2>2. CASE l /\ c /\ ~r
    BY <2>2, RuleByCases, TableByCases
  <2>3. CASE l /\ ~c /\ r
    BY <2>3, RuleByCases, TableByCases
  <2>4. CASE l /\ ~c /\ ~r
    BY <2>4, RuleByCases, TableByCases
  <2>5. CASE ~l /\ c /\ r
    BY <2>5, RuleByCases, TableByCases
  <2>6. CASE ~l /\ c /\ ~r
    BY <2>6, RuleByCases, TableByCases
  <2>7. CASE ~l /\ ~c /\ r
    BY <2>7, RuleByCases, TableByCases
  <2>8. CASE ~l /\ ~c /\ ~r
    BY <2>8, RuleByCases, TableByCases
  <2> QED
    BY <2>1, <2>2, <2>3, <2>4, <2>5, <2>6, <2>7, <2>8
<1>2. Rule110(l, c, r) \in BOOLEAN /\ Rule110Table(l, c, r) \in BOOLEAN
  BY DEF Rule110, Rule110Table
<1> QED
  BY <1>1, <1>2

-----------------------------------------------------------------------------
(* Divisors and primes *)

LEMMA DividesIff ==
  ASSUME NEW d \in Nat, d # 0, NEW n \in Nat
  PROVE  Divides(d, n) <=> \E q \in Nat : n = d * q
<1>1. n = d * (n \div d) + (n % d) /\ n \div d \in Nat
  OBVIOUS
<1>2. Divides(d, n) => \E q \in Nat : n = d * q
  BY <1>1 DEF Divides
<1>3. ASSUME NEW q \in Nat, n = d * q
      PROVE  n % d = 0
  BY <1>3
<1> QED
  BY <1>2, <1>3 DEF Divides

LEMMA DividesTransitively ==
  ASSUME NEW a \in Nat, a # 0, NEW b \in Nat, b # 0, NEW c \in Nat,
         Divides(a, b), Divides(b, c)
  PROVE  Divides(a, c)
<1>1. PICK q \in Nat : b = a * q
  BY DividesIff
<1>2. PICK r \in Nat : c = b * r
  BY DividesIff
<1>3. c = a * (q * r) /\ q * r \in Nat
  BY <1>1, <1>2
<1> QED
  BY <1>3, DividesIff

LEMMA DivisorBound ==
  ASSUME NEW d \in Nat, d # 0, NEW n \in Nat, n # 0, Divides(d, n)
  PROVE  d <= n
<1>1. PICK q \in Nat : n = d * q
  BY DividesIff
<1> QED
  BY <1>1

\* Of two factors of a number the smaller one is at most its square root.
LEMMA SmallDivisor ==
  ASSUME NEW m \in Nat, m >= 2, NEW e \in 2 .. m - 1, Divides(e, m)
  PROVE  \E d \in 2 .. m - 1 : d * d <= m /\ Divides(d, m)
<1>1. PICK q \in Nat : m = e * q
  BY DividesIff
<1>2. q >= 2 /\ q <= m - 1
  BY <1>1
<1>3. m = q * e /\ Divides(q, m)
  BY <1>1, <1>2, DividesIff
<1>4. e <= q => e * e <= e * q
  BY <1>1
<1>5. q <= e => q * q <= q * e
  BY <1>1
<1> QED
  BY <1>1, <1>2, <1>3, <1>4, <1>5

LEMMA PrimeFactor == \A d \in Nat : d >= 2 => \E p \in 2 .. d : IsPrime(p) /\ Divides(p, d)
<1> DEFINE Good == {d \in Nat : d >= 2 => \E p \in 2 .. d : IsPrime(p) /\ Divides(p, d)}
<1>1. ASSUME NEW d \in Nat, \A m \in 0 .. d - 1 : m \in Good
      PROVE  d \in Good
  <2> SUFFICES ASSUME d >= 2
               PROVE  \E p \in 2 .. d : IsPrime(p) /\ Divides(p, d)
    OBVIOUS
  <2>1. CASE IsPrime(d)
    <3>1. Divides(d, d)
      BY DEF Divides
    <3> QED
      BY <2>1, <3>1
  <2>2. CASE ~IsPrime(d)
    <3>1. PICK e \in 2 .. d - 1 : Divides(e, d)
      BY <2>2 DEF IsPrime
    <3>2. PICK p \in 2 .. e : IsPrime(p) /\ Divides(p, e)
      BY <1>1, <3>1
    <3>3. Divides(p, d)
      BY <3>1, <3>2, DividesTransitively
    <3> QED
      BY <3>2, <3>3
  <2> QED
    BY <2>1, <2>2
<1> HIDE DEF Good
<1>2. \A d \in Nat : d \in Good
  BY <1>1, Induction
<1> QED
  BY <1>2 DEF Good

\* What is not crossed out by the divisors below i.
SievedUpTo(primes, i, n) ==
  /\ primes \in [0 .. n -> BOOLEAN]
  /\ \A m \in 0 .. n : primes[m] <=> m >= 2 /\ \A d \in 2 .. i - 1 : d * d <= m => ~Divides(d, m)

LEMMA SieveBegins ==
  ASSUME NEW n \in Nat
  PROVE  SievedUpTo([m \in 0 .. n |-> m >= 2], 2, n)
<1> DEFINE primes == [m \in 0 .. n |-> m >= 2]
<1>1. primes \in [0 .. n -> BOOLEAN]
  <2>1. \A m \in 0 .. n : (m >= 2) \in BOOLEAN
    OBVIOUS
  <2> QED
    BY <2>1
<1>2. \A d \in 2 .. 2 - 1 : FALSE
  OBVIOUS
<1>3. \A m \in 0 .. n : primes[m] <=> m >= 2
  OBVIOUS
<1> HIDE DEF primes
<1>4. SievedUpTo(primes, 2, n)
  BY <1>1, <1>2, <1>3 DEF SievedUpTo
<1> QED
  BY <1>4 DEF primes

LEMMA SieveCrosses ==
  ASSUME NEW n \in Nat, NEW i \in 2 .. n, NEW primes, SievedUpTo(primes, i, n)
  PROVE  SievedUpTo([m \in 0 .. n |-> primes[m] /\ m \notin Multiples(i, n)], i + 1, n)
<1> DEFINE new == [m \in 0 .. n |-> primes[m] /\ m \notin Multiples(i, n)]
<1>1. new \in [0 .. n -> BOOLEAN]
  OBVIOUS
<1>2. ASSUME NEW m \in 0 .. n
      PROVE  new[m] <=> m >= 2 /\ \A d \in 2 .. (i + 1) - 1 : d * d <= m => ~Divides(d, m)
  <2>1. m \in Multiples(i, n) <=> i * i <= m /\ Divides(i, m)
    BY DEF Multiples, Divides
  <2>2. primes[m] <=> m >= 2 /\ \A d \in 2 .. i - 1 : d * d <= m => ~Divides(d, m)
    BY DEF SievedUpTo
  <2>3. 2 .. (i + 1) - 1 = (2 .. i - 1) \cup {i}
    OBVIOUS
  <2> QED
    BY <2>1, <2>2, <2>3
<1> HIDE DEF new
<1>3. SievedUpTo(new, i + 1, n)
  BY <1>1, <1>2 DEF SievedUpTo
<1> QED
  BY <1>3 DEF new

\* A number that is crossed out already has a smaller divisor that crossed out
\* its multiples too.
LEMMA SieveSkips ==
  ASSUME NEW n \in Nat, NEW i \in 2 .. n, NEW primes, SievedUpTo(primes, i, n), ~primes[i]
  PROVE  SievedUpTo(primes, i + 1, n)
<1>1. PICK e \in 2 .. i - 1 : e * e <= i /\ Divides(e, i)
  BY DEF SievedUpTo
<1>2. ASSUME NEW m \in 0 .. n, primes[m]
      PROVE  ~(i * i <= m /\ Divides(i, m))
  <2> SUFFICES ASSUME i * i <= m, Divides(i, m)
               PROVE  FALSE
    OBVIOUS
  <2>1. Divides(e, m)
    BY <1>1, DividesTransitively
  <2>2. e * e <= m
    <3>1. i <= i * i
      OBVIOUS
    <3>2. e * e \in Nat /\ i * i \in Nat
      OBVIOUS
    <3> QED
      BY <1>1, <3>1, <3>2
  <2> QED
    BY <1>2, <2>1, <2>2 DEF SievedUpTo
<1>3. 2 .. (i + 1) - 1 = (2 .. i - 1) \cup {i}
  OBVIOUS
<1> QED
  BY <1>2, <1>3 DEF SievedUpTo

LEMMA SieveEnds ==
  ASSUME NEW n \in Nat, NEW i \in Nat, i >= 2, i > n, NEW primes, SievedUpTo(primes, i, n)
  PROVE  \A m \in 0 .. n : primes[m] <=> IsPrime(m)
<1>1. ASSUME NEW m \in 0 .. n, IsPrime(m)
      PROVE  primes[m]
  <2>1. ASSUME NEW d \in 2 .. i - 1, d * d <= m
        PROVE  ~Divides(d, m)
    <3>1. d < d * d
      OBVIOUS
    <3>2. d \in 2 .. m - 1
      BY <2>1, <3>1
    <3> QED
      BY <1>1, <3>2 DEF IsPrime
  <2> QED
    BY <1>1, <2>1 DEF SievedUpTo, IsPrime
<1>2. ASSUME NEW m \in 0 .. n, primes[m]
      PROVE  IsPrime(m)
  <2>1. m >= 2
    BY <1>2 DEF SievedUpTo
  <2>2. ASSUME NEW e \in 2 .. m - 1, Divides(e, m)
        PROVE  FALSE
    <3>1. PICK d \in 2 .. m - 1 : d * d <= m /\ Divides(d, m)
      BY <2>1, <2>2, SmallDivisor
    <3>2. d \in 2 .. i - 1
      BY <3>1
    <3> QED
      BY <1>2, <3>1, <3>2 DEF SievedUpTo
  <2> QED
    BY <2>1, <2>2 DEF IsPrime
<1> QED
  BY <1>1, <1>2

-----------------------------------------------------------------------------
(* Möbius values *)

PrimeDivisors(i, m) == {p \in 2 .. i : IsPrime(p) /\ Divides(p, m)}

\* What mu[m] is after the primes up to i.
MoebiusUpTo(i, m) ==
  IF \E p \in 2 .. i : IsPrime(p) /\ Divides(p * p, m) THEN 0
  ELSE IF Cardinality(PrimeDivisors(i, m)) % 2 = 0 THEN 1 ELSE -1

LEMMA PrimeDivisorsFinite ==
  ASSUME NEW i \in Nat, NEW m
  PROVE  IsFiniteSet(PrimeDivisors(i, m)) /\ Cardinality(PrimeDivisors(i, m)) \in Nat
<1>1. IsFiniteSet(2 .. i)
  BY FS_Interval
<1>2. PrimeDivisors(i, m) \in SUBSET (2 .. i)
  BY DEF PrimeDivisors
<1>3. IsFiniteSet(PrimeDivisors(i, m))
  BY <1>1, <1>2, FS_Subset
<1> QED
  BY <1>3, FS_CardinalityType

LEMMA MoebiusBegins ==
  ASSUME NEW m
  PROVE  MoebiusUpTo(1, m) = 1
<1>1. PrimeDivisors(1, m) = {}
  BY DEF PrimeDivisors
<1>2. Cardinality(PrimeDivisors(1, m)) = 0
  BY <1>1, FS_EmptySet
<1>3. 0 % 2 = 0
  OBVIOUS
<1>4. ~ \E p \in 2 .. 1 : IsPrime(p) /\ Divides(p * p, m)
  OBVIOUS
<1> QED
  BY <1>2, <1>3, <1>4 DEF MoebiusUpTo

LEMMA Parity == \A c \in Nat : (c + 1) % 2 = 0 <=> ~(c % 2 = 0)
OBVIOUS

\* The next prime changes the sign of its multiples and clears those of its square.
LEMMA MoebiusStep ==
  ASSUME NEW i \in Nat, NEW p \in Nat, p > i, i >= 1, IsPrime(p),
         \A q \in i + 1 .. p - 1 : ~IsPrime(q), NEW m \in Nat
  PROVE  MoebiusUpTo(p, m) =
           IF m % p # 0 THEN MoebiusUpTo(i, m)
           ELSE IF m % (p * p) = 0 THEN 0 ELSE -MoebiusUpTo(i, m)
<1>0. p >= 2 /\ p * p \in Nat /\ p * p # 0
  BY DEF IsPrime
<1>1. Divides(p * p, m) => Divides(p, m)
  <2>1. Divides(p, p * p)
    BY <1>0, DividesIff
  <2> QED
    BY <1>0, <2>1, DividesTransitively
<1>2. \A q \in 2 .. p : IsPrime(q) => q \in 2 .. i \/ q = p
  OBVIOUS
<1>3. \A q \in 2 .. i : q \in 2 .. p
  OBVIOUS
<1>4. (\E q \in 2 .. p : IsPrime(q) /\ Divides(q * q, m))
        <=> (\E q \in 2 .. i : IsPrime(q) /\ Divides(q * q, m)) \/ Divides(p * p, m)
  <2>1. p \in 2 .. p
    BY <1>0
  <2> QED
    BY <1>2, <1>3, <2>1
<1>5. CASE ~Divides(p, m)
  <2>1. PrimeDivisors(p, m) = PrimeDivisors(i, m)
    BY <1>2, <1>3, <1>5 DEF PrimeDivisors
  <2> QED
    BY <1>1, <1>4, <1>5, <2>1 DEF MoebiusUpTo, Divides
<1>6. CASE Divides(p, m)
  <2>1. PrimeDivisors(p, m) = PrimeDivisors(i, m) \cup {p} /\ p \notin PrimeDivisors(i, m)
    <3>1. p \in 2 .. p /\ p \notin 2 .. i
      BY <1>0
    <3> QED
      BY <1>2, <1>3, <1>6, <3>1 DEF PrimeDivisors
  <2>2. Cardinality(PrimeDivisors(p, m)) = Cardinality(PrimeDivisors(i, m)) + 1
    BY <2>1, PrimeDivisorsFinite, FS_AddElement
  <2>3. Cardinality(PrimeDivisors(i, m)) \in Nat
    BY PrimeDivisorsFinite
  <2>4. Cardinality(PrimeDivisors(p, m)) % 2 = 0 <=> ~(Cardinality(PrimeDivisors(i, m)) % 2 = 0)
    BY <2>2, <2>3, Parity
  <2>5. CASE Divides(p * p, m)
    BY <1>4, <1>6, <2>5 DEF MoebiusUpTo, Divides
  <2>6. CASE ~Divides(p * p, m)
    <3>1. MoebiusUpTo(p, m) = -MoebiusUpTo(i, m)
      BY <1>4, <2>4, <2>6 DEF MoebiusUpTo
    <3> QED
      BY <1>6, <2>6, <3>1 DEF Divides
  <2> QED
    BY <2>5, <2>6
<1> QED
  BY <1>5, <1>6

\* After all primes up to n the values up to n are those of the Möbius function.
LEMMA MoebiusEnds ==
  ASSUME NEW n \in Nat, NEW i \in Nat, NEW m \in 1 .. n,
         \A q \in 2 .. n : IsPrime(q) => q <= i
  PROVE  MoebiusUpTo(i, m) = Moebius(m)
<1>1. ASSUME NEW p \in Nat, IsPrime(p), Divides(p, m)
      PROVE  p \in 2 .. m /\ p \in 2 .. i
  <2>1. p >= 2
    BY <1>1 DEF IsPrime
  <2>2. p <= m
    BY <1>1, <2>1, DivisorBound
  <2> QED
    BY <1>1, <2>1, <2>2
<1>2. PrimeDivisors(i, m) = {p \in 2 .. m : IsPrime(p) /\ Divides(p, m)}
  BY <1>1 DEF PrimeDivisors
<1>3. ASSUME NEW p \in 2 .. i, IsPrime(p), Divides(p * p, m)
      PROVE  p \in 2 .. m
  <2>1. Divides(p, p * p) /\ p * p \in Nat /\ p * p # 0
    BY DividesIff
  <2>2. Divides(p, m)
    BY <1>3, <2>1, DividesTransitively
  <2> QED
    BY <1>1, <1>3, <2>2
<1>4. ASSUME NEW d \in 2 .. m, Divides(d * d, m)
      PROVE  \E p \in 2 .. i : IsPrime(p) /\ Divides(p * p, m)
  <2>1. PICK p \in 2 .. d : IsPrime(p) /\ Divides(p, d)
    BY PrimeFactor
  <2>2. PICK q \in Nat : d = p * q
    BY <2>1, DividesIff
  <2>3. Divides(p * p, d * d)
    <3>1. d * d = (p * p) * (q * q) /\ q * q \in Nat /\ p * p \in Nat /\ p * p # 0 /\ d * d \in Nat
      BY <2>2
    <3> QED
      BY <3>1, DividesIff
  <2>4. Divides(p * p, m)
    <3>1. p * p \in Nat /\ p * p # 0 /\ d * d \in Nat /\ d * d # 0
      OBVIOUS
    <3> QED
      BY <1>4, <2>3, <3>1, DividesTransitively
  <2>5. p <= i
    BY <2>1
  <2> QED
    BY <2>1, <2>4, <2>5
<1>5. (\E p \in 2 .. i : IsPrime(p) /\ Divides(p * p, m)) <=> \E d \in 2 .. m : Divides(d * d, m)
  BY <1>3, <1>4
<1> QED
  BY <1>2, <1>5 DEF MoebiusUpTo, Moebius

-----------------------------------------------------------------------------
(* Placements: how those of one more row are made from those of the rows before *)

Row(t, i) == Ones(t.dimension, i - 1, t.draws[i])

PlacementsOf(t, r, mask) ==
  {f \in [1 .. r -> mask] :
     IsInjective(f) /\ Range(f) = mask /\ \A i \in 1 .. r : f[i] \in Row(t, i)}

LEMMA PlacementsOfTask == \A r, mask : Placements(r, mask) = PlacementsOf(task, r, mask)
BY DEF Placements, PlacementsOf, Row

\* The placements of i rows that come from one of `masks` by their last row.
Through(t, i, new, masks) == {f \in PlacementsOf(t, i, new) : new \ {f[i]} \in masks}

LEMMA NoRows ==
  ASSUME NEW t, NEW mask
  PROVE  PlacementsOf(t, 0, mask) = IF mask = {} THEN {<<>>} ELSE {}
<1>1. ASSUME NEW f \in PlacementsOf(t, 0, mask)
      PROVE  f = <<>> /\ mask = {}
  <2>1. f \in [1 .. 0 -> mask] /\ Range(f) = mask
    BY DEF PlacementsOf
  <2>2. 1 .. 0 = {}
    OBVIOUS
  <2>3. Range(f) = {}
    BY <2>1, <2>2 DEF Range
  <2>4. f \in Seq(mask) /\ Len(f) = 0
    BY <2>1
  <2> QED
    BY <2>1, <2>3, <2>4, EmptySeq
<1>2. ASSUME mask = {}
      PROVE  <<>> \in PlacementsOf(t, 0, mask)
  <2>1. <<>> \in [1 .. 0 -> mask] /\ DOMAIN <<>> = {}
    OBVIOUS
  <2>2. \A i \in 1 .. 0 : FALSE
    OBVIOUS
  <2> QED
    BY <1>2, <2>1, <2>2 DEF PlacementsOf, IsInjective, Range
<1> QED
  BY <1>1, <1>2

\* Without its last row a placement fills the other columns.
LEMMA LastRowOff ==
  ASSUME NEW t, NEW i \in Nat, i # 0, NEW new, NEW f \in PlacementsOf(t, i, new)
  PROVE  /\ f[i] \in new /\ f[i] \in Row(t, i)
         /\ [j \in 1 .. i - 1 |-> f[j]] \in PlacementsOf(t, i - 1, new \ {f[i]})
<1> DEFINE g == [j \in 1 .. i - 1 |-> f[j]]
<1>1. f \in [1 .. i -> new] /\ IsInjective(f) /\ Range(f) = new /\ \A j \in 1 .. i : f[j] \in Row(t, j)
  BY DEF PlacementsOf
<1>2. i \in 1 .. i /\ (\A j \in 1 .. i - 1 : j \in 1 .. i /\ j # i) /\ (\A j \in 1 .. i : j # i => j \in 1 .. i - 1)
  OBVIOUS
<1>3. DOMAIN f = 1 .. i /\ DOMAIN g = 1 .. i - 1 /\ \A j \in 1 .. i - 1 : g[j] = f[j]
  BY <1>1
<1>4. \A a, b \in 1 .. i : f[a] = f[b] => a = b
  BY <1>1, <1>3 DEF IsInjective
<1>5. g \in [1 .. i - 1 -> new \ {f[i]}]
  BY <1>1, <1>2, <1>4
<1> HIDE DEF g
<1>6. IsInjective(g)
  BY <1>2, <1>3, <1>4 DEF IsInjective
<1>7. Range(g) = new \ {f[i]}
  <2>1. ASSUME NEW x \in new \ {f[i]}
        PROVE  x \in Range(g)
    <3>1. PICK j \in 1 .. i : x = f[j]
      BY <1>1, <1>3 DEF Range
    <3>2. j \in 1 .. i - 1 /\ x = g[j]
      BY <1>2, <1>3, <2>1, <3>1
    <3> QED
      BY <1>3, <3>2 DEF Range
  <2>2. \A x \in Range(g) : x \in new \ {f[i]}
    BY <1>3, <1>5 DEF Range
  <2> QED
    BY <2>1, <2>2
<1>8. \A j \in 1 .. i - 1 : g[j] \in Row(t, j)
  BY <1>1, <1>2, <1>3
<1>9. g \in PlacementsOf(t, i - 1, new \ {f[i]})
  BY <1>5, <1>6, <1>7, <1>8 DEF PlacementsOf
<1> QED
  BY <1>1, <1>2, <1>9 DEF g

\* A free column of the next row extends a placement.
LEMMA RowOn ==
  ASSUME NEW t, NEW i \in Nat, i # 0, NEW mask, NEW c \in Fills(Row(t, i), mask),
         NEW g \in PlacementsOf(t, i - 1, mask)
  PROVE  [j \in 1 .. i |-> IF j = i THEN c ELSE g[j]] \in Through(t, i, mask \cup {c}, {mask})
<1> DEFINE f == [j \in 1 .. i |-> IF j = i THEN c ELSE g[j]]
           new == mask \cup {c}
<1>1. g \in [1 .. i - 1 -> mask] /\ IsInjective(g) /\ Range(g) = mask /\ \A j \in 1 .. i - 1 : g[j] \in Row(t, j)
  BY DEF PlacementsOf
<1>2. i \in 1 .. i /\ (\A j \in 1 .. i - 1 : j \in 1 .. i /\ j # i) /\ (\A j \in 1 .. i : j # i => j \in 1 .. i - 1)
  OBVIOUS
<1>3. c \in Row(t, i) /\ c \notin mask
  BY DEF Fills
<1>4. DOMAIN f = 1 .. i /\ DOMAIN g = 1 .. i - 1 /\ f[i] = c /\ \A j \in 1 .. i - 1 : f[j] = g[j]
  BY <1>1, <1>2
<1>5. f \in [1 .. i -> new]
  BY <1>1, <1>2
<1> HIDE DEF f
<1>6. IsInjective(f)
  <2>1. \A a, b \in 1 .. i - 1 : g[a] = g[b] => a = b
    BY <1>1, <1>4 DEF IsInjective
  <2>2. \A a \in 1 .. i - 1 : f[a] \in mask
    BY <1>1, <1>4
  <2>3. ASSUME NEW a \in 1 .. i, NEW b \in 1 .. i, f[a] = f[b]
        PROVE  a = b
    BY <1>2, <1>3, <1>4, <2>1, <2>2, <2>3
  <2> QED
    BY <1>4, <2>3 DEF IsInjective
<1>7. Range(f) = new
  <2>1. ASSUME NEW x \in mask
        PROVE  x \in Range(f)
    <3>1. PICK j \in 1 .. i - 1 : x = g[j]
      BY <1>1, <1>4 DEF Range
    <3> QED
      BY <1>2, <1>4, <3>1 DEF Range
  <2>2. c \in Range(f)
    BY <1>2, <1>4 DEF Range
  <2>3. \A x \in Range(f) : x \in new
    BY <1>4, <1>5 DEF Range
  <2> QED
    BY <2>1, <2>2, <2>3
<1>8. \A j \in 1 .. i : f[j] \in Row(t, j)
  BY <1>1, <1>2, <1>3, <1>4
<1>9. f \in PlacementsOf(t, i, new)
  BY <1>5, <1>6, <1>7, <1>8 DEF PlacementsOf
<1>10. new \ {f[i]} = mask
  BY <1>3, <1>4
<1>11. f \in Through(t, i, new, {mask})
  BY <1>9, <1>10 DEF Through
<1> QED
  BY <1>11 DEF f

\* One mask gives each of the masks it reaches as many placements as it has.
LEMMA ThroughOne ==
  ASSUME NEW t, NEW i \in Nat, i # 0, NEW mask, NEW c \in Fills(Row(t, i), mask),
         IsFiniteSet(PlacementsOf(t, i - 1, mask))
  PROVE  /\ IsFiniteSet(Through(t, i, mask \cup {c}, {mask}))
         /\ Cardinality(Through(t, i, mask \cup {c}, {mask})) = Cardinality(PlacementsOf(t, i - 1, mask))
<1> DEFINE A == PlacementsOf(t, i - 1, mask)
           B == Through(t, i, mask \cup {c}, {mask})
           h == [g \in A |-> [j \in 1 .. i |-> IF j = i THEN c ELSE g[j]]]
<1>0. c \notin mask /\ i \in 1 .. i
  BY DEF Fills
<1>1. h \in [A -> B]
  BY RowOn
<1>2. ASSUME NEW g \in A
      PROVE  g = [j \in 1 .. i - 1 |-> h[g][j]]
  <2>1. g \in [1 .. i - 1 -> mask] /\ \A j \in 1 .. i - 1 : j \in 1 .. i /\ j # i
    BY DEF PlacementsOf
  <2>2. \A j \in 1 .. i - 1 : h[g][j] = g[j]
    BY <2>1
  <2> QED
    BY <2>1, <2>2
<1>3. ASSUME NEW f \in B
      PROVE  \E g \in A : h[g] = f
  <2>1. f \in PlacementsOf(t, i, mask \cup {c}) /\ (mask \cup {c}) \ {f[i]} = mask
    BY DEF Through
  <2> DEFINE g == [j \in 1 .. i - 1 |-> f[j]]
  <2>2. f[i] \in mask \cup {c} /\ g \in A
    <3>1. g \in PlacementsOf(t, i - 1, (mask \cup {c}) \ {f[i]}) /\ f[i] \in mask \cup {c}
      BY <2>1, LastRowOff
    <3> HIDE DEF g
    <3> QED
      BY <2>1, <3>1
  <2>3. f[i] = c
    BY <1>0, <2>1, <2>2
  <2>4. f \in [1 .. i -> mask \cup {c}]
    BY <2>1 DEF PlacementsOf
  <2>5. \A j \in 1 .. i : j = i \/ j \in 1 .. i - 1
    OBVIOUS
  <2>6. f = [j \in 1 .. i |-> IF j = i THEN c ELSE g[j]]
    BY <2>3, <2>4, <2>5
  <2>7. h[g] = f
    BY <2>2, <2>6
  <2> QED
    BY <2>2, <2>7
<1> HIDE DEF h, A, B
<1>4. IsInjective(h)
  BY <1>1, <1>2 DEF IsInjective
<1>5. h \in Bijection(A, B)
  BY <1>1, <1>3, <1>4 DEF Bijection, Injection, Surjection
<1>6. ExistsBijection(A, B)
  BY <1>5 DEF ExistsBijection
<1>7. IsFiniteSet(A)
  BY DEF A
<1>8. IsFiniteSet(B) /\ Cardinality(B) = Cardinality(A)
  BY <1>6, <1>7, FS_Bijection
<1> QED
  BY <1>8 DEF A, B

\* And the masks it does not reach it gives none.
LEMMA ThroughNone ==
  ASSUME NEW t, NEW i \in Nat, i # 0, NEW mask, NEW new,
         \A c \in Fills(Row(t, i), mask) : new # mask \cup {c}
  PROVE  Through(t, i, new, {mask}) = {}
<1> SUFFICES ASSUME NEW f \in Through(t, i, new, {mask})
             PROVE  FALSE
  OBVIOUS
<1>1. f \in PlacementsOf(t, i, new) /\ new \ {f[i]} = mask
  BY DEF Through
<1>2. f[i] \in new /\ f[i] \in Row(t, i)
  BY <1>1, LastRowOff
<1>3. f[i] \in Fills(Row(t, i), mask) /\ new = mask \cup {f[i]}
  BY <1>1, <1>2 DEF Fills
<1> QED
  BY <1>3

\* count[new] is the number of placements that come from `masks`.
CountsThrough(count, t, i, masks) ==
  /\ \A new \in DOMAIN count :
       /\ IsFiniteSet(Through(t, i, new, masks))
       /\ count[new] = Cardinality(Through(t, i, new, masks))
  /\ \A new : new \notin DOMAIN count => Through(t, i, new, masks) = {}

Counts(count, t, i) ==
  /\ \A mask \in DOMAIN count :
       IsFiniteSet(PlacementsOf(t, i, mask)) /\ count[mask] = Cardinality(PlacementsOf(t, i, mask))
  /\ \A mask : mask \notin DOMAIN count => PlacementsOf(t, i, mask) = {}

LEMMA CountsBegin == ASSUME NEW t PROVE Counts([mask \in {{}} |-> 1], t, 0)
<1>1. ASSUME NEW mask \in {{}}
      PROVE  IsFiniteSet(PlacementsOf(t, 0, mask)) /\ Cardinality(PlacementsOf(t, 0, mask)) = 1
  <2>1. PlacementsOf(t, 0, mask) = {<<>>}
    BY NoRows
  <2> QED
    BY <2>1, FS_Singleton
<1>2. ASSUME NEW mask, mask \notin {{}}
      PROVE  PlacementsOf(t, 0, mask) = {}
  BY <1>2, NoRows
<1> QED
  BY <1>1, <1>2 DEF Counts

LEMMA CountsThroughBegin == ASSUME NEW t, NEW i PROVE CountsThrough([mask \in {} |-> 0], t, i, {})
BY DEF CountsThrough, Through

\* One more mask's count, for each of the masks that it reaches.
AddedTo(following, reached, extra) ==
  [new \in DOMAIN following \cup reached |->
     (IF new \in DOMAIN following THEN following[new] ELSE 0) + IF new \in reached THEN extra ELSE 0]

LEMMA CountsThroughStep ==
  ASSUME NEW t, NEW i \in Nat, i # 0, NEW states, Counts(states, t, i - 1),
         NEW mask \in DOMAIN states, NEW done, mask \notin done,
         NEW following, CountsThrough(following, t, i, done),
         NEW reached, reached = {mask \cup {c} : c \in Fills(Row(t, i), mask)}
  PROVE  CountsThrough(AddedTo(following, reached, states[mask]), t, i, done \cup {mask})
<1> DEFINE Get(new) == IF new \in DOMAIN following THEN following[new] ELSE 0
           More(new) == IF new \in reached THEN states[mask] ELSE 0
           count == [new \in DOMAIN following \cup reached |-> Get(new) + More(new)]
           Old(new) == Through(t, i, new, done)
           Extra(new) == Through(t, i, new, {mask})
<1>1. ASSUME NEW new
      PROVE  /\ Through(t, i, new, done \cup {mask}) = Old(new) \cup Extra(new)
             /\ Old(new) \cap Extra(new) = {}
  BY DEF Through
<1>2. ASSUME NEW new
      PROVE  IsFiniteSet(Old(new)) /\ Cardinality(Old(new)) = Get(new)
  <2>1. CASE new \in DOMAIN following
    BY <2>1 DEF CountsThrough
  <2>2. CASE new \notin DOMAIN following
    <3>1. Old(new) = {}
      BY <2>2 DEF CountsThrough
    <3> QED
      BY <2>2, <3>1, FS_EmptySet
  <2> QED
    BY <2>1, <2>2
<1>3. ASSUME NEW new
      PROVE  IsFiniteSet(Extra(new)) /\ Cardinality(Extra(new)) = More(new)
  <2>1. CASE new \in reached
    <3>1. PICK c \in Fills(Row(t, i), mask) : new = mask \cup {c}
      BY <2>1
    <3>2. IsFiniteSet(PlacementsOf(t, i - 1, mask)) /\ states[mask] = Cardinality(PlacementsOf(t, i - 1, mask))
      BY DEF Counts
    <3> QED
      BY <2>1, <3>1, <3>2, ThroughOne
  <2>2. CASE new \notin reached
    <3>1. \A c \in Fills(Row(t, i), mask) : new # mask \cup {c}
      BY <2>2
    <3>2. Extra(new) = {}
      BY <3>1, ThroughNone
    <3> QED
      BY <2>2, <3>2, FS_EmptySet
  <2> QED
    BY <2>1, <2>2
<1>4. ASSUME NEW new
      PROVE  /\ IsFiniteSet(Through(t, i, new, done \cup {mask}))
             /\ Cardinality(Through(t, i, new, done \cup {mask})) = Get(new) + More(new)
  <2> HIDE DEF Old, Extra, Get, More
  <2>1. IsFiniteSet(Old(new) \cup Extra(new))
        /\ Cardinality(Old(new) \cup Extra(new))
             = Cardinality(Old(new)) + Cardinality(Extra(new)) - Cardinality(Old(new) \cap Extra(new))
    BY <1>2, <1>3, FS_Union
  <2>2. Cardinality(Old(new) \cap Extra(new)) = 0
    BY <1>1, FS_EmptySet
  <2>3. Cardinality(Old(new)) \in Nat /\ Cardinality(Extra(new)) \in Nat
    BY <1>2, <1>3, FS_CardinalityType
  <2>4. Through(t, i, new, done \cup {mask}) = Old(new) \cup Extra(new)
    BY <1>1
  <2>5. Cardinality(Old(new)) = Get(new) /\ Cardinality(Extra(new)) = More(new)
    BY <1>2, <1>3
  <2>6. Cardinality(Old(new) \cup Extra(new)) = Get(new) + More(new)
    BY <2>1, <2>2, <2>3, <2>5
  <2> QED
    BY <2>1, <2>4, <2>6
<1>5. ASSUME NEW new, new \notin DOMAIN following \cup reached
      PROVE  Through(t, i, new, done \cup {mask}) = {}
  <2>1. Old(new) = {}
    BY <1>5 DEF CountsThrough
  <2>2. \A c \in Fills(Row(t, i), mask) : new # mask \cup {c}
    BY <1>5
  <2>3. Extra(new) = {}
    BY <2>2, ThroughNone
  <2> QED
    BY <1>1, <2>1, <2>3
<1>6. CountsThrough(count, t, i, done \cup {mask})
  <2>1. DOMAIN count = DOMAIN following \cup reached /\ \A new \in DOMAIN count : count[new] = Get(new) + More(new)
    OBVIOUS
  <2> HIDE DEF count, Get, More
  <2> QED
    BY <1>4, <1>5, <2>1 DEF CountsThrough
<1>7. count = AddedTo(following, reached, states[mask])
  BY DEF AddedTo
<1> HIDE DEF count
<1> QED
  BY <1>6, <1>7

LEMMA RowEnds ==
  ASSUME NEW t, NEW i \in Nat, i # 0, NEW states, Counts(states, t, i - 1),
         NEW following, CountsThrough(following, t, i, DOMAIN states)
  PROVE  Counts(following, t, i)
<1>1. ASSUME NEW new
      PROVE  Through(t, i, new, DOMAIN states) = PlacementsOf(t, i, new)
  <2>1. ASSUME NEW f \in PlacementsOf(t, i, new)
        PROVE  new \ {f[i]} \in DOMAIN states
    <3>1. PlacementsOf(t, i - 1, new \ {f[i]}) # {}
      BY LastRowOff
    <3> QED
      BY <3>1 DEF Counts
  <2> QED
    BY <2>1 DEF Through
<1> QED
  BY <1>1 DEF Counts, CountsThrough

-----------------------------------------------------------------------------
(* The invariant: what the accumulators are at each turn of each loop *)

FibInv(n, i, v) ==
  \E pre : /\ Prefixes(n, pre)
           /\ i \in 1 .. Len(Bits[n]) + 1
           /\ v = <<Fib[pre[i - 1]], Fib[pre[i - 1] + 1]>>

\* Totals below the current one count parts up to i, the others up to i - 1.
PartitionInv(n, i, v) ==
  /\ i \in 1 .. n + 1
  /\ v.total \in i .. n + 1 /\ (i <= n => v.total <= n)
  /\ v.counts \in [0 .. n -> Nat]
  /\ \A m \in 0 .. n : v.counts[m] = Ways[<<m, IF m < v.total THEN i ELSE i - 1>>]

SieveInv(n, i, v) ==
  /\ v = [primes |-> v.primes, mu |-> <<>>]
  /\ i \in Nat /\ i >= 2
  /\ SievedUpTo(v.primes, i, n)

MertensInv(n, i, v) ==
  /\ v = [primes |-> v.primes, mu |-> v.mu]
  /\ i \in Nat /\ i >= 1
  /\ v.primes \in [0 .. n -> BOOLEAN]
  /\ \A m \in 0 .. n : v.primes[m] <=> IsPrime(m)
  /\ v.mu = [m \in 0 .. n |-> IF m = 0 THEN 0 ELSE MoebiusUpTo(i, m)]

\* The masks that are not todo any more have been added to `following`.
PermanentInv(t, i, v) ==
  /\ v = [states |-> v.states, todo |-> v.todo, following |-> v.following]
  /\ i \in 1 .. t.dimension + 1
  /\ Counts(v.states, t, i - 1)
  /\ v.todo \subseteq DOMAIN v.states
  /\ CountsThrough(v.following, t, i, DOMAIN v.states \ v.todo)

CellsInv(t, i, v) == i \in 1 .. t.steps + 1 /\ v = Cells(t.row)[i - 1]

LoopInv(t, i, v) ==
  /\ t.problem = "fib" => FibInv(t.n, i, v)
  /\ t.problem = "partition" => PartitionInv(t.n, i, v)
  /\ t.problem = "primecount" => SieveInv(t.n, i, v)
  /\ t.problem = "mertens" => SieveInv(t.n, i, v) \/ MertensInv(t.n, i, v)
  /\ t.problem = "permanent" => PermanentInv(t, i, v)
  /\ t.problem = "ca-rule110" => CellsInv(t, i, v)

MeaningOf(t) ==
  CASE t.problem = "fib" -> Fib[t.n]
    [] t.problem = "partition" -> Ways[<<t.n, t.n>>]
    [] t.problem = "primecount" -> Cardinality({m \in 0 .. t.n : IsPrime(m)})
    [] t.problem = "mertens" -> SumFunction([m \in 0 .. t.n |-> IF m = 0 THEN 0 ELSE Moebius(m)])
    [] t.problem = "permanent" -> Cardinality(PlacementsOf(t, t.dimension, 0 .. t.dimension - 1))
    [] t.problem = "ca-rule110" -> Binary(Cells(t.row)[t.steps])

LEMMA MeaningOfTask == Meaning = MeaningOf(task) /\ Meaning' = MeaningOf(task')
BY DEF Meaning, MeaningOf, Placements, PlacementsOf, Row, Full

IsRight(t, results) ==
  t.problem \notin {"determinant", "polydisc"} => \A result \in results : result = MeaningOf(t)

LEMMA AnswerIsRightOfTask ==
  /\ AnswerIsRight <=> IsRight(task, answer)
  /\ AnswerIsRight' <=> IsRight(task', answer')
BY MeaningOfTask DEF AnswerIsRight, IsRight, ByElimination

AnswersInv == task \in Tasks /\ LoopInv(task, k, value) /\ AnswerIsRight

\* Every action but Init is a turn or a return.
LEMMA TurnKeeps ==
  ASSUME AnswersInv, UNCHANGED <<task, answer>>, LoopInv(task, k', value')
  PROVE  AnswersInv'
BY AnswerIsRightOfTask DEF AnswersInv

LEMMA ReturnKeeps ==
  ASSUME AnswersInv, UNCHANGED <<task, k, value>>, IsRight(task, answer')
  PROVE  AnswersInv'
BY AnswerIsRightOfTask DEF AnswersInv

LEMMA MarkersDiffer == ASSUME NEW n \in Nat, NEW f PROVE [m \in 0 .. n |-> f[m]] # <<>>
<1>1. 0 \in DOMAIN [m \in 0 .. n |-> f[m]]
  OBVIOUS
<1>2. DOMAIN <<>> = {}
  OBVIOUS
<1> QED
  BY <1>1, <1>2

\* The Möbius loop has begun when mu is there.
LEMMA NotBegun == ASSUME NEW n \in Nat, NEW i, NEW v, v.mu = <<>> PROVE ~MertensInv(n, i, v)
<1> DEFINE f == [m \in 0 .. n |-> IF m = 0 THEN 0 ELSE MoebiusUpTo(i, m)]
<1>1. f = [m \in 0 .. n |-> f[m]]
  OBVIOUS
<1>2. f # <<>>
  <2> HIDE DEF f
  <2> QED
    BY <1>1, MarkersDiffer
<1> QED
  BY <1>2 DEF MertensInv

\* Every non-empty set of naturals has a least element.
LEMMA LeastOne ==
  ASSUME NEW S, S \subseteq Nat, S # {}
  PROVE  Min(S) \in S /\ \A y \in S : Min(S) <= y
<1> DEFINE R == {q \in Nat \X Nat : q[1] < q[2]}
<1>1. PICK x \in S : \A y \in S : ~(<<y, x>> \in R)
  <2> HIDE DEF R
  <2> QED
    BY NaturalOrder, WFMin DEF R
<1>2. ASSUME NEW y \in S
      PROVE  x <= y
  <2>1. x \in Nat /\ y \in Nat
    OBVIOUS
  <2>2. y < x => <<y, x>> \in R
    BY <2>1
  <2> QED
    BY <1>1, <2>1, <2>2
<1> QED
  BY <1>1, <1>2 DEF Min

-----------------------------------------------------------------------------
(* One lemma per loop *)

LEMMA FibonacciKeeps == AnswersInv /\ Fibonacci => AnswersInv'
<1> SUFFICES ASSUME AnswersInv, Fibonacci
             PROVE  AnswersInv'
  OBVIOUS
<1> DEFINE n == task.n
           l == Len(Bits[n])
<1>1. task.problem = "fib" /\ answer = {} /\ task \in Tasks /\ n \in Nat
  BY TasksAssumption DEF Fibonacci, Running, AnswersInv
<1>2. PICK pre : /\ Prefixes(n, pre)
                 /\ k \in 1 .. l + 1
                 /\ value = <<Fib[pre[k - 1]], Fib[pre[k - 1] + 1]>>
  BY <1>1 DEF AnswersInv, LoopInv, FibInv
<1>3. l \in Nat
  BY <1>1, BitsFacts
<1>4. /\ pre \in [0 .. l -> Nat] /\ pre[l] = n
      /\ \A i \in 1 .. l : Bits[n][i] \in {0, 1} /\ pre[i] = 2 * pre[i - 1] + Bits[n][i]
  BY <1>2 DEF Prefixes
<1>5. CASE k > l
  <2>1. k - 1 = l
    BY <1>2, <1>3, <1>5
  <2>2. answer' = {Fib[n]} /\ UNCHANGED <<task, k, value>>
    BY <1>1, <1>2, <1>4, <1>5, <2>1 DEF Fibonacci, Return
  <2>3. MeaningOf(task) = Fib[n]
    BY <1>1 DEF MeaningOf
  <2> QED
    BY <2>2, <2>3, ReturnKeeps DEF IsRight
<1>6. CASE ~(k > l)
  <2>1. k \in 1 .. l /\ k - 1 \in 0 .. l /\ (k + 1) - 1 = k /\ k + 1 \in 1 .. l + 1
    BY <1>2, <1>3, <1>6
  <2> DEFINE p == pre[k - 1]
             bit == Bits[n][k]
  <2>2. p \in Nat /\ bit \in {0, 1} /\ pre[k] = 2 * p + bit
    BY <1>4, <2>1
  <2>3. k' = k + 1 /\ value' = Doubled(value[1], value[2], bit) /\ UNCHANGED <<task, answer>>
    BY <1>6 DEF Fibonacci, Turn
  <2>4. value' = <<Fib[pre[k]], Fib[pre[k] + 1]>>
    BY <1>2, <2>2, <2>3, DoubledIsRight
  <2>5. FibInv(n, k', value')
    BY <1>2, <2>1, <2>3, <2>4 DEF FibInv
  <2>6. LoopInv(task, k', value')
    BY <1>1, <2>5 DEF LoopInv
  <2> QED
    BY <2>3, <2>6, TurnKeeps
<1> QED
  BY <1>5, <1>6

LEMMA PartitionKeeps == AnswersInv /\ Partition => AnswersInv'
<1> SUFFICES ASSUME AnswersInv, Partition
             PROVE  AnswersInv'
  OBVIOUS
<1> DEFINE n == task.n
           counts == value.counts
           total == value.total
           new == [counts EXCEPT ![total] = @ + counts[total - k]]
<1>1. task.problem = "partition" /\ answer = {} /\ task \in Tasks /\ n \in Nat
  BY TasksAssumption DEF Partition, Running, AnswersInv
<1>2. /\ k \in 1 .. n + 1
      /\ total \in k .. n + 1 /\ (k <= n => total <= n)
      /\ counts \in [0 .. n -> Nat]
      /\ \A m \in 0 .. n : counts[m] = Ways[<<m, IF m < total THEN k ELSE k - 1>>]
  BY <1>1 DEF AnswersInv, LoopInv, PartitionInv
<1>2a. k \in Nat /\ k >= 1 /\ k <= n + 1 /\ total \in Nat /\ total >= k /\ total <= n + 1 /\ k - 1 \in Nat
  BY <1>1, <1>2
\* Parts above m do not help to write m.
<1>3. ASSUME NEW m \in Nat, NEW j \in Nat, m <= j
      PROVE  Ways[<<m, j + 1>>] = Ways[<<m, j>>]
  <2>1. Ways[<<m, j + 1>>] = WaysStep(m, j + 1, Ways) /\ (j + 1) - 1 = j /\ j + 1 # 0 /\ ~(j + 1 <= m)
    BY <1>3, WaysFacts
  <2>2. Ways[<<m, j>>] = WaysStep(m, j, Ways) /\ Ways[<<m, j>>] \in Nat
    BY WaysFacts
  <2> QED
    BY <2>1, <2>2 DEF WaysStep
<1>4. CASE k > n
  <2>1. k = n + 1 /\ total = n + 1 /\ n < total /\ n \in 0 .. n
    BY <1>1, <1>2, <1>2a, <1>4
  <2>2. counts[n] = Ways[<<n, n>>]
    <3>1. counts[n] = Ways[<<n, n + 1>>]
      <4> HIDE DEF n, counts, total
      <4> QED
        BY <1>2, <2>1
    <3>2. Ways[<<n, n + 1>>] = Ways[<<n, n>>]
      <4> HIDE DEF n
      <4> QED
        BY <1>1, <1>3
    <3> QED
      BY <3>1, <3>2
  <2>3. answer' = {counts[n]} /\ UNCHANGED <<task, k, value>>
    BY <1>4 DEF Partition, Return
  <2>4. MeaningOf(task) = Ways[<<n, n>>]
    BY <1>1 DEF MeaningOf
  <2> QED
    BY <2>2, <2>3, <2>4, ReturnKeeps DEF IsRight
<1>5. CASE ~(k > n)
  <2>1. k <= n /\ total <= n /\ total \in 0 .. n /\ total - k \in 0 .. n /\ total - k < total /\ total # 0
    BY <1>1, <1>2, <1>2a, <1>5
  <2>2. counts[total] = Ways[<<total, k - 1>>] /\ counts[total - k] = Ways[<<total - k, k>>]
    BY <1>2, <2>1
  <2>3. Ways[<<total, k>>] = counts[total] + counts[total - k]
    <3>1. Ways[<<total, k>>] = WaysStep(total, k, Ways)
      BY <1>2a, WaysFacts
    <3> QED
      BY <1>2a, <2>1, <2>2, <3>1 DEF WaysStep
  <2>4. new \in [0 .. n -> Nat] /\ \A m \in 0 .. n : new[m] = IF m = total THEN Ways[<<total, k>>] ELSE counts[m]
    <3>1. counts[total] \in Nat /\ counts[total - k] \in Nat
      BY <1>2, <2>1
    <3>2. new = [counts EXCEPT ![total] = Ways[<<total, k>>]]
      BY <2>3
    <3>3. Ways[<<total, k>>] \in Nat
      BY <1>2a, WaysFacts
    <3> HIDE DEF new, counts, total, n
    <3> QED
      BY <1>2, <2>1, <3>2, <3>3
  <2>5. ASSUME NEW m \in 0 .. n
        PROVE  new[m] = Ways[<<m, IF m < total + 1 THEN k ELSE k - 1>>]
    BY <1>2, <1>2a, <2>4
  <2> HIDE DEF new
  <2>6. CASE total < n
    <3>1. k' = k /\ value' = [counts |-> new, total |-> total + 1] /\ UNCHANGED <<task, answer>>
      BY <1>5, <2>6 DEF Partition, Turn, new
    <3>2. total + 1 \in k .. n + 1 /\ total + 1 <= n
      BY <1>1, <1>2a, <2>6
    <3>3. PartitionInv(n, k', value')
      BY <1>2, <2>4, <2>5, <3>1, <3>2 DEF PartitionInv
    <3>4. LoopInv(task, k', value')
      BY <1>1, <3>3 DEF LoopInv
    <3> QED
      BY <3>1, <3>4, TurnKeeps
  <2>7. CASE ~(total < n)
    <3>1. k' = k + 1 /\ value' = [counts |-> new, total |-> k + 1] /\ UNCHANGED <<task, answer>>
      BY <1>5, <2>7 DEF Partition, Turn, new
    <3>2. total = n /\ k + 1 \in 1 .. n + 1 /\ k + 1 \in k + 1 .. n + 1 /\ (k + 1) - 1 = k
      BY <1>1, <1>2a, <2>1, <2>7
    <3>3. ASSUME NEW m \in 0 .. n
          PROVE  new[m] = Ways[<<m, IF m < k + 1 THEN k + 1 ELSE k>>]
      <4>1. m < total + 1
        BY <1>1, <3>2
      <4>2. new[m] = Ways[<<m, k>>]
        BY <2>5, <4>1
      <4>3. CASE m < k + 1
        <5>1. m \in Nat /\ m <= k
          BY <1>2a, <4>3
        <5> QED
          BY <1>2a, <1>3, <4>2, <4>3, <5>1
      <4> QED
        BY <4>2, <4>3
    <3>4. PartitionInv(n, k', value')
      BY <2>4, <3>1, <3>2, <3>3 DEF PartitionInv
    <3>5. LoopInv(task, k', value')
      BY <1>1, <3>4 DEF LoopInv
    <3> QED
      BY <3>1, <3>5, TurnKeeps
  <2> QED
    BY <2>6, <2>7
<1> QED
  BY <1>4, <1>5

LEMMA OnTheRing == ASSUME NEW x \in Int, NEW l \in Nat, l # 0 PROVE (x % l) + 1 \in 1 .. l
OBVIOUS

LEMMA CellularAutomatonKeeps == AnswersInv /\ CellularAutomaton => AnswersInv'
<1> SUFFICES ASSUME AnswersInv, CellularAutomaton
             PROVE  AnswersInv'
  OBVIOUS
<1> DEFINE row == task.row
           l == Len(row)
           cells == Cells(row)
<1>1. /\ task.problem = "ca-rule110" /\ answer = {} /\ task \in Tasks
      /\ row \in Seq(BOOLEAN) /\ row # <<>> /\ task.steps \in Nat
  BY TasksAssumption DEF CellularAutomaton, Running, AnswersInv
<1>2. k \in 1 .. task.steps + 1 /\ value = cells[k - 1]
  BY <1>1 DEF AnswersInv, LoopInv, CellsInv
<1>2a. k \in Nat /\ k - 1 \in Nat /\ k # 0
  BY <1>1, <1>2
<1>3. value \in [1 .. l -> BOOLEAN] /\ cells[k] = After(row, k, cells)
  BY <1>1, <1>2, <1>2a, CellsFacts
<1>4. l \in Nat /\ l # 0
  BY <1>1, EmptySeq
<1>5. CASE k > task.steps
  <2>1. k - 1 = task.steps
    BY <1>1, <1>2, <1>5
  <2>2. answer' = {Binary(value)} /\ UNCHANGED <<task, k, value>>
    BY <1>5 DEF CellularAutomaton, Return
  <2>3. MeaningOf(task) = Binary(cells[task.steps])
    BY <1>1 DEF MeaningOf
  <2> QED
    BY <1>2, <2>1, <2>2, <2>3, ReturnKeeps DEF IsRight
<1>6. CASE ~(k > task.steps)
  <2> DEFINE At(i) == value[((i - 1) % l) + 1]
  <2>1. k + 1 \in 1 .. task.steps + 1 /\ (k + 1) - 1 = k
    BY <1>1, <1>2, <1>6
  <2>2. Len(value) = l /\ DOMAIN value = 1 .. l
    BY <1>3, <1>4
  <2>3. /\ k' = k + 1 /\ UNCHANGED <<task, answer>>
        /\ value' = [i \in 1 .. l |-> Rule110(At(i - 1), value[i], At(i + 1))]
    BY <1>6, <2>2 DEF CellularAutomaton, Turn, Cell
  <2>4. ASSUME NEW i \in 1 .. l
        PROVE  Rule110(At(i - 1), value[i], At(i + 1)) = Rule110Table(At(i - 1), value[i], At(i + 1))
    <3>1. At(i - 1) \in BOOLEAN
      <4>1. (((i - 1) - 1) % l) + 1 \in 1 .. l
        <5>1. (i - 1) - 1 \in Int
          BY <1>4
        <5> HIDE DEF l
        <5> QED
          BY <1>4, <5>1, OnTheRing
      <4> QED
        BY <1>3, <4>1
    <3>2. At(i + 1) \in BOOLEAN
      <4>1. (((i + 1) - 1) % l) + 1 \in 1 .. l
        <5>1. (i + 1) - 1 \in Int
          BY <1>4
        <5> HIDE DEF l
        <5> QED
          BY <1>4, <5>1, OnTheRing
      <4> QED
        BY <1>3, <4>1
    <3>3. value[i] \in BOOLEAN
      BY <1>3
    <3> HIDE DEF At
    <3> QED
      BY <3>1, <3>2, <3>3, RuleIsItsTable
  <2>5. cells[k] = [i \in 1 .. l |-> Rule110Table(At(i - 1), value[i], At(i + 1))]
    BY <1>2, <1>2a, <1>3 DEF After
  <2>6. value' = cells[k]
    <3> HIDE DEF At, cells
    <3> QED
      BY <2>3, <2>4, <2>5
  <2>7. CellsInv(task, k', value')
    BY <2>1, <2>3, <2>6 DEF CellsInv
  <2>8. LoopInv(task, k', value')
    BY <1>1, <2>7 DEF LoopInv
  <2> QED
    BY <2>3, <2>8, TurnKeeps
<1> QED
  BY <1>5, <1>6

LEMMA SieveKeeps == AnswersInv /\ Sieve => AnswersInv'
<1> SUFFICES ASSUME AnswersInv, Sieve
             PROVE  AnswersInv'
  OBVIOUS
<1> DEFINE n == task.n
           primes == value.primes
           new == [m \in 0 .. n |-> primes[m] /\ m \notin Multiples(k, n)]
<1>1. task.problem \in {"primecount", "mertens"} /\ task \in Tasks /\ n \in Nat /\ value.mu = <<>> /\ k <= n
  BY TasksAssumption DEF Sieve, AnswersInv
<1>2. SieveInv(n, k, value)
  <2>1. CASE task.problem = "primecount"
    BY <2>1 DEF AnswersInv, LoopInv
  <2>2. CASE task.problem = "mertens"
    <3>1. SieveInv(n, k, value) \/ MertensInv(n, k, value)
      BY <2>2 DEF AnswersInv, LoopInv
    <3>2. ~MertensInv(n, k, value)
      BY <1>1, NotBegun
    <3> QED
      BY <3>1, <3>2
  <2> QED
    BY <1>1, <2>1, <2>2
<1>3. value = [primes |-> primes, mu |-> <<>>] /\ k \in 2 .. n /\ SievedUpTo(primes, k, n)
  BY <1>1, <1>2 DEF SieveInv
<1>4. k + 1 \in Nat /\ k + 1 >= 2
  BY <1>3
<1>5. k' = k + 1 /\ UNCHANGED <<task, answer>>
  BY DEF Sieve, Turn
<1>6. SieveInv(n, k', value')
  <2>1. CASE primes[k]
    <3>1. DOMAIN primes = 0 .. n
      BY <1>3 DEF SievedUpTo
    <3>2. value' = [value EXCEPT !.primes = new]
      BY <2>1, <3>1 DEF Sieve, Turn
    <3>3. value' = [primes |-> new, mu |-> <<>>]
      <4> HIDE DEF new, primes
      <4> QED
        BY <1>3, <3>2
    <3>4. SievedUpTo(new, k + 1, n)
      BY <1>1, <1>3, SieveCrosses
    <3> HIDE DEF new
    <3> QED
      BY <1>4, <1>5, <3>3, <3>4 DEF SieveInv
  <2>2. CASE ~primes[k]
    <3>1. value' = value
      BY <2>2 DEF Sieve, Turn
    <3>2. SievedUpTo(primes, k + 1, n)
      BY <1>1, <1>3, <2>2, SieveSkips
    <3> QED
      BY <1>3, <1>4, <1>5, <3>1, <3>2 DEF SieveInv
  <2> QED
    BY <2>1, <2>2
<1>7. LoopInv(task, k', value')
  BY <1>1, <1>6 DEF LoopInv
<1> QED
  BY <1>5, <1>7, TurnKeeps

LEMMA CountPrimesKeeps == AnswersInv /\ CountPrimes => AnswersInv'
<1> SUFFICES ASSUME AnswersInv, CountPrimes
             PROVE  AnswersInv'
  OBVIOUS
<1> DEFINE n == task.n
           primes == value.primes
<1>1. task.problem = "primecount" /\ task \in Tasks /\ n \in Nat /\ k > n
  BY TasksAssumption DEF CountPrimes, Running, AnswersInv
<1>2. k \in Nat /\ k >= 2 /\ SievedUpTo(primes, k, n)
  BY <1>1 DEF AnswersInv, LoopInv, SieveInv
<1>3. \A m \in 0 .. n : primes[m] <=> IsPrime(m)
  BY <1>1, <1>2, SieveEnds
<1>4. DOMAIN primes = 0 .. n
  BY <1>2 DEF SievedUpTo
<1>5. Primes = {m \in 0 .. n : IsPrime(m)}
  BY <1>3, <1>4 DEF Primes
<1>6. answer' = {Cardinality(Primes)} /\ UNCHANGED <<task, k, value>>
  BY DEF CountPrimes, Return
<1>7. MeaningOf(task) = Cardinality({m \in 0 .. n : IsPrime(m)})
  BY <1>1 DEF MeaningOf
<1> QED
  BY <1>5, <1>6, <1>7, ReturnKeeps DEF IsRight

LEMMA BeginMertensKeeps == AnswersInv /\ BeginMertens => AnswersInv'
<1> SUFFICES ASSUME AnswersInv, BeginMertens
             PROVE  AnswersInv'
  OBVIOUS
<1> DEFINE n == task.n
           primes == value.primes
           mu == [m \in 0 .. n |-> IF m = 0 THEN 0 ELSE MoebiusUpTo(1, m)]
<1>1. task.problem = "mertens" /\ task \in Tasks /\ n \in Nat /\ k > n /\ value.mu = <<>>
  BY TasksAssumption DEF BeginMertens, Running, AnswersInv
<1>2. SieveInv(n, k, value)
  <2>1. SieveInv(n, k, value) \/ MertensInv(n, k, value)
    BY <1>1 DEF AnswersInv, LoopInv
  <2>2. ~MertensInv(n, k, value)
    BY <1>1, NotBegun
  <2> QED
    BY <2>1, <2>2
<1>3. value = [primes |-> primes, mu |-> <<>>] /\ k \in Nat /\ k >= 2 /\ SievedUpTo(primes, k, n)
  BY <1>2 DEF SieveInv
<1>4. /\ primes \in [0 .. n -> BOOLEAN]
      /\ \A m \in 0 .. n : primes[m] <=> IsPrime(m)
  BY <1>1, <1>3, SieveEnds DEF SievedUpTo
<1>5. mu = [m \in 0 .. n |-> IF m = 0 THEN 0 ELSE 1]
  BY MoebiusBegins
<1>6. k' = 1 /\ value' = [value EXCEPT !.mu = mu] /\ UNCHANGED <<task, answer>>
  BY <1>5 DEF BeginMertens, Turn
<1>7. value' = [primes |-> primes, mu |-> mu]
  <2> HIDE DEF primes, mu
  <2> QED
    BY <1>3, <1>6
<1>8. MertensInv(n, k', value')
  <2>1. value'.primes = primes /\ value'.mu = mu /\ value' = [primes |-> value'.primes, mu |-> value'.mu]
    <3> HIDE DEF primes, mu
    <3> QED
      BY <1>7
  <2>2. k' \in Nat /\ k' >= 1
    BY <1>6
  <2>3. mu = [m \in 0 .. n |-> IF m = 0 THEN 0 ELSE MoebiusUpTo(k', m)]
    BY <1>6
  <2> HIDE DEF primes, mu
  <2> QED
    BY <1>4, <2>1, <2>2, <2>3 DEF MertensInv
<1>9. LoopInv(task, k', value')
  BY <1>1, <1>8 DEF LoopInv
<1> QED
  BY <1>6, <1>9, TurnKeeps

LEMMA MertensKeeps == AnswersInv /\ Mertens => AnswersInv'
<1> SUFFICES ASSUME AnswersInv, Mertens
             PROVE  AnswersInv'
  OBVIOUS
<1> DEFINE n == task.n
           primes == value.primes
           later == {p \in Primes : p > k}
           p == Min(later)
           Next1(mu) == [m \in DOMAIN mu |-> IF m % p # 0 THEN mu[m]
                                             ELSE IF m % (p * p) = 0 THEN 0 ELSE -mu[m]]
           after == [m \in 0 .. n |-> IF m = 0 THEN 0 ELSE MoebiusUpTo(p, m)]
<1>1. task.problem = "mertens" /\ task \in Tasks /\ n \in Nat /\ value.mu # <<>>
  BY TasksAssumption DEF Mertens, Running, AnswersInv
<1>2. MertensInv(n, k, value)
  <2>1. SieveInv(n, k, value) \/ MertensInv(n, k, value)
    BY <1>1 DEF AnswersInv, LoopInv
  <2>2. ~SieveInv(n, k, value)
    BY <1>1 DEF SieveInv
  <2> QED
    BY <2>1, <2>2
<1>3. /\ value = [primes |-> primes, mu |-> value.mu]
      /\ k \in Nat /\ k >= 1
      /\ primes \in [0 .. n -> BOOLEAN]
      /\ \A m \in 0 .. n : primes[m] <=> IsPrime(m)
      /\ value.mu = [m \in 0 .. n |-> IF m = 0 THEN 0 ELSE MoebiusUpTo(k, m)]
  BY <1>2 DEF MertensInv
<1>4. \A q : q \in later <=> q \in 0 .. n /\ IsPrime(q) /\ q > k
  BY <1>3 DEF Primes
<1>5. CASE later = {}
  <2>1. \A q \in 2 .. n : IsPrime(q) => q <= k
    BY <1>1, <1>3, <1>4, <1>5
  <2>2. \A m \in 1 .. n : MoebiusUpTo(k, m) = Moebius(m)
    BY <1>1, <1>3, <2>1, MoebiusEnds
  <2>3. value.mu = [m \in 0 .. n |-> IF m = 0 THEN 0 ELSE Moebius(m)]
    <3>1. \A m \in 0 .. n : m # 0 => m \in 1 .. n
      BY <1>1
    <3> QED
      BY <1>3, <2>2, <3>1
  <2>4. answer' = {SumFunction(value.mu)} /\ UNCHANGED <<task, k, value>>
    BY <1>5 DEF Mertens, Return
  <2>5. MeaningOf(task) = SumFunction([m \in 0 .. n |-> IF m = 0 THEN 0 ELSE Moebius(m)])
    BY <1>1 DEF MeaningOf
  <2> QED
    BY <2>3, <2>4, <2>5, ReturnKeeps DEF IsRight
<1>6. CASE later # {}
  <2>1. p \in later /\ \A q \in later : p <= q
    <3>1. later \subseteq Nat
      BY <1>1, <1>4
    <3> HIDE DEF later
    <3> QED
      BY <1>6, <3>1, LeastOne
  <2>2. k' = p /\ value' = [value EXCEPT !.mu = Next1(value.mu)] /\ UNCHANGED <<task, answer>>
    BY <1>6 DEF Mertens, Turn
  <2> HIDE DEF later, p
  <2>3. p \in Nat /\ p > k /\ p >= 1 /\ p <= n /\ IsPrime(p)
    BY <1>1, <1>3, <1>4, <2>1
  <2>4. \A q \in k + 1 .. p - 1 : ~IsPrime(q)
    <3> SUFFICES ASSUME NEW q \in k + 1 .. p - 1, IsPrime(q)
                 PROVE  FALSE
      OBVIOUS
    <3>1. q \in 0 .. n /\ q > k /\ ~(p <= q)
      BY <1>1, <1>3, <2>3
    <3> QED
      BY <1>4, <2>1, <3>1
  <2>5. ASSUME NEW m \in 0 .. n
        PROVE  Next1(value.mu)[m] = after[m] /\ DOMAIN value.mu = 0 .. n
    <3>1. CASE m = 0
      <4>1. 0 % p = 0 /\ 0 % (p * p) = 0
        <5>1. \A x \in Nat : x # 0 => 0 % x = 0
          OBVIOUS
        <5>2. p * p \in Nat /\ p * p # 0
          BY <2>3
        <5> QED
          BY <2>3, <5>1, <5>2
      <4> QED
        BY <1>3, <3>1, <4>1
    <3>2. CASE m # 0
      <4>1. MoebiusUpTo(p, m) =
              IF m % p # 0 THEN MoebiusUpTo(k, m)
              ELSE IF m % (p * p) = 0 THEN 0 ELSE -MoebiusUpTo(k, m)
        BY <1>3, <2>3, <2>4, MoebiusStep
      <4> QED
        BY <1>3, <3>2, <4>1
    <3> QED
      BY <3>1, <3>2
  <2>6. Next1(value.mu) = after
    <3>1. DOMAIN value.mu = 0 .. n
      BY <1>3
    <3> QED
      BY <2>5, <3>1
  <2>7. value' = [primes |-> primes, mu |-> after]
    <3> HIDE DEF after, Next1, primes
    <3> QED
      BY <1>3, <2>2, <2>6
  <2>8. MertensInv(n, k', value')
    <3>1. value'.primes = primes /\ value'.mu = after /\ value' = [primes |-> value'.primes, mu |-> value'.mu]
      <4> HIDE DEF primes, after
      <4> QED
        BY <2>7
    <3>2. k' \in Nat /\ k' >= 1
      BY <2>2, <2>3
    <3>3. after = [m \in 0 .. n |-> IF m = 0 THEN 0 ELSE MoebiusUpTo(k', m)]
      BY <2>2
    <3> HIDE DEF primes, after
    <3> QED
      BY <1>3, <3>1, <3>2, <3>3 DEF MertensInv
  <2>9. LoopInv(task, k', value')
    BY <1>1, <2>8 DEF LoopInv
  <2> QED
    BY <2>2, <2>9, TurnKeeps
<1> QED
  BY <1>5, <1>6

LEMMA PermanentKeeps == AnswersInv /\ Permanent => AnswersInv'
<1> SUFFICES ASSUME AnswersInv, Permanent
             PROVE  AnswersInv'
  OBVIOUS
<1> DEFINE states == value.states
           todo == value.todo
           following == value.following
           done == DOMAIN states \ todo
<1>1. task.problem = "permanent" /\ task \in Tasks /\ task.dimension \in Nat
  BY TasksAssumption DEF Permanent, Running, AnswersInv
<1>2. /\ value = [states |-> states, todo |-> todo, following |-> following]
      /\ k \in 1 .. task.dimension + 1
      /\ Counts(states, task, k - 1)
      /\ todo \subseteq DOMAIN states
      /\ CountsThrough(following, task, k, done)
  BY <1>1 DEF AnswersInv, LoopInv, PermanentInv
<1>3. k \in Nat /\ k # 0
  BY <1>1, <1>2
<1>4. CASE k > task.dimension
  <2>1. k - 1 = task.dimension
    BY <1>1, <1>2, <1>4
  <2> DEFINE result == IF Full \in DOMAIN states THEN states[Full] ELSE 0
  <2>2. answer' = {result} /\ UNCHANGED <<task, k, value>>
    BY <1>4 DEF Permanent, Return
  <2>3. result = Cardinality(PlacementsOf(task, task.dimension, Full))
    <3>1. CASE Full \in DOMAIN states
      BY <1>2, <2>1, <3>1 DEF Counts
    <3>2. CASE Full \notin DOMAIN states
      <4>1. PlacementsOf(task, task.dimension, Full) = {}
        BY <1>2, <2>1, <3>2 DEF Counts
      <4> QED
        BY <3>2, <4>1, FS_EmptySet
    <3> QED
      BY <3>1, <3>2
  <2>4. MeaningOf(task) = Cardinality(PlacementsOf(task, task.dimension, Full))
    BY <1>1 DEF MeaningOf, Full
  <2> QED
    BY <2>2, <2>3, <2>4, ReturnKeeps DEF IsRight
<1>5. CASE ~(k > task.dimension) /\ todo = {}
  <2> DEFINE none == [mask \in {} |-> 0]
  <2>1. k + 1 \in 1 .. task.dimension + 1 /\ (k + 1) - 1 = k
    BY <1>1, <1>2, <1>5
  <2>2. /\ k' = k + 1 /\ UNCHANGED <<task, answer>>
        /\ value' = [states |-> following, todo |-> DOMAIN following, following |-> none]
    BY <1>5 DEF Permanent, Turn
  <2>3. Counts(following, task, k)
    <3>1. done = DOMAIN states
      BY <1>5
    <3> HIDE DEF states, following, done
    <3> QED
      BY <1>2, <1>3, <3>1, RowEnds
  <2>4. CountsThrough(none, task, k + 1, {})
    BY CountsThroughBegin
  <2>5. /\ value'.states = following /\ value'.todo = DOMAIN following /\ value'.following = none
        /\ value' = [states |-> value'.states, todo |-> value'.todo, following |-> value'.following]
        /\ DOMAIN following \ DOMAIN following = {}
    <3> HIDE DEF following, none
    <3> QED
      BY <2>2
  <2> HIDE DEF following, none
  <2>6. PermanentInv(task, k', value')
    BY <2>1, <2>2, <2>3, <2>4, <2>5 DEF PermanentInv
  <2>7. LoopInv(task, k', value')
    BY <1>1, <2>6 DEF LoopInv
  <2> QED
    BY <2>2, <2>7, TurnKeeps
<1>6. CASE ~(k > task.dimension) /\ todo # {}
  <2>1. PICK mask \in todo : AddCount(mask, Row(task, k))
    BY <1>6 DEF Permanent, Row
  <2> DEFINE reached == {mask \cup {c} : c \in Fills(Row(task, k), mask)}
             new == AddedTo(following, reached, states[mask])
  <2>2. /\ k' = k /\ UNCHANGED <<task, answer>>
        /\ value' = [value EXCEPT !.todo = todo \ {mask}, !.following = new]
    BY <2>1 DEF AddCount, Turn, AddedTo
  <2>3. mask \in DOMAIN states /\ mask \notin done
    BY <1>2
  <2>4. CountsThrough(new, task, k, done \cup {mask})
    <3>1. reached = {mask \cup {c} : c \in Fills(Row(task, k), mask)}
      OBVIOUS
    <3> HIDE DEF states, following, done, reached
    <3> QED
      BY <1>2, <1>3, <2>3, <3>1, CountsThroughStep
  <2>5. /\ value'.states = states /\ value'.todo = todo \ {mask} /\ value'.following = new
        /\ value' = [states |-> value'.states, todo |-> value'.todo, following |-> value'.following]
    <3> HIDE DEF states, todo, following, new
    <3> QED
      BY <1>2, <2>2
  <2>6. done \cup {mask} = DOMAIN states \ (todo \ {mask}) /\ todo \ {mask} \subseteq DOMAIN states
    BY <1>2, <2>3
  <2>7. PermanentInv(task, k', value')
    <3> HIDE DEF states, todo, following, new
    <3> QED
      BY <1>2, <2>2, <2>4, <2>5, <2>6 DEF PermanentInv
  <2>8. LoopInv(task, k', value')
    BY <1>1, <2>7 DEF LoopInv
  <2> QED
    BY <2>2, <2>8, TurnKeeps
<1> QED
  BY <1>4, <1>5, <1>6

\* The two eliminations keep nothing that the invariant speaks of.
LEMMA EliminationKeeps == AnswersInv /\ (DeterminantLoop \/ Discriminant) => AnswersInv'
<1> SUFFICES ASSUME AnswersInv, DeterminantLoop \/ Discriminant
             PROVE  AnswersInv'
  OBVIOUS
<1>1. task.problem \in {"determinant", "polydisc"} /\ task' = task
  BY DEF DeterminantLoop, Discriminant, Running, Eliminate, Turn, Return
<1>2. LoopInv(task', k', value')
  BY <1>1 DEF LoopInv
<1>3. IsRight(task', answer')
  BY <1>1 DEF IsRight
<1> QED
  BY <1>1, <1>2, <1>3, AnswerIsRightOfTask DEF AnswersInv

-----------------------------------------------------------------------------
(* The theorems *)

LEMMA InvBegins == Init => AnswersInv
<1> SUFFICES ASSUME Init
             PROVE  AnswersInv
  OBVIOUS
<1>1. task \in Tasks /\ value = Initial(task) /\ answer = {}
  BY DEF Init
<1>2. AnswerIsRight
  BY <1>1 DEF AnswerIsRight
<1>3. ASSUME task.problem = "fib"
      PROVE  FibInv(task.n, k, value)
  <2>1. task.n \in Nat /\ k = 1 /\ value = <<0, 1>>
    BY <1>1, <1>3, TasksAssumption DEF Init, Initial
  <2>2. PICK pre : Prefixes(task.n, pre)
    BY <2>1, BitsFacts
  <2>3. Len(Bits[task.n]) \in Nat
    BY <2>1, BitsFacts
  <2>4. pre[0] = 0 /\ 1 - 1 = 0 /\ 0 + 1 = 1 /\ 1 \in 1 .. Len(Bits[task.n]) + 1
    BY <2>2, <2>3 DEF Prefixes
  <2> QED
    BY <2>1, <2>2, <2>4, FibSmall DEF FibInv
<1>4. ASSUME task.problem = "partition"
      PROVE  PartitionInv(task.n, k, value)
  <2> DEFINE n == task.n
             counts == [m \in 0 .. n |-> IF m = 0 THEN 1 ELSE 0]
  <2>1. n \in Nat /\ k = 1 /\ value = [counts |-> counts, total |-> 1]
    BY <1>1, <1>4, TasksAssumption DEF Init, Initial
  <2>2. counts \in [0 .. n -> Nat]
    OBVIOUS
  <2>3. ASSUME NEW m \in 0 .. n
        PROVE  counts[m] = Ways[<<m, IF m < 1 THEN 1 ELSE 1 - 1>>]
    <3>1. m \in Nat /\ (m < 1 <=> m = 0) /\ 1 - 1 = 0
      BY <2>1
    <3>2. Ways[<<m, 0>>] = WaysStep(m, 0, Ways) /\ Ways[<<m, 1>>] = WaysStep(m, 1, Ways)
      BY <3>1, WaysFacts
    <3> QED
      BY <3>1, <3>2 DEF WaysStep
  <2>4. 1 \in 1 .. n + 1 /\ (1 <= n => 1 <= n)
    BY <2>1
  <2>5. value.counts = counts /\ value.total = 1
    BY <2>1
  <2> HIDE DEF counts
  <2> QED
    BY <2>1, <2>2, <2>3, <2>4, <2>5 DEF PartitionInv
<1>5. ASSUME task.problem \in {"primecount", "mertens"}
      PROVE  SieveInv(task.n, k, value)
  <2> DEFINE n == task.n
             primes == [m \in 0 .. n |-> m >= 2]
  <2>1. n \in Nat /\ k = 2 /\ value = [primes |-> primes, mu |-> <<>>]
    BY <1>1, <1>5, TasksAssumption DEF Init, Initial
  <2>2. SievedUpTo(primes, 2, n)
    BY <2>1, SieveBegins
  <2>3. value.primes = primes
    BY <2>1
  <2> HIDE DEF primes
  <2> QED
    BY <2>1, <2>2, <2>3 DEF SieveInv
<1>6. ASSUME task.problem = "permanent"
      PROVE  PermanentInv(task, k, value)
  <2> DEFINE states == [mask \in {{}} |-> 1]
             none == [mask \in {} |-> 0]
  <2>1. task.dimension \in Nat /\ k = 1 /\ value = [states |-> states, todo |-> {{}}, following |-> none]
    BY <1>1, <1>6, TasksAssumption DEF Init, Initial
  <2>2. Counts(states, task, 0) /\ CountsThrough(none, task, 1, {})
    BY CountsBegin, CountsThroughBegin
  <2>3. DOMAIN states = {{}} /\ {{}} \ {{}} = {} /\ 1 - 1 = 0 /\ 1 \in 1 .. task.dimension + 1
    BY <2>1
  <2> HIDE DEF states, none
  <2>4. value.states = states /\ value.todo = {{}} /\ value.following = none
    BY <2>1
  <2> QED
    BY <2>1, <2>2, <2>3, <2>4 DEF PermanentInv
<1>7. ASSUME task.problem = "ca-rule110"
      PROVE  CellsInv(task, k, value)
  <2>1. task.row \in Seq(BOOLEAN) /\ task.row # <<>> /\ task.steps \in Nat /\ k = 1 /\ value = task.row
    BY <1>1, <1>7, TasksAssumption DEF Init, Initial
  <2>2. Cells(task.row)[0] = task.row
    BY <2>1, CellsFacts DEF After
  <2>3. 1 \in 1 .. task.steps + 1 /\ 1 - 1 = 0
    BY <2>1
  <2> QED
    BY <2>1, <2>2, <2>3 DEF CellsInv
<1> QED
  BY <1>1, <1>2, <1>3, <1>4, <1>5, <1>6, <1>7 DEF AnswersInv, LoopInv

LEMMA InvSteps == AnswersInv /\ [Next]_vars => AnswersInv'
<1>1. AnswersInv /\ UNCHANGED vars => AnswersInv'
  BY ReturnKeeps, AnswerIsRightOfTask DEF AnswersInv, vars
<1> QED
  BY <1>1, FibonacciKeeps, PartitionKeeps, SieveKeeps, CountPrimesKeeps, BeginMertensKeeps,
     MertensKeeps, PermanentKeeps, EliminationKeeps, CellularAutomatonKeeps DEF Next

\* At every turn of every loop but the eliminations the accumulators are what
\* LoopInv says of them: the invariant the next theorem follows from.
THEOREM AnswersInvariant == Spec => []AnswersInv
<1> QED
  BY InvBegins, InvSteps, PTL DEF Spec

\* Whatever n, matrix, row of cells or number of turns is asked for, the value
\* that a loop of reference_answers.py returns is the number its problem asks
\* for: Fibonacci, partitions, primes, Mertens, permanent, cells of rule 110.
THEOREM AnswersAreRight == Spec => []AnswerIsRight
<1>1. AnswersInv => AnswerIsRight
  BY DEF AnswersInv
<1> QED
  BY <1>1, AnswersInvariant, PTL
=============================================================================
