-------------------------- MODULE StandingsProofs ---------------------------
(***************************************************************************)
(* Standings for every set of result files: the ranks of both boards, what *)
(* an extra pass may cost, the sort of official rows and the agreement of  *)
(* the two tools.                                                          *)
(*                                                                         *)
(* First come the data: sums over finite sets (the library's fold is       *)
(* defined by recursion; the induction is one over the subsets of a set),  *)
(* the order of keys, the parts of a key, and what a verdict that does no  *)
(* worse has in its key.  Then come the tools: CompetitionRank is the rank *)
(* a file should have, from the files alone, and the invariant says that   *)
(* reports and walk agree with it.                                         *)
(***************************************************************************)
EXTENDS Standings, FiniteSetTheorems, SequenceTheorems, WellFoundedInduction, TLAPS

-----------------------------------------------------------------------------
(* Sums *)

\* The order of the naturals is well founded, so a set of them has a least one.
LEMMA NatLess == IsWellFoundedOn({p \in Nat \X Nat : p[1] < p[2]}, Nat)
BY NatLessThanWellFounded DEF OpToRel

LEMMA LeastNatural ==
  ASSUME NEW T \in SUBSET Nat, T # {}
  PROVE  \E n \in T : \A m \in T : n <= m
<1> DEFINE R == {p \in Nat \X Nat : p[1] < p[2]}
<1>1. IsWellFoundedOn(R, Nat)
  BY NatLess
<1>2. \E n \in T : \A m \in T : ~(<<m, n>> \in R)
  <2> HIDE DEF R
  <2> QED BY <1>1, WFMin
<1>3. PICK n \in T : \A m \in T : ~(<<m, n>> \in R)
  BY <1>2
<1>4. ASSUME NEW m \in T
      PROVE  n <= m
  <2>1. <<m, n>> \in Nat \X Nat /\ ~(<<m, n>> \in R)
    BY <1>3
  <2>2. ~(m < n)
    BY <2>1
  <2> QED
    BY <2>2
<1> QED
  BY <1>4

\* Induction on the subsets of a finite set, stated with a set of good ones.
LEMMA SubsetInduction ==
  ASSUME NEW S, IsFiniteSet(S), NEW Good,
         \A U \in SUBSET S : (\A x \in U : U \ {x} \in Good) => U \in Good
  PROVE  \A U \in SUBSET S : U \in Good
<1> DEFINE Bad == {U \in SUBSET S : U \notin Good}
<1> SUFFICES ASSUME Bad # {}
             PROVE  FALSE
  OBVIOUS
<1>1. IsWellFoundedOn(StrictSubsetOrdering(S), FiniteSubsetsOf(S))
  BY FS_StrictSubsetOrderingWellFounded
<1>2. Bad \subseteq FiniteSubsetsOf(S)
  BY FS_FiniteSubsetsOfFinite
<1>3. PICK T \in Bad : \A U \in Bad : ~(<<U, T>> \in StrictSubsetOrdering(S))
  <2> HIDE DEF Bad
  <2> QED
    BY <1>1, <1>2, WFMin
<1>4. ASSUME NEW x \in T
      PROVE  T \ {x} \in Good
  <2>1. <<T \ {x}, T>> \in StrictSubsetOrdering(S)
    BY DEF StrictSubsetOrdering
  <2> QED
    BY <1>3, <2>1
<1> QED
  BY <1>4

Pick(S) == CHOOSE x \in S : TRUE

SumEquation(g, fun, S) ==
  g = [U \in SUBSET S |-> IF U = {} THEN 0 ELSE fun[Pick(U)] + g[U \ {Pick(U)}]]

LEMMA SumUnfolds ==
  ASSUME NEW fun, NEW S
  PROVE  SumFunctionOnSet(fun, S) = (CHOOSE g : SumEquation(g, fun, S))[S]
BY DEF SumFunctionOnSet, FoldFunctionOnSet, MapThenFoldSet, SumEquation, Pick

\* What is used of a set when its elements are added up one by one.
Countable(U) ==
  /\ Cardinality(U) \in Nat
  /\ U # {} => Pick(U) \in U /\ Cardinality(U \ {Pick(U)}) = Cardinality(U) - 1
  /\ Cardinality(U) = 0 <=> U = {}

LEMMA SubsetFacts ==
  ASSUME NEW S, IsFiniteSet(S), NEW U \in SUBSET S
  PROVE  IsFiniteSet(U) /\ Countable(U) /\ Cardinality(U) <= Cardinality(S)
<1>1. IsFiniteSet(U) /\ Cardinality(U) \in Nat /\ Cardinality(U) <= Cardinality(S)
  BY FS_Subset, FS_CardinalityType
<1>2. U # {} => Pick(U) \in U
  BY DEF Pick
<1>3. U # {} => Cardinality(U \ {Pick(U)}) = Cardinality(U) - 1
  BY <1>1, <1>2, FS_RemoveElement
<1>4. Cardinality(U) = 0 <=> U = {}
  BY <1>1, FS_EmptySet
<1> QED
  BY <1>1, <1>2, <1>3, <1>4 DEF Countable

\* The recursive function behind the sum exists: it is extended from the
\* subsets of up to n elements to those of n + 1.
LEMMA SumFunctionExists ==
  ASSUME NEW S, IsFiniteSet(S), NEW fun, \A x \in S : fun[x] \in Int
  PROVE  \E g : SumEquation(g, fun, S)
<1> DEFINE Unfolded(g, U) == IF U = {} THEN 0 ELSE fun[Pick(U)] + g[U \ {Pick(U)}]
           Upto(g, n) == \A U \in SUBSET S : Cardinality(U) <= n => g[U] = Unfolded(g, U)
           Bad == {n \in Nat : ~ \E g \in [SUBSET S -> Int] : Upto(g, n)}
<1>1. \A U \in SUBSET S : Countable(U) /\ Cardinality(U) <= Cardinality(S)
  BY SubsetFacts
<1>2. Bad = {}
  <2> SUFFICES ASSUME Bad # {}
               PROVE  FALSE
    OBVIOUS
  <2>1. PICK n \in Bad : \A m \in Bad : n <= m
    BY LeastNatural
  <2>2. n # 0
    <3> DEFINE g0 == [U \in SUBSET S |-> 0]
    <3>1. g0 \in [SUBSET S -> Int]
      OBVIOUS
    <3>2. ASSUME NEW U \in SUBSET S, Cardinality(U) <= 0
          PROVE  U = {}
      <4>1. Countable(U)
        BY <1>1
      <4>2. Cardinality(U) = 0
        BY <3>2, <4>1 DEF Countable
      <4> QED
        BY <4>1, <4>2 DEF Countable
    <3>3. Upto(g0, 0)
      BY <3>2
    <3> QED
      BY <3>1, <3>3
  <2>3. n \in Nat /\ n - 1 \in Nat /\ n - 1 \notin Bad
    <3> HIDE DEF Bad
    <3>1. Bad \subseteq Nat
      BY DEF Bad
    <3>2. n \in Nat /\ n - 1 \in Nat
      BY <2>2, <3>1
    <3>3. n - 1 \notin Bad
      BY <2>1, <3>2
    <3> QED
      BY <3>2, <3>3
  <2>4. PICK g \in [SUBSET S -> Int] : Upto(g, n - 1)
    BY <2>3
  <2> DEFINE h == [U \in SUBSET S |-> IF Cardinality(U) = n THEN Unfolded(g, U) ELSE g[U]]
  <2>5. ASSUME NEW U \in SUBSET S, Cardinality(U) = n
        PROVE  Unfolded(g, U) \in Int /\ Unfolded(h, U) = Unfolded(g, U)
    BY <1>1, <2>3, <2>5 DEF Countable
  <2>6. h \in [SUBSET S -> Int]
    BY <2>5
  <2>7. ASSUME NEW U \in SUBSET S, Cardinality(U) <= n
        PROVE  h[U] = Unfolded(h, U)
    <3> Cardinality(U) \in Nat
      BY <1>1 DEF Countable
    <3>1. CASE Cardinality(U) = n
      BY <3>1, <2>5
    <3>2. CASE Cardinality(U) # n
      <4>1. Cardinality(U) <= n - 1
        BY <2>3, <2>7, <3>2
      <4>2. h[U] = Unfolded(g, U)
        BY <2>4, <3>2, <4>1
      <4>3. U # {} => Cardinality(U \ {Pick(U)}) # n /\ U \ {Pick(U)} \in SUBSET S
        BY <1>1, <2>3, <4>1 DEF Countable
      <4>4. Unfolded(g, U) = Unfolded(h, U)
        BY <4>3
      <4> QED
        BY <2>3, <3>2, <4>2, <4>4
    <3> QED
      BY <3>1, <3>2
  <2> QED
    BY <2>6, <2>7
<1>3. PICK g \in [SUBSET S -> Int] : Upto(g, Cardinality(S))
  BY <1>2, FS_CardinalityType
<1>4. \A U \in SUBSET S : g[U] = Unfolded(g, U)
  BY <1>1, <1>3
<1>5. g = [U \in SUBSET S |-> Unfolded(g, U)]
  BY <1>4
<1> QED
  BY <1>5 DEF SumEquation

\* A function of the subsets of S that adds up the values of fun.
Sums(g, fun, S) ==
  /\ g \in [SUBSET S -> Int]
  /\ \A U \in SUBSET S : g[U] = IF U = {} THEN 0 ELSE fun[Pick(U)] + g[U \ {Pick(U)}]

LEMMA SumsExist ==
  ASSUME NEW S, IsFiniteSet(S), NEW fun, \A x \in S : fun[x] \in Int
  PROVE  \E g : Sums(g, fun, S) /\ SumFunctionOnSet(fun, S) = g[S]
<1> DEFINE g == CHOOSE g : SumEquation(g, fun, S)
<1>1. SumEquation(g, fun, S)
  BY SumFunctionExists
<1>2. SumFunctionOnSet(fun, S) = g[S]
  BY SumUnfolds
<1> HIDE DEF g
<1>3. \A U \in SUBSET S : g[U] = IF U = {} THEN 0 ELSE fun[Pick(U)] + g[U \ {Pick(U)}]
  BY <1>1 DEF SumEquation
<1>4. g = [U \in SUBSET S |-> g[U]]
  BY <1>1 DEF SumEquation
<1> DEFINE Good == {U \in SUBSET S : g[U] \in Int}
<1>5. \A U \in SUBSET S : U \in Good
  <2>1. ASSUME NEW U \in SUBSET S, \A x \in U : U \ {x} \in Good
        PROVE  g[U] \in Int
    <3>1. U # {} => Pick(U) \in U
      BY DEF Pick
    <3>2. U # {} => fun[Pick(U)] \in Int /\ g[U \ {Pick(U)}] \in Int
      BY <2>1, <3>1
    <3>3. g[U] = IF U = {} THEN 0 ELSE fun[Pick(U)] + g[U \ {Pick(U)}]
      BY <1>3
    <3> QED
      BY <3>2, <3>3
  <2>2. \A U \in SUBSET S : (\A x \in U : U \ {x} \in Good) => U \in Good
    BY <2>1
  <2> HIDE DEF Good
  <2> QED
    BY <2>2, SubsetInduction
<1>6. g \in [SUBSET S -> Int]
  BY <1>4, <1>5
<1> QED
  BY <1>2, <1>3, <1>6 DEF Sums

LEMMA SumsAgree ==
  ASSUME NEW S, IsFiniteSet(S), NEW T \in SUBSET S, NEW fun, NEW g, NEW h,
         Sums(g, fun, S), Sums(h, fun, T)
  PROVE  g[T] = h[T]
<1> DEFINE Good == {U \in SUBSET T : g[U] = h[U]}
<1>1. ASSUME NEW U \in SUBSET T, \A x \in U : U \ {x} \in Good
      PROVE  g[U] = h[U]
  <2>1. U # {} => Pick(U) \in U
    BY DEF Pick
  <2> QED
    BY <1>1, <2>1 DEF Sums
<1>2. \A U \in SUBSET T : (\A x \in U : U \ {x} \in Good) => U \in Good
  BY <1>1
<1>3. IsFiniteSet(T)
  BY FS_Subset
<1>4. T \in Good
  <2> HIDE DEF Good
  <2> QED
    BY <1>2, <1>3, SubsetInduction
<1> QED
  BY <1>4

\* The library's sum adds one chosen element to the sum of the others...
LEMMA SumOfPick ==
  ASSUME NEW S, IsFiniteSet(S), NEW fun, \A x \in S : fun[x] \in Int
  PROVE  /\ SumFunctionOnSet(fun, S) \in Int
         /\ S = {} => SumFunctionOnSet(fun, S) = 0
         /\ S # {} => SumFunctionOnSet(fun, S)
                        = fun[Pick(S)] + SumFunctionOnSet(fun, S \ {Pick(S)})
<1>1. PICK g : Sums(g, fun, S) /\ SumFunctionOnSet(fun, S) = g[S]
  BY SumsExist
<1>2. S # {} => SumFunctionOnSet(fun, S \ {Pick(S)}) = g[S \ {Pick(S)}]
  <2> SUFFICES ASSUME S # {}
               PROVE  SumFunctionOnSet(fun, S \ {Pick(S)}) = g[S \ {Pick(S)}]
    OBVIOUS
  <2>1. S \ {Pick(S)} \in SUBSET S /\ IsFiniteSet(S \ {Pick(S)})
    BY FS_RemoveElement
  <2>2. PICK h : Sums(h, fun, S \ {Pick(S)})
                 /\ SumFunctionOnSet(fun, S \ {Pick(S)}) = h[S \ {Pick(S)}]
    BY <2>1, SumsExist
  <2> QED
    BY <1>1, <2>1, <2>2, SumsAgree
<1> QED
  BY <1>1, <1>2 DEF Sums

\* ...and so any element.
LEMMA SumOfElement ==
  ASSUME NEW S, IsFiniteSet(S), NEW fun, \A x \in S : fun[x] \in Int, NEW e \in S
  PROVE  SumFunctionOnSet(fun, S) = fun[e] + SumFunctionOnSet(fun, S \ {e})
<1> DEFINE Sum(U) == SumFunctionOnSet(fun, U)
           Good == {U \in SUBSET S : \A x \in U : Sum(U) = fun[x] + Sum(U \ {x})}
<1>1. ASSUME NEW U \in SUBSET S
      PROVE  /\ Sum(U) \in Int
             /\ U # {} => Pick(U) \in U /\ Sum(U) = fun[Pick(U)] + Sum(U \ {Pick(U)})
  <2>1. IsFiniteSet(U) /\ \A x \in U : fun[x] \in Int
    BY FS_Subset
  <2> QED
    BY <2>1, SumOfPick DEF Pick
<1> HIDE DEF Sum
<1>2. ASSUME NEW U \in SUBSET S, \A x \in U : U \ {x} \in Good, NEW x \in U
      PROVE  Sum(U) = fun[x] + Sum(U \ {x})
  <2> DEFINE p == Pick(U)
  <2>1. p \in U /\ Sum(U) = fun[p] + Sum(U \ {p})
    BY <1>1
  <2> HIDE DEF p
  <2>2. CASE p # x
    <3>1. Sum(U \ {p}) = fun[x] + Sum((U \ {p}) \ {x})
      BY <1>2, <2>1, <2>2
    <3>2. Sum(U \ {x}) = fun[p] + Sum((U \ {x}) \ {p})
      BY <1>2, <2>1, <2>2
    <3>3. Sum((U \ {x}) \ {p}) = Sum((U \ {p}) \ {x})
      <4>1. (U \ {x}) \ {p} = (U \ {p}) \ {x}
        OBVIOUS
      <4> QED
        BY <4>1
    <3>4. Sum((U \ {p}) \ {x}) \in Int
      BY <1>1
    <3>5. fun[x] \in Int /\ fun[p] \in Int
      BY <2>1
    <3> HIDE DEF Good
    <3> QED
      BY <2>1, <3>1, <3>2, <3>3, <3>4, <3>5
  <2> QED
    BY <2>1, <2>2
<1>3. \A U \in SUBSET S : (\A x \in U : U \ {x} \in Good) => U \in Good
  BY <1>2
<1>4. \A U \in SUBSET S : U \in Good
  <2> HIDE DEF Good
  <2> QED
    BY <1>3, SubsetInduction
<1>5. Sum(S) = fun[e] + Sum(S \ {e})
  BY <1>4
<1> QED
  BY <1>5 DEF Sum

\* A sum of fewer and smaller values is smaller.
LEMMA SumMonotone ==
  ASSUME NEW S, IsFiniteSet(S), NEW T \in SUBSET S, NEW f, NEW g,
         \A x \in S : g[x] \in Nat,
         \A x \in T : f[x] \in Int /\ f[x] <= g[x]
  PROVE  SumFunctionOnSet(f, T) <= SumFunctionOnSet(g, S)
<1> DEFINE F(U) == SumFunctionOnSet(f, T \cap U)
           G(U) == SumFunctionOnSet(g, U)
           Good == {U \in SUBSET S : F(U) <= G(U)}
<1>1. ASSUME NEW U \in SUBSET S
      PROVE  /\ F(U) \in Int /\ G(U) \in Int
             /\ U = {} => F(U) = 0 /\ G(U) = 0
             /\ \A x \in U : /\ G(U) = g[x] + G(U \ {x})
                              /\ F(U) = IF x \in T THEN f[x] + F(U \ {x}) ELSE F(U \ {x})
  <2>1. IsFiniteSet(U) /\ IsFiniteSet(T \cap U)
    BY FS_Subset
  <2>2. /\ F(U) \in Int /\ G(U) \in Int
        /\ U = {} => F(U) = 0 /\ G(U) = 0
    <3>1. /\ \A x \in U : g[x] \in Int
          /\ \A x \in T \cap U : f[x] \in Int
      OBVIOUS
    <3>2. G(U) \in Int /\ (U = {} => G(U) = 0)
      BY <2>1, <3>1, SumOfPick
    <3>3. F(U) \in Int /\ (T \cap U = {} => F(U) = 0)
      BY <2>1, <3>1, SumOfPick
    <3> QED
      BY <3>2, <3>3
  <2>3. ASSUME NEW x \in U
        PROVE  /\ G(U) = g[x] + G(U \ {x})
               /\ F(U) = IF x \in T THEN f[x] + F(U \ {x}) ELSE F(U \ {x})
    <3>1. G(U) = g[x] + G(U \ {x})
      BY <2>1, SumOfElement
    <3>2. CASE x \in T
      <4>1. (T \cap U) \ {x} = T \cap (U \ {x})
        OBVIOUS
      <4> QED
        BY <2>1, <3>1, <3>2, <4>1, SumOfElement
    <3>3. CASE x \notin T
      <4>1. T \cap U = T \cap (U \ {x})
        BY <3>3
      <4> QED
        BY <3>1, <3>3, <4>1
    <3> QED
      BY <3>2, <3>3
  <2> QED
    BY <2>2, <2>3
<1> T \cap S = T
  OBVIOUS
<1> HIDE DEF F, G
<1>2. ASSUME NEW U \in SUBSET S, \A x \in U : U \ {x} \in Good
      PROVE  F(U) <= G(U)
  <2>1. CASE U = {}
    BY <1>1, <2>1
  <2>2. CASE U # {}
    <3>1. PICK x \in U : TRUE
      BY <2>2
    <3>2. F(U \ {x}) <= G(U \ {x})
      BY <1>2
    <3>3. F(U \ {x}) \in Int /\ G(U \ {x}) \in Int
      BY <1>1
    <3>4. g[x] \in Nat /\ (x \in T => f[x] \in Int /\ f[x] <= g[x])
      OBVIOUS
    <3>5. /\ G(U) = g[x] + G(U \ {x})
          /\ F(U) = IF x \in T THEN f[x] + F(U \ {x}) ELSE F(U \ {x})
      BY <1>1
    <3> HIDE DEF Good
    <3> QED
      BY <3>2, <3>3, <3>4, <3>5
  <2> QED
    BY <2>1, <2>2
<1>3. \A U \in SUBSET S : (\A x \in U : U \ {x} \in Good) => U \in Good
  BY <1>2
<1>4. \A U \in SUBSET S : U \in Good
  <2> HIDE DEF Good
  <2> QED
    BY <1>3, SubsetInduction
<1>5. F(S) <= G(S)
  BY <1>4
<1> QED
  BY <1>5 DEF F, G

-----------------------------------------------------------------------------
(* The order of keys *)

Ints == Seq(Int)

LEMMA Join ==
  ASSUME NEW a \in Ints, NEW b \in Ints
  PROVE  /\ Len(a) \in Nat /\ Len(b) \in Nat
         /\ a \o b \in Ints /\ Len(a \o b) = Len(a) + Len(b)
         /\ \A i \in 1 .. Len(a) : (a \o b)[i] = a[i]
         /\ \A i \in 1 .. Len(b) : (a \o b)[Len(a) + i] = b[i]
BY DEF Ints

\* Two keys agree below their first difference.
LEMMA FirstDifference ==
  ASSUME NEW a \in Ints, NEW b \in Ints,
         NEW k \in DOMAIN a \intersect DOMAIN b, a[k] # b[k]
  PROVE  \E i \in DOMAIN a \intersect DOMAIN b :
           a[i] # b[i] /\ \A j \in 1 .. i - 1 : a[j] = b[j]
<1> DEFINE T == {i \in DOMAIN a \intersect DOMAIN b : a[i] # b[i]}
<1>1. T \subseteq Nat /\ T # {}
  BY DEF Ints
<1>2. PICK i \in T : \A m \in T : i <= m
  <2> HIDE DEF T
  <2> QED
    BY <1>1, LeastNatural
<1>3. i \in 1 .. Len(a) /\ i \in 1 .. Len(b)
  BY <1>2
<1>4. ASSUME NEW j \in 1 .. i - 1
      PROVE  a[j] = b[j]
  <2>1. j \in DOMAIN a \intersect DOMAIN b
    BY <1>3
  <2>2. j < i
    BY <1>3
  <2>3. j \notin T
    BY <1>2, <1>3, <2>2
  <2> QED
    BY <2>1, <2>3
<1> QED
  BY <1>4

LEMMA KeyLessIrreflexive ==
  ASSUME NEW a \in Ints
  PROVE  ~KeyLess(a, a)
BY DEF KeyLess, Ints

LEMMA KeyLessTotal ==
  ASSUME NEW a \in Ints, NEW b \in Ints
  PROVE  a = b \/ KeyLess(a, b) \/ KeyLess(b, a)
<1>1. CASE \E k \in DOMAIN a \intersect DOMAIN b : a[k] # b[k]
  <2>1. PICK i \in DOMAIN a \intersect DOMAIN b :
          a[i] # b[i] /\ \A j \in 1 .. i - 1 : a[j] = b[j]
    BY <1>1, FirstDifference
  <2>2. a[i] < b[i] \/ b[i] < a[i]
    BY <2>1 DEF Ints
  <2> QED
    BY <2>1, <2>2 DEF KeyLess
<1>2. CASE \A k \in DOMAIN a \intersect DOMAIN b : a[k] = b[k]
  <2>1. DOMAIN a = 1 .. Len(a) /\ DOMAIN b = 1 .. Len(b) /\ Len(a) \in Nat /\ Len(b) \in Nat
    BY DEF Ints
  <2>2. ASSUME Len(a) = Len(b)
        PROVE  a = b
    <3>1. \A i \in 1 .. Len(a) : a[i] = b[i]
      BY <1>2, <2>1, <2>2
    <3> QED
      BY <2>2, <3>1 DEF Ints
  <2>3. CASE Len(a) < Len(b)
    BY <1>2, <2>1, <2>3 DEF KeyLess
  <2>4. CASE Len(b) < Len(a)
    BY <1>2, <2>1, <2>4 DEF KeyLess
  <2>5. Len(a) = Len(b) \/ Len(a) < Len(b) \/ Len(b) < Len(a)
    <3>1. \A m, n \in Nat : m = n \/ m < n \/ n < m
      OBVIOUS
    <3> QED
      BY <2>1, <3>1
  <2> QED
    BY <2>2, <2>3, <2>4, <2>5
<1> QED
  BY <1>1, <1>2

LEMMA KeyLessTransitive ==
  ASSUME NEW a \in Ints, NEW b \in Ints, NEW c \in Ints, KeyLess(a, b), KeyLess(b, c)
  PROVE  KeyLess(a, c)
<1>1. /\ DOMAIN a = 1 .. Len(a) /\ DOMAIN b = 1 .. Len(b) /\ DOMAIN c = 1 .. Len(c)
      /\ Len(a) \in Nat /\ Len(b) \in Nat /\ Len(c) \in Nat
  BY DEF Ints
<1> DEFINE D(x, y, i) == /\ i \in 1 .. Len(x) /\ i \in 1 .. Len(y)
                         /\ x[i] < y[i] /\ \A j \in 1 .. i - 1 : x[j] = y[j]
           P(x, y) == Len(x) < Len(y) /\ \A j \in 1 .. Len(x) : x[j] = y[j]
<1>2. (\E i : D(a, b, i)) \/ P(a, b)
  BY <1>1 DEF KeyLess
<1>3. (\E i : D(b, c, i)) \/ P(b, c)
  BY <1>1 DEF KeyLess
<1>4. (\E i : D(a, c, i)) \/ P(a, c) => KeyLess(a, c)
  BY <1>1 DEF KeyLess
<1>5. /\ \A i \in 1 .. Len(a) : a[i] \in Int
      /\ \A i \in 1 .. Len(b) : b[i] \in Int
      /\ \A i \in 1 .. Len(c) : c[i] \in Int
  BY DEF Ints
<1>6. ASSUME NEW i, NEW k, D(a, b, i), D(b, c, k)
      PROVE  D(a, c, i) \/ D(a, c, k)
  BY <1>1, <1>5, <1>6
<1>7. ASSUME NEW i, D(a, b, i), P(b, c)
      PROVE  D(a, c, i)
  BY <1>1, <1>5, <1>7
<1>8. ASSUME NEW k, P(a, b), D(b, c, k)
      PROVE  D(a, c, k) \/ P(a, c)
  BY <1>1, <1>5, <1>8
<1>9. ASSUME P(a, b), P(b, c)
      PROVE  P(a, c)
  BY <1>1, <1>5, <1>9
<1> HIDE DEF D, P
<1> QED
  BY <1>2, <1>3, <1>4, <1>6, <1>7, <1>8, <1>9

-----------------------------------------------------------------------------
(* Keys *)

\* A verdict as it may lie in a result directory.
GoodVerdict(v) ==
  /\ v.correctness \in Nat
  /\ \A s \in DOMAIN v.samples : v.samples[s].value \in Nat
  /\ v.sealed => ValidPolicy(v.cohort)

LEMMA ShapeOfScoreable ==
  ASSUME NEW v, GoodVerdict(v), Scoreable(v)
  PROVE  /\ ValidPolicy(v.cohort)
         /\ Len(v.cohort.plan) \in Nat /\ Slots(v) = 1 .. Len(v.cohort.plan)
         /\ Len(v.cohort.groups) \in Nat /\ Groups(v.cohort) = 1 .. Len(v.cohort.groups)
         /\ IsFiniteSet(Slots(v)) /\ IsFiniteSet(Groups(v.cohort))
         /\ Passed(v) \subseteq Slots(v) /\ IsFiniteSet(Passed(v))
         /\ v.correctness \in Nat /\ \A s \in Slots(v) : v.samples[s].value \in Nat
<1>1. ValidPolicy(v.cohort) /\ v.correctness \in Nat
  BY DEF GoodVerdict, Scoreable, MeasurementContractHolds
<1>2. \A s \in Slots(v) : v.samples[s].value \in Nat
  BY DEF GoodVerdict, Scoreable
<1>3. Len(v.cohort.plan) \in Nat /\ Slots(v) = 1 .. Len(v.cohort.plan)
  BY <1>1 DEF ValidPolicy, Slots
<1>4. Len(v.cohort.groups) \in Nat /\ Groups(v.cohort) = 1 .. Len(v.cohort.groups)
  BY <1>1 DEF ValidPolicy, Groups
<1>5. IsFiniteSet(Slots(v)) /\ IsFiniteSet(Groups(v.cohort))
  <2>1. \A n \in Nat : IsFiniteSet(1 .. n)
    BY FS_Interval
  <2> QED
    BY <1>3, <1>4, <2>1
<1>6. Passed(v) \subseteq Slots(v)
  BY DEF Passed
<1>7. IsFiniteSet(Passed(v))
  BY <1>5, <1>6, FS_Subset
<1> QED
  BY <1>1, <1>2, <1>3, <1>4, <1>5, <1>6, <1>7

LEMMA LastRow ==
  ASSUME NEW table, ValidTable(table), NEW n \in Nat
  PROVE  LET M == {k \in DOMAIN table : table[k].passed <= n}
         IN  Max(M) \in M /\ \A k \in M : k <= Max(M)
<1> DEFINE M == {k \in DOMAIN table : table[k].passed <= n}
           T == {j \in Nat : \E k \in M : j = Len(table) - k}
<1>1. table \in Seq(Milestone) /\ Len(table) \in Nat /\ DOMAIN table = 1 .. Len(table) /\ Len(table) >= 1
  BY DEF ValidTable
<1>2. 1 \in M
  BY <1>1 DEF ValidTable
<1>3. \A k \in M : k \in Nat /\ Len(table) - k \in T
  BY <1>1
<1>4. T \subseteq Nat /\ T # {}
  BY <1>2, <1>3
<1>5. PICK j \in T : \A i \in T : j <= i
  <2> HIDE DEF T
  <2> QED
    BY <1>4, LeastNatural
<1>6. PICK m \in M : j = Len(table) - m
  BY <1>5
<1>7. \A k \in M : m >= k
  <2> TAKE k \in M
  <2>1. j <= Len(table) - k
    BY <1>3, <1>5
  <2> HIDE DEF M, T
  <2> QED
    BY <2>1, <1>1, <1>3, <1>6
<1>8. Max(M) \in M /\ \A k \in M : Max(M) >= k
  BY <1>7 DEF Max
<1>9. \A k \in M : k <= Max(M)
  BY <1>3, <1>8
<1> QED
  BY <1>8, <1>9

\* More passed cases of a group are never worth fewer points.
LEMMA PointsGrow ==
  ASSUME NEW table, ValidTable(table), NEW m \in Nat, NEW n \in Nat, m <= n
  PROVE  /\ MilestonePoints(table, m) \in Nat
         /\ MilestonePoints(table, m) <= MilestonePoints(table, n)
<1> DEFINE M(k) == {i \in DOMAIN table : table[i].passed <= k}
<1>1. Max(M(m)) \in M(m) /\ Max(M(n)) \in M(n) /\ \A k \in M(n) : k <= Max(M(n))
  BY LastRow
<1>2. \A i \in DOMAIN table : i \in Nat /\ table[i].passed \in Nat /\ table[i].points \in Nat
  <2>1. table \in Seq(Milestone)
    BY DEF ValidTable
  <2>2. \A i \in DOMAIN table : i \in Nat /\ table[i] \in Milestone
    BY <2>1
  <2> QED
    BY <2>2 DEF Milestone
<1>3. M(m) \subseteq M(n)
  BY <1>2
<1> DEFINE a == Max(M(m))
           b == Max(M(n))
<1>4. a \in DOMAIN table /\ b \in DOMAIN table /\ a <= b
  BY <1>1, <1>3
<1>5. table[a].points \in Nat /\ table[b].points \in Nat /\ a \in Nat /\ b \in Nat
  BY <1>2, <1>4
<1>6. table[a].points <= table[b].points
  <2> HIDE DEF a, b
  <2>1. a < b => table[a].points < table[b].points
    BY <1>4 DEF ValidTable
  <2>2. a = b \/ a < b
    BY <1>4, <1>5
  <2> QED
    BY <1>5, <2>1, <2>2
<1> QED
  BY <1>5, <1>6 DEF MilestonePoints

LEMMA PassedInType ==
  ASSUME NEW v, GoodVerdict(v), Scoreable(v), NEW g
  PROVE  /\ IsFiniteSet(GroupSlots(v, g))
         /\ PassedIn(v, g) \in Nat /\ PassedIn(v, g) <= Cardinality(GroupSlots(v, g))
         /\ PassedIn(v, g) = Cardinality(GroupSlots(v, g)) => GroupSlots(v, g) \subseteq Passed(v)
<1> DEFINE P == Passed(v) \intersect GroupSlots(v, g)
<1>1. GroupSlots(v, g) \subseteq Slots(v)
  BY DEF GroupSlots, PlannedIn, Slots
<1>2. IsFiniteSet(GroupSlots(v, g))
  BY <1>1, ShapeOfScoreable, FS_Subset
<1>3. P \subseteq GroupSlots(v, g)
  OBVIOUS
<1>4. IsFiniteSet(P) /\ Cardinality(P) <= Cardinality(GroupSlots(v, g))
      /\ (Cardinality(P) = Cardinality(GroupSlots(v, g)) => P = GroupSlots(v, g))
  BY <1>2, <1>3, FS_Subset
<1>5. Cardinality(P) \in Nat
  BY <1>4, FS_CardinalityType
<1> QED
  BY <1>2, <1>4, <1>5 DEF PassedIn

LEMMA GroupPointsType ==
  ASSUME NEW v, GoodVerdict(v), Scoreable(v), v.cohort.contract = "group-points-v1",
         NEW g \in Groups(v.cohort)
  PROVE  GroupPoints(v, g) \in Nat
<1>1. ValidTable(v.cohort.groups[g].table)
  BY ShapeOfScoreable DEF ValidPolicy
<1>2. PassedIn(v, g) \in Nat
  BY PassedInType
<1>3. MilestonePoints(v.cohort.groups[g].table, PassedIn(v, g)) \in Nat
  BY <1>1, <1>2, PointsGrow
<1> QED
  BY <1>3 DEF GroupPoints

LEMMA WorkType ==
  ASSUME NEW v, GoodVerdict(v), Scoreable(v)
  PROVE  CurveWork(v) \in Int /\ TotalWork(v) \in Int /\ RankingWork(v) \in Int
<1> DEFINE value == [s \in Slots(v) |-> v.samples[s].value]
<1>1. \A s \in Passed(v) : value[s] \in Int
  BY ShapeOfScoreable
<1>2. CurveWork(v) \in Int
  <2> HIDE DEF value
  <2>1. SumFunctionOnSet(value, Passed(v)) \in Int
    BY <1>1, ShapeOfScoreable, SumOfPick
  <2> USE DEF value
  <2> QED
    BY <2>1 DEF CurveWork
<1>3. TotalWork(v) \in Int
  BY <1>2, ShapeOfScoreable DEF TotalWork
<1> QED
  BY <1>2, <1>3, InfinityAssumption DEF RankingWork

LEMMA PointsType ==
  ASSUME NEW v, GoodVerdict(v), Scoreable(v), v.cohort.contract = "group-points-v1"
  PROVE  Points(v) \in Int
<1> DEFINE points == [g \in Groups(v.cohort) |-> GroupPoints(v, g)]
<1>1. \A g \in Groups(v.cohort) : points[g] \in Int
  BY GroupPointsType
<1>2. DOMAIN points = Groups(v.cohort)
  OBVIOUS
<1>3. SumFunctionOnSet(points, Groups(v.cohort)) \in Int
  <2> HIDE DEF points
  <2> QED
    BY <1>1, ShapeOfScoreable, SumOfPick
<1>4. SumFunction(points) \in Int
  <2> HIDE DEF points
  <2> QED
    BY <1>2, <1>3 DEF SumFunction
<1> QED
  BY <1>4 DEF Points

LEMMA ProfileTypes ==
  ASSUME NEW v, GoodVerdict(v), Scoreable(v), v.cohort.contract = "group-points-v1"
  PROVE  /\ PointsProfile(v) \in Ints /\ Len(PointsProfile(v)) = Len(v.cohort.groups)
         /\ CaseProfile(v) \in Ints
         /\ Len(CaseProfile(v)) = IF v.cohort.profile = "hardest_group_then_count"
                                  THEN Len(v.cohort.groups) ELSE Len(v.cohort.plan)
<1> DEFINE n == Len(v.cohort.groups)
           p == Len(v.cohort.plan)
<1>1. n \in Nat /\ p \in Nat /\ Groups(v.cohort) = 1 .. n
  BY ShapeOfScoreable
<1>2. \A g \in 1 .. n : GroupPoints(v, g) \in Nat
  BY <1>1, GroupPointsType
<1>3. \A g \in 1 .. n : PassedIn(v, g) \in Nat
  BY PassedInType
<1>4. \A i \in 1 .. n : Descending(n)[i] \in 1 .. n
  BY <1>1 DEF Descending
<1> HIDE DEF n, p
<1>5. PointsProfile(v) = [i \in 1 .. n |-> -GroupPoints(v, Descending(n)[i])]
  BY DEF PointsProfile, n
<1>6. \A i \in 1 .. n : -GroupPoints(v, Descending(n)[i]) \in Int
  BY <1>2, <1>4
<1>7. PointsProfile(v) \in Ints /\ Len(PointsProfile(v)) = n
  BY <1>1, <1>5, <1>6 DEF Ints
<1>8. CASE v.cohort.profile = "hardest_group_then_count"
  <2> DEFINE at(i) == IF EligibleGroup(v, Descending(n)[i]) THEN -PassedIn(v, Descending(n)[i]) ELSE 0
  <2>1. CaseProfile(v) = [i \in 1 .. n |-> at(i)]
    BY <1>8 DEF CaseProfile, n
  <2>2. \A i \in 1 .. n : at(i) \in Int
    BY <1>3, <1>4
  <2> HIDE DEF at
  <2>3. CaseProfile(v) \in Ints /\ Len(CaseProfile(v)) = n
    BY <1>1, <2>1, <2>2 DEF Ints
  <2> QED
    BY <1>7, <1>8, <2>3 DEF n
<1>9. CASE v.cohort.profile # "hardest_group_then_count"
  <2> DEFINE at(i) == IF /\ Descending(p)[i] \in Passed(v)
                         /\ EligibleGroup(v, v.cohort.plan[Descending(p)[i]].group)
                      THEN -1 ELSE 0
  <2>1. CaseProfile(v) = [i \in 1 .. p |-> at(i)]
    BY <1>9 DEF CaseProfile, p
  <2>2. \A i \in 1 .. p : at(i) \in Int
    OBVIOUS
  <2> HIDE DEF at
  <2>3. CaseProfile(v) \in Ints /\ Len(CaseProfile(v)) = p
    BY <1>1, <2>1, <2>2 DEF Ints
  <2> QED
    BY <1>7, <1>9, <2>3 DEF n, p
<1> QED
  BY <1>8, <1>9

\* What a milestone key begins with, in every verdict of a cohort...
Head3(v) == <<-Points(v)>> \o PointsProfile(v) \o CaseProfile(v)

\* ...and what follows it where work breaks ties.
Tail2(v) ==
  (IF WorkTiebreakActive(v) THEN <<RankingWork(v)>> ELSE <<>>)
    \o (IF WorkTiebreakActive(v) /\ v.cohort.proof = "last_tiebreak"
        THEN <<v.correctness>> ELSE <<>>)

LEMMA MilestoneKeyShape ==
  ASSUME NEW v, GoodVerdict(v), Scoreable(v), v.cohort.contract = "group-points-v1"
  PROVE  /\ Head3(v) \in Ints /\ Tail2(v) \in Ints
         /\ Len(Head3(v)) = 1 + Len(PointsProfile(v)) + Len(CaseProfile(v))
         /\ MilestoneKey(v) = Head3(v) \o Tail2(v)
<1>1. -Points(v) \in Int /\ RankingWork(v) \in Int /\ v.correctness \in Int
  BY PointsType, WorkType, ShapeOfScoreable
<1>2. PointsProfile(v) \in Ints /\ CaseProfile(v) \in Ints
  BY ProfileTypes
<1> DEFINE one == <<-Points(v)>>
<1>3. one \in Ints /\ Len(one) = 1
  BY <1>1 DEF Ints
<1>4. /\ Head3(v) \in Ints
      /\ Len(Head3(v)) = 1 + Len(PointsProfile(v)) + Len(CaseProfile(v))
  <2> HIDE DEF one
  <2> DEFINE two == one \o PointsProfile(v)
  <2>1. two \in Ints
    BY <1>2, <1>3, Join
  <2>2. Len(two) = Len(one) + Len(PointsProfile(v))
    BY <1>2, <1>3, Join
  <2> HIDE DEF two
  <2>3. two \o CaseProfile(v) \in Ints
    BY <1>2, <2>1, Join
  <2>4. Len(two \o CaseProfile(v)) = Len(two) + Len(CaseProfile(v))
    BY <1>2, <2>1, Join
  <2>5. Head3(v) = two \o CaseProfile(v)
    BY DEF Head3, one, two
  <2> QED
    BY <1>3, <2>2, <2>3, <2>4, <2>5
<1> DEFINE t1 == IF WorkTiebreakActive(v) THEN <<RankingWork(v)>> ELSE <<>>
           t2 == IF WorkTiebreakActive(v) /\ v.cohort.proof = "last_tiebreak"
                 THEN <<v.correctness>> ELSE <<>>
<1>5. t1 \in Ints /\ t2 \in Ints
  BY <1>1 DEF Ints
<1>6. MilestoneKey(v) = (Head3(v) \o t1) \o t2 /\ Tail2(v) = t1 \o t2
  BY DEF MilestoneKey, Head3, Tail2
<1>7. Tail2(v) \in Ints
  <2> HIDE DEF t1, t2
  <2> QED
    BY <1>5, <1>6, Join
<1>8. (Head3(v) \o t1) \o t2 = Head3(v) \o (t1 \o t2)
  <2> HIDE DEF t1, t2
  <2>1. Head3(v) \in Seq(Int) /\ t1 \in Seq(Int) /\ t2 \in Seq(Int)
    BY <1>4, <1>5 DEF Ints
  <2> QED
    BY <2>1, ConcatAssociative
<1> QED
  BY <1>4, <1>6, <1>7, <1>8

LEMMA LegacyKeyType ==
  ASSUME NEW v, GoodVerdict(v), Scoreable(v)
  PROVE  LegacyKey(v) \in Ints /\ Len(LegacyKey(v)) = 2 + Len(v.cohort.plan)
<1> DEFINE one == <<-Cardinality(Passed(v))>>
           p == Len(v.cohort.plan)
           at(i) == IF Descending(p)[i] \in Passed(v) THEN -1 ELSE 0
           cases == [i \in 1 .. p |-> at(i)]
           work == <<TotalWork(v)>>
<1>1. LegacyKey(v) = one \o cases \o work
  BY DEF LegacyKey
<1>2. p \in Nat
  BY ShapeOfScoreable
<1>3. Cardinality(Passed(v)) \in Nat
  BY ShapeOfScoreable, FS_CardinalityType
<1>4. one \in Ints /\ Len(one) = 1
  BY <1>3 DEF Ints
<1>5. work \in Ints /\ Len(work) = 1
  BY WorkType DEF Ints
<1>6. \A i \in 1 .. p : at(i) \in Int
  OBVIOUS
<1>7. cases \in Ints /\ Len(cases) = p
  <2> HIDE DEF at, p
  <2> QED
    BY <1>2, <1>6 DEF Ints
<1> QED
  <2> HIDE DEF one, cases, work
  <2> DEFINE two == one \o cases
  <2>1. two \in Ints
    BY <1>4, <1>7, Join
  <2>2. Len(two) = Len(one) + Len(cases)
    BY <1>4, <1>7, Join
  <2> HIDE DEF two
  <2>3. two \o work \in Ints
    BY <1>5, <2>1, Join
  <2>4. Len(two \o work) = Len(two) + Len(work)
    BY <1>5, <2>1, Join
  <2>5. LegacyKey(v) = two \o work
    BY <1>1 DEF two
  <2> QED
    BY <1>2, <1>4, <1>5, <1>7, <2>2, <2>3, <2>4, <2>5

\* Every key is a sequence of integers, and only a verdict with a key is placed.
LEMMA KeyType ==
  ASSUME NEW v, GoodVerdict(v)
  PROVE  /\ PlacementKey(v) \in Ints
         /\ Placed(v) => Scoreable(v)
         /\ Placed(v) /\ v.cohort.contract = "computation-total-v1" => Complete(v)
<1>1. CASE ~Scoreable(v)
  BY <1>1 DEF PlacementKey, Placed, Unplaced, Ints
<1>2. CASE Scoreable(v)
  <2>1. CASE v.cohort.contract = "computation-total-v1"
    BY <1>2, <2>1, WorkType DEF PlacementKey, Placed, Unplaced, Ints
  <2>2. CASE v.cohort.contract = "full-plan-v1"
    BY <1>2, <2>2, WorkType DEF PlacementKey, Placed, Points, Ints
  <2>3. CASE v.cohort.contract = "group-points-v1"
    <3>1. PlacementKey(v) = MilestoneKey(v)
      BY <1>2, <2>3 DEF PlacementKey
    <3>2. Head3(v) \in Ints /\ Tail2(v) \in Ints /\ MilestoneKey(v) = Head3(v) \o Tail2(v)
      BY <1>2, <2>3, MilestoneKeyShape
    <3> QED
      BY <1>2, <2>3, <3>1, <3>2 DEF Ints
  <2>4. CASE v.cohort.contract \notin {"computation-total-v1", "full-plan-v1", "group-points-v1"}
    BY <1>2, <2>4, LegacyKeyType DEF PlacementKey
  <2> QED
    BY <2>1, <2>2, <2>3, <2>4
<1> QED
  BY <1>1, <1>2

\* The parts of a milestone key's beginning.
LEMMA HeadParts ==
  ASSUME NEW v, GoodVerdict(v), Scoreable(v), v.cohort.contract = "group-points-v1"
  PROVE  /\ Len(PointsProfile(v)) \in Nat /\ Len(CaseProfile(v)) \in Nat
         /\ Head3(v)[1] = -Points(v)
         /\ \A i \in 1 .. Len(PointsProfile(v)) : Head3(v)[1 + i] = PointsProfile(v)[i]
         /\ \A i \in 1 .. Len(CaseProfile(v)) :
              Head3(v)[1 + Len(PointsProfile(v)) + i] = CaseProfile(v)[i]
<1> DEFINE one == <<-Points(v)>>
           two == one \o PointsProfile(v)
           m == Len(PointsProfile(v))
           c == Len(CaseProfile(v))
<1>1. one \in Ints /\ Len(one) = 1 /\ one[1] = -Points(v)
  BY PointsType DEF Ints
<1>2. PointsProfile(v) \in Ints /\ CaseProfile(v) \in Ints
  BY ProfileTypes
<1>3. m \in Nat /\ c \in Nat
  BY <1>2, Join
<1> HIDE DEF one
<1>4. two \in Ints /\ Len(two) = Len(one) + m
  BY <1>1, <1>2, Join
<1>5. two[1] = one[1]
  <2>1. 1 \in 1 .. Len(one)
    BY <1>1
  <2> QED
    BY <1>1, <1>2, <2>1, Join
<1>6. \A i \in 1 .. m : two[Len(one) + i] = PointsProfile(v)[i]
  BY <1>1, <1>2, Join
<1> HIDE DEF two
<1>7. Head3(v) = two \o CaseProfile(v)
  BY DEF Head3, one, two
<1>8. \A i \in 1 .. Len(two) : Head3(v)[i] = two[i]
  BY <1>2, <1>4, <1>7, Join
<1>9. \A i \in 1 .. c : Head3(v)[Len(two) + i] = CaseProfile(v)[i]
  <2>1. \A i \in 1 .. c : (two \o CaseProfile(v))[Len(two) + i] = CaseProfile(v)[i]
    BY <1>2, <1>4, Join
  <2> QED
    BY <1>7, <2>1
<1> HIDE DEF m, c
<1>10. Len(two) = 1 + m
  BY <1>1, <1>4
<1>11. Head3(v)[1] = -Points(v)
  BY <1>1, <1>3, <1>5, <1>8, <1>10
<1>12. \A i \in 1 .. m : Head3(v)[1 + i] = PointsProfile(v)[i]
  <2> TAKE i \in 1 .. m
  <2>1. 1 + i \in 1 .. Len(two)
    BY <1>3, <1>10
  <2>2. two[1 + i] = PointsProfile(v)[i]
    BY <1>1, <1>6
  <2> QED
    BY <1>8, <2>1, <2>2
<1> QED
  BY <1>3, <1>9, <1>10, <1>11, <1>12 DEF m, c

\* Each group, and each case, has its place in a profile.
LEMMA ProfileParts ==
  ASSUME NEW v, GoodVerdict(v), Scoreable(v), v.cohort.contract = "group-points-v1"
  PROVE  /\ \A i \in 1 .. Len(v.cohort.groups) :
              /\ Descending(Len(v.cohort.groups))[i] \in Groups(v.cohort)
              /\ PointsProfile(v)[i] = -GroupPoints(v, Descending(Len(v.cohort.groups))[i])
         /\ v.cohort.profile = "hardest_group_then_count" =>
              \A i \in 1 .. Len(v.cohort.groups) :
                LET g == Descending(Len(v.cohort.groups))[i]
                IN  CaseProfile(v)[i] = IF EligibleGroup(v, g) THEN -PassedIn(v, g) ELSE 0
         /\ v.cohort.profile # "hardest_group_then_count" =>
              \A i \in 1 .. Len(v.cohort.plan) :
                LET s == Descending(Len(v.cohort.plan))[i]
                IN  /\ s \in Slots(v)
                    /\ CaseProfile(v)[i] = IF s \in Passed(v) /\ EligibleGroup(v, v.cohort.plan[s].group)
                                           THEN -1 ELSE 0
<1>1. /\ Len(v.cohort.groups) \in Nat /\ Groups(v.cohort) = 1 .. Len(v.cohort.groups)
      /\ Len(v.cohort.plan) \in Nat /\ Slots(v) = 1 .. Len(v.cohort.plan)
  BY ShapeOfScoreable
<1>2. \A i \in 1 .. Len(v.cohort.groups) : Descending(Len(v.cohort.groups))[i] \in Groups(v.cohort)
  BY <1>1 DEF Descending
<1>3. \A i \in 1 .. Len(v.cohort.plan) : Descending(Len(v.cohort.plan))[i] \in Slots(v)
  BY <1>1 DEF Descending
<1>4. \A i \in 1 .. Len(v.cohort.groups) :
        PointsProfile(v)[i] = -GroupPoints(v, Descending(Len(v.cohort.groups))[i])
  BY DEF PointsProfile
<1>5. ASSUME v.cohort.profile = "hardest_group_then_count", NEW i \in 1 .. Len(v.cohort.groups)
      PROVE  LET g == Descending(Len(v.cohort.groups))[i]
             IN  CaseProfile(v)[i] = IF EligibleGroup(v, g) THEN -PassedIn(v, g) ELSE 0
  BY <1>5 DEF CaseProfile
<1>6. ASSUME v.cohort.profile # "hardest_group_then_count", NEW i \in 1 .. Len(v.cohort.plan)
      PROVE  LET s == Descending(Len(v.cohort.plan))[i]
             IN  CaseProfile(v)[i] = IF s \in Passed(v) /\ EligibleGroup(v, v.cohort.plan[s].group)
                                     THEN -1 ELSE 0
  BY <1>6 DEF CaseProfile
<1> QED
  BY <1>2, <1>3, <1>4, <1>5, <1>6

LEMMA DescendingReaches ==
  ASSUME NEW n \in Nat, NEW k \in 1 .. n
  PROVE  n + 1 - k \in 1 .. n /\ Descending(n)[n + 1 - k] = k
BY DEF Descending

\* Who passed every case of an official plan has met every prerequisite.
LEMMA CompleteIsEligible ==
  ASSUME NEW v, GoodVerdict(v), Scoreable(v), v.cohort.contract = "group-points-v1",
         v.cohort.mode = "official", Complete(v), NEW g \in Groups(v.cohort)
  PROVE  EligibleGroup(v, g)
<1>1. ValidPolicy(v.cohort)
  BY ShapeOfScoreable
<1>2. ASSUME NEW r \in v.cohort.groups[g].requires
      PROVE  PassedIn(v, r) >= MaximumPassed(v, r)
  <2>1. r \in Groups(v.cohort)
    BY <1>1 DEF ValidPolicy
  <2>2. MaximumPassed(v, r) = Cardinality(GroupSlots(v, r))
    BY <1>1, <2>1 DEF ValidPolicy, MaximumPassed, GroupSlots
  <2>3. Passed(v) \intersect GroupSlots(v, r) = GroupSlots(v, r)
    BY DEF Complete, GroupSlots, PlannedIn, Slots
  <2>4. PassedIn(v, r) = Cardinality(GroupSlots(v, r))
    BY <2>3 DEF PassedIn
  <2>5. PassedIn(v, r) \in Nat
    BY PassedInType
  <2> QED
    BY <2>2, <2>4, <2>5
<1> QED
  BY <1>2 DEF EligibleGroup

\* A case that w failed shows in the keys of a complete v and of w.
LEMMA FailedCaseShows ==
  ASSUME NEW v, NEW w, GoodVerdict(v), GoodVerdict(w), Scoreable(v), Scoreable(w),
         v.cohort = w.cohort, v.cohort.contract = "group-points-v1",
         v.cohort.mode = "official", Complete(v), ~Complete(w)
  PROVE  \E i \in 1 .. Len(Head3(v)) : Head3(v)[i] # Head3(w)[i]
<1> DEFINE n == Len(v.cohort.groups)
           p == Len(v.cohort.plan)
           m == Len(PointsProfile(v))
           c == Len(CaseProfile(v))
<1>1. /\ n \in Nat /\ Groups(v.cohort) = 1 .. n /\ p \in Nat /\ Slots(v) = 1 .. p
      /\ Slots(w) = Slots(v) /\ Groups(w.cohort) = Groups(v.cohort)
  BY ShapeOfScoreable DEF Slots
<1>2. /\ m = n /\ Len(PointsProfile(w)) = n
      /\ c = IF v.cohort.profile = "hardest_group_then_count" THEN n ELSE p
      /\ Len(CaseProfile(w)) = c
  BY ProfileTypes
<1>3. PICK s \in Slots(v) : s \notin Passed(w)
  BY <1>1, ShapeOfScoreable DEF Complete
<1>4. s \in Passed(v)
  BY DEF Complete
<1>5. \E i \in 1 .. c : CaseProfile(v)[i] # CaseProfile(w)[i]
  <2> DEFINE g == v.cohort.plan[s].group
  <2>1. g \in Groups(v.cohort)
    BY ShapeOfScoreable DEF ValidPolicy, Slots
  <2>2. EligibleGroup(v, g)
    BY <2>1, CompleteIsEligible
  <2>3. CASE v.cohort.profile = "hardest_group_then_count"
    <3> DEFINE i == n + 1 - g
    <3>1. i \in 1 .. n /\ Descending(n)[i] = g
      BY <1>1, <2>1, DescendingReaches
    <3>2. CaseProfile(v)[i] = -PassedIn(v, g)
      BY <2>2, <2>3, <3>1, ProfileParts
    <3>3. CaseProfile(w)[i] = IF EligibleGroup(w, g) THEN -PassedIn(w, g) ELSE 0
      BY <2>3, <3>1, ProfileParts
    <3>4. s \in GroupSlots(v, g) /\ s \in GroupSlots(w, g) /\ GroupSlots(v, g) = GroupSlots(w, g)
      BY DEF GroupSlots, PlannedIn, Slots
    <3>5. GroupSlots(v, g) \subseteq Passed(v)
      BY DEF Complete, GroupSlots, PlannedIn, Slots
    <3>6. PassedIn(v, g) = Cardinality(GroupSlots(v, g))
      <4>1. Passed(v) \intersect GroupSlots(v, g) = GroupSlots(v, g)
        BY <3>5
      <4> QED
        BY <4>1 DEF PassedIn
    <3>7. /\ PassedIn(v, g) \in Nat /\ PassedIn(w, g) \in Nat
          /\ PassedIn(w, g) <= PassedIn(v, g) /\ PassedIn(w, g) # PassedIn(v, g)
      BY <1>3, <3>4, <3>6, PassedInType
    <3> HIDE DEF i
    <3>8. CaseProfile(v)[i] # CaseProfile(w)[i]
      BY <3>2, <3>3, <3>7
    <3> QED
      BY <1>2, <2>3, <3>1, <3>8
  <2>4. CASE v.cohort.profile # "hardest_group_then_count"
    <3> DEFINE i == p + 1 - s
    <3>1. i \in 1 .. p /\ Descending(p)[i] = s
      BY <1>1, DescendingReaches
    <3>2. CaseProfile(v)[i] = -1
      BY <1>4, <2>2, <2>4, <3>1, ProfileParts
    <3>3. CaseProfile(w)[i] = 0
      BY <1>3, <2>4, <3>1, ProfileParts
    <3> HIDE DEF i
    <3> QED
      BY <1>2, <2>4, <3>1, <3>2, <3>3
  <2> QED
    BY <2>3, <2>4
<1>6. PICK i \in 1 .. c : CaseProfile(v)[i] # CaseProfile(w)[i]
  BY <1>5
<1>7. Head3(v)[1 + m + i] = CaseProfile(v)[i]
  BY HeadParts
<1>8. Head3(w)[1 + m + i] = CaseProfile(w)[i]
  <2>1. m = Len(PointsProfile(w)) /\ i \in 1 .. Len(CaseProfile(w))
    BY <1>2
  <2>2. Head3(w)[1 + Len(PointsProfile(w)) + i] = CaseProfile(w)[i]
    BY <2>1, HeadParts
  <2> QED
    BY <2>1, <2>2
<1>9. Len(Head3(v)) = 1 + m + c /\ m \in Nat /\ c \in Nat
  BY MilestoneKeyShape, HeadParts
<1> HIDE DEF m, c
<1>10. 1 + m + i \in 1 .. Len(Head3(v))
  BY <1>9
<1> QED
  BY <1>6, <1>7, <1>8, <1>10

LEMMA HeadsAlike ==
  ASSUME NEW v, NEW w, GoodVerdict(v), GoodVerdict(w), Scoreable(v), Scoreable(w),
         v.cohort = w.cohort, v.cohort.contract = "group-points-v1"
  PROVE  /\ Len(Head3(v)) = Len(Head3(w)) /\ Len(Head3(v)) \in Nat
         /\ Len(PointsProfile(v)) = Len(PointsProfile(w))
         /\ Len(CaseProfile(v)) = Len(CaseProfile(w))
<1>1. /\ Len(PointsProfile(v)) = Len(PointsProfile(w))
      /\ Len(CaseProfile(v)) = Len(CaseProfile(w))
  BY ProfileTypes
<1>2. Head3(v) \in Ints
  BY MilestoneKeyShape
<1>3. Len(Head3(v)) \in Nat
  BY <1>2, Join
<1> QED
  BY <1>1, <1>3, MilestoneKeyShape

LEMMA MilestoneKeyParts ==
  ASSUME NEW v, GoodVerdict(v), Scoreable(v), v.cohort.contract = "group-points-v1"
  PROVE  /\ PlacementKey(v) \in Ints
         /\ Len(PlacementKey(v)) = Len(Head3(v)) + Len(Tail2(v))
         /\ Len(Head3(v)) \in Nat /\ Len(Tail2(v)) \in Nat
         /\ \A i \in 1 .. Len(Head3(v)) : PlacementKey(v)[i] = Head3(v)[i]
         /\ \A i \in 1 .. Len(Tail2(v)) : PlacementKey(v)[Len(Head3(v)) + i] = Tail2(v)[i]
<1>1. PlacementKey(v) = Head3(v) \o Tail2(v) /\ Head3(v) \in Ints /\ Tail2(v) \in Ints
  BY MilestoneKeyShape DEF PlacementKey
<1> DEFINE key == Head3(v) \o Tail2(v)
<1>2. /\ key \in Ints
      /\ Len(key) = Len(Head3(v)) + Len(Tail2(v))
      /\ Len(Head3(v)) \in Nat /\ Len(Tail2(v)) \in Nat
  BY <1>1, Join
<1>3. \A i \in 1 .. Len(Head3(v)) : key[i] = Head3(v)[i]
  BY <1>1, Join
<1>4. \A i \in 1 .. Len(Tail2(v)) : key[Len(Head3(v)) + i] = Tail2(v)[i]
  BY <1>1, Join
<1>5. PlacementKey(v) = key
  BY <1>1
<1> HIDE DEF key
<1> QED
  BY <1>2, <1>3, <1>4, <1>5

LEMMA TailShape ==
  ASSUME NEW v, GoodVerdict(v), Scoreable(v), v.cohort.contract = "group-points-v1"
  PROVE  /\ Tail2(v) \in Ints
         /\ Len(Tail2(v)) = IF ~WorkTiebreakActive(v) THEN 0
                            ELSE IF v.cohort.proof = "last_tiebreak" THEN 2 ELSE 1
         /\ WorkTiebreakActive(v) => Tail2(v)[1] = RankingWork(v)
         /\ WorkTiebreakActive(v) /\ v.cohort.proof = "last_tiebreak" =>
              Tail2(v)[2] = v.correctness
<1>1. RankingWork(v) \in Int /\ v.correctness \in Int
  BY WorkType, ShapeOfScoreable
<1>2. Tail2(v) \in Ints
  BY MilestoneKeyShape
<1>3. CASE ~WorkTiebreakActive(v)
  <2>1. Tail2(v) = <<>>
    BY <1>3 DEF Tail2
  <2> QED
    BY <1>2, <1>3, <2>1
<1>4. CASE WorkTiebreakActive(v) /\ v.cohort.proof # "last_tiebreak"
  <2>1. Tail2(v) = <<RankingWork(v)>>
    BY <1>1, <1>4, ConcatEmptySeq DEF Tail2
  <2> QED
    BY <1>2, <1>4, <2>1
<1>5. CASE WorkTiebreakActive(v) /\ v.cohort.proof = "last_tiebreak"
  <2> DEFINE a == <<RankingWork(v)>>
             b == <<v.correctness>>
  <2>1. Tail2(v) = a \o b
    BY <1>5 DEF Tail2
  <2>2. a \in Ints /\ b \in Ints /\ Len(a) = 1 /\ Len(b) = 1
        /\ a[1] = RankingWork(v) /\ b[1] = v.correctness
    BY <1>1 DEF Ints
  <2> HIDE DEF a, b
  <2>3. Len(a \o b) = Len(a) + Len(b)
    BY <2>2, Join
  <2>4. \A i \in 1 .. Len(a) : (a \o b)[i] = a[i]
    BY <2>2, Join
  <2>5. \A i \in 1 .. Len(b) : (a \o b)[Len(a) + i] = b[i]
    BY <2>2, Join
  <2>6. (a \o b)[1] = a[1] /\ (a \o b)[1 + 1] = b[1] /\ Len(a \o b) = 1 + 1
    BY <2>2, <2>3, <2>4, <2>5
  <2> QED
    BY <1>2, <1>5, <2>1, <2>2, <2>6
<1> QED
  BY <1>3, <1>4, <1>5

\* Two keys of one cohort have one length, or differ before either ends.
LEMMA OfficialKeysComparable ==
  ASSUME NEW v, NEW w, GoodVerdict(v), GoodVerdict(w), v.cohort = w.cohort,
         Placed(v), Placed(w), v.cohort.mode = "official"
  PROVE  Comparable(PlacementKey(v), PlacementKey(w))
<1>1. Scoreable(v) /\ Scoreable(w)
  BY KeyType
<1>2. CASE v.cohort.contract = "group-points-v1"
  <2>1. /\ PlacementKey(v) \in Ints /\ PlacementKey(w) \in Ints
        /\ Len(PlacementKey(v)) = Len(Head3(v)) + Len(Tail2(v))
        /\ Len(PlacementKey(w)) = Len(Head3(w)) + Len(Tail2(w))
        /\ Len(Head3(v)) = Len(Head3(w)) /\ Len(Head3(v)) \in Nat
        /\ Len(Tail2(v)) \in Nat /\ Len(Tail2(w)) \in Nat
    BY <1>1, <1>2, MilestoneKeyParts, HeadsAlike
  <2>2. CASE WorkTiebreakActive(v) <=> WorkTiebreakActive(w)
    <3>1. Len(Tail2(v)) = Len(Tail2(w))
      BY <1>1, <1>2, <2>2, TailShape
    <3> QED
      BY <2>1, <3>1 DEF Comparable
  <2>3. CASE ~(WorkTiebreakActive(v) <=> WorkTiebreakActive(w))
    <3>1. (Complete(v) /\ ~Complete(w)) \/ (Complete(w) /\ ~Complete(v))
      BY <2>3 DEF WorkTiebreakActive
    <3>2. \E i \in 1 .. Len(Head3(v)) : Head3(v)[i] # Head3(w)[i]
      BY <1>1, <1>2, <2>1, <3>1, FailedCaseShows
    <3>3. PICK i \in 1 .. Len(Head3(v)) : Head3(v)[i] # Head3(w)[i]
      BY <3>2
    <3>4. PlacementKey(v)[i] = Head3(v)[i] /\ PlacementKey(w)[i] = Head3(w)[i]
      BY <1>1, <1>2, <2>1, MilestoneKeyParts
    <3>5. i \in DOMAIN PlacementKey(v) /\ i \in DOMAIN PlacementKey(w)
      BY <2>1 DEF Ints
    <3> QED
      BY <3>3, <3>4, <3>5 DEF Comparable
  <2> QED
    BY <2>2, <2>3
<1>3. CASE v.cohort.contract # "group-points-v1"
  <2>1. CASE v.cohort.contract \in {"computation-total-v1", "full-plan-v1"}
    BY <1>1, <2>1, KeyType DEF PlacementKey, Comparable
  <2>2. CASE v.cohort.contract \notin {"computation-total-v1", "full-plan-v1"}
    <3>1. PlacementKey(v) = LegacyKey(v) /\ PlacementKey(w) = LegacyKey(w)
      BY <1>1, <1>3, <2>2 DEF PlacementKey
    <3> QED
      BY <1>1, <3>1, LegacyKeyType DEF Comparable
  <2> QED
    BY <2>1, <2>2
<1> QED
  BY <1>2, <1>3

-----------------------------------------------------------------------------
(* Doing no worse *)

Within(a, b, n) == n <= Len(a) /\ n <= Len(b)
AtMost(a, b, m, n) == \A i \in m .. n : a[i] <= b[i]
Alike(a, b, n) == \A i \in 1 .. n : a[i] = b[i]

\* A key that is nowhere larger in its first n places, nor after them when
\* those are equal, is not beaten.
LEMMA NotBeaten ==
  ASSUME NEW a \in Ints, NEW b \in Ints, NEW n \in Nat, Within(a, b, n),
         AtMost(a, b, 1, n),
         Alike(a, b, n) => Len(a) = Len(b) /\ AtMost(a, b, n + 1, Len(a))
  PROVE  ~KeyLess(b, a)
<1>1. /\ DOMAIN a = 1 .. Len(a) /\ DOMAIN b = 1 .. Len(b) /\ Len(a) \in Nat /\ Len(b) \in Nat
      /\ \A i \in 1 .. Len(a) : a[i] \in Int
      /\ \A i \in 1 .. Len(b) : b[i] \in Int
  BY DEF Ints
<1> DEFINE k == Len(a)
           l == Len(b)
<1>0. k \in Nat /\ l \in Nat
  BY <1>1
<1>2. ASSUME NEW i \in 1 .. Len(a), i \in 1 .. Len(b), b[i] < a[i], Alike(b, a, i - 1)
      PROVE  FALSE
  <2>1. i \in Nat /\ 1 <= i /\ i <= Len(a)
    <3> HIDE DEF k
    <3>1. \A j \in 1 .. k : j \in Nat /\ 1 <= j /\ j <= k
      BY <1>0
    <3> QED
      BY <3>1 DEF k
  <2>2. a[i] \in Int /\ b[i] \in Int
    BY <1>1, <1>2
  <2>3. ~(a[i] <= b[i])
    BY <1>2, <2>2
  <2>4. CASE i <= n
    BY <2>1, <2>3, <2>4 DEF AtMost
  <2>5. CASE n < i
    <3>1. Alike(a, b, n)
      BY <1>2, <2>1, <2>5 DEF Alike
    <3>2. AtMost(a, b, n + 1, Len(a))
      BY <3>1
    <3>3. i \in n + 1 .. Len(a)
      <4> HIDE DEF k
      <4>1. i <= k
        BY <2>1 DEF k
      <4>2. i \in n + 1 .. k
        BY <1>0, <2>1, <2>5, <4>1
      <4> QED
        BY <4>2 DEF k
    <3> QED
      BY <2>3, <3>2, <3>3 DEF AtMost
  <2> QED
    BY <2>1, <2>4, <2>5
<1>3. ASSUME Len(b) < Len(a), Alike(b, a, Len(b))
      PROVE  FALSE
  <2>1. Alike(a, b, n)
    <3> HIDE DEF k, l
    <3>1. n <= l /\ Alike(b, a, l)
      BY <1>3 DEF Within, l
    <3>2. \A j \in 1 .. n : j \in 1 .. l
      BY <1>0, <3>1
    <3> QED
      BY <3>1, <3>2 DEF Alike
  <2>2. Len(a) = Len(b)
    BY <2>1
  <2> QED
    BY <1>1, <1>3, <2>2
<1>4. ASSUME KeyLess(b, a)
      PROVE  FALSE
  <2>1. \/ \E i \in 1 .. Len(a) : i \in 1 .. Len(b) /\ b[i] < a[i] /\ Alike(b, a, i - 1)
        \/ Len(b) < Len(a) /\ Alike(b, a, Len(b))
    BY <1>1, <1>4 DEF KeyLess, Alike
  <2> QED
    BY <1>2, <1>3, <2>1
<1> QED
  BY <1>4

LEMMA FewerValues ==
  ASSUME NEW v, NEW w, GoodVerdict(v), GoodVerdict(w), Scoreable(v), Scoreable(w),
         v.cohort = w.cohort, DoesNoWorse(v, w), Passed(v) = Passed(w)
  PROVE  RankingWork(v) <= RankingWork(w) /\ v.correctness <= w.correctness
<1> DEFINE f == [s \in Slots(v) |-> v.samples[s].value]
           g == [s \in Slots(w) |-> w.samples[s].value]
           P == Passed(v)
<1>1. /\ P \subseteq Slots(v) /\ Slots(v) = Slots(w) /\ IsFiniteSet(P)
      /\ \A s \in P : v.samples[s].value \in Nat /\ w.samples[s].value \in Nat
  BY ShapeOfScoreable DEF Slots
<1>2. /\ \A s \in P : g[s] \in Nat
      /\ \A s \in P : f[s] \in Int /\ f[s] <= g[s]
  BY <1>1 DEF DoesNoWorse
<1>3. CurveWork(v) <= CurveWork(w)
  <2> HIDE DEF f, g, P
  <2>1. P \in SUBSET P
    OBVIOUS
  <2>2. SumFunctionOnSet(f, P) <= SumFunctionOnSet(g, P)
    BY <1>1, <1>2, <2>1, SumMonotone
  <2>3. CurveWork(v) = SumFunctionOnSet(f, P) /\ CurveWork(w) = SumFunctionOnSet(g, P)
    BY DEF CurveWork, f, g, P
  <2> QED
    BY <2>2, <2>3
<1>4. /\ CurveWork(v) \in Int /\ CurveWork(w) \in Int
      /\ v.correctness \in Nat /\ w.correctness \in Nat /\ v.correctness <= w.correctness
  BY WorkType, ShapeOfScoreable DEF DoesNoWorse
<1>5. TotalWork(v) <= TotalWork(w)
  BY <1>3, <1>4 DEF TotalWork
<1>6. Complete(v) <=> Complete(w)
  BY <1>1 DEF Complete
<1>7. Infinity <= Infinity
  BY InfinityAssumption
<1> QED
  BY <1>3, <1>4, <1>5, <1>6, <1>7 DEF RankingWork

LEMMA MoreGroupPoints ==
  ASSUME NEW v, NEW w, GoodVerdict(v), GoodVerdict(w), Scoreable(v), Scoreable(w),
         v.cohort = w.cohort, v.cohort.contract = "group-points-v1", DoesNoWorse(v, w),
         \A g \in Groups(v.cohort) : v.cohort.groups[g].requires = {},
         NEW g \in Groups(v.cohort)
  PROVE  /\ EligibleGroup(v, g) /\ EligibleGroup(w, g)
         /\ PassedIn(w, g) <= PassedIn(v, g)
         /\ PassedIn(w, g) = PassedIn(v, g) => Passed(v) \intersect GroupSlots(v, g) \subseteq Passed(w)
         /\ GroupPoints(w, g) <= GroupPoints(v, g)
<1>1. EligibleGroup(v, g) /\ EligibleGroup(w, g)
  BY DEF EligibleGroup
<1> DEFINE P == Passed(v) \intersect GroupSlots(v, g)
           Q == Passed(w) \intersect GroupSlots(w, g)
<1>2. Q \subseteq P
  BY DEF DoesNoWorse, GroupSlots
<1>3. IsFiniteSet(P)
  BY ShapeOfScoreable, FS_Subset
<1>4. Cardinality(Q) <= Cardinality(P) /\ (Cardinality(P) = Cardinality(Q) => P = Q)
  BY <1>2, <1>3, FS_Subset
<1>5. PassedIn(v, g) \in Nat /\ PassedIn(w, g) \in Nat
  BY PassedInType
<1>6. PassedIn(w, g) <= PassedIn(v, g)
  BY <1>4 DEF PassedIn
<1>7. ValidTable(v.cohort.groups[g].table)
  BY ShapeOfScoreable DEF ValidPolicy
<1>8. MilestonePoints(v.cohort.groups[g].table, PassedIn(w, g))
        <= MilestonePoints(v.cohort.groups[g].table, PassedIn(v, g))
  BY <1>5, <1>6, <1>7, PointsGrow
<1>9. GroupPoints(w, g) <= GroupPoints(v, g)
  BY <1>1, <1>8 DEF GroupPoints
<1>10. PassedIn(w, g) = PassedIn(v, g) => P \subseteq Passed(w)
  BY <1>4 DEF PassedIn
<1> QED
  BY <1>1, <1>6, <1>9, <1>10

LEMMA MorePoints ==
  ASSUME NEW v, NEW w, GoodVerdict(v), GoodVerdict(w), Scoreable(v), Scoreable(w),
         v.cohort = w.cohort, v.cohort.contract = "group-points-v1", DoesNoWorse(v, w),
         \A g \in Groups(v.cohort) : v.cohort.groups[g].requires = {}
  PROVE  Points(w) <= Points(v)
<1> DEFINE S == Groups(v.cohort)
           f == [g \in Groups(w.cohort) |-> GroupPoints(w, g)]
           h == [g \in Groups(v.cohort) |-> GroupPoints(v, g)]
<1>1. \A g \in S : GroupPoints(v, g) \in Nat /\ GroupPoints(w, g) \in Nat
                   /\ GroupPoints(w, g) <= GroupPoints(v, g)
  BY GroupPointsType, MoreGroupPoints
<1>2. DOMAIN f = S /\ DOMAIN h = S
  OBVIOUS
<1>3. /\ \A g \in S : h[g] \in Nat
      /\ \A g \in S : f[g] \in Int /\ f[g] <= h[g]
  BY <1>1
<1>4. SumFunctionOnSet(f, S) <= SumFunctionOnSet(h, S)
  <2>1. IsFiniteSet(S) /\ S \in SUBSET S
    BY ShapeOfScoreable
  <2> HIDE DEF f, h, S
  <2> QED
    BY <1>3, <2>1, SumMonotone
<1>5. SumFunction(f) = SumFunctionOnSet(f, S) /\ SumFunction(h) = SumFunctionOnSet(h, S)
  <2> HIDE DEF f, h, S
  <2> QED
    BY <1>2 DEF SumFunction
<1>6. Points(w) = SumFunction(f) /\ Points(v) = SumFunction(h)
  BY DEF Points
<1> HIDE DEF f, h, S
<1> QED
  BY <1>4, <1>5, <1>6

LEMMA HeadNoWorse ==
  ASSUME NEW v, NEW w, GoodVerdict(v), GoodVerdict(w), Scoreable(v), Scoreable(w),
         v.cohort = w.cohort, v.cohort.contract = "group-points-v1", DoesNoWorse(v, w),
         \A g \in Groups(v.cohort) : v.cohort.groups[g].requires = {}
  PROVE  /\ AtMost(Head3(v), Head3(w), 1, Len(Head3(v)))
         /\ Alike(Head3(v), Head3(w), Len(Head3(v))) => Passed(v) = Passed(w)
<1> DEFINE n == Len(v.cohort.groups)
           p == Len(v.cohort.plan)
           m == Len(PointsProfile(v))
           c == Len(CaseProfile(v))
           h == Len(Head3(v))
<1>1. /\ n \in Nat /\ Groups(v.cohort) = 1 .. n /\ p \in Nat /\ Slots(v) = 1 .. p
      /\ Slots(w) = Slots(v) /\ Groups(w.cohort) = Groups(v.cohort)
  BY ShapeOfScoreable DEF Slots
<1>2. /\ m = n /\ Len(PointsProfile(w)) = m
      /\ c = IF v.cohort.profile = "hardest_group_then_count" THEN n ELSE p
      /\ Len(CaseProfile(w)) = c /\ m \in Nat /\ c \in Nat
  BY ProfileTypes, HeadParts
<1>3. h = 1 + m + c /\ m \in Nat /\ c \in Nat
  BY MilestoneKeyShape, HeadParts
<1>4. /\ Head3(v)[1] = -Points(v) /\ Head3(w)[1] = -Points(w)
      /\ \A i \in 1 .. m : Head3(v)[1 + i] = PointsProfile(v)[i]
      /\ \A i \in 1 .. m : Head3(w)[1 + i] = PointsProfile(w)[i]
      /\ \A i \in 1 .. c : Head3(v)[1 + m + i] = CaseProfile(v)[i]
      /\ \A i \in 1 .. c : Head3(w)[1 + m + i] = CaseProfile(w)[i]
  <2>1. /\ Head3(v)[1] = -Points(v)
        /\ \A i \in 1 .. m : Head3(v)[1 + i] = PointsProfile(v)[i]
        /\ \A i \in 1 .. c : Head3(v)[1 + m + i] = CaseProfile(v)[i]
    BY HeadParts
  <2>2. /\ Head3(w)[1] = -Points(w)
        /\ \A i \in 1 .. Len(PointsProfile(w)) : Head3(w)[1 + i] = PointsProfile(w)[i]
        /\ \A i \in 1 .. Len(CaseProfile(w)) :
             Head3(w)[1 + Len(PointsProfile(w)) + i] = CaseProfile(w)[i]
    BY HeadParts
  <2>3. Len(PointsProfile(w)) = m /\ Len(CaseProfile(w)) = c
    BY <1>2
  <2> HIDE DEF m, c
  <2> QED
    BY <2>1, <2>2, <2>3
<1>5. -Points(v) <= -Points(w)
  <2>1. Points(v) \in Int /\ Points(w) \in Int /\ Points(w) <= Points(v)
    BY PointsType, MorePoints
  <2> QED
    BY <2>1
<1>6. ASSUME NEW i \in 1 .. m
      PROVE  PointsProfile(v)[i] <= PointsProfile(w)[i]
  <2> DEFINE g == Descending(n)[i]
  <2>1. i \in 1 .. n
    BY <1>2
  <2>2. /\ g \in Groups(v.cohort)
        /\ PointsProfile(v)[i] = -GroupPoints(v, g) /\ PointsProfile(w)[i] = -GroupPoints(w, g)
    BY <2>1, ProfileParts
  <2>3. /\ GroupPoints(v, g) \in Nat /\ GroupPoints(w, g) \in Nat
        /\ GroupPoints(w, g) <= GroupPoints(v, g)
    BY <1>1, <2>2, GroupPointsType, MoreGroupPoints
  <2> HIDE DEF g
  <2> QED
    BY <2>2, <2>3
<1>7. ASSUME NEW i \in 1 .. c
      PROVE  CaseProfile(v)[i] <= CaseProfile(w)[i]
  <2>1. CASE v.cohort.profile = "hardest_group_then_count"
    <3> DEFINE g == Descending(n)[i]
    <3>1. i \in 1 .. n
      BY <1>2, <2>1
    <3>2. g \in Groups(v.cohort)
      BY <3>1, ProfileParts
    <3>3. /\ EligibleGroup(v, g) /\ EligibleGroup(w, g) /\ PassedIn(w, g) <= PassedIn(v, g)
          /\ PassedIn(v, g) \in Nat /\ PassedIn(w, g) \in Nat
      BY <3>2, MoreGroupPoints, PassedInType
    <3>4. CaseProfile(v)[i] = -PassedIn(v, g) /\ CaseProfile(w)[i] = -PassedIn(w, g)
      BY <2>1, <3>1, <3>3, ProfileParts
    <3> HIDE DEF g
    <3> QED
      BY <3>3, <3>4
  <2>2. CASE v.cohort.profile # "hardest_group_then_count"
    <3> DEFINE s == Descending(p)[i]
               g == v.cohort.plan[s].group
    <3>1. i \in 1 .. p
      BY <1>2, <2>2
    <3>2. /\ s \in Slots(v)
          /\ CaseProfile(v)[i] = IF s \in Passed(v) /\ EligibleGroup(v, g) THEN -1 ELSE 0
          /\ CaseProfile(w)[i] = IF s \in Passed(w) /\ EligibleGroup(w, g) THEN -1 ELSE 0
      BY <2>2, <3>1, ProfileParts
    <3>3. g \in Groups(v.cohort)
      BY <3>2, ShapeOfScoreable DEF ValidPolicy, Slots
    <3>4. EligibleGroup(v, g) /\ EligibleGroup(w, g)
      BY <3>3, MoreGroupPoints
    <3>5. s \in Passed(w) => s \in Passed(v)
      BY DEF DoesNoWorse
    <3> HIDE DEF s, g
    <3> QED
      BY <3>2, <3>4, <3>5
  <2> QED
    BY <2>1, <2>2
<1>8. AtMost(Head3(v), Head3(w), 1, h)
  <2> SUFFICES ASSUME NEW j \in 1 .. h
               PROVE  Head3(v)[j] <= Head3(w)[j]
    BY DEF AtMost
  <2> HIDE DEF n, p, m, c, h
  <2>1. \/ j = 1
        \/ \E i \in 1 .. m : j = 1 + i
        \/ \E i \in 1 .. c : j = 1 + m + i
    <3>1. j \in Nat /\ 1 <= j /\ j <= 1 + m + c
      BY <1>3
    <3>2. CASE j <= 1 + m /\ j # 1
      <4>1. j - 1 \in 1 .. m /\ j = 1 + (j - 1)
        BY <1>3, <3>1, <3>2
      <4> QED
        BY <4>1
    <3>3. CASE 1 + m < j
      <4>1. j - 1 - m \in 1 .. c /\ j = 1 + m + (j - 1 - m)
        BY <1>3, <3>1, <3>3
      <4> QED
        BY <4>1
    <3> QED
      BY <1>3, <3>1, <3>2, <3>3
  <2> QED
    BY <1>4, <1>5, <1>6, <1>7, <2>1
<1>9. ASSUME Alike(Head3(v), Head3(w), h)
      PROVE  Passed(v) = Passed(w)
  <2>1. \A i \in 1 .. c : CaseProfile(v)[i] = CaseProfile(w)[i]
    <3> TAKE i \in 1 .. c
    <3> HIDE DEF m, c, h
    <3>1. 1 + m + i \in 1 .. h
      BY <1>3
    <3>2. Head3(v)[1 + m + i] = Head3(w)[1 + m + i]
      BY <1>9, <3>1 DEF Alike
    <3> QED
      BY <1>4, <3>2
  <2>2. ASSUME NEW s \in Passed(v)
        PROVE  s \in Passed(w)
    <3> DEFINE g == v.cohort.plan[s].group
    <3>1. s \in Slots(v) /\ g \in Groups(v.cohort)
      BY ShapeOfScoreable DEF ValidPolicy, Slots
    <3>2. /\ EligibleGroup(v, g) /\ EligibleGroup(w, g)
          /\ PassedIn(v, g) \in Nat /\ PassedIn(w, g) \in Nat
          /\ PassedIn(w, g) = PassedIn(v, g) => Passed(v) \intersect GroupSlots(v, g) \subseteq Passed(w)
      BY <3>1, MoreGroupPoints, PassedInType
    <3>3. CASE v.cohort.profile = "hardest_group_then_count"
      <4> DEFINE i == n + 1 - g
      <4>1. i \in 1 .. n /\ Descending(n)[i] = g
        BY <1>1, <3>1, DescendingReaches
      <4>2. CaseProfile(v)[i] = -PassedIn(v, g) /\ CaseProfile(w)[i] = -PassedIn(w, g)
        BY <3>2, <3>3, <4>1, ProfileParts
      <4>3. CaseProfile(v)[i] = CaseProfile(w)[i]
        BY <1>2, <2>1, <3>3, <4>1
      <4> HIDE DEF i
      <4>4. PassedIn(v, g) = PassedIn(w, g)
        BY <3>2, <4>2, <4>3
      <4>5. s \in GroupSlots(v, g)
        BY <3>1 DEF GroupSlots, PlannedIn, Slots
      <4> QED
        BY <3>2, <4>4, <4>5
    <3>4. CASE v.cohort.profile # "hardest_group_then_count"
      <4> DEFINE i == p + 1 - s
      <4>1. i \in 1 .. p /\ Descending(p)[i] = s
        BY <1>1, <3>1, DescendingReaches
      <4>2. /\ CaseProfile(v)[i] = IF s \in Passed(v) /\ EligibleGroup(v, g) THEN -1 ELSE 0
            /\ CaseProfile(w)[i] = IF s \in Passed(w) /\ EligibleGroup(w, g) THEN -1 ELSE 0
        <5>1. CaseProfile(v)[i] = IF s \in Passed(v) /\ EligibleGroup(v, g) THEN -1 ELSE 0
          BY <3>4, <4>1, ProfileParts
        <5>2. CaseProfile(w)[i] = IF s \in Passed(w) /\ EligibleGroup(w, g) THEN -1 ELSE 0
          BY <3>4, <4>1, ProfileParts
        <5> QED
          BY <5>1, <5>2
      <4>3. CaseProfile(v)[i] = CaseProfile(w)[i]
        BY <1>2, <2>1, <3>4, <4>1
      <4> HIDE DEF i, g
      <4> QED
        BY <3>2, <4>2, <4>3
    <3> QED
      BY <3>3, <3>4
  <2> QED
    BY <2>2 DEF DoesNoWorse
<1> QED
  BY <1>8, <1>9

LEMMA MilestoneKeyNoWorse ==
  ASSUME NEW v, NEW w, GoodVerdict(v), GoodVerdict(w), Scoreable(v), Scoreable(w),
         v.cohort = w.cohort, v.cohort.contract = "group-points-v1", DoesNoWorse(v, w),
         \A g \in Groups(v.cohort) : v.cohort.groups[g].requires = {}
  PROVE  ~KeyLess(PlacementKey(w), PlacementKey(v))
<1> DEFINE a == PlacementKey(v)
           b == PlacementKey(w)
           h == Len(Head3(v))
           t == Len(Tail2(v))
           u == Len(Tail2(w))
<1>1. h \in Nat /\ t \in Nat /\ u \in Nat /\ Len(Head3(w)) = h
  BY MilestoneKeyParts, HeadsAlike
<1>2. a \in Ints /\ b \in Ints /\ Len(a) = h + t /\ Len(b) = h + u
  <2>1. b \in Ints /\ Len(b) = Len(Head3(w)) + u
    BY MilestoneKeyParts
  <2> QED
    BY <1>1, <2>1, MilestoneKeyParts
<1>3. /\ \A i \in 1 .. h : a[i] = Head3(v)[i]
      /\ \A i \in 1 .. t : a[h + i] = Tail2(v)[i]
  BY MilestoneKeyParts
<1>4. /\ \A i \in 1 .. h : b[i] = Head3(w)[i]
      /\ \A i \in 1 .. u : b[h + i] = Tail2(w)[i]
  <2>1. /\ \A i \in 1 .. Len(Head3(w)) : b[i] = Head3(w)[i]
        /\ \A i \in 1 .. u : b[Len(Head3(w)) + i] = Tail2(w)[i]
    BY MilestoneKeyParts
  <2> HIDE DEF h, b, u
  <2> QED
    BY <1>1, <2>1
<1>5. AtMost(a, b, 1, h)
  <2>1. AtMost(Head3(v), Head3(w), 1, h)
    BY HeadNoWorse
  <2> HIDE DEF a, b, h
  <2> QED
    BY <1>3, <1>4, <2>1 DEF AtMost
<1>6. ASSUME Alike(a, b, h)
      PROVE  Len(a) = Len(b) /\ AtMost(a, b, h + 1, Len(a))
  <2>1. Alike(Head3(v), Head3(w), h)
    <3> HIDE DEF a, b, h
    <3> QED
      BY <1>3, <1>4, <1>6 DEF Alike
  <2>2. Passed(v) = Passed(w)
    BY <2>1, HeadNoWorse
  <2>3. /\ RankingWork(v) <= RankingWork(w) /\ v.correctness <= w.correctness
    BY <2>2, FewerValues
  <2>4. WorkTiebreakActive(v) <=> WorkTiebreakActive(w)
    BY <2>2 DEF WorkTiebreakActive, Complete, Slots
  <2>5. /\ t = IF ~WorkTiebreakActive(v) THEN 0
               ELSE IF v.cohort.proof = "last_tiebreak" THEN 2 ELSE 1
        /\ WorkTiebreakActive(v) => Tail2(v)[1] = RankingWork(v)
        /\ WorkTiebreakActive(v) /\ v.cohort.proof = "last_tiebreak" =>
             Tail2(v)[2] = v.correctness
    BY TailShape
  <2>6. /\ u = IF ~WorkTiebreakActive(w) THEN 0
               ELSE IF w.cohort.proof = "last_tiebreak" THEN 2 ELSE 1
        /\ WorkTiebreakActive(w) => Tail2(w)[1] = RankingWork(w)
        /\ WorkTiebreakActive(w) /\ w.cohort.proof = "last_tiebreak" =>
             Tail2(w)[2] = w.correctness
    BY TailShape
  <2>7. t = u
    BY <2>4, <2>5, <2>6
  <2>8. t \in {0, 1, 2}
    BY <2>5
  <2>9. /\ t # 0 => Tail2(v)[1] <= Tail2(w)[1]
        /\ t = 2 => Tail2(v)[2] <= Tail2(w)[2]
    BY <2>3, <2>4, <2>5, <2>6
  <2> HIDE DEF a, b, h, t, u
  <2>10. \A i \in 1 .. t : Tail2(v)[i] <= Tail2(w)[i]
    <3>1. \A i \in 1 .. t : i = 1 \/ (i = 2 /\ t = 2)
      BY <2>8
    <3> QED
      BY <2>8, <2>9, <3>1
  <2>11. ASSUME NEW j \in h + 1 .. Len(a)
         PROVE  a[j] <= b[j]
    <3>1. j - h \in 1 .. t /\ j = h + (j - h)
      BY <1>1, <1>2
    <3>2. a[h + (j - h)] = Tail2(v)[j - h] /\ b[h + (j - h)] = Tail2(w)[j - h]
      BY <1>3, <1>4, <2>7, <3>1
    <3>3. Tail2(v)[j - h] <= Tail2(w)[j - h]
      BY <2>10, <3>1
    <3>4. a[j] = Tail2(v)[j - h] /\ b[j] = Tail2(w)[j - h]
      BY <3>1, <3>2
    <3> QED
      BY <3>3, <3>4
  <2>12. Len(a) = Len(b)
    BY <1>2, <2>7
  <2> QED
    BY <2>11, <2>12 DEF AtMost
<1>7. Within(a, b, h)
  <2> HIDE DEF a, b, h, t, u
  <2> QED
    BY <1>1, <1>2 DEF Within
<1> HIDE DEF a, b, h, t, u
<1>8. ~KeyLess(b, a)
  BY <1>1, <1>2, <1>5, <1>6, <1>7, NotBeaten
<1> QED
  BY <1>8 DEF a, b

LEMMA ShortKeyNoWorse ==
  ASSUME NEW v, NEW w, GoodVerdict(v), GoodVerdict(w), Scoreable(v), Placed(w),
         v.cohort = w.cohort, DoesNoWorse(v, w),
         v.cohort.contract \in {"computation-total-v1", "full-plan-v1"}
  PROVE  Placed(v) /\ ~KeyLess(PlacementKey(w), PlacementKey(v))
<1>1. Scoreable(w)
  BY KeyType
<1>2. Complete(w) => Complete(v) /\ Passed(v) = Passed(w)
  BY <1>1, ShapeOfScoreable DEF Complete, DoesNoWorse, Slots
<1>3. /\ RankingWork(v) \in Int /\ RankingWork(w) \in Int
      /\ Complete(w) => RankingWork(v) <= RankingWork(w)
  BY <1>1, <1>2, WorkType, FewerValues
<1>4. CASE v.cohort.contract = "computation-total-v1"
  <2>1. Complete(w) /\ Complete(v)
    BY <1>2, <1>4, KeyType
  <2>2. PlacementKey(v) = <<RankingWork(v)>> /\ PlacementKey(w) = <<RankingWork(w)>>
    BY <1>1, <1>4, <2>1 DEF PlacementKey
  <2>3. ~(RankingWork(w) < RankingWork(v))
    BY <1>3, <2>1
  <2>4. \A x, y \in Int : ~(y < x) => ~KeyLess(<<y>>, <<x>>)
    BY DEF KeyLess
  <2>5. ~KeyLess(<<RankingWork(w)>>, <<RankingWork(v)>>)
    BY <1>3, <2>3, <2>4
  <2> QED
    BY <2>2, <2>5 DEF Placed, Unplaced
<1>5. CASE v.cohort.contract = "full-plan-v1"
  <2>1. /\ PlacementKey(v) = <<-Points(v), RankingWork(v)>>
        /\ PlacementKey(w) = <<-Points(w), RankingWork(w)>>
    BY <1>1, <1>5 DEF PlacementKey
  <2>2. /\ Points(v) = IF Complete(v) THEN 100 ELSE 0
        /\ Points(w) = IF Complete(w) THEN 100 ELSE 0
    BY <1>5 DEF Points
  <2>3. ~Complete(v) /\ ~Complete(w) => RankingWork(v) = Infinity /\ RankingWork(w) = Infinity
    BY <1>5 DEF RankingWork
  <2>4. /\ -Points(v) \in Int /\ -Points(w) \in Int
        /\ \/ -Points(v) < -Points(w)
           \/ -Points(v) = -Points(w) /\ ~(RankingWork(w) < RankingWork(v))
    BY <1>2, <1>3, <2>2, <2>3, InfinityAssumption
  <2>5. \A p, q, x, y \in Int : p < q \/ (p = q /\ ~(y < x)) => ~KeyLess(<<q, y>>, <<p, x>>)
    BY DEF KeyLess
  <2>6. ~KeyLess(<<-Points(w), RankingWork(w)>>, <<-Points(v), RankingWork(v)>>)
    BY <1>3, <2>4, <2>5
  <2> QED
    BY <2>1, <2>6 DEF Placed, Unplaced
<1> QED
  BY <1>4, <1>5

\* Who passes what another one passes, and nothing at a higher cost, is placed
\* if the other one is, and not behind it.
LEMMA NoWorseIsNotBeaten ==
  ASSUME NEW v, NEW w, GoodVerdict(v), GoodVerdict(w), Scoreable(v), Placed(w),
         v.cohort = w.cohort, v.cohort.contract # "legacy", DoesNoWorse(v, w),
         \A g \in Groups(v.cohort) : v.cohort.groups[g].requires = {}
  PROVE  Placed(v) /\ ~KeyLess(PlacementKey(w), PlacementKey(v))
<1>1. Scoreable(w)
  BY KeyType
<1>2. v.cohort.contract \in Contracts
  BY ShapeOfScoreable DEF ValidPolicy
<1>3. CASE v.cohort.contract \in {"computation-total-v1", "full-plan-v1"}
  BY <1>3, ShortKeyNoWorse
<1>4. CASE v.cohort.contract = "group-points-v1"
  <2>1. ~KeyLess(PlacementKey(w), PlacementKey(v))
    BY <1>1, <1>4, MilestoneKeyNoWorse
  <2>2. /\ PlacementKey(v) \in Ints
        /\ Len(PlacementKey(v)) = Len(Head3(v)) + Len(Tail2(v))
        /\ Len(Head3(v)) = 1 + Len(PointsProfile(v)) + Len(CaseProfile(v))
        /\ Len(Tail2(v)) \in Nat /\ Len(PointsProfile(v)) \in Nat /\ Len(CaseProfile(v)) \in Nat
    BY <1>4, MilestoneKeyParts, MilestoneKeyShape, HeadParts
  <2>3. Len(PlacementKey(v)) # 0
    BY <2>2
  <2>4. PlacementKey(v) # <<>>
    BY <2>3
  <2> QED
    BY <2>1, <2>4 DEF Placed, Unplaced
<1> QED
  BY <1>2, <1>3, <1>4 DEF Contracts

-----------------------------------------------------------------------------
(* The inductive invariant *)

AdmittedBy(t, f) == IF t = "score" THEN AdmittedByScorer(f) ELSE AdmittedByLeaderboard(f)

\* The placed files tool t ranks on f's board, and those ahead of f.
Rivals(t, f) ==
  {g \in Names : AdmittedBy(t, g) /\ BoardOf(g) = BoardOf(f) /\ Placed(files[g])}
Ahead(t, f) == {g \in Rivals(t, f) : KeyLess(Key(g), Key(f))}

\* The rank f should have, as a function of the files alone.
CompetitionRank(t, f) ==
  IF Placed(files[f]) THEN 1 + Cardinality(Ahead(t, f)) ELSE NoRank

Listed(t, f) == \E e \in report[t] : e.file = f

TypeInv ==
  /\ files \in FileSets /\ allowSplit \in BOOLEAN /\ tool \in Tools
  /\ phase \in {"read", "boards", "refused", "failed", "done"}
  /\ rows \in Seq(loaded) /\ ranks \in Seq(Nat)
  /\ currentRank \in Nat /\ scoredPosition \in Nat
  /\ report \in [Tools -> SUBSET [file : Names, rank : Nat]]

PhaseInv ==
  /\ phase = "refused" => tool = "score"
  /\ phase \in {"failed", "done"} => tool = "leaderboard"
  /\ loaded = IF phase = "read" THEN {} ELSE {f \in Names : Admitted(f)}

\* A board is reported whole, and every entry has the rank it should have.
ReportInv ==
  /\ \A t \in Tools : \A e \in report[t] :
       /\ AdmittedBy(t, e.file) /\ e.rank = CompetitionRank(t, e.file)
       /\ \A g \in Rivals(t, e.file) : Listed(t, g)
  /\ phase = "done" =>
       \A f \in Names : AdmittedByLeaderboard(f) /\ Placed(files[f]) => Listed("leaderboard", f)

\* While a board is walked, rows are all of its rows.
RowsInv ==
  rows # <<>> =>
    /\ phase = "boards"
    /\ \A i, j \in DOMAIN rows : rows[i] = rows[j] => i = j
    /\ \E b \in Boards : {rows[i] : i \in DOMAIN rows} = Ranked(b)
    /\ InRankOrder(rows)

\* The ranks given so far are right, and the locals stand where they should.
WalkInv ==
  /\ rows = <<>> => ranks = <<>>
  /\ rows # <<>> =>
       /\ Len(ranks) <= Len(rows)
       /\ \A i \in DOMAIN ranks : ranks[i] = CompetitionRank(tool, rows[i])
       /\ Len(ranks) = 0 => scoredPosition = 0 /\ previous = Unplaced
       /\ Len(ranks) > 0 /\ Key(rows[Len(ranks)]) # Unplaced =>
            /\ scoredPosition = Len(ranks) /\ previous = Key(rows[Len(ranks)])
            /\ currentRank = ranks[Len(ranks)]

\* No canonical row comes from a round that is split between cohorts.
SplitInv ==
  (tool = "score" /\ phase = "boards") \/ report["score"] # {} =>
    allowSplit \/ ~SplitRound({f \in Names : AdmittedByScorer(f)})

IInv == TypeInv /\ PhaseInv /\ ReportInv /\ RowsInv /\ WalkInv /\ SplitInv

-----------------------------------------------------------------------------
(* What the walk counts *)

LEMMA FileFacts ==
  ASSUME files \in FileSets
  PROVE  /\ IsFiniteSet(Names)
         /\ \A f \in Names : /\ GoodVerdict(files[f]) /\ Key(f) \in Ints
                             /\ Placed(files[f]) <=> Key(f) # Unplaced
                             /\ Placed(files[f]) => Scoreable(files[f])
         /\ \A f, g \in Names :
              Scoreable(files[f]) /\ Scoreable(files[g]) /\ BoardOf(f) = BoardOf(g)
              => files[f].cohort = files[g].cohort
<1>1. ValidFiles(files)
  BY FilesAssumption
<1>2. IsFiniteSet(Names)
  BY <1>1 DEF ValidFiles, Names
<1>3. ASSUME NEW f \in Names
      PROVE  /\ GoodVerdict(files[f]) /\ Key(f) \in Ints
             /\ Placed(files[f]) <=> Key(f) # Unplaced
             /\ Placed(files[f]) => Scoreable(files[f])
  <2>1. GoodVerdict(files[f])
    BY <1>1 DEF ValidFiles, GoodVerdict, Names
  <2> QED
    BY <2>1, KeyType DEF Key, Placed
<1>4. ASSUME NEW f \in Names, NEW g \in Names,
             Scoreable(files[f]), Scoreable(files[g]), BoardOf(f) = BoardOf(g)
      PROVE  files[f].cohort = files[g].cohort
  <2>1. files[f].sealed /\ files[g].sealed
    BY <1>4 DEF Scoreable, MeasurementContractHolds
  <2>2. files[f].cohort.id = files[g].cohort.id
    BY <1>4 DEF BoardOf
  <2> QED
    BY <1>1, <2>1, <2>2 DEF ValidFiles, Names
<1> QED
  BY <1>2, <1>3, <1>4

LEMMA RankType ==
  ASSUME files \in FileSets, NEW t, NEW f
  PROVE  /\ IsFiniteSet(Ahead(t, f)) /\ Cardinality(Ahead(t, f)) \in Nat
         /\ CompetitionRank(t, f) \in Nat
         /\ CompetitionRank(t, f) # NoRank <=> Placed(files[f])
<1>1. Ahead(t, f) \subseteq Names
  BY DEF Ahead, Rivals
<1>2. IsFiniteSet(Ahead(t, f))
  BY <1>1, FileFacts, FS_Subset
<1>3. Cardinality(Ahead(t, f)) \in Nat
  BY <1>2, FS_CardinalityType
<1> QED
  BY <1>2, <1>3 DEF CompetitionRank, NoRank

\* order holds the rows of a board t admits, best first, and after n of them a
\* placed one.
Walks(t, order, n) ==
  /\ \E m \in Nat : DOMAIN order = 1 .. m /\ n < m
  /\ \A i \in DOMAIN order : order[i] \in Names /\ BoardOf(order[i]) = BoardOf(order[n + 1])
  /\ \A i, j \in DOMAIN order : order[i] = order[j] => i = j
  /\ InRankOrder(order)
  /\ Key(order[n + 1]) # Unplaced
  /\ \A i \in DOMAIN order : Placed(files[order[i]]) => order[i] \in Rivals(t, order[n + 1])
  /\ \A g \in Rivals(t, order[n + 1]) : \E i \in DOMAIN order : g = order[i]

\* The n rows before are placed.  They are the rows ahead of it, unless the
\* last of them has its key; then both have the same rows ahead.
LEMMA NextRank ==
  ASSUME files \in FileSets, NEW t, NEW order, NEW n \in Nat, Walks(t, order, n)
  PROVE  /\ \A i \in 1 .. n : Key(order[i]) # Unplaced
         /\ n = 0 \/ Key(order[n]) # Key(order[n + 1]) =>
              CompetitionRank(t, order[n + 1]) = n + 1
         /\ n # 0 /\ Key(order[n]) = Key(order[n + 1]) =>
              CompetitionRank(t, order[n + 1]) = CompetitionRank(t, order[n])
<1> DEFINE k == n + 1
           K(i) == Key(order[i])
<1>0. /\ k \in DOMAIN order
      /\ \A i \in DOMAIN order : i \in Nat /\ 1 <= i /\ order[i] \in Names
                                 /\ BoardOf(order[i]) = BoardOf(order[k])
      /\ \A i \in 1 .. n : i \in DOMAIN order /\ i < k
      /\ \A i, j \in DOMAIN order : order[i] = order[j] => i = j
      /\ Key(order[k]) # Unplaced
  BY DEF Walks
<1>1. k \in DOMAIN order /\ Placed(files[order[k]])
  BY <1>0, FileFacts
<1>2. \A i \in DOMAIN order : K(i) \in Ints /\ order[i] \in Names /\ i \in Nat
  BY <1>0, FileFacts
<1>3. \A i, j \in DOMAIN order : i < j =>
        /\ K(i) = Unplaced => K(j) = Unplaced
        /\ K(j) # Unplaced => ~KeyLess(K(j), K(i))
  BY DEF Walks, InRankOrder
<1>4. \A i \in 1 .. n : i \in DOMAIN order /\ i < k
  BY <1>0
<1>5. \A i \in 1 .. n : K(i) # Unplaced
  BY <1>0, <1>1, <1>3, <1>4
<1> HIDE DEF K
<1>6. ASSUME n = 0 \/ K(n) # K(k)
      PROVE  Ahead(t, order[k]) = {order[i] : i \in 1 .. n}
  <2>1. ASSUME NEW i \in 1 .. n
        PROVE  KeyLess(K(i), K(k))
    <3>1. /\ i \in DOMAIN order /\ n \in DOMAIN order /\ n # 0 /\ K(n) \in Ints
          /\ K(i) \in Ints /\ K(k) \in Ints /\ ~KeyLess(K(k), K(i)) /\ ~KeyLess(K(k), K(n))
      <4>1. n \in 1 .. n /\ n # 0
        OBVIOUS
      <4>2. /\ i \in DOMAIN order /\ i < k /\ K(i) # Unplaced
            /\ n \in DOMAIN order /\ n < k /\ K(n) # Unplaced
        BY <1>4, <1>5, <4>1
      <4>3. K(k) # Unplaced
        BY <1>0 DEF K
      <4> HIDE DEF k
      <4> QED
        BY <1>1, <1>2, <1>3, <4>1, <4>2, <4>3
    <3>2. KeyLess(K(n), K(k))
      BY <1>6, <3>1, KeyLessTotal
    <3>3. CASE K(i) = K(k)
      <4>1. i # n
        BY <1>6, <3>1, <3>3
      <4>2. ~KeyLess(K(n), K(i))
        BY <1>3, <1>5, <3>1, <4>1
      <4> QED
        BY <3>2, <3>3, <4>2
    <3> QED
      BY <3>1, <3>3, KeyLessTotal
  <2>2. ASSUME NEW i \in DOMAIN order, i \notin 1 .. n, K(i) # Unplaced
        PROVE  ~KeyLess(K(i), K(k))
    <3>1. CASE i = k
      BY <1>2, <3>1, KeyLessIrreflexive
    <3>2. CASE k < i
      <4> HIDE DEF k
      <4> QED
        BY <1>1, <1>3, <2>2, <3>2
    <3>3. i = k \/ k < i
      BY <1>0, <2>2
    <3> QED
      BY <3>1, <3>2, <3>3
  <2>3. \A i \in 1 .. n : Placed(files[order[i]])
    BY <1>2, <1>4, <1>5, FileFacts DEF K
  <2>4. Ahead(t, order[k]) \subseteq {order[i] : i \in 1 .. n}
    <3> SUFFICES ASSUME NEW g \in Ahead(t, order[k])
                 PROVE  g \in {order[i] : i \in 1 .. n}
      OBVIOUS
    <3>1. g \in Rivals(t, order[k]) /\ Placed(files[g]) /\ KeyLess(Key(g), Key(order[k]))
      BY DEF Ahead, Rivals
    <3>2. PICK i \in DOMAIN order : g = order[i]
      BY <3>1 DEF Walks
    <3>3. K(i) # Unplaced /\ KeyLess(K(i), K(k))
      BY <1>2, <3>1, <3>2, FileFacts DEF K
    <3>4. i \in 1 .. n
      BY <2>2, <3>3
    <3> QED
      BY <3>2, <3>4
  <2>5. {order[i] : i \in 1 .. n} \subseteq Ahead(t, order[k])
    BY <1>4, <2>1, <2>3 DEF Ahead, K, Walks
  <2> QED
    BY <2>4, <2>5
<1>7. ASSUME n = 0 \/ K(n) # K(k)
      PROVE  CompetitionRank(t, order[k]) = n + 1
  <2> DEFINE first == [i \in 1 .. n |-> order[i]]
  <2>1. first \in Bijection(1 .. n, {order[i] : i \in 1 .. n})
    BY <1>0 DEF Bijection, Injection, Surjection, IsInjective
  <2>2. Cardinality({order[i] : i \in 1 .. n}) = n
    BY <2>1, FS_CountingElements DEF ExistsBijection
  <2>3. Cardinality(Ahead(t, order[k])) = n
    BY <1>6, <1>7, <2>2
  <2> QED
    BY <1>1, <2>3 DEF CompetitionRank
<1>8. ASSUME n # 0, K(n) = K(k)
      PROVE  CompetitionRank(t, order[k]) = CompetitionRank(t, order[n])
  <2>1. n \in DOMAIN order /\ Placed(files[order[n]])
    BY <1>2, <1>4, <1>5, <1>8, FileFacts DEF K
  <2>2. Rivals(t, order[n]) = Rivals(t, order[k])
    <3>1. BoardOf(order[n]) = BoardOf(order[k])
      BY <1>0, <2>1
    <3> QED
      BY <3>1 DEF Rivals
  <2>3. Ahead(t, order[n]) = Ahead(t, order[k])
    BY <1>8, <2>2 DEF Ahead, K
  <2> QED
    BY <1>1, <2>1, <2>3 DEF CompetitionRank
<1> QED
  BY <1>5, <1>7, <1>8 DEF K

-----------------------------------------------------------------------------
(* The invariant holds *)

\* On a board, the rows to be ranked hold all the placed files admitted to it.
LEMMA BoardFacts ==
  ASSUME TypeInv, PhaseInv, phase # "read", NEW b
  PROVE  /\ loaded \subseteq Names /\ Ranked(b) \subseteq loaded
         /\ IsFiniteSet(Ranked(b)) /\ Cardinality(Ranked(b)) \in Nat
         /\ \A f \in Ranked(b) :
              /\ AdmittedBy(tool, f) /\ BoardOf(f) = b
              /\ Rivals(tool, f) = {g \in Ranked(b) : Placed(files[g])}
<1>1. loaded = {f \in Names : AdmittedBy(tool, f)}
  BY DEF PhaseInv, Admitted, AdmittedBy
<1>2. Ranked(b) \subseteq loaded /\ \A f \in Ranked(b) : BoardOf(f) = b
  BY DEF Ranked, Members
<1>3. loaded \subseteq Names
  BY <1>1
<1>4. IsFiniteSet(Ranked(b))
  BY <1>2, <1>3, FileFacts, FS_Subset DEF TypeInv
<1>5. Cardinality(Ranked(b)) \in Nat
  BY <1>4, FS_CardinalityType
<1>6. ASSUME NEW f \in Ranked(b)
      PROVE  Rivals(tool, f) = {g \in Ranked(b) : Placed(files[g])}
  <2>1. ASSUME NEW g \in Rivals(tool, f)
        PROVE  g \in Ranked(b) /\ Placed(files[g])
    <3>1. g \in loaded /\ BoardOf(g) = b /\ Placed(files[g])
      BY <1>1, <1>2 DEF Rivals
    <3>2. Scoreable(files[g])
      BY <1>3, <3>1, FileFacts DEF TypeInv
    <3> QED
      BY <3>1, <3>2 DEF Ranked, Members
  <2>2. ASSUME NEW g \in Ranked(b), Placed(files[g])
        PROVE  g \in Rivals(tool, f)
    BY <1>1, <1>2, <2>2 DEF Rivals
  <2>3. Rivals(tool, f) \subseteq {g \in Ranked(b) : Placed(files[g])}
    BY <2>1
  <2>4. {g \in Ranked(b) : Placed(files[g])} \subseteq Rivals(tool, f)
    BY <2>2
  <2> QED
    BY <2>3, <2>4
<1>7. \A f \in Ranked(b) : AdmittedBy(tool, f)
  BY <1>1, <1>2
<1> QED
  BY <1>2, <1>3, <1>4, <1>5, <1>6, <1>7

LEMMA InitInvariant == Init => IInv
<1> SUFFICES ASSUME Init
             PROVE  IInv
  OBVIOUS
<1>1. TypeInv
  BY DEF Init, TypeInv, Tools
<1>2. PhaseInv
  BY DEF Init, PhaseInv
<1>3. ReportInv
  BY DEF Init, ReportInv
<1>4. RowsInv /\ WalkInv
  BY DEF Init, RowsInv, WalkInv
<1>5. SplitInv
  BY DEF Init, SplitInv, Tools
<1> QED
  BY <1>1, <1>2, <1>3, <1>4, <1>5 DEF IInv

\* What depends on the files only does not change.
LEMMA FilesStay ==
  ASSUME files' = files
  PROVE  /\ Names' = Names
         /\ \A f : Key(f)' = Key(f) /\ BoardOf(f)' = BoardOf(f)
         /\ \A t, f : /\ AdmittedBy(t, f)' <=> AdmittedBy(t, f)
                      /\ Rivals(t, f)' = Rivals(t, f)
                      /\ CompetitionRank(t, f)' = CompetitionRank(t, f)
<1>1. Names' = Names
  BY DEF Names
<1>2. ASSUME NEW f
      PROVE  Key(f)' = Key(f) /\ BoardOf(f)' = BoardOf(f)
  BY DEF Key, BoardOf
<1>3. ASSUME NEW t, NEW f
      PROVE  AdmittedBy(t, f)' <=> AdmittedBy(t, f)
  BY DEF AdmittedBy, AdmittedByScorer, AdmittedByLeaderboard
<1>4. ASSUME NEW t, NEW f
      PROVE  Rivals(t, f)' = Rivals(t, f)
  BY <1>1, <1>2, <1>3 DEF Rivals
<1>5. ASSUME NEW t, NEW f
      PROVE  CompetitionRank(t, f)' = CompetitionRank(t, f)
  <2>1. Ahead(t, f)' = Ahead(t, f)
    BY <1>2, <1>4 DEF Ahead
  <2> QED
    BY <2>1 DEF CompetitionRank
<1> QED
  BY <1>1, <1>2, <1>3, <1>4, <1>5

LEMMA FilesNeverChange ==
  ASSUME [Next]_vars
  PROVE  files' = files /\ allowSplit' = allowSplit
BY DEF Next, vars, Load, SortBoard, SortFails, RankUnplaced, RankPlaced, FinishBoard, Publish

\* Whatever is reported next is an entry of a board just ranked, or was there.
LEMMA ReportedBefore ==
  ASSUME IInv, [Next]_vars, NEW t \in Tools, ~(FinishBoard /\ t = tool)
  PROVE  /\ report'[t] \subseteq report[t]
         /\ \A e \in report[t] : Placed(files[e.file]) => e \in report'[t]
<1>1. report \in [Tools -> SUBSET [file : Names, rank : Nat]]
  BY DEF IInv, TypeInv
<1>2. CASE report' = report
  BY <1>2
<1>3. CASE FinishBoard
  BY <1>1, <1>3 DEF FinishBoard
<1>4. CASE Publish
  <2>1. CASE t # tool
    BY <1>1, <1>4, <2>1 DEF Publish
  <2>2. CASE t = tool
    <3>1. report'[t] = {e \in report[t] : Shown(e.file)}
      BY <1>1, <1>4, <2>2 DEF Publish
    <3>2. \A e \in report[t] : Placed(files[e.file]) => Shown(e.file)
      BY DEF Shown, Placed, Key
    <3> QED
      BY <3>1, <3>2
  <2> QED
    BY <2>1, <2>2
<1> QED
  BY <1>2, <1>3, <1>4
  DEF Next, vars, Load, SortBoard, SortFails, RankUnplaced, RankPlaced

\* The entries of a board that has just been ranked.
LEMMA RankedBoard ==
  ASSUME IInv, FinishBoard
  PROVE  \E b \in Boards :
           /\ report'[tool] = report[tool] \union {[file |-> rows[i], rank |-> ranks[i]] : i \in DOMAIN rows}
           /\ {rows[i] : i \in DOMAIN rows} = Ranked(b)
           /\ \A i \in DOMAIN rows :
                /\ i \in DOMAIN ranks /\ ranks[i] \in Nat
                /\ rows[i] \in Ranked(b) /\ ranks[i] = CompetitionRank(tool, rows[i])
<1>1. PICK b \in Boards : {rows[i] : i \in DOMAIN rows} = Ranked(b)
  BY DEF FinishBoard, IInv, RowsInv
<1>2. report'[tool] = report[tool] \union {[file |-> rows[i], rank |-> ranks[i]] : i \in DOMAIN rows}
  BY DEF FinishBoard, IInv, TypeInv
<1>3. DOMAIN rows = DOMAIN ranks
  BY DEF FinishBoard, IInv, TypeInv
<1>4. \A i \in DOMAIN ranks : ranks[i] \in Nat
  BY DEF IInv, TypeInv
<1>5. \A i \in DOMAIN ranks : ranks[i] = CompetitionRank(tool, rows[i])
  BY DEF FinishBoard, IInv, WalkInv
<1> QED
  BY <1>1, <1>2, <1>3, <1>4, <1>5

LEMMA TypeStep ==
  ASSUME IInv, [Next]_vars
  PROVE  TypeInv'
<1>1. files' \in FileSets /\ allowSplit' \in BOOLEAN /\ Names' = Names
  BY FilesNeverChange, FilesStay DEF IInv, TypeInv
<1>2. tool' \in Tools
  BY DEF IInv, TypeInv, Tools, Next, vars, Load, SortBoard, SortFails, RankUnplaced, RankPlaced,
         FinishBoard, Publish
<1>3. phase' \in {"read", "boards", "refused", "failed", "done"}
  BY DEF IInv, TypeInv, Next, vars, Load, SortBoard, SortFails, RankUnplaced, RankPlaced,
         FinishBoard, Publish
<1>4. rows' \in Seq(loaded')
  <2>1. CASE Load
    <3>1. rows = <<>> /\ rows' = rows
      BY <2>1 DEF Load, locals, IInv, RowsInv
    <3> QED
      BY <3>1
  <2>2. ASSUME NEW b \in Boards, SortBoard(b)
        PROVE  rows' \in Seq(loaded')
    <3>1. rows' \in Orders(Ranked(b)) /\ loaded' = loaded
      BY <2>2 DEF SortBoard
    <3>2. rows' \in [1 .. Cardinality(Ranked(b)) -> Ranked(b)]
      BY <3>1 DEF Orders
    <3>3. Ranked(b) \subseteq loaded /\ Cardinality(Ranked(b)) \in Nat
      BY <2>2, BoardFacts DEF IInv, SortBoard, ReadyToSort
    <3>4. rows' \in [1 .. Cardinality(Ranked(b)) -> loaded]
      BY <3>2, <3>3
    <3> QED
      BY <3>1, <3>3, <3>4
  <2>3. CASE FinishBoard
    BY <2>3 DEF FinishBoard
  <2>4. CASE Publish
    BY <2>4 DEF Publish, locals
  <2>5. CASE rows' = rows /\ loaded' = loaded
    BY <2>5 DEF IInv, TypeInv
  <2> QED
    BY <2>1, <2>2, <2>3, <2>4, <2>5
    DEF Next, vars, locals, SortFails, RankUnplaced, RankPlaced
<1>5. /\ ranks' \in Seq(Nat) /\ currentRank' \in Nat /\ scoredPosition' \in Nat
  <2>1. ranks \in Seq(Nat) /\ currentRank \in Nat /\ scoredPosition \in Nat
    BY DEF IInv, TypeInv
  <2>2. CASE RankUnplaced
    BY <2>1, <2>2 DEF RankUnplaced, NoRank
  <2>3. CASE RankPlaced
    <3>1. RankAfter(Key(NextRow)) \in Nat
      BY <2>1 DEF RankAfter
    <3> QED
      BY <2>1, <2>3, <3>1 DEF RankPlaced
  <2>4. CASE ranks' = <<>> /\ currentRank' \in Nat /\ scoredPosition' \in Nat
    BY <2>4
  <2>5. CASE UNCHANGED <<ranks, currentRank, scoredPosition>>
    BY <2>1, <2>5
  <2> QED
    BY <2>1, <2>2, <2>3, <2>4, <2>5
    DEF Next, vars, locals, Load, SortBoard, SortFails, FinishBoard, Publish
<1>6. report' \in [Tools -> SUBSET [file : Names, rank : Nat]]
  <2> DEFINE Entry == [file : Names, rank : Nat]
  <2>1. report \in [Tools -> SUBSET Entry] /\ tool \in Tools
    BY DEF IInv, TypeInv
  <2>2. CASE FinishBoard
    <3>1. PICK b \in Boards :
            /\ {rows[i] : i \in DOMAIN rows} = Ranked(b)
            /\ \A i \in DOMAIN rows : ranks[i] \in Nat /\ rows[i] \in Ranked(b)
      BY <2>2, RankedBoard
    <3>2. Ranked(b) \subseteq Names
      <4>1. phase # "read" /\ TypeInv /\ PhaseInv
        BY <2>2 DEF FinishBoard, IInv
      <4> QED
        BY <4>1, BoardFacts
    <3>3. {[file |-> rows[i], rank |-> ranks[i]] : i \in DOMAIN rows} \subseteq Entry
      BY <3>1, <3>2
    <3> QED
      BY <2>1, <2>2, <3>3 DEF FinishBoard
  <2>3. CASE Publish
    BY <2>1, <2>3 DEF Publish
  <2>4. CASE report' = report
    BY <2>1, <2>4
  <2> QED
    BY <2>2, <2>3, <2>4
    DEF Next, vars, Load, SortBoard, SortFails, RankUnplaced, RankPlaced
<1> QED
  BY <1>1, <1>2, <1>3, <1>4, <1>5, <1>6 DEF TypeInv

\* In the canonical report only official cohorts are admitted, and their keys
\* can be sorted.
LEMMA ScoreIsSortable ==
  ASSUME TypeInv, PhaseInv, phase # "read", tool = "score", NEW b
  PROVE  Sortable(Ranked(b))
<1> SUFFICES ASSUME NEW f \in Ranked(b), NEW g \in Ranked(b),
                    Key(f) # Unplaced, Key(g) # Unplaced
             PROVE  Comparable(Key(f), Key(g))
  BY DEF Sortable
<1>1. /\ f \in Names /\ g \in Names /\ BoardOf(f) = BoardOf(g) /\ AdmittedByScorer(f)
  BY BoardFacts DEF AdmittedBy
<1>2. /\ GoodVerdict(files[f]) /\ Placed(files[f]) /\ Scoreable(files[f])
      /\ GoodVerdict(files[g]) /\ Placed(files[g]) /\ Scoreable(files[g])
      /\ files[f].cohort = files[g].cohort
  BY <1>1, FileFacts DEF TypeInv
<1>3. files[f].cohort.mode = "official"
  BY <1>1 DEF AdmittedByScorer
<1> QED
  BY <1>2, <1>3, OfficialKeysComparable DEF Key

LEMMA PhaseStep ==
  ASSUME IInv, [Next]_vars
  PROVE  PhaseInv'
<1> USE DEF IInv
<1>1. CASE Load
  <2>1. tool' = tool /\ files' = files /\ phase = "read" /\ phase' \in {"boards", "refused"}
        /\ (phase' = "refused" => tool = "score")
    BY <1>1 DEF Load
  <2>2. loaded' = {f \in Names : Admitted(f)}
    BY <1>1 DEF Load
  <2>3. {f \in Names : Admitted(f)} = {f \in Names : Admitted(f)}'
    BY <2>1 DEF Names, Admitted, AdmittedByScorer, AdmittedByLeaderboard
  <2> QED
    BY <2>1, <2>2, <2>3 DEF PhaseInv
<1>2. CASE Publish
  <2>1. CASE tool = "score"
    BY <1>2, <2>1 DEF Publish, PhaseInv
  <2>2. CASE tool # "score"
    <3>1. /\ tool' = tool /\ files' = files /\ loaded' = loaded
          /\ phase # "read" /\ phase' = "done" /\ tool = "leaderboard"
      BY <1>2, <2>2 DEF Publish, TypeInv, Tools
    <3>2. {f \in Names : Admitted(f)} = {f \in Names : Admitted(f)}'
      BY <3>1 DEF Names, Admitted, AdmittedByScorer, AdmittedByLeaderboard
    <3> QED
      BY <3>1, <3>2 DEF PhaseInv
  <2> QED
    BY <2>1, <2>2
<1>3. ASSUME NEW b \in Boards, SortFails(b)
      PROVE  PhaseInv'
  <2>1. /\ tool' = tool /\ files' = files /\ loaded' = loaded
        /\ phase = "boards" /\ phase' = "failed" /\ ~Sortable(Ranked(b))
    BY <1>3 DEF SortFails, ReadyToSort
  <2>2. tool = "leaderboard"
    BY <2>1, ScoreIsSortable DEF TypeInv, Tools
  <2>3. {f \in Names : Admitted(f)} = {f \in Names : Admitted(f)}'
    BY <2>1 DEF Names, Admitted, AdmittedByScorer, AdmittedByLeaderboard
  <2> QED
    BY <2>1, <2>2, <2>3 DEF PhaseInv
<1>4. CASE UNCHANGED <<files, tool, phase, loaded>>
  <2>1. {f \in Names : Admitted(f)} = {f \in Names : Admitted(f)}'
    BY <1>4 DEF Names, Admitted, AdmittedByScorer, AdmittedByLeaderboard
  <2> QED
    BY <1>4, <2>1 DEF PhaseInv
<1> QED
  BY <1>1, <1>2, <1>3, <1>4 DEF Next, vars, SortBoard, RankUnplaced, RankPlaced, FinishBoard

LEMMA ReportStep ==
  ASSUME IInv, [Next]_vars
  PROVE  ReportInv'
<1> USE DEF IInv
<1>1. /\ files' = files /\ Names' = Names
      /\ \A f : Key(f)' = Key(f) /\ BoardOf(f)' = BoardOf(f)
      /\ \A t, f : /\ AdmittedBy(t, f)' <=> AdmittedBy(t, f)
                   /\ Rivals(t, f)' = Rivals(t, f)
                   /\ CompetitionRank(t, f)' = CompetitionRank(t, f)
  BY FilesNeverChange, FilesStay
<1>2. ASSUME NEW t \in Tools, NEW e \in report'[t], FinishBoard, t = tool
      PROVE  /\ AdmittedBy(t, e.file) /\ e.rank = CompetitionRank(t, e.file)
             /\ \A g \in Rivals(t, e.file) : \E d \in report'[t] : d.file = g
  <2>1. PICK b \in Boards :
          /\ report'[t] = report[t] \union {[file |-> rows[i], rank |-> ranks[i]] : i \in DOMAIN rows}
          /\ {rows[i] : i \in DOMAIN rows} = Ranked(b)
          /\ \A i \in DOMAIN rows :
               rows[i] \in Ranked(b) /\ ranks[i] = CompetitionRank(tool, rows[i])
    BY <1>2, RankedBoard
  <2>2. CASE e \in report[t]
    BY <2>1, <2>2 DEF ReportInv, Listed
  <2>3. CASE e \notin report[t]
    <3>1. PICK i \in DOMAIN rows : e = [file |-> rows[i], rank |-> ranks[i]]
      BY <2>1, <2>3
    <3>2. phase # "read"
      BY <1>2 DEF FinishBoard
    <3>3. /\ AdmittedBy(tool, rows[i])
          /\ Rivals(tool, rows[i]) = {g \in Ranked(b) : Placed(files[g])}
      BY <2>1, <3>2, BoardFacts
    <3>4. ASSUME NEW g \in Rivals(t, e.file)
          PROVE  \E d \in report'[t] : d.file = g
      <4>1. g \in Ranked(b)
        BY <1>2, <3>1, <3>3
      <4>2. PICK j \in DOMAIN rows : g = rows[j]
        BY <2>1, <4>1
      <4>3. [file |-> rows[j], rank |-> ranks[j]] \in report'[t]
        BY <2>1
      <4> QED
        BY <4>2, <4>3
    <3> QED
      BY <1>2, <2>1, <3>1, <3>3, <3>4
  <2> QED
    BY <2>2, <2>3
<1>3. ASSUME NEW t \in Tools, NEW e \in report'[t], ~(FinishBoard /\ t = tool)
      PROVE  /\ AdmittedBy(t, e.file) /\ e.rank = CompetitionRank(t, e.file)
             /\ \A g \in Rivals(t, e.file) : \E d \in report'[t] : d.file = g
  <2>1. /\ e \in report[t]
        /\ \A d \in report[t] : Placed(files[d.file]) => d \in report'[t]
    BY <1>3, ReportedBefore
  <2>2. /\ AdmittedBy(t, e.file) /\ e.rank = CompetitionRank(t, e.file)
        /\ \A g \in Rivals(t, e.file) : \E d \in report[t] : d.file = g
    BY <2>1 DEF ReportInv, Listed
  <2>3. \A g \in Rivals(t, e.file) : Placed(files[g])
    BY DEF Rivals
  <2> QED
    BY <2>1, <2>2, <2>3
<1>4. ASSUME phase' = "done", NEW f \in Names, AdmittedByLeaderboard(f), Placed(files[f])
      PROVE  \E d \in report'["leaderboard"] : d.file = f
  <2>1. "leaderboard" \in Tools
    BY DEF Tools
  <2>2. CASE phase = "done"
    <3>1. ~FinishBoard
      BY <2>2 DEF FinishBoard
    <3>2. \E d \in report["leaderboard"] : d.file = f
      BY <1>4, <2>2 DEF ReportInv, Listed
    <3> QED
      BY <1>4, <2>1, <3>1, <3>2, ReportedBefore
  <2>3. CASE phase # "done"
    <3>1. Publish /\ tool # "score" /\ phase # "read"
      BY <1>4, <2>3 DEF Publish, Next, vars, Load, SortBoard, SortFails, RankUnplaced, RankPlaced,
                        FinishBoard
    <3>2. tool = "leaderboard" /\ phase = "boards"
      BY <3>1 DEF TypeInv, Tools, Publish, PhaseInv
    <3>3. f \in loaded
      BY <1>4, <3>2 DEF PhaseInv, Admitted
    <3>4. Scoreable(files[f])
      BY <1>4, FileFacts DEF TypeInv
    <3>5. BoardOf(f) \in Boards /\ f \in Ranked(BoardOf(f))
      BY <3>3, <3>4 DEF Boards, Ranked, Members
    <3>6. PICK e \in report[tool] : BoardOf(e.file) = BoardOf(f)
      BY <3>1, <3>2, <3>5 DEF Publish, Done
    <3>7. f \in Rivals(tool, e.file)
      BY <1>4, <3>2, <3>6 DEF Rivals, AdmittedBy
    <3>8. PICK d \in report[tool] : d.file = f
      BY <2>1, <3>2, <3>7 DEF ReportInv, Listed
    <3>9. ~FinishBoard
      <4>1. rows = <<>>
        BY <3>1 DEF Publish
      <4> QED
        BY <4>1 DEF FinishBoard
    <3> QED
      BY <1>4, <2>1, <3>2, <3>8, <3>9, ReportedBefore
  <2> QED
    BY <2>2, <2>3
<1>5. \A t \in Tools : \A e \in report'[t] :
        /\ AdmittedBy(t, e.file)' /\ e.rank = CompetitionRank(t, e.file)'
        /\ \A g \in Rivals(t, e.file)' : Listed(t, g)'
  BY <1>1, <1>2, <1>3 DEF Listed
<1>6. phase' = "done" =>
        \A f \in Names' : AdmittedByLeaderboard(f)' /\ Placed(files'[f]) => Listed("leaderboard", f)'
  <2>1. \A f : AdmittedByLeaderboard(f)' <=> AdmittedByLeaderboard(f)
    BY <1>1 DEF AdmittedByLeaderboard
  <2> QED
    BY <1>1, <1>4, <2>1 DEF Listed
<1> QED
  BY <1>5, <1>6 DEF ReportInv, Tools

\* What SortBoard leaves in rows: every row of the board, once.
LEMMA OrdersAreOnto ==
  ASSUME NEW S, IsFiniteSet(S), NEW order \in Orders(S)
  PROVE  {order[i] : i \in DOMAIN order} = S
<1>1. /\ order \in [1 .. Cardinality(S) -> S]
      /\ \A i, j \in DOMAIN order : order[i] = order[j] => i = j
  BY DEF Orders
<1>2. Cardinality(S) \in Nat
  BY FS_CardinalityType
<1>3. order \in Injection(1 .. Cardinality(S), S)
  BY <1>1 DEF Injection, IsInjective
<1>4. Cardinality(1 .. Cardinality(S)) = Cardinality(S)
  <2>1. \A n \in Nat : Cardinality(1 .. n) = n
    <3> TAKE n \in Nat
    <3>1. Cardinality(1 .. n) = IF 1 > n THEN 0 ELSE n - 1 + 1
      BY FS_Interval
    <3> QED
      BY <3>1
  <2> QED
    BY <1>2, <2>1
<1>5. order \in Surjection(1 .. Cardinality(S), S)
  BY <1>3, <1>4, FS_Injection
<1> QED
  BY <1>1, <1>5 DEF Surjection

LEMMA RowsStep ==
  ASSUME IInv, [Next]_vars
  PROVE  RowsInv'
<1> USE DEF IInv
<1>1. files' = files /\ \A f : Key(f)' = Key(f) /\ BoardOf(f)' = BoardOf(f)
  BY FilesNeverChange, FilesStay
<1>2. ASSUME NEW b \in Boards, SortBoard(b)
      PROVE  RowsInv'
  <2>1. /\ rows' \in Orders(Ranked(b)) /\ InRankOrder(rows')
        /\ phase' = phase /\ loaded' = loaded /\ tool' = tool /\ phase = "boards"
    BY <1>2 DEF SortBoard, ReadyToSort
  <2>2. {rows'[i] : i \in DOMAIN rows'} = Ranked(b)
    BY <2>1, BoardFacts, OrdersAreOnto
  <2>3. Ranked(b)' = Ranked(b) /\ b \in Boards'
    BY <1>1, <2>1 DEF Ranked, Members, Boards
  <2>4. InRankOrder(rows)'
    BY <1>1, <2>1 DEF InRankOrder
  <2>5. \A i, j \in DOMAIN rows' : rows'[i] = rows'[j] => i = j
    BY <2>1 DEF Orders
  <2> QED
    BY <2>1, <2>2, <2>3, <2>4, <2>5 DEF RowsInv
<1>3. CASE rows' = <<>>
  BY <1>3 DEF RowsInv
<1>4. CASE UNCHANGED <<rows, tool, loaded, phase>>
  <2>1. ASSUME NEW b \in Boards
        PROVE  Ranked(b)' = Ranked(b) /\ b \in Boards'
    BY <1>1, <1>4 DEF Ranked, Members, Boards
  <2>2. rows # <<>> => InRankOrder(rows)'
    BY <1>1, <1>4 DEF InRankOrder, RowsInv
  <2> QED
    BY <1>4, <2>1, <2>2 DEF RowsInv
<1>5. CASE Load
  <2>1. rows = <<>>
    BY <1>5 DEF Load, RowsInv
  <2> QED
    BY <1>3, <1>5, <2>1 DEF Load, locals
<1>6. CASE \E b \in Boards : SortFails(b)
  BY <1>3, <1>6 DEF SortFails, ReadyToSort, locals
<1>7. CASE Publish
  BY <1>3, <1>7 DEF Publish, locals
<1>8. CASE FinishBoard
  BY <1>3, <1>8 DEF FinishBoard
<1> QED
  BY <1>2, <1>4, <1>5, <1>6, <1>7, <1>8 DEF Next, vars, locals, RankUnplaced, RankPlaced

LEMMA WalkStep ==
  ASSUME IInv, [Next]_vars
  PROVE  WalkInv'
<1> USE DEF IInv
<1>1. /\ files' = files
      /\ \A f : Key(f)' = Key(f) /\ BoardOf(f)' = BoardOf(f)
      /\ \A t, f : CompetitionRank(t, f)' = CompetitionRank(t, f)
  BY FilesNeverChange, FilesStay
<1>2. CASE ranks' = <<>> /\ scoredPosition' = 0 /\ previous' = Unplaced
  <2>1. Len(ranks') = 0 /\ DOMAIN ranks' = {}
    BY <1>2
  <2>2. rows' \in Seq(loaded')
    BY TypeStep DEF TypeInv
  <2>3. Len(rows') \in Nat
    BY <2>2
  <2> QED
    BY <1>2, <2>1, <2>3 DEF WalkInv
<1>3. CASE rows' = <<>> /\ ranks' = <<>>
  BY <1>3 DEF WalkInv
<1>4. CASE UNCHANGED <<tool, locals>>
  <2>1. UNCHANGED <<tool, rows, ranks, previous, currentRank, scoredPosition>>
    BY <1>4 DEF locals
  <2> QED
    BY <1>1, <2>1 DEF WalkInv
<1> DEFINE n == Len(ranks)
           k == n + 1
<1>5. ASSUME RankUnplaced \/ RankPlaced
      PROVE  /\ n \in Nat /\ Len(rows) \in Nat /\ n < Len(rows) /\ rows # <<>>
             /\ DOMAIN rows = 1 .. Len(rows) /\ k \in DOMAIN rows /\ rows[k] \in Names
             /\ NextRow = rows[k] /\ phase # "read"
             /\ Len(ranks') = k /\ DOMAIN ranks' = 1 .. k /\ DOMAIN ranks = 1 .. n
             /\ \A i \in 1 .. n : ranks'[i] = ranks[i]
             /\ UNCHANGED <<tool, rows>>
  <2>1. n \in Nat /\ Len(rows) \in Nat /\ DOMAIN rows = 1 .. Len(rows) /\ DOMAIN ranks = 1 .. n
    BY DEF TypeInv
  <2>2. n < Len(rows) /\ phase = "boards" /\ UNCHANGED <<tool, rows>>
    BY <1>5 DEF RankUnplaced, RankPlaced
  <2>3. k \in DOMAIN rows /\ rows # <<>>
    <3> HIDE DEF n
    <3>1. k \in DOMAIN rows
      BY <2>1, <2>2
    <3> QED
      BY <3>1
  <2>4. \E x \in Nat : ranks' = Append(ranks, x)
    <3>1. RankAfter(Key(NextRow)) \in Nat
      BY DEF RankAfter, TypeInv
    <3> QED
      BY <1>5, <3>1 DEF RankUnplaced, RankPlaced, NoRank
  <2>5. /\ Len(ranks') = k /\ DOMAIN ranks' = 1 .. k
        /\ \A i \in 1 .. n : ranks'[i] = ranks[i]
    <3>1. ranks \in Seq(Nat)
      BY DEF TypeInv
    <3> QED
      BY <2>4, <3>1
  <2>6. rows[k] \in Names
    <3>1. rows[k] \in loaded
      BY <2>3 DEF TypeInv
    <3>2. loaded \subseteq Names
      BY <2>2, BoardFacts
    <3> QED
      BY <3>1, <3>2
  <2>7. NextRow = rows[k]
    BY DEF NextRow
  <2> QED
    BY <2>1, <2>2, <2>3, <2>5, <2>6, <2>7
<1>6. CASE RankUnplaced
  <2>1. ranks'[k] = NoRank /\ Key(rows[k]) = Unplaced
    <3>1. ranks \in Seq(Nat) /\ NoRank \in Nat
      BY DEF TypeInv, NoRank
    <3> QED
      BY <1>5, <1>6, <3>1 DEF RankUnplaced
  <2>2. CompetitionRank(tool, rows[k]) = NoRank
    <3>1. ~Placed(files[rows[k]])
      BY <1>5, <1>6, <2>1, FileFacts DEF TypeInv
    <3> QED
      BY <3>1 DEF CompetitionRank
  <2>3. \A i \in 1 .. k : ranks'[i] = CompetitionRank(tool, rows[i])
    <3>1. \A i \in 1 .. n : ranks[i] = CompetitionRank(tool, rows[i])
      BY <1>5, <1>6 DEF WalkInv
    <3>2. \A i \in 1 .. k : i \in 1 .. n \/ i = k
      BY <1>5, <1>6
    <3> QED
      BY <1>5, <1>6, <2>1, <2>2, <3>1, <3>2
  <2>4. Len(ranks') # 0 /\ Len(ranks') <= Len(rows)
    BY <1>5, <1>6
  <2>5. Key(rows[Len(ranks)])' = Unplaced
    BY <1>1, <1>5, <1>6, <2>1
  <2> QED
    BY <1>1, <1>5, <1>6, <2>3, <2>4, <2>5 DEF WalkInv
<1>7. CASE RankPlaced
  <2>1. PICK b \in Boards : {rows[i] : i \in DOMAIN rows} = Ranked(b)
    BY <1>5, <1>7 DEF RowsInv
  <2>2. \A i \in DOMAIN rows : rows[i] \in Ranked(b)
    BY <2>1
  <2>3. \A f \in Ranked(b) : f \in Names /\ BoardOf(f) = b
                             /\ Rivals(tool, f) = {g \in Ranked(b) : Placed(files[g])}
    BY <1>5, <1>7, BoardFacts
  <2>4. Key(rows[k]) # Unplaced
    BY <1>5, <1>7 DEF RankPlaced
  <2>5. /\ \A i \in 1 .. n : Key(rows[i]) # Unplaced
        /\ n = 0 \/ Key(rows[n]) # Key(rows[k]) => CompetitionRank(tool, rows[k]) = n + 1
        /\ n # 0 /\ Key(rows[n]) = Key(rows[k]) =>
             CompetitionRank(tool, rows[k]) = CompetitionRank(tool, rows[n])
    <3>1. /\ \A i \in DOMAIN rows : rows[i] \in Names /\ BoardOf(rows[i]) = BoardOf(rows[k])
          /\ \A i \in DOMAIN rows : Placed(files[rows[i]]) => rows[i] \in Rivals(tool, rows[k])
          /\ \A g \in Rivals(tool, rows[k]) : \E i \in DOMAIN rows : g = rows[i]
      BY <1>5, <1>7, <2>1, <2>2, <2>3
    <3>2. /\ InRankOrder(rows) /\ \A i, j \in DOMAIN rows : rows[i] = rows[j] => i = j
      BY <1>5, <1>7 DEF RowsInv
    <3>3. files \in FileSets
      BY DEF TypeInv
    <3> DEFINE m == Len(rows)
    <3>4. n \in Nat /\ m \in Nat /\ n < m /\ DOMAIN rows = 1 .. m
      BY <1>5, <1>7
    <3>5. Walks(tool, rows, n)
      <4> HIDE DEF n, m
      <4> QED
        BY <2>4, <3>1, <3>2, <3>4 DEF Walks
    <3> HIDE DEF n
    <3> QED
      BY <3>3, <3>4, <3>5, NextRank
  <2>6. n # 0 => n \in DOMAIN ranks /\ Key(rows[n]) # Unplaced
    BY <1>5, <1>7, <2>5
  <2>7. /\ scoredPosition = n
        /\ n = 0 => previous = Unplaced
        /\ n # 0 => /\ previous = Key(rows[n]) /\ currentRank = ranks[n]
                    /\ ranks[n] = CompetitionRank(tool, rows[n])
    BY <1>5, <1>7, <2>6 DEF WalkInv
  <2>8. RankAfter(Key(rows[k])) = CompetitionRank(tool, rows[k])
    BY <2>4, <2>5, <2>7 DEF RankAfter
  <2>9. /\ ranks'[k] = CompetitionRank(tool, rows[k])
        /\ scoredPosition' = k /\ previous' = Key(rows[k]) /\ currentRank' = ranks'[k]
    <3>1. ranks \in Seq(Nat) /\ RankAfter(Key(rows[k])) \in Nat
      BY DEF TypeInv, RankAfter
    <3>2. ranks'[k] = RankAfter(Key(rows[k]))
      BY <1>5, <1>7, <3>1 DEF RankPlaced
    <3> QED
      BY <1>5, <1>7, <2>7, <2>8, <3>2 DEF RankPlaced
  <2>10. \A i \in 1 .. k : ranks'[i] = CompetitionRank(tool, rows[i])
    <3>1. \A i \in 1 .. n : ranks[i] = CompetitionRank(tool, rows[i])
      BY <1>5, <1>7 DEF WalkInv
    <3>2. \A i \in 1 .. k : i \in 1 .. n \/ i = k
      BY <1>5, <1>7
    <3> QED
      BY <1>5, <1>7, <2>9, <3>1, <3>2
  <2>11. Len(ranks') # 0 /\ Len(ranks') <= Len(rows)
    BY <1>5, <1>7
  <2>12. Key(rows[Len(ranks)])' = Key(rows[k])
    BY <1>1, <1>5, <1>7
  <2> QED
    BY <1>1, <1>5, <1>7, <2>9, <2>10, <2>11, <2>12 DEF WalkInv
<1>8. CASE \E b \in Boards : SortBoard(b)
  BY <1>2, <1>8 DEF SortBoard
<1>9. CASE FinishBoard
  BY <1>3, <1>9 DEF FinishBoard
<1>10. CASE Publish
  <2>1. rows' = <<>> /\ ranks' = <<>>
    BY <1>10 DEF Publish, locals, WalkInv
  <2> QED
    BY <1>3, <2>1
<1>11. CASE Load \/ \E b \in Boards : SortFails(b)
  BY <1>4, <1>11 DEF Load, SortFails
<1> QED
  BY <1>4, <1>6, <1>7, <1>8, <1>9, <1>10, <1>11 DEF Next, vars

LEMMA SplitStep ==
  ASSUME IInv, [Next]_vars
  PROVE  SplitInv'
<1> USE DEF IInv
<1> DEFINE Canonical == {f \in Names : AdmittedByScorer(f)}
<1>1. /\ files' = files /\ allowSplit' = allowSplit /\ Canonical' = Canonical
      /\ SplitRound(Canonical)' = SplitRound(Canonical)
  <2>1. files' = files /\ allowSplit' = allowSplit
    BY FilesNeverChange
  <2>2. Canonical' = Canonical
    BY <2>1 DEF Names, AdmittedByScorer
  <2>3. SplitRound(Canonical)' = SplitRound(Canonical)
    BY <2>1, <2>2 DEF SplitRound
  <2> QED
    BY <2>1, <2>2, <2>3
<1>2. CASE tool' = "score" /\ phase' = "boards"
  <2>1. CASE Load
    <3>1. tool = "score" /\ loaded' = Canonical
      BY <1>2, <2>1 DEF Load, Admitted
    <3>2. ~(SplitRound(loaded') /\ ~allowSplit)
      BY <1>2, <2>1, <3>1 DEF Load
    <3>3. SplitRound(loaded') <=> SplitRound(Canonical)
      BY <3>1
    <3> QED
      BY <1>1, <3>2, <3>3 DEF SplitInv
  <2>2. CASE tool = "score" /\ phase = "boards"
    BY <1>1, <2>2 DEF SplitInv
  <2> QED
    BY <1>2, <2>1, <2>2
    DEF Next, vars, SortBoard, SortFails, RankUnplaced, RankPlaced, FinishBoard, Publish
<1>3. CASE report'["score"] # {}
  <2>1. CASE FinishBoard /\ tool = "score"
    BY <1>1, <2>1 DEF SplitInv, FinishBoard
  <2>2. CASE ~(FinishBoard /\ tool = "score")
    <3>1. report'["score"] \subseteq report["score"]
      BY <2>2, ReportedBefore DEF Tools
    <3> QED
      BY <1>1, <1>3, <3>1 DEF SplitInv
  <2> QED
    BY <2>1, <2>2
<1> QED
  BY <1>2, <1>3 DEF SplitInv

\* The inductive invariant of the two tools.
THEOREM StandingsInvariant == Spec => []IInv
<1>1. Init => IInv
  BY InitInvariant
<1>2. IInv /\ [Next]_vars => IInv'
  <2> SUFFICES ASSUME IInv, [Next]_vars
               PROVE  IInv'
    OBVIOUS
  <2> QED
    BY TypeStep, PhaseStep, ReportStep, RowsStep, WalkStep, SplitStep DEF IInv
<1> QED
  BY <1>1, <1>2, PTL DEF Spec

-----------------------------------------------------------------------------
(* What follows for a reader of the boards *)

LEMMA TypeFollows == IInv => TypeOK
<1> SUFFICES ASSUME IInv
             PROVE  TypeOK
  OBVIOUS
<1>1. loaded \subseteq Names
  BY DEF IInv, PhaseInv
<1> QED
  BY <1>1 DEF IInv, TypeInv, TypeOK, Tools

\* An entry's rank counts its competitors, whether they are taken from the
\* files or from the report.
LEMMA RanksFollow == IInv => RanksAreCompetitionRanks
<1> SUFFICES ASSUME IInv, NEW t \in Tools, NEW e \in report[t]
             PROVE  e.rank = IF Placed(files[e.file])
                             THEN 1 + Cardinality({f \in report[t] :
                                        /\ OnOneBoard(e, f) /\ Placed(files[f.file])
                                        /\ KeyLess(Key(f.file), Key(e.file))})
                             ELSE NoRank
  BY DEF RanksAreCompetitionRanks
<1> DEFINE Better == {f \in report[t] :
                        /\ OnOneBoard(e, f) /\ Placed(files[f.file])
                        /\ KeyLess(Key(f.file), Key(e.file))}
           A == Ahead(t, e.file)
           fileOf == [f \in Better |-> f.file]
<1>1. /\ \A f \in report[t] : /\ f \in [file : Names, rank : Nat]
                              /\ AdmittedBy(t, f.file) /\ f.rank = CompetitionRank(t, f.file)
      /\ \A g \in Rivals(t, e.file) : \E d \in report[t] : d.file = g
  BY DEF IInv, TypeInv, ReportInv, Listed
<1>2. \A f \in Better : fileOf[f] \in A
  BY <1>1 DEF Ahead, Rivals, OnOneBoard
<1>3. \A f, g \in Better : fileOf[f] = fileOf[g] => f = g
  <2> TAKE f, g \in Better
  <2>1. f \in report[t] /\ g \in report[t] /\ fileOf[f] = f.file /\ fileOf[g] = g.file
    OBVIOUS
  <2>2. f = [file |-> f.file, rank |-> f.rank] /\ g = [file |-> g.file, rank |-> g.rank]
    BY <1>1, <2>1
  <2>3. f.file = g.file => f.rank = g.rank
    BY <1>1, <2>1
  <2> HIDE DEF Better, fileOf
  <2> QED
    BY <2>1, <2>2, <2>3
<1>4. \A g \in A : \E f \in Better : fileOf[f] = g
  <2> TAKE g \in A
  <2>1. g \in Rivals(t, e.file) /\ KeyLess(Key(g), Key(e.file))
    BY DEF Ahead
  <2>2. PICK d \in report[t] : d.file = g
    BY <1>1, <2>1
  <2>3. d \in Better
    BY <2>1, <2>2 DEF Rivals, OnOneBoard
  <2> QED
    BY <2>2, <2>3
<1>5. fileOf \in Bijection(Better, A)
  <2>1. fileOf \in [Better -> A]
    BY <1>2
  <2> HIDE DEF Better, A, fileOf
  <2> QED
    BY <1>3, <1>4, <2>1 DEF Bijection, Injection, Surjection, IsInjective
<1>6. IsFiniteSet(A)
  BY RankType DEF IInv, TypeInv
<1>7. Cardinality(Better) = Cardinality(A)
  <2> HIDE DEF Better, A, fileOf
  <2>1. fileOf \in Injection(Better, A) /\ fileOf \in Surjection(Better, A)
    BY <1>5 DEF Bijection
  <2> QED
    BY <1>6, <2>1, FS_Injection
<1>8. e.rank = IF Placed(files[e.file]) THEN 1 + Cardinality(A) ELSE NoRank
  BY <1>1 DEF CompetitionRank
<1> QED
  BY <1>7, <1>8

\* Ranks are competition ranks (1, 1, 3): one more than the rows with a better
\* key, in every report, whatever the files are.
THEOREM RanksTheorem == Spec => []RanksAreCompetitionRanks
BY StandingsInvariant, RanksFollow, PTL

LEMMA KeysFollow == IInv => KeysAreComparable
<1> SUFFICES ASSUME IInv
             PROVE  KeysAreComparable
  OBVIOUS
<1>1. ASSUME NEW f \in loaded, NEW g \in loaded, BoardOf(f) = BoardOf(g),
             Key(f) # Unplaced, Key(g) # Unplaced, files[f].cohort.mode = "official"
      PROVE  Comparable(Key(f), Key(g))
  <2>1. f \in Names /\ g \in Names
    BY DEF IInv, PhaseInv
  <2>2. /\ GoodVerdict(files[f]) /\ Placed(files[f]) /\ Scoreable(files[f])
        /\ GoodVerdict(files[g]) /\ Placed(files[g]) /\ Scoreable(files[g])
        /\ files[f].cohort = files[g].cohort
    BY <1>1, <2>1, FileFacts DEF IInv, TypeInv
  <2> QED
    BY <1>1, <2>2, OfficialKeysComparable DEF Key
<1>2. phase = "failed" => tool = "leaderboard"
  BY DEF IInv, PhaseInv
<1> QED
  BY <1>1, <1>2 DEF KeysAreComparable

\* Two placed verdicts of an official cohort can always be compared, and the
\* canonical report never stops in a sort.
THEOREM KeysTheorem == Spec => []KeysAreComparable
BY StandingsInvariant, KeysFollow, PTL

LEMMA ExtraPassFollows == IInv => ExtraPassNeverHurts
<1> SUFFICES ASSUME IInv, NEW t \in Tools, NEW e \in report[t], NEW f \in report[t], Outdoes(e, f),
                    \A g \in Groups(files[e.file].cohort) : files[e.file].cohort.groups[g].requires = {}
             PROVE  BeatsOrTies(e, f)
  BY DEF ExtraPassNeverHurts
<1> DEFINE a == e.file
           b == f.file
<1>1. /\ a \in Names /\ AdmittedBy(t, a) /\ e.rank = CompetitionRank(t, a)
      /\ b \in Names /\ AdmittedBy(t, b) /\ f.rank = CompetitionRank(t, b)
      /\ files \in FileSets
  BY DEF IInv, TypeInv, ReportInv
<1>2. /\ BoardOf(a) = BoardOf(b) /\ f.rank # NoRank /\ Scoreable(files[a])
      /\ DoesNoWorse(files[a], files[b])
  BY DEF Outdoes, OnOneBoard
<1>3. Placed(files[b])
  BY <1>1, <1>2, RankType
<1>4. files[a].cohort = files[b].cohort /\ GoodVerdict(files[a]) /\ GoodVerdict(files[b])
  BY <1>1, <1>2, <1>3, FileFacts
<1>5. files[a].cohort.contract # "legacy"
  BY <1>1 DEF AdmittedBy, AdmittedByScorer, AdmittedByLeaderboard
<1>6. Placed(files[a]) /\ ~KeyLess(Key(b), Key(a))
  BY <1>2, <1>3, <1>4, <1>5, NoWorseIsNotBeaten DEF Key
<1>7. /\ \A g \in Names : Key(g) \in Ints
      /\ IsFiniteSet(Ahead(t, b))
      /\ Cardinality(Ahead(t, a)) \in Nat /\ Cardinality(Ahead(t, b)) \in Nat
  BY <1>1, FileFacts, RankType
<1>8. Ahead(t, a) \subseteq Ahead(t, b)
  <2> SUFFICES ASSUME NEW g \in Ahead(t, a)
               PROVE  g \in Ahead(t, b)
    OBVIOUS
  <2>1. g \in Names /\ g \in Rivals(t, a) /\ KeyLess(Key(g), Key(a))
    BY DEF Ahead, Rivals
  <2>2. g \in Rivals(t, b)
    BY <1>2, <2>1 DEF Rivals
  <2>3. Key(a) = Key(b) \/ KeyLess(Key(a), Key(b))
    BY <1>1, <1>6, <1>7, KeyLessTotal
  <2>4. KeyLess(Key(g), Key(b))
    <3>1. Key(g) \in Ints /\ Key(a) \in Ints /\ Key(b) \in Ints
      BY <1>1, <1>7, <2>1
    <3> QED
      BY <2>1, <2>3, <3>1, KeyLessTransitive
  <2> QED
    BY <2>2, <2>4 DEF Ahead
<1>9. Cardinality(Ahead(t, a)) <= Cardinality(Ahead(t, b))
  BY <1>7, <1>8, FS_Subset
<1>10. e.rank = 1 + Cardinality(Ahead(t, a)) /\ f.rank = 1 + Cardinality(Ahead(t, b))
  BY <1>1, <1>3, <1>6 DEF CompetitionRank
<1> QED
  BY <1>7, <1>9, <1>10 DEF BeatsOrTies, NoRank

\* Passing more, or the same at no higher cost, never costs a rank.
THEOREM ExtraPassTheorem == Spec => []ExtraPassNeverHurts
BY StandingsInvariant, ExtraPassFollows, PTL

\* A placed file of the canonical report has the same competitors on the local
\* board, when no verdict is misfiled.
LEMMA SameCompetitors ==
  ASSUME files \in FileSets, \A f \in Names : files[f].dir = files[f].problem,
         NEW f \in Names, AdmittedByScorer(f), Placed(files[f])
  PROVE  /\ AdmittedByLeaderboard(f)
         /\ CompetitionRank("leaderboard", f) = CompetitionRank("score", f)
<1>1. AdmittedByLeaderboard(f)
  BY DEF AdmittedByScorer, AdmittedByLeaderboard
<1>2. ASSUME NEW g \in Names, BoardOf(g) = BoardOf(f), Placed(files[g])
      PROVE  AdmittedBy("leaderboard", g) <=> AdmittedBy("score", g)
  <2>1. Scoreable(files[f]) /\ Scoreable(files[g]) /\ files[f].cohort = files[g].cohort
    BY <1>2, FileFacts
  <2>2. /\ files[g].problem = files[f].problem /\ files[g].metric = files[f].metric
    BY <1>2 DEF BoardOf
  <2>3. /\ files[g].mode = files[g].cohort.mode /\ files[g].local = files[g].cohort.local
        /\ files[g].status = "accepted"
    BY <2>1 DEF Scoreable, MeasurementContractHolds
  <2> QED
    BY <2>1, <2>2, <2>3 DEF AdmittedBy, AdmittedByScorer, AdmittedByLeaderboard
<1>3. Rivals("leaderboard", f) = Rivals("score", f)
  BY <1>2 DEF Rivals
<1>4. Ahead("leaderboard", f) = Ahead("score", f)
  BY <1>3 DEF Ahead
<1> QED
  BY <1>1, <1>4 DEF CompetitionRank

LEMMA BoardsFollow == IInv => BoardsAgree
<1> SUFFICES ASSUME IInv
             PROVE  BoardsAgree
  OBVIOUS
<1>1. ASSUME phase = "done", \A f \in Names : files[f].dir = files[f].problem,
             NEW e \in report["score"], e.rank # NoRank
      PROVE  e \in report["leaderboard"]
  <2>1. /\ e \in [file : Names, rank : Nat] /\ AdmittedByScorer(e.file)
        /\ e.rank = CompetitionRank("score", e.file) /\ files \in FileSets
    BY DEF IInv, TypeInv, ReportInv, AdmittedBy, Tools
  <2>2. Placed(files[e.file])
    BY <1>1, <2>1, RankType
  <2>3. /\ AdmittedByLeaderboard(e.file)
        /\ CompetitionRank("leaderboard", e.file) = CompetitionRank("score", e.file)
    BY <1>1, <2>1, <2>2, SameCompetitors
  <2>4. PICK d \in report["leaderboard"] : d.file = e.file
    BY <1>1, <2>1, <2>2, <2>3 DEF IInv, ReportInv, Listed
  <2>5. d \in [file : Names, rank : Nat] /\ d.rank = CompetitionRank("leaderboard", d.file)
    BY DEF IInv, TypeInv, ReportInv, Tools
  <2>6. d = e
    BY <2>1, <2>3, <2>4, <2>5
  <2> QED
    BY <2>6
<1>2. ASSUME ~allowSplit, NEW e \in report["score"], NEW f \in report["score"],
             files[e.file].problem = files[f.file].problem,
             files[e.file].cohort.round = files[f.file].cohort.round
      PROVE  files[e.file].cohort.id = files[f.file].cohort.id
  <2>1. /\ e.file \in Names /\ AdmittedByScorer(e.file)
        /\ f.file \in Names /\ AdmittedByScorer(f.file)
    BY DEF IInv, TypeInv, ReportInv, AdmittedBy, Tools
  <2>2. ~SplitRound({g \in Names : AdmittedByScorer(g)})
    BY <1>2 DEF IInv, SplitInv
  <2>3. files[e.file].metric = files[f.file].metric
    BY <2>1 DEF AdmittedByScorer
  <2> QED
    BY <1>2, <2>1, <2>2, <2>3 DEF SplitRound
<1> QED
  BY <1>1, <1>2 DEF BoardsAgree

\* The local board repeats the ranks of the canonical report, and a round that
\* is split between cohorts has none.
THEOREM BoardsTheorem == Spec => []BoardsAgree
BY StandingsInvariant, BoardsFollow, PTL

\* The variables of the two tools keep their types.
THEOREM StandingsTypes == Spec => []TypeOK
BY StandingsInvariant, TypeFollows, PTL

=============================================================================
