-------------------------- MODULE ReferenceAnswers --------------------------
(***************************************************************************)
(* The judge's own answers (reference_answers.py): what a submission's     *)
(* values are compared with.  Each algorithm is a loop; one step is one    *)
(* turn of its (inner) loop, and the definitions below say what the number *)
(* is.  SHA-256, the random draws behind a matrix or a row of cells, and   *)
(* the widths of the benchmark polynomials are left out: draws are inputs. *)
(***************************************************************************)
EXTENDS Integers, Sequences, FiniteSets, FiniteSetsExt, Functions

CONSTANTS
  Tasks       \* the problems asked: records [problem, ...] as the loops read them

\* compute_answer refuses negative inputs; a ring of cells is never empty.
ASSUME TasksAssumption ==
  \A t \in Tasks :
    /\ t.problem \in {"fib", "partition", "primecount", "mertens"} => t.n \in Nat
    /\ t.problem = "permanent" => t.dimension \in Nat
    /\ t.problem = "ca-rule110" => t.row \in Seq(BOOLEAN) \ {<<>>} /\ t.steps \in Nat

VARIABLES
  task,        \* what is asked
  k,           \* the loop variable
  value,       \* the loop's accumulators
  answer       \* the result: {} until it is there

vars == <<task, k, value, answer>>

Running(problem) == task.problem = problem /\ answer = {}

Return(result) == answer' = {result} /\ UNCHANGED <<task, k, value>>
Turn(next, new) == k' = next /\ value' = new /\ UNCHANGED <<task, answer>>

-----------------------------------------------------------------------------
(* permanent_matrix_reference: row i of a matrix, from two draws *)

SkipOne(excluded, i) == IF i < excluded THEN i ELSE i + 1

SkipTwo(a, b, i) ==
  LET lo == IF a < b THEN a ELSE b
      hi == IF a < b THEN b ELSE a
      value1 == IF i < lo THEN i ELSE i + 1
  IN  IF value1 < hi THEN value1 ELSE value1 + 1

\* Columns are numbered from 0; below three every entry is one.
Ones(dimension, i, draw) ==
  IF dimension < 3 THEN 0 .. dimension - 1
  ELSE LET first == SkipOne(i, draw[1])
       IN  {i, first, SkipTwo(i, first, draw[2])}

-----------------------------------------------------------------------------
(* Starting values *)

\* bin(n) has one digit for zero.
Bits[n \in Nat] == IF n < 2 THEN <<n>> ELSE Append(Bits[n \div 2], n % 2)

Sylvester(c) ==
  LET d == Len(c) - 1
      derivative == [i \in 1 .. d |-> c[i] * (d - i + 1)]
      Shifted(s, i, j) == IF j - i \in 1 .. Len(s) THEN s[j - i] ELSE 0
  IN  [i \in 1 .. 2 * d - 1 |->
         [j \in 1 .. 2 * d - 1 |->
            IF i < d THEN Shifted(c, i - 1, j) ELSE Shifted(derivative, i - d, j)]]

Elimination(matrix) == [a |-> matrix, previous |-> 1, sign |-> 1]

Initial(t) ==
  CASE t.problem = "fib" -> <<0, 1>>
    [] t.problem = "partition" -> [counts |-> [m \in 0 .. t.n |-> IF m = 0 THEN 1 ELSE 0], total |-> 1]
    [] t.problem \in {"primecount", "mertens"} -> [primes |-> [m \in 0 .. t.n |-> m >= 2], mu |-> <<>>]
    [] t.problem = "permanent" ->
         [states |-> [mask \in {{}} |-> 1], todo |-> {{}}, following |-> [mask \in {} |-> 0]]
    [] t.problem = "determinant" -> Elimination(t.matrix)
    [] t.problem = "polydisc" -> Elimination(Sylvester(t.coefficients))
    [] t.problem = "ca-rule110" -> t.row

Init ==
  /\ task \in Tasks
  /\ k = IF task.problem \in {"primecount", "mertens"} THEN 2 ELSE 1
  /\ value = Initial(task)
  /\ answer = {}

-----------------------------------------------------------------------------
(* fibonacci: doubling, from the most significant bit *)

\* Mutant of Doubled: the two halves of the doubling are exchanged.
Doubled_Swapped(a, b, bit) ==
  LET c == a * (2 * b - a)
      d == a * a + b * b
  IN  IF bit = 1 THEN <<c, d>> ELSE <<d, c + d>>

Doubled(a, b, bit) ==
  LET c == a * (2 * b - a)
      d == a * a + b * b
  IN  IF bit = 0 THEN <<c, d>> ELSE <<d, c + d>>

Fibonacci ==
  /\ Running("fib")
  /\ IF k > Len(Bits[task.n]) THEN Return(value[1])
     ELSE Turn(k + 1, Doubled(value[1], value[2], Bits[task.n][k]))

-----------------------------------------------------------------------------
(* partition: part k, then total, in place *)

Partition ==
  /\ Running("partition")
  /\ IF k > task.n THEN Return(value.counts[task.n])
     ELSE LET new == [value.counts EXCEPT ![value.total] = @ + value.counts[value.total - k]]
          IN  IF value.total < task.n
              THEN Turn(k, [counts |-> new, total |-> value.total + 1])
              ELSE Turn(k + 1, [counts |-> new, total |-> k + 1])

-----------------------------------------------------------------------------
(* sieve, primecount and mertens *)

Multiples(p, n) == {m \in 0 .. n : m >= p * p /\ m % p = 0}

\* Crossed-out numbers are skipped; the Möbius loop then runs over what is left.
Sieve ==
  /\ Running(task.problem) /\ task.problem \in {"primecount", "mertens"}
  /\ value.mu = <<>> /\ k <= task.n
  /\ Turn(k + 1, IF value.primes[k]
                 THEN [value EXCEPT !.primes = [m \in DOMAIN @ |-> @[m] /\ m \notin Multiples(k, task.n)]]
                 ELSE value)

Primes == {m \in DOMAIN value.primes : value.primes[m]}

CountPrimes ==
  /\ Running("primecount") /\ k > task.n
  /\ Return(Cardinality(Primes))

BeginMertens ==
  /\ Running("mertens") /\ value.mu = <<>> /\ k > task.n
  /\ Turn(1, [value EXCEPT !.mu = [m \in 0 .. task.n |-> IF m = 0 THEN 0 ELSE 1]])

Mertens ==
  /\ Running("mertens") /\ value.mu # <<>>
  /\ LET later == {p \in Primes : p > k}
         p == Min(later)
     IN  IF later = {} THEN Return(SumFunction(value.mu))
         ELSE Turn(p, [value EXCEPT !.mu =
                [m \in DOMAIN @ |-> IF m % p # 0 THEN @[m]
                                    ELSE IF m % (p * p) = 0 THEN 0 ELSE -@[m]]])

-----------------------------------------------------------------------------
(* permanent_reference: how many ways the rows so far fill a set of columns *)

Fills(row, mask) == row \ mask

Full == 0 .. task.dimension - 1

\* One mask of `states`: its count goes to every mask with one more column.
AddCount(mask, row) ==
  LET reached == {mask \union {c} : c \in Fills(row, mask)}
      Get(new) == IF new \in DOMAIN value.following THEN value.following[new] ELSE 0
  IN  Turn(k, [value EXCEPT
        !.todo = @ \ {mask},
        !.following = [new \in DOMAIN @ \union reached |->
                         Get(new) + IF new \in reached THEN value.states[mask] ELSE 0]])

Permanent ==
  /\ Running("permanent")
  /\ IF k > task.dimension
     THEN Return(IF Full \in DOMAIN value.states THEN value.states[Full] ELSE 0)
     ELSE IF value.todo = {}
     THEN Turn(k + 1, [states |-> value.following, todo |-> DOMAIN value.following,
                       following |-> [mask \in {} |-> 0]])
     ELSE \E mask \in value.todo : AddCount(mask, Ones(task.dimension, k - 1, task.draws[k]))

-----------------------------------------------------------------------------
(* determinant: fraction-free elimination; polynomial_discriminant *)

\* divmod rounds towards minus infinity, also for a negative divisor.
Quotient(n, d) == IF d > 0 THEN n \div d ELSE (-n) \div (-d)
Exact(n, d) == n % (IF d > 0 THEN d ELSE -d) = 0

Size == Len(value.a)

Swapped(a, i, j) == [a EXCEPT ![i] = a[j], ![j] = a[i]]

Numerator(a, i, j) == a[i][j] * a[k][k] - a[i][k] * a[k][j]

\* Mutant of Reduced: division by the pivot itself and not by the one before.
Reduced_ByPivot(a, previous) ==
  [i \in 1 .. Size |-> [j \in 1 .. Size |->
     IF i <= k \/ j < k THEN a[i][j] ELSE IF j = k THEN 0 ELSE Quotient(Numerator(a, i, j), a[k][k])]]

Reduced(a, previous) ==
  [i \in 1 .. Size |-> [j \in 1 .. Size |->
     IF i <= k \/ j < k THEN a[i][j] ELSE IF j = k THEN 0 ELSE Quotient(Numerator(a, i, j), previous)]]

PivotRows == {i \in k .. Size : value.a[i][k] # 0}

Swap == IF Min(PivotRows) = k THEN value.a ELSE Swapped(value.a, k, Min(PivotRows))

\* One k of the elimination, with the first row that has a pivot.
Eliminate ==
  Turn(k + 1, [a |-> Reduced(Swap, value.previous), previous |-> Swap[k][k],
               sign |-> IF Min(PivotRows) = k THEN value.sign ELSE -value.sign])

Eliminated == k >= Size \/ PivotRows = {}

Determinant ==
  IF Size = 0 THEN 1 ELSE IF k >= Size THEN value.sign * value.a[Size][Size] ELSE 0

DeterminantLoop ==
  /\ Running("determinant")
  /\ IF Eliminated THEN Return(Determinant) ELSE Eliminate

Discriminant ==
  /\ Running("polydisc")
  /\ LET d == Len(task.coefficients) - 1
     IN  IF Eliminated
         THEN Return((IF ((d * (d - 1)) \div 2) % 2 = 0 THEN 1 ELSE -1)
                     * Quotient(Determinant, task.coefficients[1]))
         ELSE Eliminate

-----------------------------------------------------------------------------
(* ca_reference: `steps` turns of rule 110 on a ring of cells *)

Rule110(left, center, right) ==
  <<left, center, right>> \notin {<<TRUE, TRUE, TRUE>>, <<TRUE, FALSE, FALSE>>, <<FALSE, FALSE, FALSE>>}

Cell(i) == value[((i - 1) % Len(value)) + 1]

Power[n \in Nat] == IF n = 0 THEN 1 ELSE 2 * Power[n - 1]
Binary(row) == SumFunction([i \in DOMAIN row |-> IF row[i] THEN Power[i - 1] ELSE 0])

CellularAutomaton ==
  /\ Running("ca-rule110")
  /\ IF k > task.steps
     THEN Return(Binary(value))
     ELSE Turn(k + 1, [i \in DOMAIN value |-> Rule110(Cell(i - 1), value[i], Cell(i + 1))])

-----------------------------------------------------------------------------
Next == \/ Fibonacci \/ Partition \/ Sieve \/ CountPrimes \/ BeginMertens \/ Mertens
        \/ Permanent \/ DeterminantLoop \/ Discriminant \/ CellularAutomaton

Spec == Init /\ [][Next]_vars

-----------------------------------------------------------------------------
(* What the numbers mean *)

Fib[n \in Nat] == IF n < 2 THEN n ELSE Fib[n - 1] + Fib[n - 2]

\* Ways to write n as a sum of parts of at most m, for q = <<n, m>>.
Ways[q \in Nat \X Nat] ==
  LET n == q[1]
      m == q[2]
  IN  IF n = 0 THEN 1
      ELSE IF m = 0 THEN 0
      ELSE Ways[<<n, m - 1>>] + IF m <= n THEN Ways[<<n - m, m>>] ELSE 0

Divides(d, n) == n % d = 0
IsPrime(n) == n >= 2 /\ \A d \in 2 .. n - 1 : ~Divides(d, n)
Moebius(n) ==
  IF \E d \in 2 .. n : Divides(d * d, n) THEN 0
  ELSE IF Cardinality({p \in 2 .. n : IsPrime(p) /\ Divides(p, n)}) % 2 = 0 THEN 1 ELSE -1

\* Sum over the permutations of the columns, each with the sign of its inversions.
Leibniz(m) ==
  LET n == Len(m)
      Times(a, b) == a * b
      Even(p) == Cardinality({q \in (1 .. n) \X (1 .. n) : q[1] < q[2] /\ p[q[1]] > p[q[2]]}) % 2 = 0
      Term(p) == (IF Even(p) THEN 1 ELSE -1) * FoldFunction(Times, 1, [i \in 1 .. n |-> m[i][p[i]]])
  IN  SumFunction([p \in Bijection(1 .. n, 1 .. n) |-> Term(p)])

\* Ways to take one allowed column from each of the first r rows, each column
\* of `mask` once.
Placements(r, mask) ==
  {f \in [1 .. r -> mask] :
     /\ IsInjective(f)
     /\ Range(f) = mask
     /\ \A i \in 1 .. r : f[i] \in Ones(task.dimension, i - 1, task.draws[i])}

Quadratic(c) == c[2] * c[2] - 4 * c[1] * c[3]
Cubic(c) ==
  c[2] * c[2] * c[3] * c[3] - 4 * c[1] * c[3] * c[3] * c[3] - 4 * c[2] * c[2] * c[2] * c[4]
    - 27 * c[1] * c[1] * c[4] * c[4] + 18 * c[1] * c[2] * c[3] * c[4]

Rule110Table(l, c, r) ==
  (110 \div Power[(IF l THEN 4 ELSE 0) + (IF c THEN 2 ELSE 0) + (IF r THEN 1 ELSE 0)]) % 2 = 1

\* The cells after each number of turns, by the table that gives the rule its number.
Cells(row) ==
  LET At(cells, i) == cells[((i - 1) % Len(row)) + 1]
      after[t \in Nat] ==
        IF t = 0 THEN row
        ELSE LET before == after[t - 1]
             IN  [i \in 1 .. Len(row) |-> Rule110Table(At(before, i - 1), before[i], At(before, i + 1))]
  IN  after

\* What the loops without divisions are asked for; 0 has no Möbius value.
Meaning ==
  CASE task.problem = "fib" -> Fib[task.n]
    [] task.problem = "partition" -> Ways[<<task.n, task.n>>]
    [] task.problem = "primecount" -> Cardinality({m \in 0 .. task.n : IsPrime(m)})
    [] task.problem = "mertens" -> SumFunction([m \in 0 .. task.n |-> IF m = 0 THEN 0 ELSE Moebius(m)])
    [] task.problem = "permanent" -> Cardinality(Placements(task.dimension, Full))
    [] task.problem = "ca-rule110" -> Binary(Cells(task.row)[task.steps])

EliminationMeaning ==
  IF task.problem = "determinant" THEN Leibniz(task.matrix)
  ELSE IF Len(task.coefficients) = 3 THEN Quadratic(task.coefficients) ELSE Cubic(task.coefficients)

ByElimination == task.problem \in {"determinant", "polydisc"}

\* Every answer of the loops is the number the problem asks for: a wrong one
\* would fail every honest submission at the kernel.
AnswerIsRight == ~ByElimination => \A result \in answer : result = Meaning

\* "non-exact Bareiss division" and "non-exact discriminant division" are never
\* raised: each division of the elimination leaves no remainder, whatever rows
\* were exchanged before it, and so does the one by the leading coefficient;
\* and what is left in the corner is the determinant.
EliminationIsExact ==
  ByElimination =>
    IF answer # {} THEN answer = {EliminationMeaning}
    ELSE IF Eliminated
    THEN task.problem = "polydisc" => Exact(Determinant, task.coefficients[1])
    ELSE \A i, j \in k + 1 .. Size : Exact(Numerator(Swap, i, j), value.previous)

=============================================================================
