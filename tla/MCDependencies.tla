--------------------------- MODULE MCDependencies ---------------------------
EXTENDS Dependencies, TLC

CONSTANTS r1, r2, i1, i2, p1, p2, j1

\* A has a companion, Ax, and under i1 there is a module B, at r1 only; r2
\* changes A.
MCOlean == [a \in Artifacts |-> IF a = "Ax" THEN "A" ELSE a]

MCFiles(x) == IF x[1] = r2 THEN {"A"} ELSE IF x[2] = i1 THEN {"A", "Ax", "B"} ELSE {"A", "Ax"}

MCClosure ==
  [x \in {r1, r2} \X {i1, i2} |-> [a \in MCFiles(x) |-> IF x[1] = r2 THEN "two" ELSE "one"]]

Symmetry == Permutations({p1, p2})
=============================================================================
