------------------------- MODULE MCReferenceAnswers -------------------------
EXTENDS ReferenceAnswers

Entries == -1 .. 2

MCTasks ==
  [problem : {"fib", "partition", "primecount", "mertens"}, n : 0 .. 14]
  \union [problem : {"permanent"}, dimension : 0 .. 3, draws : [1 .. 3 -> (0 .. 1) \X {0}]]
  \union [problem : {"permanent"}, dimension : {4}, draws : [1 .. 4 -> (0 .. 2) \X (0 .. 1)]]
  \union [problem : {"determinant"}, matrix : {<<>>}]
  \union [problem : {"determinant"}, matrix : [1 .. 2 -> [1 .. 2 -> Entries]]]
  \union [problem : {"determinant"}, matrix : [1 .. 3 -> [1 .. 3 -> {0, 1, 2}]]]
  \union [problem : {"determinant"},
          matrix : {m \in [1 .. 4 -> [1 .. 4 -> {0, 1}]] : m[1][1] = 0 /\ m[2][2] = 0}]
  \union {[problem |-> "polydisc", coefficients |-> <<a, b, c>>] : a \in {1, 2, -3}, b, c \in Entries}
  \union {[problem |-> "polydisc", coefficients |-> <<a, b, c, d>>] : a \in {1, 2}, b, c, d \in Entries}
  \union [problem : {"ca-rule110"}, row : {r \in [1 .. 5 -> BOOLEAN] : r[1] /\ ~r[2]}, steps : 0 .. 3]
=============================================================================
