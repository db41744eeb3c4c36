------------------------------- MODULE Fractions -------------------------------
(* Exact arithmetic on <<numerator, denominator>>, the denominator positive, *)
(* for what the code computes in floating point.  Results are in lowest      *)
(* terms, so that equal values are equal pairs.  Lowest is a function, for  *)
(* TLC evaluates the argument of a function once.                          *)
EXTENDS Integers, FiniteSets, FiniteSetsExt, Functions

Fraction == Int \X (Nat \ {0})

Whole(n) == <<n, 1>>

Lowest[q \in Fraction] ==
  LET g == Max({k \in 1 .. q[2] : q[1] % k = 0 /\ q[2] % k = 0})
  IN  <<q[1] \div g, q[2] \div g>>

Plus(x, y) == Lowest[<<x[1] * y[2] + y[1] * x[2], x[2] * y[2]>>]
Minus(x, y) == Lowest[<<x[1] * y[2] - y[1] * x[2], x[2] * y[2]>>]
Times(x, y) == Lowest[<<x[1] * y[1], x[2] * y[2]>>]
DividedBy(x, n) == Lowest[<<x[1], x[2] * n>>]

Below(x, y) == x[1] * y[2] < y[1] * x[2]
AtMost(x, y) == ~ Below(y, x)

(* The sum of f[s] over a finite set of indices. *)
Total(f, S) == FoldFunctionOnSet(Plus, Whole(0), f, S)

(* And their mean. *)
Mean(f, S) == DividedBy(Total(f, S), Cardinality(S))
=============================================================================
