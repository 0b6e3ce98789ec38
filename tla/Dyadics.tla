------------------------------- MODULE Dyadics -------------------------------
(***************************************************************************)
(* Exact numbers of the form num / 2^exp.  Every probability of the        *)
(* instances that are checked is such a number, so that sums and products  *)
(* have no rounding error, unlike the doubles of the code.                 *)
(***************************************************************************)
EXTENDS Integers, FiniteSetsExt

\* The representation with the smallest exponent, so that equal numbers are equal records.
Dyadic(num, exp) ==
  LET halvings == Max({k \in 0 .. exp : num % (2 ^ k) = 0})
  IN  [num |-> num \div (2 ^ halvings), exp |-> exp - halvings]

Zero == Dyadic(0, 0)
Unit == Dyadic(1, 0)

Plus(p, q) ==
  LET exp == Max({p.exp, q.exp})
  IN  Dyadic(p.num * 2 ^ (exp - p.exp) + q.num * 2 ^ (exp - q.exp), exp)
Negate(p) == Dyadic(-p.num, p.exp)
Minus(p, q) == Plus(p, Negate(q))
Times(p, q) == Dyadic(p.num * q.num, p.exp + q.exp)
Complement(p) == Minus(Unit, p)
=============================================================================
