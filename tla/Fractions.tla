------------------------------ MODULE Fractions ------------------------------
(* Exact fractions, for the averages of the indicators: where the code has    *)
(* doubles the models compute without rounding.  Equal quotients are the same *)
(* fraction.                                                                  *)
EXTENDS Integers

(* n divided by d, for d > 0, with the least denominator that does. *)
Frac(n, d) ==
    LET den == CHOOSE k \in 1 .. d :
                  (n * k) % d = 0 /\ \A j \in 1 .. k - 1 : (n * j) % d # 0
    IN  [num |-> (n * den) \div d, den |-> den]

Whole(n) == Frac(n, 1)

Plus(p, q)   == Frac(p.num * q.den + q.num * p.den, p.den * q.den)
Minus(p, q)  == Frac(p.num * q.den - q.num * p.den, p.den * q.den)
Times(p, q)  == Frac(p.num * q.num, p.den * q.den)
=============================================================================
