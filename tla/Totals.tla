------------------------------- MODULE Totals -------------------------------
(***************************************************************************)
(* The sum of a function with natural values, as the number of its coins:  *)
(* a holder of n coins contributes <<holder, 1>> .. <<holder, n>>.  Stated *)
(* as a cardinality, its laws follow from those of finite sets.            *)
(***************************************************************************)
EXTENDS Integers, FiniteSets

CoinsOf(a, n) == {a} \X (1 .. n)
Coins(f)      == UNION {CoinsOf(a, f[a]) : a \in DOMAIN f}
Total(f)      == Cardinality(Coins(f))

\* f with n instead of what a has.
WithBalance(f, a, n) == [f EXCEPT ![a] = n]
=============================================================================
