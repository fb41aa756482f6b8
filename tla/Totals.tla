------------------------------- MODULE Totals -------------------------------
(***************************************************************************)
(* Sums over finite sets, used wherever the node adds up amounts (bytes of *)
(* the pool, coins reserved, balances, votes).  A sum is the number of     *)
(* units: Total(S, f) counts the pairs <<x, i>> with x in S and i in       *)
(* 1..f[x].  Stated as a cardinality, a sum needs no recursion, so TLAPS   *)
(* can reason about it with the theorems on finite sets (TotalsProofs).    *)
(***************************************************************************)
EXTENDS Naturals, FiniteSets

\* The units that make up f[x], for every x in S.
Units(S, f) == UNION {{x} \X (1..f[x]) : x \in S}

\* The sum of f[x] over the finite set S, for f with values in Nat.
Total(S, f) == Cardinality(Units(S, f))

\* saturating_sub: subtraction that stops at zero.
Monus(a, b) == IF a >= b THEN a - b ELSE 0
=============================================================================
