----------------------------- MODULE MinorUnits -----------------------------
(***************************************************************************)
(* Sums of minor-unit amounts over finite sets, without recursion so that  *)
(* the theorem provers can reason about them: an amount is the number of   *)
(* its minor units, and a sum is the cardinality of a disjoint union.      *)
(***************************************************************************)
EXTENDS Naturals, FiniteSets

(* The minor units of the amounts f[x], x in S.                             *)
Units(S, f) == UNION { {x} \X (1 .. f[x]) : x \in S }

(* The sum of f over the finite set S, for amounts f[x] >= 0.               *)
Total(S, f) == Cardinality(Units(S, f))

=============================================================================
