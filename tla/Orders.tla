------------------------------- MODULE Orders -------------------------------
(***************************************************************************)
(* What sorting makes of a set: Array.prototype.sort with a comparison     *)
(* that tells any two elements apart, as the engine's rankings do.         *)
(***************************************************************************)
EXTENDS Naturals, FiniteSets

\* The elements of S in the order of Before, which is strict and total on S.
InOrder(S, Before(_, _)) ==
    [n \in 1..Cardinality(S) |->
       CHOOSE x \in S : Cardinality({y \in S : Before(y, x)}) = n - 1]

\* Numbers from the least to the greatest.
Ascending(S) == InOrder(S, LAMBDA i, j : i < j)
=============================================================================
