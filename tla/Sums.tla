-------------------------------- MODULE Sums --------------------------------
(* The sum of a function over a finite set, defined without recursion: the *)
(* number of pairs <<s, k>> with k at most f[s].                           *)
EXTENDS Integers, FiniteSets

Pile(f, S) == UNION {{s} \X (1..f[s]) : s \in S}

SumOver(f, S) == Cardinality(Pile(f, S))
=============================================================================
