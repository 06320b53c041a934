------------------------------ MODULE Sorting ------------------------------
(* sorted(), as the parsers and the exposure settings use it. *)
EXTENDS Naturals, FiniteSets

\* The members of a finite set of numbers, from the least.
Ascending(S) ==
  CHOOSE s \in [1..Cardinality(S) -> S] :
    \A i, j \in 1..Cardinality(S) : i < j => s[i] < s[j]
=============================================================================
