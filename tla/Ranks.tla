-------------------------------- MODULE Ranks ---------------------------------
(***************************************************************************)
(* Lists of positions, for the texts and lists of the code that are read   *)
(* from the front.                                                         *)
(***************************************************************************)
EXTENDS Integers, FiniteSets

\* The numbers of a set from the least to the greatest.
Ascending(numbers) ==
  [n \in 1..Cardinality(numbers) |->
     CHOOSE i \in numbers : Cardinality({j \in numbers : j < i}) = n - 1]
==============================================================================
