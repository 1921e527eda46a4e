------------------------- MODULE MCIdempotentCreate -------------------------
(***************************************************************************)
(* Instances of IdempotentCreate for TLC: a cache of one key, so that two  *)
(* keys overflow it.                                                       *)
(***************************************************************************)
EXTENDS IdempotentCreate, TLC

Symmetry == Permutations(Calls) \cup Permutations(Keys)
              \cup Permutations(Customers) \cup Permutations(OrderIds)
=============================================================================
