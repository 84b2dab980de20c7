------------------------------ MODULE MCReview ------------------------------
(***************************************************************************)
(* Small instances of Review: requests, field names and values are         *)
(* interchangeable, and no temporal property asks for fairness, so all     *)
(* three sets are symmetric.                                               *)
(***************************************************************************)
EXTENDS ReviewInv, TLC

Symmetry == Permutations(Requests) \union Permutations(Fields) \union Permutations(Values)
=============================================================================
