--------------------------- MODULE MCProofLifecycle ---------------------------
(* Instances of ProofLifecycle for TLC; the constants are given in the cfgs. *)
EXTENDS ProofLifecycle

(* Two changes of a proof of at most one primitive, one of a longer one, and *)
(* none of any.                                                              *)
FewCorruptions == [n \in 0..MaxPrimitives |-> IF n <= 1 THEN 2 ELSE 1]
NoCorruptions == [n \in 0..MaxPrimitives |-> 0]

(* IDs, version strings and logical times are interchangeable. *)
Interchangeable == Permutations(Ids) \cup Permutations(Versions) \cup Permutations(Times)
=============================================================================
