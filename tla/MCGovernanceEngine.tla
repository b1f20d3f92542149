-------------------------- MODULE MCGovernanceEngine --------------------------
(* Instances of GovernanceEngine for TLC; the constants are given in the cfgs. *)
EXTENDS GovernanceEngine, TLC

(* Every primitive has all the optional callbacks, or none of them. *)
AllCallbacks == [prim \in Primitives |-> OptionalCallbacks]
NoCallbacks == [prim \in Primitives |-> {}]
SourceCallback == [prim \in Primitives |-> {"source"}]

(* Every context is bound to logical time 1. *)
TimeOne == [c \in Contexts \cup InvalidContexts |-> 1]

(* Goroutines are interchangeable. *)
Interchangeable == Permutations(Goroutines)
=============================================================================
