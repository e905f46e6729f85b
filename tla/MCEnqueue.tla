----------------------------- MODULE MCEnqueue ------------------------------
(* Instances of Enqueue for TLC. *)
EXTENDS Enqueue, TLC

\* Requests are interchangeable: their keys and origins are part of the state.
Symmetry == Permutations(Requests)
=============================================================================
