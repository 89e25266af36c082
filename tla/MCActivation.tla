----------------------------- MODULE MCActivation -----------------------------
(* Activation on a small instance; the cfg files choose the operations. *)
EXTENDS Activation, TLC

Symmetry == Permutations(Requests) \cup Permutations(Fingerprints)
=============================================================================
