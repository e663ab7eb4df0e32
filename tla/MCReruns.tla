------------------------------ MODULE MCReruns ------------------------------
(* A small instance of Reruns for TLC. *)
EXTENDS Reruns, TLC

Symmetry == Permutations(Chain)
=============================================================================
