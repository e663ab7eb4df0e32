------------------------------- MODULE MCRuns -------------------------------
(* A small instance of Runs for TLC. *)
EXTENDS Runs, TLC

Symmetry == Permutations(Thread) \cup Permutations(Callback) \cup Permutations(Run)
=============================================================================
