---------------------------- MODULE MCDocuments -----------------------------
(* A small instance of Documents for TLC. *)
EXTENDS Documents, TLC

Symmetry == Permutations(Ident)
=============================================================================
