------------------------------ MODULE MCSession ------------------------------
(***************************************************************************)
(* Sessions of up to three chains, for TLC.  NETWORK and LIBRARY failures  *)
(* are treated as CASCADE ones; a raised exception becomes LIBRARY.        *)
(***************************************************************************)
EXTENDS Session

MCOutcomes == {"ok", "CALLBACK", "CASCADE", "raised"}
=============================================================================
