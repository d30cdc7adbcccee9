---------------------------- MODULE MCDerivation ----------------------------
(* Model values and bounds for checking Derivation with TLC. *)
EXTENDS Derivation
=============================================================================
