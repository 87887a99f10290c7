----------------------------- MODULE MCHjt212 -----------------------------
(***************************************************************************)
(* Instances of Hjt212 for TLC: the module has no constants.               *)
(***************************************************************************)
EXTENDS Hjt212
=============================================================================
