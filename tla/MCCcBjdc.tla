----------------------------- MODULE MCCcBjdc -----------------------------
(***************************************************************************)
(* Instances of CcBjdc for TLC.                                            *)
(***************************************************************************)
EXTENDS CcBjdc
=============================================================================
