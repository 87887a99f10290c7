------------------------------ MODULE MCBfifo ------------------------------
(***************************************************************************)
(* Instances of Bfifo for TLC.  Word is a small power of two, so that the  *)
(* counters wrap within a run.                                             *)
(***************************************************************************)
EXTENDS Bfifo
=============================================================================
