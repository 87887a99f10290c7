----------------------------- MODULE MCMsgQueue -----------------------------
(***************************************************************************)
(* Instances of MsgQueue for TLC.  The receivers are model values.         *)
(***************************************************************************)
EXTENDS MsgQueue, TLC

ReceiverSymmetry == Permutations(Receivers)
=============================================================================
