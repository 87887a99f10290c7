------------------------------ MODULE MCModem ------------------------------
(***************************************************************************)
(* The lora modem and the byte fifo, which hands the data of its nodes to  *)
(* the variable engine, for TLC.  They share no state here, and one part   *)
(* moves in a behaviour: the fifo, the network with several nodes and no   *)
(* AT mode, or the network with one node while the modem is configured.    *)
(***************************************************************************)
EXTENDS MCBfifo, Lora

CONSTANTS AtStep, AtHrtAfter, AtCmds, AtOwed, AtSessions

VARIABLE part

mdvars == <<part, vars, lvars>>

\* The network of one node, which stays, and AT mode.
At == INSTANCE Lora WITH
        LNodes <- {1}, Good <- {1}, LearnStep <- AtStep, HrtAfter <- AtHrtAfter,
        MaxCmds <- AtCmds, MaxOwed <- AtOwed, MaxSessions <- AtSessions

ModemInit ==
  /\ Init
  /\ \/ part \in {"fifo", "nodes"} /\ LInit
     \/ part = "at" /\ At!LInit

AsFifo(A)  == part = "fifo" /\ A /\ UNCHANGED <<part, lvars>>
AsNodes(A) == part = "nodes" /\ A /\ UNCHANGED <<part, vars>>
AsAt(A)    == part = "at" /\ A /\ UNCHANGED <<part, vars>>

\* The fairness of LSpec.
ModemSpec ==
  /\ ModemInit /\ [][AsFifo(Next) \/ AsNodes(LNext) \/ AsAt(At!LNext)]_mdvars
  /\ WF_mdvars(AsAt(At!RecvPacket)) /\ WF_mdvars(AsAt(At!Parse)) /\ WF_mdvars(AsAt(At!Work))
  /\ WF_mdvars(AsAt(At!Configure)) /\ WF_mdvars(AsAt(At!Tick))

\* LoraOnline of the node, with AT mode.
LoraNodesOnline == part = "at" => At!LoraOnline
=============================================================================
