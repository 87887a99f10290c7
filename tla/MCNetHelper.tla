---------------------------- MODULE MCNetHelper ----------------------------
(***************************************************************************)
(* The helper for TLC: an entry of s_net_list that is configured as a      *)
(* client (NetHelper) or as a server (NetServer), and the search for       *)
(* frames in what a client reads (Frames), one of the three in a           *)
(* behaviour.  The threads are not symmetric to TLC: the run checks        *)
(* liveness.                                                               *)
(***************************************************************************)
EXTENDS NetServer, Frames

VARIABLE role  \* configuration: tcpip_cs; "receiver" for what is read of a client

all == <<role, vars, svars, fvars>>

EitherInit ==
  /\ Init /\ SInit /\ FInit
  /\ role \in {"client", "server", "receiver"}
  /\ role = "server" => udp = FALSE
  /\ role # "server" => kind = "tcp"
  /\ role = "receiver" => ~udp
  /\ role # "receiver" => fproto = "hjt212"

AsClient == role = "client" /\ Next /\ UNCHANGED <<role, svars, fvars>>
AsServer == role = "server" /\ SNext /\ UNCHANGED <<role, vars, fvars>>
AsReceiver == role = "receiver" /\ FNext /\ UNCHANGED <<role, vars, svars>>

ClientDoes(A) == role = "client" /\ A /\ UNCHANGED <<role, svars, fvars>>

EitherSpec ==
  /\ EitherInit /\ [][AsClient \/ AsServer \/ AsReceiver]_all
  /\ WF_all(ClientDoes(TaskStep))
  /\ SF_all(ClientDoes(OpenSocket))
  /\ SF_all(ClientDoes(Connected))
  /\ SF_all(ClientDoes(Quiet))

\* A client without a connection gets one.
ClientReconnects == role = "client" => Reconnects
=============================================================================
