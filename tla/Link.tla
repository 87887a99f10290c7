-------------------------------- MODULE Link --------------------------------
(***************************************************************************)
(* What a protocol task of the gateway (cc_bjdc.c, hjt212.c, dm101.c) sees *)
(* of its TCP or UDP client connection: whether there is one, and the flag *)
(* s_cc_reinit_flag by which the network task tells it to start over.      *)
(* NetHelper shows that the network task of net_helper.c provides this.    *)
(***************************************************************************)
VARIABLES
  up,      \* net_isconnect: net->tcp_fd[0] holds a descriptor
  ending,  \* the network task is closing the connection, or a failed attempt
  reinit   \* s_cc_reinit_flag[index][0]

linkVars == <<up, ending, reinit>>

LinkTypeOK == up \in BOOLEAN /\ ending \in BOOLEAN /\ reinit \in BOOLEAN

LinkInit ==
  /\ up = FALSE
  /\ ending = FALSE
  /\ reinit = FALSE

\* A connection is made.
Connect ==
  /\ ~up
  /\ ~ending
  /\ up' = TRUE
  /\ UNCHANGED <<ending, reinit>>

\* Exit as it would be without the call of *_exitwork.
ExitSilently ==
  /\ ~ending
  /\ ending' = TRUE
  /\ UNCHANGED <<up, reinit>>

\* The end of a connection or of an attempt: *_exitwork comes first.
Exit ==
  /\ ~ending
  /\ ending' = TRUE
  /\ reinit' = TRUE
  /\ UNCHANGED up

\* The descriptor is closed and cleared.
Finish ==
  /\ ending
  /\ ending' = FALSE
  /\ up' = FALSE
  /\ UNCHANGED reinit

\* The network task's share of a step.
LinkNext == Connect \/ Exit \/ Finish

\* The protocol task takes note of the flag.
ClearReinit ==
  /\ reinit' = FALSE
  /\ UNCHANGED <<up, ending>>

\* While the connection is up the flag is only ever raised by the network
\* task, and a connection is never lost without it having been raised.
Spec == LinkInit /\ [][LinkNext \/ ClearReinit]_linkVars
=============================================================================
