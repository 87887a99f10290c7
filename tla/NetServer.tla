----------------------------- MODULE NetServer -----------------------------
(***************************************************************************)
(* board/net_helper.c: one entry of s_net_list run as a TCP server, in     *)
(* normal or in transfer mode, or as a UDP server.  Its task listens,      *)
(* accepts clients into the places of net->tcp_fd, reads from them and     *)
(* closes them; other threads send to a client or ask for the end.         *)
(*                                                                         *)
(* Descriptors and the list of connections are those of NetHelper.  The    *)
(* task closes a client outside net->mutex, in three steps: the node of    *)
(* the list, the descriptor, the place.                                    *)
(***************************************************************************)
EXTENDS NetHelper

CONSTANT NClis      \* NET_CLI_NUMS

ASSUME ClisAssumption == NClis \in Nat \ {0}

VARIABLES
  kind,      \* configuration: "tcp", "xfer" (TCP, NET_IS_XFER) or "udp"
  spc,       \* where the task is
  srv_fd,    \* net->sock_fd
  cli_fd,    \* net->tcp_fd
  ready,     \* readset, as select left it
  tmp_fd,    \* tmp_fd, the descriptor accepted last while it has no place
  cli,       \* cli, the place the task is at
  back,      \* where the task goes on after the closing of a client
  smutex,    \* the task holds net->mutex
  shown,     \* g_tcpip_states[n]
  fds,       \* whose each descriptor number is
  sending,   \* sending[t]: the place thread t is about to send to, or 0
  asked_end, \* net->disconnect
  strays     \* history: where the task was when bytes went astray

sTask == <<spc, srv_fd, cli_fd, ready, tmp_fd, cli, back, smutex>>
svars == <<kind, sTask, shown, fds, sending, asked_end, strays>>

Clis == 1 .. NClis
NoClis == [c \in Clis |-> NoFd]

SInit ==
  /\ kind \in {"tcp", "xfer", "udp"}
  /\ spc = "top" /\ srv_fd = NoFd /\ cli_fd = NoClis
  /\ ready = {} /\ tmp_fd = NoFd /\ cli = 1 /\ back = "read" /\ smutex = FALSE
  /\ shown = <<>> /\ fds = [f \in Fd |-> "free"]
  /\ sending = [t \in Threads |-> 0] /\ asked_end = FALSE
  /\ strays = {}

\* The kernel gives out f, the lowest free number.
Gives(f) == fds[f] = "free" /\ \A g \in 0 .. f - 1 : fds[g] # "free"

\* c is the first of the places in cs.
First(c, cs) == c \in cs /\ \A d \in cs : c <= d

\* The end of a round: FD_ZERO, and nothing of the round is looked at again.
RoundOver == ready' = {} /\ cli' = 1 /\ back' = "read"

-----------------------------------------------------------------------------
(* The task *)

SBegin ==
  /\ spc = "top" /\ spc' = "socket"
  /\ asked_end' = FALSE
  /\ srv_fd' = NoFd /\ cli_fd' = NoClis
  /\ UNCHANGED <<kind, ready, tmp_fd, cli, back, smutex, shown, fds, sending, strays>>

SSocket ==
  /\ spc = "socket" /\ spc' = "bind"
  /\ \E f \in Fd : Gives(f) /\ srv_fd' = f /\ fds' = [fds EXCEPT ![f] = "own"]
  /\ UNCHANGED <<kind, cli_fd, ready, tmp_fd, cli, back, smutex, shown, sending, asked_end, strays>>

\* socket, bind, listen or the setting of an option fails, or select does.
SFails ==
  /\ spc \in {"socket", "bind", "select"} /\ spc' = "exit"
  /\ UNCHANGED <<kind, srv_fd, cli_fd, ready, tmp_fd, cli, back, smutex, shown, fds, sending, asked_end, strays>>

\* A TCP server listens; a UDP server has its one place at once.
Listen ==
  /\ spc = "bind" /\ spc' = "select"
  /\ IF kind = "udp"
       THEN /\ cli_fd' = [cli_fd EXCEPT ![1] = srv_fd] /\ srv_fd' = NoFd
            /\ UNCHANGED shown
       ELSE /\ shown' = StateOpen(shown, srv_fd, FALSE)
            /\ UNCHANGED <<srv_fd, cli_fd>>
  /\ UNCHANGED <<kind, ready, tmp_fd, cli, back, smutex, fds, sending, asked_end, strays>>

\* Four seconds without anything: net->disconnect is looked at.
SQuiet ==
  /\ spc = "select" /\ spc' = IF asked_end THEN "exit" ELSE "select"
  /\ UNCHANGED <<kind, srv_fd, cli_fd, ready, tmp_fd, cli, back, smutex, shown, fds, sending, asked_end, strays>>

SSelect ==
  /\ spc = "select" /\ spc' = IF kind = "udp" THEN "read" ELSE "accept"
  /\ ready' \in (SUBSET (({srv_fd} \cup {cli_fd[c] : c \in Clis}) \ {NoFd})) \ {{}}
  /\ cli' = 1
  /\ UNCHANGED <<kind, srv_fd, cli_fd, tmp_fd, back, smutex, shown, fds, sending, asked_end, strays>>

NoAccept ==
  /\ spc = "accept" /\ srv_fd \notin ready /\ spc' = "read"
  /\ UNCHANGED <<kind, srv_fd, cli_fd, ready, tmp_fd, cli, back, smutex, shown, fds, sending, asked_end, strays>>

\* accept, which may fail; a transfer drops its client all the same.
Accept ==
  /\ spc = "accept" /\ srv_fd \in ready
  /\ \/ tmp_fd' = NoFd /\ UNCHANGED fds
     \/ \E f \in Fd : Gives(f) /\ tmp_fd' = f /\ fds' = [fds EXCEPT ![f] = "own"]
  /\ spc' = IF kind = "xfer" THEN "drop" ELSE "place"
  /\ UNCHANGED <<kind, srv_fd, cli_fd, ready, cli, back, smutex, shown, sending, asked_end, strays>>

\* In transfer mode the new client takes the place of all others.
DropOld ==
  /\ spc = "drop"
  /\ LET used == {c \in Clis : cli_fd[c] # NoFd} IN
     \/ \E c \in Clis : First(c, used) /\ cli' = c /\ back' = "drop" /\ spc' = "unlist"
     \/ used = {} /\ spc' = "place" /\ UNCHANGED <<cli, back>>
  /\ UNCHANGED <<kind, srv_fd, cli_fd, ready, tmp_fd, smutex, shown, fds, sending, asked_end, strays>>

\* Place as it would be without the close of a client too many.
PlaceKeep ==
  /\ spc = "place"
  /\ LET unused == {c \in Clis : cli_fd[c] = NoFd} IN
     \/ \E c \in Clis :
          /\ First(c, unused)
          /\ cli_fd' = [cli_fd EXCEPT ![c] = tmp_fd]
          /\ cli' = c
          /\ spc' = IF tmp_fd = NoFd THEN "reads" ELSE "list"
          /\ UNCHANGED fds
     \/ /\ unused = {}
        /\ spc' = "reads"
        /\ UNCHANGED <<cli_fd, cli, fds>>
  /\ tmp_fd' = NoFd
  /\ UNCHANGED <<kind, srv_fd, ready, back, smutex, shown, sending, asked_end, strays>>

\* A client gets the first free place, or is closed when there is none.
Place ==
  /\ spc = "place"
  /\ LET unused == {c \in Clis : cli_fd[c] = NoFd} IN
     \/ \E c \in Clis :
          /\ First(c, unused)
          /\ cli_fd' = [cli_fd EXCEPT ![c] = tmp_fd]
          /\ cli' = c
          /\ spc' = IF tmp_fd = NoFd THEN "reads" ELSE "list"
          /\ UNCHANGED fds
     \/ /\ unused = {}
        /\ fds' = [f \in Fd |-> IF f = tmp_fd THEN "free" ELSE fds[f]]
        /\ spc' = "reads"
        /\ UNCHANGED <<cli_fd, cli>>
  /\ tmp_fd' = NoFd
  /\ UNCHANGED <<kind, srv_fd, ready, back, smutex, shown, sending, asked_end, strays>>

\* The list shows it; a transfer leaves its reading to the next round.
List ==
  /\ spc = "list"
  /\ shown' = StateOpen(shown, cli_fd[cli], TRUE)
  /\ \/ kind = "xfer" /\ spc' = "select" /\ RoundOver
     \/ kind = "tcp" /\ spc' = "reads" /\ UNCHANGED <<ready, cli, back>>
  /\ UNCHANGED <<kind, srv_fd, cli_fd, tmp_fd, smutex, fds, sending, asked_end, strays>>

Reads ==
  /\ spc = "reads" /\ spc' = "read"
  /\ cli' = 1
  /\ UNCHANGED <<kind, srv_fd, cli_fd, ready, tmp_fd, back, smutex, shown, fds, sending, asked_end, strays>>

\* One place: one read in a critical section if its client is in the set, and
\* the closing of the client when it is gone.  A UDP server ends instead.
ReadCli ==
  /\ spc = "read"
  /\ \/ cli > NClis /\ spc' = "select" /\ RoundOver
     \/ /\ cli \in Clis /\ cli_fd[cli] \notin ready
        /\ cli' = cli + 1 /\ UNCHANGED <<spc, ready, back>>
     \/ /\ cli \in Clis /\ cli_fd[cli] \in ready /\ ~smutex
        /\ \/ cli' = cli + 1 /\ UNCHANGED <<spc, ready, back>>
           \/ kind = "udp" /\ spc' = "exit" /\ RoundOver
           \/ kind # "udp" /\ spc' = "unlist" /\ back' = "read" /\ UNCHANGED <<ready, cli>>
  /\ UNCHANGED <<kind, srv_fd, cli_fd, tmp_fd, smutex, shown, fds, sending, asked_end, strays>>

\* net_tcpip_state_close, close, tcp_fd[cli] = -1.
Unlist ==
  /\ spc = "unlist" /\ spc' = "close"
  /\ shown' = StateClose(shown, cli_fd[cli])
  /\ UNCHANGED <<kind, srv_fd, cli_fd, ready, tmp_fd, cli, back, smutex, fds, sending, asked_end, strays>>

CloseCli ==
  /\ spc = "close" /\ spc' = "forget"
  /\ fds' = [fds EXCEPT ![cli_fd[cli]] = "free"]
  /\ UNCHANGED <<kind, srv_fd, cli_fd, ready, tmp_fd, cli, back, smutex, shown, sending, asked_end, strays>>

Forget ==
  /\ spc = "forget" /\ spc' = back
  /\ cli_fd' = [cli_fd EXCEPT ![cli] = NoFd]
  /\ cli' = IF back = "read" THEN cli + 1 ELSE cli
  /\ UNCHANGED <<kind, srv_fd, ready, tmp_fd, back, smutex, shown, fds, sending, asked_end, strays>>

\* __END: everything is closed and cleared with the mutex.
SLock ==
  /\ spc = "exit" /\ ~smutex
  /\ smutex' = TRUE /\ spc' = "end"
  /\ UNCHANGED <<kind, srv_fd, cli_fd, ready, tmp_fd, cli, back, shown, fds, sending, asked_end, strays>>

\* EndAll as it would be with the mutex released before the places are cleared.
EndAllOpen ==
  /\ spc = "end" /\ spc' = "cleared"
  /\ LET closed == {srv_fd} \cup {cli_fd[c] : c \in Clis} IN
     /\ fds' = [f \in Fd |-> IF f \in closed THEN "free" ELSE fds[f]]
     /\ shown' = [i \in DOMAIN shown |->
                    IF shown[i].s \in closed THEN [s |-> NoFd, conned |-> FALSE] ELSE shown[i]]
  /\ smutex' = FALSE
  /\ UNCHANGED <<kind, srv_fd, cli_fd, ready, tmp_fd, cli, back, sending, asked_end, strays>>

EndAll ==
  /\ spc = "end" /\ spc' = "cleared"
  /\ LET closed == {srv_fd} \cup {cli_fd[c] : c \in Clis} IN
     /\ fds' = [f \in Fd |-> IF f \in closed THEN "free" ELSE fds[f]]
     /\ shown' = [i \in DOMAIN shown |->
                    IF shown[i].s \in closed THEN [s |-> NoFd, conned |-> FALSE] ELSE shown[i]]
  /\ UNCHANGED <<kind, srv_fd, cli_fd, ready, tmp_fd, cli, back, smutex, sending, asked_end, strays>>

ClearAll ==
  /\ spc = "cleared" /\ spc' = "top"
  /\ srv_fd' = NoFd /\ cli_fd' = NoClis
  /\ smutex' = FALSE
  /\ UNCHANGED <<kind, ready, tmp_fd, cli, back, shown, fds, sending, asked_end, strays>>

-----------------------------------------------------------------------------
(* The other threads *)

\* Bytes written to f.
Written(f) == strays' = IF f # NoFd /\ fds[f] # "own" THEN strays \cup {spc} ELSE strays

\* net_send looks at the place before it has the mutex ...
SendLooks(t) ==
  /\ sending[t] = 0
  /\ \E c \in Clis : cli_fd[c] # NoFd /\ sending' = [sending EXCEPT ![t] = c]
  /\ UNCHANGED <<kind, sTask, shown, fds, asked_end, strays>>

\* ... and sends to what is there when it has it.
SendTo(t) ==
  /\ sending[t] # 0 /\ ~smutex
  /\ Written(cli_fd[sending[t]])
  /\ sending' = [sending EXCEPT ![t] = 0]
  /\ UNCHANGED <<kind, sTask, shown, fds, asked_end>>

\* ws_net_try_send.
STrySend ==
  /\ ~smutex
  /\ \/ kind = "udp" /\ Written(cli_fd[1])
     \/ /\ kind # "udp"
        /\ \E i \in DOMAIN shown : shown[i].conned /\ Written(shown[i].s)
  /\ UNCHANGED <<kind, sTask, shown, fds, sending, asked_end>>

\* net_disconnect.
SDisconnect ==
  /\ asked_end' = TRUE
  /\ UNCHANGED <<kind, sTask, shown, fds, sending, strays>>

SOthersOpen ==
  /\ \E f \in Fd : Gives(f) /\ fds' = [fds EXCEPT ![f] = "other"]
  /\ UNCHANGED <<kind, sTask, shown, sending, asked_end, strays>>

SOthersClose ==
  /\ \E f \in Fd : fds[f] = "other" /\ fds' = [fds EXCEPT ![f] = "free"]
  /\ UNCHANGED <<kind, sTask, shown, sending, asked_end, strays>>

STaskStep ==
  \/ SBegin \/ SSocket \/ SFails \/ Listen \/ SQuiet \/ SSelect \/ NoAccept \/ Accept
  \/ DropOld \/ Place \/ List \/ Reads \/ ReadCli \/ Unlist \/ CloseCli \/ Forget
  \/ SLock \/ EndAll \/ ClearAll

SNext ==
  \/ STaskStep
  \/ \E t \in Threads : SendLooks(t) \/ SendTo(t)
  \/ STrySend \/ SDisconnect \/ SOthersOpen \/ SOthersClose

SSpec == SInit /\ [][SNext]_svars

-----------------------------------------------------------------------------
(* Properties *)

Own == {f \in Fd : fds[f] = "own"}

\* The clients in their places, but for one whose descriptor is closed.
Held == {cli_fd[c] : c \in {c \in Clis : ~(spc = "forget" /\ c = cli)}}

\* What the list of connections shows as open.
Seen == {shown[i].s : i \in DOMAIN shown} \ {NoFd}

\* Whatever comes and goes, and however the task ends a round, the open
\* descriptors of a server are the ones in its variables, each in one place;
\* the list of a TCP server shows no other, and shows them all when the task
\* waits for the next event.
ServerKeeps ==
  spc # "cleared" =>
    /\ Own = ({srv_fd, tmp_fd} \cup Held) \ {NoFd}
    /\ \A c, d \in Clis : cli_fd[c] = cli_fd[d] /\ c # d => cli_fd[c] = NoFd
    /\ Seen \subseteq Own
    /\ kind # "udp" /\ spc = "select" => Seen = Own

\* Bytes for a client go astray in one moment only: between the close of its
\* descriptor and the clearing of its place, which the task does without the
\* mutex.  The closing of everything is safe.
AstrayOnlyForgetting == strays \subseteq {"forget"}
=============================================================================
