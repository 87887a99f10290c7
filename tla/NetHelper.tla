----------------------------- MODULE NetHelper -----------------------------
(***************************************************************************)
(* board/net_helper.c: one entry of s_net_list run as a TCP or UDP client. *)
(* Its task (_net_task) connects, reads, closes and connects again for     *)
(* ever; other threads send on the connection or ask for it to be closed.  *)
(*                                                                         *)
(* The kernel gives a new descriptor the lowest free number, and the rest  *)
(* of the program opens and closes descriptors too, so that a number the   *)
(* helper has closed may at once denote something else.                    *)
(*                                                                         *)
(* A thread inside a critical section of net->mutex takes one step there;  *)
(* the closing section of the task is taken apart into steps.  `shutdown`  *)
(* is left out: net_close is called only before the task exists.           *)
(***************************************************************************)
EXTENDS Integers, Sequences, FiniteSets

CONSTANTS
  Threads,  \* threads that call net_send, net_disconnect, ws_net_try_send
  NFds      \* bound: descriptors the kernel has left for the process

ASSUME FdAssumption == NFds \in Nat \ {0}

VARIABLES
  udp,         \* configuration: tcpip_type is TCP_IP_UDP
  pc,          \* where the task is
  sock_fd,     \* net->sock_fd
  tcp_fd,      \* net->tcp_fd[0]
  disconnect,  \* net->disconnect
  locked,      \* the task holds net->mutex
  status,      \* g_tcpip_states[n]
  kernel,      \* whose each descriptor number is
  call,        \* the call each thread is in
  worker,      \* the protocol task has been started
  reinit,      \* s_cc_reinit_flag[n][0]
  stray        \* history: bytes went to a descriptor that was not the helper's

taskVars == <<pc, sock_fd, tcp_fd, locked, status, worker>>
vars == <<udp, taskVars, disconnect, kernel, call, reinit, stray>>

Fd == 0 .. NFds - 1
NoFd == -1

\* A node of the list: its descriptor, and whether it is connected.
Entry == [s : Fd \cup {NoFd}, conned : BOOLEAN]

Init ==
  /\ udp \in BOOLEAN
  /\ pc = "top"
  /\ sock_fd = NoFd
  /\ tcp_fd = NoFd
  /\ disconnect = FALSE
  /\ locked = FALSE
  /\ status = <<>>
  /\ kernel = [f \in Fd |-> "free"]
  /\ call = [t \in Threads |-> "none"]
  /\ worker = FALSE
  /\ reinit = FALSE
  /\ stray = FALSE

-----------------------------------------------------------------------------
(* The list of connections shown to the user *)

\* net_tcpip_state_open and the assignment of eState that follows it: the
\* first node that is free or has the descriptor already, else a new one.
StateOpen(list, s, conned) ==
  LET fits == {i \in DOMAIN list : list[i].s \in {s, NoFd}} IN
  IF fits = {} THEN Append(list, [s |-> s, conned |-> conned])
  ELSE LET i == CHOOSE i \in fits : \A j \in fits : i <= j
       IN [list EXCEPT ![i] = [s |-> s, conned |-> conned]]

\* StateClose as it would be with the node left as it is.
StateKeep(list, s) == list

\* net_tcpip_state_close.
StateClose(list, s) ==
  LET has == {i \in DOMAIN list : list[i].s = s} IN
  IF s = NoFd \/ has = {} THEN list
  ELSE LET i == CHOOSE i \in has : \A j \in has : i <= j
       IN [list EXCEPT ![i] = [s |-> NoFd, conned |-> FALSE]]

-----------------------------------------------------------------------------
(* The task *)

\* The head of the loop of _net_task, and of prvRunAsTCPClient.
Begin ==
  /\ pc = "top"
  /\ disconnect' = FALSE
  /\ sock_fd' = NoFd
  /\ tcp_fd' = NoFd
  /\ pc' = "socket"
  /\ UNCHANGED <<udp, locked, status, kernel, call, worker, reinit, stray>>

\* The name of the peer does not resolve, or no descriptor is left.
NoSocket ==
  /\ pc = "socket"
  /\ pc' = "exit"
  /\ UNCHANGED <<udp, sock_fd, tcp_fd, disconnect, locked, status, kernel, call, worker, reinit, stray>>

OpenSocket ==
  /\ pc = "socket"
  /\ \E f \in Fd :
       /\ kernel[f] = "free"
       /\ \A g \in 0 .. f - 1 : kernel[g] # "free"
       /\ kernel' = [kernel EXCEPT ![f] = "own"]
       /\ sock_fd' = f
       /\ status' = IF udp THEN status ELSE StateOpen(status, f, FALSE)
  /\ pc' = "connect"
  /\ UNCHANGED <<udp, tcp_fd, disconnect, locked, call, worker, reinit, stray>>

\* connect, or bind for UDP, or the setting of an option fails.
ConnectFails ==
  /\ pc = "connect"
  /\ pc' = "exit"
  /\ UNCHANGED <<udp, sock_fd, tcp_fd, disconnect, locked, status, kernel, call, worker, reinit, stray>>

Connected ==
  /\ pc = "connect"
  /\ tcp_fd' = sock_fd
  /\ sock_fd' = NoFd
  /\ pc' = "start"
  /\ UNCHANGED <<udp, disconnect, locked, status, kernel, call, worker, reinit, stray>>

\* *_startwork creates the protocol task unless it exists.
StartWork ==
  /\ pc = "start"
  /\ worker' = TRUE
  /\ status' = IF udp THEN status ELSE StateOpen(status, tcp_fd, TRUE)
  /\ pc' = "select"
  /\ UNCHANGED <<udp, sock_fd, tcp_fd, disconnect, locked, kernel, call, reinit, stray>>

\* Quiet as it would be without the look at net->disconnect.
QuietDeaf ==
  /\ pc = "select"
  /\ UNCHANGED vars

\* Four seconds without a byte: the only time net->disconnect is looked at.
Quiet ==
  /\ pc = "select"
  /\ pc' = IF disconnect THEN "exit" ELSE "select"
  /\ UNCHANGED <<udp, sock_fd, tcp_fd, disconnect, locked, status, kernel, call, worker, reinit, stray>>

\* select reports an error or something to read.
SelectReturns ==
  /\ pc = "select"
  /\ pc' \in {"exit", "read"}
  /\ UNCHANGED <<udp, sock_fd, tcp_fd, disconnect, locked, status, kernel, call, worker, reinit, stray>>

\* One read, in a critical section: bytes that are passed on, EAGAIN, or the
\* end of the connection.
Read ==
  /\ pc = "read"
  /\ ~locked
  /\ pc' \in {"select", "exit"}
  /\ UNCHANGED <<udp, sock_fd, tcp_fd, disconnect, locked, status, kernel, call, worker, reinit, stray>>

\* ExitWork as it would be for a protocol that is not in the switch.
ExitSilently ==
  /\ pc = "exit"
  /\ pc' = "lock"
  /\ UNCHANGED <<udp, sock_fd, tcp_fd, disconnect, locked, status, kernel, call, worker, reinit, stray>>

\* *_exitwork, also after an attempt that never started the protocol task.
ExitWork ==
  /\ pc = "exit"
  /\ reinit' = TRUE
  /\ pc' = "lock"
  /\ UNCHANGED <<udp, sock_fd, tcp_fd, disconnect, locked, status, kernel, call, worker, stray>>

\* LockToClose as it would be without net->mutex.
CloseUnlocked ==
  /\ pc = "lock"
  /\ pc' = "close"
  /\ UNCHANGED <<udp, sock_fd, tcp_fd, disconnect, locked, status, kernel, call, worker, reinit, stray>>

LockToClose ==
  /\ pc = "lock"
  /\ ~locked
  /\ locked' = TRUE
  /\ pc' = "close"
  /\ UNCHANGED <<udp, sock_fd, tcp_fd, disconnect, status, kernel, call, worker, reinit, stray>>

\* CloseSockets as it would be for the connected descriptor only.
CloseConnected ==
  /\ pc = "close"
  /\ kernel' = [f \in Fd |-> IF f = tcp_fd THEN "free" ELSE kernel[f]]
  /\ status' = IF udp THEN status ELSE StateClose(StateClose(status, tcp_fd), sock_fd)
  /\ pc' = "clear"
  /\ UNCHANGED <<udp, sock_fd, tcp_fd, disconnect, locked, call, worker, reinit, stray>>

CloseSockets ==
  /\ pc = "close"
  /\ kernel' = [f \in Fd |-> IF f \in {tcp_fd, sock_fd} THEN "free" ELSE kernel[f]]
  /\ status' = IF udp THEN status ELSE StateClose(StateClose(status, tcp_fd), sock_fd)
  /\ pc' = "clear"
  /\ UNCHANGED <<udp, sock_fd, tcp_fd, disconnect, locked, call, worker, reinit, stray>>

\* ClearSockets as it would be without the release of the mutex.
ClearHolding ==
  /\ pc = "clear"
  /\ sock_fd' = NoFd
  /\ tcp_fd' = NoFd
  /\ pc' = "delay"
  /\ UNCHANGED <<udp, disconnect, locked, status, kernel, call, worker, reinit, stray>>

\* The numbers are cleared and the mutex is released.
ClearSockets ==
  /\ pc = "clear"
  /\ sock_fd' = NoFd
  /\ tcp_fd' = NoFd
  /\ locked' = FALSE
  /\ pc' = "delay"
  /\ UNCHANGED <<udp, disconnect, status, kernel, call, worker, reinit, stray>>

\* Two seconds, then the next attempt.
Delay ==
  /\ pc = "delay"
  /\ pc' = "top"
  /\ UNCHANGED <<udp, sock_fd, tcp_fd, disconnect, locked, status, kernel, call, worker, reinit, stray>>

-----------------------------------------------------------------------------
(* The other threads *)

\* What a write to descriptor f would be: on -1 it fails, on a number that is
\* not an open socket of this helper it goes astray.
Astray(f) == f # NoFd /\ kernel[f] # "own"

\* net_send looks at the descriptor before it takes the mutex ...
SendChecks(t) ==
  /\ call[t] = "none"
  /\ tcp_fd # NoFd
  /\ call' = [call EXCEPT ![t] = "send"]
  /\ UNCHANGED <<udp, taskVars, disconnect, kernel, reinit, stray>>

\* ... and reads it again when it has the mutex.
Send(t) ==
  /\ call[t] = "send"
  /\ ~locked
  /\ stray' = (stray \/ Astray(tcp_fd))
  /\ call' = [call EXCEPT ![t] = "none"]
  /\ UNCHANGED <<udp, taskVars, disconnect, kernel, reinit>>

\* ws_net_try_send: for TCP to the descriptor in the list whose remote port
\* is known, for UDP to tcp_fd[0] as it is.
TrySend(t) ==
  /\ call[t] = "none"
  /\ ~locked
  /\ \/ /\ udp
        /\ stray' = (stray \/ Astray(tcp_fd))
     \/ /\ ~udp
        /\ \E i \in DOMAIN status :
             status[i].conned /\ stray' = (stray \/ Astray(status[i].s))
  /\ UNCHANGED <<udp, taskVars, disconnect, kernel, call, reinit>>

\* net_disconnect raises the flag, then waits for the descriptor to go ...
Disconnect(t) ==
  /\ call[t] = "none"
  /\ disconnect' = TRUE
  /\ call' = [call EXCEPT ![t] = "disconnect"]
  /\ UNCHANGED <<udp, taskVars, kernel, reinit, stray>>

\* ... or for five seconds.
DisconnectReturns(t) ==
  /\ call[t] = "disconnect"
  /\ call' = [call EXCEPT ![t] = "none"]
  /\ UNCHANGED <<udp, taskVars, disconnect, kernel, reinit, stray>>

\* The protocol task begins a session.
ClearReinit ==
  /\ worker
  /\ reinit' = FALSE
  /\ UNCHANGED <<udp, taskVars, disconnect, kernel, call, stray>>

\* The rest of the program opens and closes its files and sockets; it does not
\* use up the descriptors of the process.
OthersOpen ==
  /\ Cardinality({f \in Fd : kernel[f] = "other"}) < NFds - 1
  /\ \E f \in Fd :
       /\ kernel[f] = "free"
       /\ \A g \in 0 .. f - 1 : kernel[g] # "free"
       /\ kernel' = [kernel EXCEPT ![f] = "other"]
  /\ UNCHANGED <<udp, taskVars, disconnect, call, reinit, stray>>

OthersClose ==
  /\ \E f \in Fd : kernel[f] = "other" /\ kernel' = [kernel EXCEPT ![f] = "free"]
  /\ UNCHANGED <<udp, taskVars, disconnect, call, reinit, stray>>

TaskStep ==
  \/ Begin \/ NoSocket \/ OpenSocket \/ ConnectFails \/ Connected \/ StartWork
  \/ Quiet \/ SelectReturns \/ Read
  \/ ExitWork \/ LockToClose \/ CloseSockets \/ ClearSockets \/ Delay

ThreadStep(t) ==
  SendChecks(t) \/ Send(t) \/ TrySend(t) \/ Disconnect(t) \/ DisconnectReturns(t)

Next ==
  \/ TaskStep
  \/ \E t \in Threads : ThreadStep(t)
  \/ ClearReinit
  \/ OthersOpen
  \/ OthersClose

Spec == Init /\ [][Next]_vars

\* The task never stops; a peer that can be reached again and again is in the
\* end reached, and the line is quiet for four seconds again and again.
Fairness ==
  /\ WF_vars(TaskStep)
  /\ SF_vars(OpenSocket)
  /\ SF_vars(Connected)
  /\ SF_vars(Quiet)

FairSpec == Spec /\ Fairness

-----------------------------------------------------------------------------
(* Properties *)

TypeOK ==
  /\ udp \in BOOLEAN
  /\ pc \in {"top", "socket", "connect", "start", "select", "read", "exit", "lock",
             "close", "clear", "delay"}
  /\ sock_fd \in Fd \cup {NoFd}
  /\ tcp_fd \in Fd \cup {NoFd}
  /\ disconnect \in BOOLEAN
  /\ locked \in BOOLEAN
  /\ status \in {<<>>} \cup {<<e>> : e \in Entry}
  /\ kernel \in [Fd -> {"free", "own", "other"}]
  /\ call \in [Threads -> {"none", "send", "disconnect"}]
  /\ worker \in BOOLEAN
  /\ reinit \in BOOLEAN
  /\ stray \in BOOLEAN

\* Whatever the interleaving, no byte is written to a descriptor number that
\* the helper has closed and that may be somebody else's by now.
SendsOwn == ~stray

\* A descriptor the helper has opened is one it still knows of, so that no
\* attempt, however it ends, uses one up.
NoLeak == pc # "clear" => {f \in Fd : kernel[f] = "own"} = {sock_fd, tcp_fd} \ {NoFd}

\* The list shows the open descriptor of a TCP helper, and nothing once it is
\* closed.
StatusExact ==
  ~udp =>
    {status[i].s : i \in DOMAIN status} \ {NoFd} = {f \in Fd : kernel[f] = "own"}

\* A helper without a connection gets one.
Reconnects == tcp_fd = NoFd ~> tcp_fd # NoFd

\* A request to disconnect made while connected ends that connection.
DisconnectHonoured == disconnect /\ tcp_fd # NoFd ~> tcp_fd = NoFd

LinkOfHelper == INSTANCE Link WITH
  up <- tcp_fd # NoFd,
  ending <- pc \in {"lock", "close", "clear"},
  reinit <- reinit

\* The task is the link the protocol tasks rely on: it says so in
\* s_cc_reinit_flag before it takes a connection away.
ImplementsLink == LinkOfHelper!Spec
=============================================================================
