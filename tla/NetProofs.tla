----------------------------- MODULE NetProofs -----------------------------
(***************************************************************************)
(* Theorems about the network helper.                                      *)
(*                                                                         *)
(* NetHelper, for any number of threads and descriptors: where the task is *)
(* says which of its two descriptor variables holds a number (InHand), the *)
(* kernel's view is exactly what they hold but for the moment between      *)
(* close and clear (Owned), and in that moment the task has the mutex      *)
(* (Placed), so that a sender, which reads the descriptor under the mutex, *)
(* never finds a number that is gone.                                      *)
(*                                                                         *)
(* NetServer, for any number of descriptors, places, threads and nodes of  *)
(* the list: the descriptors the kernel counts as the server's are the     *)
(* ones in its variables, but for a place that is about to be cleared      *)
(* (SOwned); no two of the variables hold the same number (Distinct), so   *)
(* that what the kernel gives out next is new to all of them; and the list *)
(* shows each open descriptor in one node (Shown), so that the close of    *)
(* the first node that has it leaves no other.  Hence a sender that has    *)
(* the mutex can find a number that is gone only in the place that is      *)
(* about to be cleared.                                                    *)
(***************************************************************************)
EXTENDS NetServer, FoldLemmas

-----------------------------------------------------------------------------
(* The client *)

Pcs == {"top", "socket", "connect", "start", "select", "read", "exit", "lock", "close", "clear",
        "delay"}

\* The part of the types that does not concern the list of connections.
Flags ==
  /\ udp \in BOOLEAN /\ pc \in Pcs
  /\ sock_fd \in Fd \cup {NoFd} /\ tcp_fd \in Fd \cup {NoFd}
  /\ disconnect \in BOOLEAN /\ locked \in BOOLEAN /\ worker \in BOOLEAN /\ reinit \in BOOLEAN
  /\ stray \in BOOLEAN
  /\ kernel \in [Fd -> {"free", "own", "other"}]
  /\ call \in [Threads -> {"none", "send", "disconnect"}]

\* The task has the mutex just while it closes and clears.
Placed == locked <=> pc \in {"close", "clear"}

\* What the descriptor variables hold.
InHand ==
  /\ pc \in {"top", "socket", "delay"} => sock_fd = NoFd /\ tcp_fd = NoFd
  /\ pc = "connect" => sock_fd # NoFd /\ tcp_fd = NoFd
  /\ pc \in {"start", "select", "read"} => tcp_fd # NoFd /\ sock_fd = NoFd
  /\ sock_fd = NoFd \/ tcp_fd = NoFd

\* Whose the descriptors are.
Owned == \A f \in Fd : kernel[f] = "own" <=> pc # "clear" /\ f \in {sock_fd, tcp_fd}

\* The list has at most one node, which holds the descriptor that is open.
Listed ==
  \/ status = <<>> /\ (udp \/ \A f \in Fd : kernel[f] # "own")
  \/ /\ ~udp
     /\ \E e \in Entry : status = <<e>> /\ \A f \in Fd : kernel[f] = "own" <=> e.s = f

NetInv == Flags /\ Placed /\ InHand /\ Owned /\ Listed /\ SendsOwn

-----------------------------------------------------------------------------
(* The list of connections *)

LEMMA NoFdIsNone == NoFd \notin Fd
  BY FdAssumption DEF NoFd, Fd

\* To replace the only node of a list.
LEMMA ReplaceOnly ==
  ASSUME NEW x, NEW y
  PROVE  [<<x>> EXCEPT ![1] = y] = <<y>>
  OBVIOUS

\* net_tcpip_state_open puts the descriptor into the only node there is, or
\* into a new one.
LEMMA OpenValue ==
  ASSUME NEW f, NEW c
  PROVE  /\ StateOpen(<<>>, f, c) = <<[s |-> f, conned |-> c]>>
         /\ \A e \in Entry : e.s \in {f, NoFd} =>
              StateOpen(<<e>>, f, c) = <<[s |-> f, conned |-> c]>>
  <1>1. StateOpen(<<>>, f, c) = <<[s |-> f, conned |-> c]>>
    <2>1. {i \in DOMAIN <<>> : <<>>[i].s \in {f, NoFd}} = {}
      OBVIOUS
    <2> QED
      BY <2>1 DEF StateOpen
  <1>2. ASSUME NEW e \in Entry, e.s \in {f, NoFd}
        PROVE  StateOpen(<<e>>, f, c) = <<[s |-> f, conned |-> c]>>
    <2> DEFINE fits == {i \in DOMAIN <<e>> : <<e>>[i].s \in {f, NoFd}}
    <2>1. fits = {1}
      BY <1>2
    <2>2. (CHOOSE i \in fits : \A j \in fits : i <= j) = 1
      BY <2>1
    <2>3. [<<e>> EXCEPT ![1] = [s |-> f, conned |-> c]] = <<[s |-> f, conned |-> c]>>
      BY ReplaceOnly
    <2> QED
      BY <2>1, <2>2, <2>3 DEF StateOpen
  <1> QED
    BY <1>1, <1>2

\* net_tcpip_state_close frees the node of the descriptor, if it has one.
LEMMA CloseValue ==
  ASSUME NEW f
  PROVE  /\ StateClose(<<>>, f) = <<>>
         /\ \A e \in Entry :
              StateClose(<<e>>, f) =
                IF f = NoFd \/ e.s # f THEN <<e>> ELSE <<[s |-> NoFd, conned |-> FALSE]>>
  <1>1. StateClose(<<>>, f) = <<>>
    <2>1. {i \in DOMAIN <<>> : <<>>[i].s = f} = {}
      OBVIOUS
    <2> QED
      BY <2>1 DEF StateClose
  <1>2. ASSUME NEW e \in Entry
        PROVE  StateClose(<<e>>, f) =
                 IF f = NoFd \/ e.s # f THEN <<e>> ELSE <<[s |-> NoFd, conned |-> FALSE]>>
    <2> DEFINE has == {i \in DOMAIN <<e>> : <<e>>[i].s = f}
    <2>1. CASE f = NoFd
      BY <2>1 DEF StateClose
    <2>2. CASE e.s # f
      <3>1. has = {}
        BY <2>2
      <3> QED
        BY <2>2, <3>1 DEF StateClose
    <2>3. CASE f # NoFd /\ e.s = f
      <3>1. has = {1}
        BY <2>3
      <3>2. (CHOOSE i \in has : \A j \in has : i <= j) = 1
        BY <3>1
      <3>3. [<<e>> EXCEPT ![1] = [s |-> NoFd, conned |-> FALSE]] = <<[s |-> NoFd, conned |-> FALSE]>>
        BY ReplaceOnly
      <3> QED
        BY <2>3, <3>1, <3>2, <3>3 DEF StateClose
    <2> QED
      BY <2>1, <2>2, <2>3
  <1> QED
    BY <1>1, <1>2

-----------------------------------------------------------------------------
(* The invariant *)

LEMMA NetInit == Init => NetInv
  BY NoFdIsNone DEF Init, NetInv, Flags, Pcs, Placed, InHand, Owned, Listed, SendsOwn

\* The list stays what it is to the descriptors when neither changes.
LEMMA ListedStays ==
  ASSUME Listed, udp' = udp, status' = status,
         \A f \in Fd : kernel'[f] = "own" <=> kernel[f] = "own"
  PROVE  Listed'
  BY DEF Listed

\* Steps of the task between the calls that open and close.
LEMMA QuietStep ==
  ASSUME NetInv,
         Quiet \/ SelectReturns \/ Read \/ NoSocket \/ ConnectFails \/ ExitWork \/ LockToClose
           \/ Delay
  PROVE  NetInv'
  <1>1. /\ UNCHANGED <<udp, sock_fd, tcp_fd, disconnect, status, kernel, call, worker, stray>>
        /\ reinit' \in BOOLEAN /\ pc' \in Pcs
    BY DEF Quiet, SelectReturns, Read, NoSocket, ConnectFails, ExitWork, LockToClose, Delay,
           NetInv, Flags, Pcs
  <1>2. pc # "clear" /\ pc' # "clear"
    BY DEF Quiet, SelectReturns, Read, NoSocket, ConnectFails, ExitWork, LockToClose, Delay
  <1>3. Placed' /\ locked' \in BOOLEAN
    <2>1. CASE LockToClose
      BY <2>1 DEF LockToClose, Placed
    <2>2. CASE Quiet \/ SelectReturns \/ Read \/ NoSocket \/ ConnectFails \/ ExitWork \/ Delay
      <3>1. /\ locked' = locked
            /\ pc \notin {"close", "clear"} /\ pc' \notin {"close", "clear"}
        BY <2>2 DEF Quiet, SelectReturns, Read, NoSocket, ConnectFails, ExitWork, Delay
      <3> QED
        BY <3>1 DEF NetInv, Placed, Flags
    <2> QED
      BY <2>1, <2>2
  <1>4. InHand'
    BY <1>1
    DEF Quiet, SelectReturns, Read, NoSocket, ConnectFails, ExitWork, LockToClose, Delay,
        NetInv, InHand
  <1>5. Flags'
    BY <1>1, <1>3 DEF NetInv, Flags
  <1>6. Owned' /\ SendsOwn'
    BY <1>1, <1>2 DEF NetInv, Owned, SendsOwn
  <1>7. Listed'
    BY <1>1, ListedStays DEF NetInv
  <1> QED
    BY <1>3, <1>4, <1>5, <1>6, <1>7 DEF NetInv

\* socket, and the node of the list.
LEMMA OpenStep ==
  ASSUME NetInv, OpenSocket
  PROVE  NetInv'
  <1>1. PICK f \in Fd :
          /\ kernel[f] = "free"
          /\ kernel' = [kernel EXCEPT ![f] = "own"]
          /\ sock_fd' = f
          /\ status' = IF udp THEN status ELSE StateOpen(status, f, FALSE)
    BY DEF OpenSocket
  <1>2. /\ pc = "socket" /\ pc' = "connect"
        /\ UNCHANGED <<udp, tcp_fd, disconnect, locked, call, worker, reinit, stray>>
    BY DEF OpenSocket
  <1>3. sock_fd = NoFd /\ tcp_fd = NoFd /\ f # NoFd
    BY <1>2, NoFdIsNone DEF NetInv, InHand
  <1>4. \A g \in Fd : kernel[g] # "own"
    BY <1>2, <1>3, NoFdIsNone DEF NetInv, Owned
  <1>5. \A g \in Fd : kernel'[g] = "own" <=> g = f
    BY <1>1, <1>4 DEF NetInv, Flags
  <1>6. Flags' /\ Placed' /\ InHand' /\ SendsOwn'
    BY <1>1, <1>2, <1>3 DEF NetInv, Flags, Pcs, Placed, InHand, SendsOwn
  <1>7. Owned'
    BY <1>1, <1>2, <1>3, <1>5, NoFdIsNone DEF Owned
  <1>8. Listed'
    <2>1. CASE udp
      BY <1>1, <1>2, <2>1 DEF NetInv, Listed
    <2>2. CASE ~udp
      <3>1. status' = <<[s |-> f, conned |-> FALSE]>>
        <4>1. CASE status = <<>>
          BY <1>1, <2>2, <4>1, OpenValue
        <4>2. CASE \E e \in Entry : status = <<e>> /\ \A g \in Fd : kernel[g] = "own" <=> e.s = g
          <5>1. PICK e \in Entry : status = <<e>> /\ \A g \in Fd : kernel[g] = "own" <=> e.s = g
            BY <4>2
          <5>2. e.s = NoFd
            BY <1>4, <5>1 DEF Entry
          <5> QED
            BY <1>1, <2>2, <5>1, <5>2, OpenValue
        <4> QED
          BY <4>1, <4>2 DEF NetInv, Listed
      <3>2. [s |-> f, conned |-> FALSE] \in Entry
        BY DEF Entry
      <3> QED
        BY <1>2, <1>5, <2>2, <3>1, <3>2 DEF Listed
    <2> QED
      BY <2>1, <2>2
  <1> QED
    BY <1>6, <1>7, <1>8 DEF NetInv

\* The descriptor becomes that of the connection, and is shown as connected.
LEMMA ConnectStep ==
  ASSUME NetInv, Connected \/ StartWork
  PROVE  NetInv'
  <1>1. CASE Connected
    <2>1. Flags' /\ Placed' /\ InHand' /\ Owned' /\ SendsOwn'
      BY <1>1 DEF Connected, NetInv, Flags, Pcs, Placed, InHand, Owned, SendsOwn
    <2>2. Listed'
      BY <1>1, ListedStays DEF Connected, NetInv
    <2> QED
      BY <2>1, <2>2 DEF NetInv
  <1>2. CASE StartWork
    <2>1. Flags' /\ Placed' /\ InHand' /\ Owned' /\ SendsOwn'
      BY <1>2 DEF StartWork, NetInv, Flags, Pcs, Placed, InHand, Owned, SendsOwn
    <2>2. Listed'
      <3>1. /\ UNCHANGED <<udp, kernel>>
            /\ status' = IF udp THEN status ELSE StateOpen(status, tcp_fd, TRUE)
        BY <1>2 DEF StartWork
      <3>2. tcp_fd \in Fd /\ \A g \in Fd : kernel[g] = "own" <=> g = tcp_fd
        BY <1>2, NoFdIsNone DEF StartWork, NetInv, Flags, InHand, Owned
      <3>3. CASE udp
        BY <3>1, <3>3 DEF NetInv, Listed
      <3>4. CASE ~udp
        <4>1. PICK e \in Entry : status = <<e>> /\ \A g \in Fd : kernel[g] = "own" <=> e.s = g
          BY <3>2, <3>4 DEF NetInv, Listed
        <4>2. e.s = tcp_fd
          BY <3>2, <4>1
        <4>3. status' = <<[s |-> tcp_fd, conned |-> TRUE]>>
          BY <3>1, <3>4, <4>1, <4>2, OpenValue
        <4>4. [s |-> tcp_fd, conned |-> TRUE] \in Entry
          BY <3>2 DEF Entry
        <4> QED
          BY <3>1, <3>2, <3>4, <4>3, <4>4 DEF Listed
      <3> QED
        BY <3>3, <3>4
    <2> QED
      BY <2>1, <2>2 DEF NetInv
  <1> QED
    BY <1>1, <1>2

\* close, and the node of the list.
LEMMA CloseStep ==
  ASSUME NetInv, CloseSockets
  PROVE  NetInv'
  <1>1. /\ pc = "close" /\ pc' = "clear"
        /\ kernel' = [f \in Fd |-> IF f \in {tcp_fd, sock_fd} THEN "free" ELSE kernel[f]]
        /\ status' = IF udp THEN status ELSE StateClose(StateClose(status, tcp_fd), sock_fd)
        /\ UNCHANGED <<udp, sock_fd, tcp_fd, disconnect, locked, call, worker, reinit, stray>>
    BY DEF CloseSockets
  <1>2. \A f \in Fd : kernel'[f] # "own"
    BY <1>1 DEF NetInv, Owned
  <1>3. Flags' /\ Placed' /\ InHand' /\ SendsOwn'
    BY <1>1 DEF NetInv, Flags, Pcs, Placed, InHand, SendsOwn
  <1>4. Owned'
    BY <1>1, <1>2 DEF Owned
  <1>5. Listed'
    <2>1. CASE udp
      BY <1>1, <2>1 DEF NetInv, Listed
    <2>2. CASE ~udp /\ status = <<>>
      BY <1>1, <1>2, <2>2, CloseValue DEF Listed
    <2>3. CASE ~udp /\ status # <<>>
      <3>1. PICK e \in Entry : status = <<e>> /\ \A g \in Fd : kernel[g] = "own" <=> e.s = g
        BY <2>3 DEF NetInv, Listed
      <3>2. e.s \in Fd \cup {NoFd}
        BY DEF Entry
      <3>3. e.s # NoFd => e.s \in {sock_fd, tcp_fd}
        BY <1>1, <3>1, <3>2 DEF NetInv, Owned
      <3> DEFINE none == [s |-> NoFd, conned |-> FALSE]
      <3>4. none \in Entry /\ none.s = NoFd
        BY DEF Entry
      <3>5. \E d \in Entry : d.s = NoFd /\ status' = <<d>>
        <4>1. status' = StateClose(StateClose(<<e>>, tcp_fd), sock_fd)
          BY <1>1, <2>3, <3>1
        <4>2. CASE e.s = NoFd
          <5>1. StateClose(<<e>>, tcp_fd) = <<e>> /\ StateClose(<<e>>, sock_fd) = <<e>>
            BY <4>2, CloseValue
          <5> QED
            BY <4>1, <4>2, <5>1
        <4>3. CASE e.s # NoFd /\ e.s = tcp_fd
          <5>1. StateClose(<<e>>, tcp_fd) = <<none>>
            BY <4>3, CloseValue
          <5>2. StateClose(<<none>>, sock_fd) = <<none>>
            BY <3>4, CloseValue
          <5> QED
            BY <3>4, <4>1, <5>1, <5>2
        <4>4. CASE e.s # NoFd /\ e.s # tcp_fd
          <5>1. StateClose(<<e>>, tcp_fd) = <<e>>
            BY <4>4, CloseValue
          <5>2. StateClose(<<e>>, sock_fd) = <<none>>
            BY <3>3, <4>4, CloseValue
          <5> QED
            BY <3>4, <4>1, <5>1, <5>2
        <4> QED
          BY <4>2, <4>3, <4>4
      <3> QED
        BY <1>1, <1>2, <2>3, <3>5, NoFdIsNone DEF Listed
    <2> QED
      BY <2>1, <2>2, <2>3
  <1> QED
    BY <1>3, <1>4, <1>5 DEF NetInv

\* The variables are cleared, at the end of a connection and before the next.
LEMMA ClearStep ==
  ASSUME NetInv, ClearSockets \/ Begin
  PROVE  NetInv'
  <1>1. /\ pc' \in {"delay", "socket"}
        /\ sock_fd' = NoFd /\ tcp_fd' = NoFd /\ disconnect' \in BOOLEAN /\ locked' = FALSE
        /\ UNCHANGED <<udp, status, kernel, call, worker, reinit, stray>>
    BY DEF ClearSockets, Begin, NetInv, Placed, Flags
  <1>2. \A f \in Fd : kernel[f] # "own"
    BY NoFdIsNone DEF ClearSockets, Begin, NetInv, Owned, InHand
  <1>3. Flags' /\ Placed' /\ InHand' /\ SendsOwn'
    BY <1>1 DEF NetInv, Flags, Pcs, Placed, InHand, SendsOwn
  <1>4. Owned'
    BY <1>1, <1>2, NoFdIsNone DEF Owned
  <1>5. Listed'
    BY <1>1, ListedStays DEF NetInv
  <1> QED
    BY <1>3, <1>4, <1>5 DEF NetInv

\* A descriptor read under the mutex is open, and so is one shown as such.
LEMMA NeverAstray ==
  ASSUME NetInv, ~locked
  PROVE  /\ ~Astray(tcp_fd)
         /\ \A i \in DOMAIN status : ~udp => ~Astray(status[i].s)
  <1>1. ~Astray(tcp_fd)
    BY DEF NetInv, Flags, Placed, Owned, Astray
  <1>2. ASSUME NEW i \in DOMAIN status, ~udp
        PROVE  ~Astray(status[i].s)
    <2>1. PICK e \in Entry : status = <<e>> /\ \A f \in Fd : kernel[f] = "own" <=> e.s = f
      BY <1>2 DEF NetInv, Listed
    <2>2. status[i] = e /\ e.s \in Fd \cup {NoFd}
      BY <1>2, <2>1 DEF Entry
    <2> QED
      BY <2>1, <2>2 DEF Astray
  <1> QED
    BY <1>1, <1>2

\* Steps of the other threads and of the rest of the program.
LEMMA OtherStep ==
  ASSUME NetInv, (\E t \in Threads : ThreadStep(t)) \/ ClearReinit \/ OthersOpen \/ OthersClose
  PROVE  NetInv'
  <1> DEFINE Same == UNCHANGED <<udp, pc, sock_fd, tcp_fd, locked, status, worker>>
  <1>1. ASSUME Same, disconnect' \in BOOLEAN, reinit' \in BOOLEAN, stray' = FALSE,
               call' \in [Threads -> {"none", "send", "disconnect"}],
               kernel' \in [Fd -> {"free", "own", "other"}],
               \A f \in Fd : kernel'[f] = "own" <=> kernel[f] = "own"
        PROVE  NetInv'
    <2>1. Flags' /\ Placed' /\ InHand' /\ SendsOwn'
      BY <1>1 DEF NetInv, Flags, Placed, InHand, SendsOwn
    <2>2. Owned'
      BY <1>1 DEF NetInv, Owned
    <2>3. Listed'
      BY <1>1, ListedStays DEF NetInv
    <2> QED
      BY <2>1, <2>2, <2>3 DEF NetInv
  <1>2. ASSUME NEW t \in Threads, ThreadStep(t)
        PROVE  NetInv'
    <2>1. stray' = FALSE
      <3>1. CASE Send(t)
        BY <3>1, NeverAstray DEF Send, NetInv, SendsOwn
      <3>2. CASE TrySend(t)
        BY <3>2, NeverAstray DEF TrySend, NetInv, SendsOwn
      <3>3. CASE SendChecks(t) \/ Disconnect(t) \/ DisconnectReturns(t)
        BY <3>3 DEF SendChecks, Disconnect, DisconnectReturns, NetInv, Flags, SendsOwn
      <3> QED
        BY <1>2, <3>1, <3>2, <3>3 DEF ThreadStep
    <2>2. /\ Same /\ UNCHANGED <<kernel, reinit>> /\ disconnect' \in BOOLEAN
          /\ call' \in [Threads -> {"none", "send", "disconnect"}]
      BY <1>2
      DEF ThreadStep, SendChecks, Send, TrySend, Disconnect, DisconnectReturns, taskVars,
          NetInv, Flags
    <2> HIDE DEF Same
    <2> QED
      BY <1>1, <2>1, <2>2 DEF NetInv, Flags
  <1>3. CASE ClearReinit
    BY <1>1, <1>3 DEF ClearReinit, taskVars, NetInv, Flags, SendsOwn
  <1>4. CASE OthersOpen \/ OthersClose
    <2>1. PICK f \in Fd, who \in {"free", "other"} :
            kernel[f] # "own" /\ kernel' = [kernel EXCEPT ![f] = who]
      BY <1>4 DEF OthersOpen, OthersClose
    <2>2. /\ kernel' \in [Fd -> {"free", "own", "other"}]
          /\ \A g \in Fd : kernel'[g] = "own" <=> kernel[g] = "own"
      BY <2>1 DEF NetInv, Flags
    <2>3. UNCHANGED <<udp, taskVars, disconnect, call, reinit, stray>>
      BY <1>4 DEF OthersOpen, OthersClose
    <2> QED
      BY <1>1, <2>2, <2>3 DEF taskVars, NetInv, Flags, SendsOwn
  <1> QED
    BY <1>2, <1>3, <1>4

LEMMA NetStep == NetInv /\ [Next]_vars => NetInv'
  <1> SUFFICES ASSUME NetInv, [Next]_vars
               PROVE  NetInv'
    OBVIOUS
  <1>1. CASE UNCHANGED vars
    BY <1>1
    DEF vars, taskVars, NetInv, Flags, Placed, InHand, Owned, Listed, SendsOwn
  <1> QED
    BY <1>1, QuietStep, OpenStep, ConnectStep, CloseStep, ClearStep, OtherStep
    DEF Next, TaskStep

LEMMA NetInvariant == Spec => []NetInv
  <1> QED
    BY NetInit, NetStep, PTL DEF Spec

-----------------------------------------------------------------------------
(* The results *)

\* Everything in net_helper.c stays in range, and the list of connections never
\* needs a second node.
THEOREM TypeCorrect == Spec => []TypeOK
  <1>1. NetInv => TypeOK
    BY DEF NetInv, Flags, Pcs, Listed, SendsOwn, TypeOK
  <1> QED
    BY <1>1, NetInvariant, PTL

\* net_send and ws_net_try_send never write to a descriptor number that the
\* helper has closed.
THEOREM AlwaysSendsOwn == Spec => []SendsOwn
  <1>1. NetInv => SendsOwn
    BY DEF NetInv
  <1> QED
    BY <1>1, NetInvariant, PTL

\* No attempt of the task, however it ends, uses up a descriptor.
THEOREM NeverLeaks == Spec => []NoLeak
  <1>1. NetInv => NoLeak
    BY NoFdIsNone DEF NetInv, Flags, Owned, NoLeak
  <1> QED
    BY <1>1, NetInvariant, PTL

\* The list on the web page shows the open descriptor and nothing else.
THEOREM StatusAlwaysExact == Spec => []StatusExact
  <1>1. ASSUME NetInv, ~udp
        PROVE  {status[i].s : i \in DOMAIN status} \ {NoFd} = {f \in Fd : kernel[f] = "own"}
    <2>1. CASE status = <<>>
      <3>1. DOMAIN status = {}
        BY <2>1
      <3> QED
        BY <1>1, <2>1, <3>1 DEF NetInv, Listed
    <2>2. CASE status # <<>>
      <3>1. PICK e \in Entry : status = <<e>> /\ \A f \in Fd : kernel[f] = "own" <=> e.s = f
        BY <1>1, <2>2 DEF NetInv, Listed
      <3>2. DOMAIN status = {1} /\ status[1] = e
        BY <3>1
      <3>3. {status[i].s : i \in DOMAIN status} = {e.s}
        BY <3>2
      <3> QED
        BY <3>1, <3>3, NoFdIsNone DEF Entry
    <2> QED
      BY <2>1, <2>2
  <1>2. NetInv => StatusExact
    BY <1>1 DEF StatusExact
  <1> QED
    BY <1>2, NetInvariant, PTL

LEMMA LinkStep == NetInv /\ [Next]_vars => [LinkOfHelper!LinkNext \/ LinkOfHelper!ClearReinit]_(LinkOfHelper!linkVars)
  <1> SUFFICES ASSUME NetInv, [Next]_vars
               PROVE  \/ LinkOfHelper!LinkNext \/ LinkOfHelper!ClearReinit
                      \/ UNCHANGED LinkOfHelper!linkVars
    OBVIOUS
  <1> USE DEF LinkOfHelper!LinkNext, LinkOfHelper!linkVars
  <1>1. CASE Connected
    BY <1>1 DEF Connected, NetInv, InHand, LinkOfHelper!Connect, Flags
  <1>2. CASE ExitWork
    BY <1>2 DEF ExitWork, LinkOfHelper!Exit
  <1>3. CASE ClearSockets
    BY <1>3 DEF ClearSockets, LinkOfHelper!Finish
  <1>4. CASE ClearReinit
    BY <1>4 DEF ClearReinit, taskVars, LinkOfHelper!ClearReinit
  <1>5. CASE Begin
    BY <1>5 DEF Begin, NetInv, InHand
  <1>6. CASE NoSocket \/ OpenSocket \/ ConnectFails \/ StartWork
    <2>1. /\ UNCHANGED <<tcp_fd, reinit>>
          /\ pc \notin {"lock", "close", "clear"} /\ pc' \notin {"lock", "close", "clear"}
      BY <1>6 DEF NoSocket, OpenSocket, ConnectFails, StartWork
    <2> QED
      BY <2>1
  <1>7. CASE Quiet \/ SelectReturns \/ Read
    BY <1>7 DEF Quiet, SelectReturns, Read
  <1>8. CASE LockToClose \/ CloseSockets \/ Delay
    BY <1>8 DEF LockToClose, CloseSockets, Delay
  <1>9. ASSUME NEW t \in Threads, ThreadStep(t)
        PROVE  UNCHANGED LinkOfHelper!linkVars
    BY <1>9
    DEF ThreadStep, SendChecks, Send, TrySend, Disconnect, DisconnectReturns, taskVars
  <1>10. CASE OthersOpen \/ OthersClose \/ UNCHANGED vars
    BY <1>10 DEF OthersOpen, OthersClose, vars, taskVars
  <1> QED
    BY <1>1, <1>2, <1>3, <1>4, <1>5, <1>6, <1>7, <1>8, <1>9, <1>10 DEF Next, TaskStep

\* The task raises s_cc_reinit_flag before it takes a connection away: it is
\* the Link the protocol tasks are written over.
THEOREM HelperIsLink == Spec => ImplementsLink
  <1>1. Init => LinkOfHelper!LinkInit
    BY DEF Init, LinkOfHelper!LinkInit
  <1> QED
    BY <1>1, LinkStep, NetInvariant, PTL DEF Spec, ImplementsLink, LinkOfHelper!Spec

-----------------------------------------------------------------------------
(* The server *)

Spcs == {"top", "socket", "bind", "select", "accept", "drop", "place", "list", "reads", "read",
         "unlist", "close", "forget", "exit", "end", "cleared"}

\* Everything is in range.
SFlags ==
  /\ kind \in {"tcp", "xfer", "udp"} /\ spc \in Spcs
  /\ srv_fd \in Fd \cup {NoFd} /\ tmp_fd \in Fd \cup {NoFd}
  /\ cli_fd \in [Clis -> Fd \cup {NoFd}]
  /\ ready \in SUBSET Fd
  /\ cli \in 1 .. NClis + 1 /\ back \in {"read", "drop"}
  /\ smutex \in BOOLEAN
  /\ shown \in Seq(Entry)
  /\ fds \in [Fd -> {"free", "own", "other"}]
  /\ sending \in [Threads -> 0 .. NClis]

\* The task lists and closes the client of a place that has one.
AtCli == spc \in {"list", "unlist", "close", "forget"} => cli \in Clis /\ cli_fd[cli] # NoFd

\* The task has the mutex just while it closes everything.
Mutexed == smutex <=> spc \in {"end", "cleared"}

\* What is not open yet.
Unused ==
  /\ spc \in {"top", "socket"} => srv_fd = NoFd
  /\ spc \in {"top", "socket", "bind"} => \A c \in Clis : cli_fd[c] = NoFd
  /\ spc = "bind" => srv_fd # NoFd

\* A client has no place only on the way to one.
Accepted ==
  tmp_fd # NoFd =>
    \/ spc \in {"drop", "place"}
    \/ spc \in {"unlist", "close", "forget"} /\ back = "drop"

\* A UDP server has no clients to accept or to close.
UdpPath ==
  kind = "udp" =>
    spc \in {"top", "socket", "bind", "select", "read", "exit", "end", "cleared"}

\* The kernel's view of descriptor f, and the variables'.
Owns(f) ==
  f = srv_fd \/ f = tmp_fd \/ \E c \in Clis : cli_fd[c] = f /\ ~(spc = "forget" /\ c = cli)
SOwned == \A f \in Fd : fds[f] = "own" <=> spc # "cleared" /\ Owns(f)

\* No descriptor is in two variables.
Distinct ==
  /\ \A c, d \in Clis : cli_fd[c] = cli_fd[d] /\ c # d => cli_fd[c] = NoFd
  /\ \A c \in Clis : cli_fd[c] = srv_fd \/ cli_fd[c] = tmp_fd => cli_fd[c] = NoFd
  /\ srv_fd = tmp_fd => srv_fd = NoFd

\* A list has a node for f; and no two nodes for any.
Has(list, f) == \E i \in DOMAIN list : list[i].s = f
Apart(list) == \A i, j \in DOMAIN list : list[i].s = list[j].s /\ list[i].s # NoFd => i = j

\* The list is to show f.
Opened(f) ==
  \/ f = srv_fd
  \/ \E c \in Clis : cli_fd[c] = f /\ ~(spc \in {"list", "close", "forget"} /\ c = cli)

Shown ==
  /\ Apart(shown)
  /\ \A f \in Fd : Has(shown, f) =>
       /\ kind # "udp" /\ spc \notin {"top", "socket", "bind", "cleared"}
       /\ Opened(f)
  /\ kind # "udp" /\ spc \notin {"top", "socket", "bind", "exit", "end", "cleared"} =>
       \A f \in Fd : Opened(f) => Has(shown, f)

ServerInv ==
  /\ SFlags /\ AtCli /\ Mutexed /\ Unused /\ Accepted /\ UdpPath
  /\ SOwned /\ Distinct /\ Shown /\ AstrayOnlyForgetting

-----------------------------------------------------------------------------
(* The list of connections *)

LEMMA NoFdApart == NoFd \notin Fd /\ Fd \subseteq Int /\ NoFd \in Int
  BY FdAssumption DEF NoFd, Fd

\* To give one node of a list another content.
LEMMA NodeChanged ==
  ASSUME NEW list \in Seq(Entry), NEW i \in DOMAIN list, NEW e \in Entry,
         NEW new, new = [list EXCEPT ![i] = e]
  PROVE  /\ new \in Seq(Entry) /\ DOMAIN new = DOMAIN list
         /\ new[i] = e /\ \A j \in DOMAIN list : j # i => new[j] = list[j]
  OBVIOUS

\* net_tcpip_state_open adds the descriptor, whichever node it takes.
LEMMA OpenAdds ==
  ASSUME NEW list \in Seq(Entry), NEW f \in Fd, NEW c \in BOOLEAN, Apart(list), ~Has(list, f)
  PROVE  /\ StateOpen(list, f, c) \in Seq(Entry) /\ Apart(StateOpen(list, f, c))
         /\ \A g \in Fd : Has(StateOpen(list, f, c), g) <=> g = f \/ Has(list, g)
  <1> DEFINE fits == {i \in DOMAIN list : list[i].s \in {f, NoFd}}
             e == [s |-> f, conned |-> c]
             new == StateOpen(list, f, c)
  <1>1. e \in Entry /\ e.s = f /\ f # NoFd
    BY NoFdApart DEF Entry
  <1>2. CASE fits = {}
    <2>1. new = Append(list, e)
      BY <1>2 DEF StateOpen
    <2>2. /\ new \in Seq(Entry) /\ DOMAIN new = 1 .. Len(list) + 1 /\ DOMAIN list = 1 .. Len(list)
          /\ \A i \in 1 .. Len(list) : new[i] = list[i]
          /\ new[Len(list) + 1] = e /\ Len(list) \in Nat
      BY <1>1, <2>1
    <2> HIDE DEF new, e
    <2> QED
      BY <1>1, <2>2, SMT DEF Apart, Has, new
  <1>3. CASE fits # {}
    <2> DEFINE i == CHOOSE i \in fits : \A j \in fits : i <= j
    <2>1. i \in fits
      <3>1. fits \subseteq Nat
        OBVIOUS
      <3> HIDE DEF fits
      <3> QED
        BY <1>3, <3>1, LeastOf, Zenon
    <2>2. new = [list EXCEPT ![i] = e]
      BY <1>3 DEF StateOpen
    <2>3. list[i].s = NoFd
      BY <2>1 DEF Has
    <2>4. i \in DOMAIN list
      BY <2>1
    <2> HIDE DEF i, new, e, fits
    <2>5. /\ new \in Seq(Entry) /\ DOMAIN new = DOMAIN list
          /\ new[i] = e /\ \A j \in DOMAIN list : j # i => new[j] = list[j]
      BY <1>1, <2>2, <2>4, NodeChanged
    <2>6. Apart(new)
      BY <1>1, <2>4, <2>5 DEF Apart, Has
    <2>7. \A g \in Fd : Has(new, g) <=> g = f \/ Has(list, g)
      BY <1>1, <2>3, <2>4, <2>5, NoFdApart DEF Has
    <2> QED
      BY <2>5, <2>6, <2>7 DEF new
  <1> QED
    BY <1>2, <1>3

\* net_tcpip_state_close removes the descriptor.
LEMMA CloseRemoves ==
  ASSUME NEW list \in Seq(Entry), NEW f \in Fd, Apart(list)
  PROVE  /\ StateClose(list, f) \in Seq(Entry) /\ Apart(StateClose(list, f))
         /\ \A g \in Fd : Has(StateClose(list, f), g) <=> g # f /\ Has(list, g)
  <1> DEFINE has == {i \in DOMAIN list : list[i].s = f}
             e == [s |-> NoFd, conned |-> FALSE]
             new == StateClose(list, f)
  <1>1. e \in Entry /\ e.s = NoFd /\ f # NoFd
    BY NoFdApart DEF Entry
  <1>2. CASE has = {}
    <2>1. new = list
      BY <1>2 DEF StateClose
    <2> QED
      BY <1>2, <2>1 DEF Has
  <1>3. CASE has # {}
    <2> DEFINE i == CHOOSE i \in has : \A j \in has : i <= j
    <2>1. i \in has
      <3>1. has \subseteq Nat
        OBVIOUS
      <3> HIDE DEF has
      <3> QED
        BY <1>3, <3>1, LeastOf, Zenon
    <2>2. new = [list EXCEPT ![i] = e]
      BY <1>1, <1>3 DEF StateClose
    <2>3. list[i].s = f /\ i \in DOMAIN list
      BY <2>1
    <2> HIDE DEF i, new, e, has
    <2>4. /\ new \in Seq(Entry) /\ DOMAIN new = DOMAIN list
          /\ new[i] = e /\ \A j \in DOMAIN list : j # i => new[j] = list[j]
      BY <1>1, <2>2, <2>3, NodeChanged
    <2>5. Apart(new)
      BY <1>1, <2>3, <2>4 DEF Apart
    <2>6. \A g \in Fd : Has(new, g) <=> g # f /\ Has(list, g)
      BY <1>1, <2>3, <2>4, NoFdApart DEF Has, Apart
    <2> QED
      BY <2>4, <2>5, <2>6 DEF new
  <1> QED
    BY <1>2, <1>3
-----------------------------------------------------------------------------
(* The invariant *)

LEMMA ServerInit == SInit => ServerInv
  <1> SUFFICES ASSUME SInit PROVE ServerInv
    OBVIOUS
  <1>1. /\ kind \in {"tcp", "xfer", "udp"} /\ spc = "top" /\ srv_fd = NoFd /\ tmp_fd = NoFd
        /\ cli_fd \in [Clis -> Fd \cup {NoFd}] /\ \A c \in Clis : cli_fd[c] = NoFd
        /\ ready = {} /\ cli = 1 /\ back = "read" /\ smutex = FALSE
        /\ shown = <<>> /\ strays = {}
        /\ fds \in [Fd -> {"free", "own", "other"}] /\ \A f \in Fd : fds[f] = "free"
        /\ sending \in [Threads -> 0 .. NClis]
    BY ClisAssumption DEF SInit, NoClis
  <1>2. SFlags
    <2>1. shown \in Seq(Entry)
      BY <1>1
    <2>2. ready \in SUBSET Fd
      BY <1>1
    <2>4. cli \in 1 .. NClis + 1
      BY <1>1, ClisAssumption
    <2>5. smutex \in BOOLEAN
      BY <1>1
    <2>3. srv_fd \in Fd \cup {NoFd} /\ tmp_fd \in Fd \cup {NoFd}
      BY <1>1
    <2> QED
      BY <1>1, <2>1, <2>2, <2>3, <2>4, <2>5 DEF SFlags, Spcs
  <1>3. AtCli /\ Mutexed /\ Unused /\ Accepted /\ UdpPath /\ SOwned /\ Distinct /\ Shown
    BY <1>1, NoFdApart
    DEF AtCli, Mutexed, Unused, Accepted, UdpPath, SOwned, Owns, Distinct, Shown, Apart, Has
  <1> QED
    BY <1>1, <1>2, <1>3 DEF ServerInv, AstrayOnlyForgetting

\* A step that moves no descriptor, between places where all of them are shown.
LEMMA NothingMoves ==
  ASSUME ServerInv, UNCHANGED <<kind, srv_fd, cli_fd, tmp_fd, shown, fds>>,
         spc \notin {"list", "close", "forget", "cleared"},
         spc' \notin {"list", "close", "forget", "cleared"},
         spc \in {"top", "socket", "bind", "exit", "end"} =>
           spc' \in {"top", "socket", "bind", "exit", "end"},
         spc \notin {"top", "socket", "bind"} => spc' \notin {"top", "socket", "bind"}
  PROVE  SOwned' /\ Distinct' /\ Shown'
  <1>1. \A f \in Fd : (Owns(f)' <=> Owns(f)) /\ (Opened(f)' <=> Opened(f))
    BY DEF Owns, Opened
  <1>2. SOwned'
    BY <1>1 DEF ServerInv, SOwned
  <1>3. Distinct'
    BY DEF ServerInv, Distinct
  <1>4. Shown'
    BY <1>1 DEF ServerInv, Shown, Has, Apart
  <1> QED
    BY <1>2, <1>3, <1>4

LEMMA QuietTask ==
  ASSUME ServerInv,
         SFails \/ SQuiet \/ SSelect \/ NoAccept \/ DropOld \/ Reads \/ ReadCli \/ SLock
  PROVE  ServerInv'
  <1>1. UNCHANGED <<kind, srv_fd, cli_fd, tmp_fd, shown, fds, sending, strays>>
    BY DEF SFails, SQuiet, SSelect, NoAccept, DropOld, Reads, ReadCli, SLock
  <1>2. /\ spc \notin {"top", "list", "unlist", "close", "forget", "cleared", "end"}
        /\ spc' \notin {"top", "socket", "bind", "list", "close", "forget", "cleared"}
        /\ spc \in {"socket", "bind", "exit"} => spc' \in {"exit", "end"}
    BY DEF SFails, SQuiet, SSelect, NoAccept, DropOld, Reads, ReadCli, SLock
  <1>3. SOwned' /\ Distinct' /\ Shown'
    BY <1>1, <1>2, NothingMoves
  <1>4. /\ spc' \in Spcs /\ cli' \in 1 .. NClis + 1 /\ back' \in {"read", "drop"}
        /\ ready' \in SUBSET Fd /\ smutex' \in BOOLEAN
    <2>1. CASE SFails \/ SQuiet \/ NoAccept \/ SLock
      BY <2>1 DEF SFails, SQuiet, NoAccept, SLock, ServerInv, SFlags, Spcs
    <2>2. CASE SSelect
      BY <2>2, ClisAssumption DEF SSelect, ServerInv, SFlags, Spcs
    <2>3. CASE DropOld
      BY <2>3, ClisAssumption DEF DropOld, First, Clis, ServerInv, SFlags, Spcs
    <2>4. CASE Reads
      BY <2>4, ClisAssumption DEF Reads, ServerInv, SFlags, Spcs
    <2>5. CASE ReadCli
      BY <2>5, ClisAssumption DEF ReadCli, RoundOver, Clis, ServerInv, SFlags, Spcs
    <2> QED
      BY <2>1, <2>2, <2>3, <2>4, <2>5
  <1>5. SFlags'
    BY <1>1, <1>4 DEF ServerInv, SFlags
  <1>6. AtCli'
    <2>1. CASE DropOld
      BY <1>2, <2>1 DEF DropOld, First, AtCli
    <2>2. CASE ReadCli
      BY <1>1, <1>2, <2>2, NoFdApart DEF ReadCli, RoundOver, AtCli, ServerInv, SFlags
    <2> QED
      BY <1>2, <2>1, <2>2 DEF SFails, SQuiet, SSelect, NoAccept, Reads, SLock, AtCli
  <1>7. Mutexed'
    <2>1. CASE SLock
      BY <2>1 DEF SLock, Mutexed
    <2>2. CASE SFails \/ SQuiet \/ SSelect \/ NoAccept \/ DropOld \/ Reads \/ ReadCli
      <3>1. smutex' = smutex /\ spc \notin {"end", "cleared"} /\ spc' \notin {"end", "cleared"}
        BY <2>2 DEF SFails, SQuiet, SSelect, NoAccept, DropOld, Reads, ReadCli
      <3> QED
        BY <3>1 DEF ServerInv, Mutexed
    <2> QED
      BY <2>1, <2>2
  <1>8. Unused' /\ AstrayOnlyForgetting'
    BY <1>1, <1>2 DEF ServerInv, Unused, AstrayOnlyForgetting
  <1>9. Accepted' /\ UdpPath'
    BY DEF SFails, SQuiet, SSelect, NoAccept, DropOld, Reads, ReadCli, RoundOver, SLock, ServerInv,
           Accepted, UdpPath
  <1> QED
    BY <1>3, <1>5, <1>6, <1>7, <1>8, <1>9 DEF ServerInv

\* The descriptors are forgotten, which they are already.
LEMMA BeginStep ==
  ASSUME ServerInv, SBegin
  PROVE  ServerInv'
  <1>1. /\ spc = "top" /\ spc' = "socket" /\ srv_fd' = NoFd /\ cli_fd' = NoClis
        /\ UNCHANGED <<kind, ready, tmp_fd, cli, back, smutex, shown, fds, sending, strays>>
    BY DEF SBegin
  <1>2. srv_fd' = srv_fd /\ cli_fd' = cli_fd
    BY <1>1 DEF ServerInv, Unused, SFlags, NoClis
  <1>3. SOwned' /\ Distinct' /\ Shown'
    BY <1>1, <1>2, NothingMoves
  <1>4. SFlags'
    BY <1>1, <1>2 DEF ServerInv, SFlags, Spcs
  <1>5. AtCli' /\ Mutexed' /\ Unused' /\ Accepted' /\ UdpPath' /\ AstrayOnlyForgetting'
    BY <1>1, <1>2
    DEF ServerInv, AtCli, Mutexed, Unused, Accepted, UdpPath, AstrayOnlyForgetting
  <1> QED
    BY <1>3, <1>4, <1>5 DEF ServerInv

\* What the kernel gives out is in no variable and not in the list.
LEMMA NewIsNew ==
  ASSUME ServerInv, NEW f \in Fd, Gives(f), spc \notin {"forget", "cleared"}
  PROVE  /\ f # NoFd /\ f # srv_fd /\ f # tmp_fd /\ \A c \in Clis : cli_fd[c] # f
         /\ ~Owns(f) /\ ~Opened(f) /\ ~Has(shown, f)
  <1>1. ~Owns(f)
    BY DEF Gives, ServerInv, SOwned
  <1>2. f # srv_fd /\ f # tmp_fd /\ \A c \in Clis : cli_fd[c] # f
    BY <1>1 DEF Owns
  <1>3. ~Opened(f)
    BY <1>2 DEF Opened
  <1> QED
    BY <1>1, <1>2, <1>3, NoFdApart DEF ServerInv, Shown

LEMMA SocketStep ==
  ASSUME ServerInv, SSocket
  PROVE  ServerInv'
  <1>1. PICK f \in Fd : Gives(f) /\ srv_fd' = f /\ fds' = [fds EXCEPT ![f] = "own"]
    BY DEF SSocket
  <1>2. /\ spc = "socket" /\ spc' = "bind"
        /\ UNCHANGED <<kind, cli_fd, ready, tmp_fd, cli, back, smutex, shown, sending, strays>>
    BY DEF SSocket
  <1>3. f # NoFd /\ f # tmp_fd /\ \A c \in Clis : cli_fd[c] # f
    BY <1>1, <1>2, NewIsNew
  <1>4. SFlags'
    BY <1>1, <1>2 DEF ServerInv, SFlags, Spcs
  <1>5. AtCli' /\ Mutexed' /\ Unused' /\ Accepted' /\ UdpPath' /\ AstrayOnlyForgetting'
    BY <1>1, <1>2, <1>3
    DEF ServerInv, AtCli, Mutexed, Unused, Accepted, UdpPath, AstrayOnlyForgetting
  <1>6. srv_fd = NoFd /\ tmp_fd = NoFd /\ \A c \in Clis : cli_fd[c] = NoFd
    BY <1>2 DEF ServerInv, Unused, Accepted
  <1>7. SOwned'
    <2>1. \A g \in Fd : Owns(g)' <=> g = f
      BY <1>1, <1>2, <1>6, NoFdApart DEF Owns
    <2>2. \A g \in Fd : ~Owns(g)
      BY <1>6, NoFdApart DEF Owns
    <2>3. \A g \in Fd : fds'[g] = "own" <=> g = f
      BY <1>1, <1>2, <2>2 DEF ServerInv, SOwned, SFlags
    <2> QED
      BY <1>2, <2>1, <2>3 DEF SOwned
  <1>8. Distinct'
    BY <1>1, <1>2, <1>3, <1>6 DEF Distinct
  <1>9. Shown'
    BY <1>2 DEF ServerInv, Shown, Apart, Has
  <1> QED
    BY <1>4, <1>5, <1>7, <1>8, <1>9 DEF ServerInv

LEMMA ListenStep ==
  ASSUME ServerInv, Listen
  PROVE  ServerInv'
  <1>1. /\ spc = "bind" /\ spc' = "select"
        /\ UNCHANGED <<kind, ready, tmp_fd, cli, back, smutex, fds, sending, strays>>
    BY DEF Listen
  <1>2. srv_fd \in Fd /\ tmp_fd = NoFd /\ \A c \in Clis : cli_fd[c] = NoFd
    BY <1>1 DEF ServerInv, SFlags, Unused, Accepted
  <1>3. AtCli' /\ Mutexed' /\ Unused' /\ Accepted' /\ UdpPath' /\ AstrayOnlyForgetting'
    BY <1>1, <1>2
    DEF ServerInv, AtCli, Mutexed, Unused, Accepted, UdpPath, AstrayOnlyForgetting
  <1>4. /\ \A g \in Fd : Owns(g) <=> g = srv_fd
        /\ \A g \in Fd : ~Has(shown, g)
    BY <1>1, <1>2, NoFdApart DEF Owns, ServerInv, Shown
  <1>5. CASE kind = "udp"
    <2>1. /\ srv_fd' = NoFd /\ shown' = shown
          /\ cli_fd' \in [Clis -> Fd \cup {NoFd}] /\ 1 \in Clis
          /\ cli_fd'[1] = srv_fd /\ \A c \in Clis : c # 1 => cli_fd'[c] = NoFd
      BY <1>2, <1>5, ClisAssumption DEF Listen, Clis, ServerInv, SFlags
    <2>2. SFlags'
      BY <1>1, <2>1 DEF ServerInv, SFlags, Spcs
    <2>3. Distinct'
      BY <1>1, <1>2, <2>1, NoFdApart DEF Distinct
    <2>4. SOwned'
      <3>1. \A g \in Fd : Owns(g)' <=> g = srv_fd
        BY <1>1, <1>2, <2>1, NoFdApart DEF Owns
      <3> QED
        BY <1>1, <1>4, <3>1 DEF ServerInv, SOwned
    <2>5. Shown'
      BY <1>1, <1>4, <1>5, <2>1 DEF ServerInv, Shown, Apart, Has
    <2> QED
      BY <1>3, <2>2, <2>3, <2>4, <2>5 DEF ServerInv
  <1>6. CASE kind # "udp"
    <2>1. /\ srv_fd' = srv_fd /\ cli_fd' = cli_fd /\ shown' = StateOpen(shown, srv_fd, FALSE)
      BY <1>6 DEF Listen
    <2>2. /\ shown' \in Seq(Entry) /\ Apart(shown')
          /\ \A g \in Fd : Has(shown', g) <=> g = srv_fd
      BY <1>2, <1>4, <2>1, OpenAdds DEF ServerInv, SFlags, Shown
    <2>3. SFlags'
      BY <1>1, <2>1, <2>2 DEF ServerInv, SFlags, Spcs
    <2>4. Distinct'
      BY <1>1, <2>1 DEF ServerInv, Distinct
    <2>5. \A g \in Fd : (Owns(g)' <=> g = srv_fd) /\ (Opened(g)' <=> g = srv_fd)
      BY <1>1, <1>2, <2>1, NoFdApart DEF Owns, Opened
    <2>6. SOwned'
      BY <1>1, <1>4, <2>5 DEF ServerInv, SOwned
    <2>7. Shown'
      BY <1>1, <1>6, <2>2, <2>5 DEF Shown
    <2> QED
      BY <1>3, <2>3, <2>4, <2>6, <2>7 DEF ServerInv
  <1> QED
    BY <1>5, <1>6

LEMMA AcceptStep ==
  ASSUME ServerInv, Accept
  PROVE  ServerInv'
  <1>1. /\ spc = "accept" /\ spc' \in {"drop", "place"}
        /\ UNCHANGED <<kind, srv_fd, cli_fd, ready, cli, back, smutex, shown, sending, strays>>
    BY DEF Accept
  <1>2. tmp_fd = NoFd
    BY <1>1 DEF ServerInv, Accepted
  <1>3. AtCli' /\ Mutexed' /\ Unused' /\ Accepted' /\ UdpPath' /\ AstrayOnlyForgetting'
    BY <1>1 DEF ServerInv, AtCli, Mutexed, Unused, Accepted, UdpPath, AstrayOnlyForgetting
  <1>4. \A g \in Fd : Opened(g)' <=> Opened(g)
    BY <1>1 DEF Opened
  <1>5. Shown'
    BY <1>1, <1>4 DEF ServerInv, Shown, Apart, Has
  <1>6. CASE tmp_fd' = NoFd /\ fds' = fds
    <2>1. SFlags' /\ Distinct'
      BY <1>1, <1>2, <1>6 DEF ServerInv, SFlags, Spcs, Distinct
    <2>2. \A g \in Fd : Owns(g)' <=> Owns(g)
      BY <1>1, <1>2, <1>6 DEF Owns
    <2>3. SOwned'
      BY <1>1, <1>6, <2>2 DEF ServerInv, SOwned
    <2> QED
      BY <1>3, <1>5, <2>1, <2>3 DEF ServerInv
  <1>7. ASSUME NEW f \in Fd, Gives(f), tmp_fd' = f, fds' = [fds EXCEPT ![f] = "own"]
        PROVE  ServerInv'
    <2>1. f # NoFd /\ f # srv_fd /\ (\A c \in Clis : cli_fd[c] # f) /\ ~Owns(f)
      BY <1>1, <1>7, NewIsNew
    <2>2. SFlags'
      BY <1>1, <1>7 DEF ServerInv, SFlags, Spcs
    <2>3. Distinct'
      BY <1>1, <1>7, <2>1 DEF ServerInv, Distinct
    <2>4. \A g \in Fd : Owns(g)' <=> g = f \/ Owns(g)
      BY <1>1, <1>2, <1>7, NoFdApart DEF Owns
    <2>5. \A g \in Fd : fds'[g] = "own" <=> g = f \/ fds[g] = "own"
      BY <1>7 DEF ServerInv, SFlags
    <2>6. SOwned'
      BY <1>1, <2>4, <2>5 DEF ServerInv, SOwned
    <2> QED
      BY <1>3, <1>5, <2>2, <2>3, <2>6 DEF ServerInv
  <1> QED
    BY <1>6, <1>7 DEF Accept

LEMMA PlaceStep ==
  ASSUME ServerInv, Place
  PROVE  ServerInv'
  <1>1. /\ spc = "place" /\ spc' \in {"reads", "list"} /\ tmp_fd' = NoFd
        /\ UNCHANGED <<kind, srv_fd, ready, back, smutex, shown, sending, strays>>
    BY DEF Place
  <1>2. Mutexed' /\ Unused' /\ Accepted' /\ UdpPath' /\ AstrayOnlyForgetting'
    BY <1>1 DEF ServerInv, Mutexed, Unused, Accepted, UdpPath, AstrayOnlyForgetting
  <1>3. ASSUME NEW c \in Clis, cli_fd[c] = NoFd, cli_fd' = [cli_fd EXCEPT ![c] = tmp_fd], cli' = c,
               spc' = IF tmp_fd = NoFd THEN "reads" ELSE "list", fds' = fds
        PROVE  ServerInv'
    <2>1. cli_fd'[c] = tmp_fd /\ \A d \in Clis : d # c => cli_fd'[d] = cli_fd[d]
      BY <1>3 DEF ServerInv, SFlags
    <2>2. SFlags'
      BY <1>1, <1>3, ClisAssumption DEF ServerInv, SFlags, Spcs, Clis
    <2>3. AtCli'
      BY <1>1, <1>3, <2>1 DEF AtCli
    <2>4. Distinct'
      BY <1>1, <1>3, <2>1 DEF ServerInv, Distinct
    <2>5. \A g \in Fd : (Owns(g)' <=> Owns(g)) /\ (Opened(g)' <=> Opened(g))
      BY <1>1, <1>3, <2>1, NoFdApart DEF Owns, Opened
    <2>6. SOwned'
      BY <1>1, <1>3, <2>5 DEF ServerInv, SOwned
    <2>7. Shown'
      BY <1>1, <2>5 DEF ServerInv, Shown, Apart, Has
    <2> QED
      BY <1>2, <2>2, <2>3, <2>4, <2>6, <2>7 DEF ServerInv
  <1>4. ASSUME fds' = [f \in Fd |-> IF f = tmp_fd THEN "free" ELSE fds[f]], spc' = "reads",
               UNCHANGED <<cli_fd, cli>>
        PROVE  ServerInv'
    <2>1. SFlags' /\ AtCli'
      BY <1>1, <1>4 DEF ServerInv, SFlags, Spcs, AtCli
    <2>2. Distinct'
      BY <1>1, <1>4 DEF ServerInv, Distinct
    <2>3. \A g \in Fd : (Owns(g)' <=> g # tmp_fd /\ Owns(g)) /\ (Opened(g)' <=> Opened(g))
      BY <1>1, <1>4, NoFdApart DEF Owns, Opened, ServerInv, Distinct
    <2>4. SOwned'
      BY <1>1, <1>4, <2>3 DEF ServerInv, SOwned
    <2>5. Shown'
      BY <1>1, <2>3 DEF ServerInv, Shown, Apart, Has
    <2> QED
      BY <1>2, <2>1, <2>2, <2>4, <2>5 DEF ServerInv
  <1> QED
    BY <1>3, <1>4 DEF Place, First

LEMMA ListStep ==
  ASSUME ServerInv, List
  PROVE  ServerInv'
  <1>1. /\ spc = "list" /\ spc' \in {"select", "reads"}
        /\ shown' = StateOpen(shown, cli_fd[cli], TRUE)
        /\ UNCHANGED <<kind, srv_fd, cli_fd, tmp_fd, smutex, fds, sending, strays>>
    BY DEF List
  <1>2. cli \in Clis /\ cli_fd[cli] \in Fd /\ kind # "udp"
    BY <1>1 DEF ServerInv, AtCli, SFlags, UdpPath
  <1>3. ~Has(shown, cli_fd[cli])
    BY <1>1, <1>2, NoFdApart DEF ServerInv, Shown, Opened, Distinct
  <1>4. SFlags' /\ AtCli' /\ Mutexed' /\ Unused' /\ Accepted' /\ UdpPath' /\ AstrayOnlyForgetting'
    <2>1. shown' \in Seq(Entry)
      BY <1>1, <1>2, <1>3, OpenAdds DEF ServerInv, SFlags, Shown
    <2>2. ready' \in SUBSET Fd /\ cli' \in 1 .. NClis + 1 /\ back' \in {"read", "drop"}
      BY ClisAssumption DEF List, RoundOver, ServerInv, SFlags
    <2> QED
      BY <1>1, <2>1, <2>2
      DEF ServerInv, SFlags, Spcs, AtCli, Mutexed, Unused, Accepted, UdpPath, AstrayOnlyForgetting
  <1>5. /\ Apart(shown')
        /\ \A g \in Fd : Has(shown', g) <=> g = cli_fd[cli] \/ Has(shown, g)
    BY <1>1, <1>2, <1>3, OpenAdds DEF ServerInv, SFlags, Shown
  <1>6. \A g \in Fd : (Owns(g)' <=> Owns(g)) /\ (Opened(g)' <=> g = cli_fd[cli] \/ Opened(g))
    BY <1>1, <1>2 DEF Owns, Opened
  <1>7. SOwned' /\ Distinct'
    BY <1>1, <1>6 DEF ServerInv, SOwned, Distinct
  <1>8. Shown'
    BY <1>1, <1>2, <1>5, <1>6 DEF ServerInv, Shown
  <1> QED
    BY <1>4, <1>7, <1>8 DEF ServerInv

LEMMA UnlistStep ==
  ASSUME ServerInv, Unlist
  PROVE  ServerInv'
  <1>1. /\ spc = "unlist" /\ spc' = "close" /\ shown' = StateClose(shown, cli_fd[cli])
        /\ UNCHANGED <<kind, srv_fd, cli_fd, ready, tmp_fd, cli, back, smutex, fds, sending, strays>>
    BY DEF Unlist
  <1>2. cli \in Clis /\ cli_fd[cli] \in Fd
    BY <1>1 DEF ServerInv, AtCli, SFlags
  <1>3. /\ shown' \in Seq(Entry) /\ Apart(shown')
        /\ \A g \in Fd : Has(shown', g) <=> g # cli_fd[cli] /\ Has(shown, g)
    BY <1>1, <1>2, CloseRemoves DEF ServerInv, SFlags, Shown
  <1>4. SFlags' /\ AtCli' /\ Mutexed' /\ Unused' /\ Accepted' /\ UdpPath' /\ AstrayOnlyForgetting'
    BY <1>1, <1>3
    DEF ServerInv, SFlags, Spcs, AtCli, Mutexed, Unused, Accepted, UdpPath, AstrayOnlyForgetting
  <1>5. \A g \in Fd : (Owns(g)' <=> Owns(g)) /\ (Opened(g)' <=> g # cli_fd[cli] /\ Opened(g))
    BY <1>1, <1>2, NoFdApart DEF Owns, Opened, ServerInv, Distinct
  <1>6. SOwned' /\ Distinct'
    BY <1>1, <1>5 DEF ServerInv, SOwned, Distinct
  <1>7. Shown'
    BY <1>1, <1>3, <1>5 DEF ServerInv, Shown
  <1> QED
    BY <1>4, <1>6, <1>7 DEF ServerInv

LEMMA SCloseStep ==
  ASSUME ServerInv, CloseCli
  PROVE  ServerInv'
  <1>1. /\ spc = "close" /\ spc' = "forget" /\ fds' = [fds EXCEPT ![cli_fd[cli]] = "free"]
        /\ UNCHANGED <<kind, srv_fd, cli_fd, ready, tmp_fd, cli, back, smutex, shown, sending, strays>>
    BY DEF CloseCli
  <1>2. cli \in Clis /\ cli_fd[cli] \in Fd
    BY <1>1 DEF ServerInv, AtCli, SFlags
  <1>3. SFlags' /\ AtCli' /\ Mutexed' /\ Unused' /\ Accepted' /\ UdpPath' /\ AstrayOnlyForgetting'
    BY <1>1
    DEF ServerInv, SFlags, Spcs, AtCli, Mutexed, Unused, Accepted, UdpPath, AstrayOnlyForgetting
  <1>4. \A g \in Fd : (Owns(g)' <=> g # cli_fd[cli] /\ Owns(g)) /\ (Opened(g)' <=> Opened(g))
    BY <1>1, <1>2, NoFdApart DEF Owns, Opened, ServerInv, Distinct
  <1>5. \A g \in Fd : fds'[g] = "own" <=> g # cli_fd[cli] /\ fds[g] = "own"
    BY <1>1, <1>2 DEF ServerInv, SFlags
  <1>6. SOwned' /\ Distinct'
    BY <1>1, <1>4, <1>5 DEF ServerInv, SOwned, Distinct
  <1>7. Shown'
    BY <1>1, <1>4 DEF ServerInv, Shown, Apart, Has
  <1> QED
    BY <1>3, <1>6, <1>7 DEF ServerInv

LEMMA ForgetStep ==
  ASSUME ServerInv, Forget
  PROVE  ServerInv'
  <1>1. /\ spc = "forget" /\ spc' = back /\ cli_fd' = [cli_fd EXCEPT ![cli] = NoFd]
        /\ cli' = IF back = "read" THEN cli + 1 ELSE cli
        /\ UNCHANGED <<kind, srv_fd, ready, tmp_fd, back, smutex, shown, fds, sending, strays>>
    BY DEF Forget
  <1>2. /\ cli \in Clis /\ spc' \in {"read", "drop"} /\ back' = back
        /\ cli_fd'[cli] = NoFd /\ \A d \in Clis : d # cli => cli_fd'[d] = cli_fd[d]
    BY <1>1 DEF ServerInv, AtCli, SFlags
  <1>3. SFlags'
    <2>1. cli' \in 1 .. NClis + 1
      BY <1>1, <1>2, ClisAssumption DEF Clis
    <2> QED
      BY <1>1, <2>1 DEF ServerInv, SFlags, Spcs
  <1>4. AtCli' /\ Mutexed' /\ Unused' /\ Accepted' /\ UdpPath' /\ AstrayOnlyForgetting'
    BY <1>1, <1>2
    DEF ServerInv, AtCli, Mutexed, Unused, Accepted, UdpPath, AstrayOnlyForgetting
  <1>5. \A g \in Fd : (Owns(g)' <=> Owns(g)) /\ (Opened(g)' <=> Opened(g))
    BY <1>1, <1>2, NoFdApart DEF Owns, Opened
  <1>6. SOwned'
    BY <1>1, <1>2, <1>5 DEF ServerInv, SOwned
  <1>7. Distinct'
    BY <1>1, <1>2 DEF ServerInv, Distinct
  <1>8. Shown'
    BY <1>1, <1>2, <1>5 DEF ServerInv, Shown, Apart, Has
  <1> QED
    BY <1>3, <1>4, <1>6, <1>7, <1>8 DEF ServerInv

\* What a node of the list holds.
LEMMA NodeType ==
  ASSUME ServerInv, NEW i \in DOMAIN shown
  PROVE  shown[i].s \in Fd \cup {NoFd}
  <1>1. shown \in Seq(Entry)
    BY DEF ServerInv, SFlags
  <1>2. shown[i] \in Entry
    BY <1>1
  <1> QED
    BY <1>2 DEF Entry

LEMMA EndAllStep ==
  ASSUME ServerInv, EndAll
  PROVE  ServerInv'
  <1> DEFINE closed == {srv_fd} \cup {cli_fd[c] : c \in Clis}
             none == [s |-> NoFd, conned |-> FALSE]
  <1>1. /\ spc = "end" /\ spc' = "cleared"
        /\ fds' = [f \in Fd |-> IF f \in closed THEN "free" ELSE fds[f]]
        /\ shown' = [i \in DOMAIN shown |-> IF shown[i].s \in closed THEN none ELSE shown[i]]
        /\ UNCHANGED <<kind, srv_fd, cli_fd, ready, tmp_fd, cli, back, smutex, sending, strays>>
    BY DEF EndAll
  <1>2. none \in Entry /\ none.s = NoFd
    BY DEF Entry
  <1>3. shown' \in Seq(Entry) /\ DOMAIN shown' = DOMAIN shown
    <2>1. shown \in Seq(Entry)
      BY DEF ServerInv, SFlags
    <2> HIDE DEF none, closed
    <2> QED
      BY <1>1, <1>2, <2>1
  <1>4. SFlags' /\ AtCli' /\ Mutexed' /\ Unused' /\ Accepted' /\ UdpPath' /\ AstrayOnlyForgetting'
    <2>1. fds' \in [Fd -> {"free", "own", "other"}]
      BY <1>1 DEF ServerInv, SFlags
    <2> HIDE DEF none, closed
    <2> QED
      BY <1>1, <1>3, <2>1
      DEF ServerInv, SFlags, Spcs, AtCli, Mutexed, Unused, Accepted, UdpPath, AstrayOnlyForgetting
  <1>5. SOwned' /\ Distinct'
    <2>1. \A f \in Fd : fds[f] = "own" => f \in closed
      BY <1>1, NoFdApart DEF ServerInv, SOwned, Owns, Accepted
    <2> HIDE DEF closed
    <2>2. \A f \in Fd : fds'[f] # "own"
      BY <1>1, <2>1
    <2> QED
      BY <1>1, <2>2 DEF ServerInv, SOwned, Distinct
  <1>6. \A i \in DOMAIN shown : shown'[i].s = NoFd
    <2> SUFFICES ASSUME NEW i \in DOMAIN shown PROVE shown'[i].s = NoFd
      OBVIOUS
    <2>1. shown[i].s \in Fd \cup {NoFd}
      BY NodeType
    <2>2. shown'[i] = IF shown[i].s \in closed THEN none ELSE shown[i]
      BY <1>1
    <2>3. shown[i].s \in Fd => Opened(shown[i].s)
      BY DEF ServerInv, Shown, Has
    <2>4. shown[i].s \in Fd => shown[i].s \in closed
      BY <2>3 DEF Opened
    <2> HIDE DEF closed, none
    <2> QED
      BY <1>2, <2>1, <2>2, <2>4
  <1>7. Shown'
    BY <1>1, <1>3, <1>6, NoFdApart DEF Shown, Apart, Has
  <1> QED
    BY <1>4, <1>5, <1>7 DEF ServerInv

LEMMA ClearAllStep ==
  ASSUME ServerInv, ClearAll
  PROVE  ServerInv'
  <1>1. /\ spc = "cleared" /\ spc' = "top" /\ srv_fd' = NoFd /\ cli_fd' = NoClis /\ smutex' = FALSE
        /\ UNCHANGED <<kind, ready, tmp_fd, cli, back, shown, fds, sending, strays>>
    BY DEF ClearAll
  <1>2. /\ cli_fd' \in [Clis -> Fd \cup {NoFd}] /\ \A c \in Clis : cli_fd'[c] = NoFd
        /\ tmp_fd = NoFd
    BY <1>1 DEF NoClis, ServerInv, Accepted
  <1>3. SFlags'
    BY <1>1, <1>2 DEF ServerInv, SFlags, Spcs
  <1>4. AtCli' /\ Mutexed' /\ Unused' /\ Accepted' /\ UdpPath' /\ AstrayOnlyForgetting' /\ Distinct'
    BY <1>1, <1>2
    DEF ServerInv, AtCli, Mutexed, Unused, Accepted, UdpPath, AstrayOnlyForgetting, Distinct
  <1>5. SOwned'
    <2>1. \A f \in Fd : fds'[f] # "own" /\ ~Owns(f)'
      BY <1>1, <1>2, NoFdApart DEF ServerInv, SOwned, Owns
    <2> QED
      BY <2>1 DEF SOwned
  <1>6. Shown'
    BY <1>1 DEF ServerInv, Shown, Apart, Has
  <1> QED
    BY <1>3, <1>4, <1>5, <1>6 DEF ServerInv

\* net_send waits for the mutex, so that it never finds the places while all
\* are closed; and while one is closed without the mutex it may find that.
LEMMA SendStep ==
  ASSUME ServerInv, STrySend \/ \E t \in Threads : SendLooks(t) \/ SendTo(t)
  PROVE  ServerInv'
  <1>1. UNCHANGED <<kind, sTask, shown, fds, asked_end>>
    BY DEF STrySend, SendLooks, SendTo
  <1>2. sending' \in [Threads -> 0 .. NClis]
    <2>1. CASE STrySend
      BY <2>1 DEF STrySend, ServerInv, SFlags
    <2>2. ASSUME NEW t \in Threads, SendLooks(t) PROVE sending' \in [Threads -> 0 .. NClis]
      BY <2>2, ClisAssumption DEF SendLooks, Clis, ServerInv, SFlags
    <2>3. ASSUME NEW t \in Threads, SendTo(t) PROVE sending' \in [Threads -> 0 .. NClis]
      BY <2>3, ClisAssumption DEF SendTo, ServerInv, SFlags
    <2> QED
      BY <2>1, <2>2, <2>3
  <1>3. ASSUME NEW f \in Fd \cup {NoFd}, f \in Fd /\ spc # "forget" => fds[f] = "own", Written(f)
        PROVE  AstrayOnlyForgetting'
    BY <1>3 DEF Written, ServerInv, AstrayOnlyForgetting
  <1>4. ASSUME NEW c \in Clis, Written(cli_fd[c]), ~smutex
        PROVE  AstrayOnlyForgetting'
    <2>1. cli_fd[c] \in Fd \cup {NoFd}
      BY DEF ServerInv, SFlags
    <2>2. cli_fd[c] \in Fd /\ spc # "forget" => fds[cli_fd[c]] = "own"
      BY <1>4 DEF ServerInv, SOwned, Owns, Mutexed
    <2> QED
      BY <1>3, <1>4, <2>1, <2>2
  <1>5. ASSUME NEW i \in DOMAIN shown, Written(shown[i].s), ~smutex
        PROVE  AstrayOnlyForgetting'
    <2>1. shown[i].s \in Fd \cup {NoFd}
      BY NodeType
    <2>2. shown[i].s \in Fd => Opened(shown[i].s)
      BY DEF ServerInv, Shown, Has
    <2>3. shown[i].s \in Fd => fds[shown[i].s] = "own"
      BY <1>5, <2>2 DEF Opened, ServerInv, SOwned, Owns, Mutexed
    <2> QED
      BY <1>3, <1>5, <2>1, <2>3
  <1>6. AstrayOnlyForgetting'
    <2>1. CASE STrySend
      BY <1>4, <1>5, <2>1, ClisAssumption DEF STrySend, Clis
    <2>2. ASSUME NEW t \in Threads, SendLooks(t) PROVE AstrayOnlyForgetting'
      BY <2>2 DEF SendLooks, ServerInv, AstrayOnlyForgetting
    <2>3. ASSUME NEW t \in Threads, SendTo(t) PROVE AstrayOnlyForgetting'
      <3>1. sending[t] \in Clis
        BY <2>3, ClisAssumption DEF SendTo, Clis, ServerInv, SFlags
      <3> QED
        BY <1>4, <2>3, <3>1 DEF SendTo
    <2> QED
      BY <2>1, <2>2, <2>3
  <1>7. SFlags'
    BY <1>1, <1>2 DEF sTask, ServerInv, SFlags
  <1>8. AtCli' /\ Mutexed' /\ Unused' /\ Accepted' /\ UdpPath' /\ Distinct'
    BY <1>1 DEF sTask, ServerInv, AtCli, Mutexed, Unused, Accepted, UdpPath, Distinct
  <1>9. SOwned'
    BY <1>1 DEF sTask, ServerInv, SOwned, Owns
  <1>10. Shown'
    BY <1>1 DEF sTask, ServerInv, Shown, Apart, Has, Opened
  <1> QED
    BY <1>6, <1>7, <1>8, <1>9, <1>10 DEF ServerInv

\* What else the program does with descriptors is not the server's.
LEMMA OthersStep ==
  ASSUME ServerInv, SDisconnect \/ SOthersOpen \/ SOthersClose \/ UNCHANGED svars
  PROVE  ServerInv'
  <1>1. UNCHANGED <<kind, sTask, shown, sending, strays>>
    BY DEF SDisconnect, SOthersOpen, SOthersClose, svars
  <1>2. /\ fds' \in [Fd -> {"free", "own", "other"}]
        /\ \A f \in Fd : fds'[f] = "own" <=> fds[f] = "own"
    <2>1. fds \in [Fd -> {"free", "own", "other"}]
      BY DEF ServerInv, SFlags
    <2>2. CASE SDisconnect \/ UNCHANGED svars
      BY <2>1, <2>2 DEF SDisconnect, svars
    <2>3. CASE SOthersOpen
      BY <2>1, <2>3 DEF SOthersOpen, Gives
    <2>4. CASE SOthersClose
      BY <2>1, <2>4 DEF SOthersClose
    <2> QED
      BY <2>2, <2>3, <2>4
  <1>3. SFlags'
    BY <1>1, <1>2 DEF sTask, ServerInv, SFlags
  <1>4. AtCli' /\ Mutexed' /\ Unused' /\ Accepted' /\ UdpPath' /\ Distinct' /\ AstrayOnlyForgetting'
    BY <1>1
    DEF sTask, ServerInv, AtCli, Mutexed, Unused, Accepted, UdpPath, Distinct, AstrayOnlyForgetting
  <1>5. SOwned'
    BY <1>1, <1>2 DEF sTask, ServerInv, SOwned, Owns
  <1>6. Shown'
    BY <1>1 DEF sTask, ServerInv, Shown, Apart, Has, Opened
  <1> QED
    BY <1>3, <1>4, <1>5, <1>6 DEF ServerInv

LEMMA ServerStep ==
  ASSUME ServerInv, [SNext]_svars
  PROVE  ServerInv'
  <1>1. CASE STaskStep
    BY <1>1, BeginStep, QuietTask, SocketStep, ListenStep, AcceptStep, PlaceStep, ListStep,
       UnlistStep, SCloseStep, ForgetStep, EndAllStep, ClearAllStep
    DEF STaskStep
  <1> QED
    BY <1>1, SendStep, OthersStep DEF SNext

THEOREM ServerInvariant == SSpec => []ServerInv
  BY ServerInit, ServerStep, PTL DEF SSpec

-----------------------------------------------------------------------------
(* Theorems *)

LEMMA InvKeeps == ServerInv => ServerKeeps
  <1> SUFFICES ASSUME ServerInv, spc # "cleared" PROVE ServerKeeps
    BY DEF ServerKeeps
  <1>1. \A f \in Fd : fds[f] = "own" <=> Owns(f)
    BY DEF ServerInv, SOwned
  <1>2. /\ srv_fd \in Fd \cup {NoFd} /\ tmp_fd \in Fd \cup {NoFd}
        /\ \A c \in Clis : cli_fd[c] \in Fd \cup {NoFd}
        /\ \A i \in DOMAIN shown : shown[i].s \in Fd \cup {NoFd}
    BY NodeType DEF ServerInv, SFlags
  <1>3. Own = ({srv_fd, tmp_fd} \cup Held) \ {NoFd}
    <2>1. \A f : f \in Held <=> \E c \in Clis : cli_fd[c] = f /\ ~(spc = "forget" /\ c = cli)
      BY DEF Held
    <2>2. \A f : f \in Own <=> f \in Fd /\ Owns(f)
      BY <1>1 DEF Own
    <2>3. \A f : Owns(f) <=> f \in {srv_fd, tmp_fd} \cup Held
      BY <2>1 DEF Owns
    <2>4. {srv_fd, tmp_fd} \cup Held \subseteq Fd \cup {NoFd}
      BY <1>2, <2>1
    <2> QED
      BY <2>2, <2>3, <2>4, NoFdApart
  <1>4. \A c, d \in Clis : cli_fd[c] = cli_fd[d] /\ c # d => cli_fd[c] = NoFd
    BY DEF ServerInv, Distinct
  <1>5. \A f : f \in Seen <=> f \in Fd /\ Has(shown, f)
    BY <1>2, NoFdApart DEF Seen, Has
  <1>6. Seen \subseteq Own
    BY <1>1, <1>5 DEF ServerInv, Shown, Opened, Owns, Own
  <1>7. ASSUME kind # "udp" /\ spc = "select" PROVE Own \subseteq Seen
    <2>1. tmp_fd = NoFd
      BY <1>7 DEF ServerInv, Accepted
    <2>2. \A f \in Fd : Opened(f) => Has(shown, f)
      BY <1>7 DEF ServerInv, Shown
    <2>3. \A f \in Fd : Owns(f) => Opened(f)
      BY <1>7, <2>1, NoFdApart DEF Owns, Opened
    <2> QED
      BY <1>1, <1>5, <2>2, <2>3 DEF Own
  <1> QED
    BY <1>3, <1>4, <1>6, <1>7 DEF ServerKeeps

\* Everything stays in range, in particular the places of net->tcp_fd that are
\* read and written and the modes the loops of the task are in.
THEOREM ServerTypes == SSpec => []SFlags
  <1>1. ServerInv => SFlags
    BY DEF ServerInv
  <1> QED
    BY <1>1, ServerInvariant, PTL

\* The server task holds exactly the descriptors its variables name, each
\* once, and shows exactly these, whatever clients come and go and whichever
\* call fails.
THEOREM AlwaysKeeps == SSpec => []ServerKeeps
  BY InvKeeps, ServerInvariant, PTL

\* net_send writes to a number that is not the server's only while the task is
\* between the close of a client and the clearing of its place.
THEOREM StraysOnlyForgetting == SSpec => []AstrayOnlyForgetting
  <1>1. ServerInv => AstrayOnlyForgetting
    BY DEF ServerInv
  <1> QED
    BY <1>1, ServerInvariant, PTL
=============================================================================
