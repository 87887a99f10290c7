---------------------------- MODULE BoundedQueue ----------------------------
(***************************************************************************)
(* What a message queue of the gateway (block_msg_queue.h) promises its    *)
(* users: a bounded first-in first-out sequence of messages.  A sender     *)
(* never waits: it is refused when the queue is full.  A receiver gets the *)
(* oldest message or, after the time it is ready to wait, nothing.         *)
(***************************************************************************)
EXTENDS Naturals, Sequences

CONSTANTS
  Receivers,   \* threads that call b_mq_recv
  Capacity,    \* max_msgs of b_mq_create
  MaxSends     \* bound: number of calls of b_mq_send

VARIABLES
  q,           \* accepted messages nobody has received yet, oldest first
  offered,     \* number of b_mq_send calls so far; message n is the n-th one
  refused,     \* the set of messages that were answered B_MQ_ERR_FULL
  got          \* what the last b_mq_recv of each receiver returned

vars == <<q, offered, refused, got>>

\* No message has this number: a receiver that got nothing.
Nothing == 0

Init ==
  /\ q = <<>>
  /\ offered = 0
  /\ refused = {}
  /\ got = [r \in Receivers |-> Nothing]

Send ==
  /\ offered < MaxSends
  /\ offered' = offered + 1
  /\ \/ /\ Len(q) < Capacity
        /\ q' = Append(q, offered + 1)
        /\ UNCHANGED refused
     \/ /\ Len(q) = Capacity
        /\ refused' = refused \cup {offered + 1}
        /\ UNCHANGED q
  /\ UNCHANGED got

Receive(r) ==
  /\ q # <<>>
  /\ got' = [got EXCEPT ![r] = Head(q)]
  /\ q' = Tail(q)
  /\ UNCHANGED <<offered, refused>>

GiveUp(r) ==
  /\ got' = [got EXCEPT ![r] = Nothing]
  /\ UNCHANGED <<q, offered, refused>>

Reset ==
  /\ q' = <<>>
  /\ UNCHANGED <<offered, refused, got>>

Next ==
  \/ Send
  \/ \E r \in Receivers : Receive(r) \/ GiveUp(r)
  \/ Reset

Spec == Init /\ [][Next]_vars
=============================================================================
