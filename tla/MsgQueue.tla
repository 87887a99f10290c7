------------------------------ MODULE MsgQueue ------------------------------
(***************************************************************************)
(* block_msg_queue.c: the message queue every rt_mq_* call of the program  *)
(* ends in.  A ring of max_msgs + 1 slots, one mutex, and a condition      *)
(* variable c_empty that receivers wait on.                                *)
(*                                                                         *)
(* A call holds the mutex from its first to its last access, so it is one  *)
(* action, except that b_mq_recv releases it inside pthread_cond_wait: a   *)
(* receiver that waits is woken (by a signal, spuriously, or by the clock) *)
(* in one step and gets the mutex back in another.  The code does not look *)
(* at the ring again after the wait.                                       *)
(*                                                                         *)
(* Messages are numbered by the b_mq_send call that offers them; 0 is the  *)
(* content of a slot no message was ever written to.                       *)
(***************************************************************************)
EXTENDS Integers, Sequences, FiniteSets

CONSTANTS
  Receivers,        \* threads that call b_mq_recv on this queue
  Capacity,         \* the max_msgs argument of b_mq_create
  MaxSends,         \* bound: number of calls of b_mq_send
  SpuriousWakeups,  \* may pthread_cond_wait return without a signal?
  ResetAnytime      \* may b_mq_reset run while a receiver is in b_mq_recv?

ASSUME ReceiversAssumption == IsFiniteSet(Receivers)
ASSUME CapacityAssumption == Capacity \in Nat \ {0}
ASSUME BoundAssumption == MaxSends \in Nat
ASSUME UsageAssumption == SpuriousWakeups \in BOOLEAN /\ ResetAnytime \in BOOLEAN

VARIABLES
  pool,      \* msg_pool: what each slot holds
  head,      \* slot of the oldest message
  tail,      \* slot the next message goes to
  rstate,    \* where each receiver is in b_mq_recv
  offered,   \* number of b_mq_send calls so far
  refused,   \* the messages answered B_MQ_ERR_FULL
  got,       \* the message the last b_mq_recv of each receiver returned
  emptyWake  \* history: a receiver once took a message from an empty ring

vars == <<pool, head, tail, rstate, offered, refused, got, emptyWake>>

\* mq->max_msgs: one slot more than the capacity, so that head = tail means empty.
Slots == Capacity + 1
Index == 0 .. Capacity
Message == 1 .. MaxSends
Nothing == 0

\* NextIndex as it would be without the spare slot.
NextIndexNoSpare(i) == (i + 1) % Capacity

NextIndex(i) == (i + 1) % Slots

\* b_mq_msgs
Count == (tail - head + Slots) % Slots

Full == NextIndex(tail) = head
Empty == head = tail

\* Waiting on c_empty without (Blocked) or with (Timed) a deadline.
Blocked == {r \in Receivers : rstate[r] \in {"forever", "timed"}}
Woken == {r \in Receivers : rstate[r] = "woken"}

Init ==
  /\ pool = [i \in Index |-> Nothing]
  /\ head = 0
  /\ tail = 0
  /\ rstate = [r \in Receivers |-> "idle"]
  /\ offered = 0
  /\ refused = {}
  /\ got = [r \in Receivers |-> Nothing]
  /\ emptyWake = FALSE

-----------------------------------------------------------------------------
\* pthread_cond_signal(&mq->c_empty): one of the waiting receivers, if any,
\* leaves the wait.
SignalEmpty ==
  IF Blocked = {} THEN UNCHANGED rstate
  ELSE \E r \in Blocked : rstate' = [rstate EXCEPT ![r] = "woken"]

\* SendAccepted as it would be without the signal.
SendNoSignal ==
  /\ ~Full
  /\ pool' = [pool EXCEPT ![tail] = offered + 1]
  /\ tail' = NextIndex(tail)
  /\ UNCHANGED <<head, refused, rstate>>

\* b_mq_send
SendAccepted ==
  /\ ~Full
  /\ pool' = [pool EXCEPT ![tail] = offered + 1]
  /\ tail' = NextIndex(tail)
  /\ SignalEmpty
  /\ UNCHANGED <<head, refused>>

SendRefused ==
  /\ Full
  /\ refused' = refused \cup {offered + 1}
  /\ UNCHANGED <<pool, head, tail, rstate>>

Send ==
  /\ offered < MaxSends
  /\ offered' = offered + 1
  /\ SendAccepted \/ SendRefused
  /\ UNCHANGED <<got, emptyWake>>

\* Take as it would be with the newest message returned first.
TakeNewest(r) ==
  /\ got' = [got EXCEPT ![r] = pool[(tail + Capacity) % Slots]]
  /\ tail' = (tail + Capacity) % Slots
  /\ rstate' = [rstate EXCEPT ![r] = "idle"]
  /\ emptyWake' = (emptyWake \/ Empty)
  /\ UNCHANGED <<pool, head, offered, refused>>

\* The copy out of the ring at the end of b_mq_recv: whatever is in the slot
\* at head, whether or not the ring holds a message.
Take(r) ==
  /\ got' = [got EXCEPT ![r] = pool[head]]
  /\ head' = NextIndex(head)
  /\ rstate' = [rstate EXCEPT ![r] = "idle"]
  /\ emptyWake' = (emptyWake \/ Empty)
  /\ UNCHANGED <<pool, tail, offered, refused>>

RecvReturnsNothing(r) ==
  /\ got' = [got EXCEPT ![r] = Nothing]
  /\ rstate' = [rstate EXCEPT ![r] = "idle"]
  /\ UNCHANGED <<pool, head, tail, offered, refused, emptyWake>>

\* b_mq_recv on a ring that is not empty.
RecvAvailable(r) ==
  /\ rstate[r] = "idle"
  /\ ~Empty
  /\ Take(r)

\* b_mq_recv with timeout 0 on an empty ring.
RecvPoll(r) ==
  /\ rstate[r] = "idle"
  /\ Empty
  /\ RecvReturnsNothing(r)

\* b_mq_recv on an empty ring, with a deadline or without one.
RecvWait(r) ==
  /\ rstate[r] = "idle"
  /\ Empty
  /\ \E how \in {"forever", "timed"} : rstate' = [rstate EXCEPT ![r] = how]
  /\ UNCHANGED <<pool, head, tail, offered, refused, got, emptyWake>>

\* The deadline passes; the receiver still has to get the mutex back.
Expire(r) ==
  /\ rstate[r] = "timed"
  /\ rstate' = [rstate EXCEPT ![r] = "expired"]
  /\ UNCHANGED <<pool, head, tail, offered, refused, got, emptyWake>>

RecvExpired(r) ==
  /\ rstate[r] = "expired"
  /\ RecvReturnsNothing(r)

SpuriousWakeup(r) ==
  /\ SpuriousWakeups
  /\ r \in Blocked
  /\ rstate' = [rstate EXCEPT ![r] = "woken"]
  /\ UNCHANGED <<pool, head, tail, offered, refused, got, emptyWake>>

\* The receiver has the mutex again and the wait returned 0.
RecvWoken(r) ==
  /\ rstate[r] = "woken"
  /\ Take(r)

\* b_mq_reset; c_full, which it signals, has no waiters.
Reset ==
  /\ ResetAnytime \/ \A r \in Receivers : rstate[r] = "idle"
  /\ head' = 0
  /\ tail' = 0
  /\ UNCHANGED <<pool, rstate, offered, refused, got, emptyWake>>

Recv(r) ==
  \/ RecvAvailable(r)
  \/ RecvPoll(r)
  \/ RecvWait(r)
  \/ Expire(r)
  \/ RecvExpired(r)
  \/ SpuriousWakeup(r)
  \/ RecvWoken(r)

Next ==
  \/ Send
  \/ \E r \in Receivers : Recv(r)
  \/ Reset

Spec == Init /\ [][Next]_vars

\* A receiver that was woken gets the mutex, and one that polls or waits does
\* so again: the tasks of the gateway call b_mq_recv in an endless loop.
Fairness ==
  \A r \in Receivers :
    /\ WF_vars(RecvWoken(r))
    /\ WF_vars(RecvAvailable(r))
    /\ WF_vars(RecvExpired(r))

FairSpec == Spec /\ Fairness

-----------------------------------------------------------------------------
(* Properties *)

TypeOK ==
  /\ pool \in [Index -> Message \cup {Nothing}]
  /\ head \in Index
  /\ tail \in Index
  /\ rstate \in [Receivers -> {"idle", "forever", "timed", "expired", "woken"}]
  /\ offered \in 0 .. MaxSends
  /\ refused \subseteq Message
  /\ got \in [Receivers -> Message \cup {Nothing}]
  /\ emptyWake \in BOOLEAN

\* How every queue of the program but the dust sensor's is used: one receiving
\* thread, which is also the one that resets the queue.
SafeUsage ==
  /\ Cardinality(Receivers) = 1
  /\ ~SpuriousWakeups
  /\ ~ResetAnytime

\* b_mq_recv answers B_MQ_ERR_OK only with a message that was in the ring: the
\* wait is not repeated, so this needs the safe usage.
NoPhantom == SafeUsage => ~emptyWake

\* No receiver sleeps on a message: while one waits, each message in the ring
\* has its own receiver on the way to it.  b_mq_send signals once per message.
NoLostWakeup == emptyWake \/ Blocked = {} \/ Count <= Cardinality(Woken)

\* The messages in the ring, oldest first.
Queue == [i \in 1 .. Count |-> pool[(head + i - 1) % Slots]]

\* Until a receiver takes from an empty ring, the ring holds the messages in
\* the order they were sent, each newer than every message returned so far:
\* b_mq_recv returns none twice and none out of order.
InOrder ==
  emptyWake \/
    \A i \in 1 .. Count :
      /\ Queue[i] \in 1 .. offered
      /\ \A r \in Receivers : got[r] < Queue[i]
      /\ \A j \in 1 .. i - 1 : Queue[j] < Queue[i]

Abstract == INSTANCE BoundedQueue WITH q <- Queue

\* Used safely, the ring is the bounded queue its callers take it for.
ImplementsQueue == Abstract!Spec

\* An accepted message does not stay in the queue of a task that keeps receiving.
Delivery ==
  \A n \in Message :
    (\E i \in 1 .. Count : Queue[i] = n) ~> ~(\E i \in 1 .. Count : Queue[i] = n)
=============================================================================
