-------------------------- MODULE MsgQueueProofs --------------------------
(***************************************************************************)
(* Theorems about MsgQueue for any number of receivers, any capacity and   *)
(* any number of messages.                                                 *)
(***************************************************************************)
EXTENDS MsgQueue, FiniteSetTheorems, SequenceTheorems, TLAPS

-----------------------------------------------------------------------------
(* The ring *)

\* One step round the ring, written without a remainder: b_mq_send and
\* b_mq_recv advance tail and head by (i + 1) % max_msgs.
LEMMA NextIndexValue ==
  ASSUME NEW i \in Index
  PROVE  /\ NextIndex(i) = IF i = Capacity THEN 0 ELSE i + 1
         /\ NextIndex(i) \in Index
  BY CapacityAssumption, SMT DEF NextIndex, Slots, Index

\* The slots from one index to another, as b_mq_msgs counts them.
Distance(h, t) == (t - h + Slots) % Slots

\* The same count without a remainder, and what one step of either index does to it.
LEMMA DistanceValue ==
  ASSUME NEW h \in Index, NEW t \in Index
  PROVE  /\ Distance(h, t) = IF t >= h THEN t - h ELSE t - h + Slots
         /\ Distance(h, t) \in 0 .. Capacity
         /\ Distance(h, t) = 0 <=> h = t
         /\ Distance(h, t) = Capacity <=> NextIndex(t) = h
  <1> DEFINE x == t - h + Slots
  <1>1. Slots \in Nat \ {0} /\ Slots = Capacity + 1 /\ Capacity \in Nat \ {0}
    BY CapacityAssumption, SMT DEF Slots
  <1>2. h \in 0 .. Capacity /\ t \in 0 .. Capacity
    BY DEF Index
  <1>3. Distance(h, t) = IF t >= h THEN t - h ELSE t - h + Slots
    <2>1. CASE t >= h
      <3>1. x \in Slots .. 2 * Slots - 1
        BY <1>1, <1>2, <2>1, SMT
      <3>2. x % Slots = x - Slots
        BY <1>1, <3>1, SMT
      <3> QED
        BY <1>1, <1>2, <2>1, <3>2, SMT DEF Distance
    <2>2. CASE t < h
      <3>1. x \in 0 .. Slots - 1
        BY <1>1, <1>2, <2>2, SMT
      <3>2. x % Slots = x
        BY <1>1, <3>1, SMT
      <3> QED
        BY <1>1, <1>2, <2>2, <3>2, SMT DEF Distance
    <2> QED
      BY <1>2, <2>1, <2>2, SMT
  <1>4. NextIndex(t) = IF t = Capacity THEN 0 ELSE t + 1
    BY NextIndexValue
  <1> HIDE DEF x
  <1> QED
    BY <1>1, <1>2, <1>3, <1>4, SMT

\* A message more, or less, is one more, or less, to b_mq_msgs.
LEMMA DistanceStep ==
  ASSUME NEW h \in Index, NEW t \in Index
  PROVE  /\ NextIndex(t) # h => Distance(h, NextIndex(t)) = Distance(h, t) + 1
         /\ h # t => Distance(NextIndex(h), t) = Distance(h, t) - 1
  <1>1. Slots = Capacity + 1 /\ Capacity \in Nat \ {0} /\ Index = 0 .. Capacity
    BY CapacityAssumption, SMT DEF Slots, Index
  <1>2. /\ NextIndex(h) \in Index /\ NextIndex(t) \in Index
        /\ NextIndex(h) = IF h = Capacity THEN 0 ELSE h + 1
        /\ NextIndex(t) = IF t = Capacity THEN 0 ELSE t + 1
    BY NextIndexValue
  <1>3. Distance(h, t) = IF t >= h THEN t - h ELSE t - h + Slots
    BY DistanceValue
  <1>4. Distance(h, NextIndex(t)) = IF NextIndex(t) >= h THEN NextIndex(t) - h
                                                        ELSE NextIndex(t) - h + Slots
    BY <1>2, DistanceValue
  <1>5. Distance(NextIndex(h), t) = IF t >= NextIndex(h) THEN t - NextIndex(h)
                                                        ELSE t - NextIndex(h) + Slots
    BY <1>2, DistanceValue
  <1> QED
    BY <1>1, <1>2, <1>3, <1>4, <1>5, SMT

-----------------------------------------------------------------------------
(* Type correctness *)

LEMMA TypeInit == Init => TypeOK
  <1>1. 0 \in Index /\ 0 \in 0 .. MaxSends
    BY CapacityAssumption, BoundAssumption, SMT DEF Index
  <1> QED
    BY <1>1 DEF Init, TypeOK, Nothing

\* Every step of b_mq_send, b_mq_recv and b_mq_reset keeps the types.
LEMMA TypeStep == TypeOK /\ [Next]_vars => TypeOK'
  <1> SUFFICES ASSUME TypeOK, [Next]_vars
               PROVE  TypeOK'
    OBVIOUS
  <1> USE DEF TypeOK
  <1>1. NextIndex(head) \in Index /\ NextIndex(tail) \in Index
    BY NextIndexValue
  <1>2. CASE Send
    <2>1. offered + 1 \in Message /\ offered' \in 0 .. MaxSends
      BY <1>2, BoundAssumption, SMT DEF Send, Message
    <2>2. CASE SendAccepted
      <3>1. rstate' \in [Receivers -> {"idle", "forever", "timed", "expired", "woken"}]
        <4>1. CASE Blocked = {}
          BY <2>2, <4>1 DEF SendAccepted, SignalEmpty
        <4>2. CASE Blocked # {}
          <5>1. PICK r \in Blocked : rstate' = [rstate EXCEPT ![r] = "woken"]
            BY <2>2, <4>2 DEF SendAccepted, SignalEmpty
          <5> QED
            BY <5>1
        <4> QED
          BY <4>1, <4>2
      <3> QED
        BY <1>1, <1>2, <2>1, <2>2, <3>1 DEF Send, SendAccepted
    <2>3. CASE SendRefused
      BY <1>2, <2>1, <2>3 DEF Send, SendRefused
    <2> QED
      BY <1>2, <2>2, <2>3 DEF Send
  <1>3. ASSUME NEW r \in Receivers, Take(r)
        PROVE  TypeOK'
    BY <1>1, <1>3 DEF Take, Nothing
  <1>4. ASSUME NEW r \in Receivers, RecvReturnsNothing(r)
        PROVE  TypeOK'
    BY <1>4 DEF RecvReturnsNothing
  <1>5. ASSUME NEW r \in Receivers, Recv(r)
        PROVE  TypeOK'
    <2>1. CASE RecvWait(r)
      BY <2>1 DEF RecvWait
    <2>2. CASE Expire(r)
      BY <2>2 DEF Expire
    <2>3. CASE SpuriousWakeup(r)
      BY <2>3 DEF SpuriousWakeup
    <2> QED
      BY <1>3, <1>4, <1>5, <2>1, <2>2, <2>3
      DEF Recv, RecvAvailable, RecvPoll, RecvExpired, RecvWoken
  <1>6. CASE Reset
    BY <1>6, CapacityAssumption, SMT DEF Reset, Index
  <1>7. CASE UNCHANGED vars
    BY <1>7 DEF vars
  <1> QED
    BY <1>2, <1>5, <1>6, <1>7 DEF Next

\* The variables of block_msg_queue.c stay within their ranges: head and tail
\* never leave the ring.
THEOREM TypeCorrect == Spec => []TypeOK
  <1>1. Init => TypeOK
    BY TypeInit
  <1>2. TypeOK /\ [Next]_vars => TypeOK'
    BY TypeStep
  <1> QED
    BY <1>1, <1>2, PTL DEF Spec

-----------------------------------------------------------------------------
(* What the wait without a loop around it comes to, in the safe usage       *)

\* A receiver that leaves the wait, the only one there is, finds a message.
SafeInv == SafeUsage => ~emptyWake /\ \A r \in Receivers : rstate[r] = "woken" => ~Empty

LEMMA SafeStep == TypeOK /\ SafeInv /\ [Next]_vars => SafeInv'
  <1> SUFFICES ASSUME TypeOK, SafeInv, [Next]_vars, SafeUsage
               PROVE  ~emptyWake' /\ \A r \in Receivers : rstate'[r] = "woken" => head' # tail'
    BY DEF SafeInv, SafeUsage, Empty
  <1> USE DEF TypeOK
  <1>1. ~emptyWake /\ \A r \in Receivers : rstate[r] = "woken" => head # tail
    BY DEF SafeInv, Empty
  <1>2. \A r, s \in Receivers : r = s
    <2>1. PICK x : Receivers = {x}
      BY ReceiversAssumption, FS_Singleton DEF SafeUsage
    <2> QED
      BY <2>1
  <1>3. CASE Send
    <2>1. CASE SendAccepted
      BY <1>1, <1>3, <2>1 DEF Send, SendAccepted, Full
    <2>2. CASE SendRefused
      BY <1>1, <1>3, <2>2 DEF Send, SendRefused
    <2> QED
      BY <1>3, <2>1, <2>2 DEF Send
  <1>4. ASSUME NEW r \in Receivers, Recv(r)
        PROVE  ~emptyWake' /\ \A s \in Receivers : rstate'[s] = "woken" => head' # tail'
    <2>1. CASE RecvAvailable(r) \/ RecvWoken(r)
      BY <1>1, <1>2, <2>1 DEF RecvAvailable, RecvWoken, Take, Empty
    <2>2. CASE RecvPoll(r) \/ RecvExpired(r)
      BY <1>1, <1>2, <2>2 DEF RecvPoll, RecvExpired, RecvReturnsNothing
    <2>3. CASE RecvWait(r)
      BY <1>1, <1>2, <2>3 DEF RecvWait
    <2>4. CASE Expire(r)
      BY <1>1, <1>2, <2>4 DEF Expire
    <2>5. CASE SpuriousWakeup(r)
      BY <2>5 DEF SpuriousWakeup, SafeUsage
    <2> QED
      BY <1>4, <2>1, <2>2, <2>3, <2>4, <2>5 DEF Recv
  <1>5. CASE Reset
    BY <1>1, <1>5 DEF Reset, SafeUsage
  <1>6. CASE UNCHANGED vars
    BY <1>1, <1>6 DEF vars
  <1> QED
    BY <1>3, <1>4, <1>5, <1>6 DEF Next

\* With one receiver that resets its own queue, b_mq_recv never takes a message
\* from an empty ring although it does not look at the ring after the wait.
THEOREM NeverPhantom == Spec => []NoPhantom
  <1>1. Init => SafeInv
    BY DEF Init, SafeInv
  <1>2. SafeInv => NoPhantom
    BY DEF SafeInv, NoPhantom
  <1> QED
    BY <1>1, <1>2, SafeStep, TypeCorrect, PTL DEF Spec

-----------------------------------------------------------------------------
(* Wake-ups, with any number of receivers and in any usage                  *)

\* A receiver that leaves the wait is one more on its way to a message.
LEMMA OneMoreWoken ==
  ASSUME TypeOK, NEW r \in Receivers, rstate[r] # "woken",
         rstate' = [rstate EXCEPT ![r] = "woken"]
  PROVE  Cardinality(Woken') = Cardinality(Woken) + 1
  <1>1. Woken' = Woken \cup {r} /\ r \notin Woken
    BY DEF TypeOK, Woken
  <1>2. IsFiniteSet(Woken)
    BY ReceiversAssumption, FS_Subset DEF Woken
  <1> QED
    BY <1>1, <1>2, FS_AddElement

\* One that returns is one less.
LEMMA OneLessWoken ==
  ASSUME TypeOK, NEW r \in Receivers, rstate[r] = "woken",
         rstate' = [rstate EXCEPT ![r] = "idle"]
  PROVE  Cardinality(Woken') = Cardinality(Woken) - 1
  <1>1. Woken' = Woken \ {r} /\ r \in Woken
    BY DEF TypeOK, Woken
  <1>2. IsFiniteSet(Woken)
    BY ReceiversAssumption, FS_Subset DEF Woken
  <1> QED
    BY <1>1, <1>2, FS_RemoveElement

LEMMA WakeStep == TypeOK /\ NoLostWakeup /\ [Next]_vars => NoLostWakeup'
  <1> SUFFICES ASSUME TypeOK, NoLostWakeup, [Next]_vars
               PROVE  NoLostWakeup'
    OBVIOUS
  <1>1. head \in Index /\ tail \in Index /\ rstate \in [Receivers -> {"idle", "forever", "timed", "expired", "woken"}]
    BY DEF TypeOK
  <1>2. Count = Distance(head, tail) /\ Count' = Distance(head', tail')
    BY DEF Count, Distance, Slots
  <1>3. Cardinality(Woken) \in Nat
    BY ReceiversAssumption, FS_Subset, FS_CardinalityType DEF Woken
  <1>4. Count \in 0 .. Capacity /\ (Count = 0 <=> Empty)
    BY <1>1, <1>2, DistanceValue DEF Empty
  <1>5. CASE UNCHANGED <<head, tail, emptyWake>> /\ UNCHANGED Woken /\ Blocked' \subseteq Blocked
    BY <1>2, <1>5 DEF NoLostWakeup
  <1>6. CASE Send
    <2>1. CASE SendAccepted
      <3>1. Count' = Count + 1
        BY <1>1, <1>2, <2>1, DistanceStep DEF SendAccepted, Full
      <3>2. CASE Blocked = {}
        BY <2>1, <3>2 DEF SendAccepted, SignalEmpty, Blocked, NoLostWakeup
      <3>3. CASE Blocked # {}
        <4>1. PICK r \in Blocked : rstate' = [rstate EXCEPT ![r] = "woken"]
          BY <2>1, <3>3 DEF SendAccepted, SignalEmpty
        <4>2. Cardinality(Woken') = Cardinality(Woken) + 1
          BY <4>1, OneMoreWoken DEF Blocked
        <4>3. emptyWake' = emptyWake
          BY <1>6 DEF Send
        <4>4. emptyWake \/ Count <= Cardinality(Woken)
          BY <3>3 DEF NoLostWakeup
        <4>5. emptyWake \/ Count + 1 <= Cardinality(Woken) + 1
          BY <1>3, <1>4, <4>4, CapacityAssumption, SMT
        <4> QED
          BY <3>1, <4>2, <4>3, <4>5 DEF NoLostWakeup
      <3> QED
        BY <3>2, <3>3
    <2>2. CASE SendRefused
      BY <1>5, <1>6, <2>2 DEF Send, SendRefused, Woken, Blocked
    <2> QED
      BY <1>6, <2>1, <2>2 DEF Send
  <1>7. ASSUME NEW r \in Receivers, Recv(r)
        PROVE  NoLostWakeup'
    <2>1. CASE RecvAvailable(r)
      <3>1. Count' = Count - 1 /\ emptyWake' = emptyWake
        BY <1>1, <1>2, <2>1, DistanceStep DEF RecvAvailable, Take, Empty, TypeOK
      <3>2. Woken' = Woken /\ Blocked' = Blocked
        BY <1>1, <2>1 DEF RecvAvailable, Take, Woken, Blocked
      <3>3. Count <= Cardinality(Woken) => Count - 1 <= Cardinality(Woken)
        BY <1>3, <1>4, CapacityAssumption, SMT
      <3> QED
        BY <3>1, <3>2, <3>3 DEF NoLostWakeup
    <2>2. CASE RecvWoken(r)
      <3>1. CASE Empty
        BY <2>2, <3>1 DEF RecvWoken, Take, NoLostWakeup
      <3>2. CASE ~Empty
        <4>1. Count' = Count - 1
          BY <1>1, <1>2, <2>2, <3>2, DistanceStep DEF RecvWoken, Take, Empty
        <4>2. emptyWake' = (emptyWake \/ FALSE)
          BY <2>2, <3>2 DEF RecvWoken, Take
        <4>3. Cardinality(Woken') = Cardinality(Woken) - 1
          BY <2>2, OneLessWoken DEF RecvWoken, Take
        <4>4. Blocked' = Blocked
          BY <1>1, <2>2 DEF RecvWoken, Take, Blocked
        <4>5. Count <= Cardinality(Woken) => Count - 1 <= Cardinality(Woken) - 1
          BY <1>3, <1>4, CapacityAssumption, SMT
        <4> QED
          BY <4>1, <4>2, <4>3, <4>4, <4>5 DEF NoLostWakeup
      <3> QED
        BY <3>1, <3>2
    <2>3. CASE RecvWait(r)
      <3>1. Woken' = Woken /\ Count' = 0
        BY <1>1, <1>2, <1>4, <2>3 DEF RecvWait, Woken
      <3> QED
        BY <1>3, <3>1, SMT DEF NoLostWakeup
    <2>4. CASE SpuriousWakeup(r)
      <3>1. Cardinality(Woken') = Cardinality(Woken) + 1
        BY <2>4, OneMoreWoken DEF SpuriousWakeup, Blocked
      <3>2. Count' = Count /\ emptyWake' = emptyWake /\ Blocked # {}
        BY <1>2, <2>4 DEF SpuriousWakeup
      <3>3. Count <= Cardinality(Woken) => Count <= Cardinality(Woken) + 1
        BY <1>3, <1>4, CapacityAssumption, SMT
      <3> QED
        BY <3>1, <3>2, <3>3 DEF NoLostWakeup
    <2>5. CASE RecvPoll(r) \/ RecvExpired(r)
      BY <1>1, <1>5, <2>5 DEF RecvPoll, RecvExpired, RecvReturnsNothing, Woken, Blocked
    <2>6. CASE Expire(r)
      BY <1>1, <1>5, <2>6 DEF Expire, Woken, Blocked
    <2> QED
      BY <1>7, <2>1, <2>2, <2>3, <2>4, <2>5, <2>6 DEF Recv
  <1>8. CASE Reset
    <2>1. Woken' = Woken /\ Count' = 0
      <3>1. 0 \in Index
        BY CapacityAssumption, SMT DEF Index
      <3> QED
        BY <1>2, <1>8, <3>1, DistanceValue DEF Reset, Woken
    <2> QED
      BY <1>3, <2>1, SMT DEF NoLostWakeup
  <1>9. CASE UNCHANGED vars
    BY <1>5, <1>9 DEF vars, Woken, Blocked
  <1> QED
    BY <1>6, <1>7, <1>8, <1>9 DEF Next

\* b_mq_send signals once for every message: while a receiver waits, every
\* message has a receiver on its way to it, until one takes from an empty ring.
THEOREM NeverLostWakeup == Spec => []NoLostWakeup
  <1>1. Init => NoLostWakeup
    BY DEF Init, NoLostWakeup, Blocked
  <1> QED
    BY <1>1, WakeStep, TypeCorrect, PTL DEF Spec

-----------------------------------------------------------------------------
(* The messages in the ring                                                *)

\* The slot of the i-th message from the index h.
Slot(h, i) == (h + i - 1) % Slots

\* That slot without a remainder.
LEMMA SlotValue ==
  ASSUME NEW h \in Index, NEW i \in 1 .. Slots
  PROVE  /\ Slot(h, i) = IF h + i <= Slots THEN h + i - 1 ELSE h + i - 1 - Slots
         /\ Slot(h, i) \in Index
  <1> DEFINE x == h + i - 1
  <1>1. Slots \in Nat \ {0} /\ Slots = Capacity + 1 /\ h \in 0 .. Capacity /\ Capacity \in Nat
    BY CapacityAssumption, SMT DEF Slots, Index
  <1>2. CASE h + i <= Slots
    <2>1. x \in 0 .. Slots - 1
      BY <1>1, <1>2, SMT
    <2>2. x % Slots = x
      BY <1>1, <2>1, SMT
    <2> QED
      BY <1>1, <1>2, <2>1, <2>2, SMT DEF Slot, Index
  <1>3. CASE ~(h + i <= Slots)
    <2>1. x \in Slots .. 2 * Slots - 1
      BY <1>1, <1>3, SMT
    <2>2. x % Slots = x - Slots
      BY <1>1, <2>1, SMT
    <2> QED
      BY <1>1, <1>3, <2>1, <2>2, SMT DEF Slot, Index
  <1> QED
    BY <1>2, <1>3

\* The slot behind the messages from h to t is t, and it is none of theirs.
LEMMA SlotAtEnd ==
  ASSUME NEW h \in Index, NEW t \in Index
  PROVE  /\ Slot(h, Distance(h, t) + 1) = t
         /\ \A i \in 1 .. Distance(h, t) : Slot(h, i) # t
  <1>1. Slots = Capacity + 1 /\ Capacity \in Nat \ {0} /\ Index = 0 .. Capacity
    BY CapacityAssumption, SMT DEF Slots, Index
  <1>2. /\ Distance(h, t) = IF t >= h THEN t - h ELSE t - h + Slots
        /\ Distance(h, t) \in 0 .. Capacity
    BY DistanceValue
  <1>3. Slot(h, Distance(h, t) + 1) = t
    <2>1. Distance(h, t) + 1 \in 1 .. Slots
      BY <1>1, <1>2, SMT
    <2>2. Slot(h, Distance(h, t) + 1) =
            IF h + (Distance(h, t) + 1) <= Slots THEN h + (Distance(h, t) + 1) - 1
            ELSE h + (Distance(h, t) + 1) - 1 - Slots
      BY <2>1, SlotValue
    <2> QED
      BY <1>1, <1>2, <2>2, SMT
  <1>4. ASSUME NEW i \in 1 .. Distance(h, t)
        PROVE  Slot(h, i) # t
    <2>1. i \in 1 .. Slots
      BY <1>1, <1>2, SMT
    <2>2. Slot(h, i) = IF h + i <= Slots THEN h + i - 1 ELSE h + i - 1 - Slots
      BY <2>1, SlotValue
    <2> QED
      BY <1>1, <1>2, <2>2, SMT
  <1> QED
    BY <1>3, <1>4

\* Without its first message the ring begins one slot further on.
LEMMA SlotBehindFirst ==
  ASSUME NEW h \in Index, NEW i \in 1 .. Capacity
  PROVE  Slot(NextIndex(h), i) = Slot(h, i + 1)
  <1>1. Slots = Capacity + 1 /\ Capacity \in Nat \ {0} /\ Index = 0 .. Capacity
    BY CapacityAssumption, SMT DEF Slots, Index
  <1>2. NextIndex(h) \in Index /\ NextIndex(h) = IF h = Capacity THEN 0 ELSE h + 1
    BY NextIndexValue
  <1>3. i \in 1 .. Slots /\ i + 1 \in 1 .. Slots
    BY <1>1, SMT
  <1>4. Slot(NextIndex(h), i) =
          IF NextIndex(h) + i <= Slots THEN NextIndex(h) + i - 1 ELSE NextIndex(h) + i - 1 - Slots
    BY <1>2, <1>3, SlotValue
  <1>5. Slot(h, i + 1) = IF h + (i + 1) <= Slots THEN h + (i + 1) - 1 ELSE h + (i + 1) - 1 - Slots
    BY <1>3, SlotValue
  <1> QED
    BY <1>1, <1>2, <1>3, <1>4, <1>5, SMT

LEMMA QueueTypes ==
  ASSUME TypeOK
  PROVE  /\ Count = Distance(head, tail) /\ Count \in 0 .. Capacity
         /\ Queue = [i \in 1 .. Count |-> pool[Slot(head, i)]]
         /\ \A i \in 1 .. Count : Slot(head, i) \in Index
  <1>1. Count = Distance(head, tail) /\ Count \in 0 .. Capacity
    BY DistanceValue DEF TypeOK, Count, Distance
  <1>2. Queue = [i \in 1 .. Count |-> pool[Slot(head, i)]]
    BY DEF Queue, Slot
  <1>3. \A i \in 1 .. Count : i \in 1 .. Slots
    BY <1>1, CapacityAssumption, SMT DEF Slots
  <1> QED
    BY <1>1, <1>2, <1>3, SlotValue DEF TypeOK

\* b_mq_send puts its message behind the others and touches none of them.
LEMMA QueueGrows ==
  ASSUME TypeOK, TypeOK', SendAccepted
  PROVE  /\ Count' = Count + 1 /\ Count + 1 <= Capacity
         /\ \A i \in 1 .. Count : Queue'[i] = Queue[i]
         /\ Queue'[Count + 1] = offered + 1
  <1>1. /\ Count = Distance(head, tail) /\ Count \in 0 .. Capacity
        /\ Queue = [i \in 1 .. Count |-> pool[Slot(head, i)]]
        /\ \A i \in 1 .. Count : Slot(head, i) \in Index
    BY QueueTypes
  <1>2. /\ Count' = Distance(head, tail') /\ Count' \in 0 .. Capacity
        /\ Queue' = [i \in 1 .. Count' |-> pool'[Slot(head, i)]]
    <2>1. head' = head
      BY DEF SendAccepted
    <2>2. Count' = Distance(head', tail')
      BY DEF Count, Distance, Slots
    <2>3. Queue' = [i \in 1 .. Count' |-> pool'[Slot(head', i)]]
      BY DEF Queue, Slot, Slots
    <2> QED
      BY <2>1, <2>2, <2>3, DistanceValue DEF TypeOK
  <1>3. Count' = Count + 1
    BY <1>1, <1>2, DistanceStep DEF TypeOK, SendAccepted, Full
  <1>4. Slot(head, Count + 1) = tail /\ \A i \in 1 .. Count : Slot(head, i) # tail
    BY <1>1, SlotAtEnd DEF TypeOK
  <1>5. pool' = [pool EXCEPT ![tail] = offered + 1] /\ tail \in Index /\ pool \in [Index -> Message \cup {Nothing}]
    BY DEF SendAccepted, TypeOK
  <1>6. Count + 1 \in 1 .. Count' /\ \A i \in 1 .. Count : i \in 1 .. Count'
    BY <1>1, <1>3, CapacityAssumption, SMT
  <1>7. \A i \in 1 .. Count : Queue'[i] = Queue[i]
    BY <1>1, <1>2, <1>4, <1>5, <1>6
  <1>8. Queue'[Count + 1] = offered + 1
    BY <1>1, <1>2, <1>4, <1>5, <1>6
  <1> QED
    BY <1>2, <1>3, <1>7, <1>8, CapacityAssumption, SMT

\* b_mq_recv returns the first message of a ring that is not empty, and the
\* others stay as they are.
LEMMA QueueShrinks ==
  ASSUME TypeOK, TypeOK', NEW r \in Receivers, Take(r), ~Empty
  PROVE  /\ Count' = Count - 1 /\ Count \in 1 .. Capacity
         /\ \A i \in 1 .. Count - 1 : Queue'[i] = Queue[i + 1]
         /\ got' = [got EXCEPT ![r] = Queue[1]]
  <1>1. /\ Count = Distance(head, tail) /\ Count \in 0 .. Capacity
        /\ Queue = [i \in 1 .. Count |-> pool[Slot(head, i)]]
    BY QueueTypes
  <1>2. Count # 0
    BY <1>1, DistanceValue DEF Empty, TypeOK
  <1>3. /\ Count' = Distance(head', tail) /\ Queue' = [i \in 1 .. Count' |-> pool[Slot(head', i)]]
    BY DEF Take, Count, Queue, Distance, Slot, Slots
  <1>4. Count' = Count - 1
    BY <1>1, <1>2, <1>3, DistanceStep DEF TypeOK, Take, Empty
  <1>5. Slot(head, 1) = head
    <2>1. 1 \in 1 .. Slots
      BY CapacityAssumption, SMT DEF Slots
    <2>2. Slot(head, 1) = IF head + 1 <= Slots THEN head + 1 - 1 ELSE head + 1 - 1 - Slots
      BY <2>1, SlotValue DEF TypeOK
    <2> QED
      BY <2>2, CapacityAssumption, SMT DEF TypeOK, Index, Slots
  <1>6. /\ 1 \in 1 .. Count
        /\ \A i \in 1 .. Count - 1 : i \in 1 .. Capacity /\ i + 1 \in 1 .. Count
    BY <1>1, <1>2, CapacityAssumption, SMT
  <1>7. got' = [got EXCEPT ![r] = Queue[1]]
    BY <1>1, <1>5, <1>6 DEF Take
  <1>8. ASSUME NEW i \in 1 .. Count - 1
        PROVE  Queue'[i] = Queue[i + 1]
    <2>1. Queue'[i] = pool[Slot(head', i)]
      BY <1>3, <1>4
    <2>2. Queue[i + 1] = pool[Slot(head, i + 1)]
      BY <1>1, <1>6
    <2>3. Slot(head', i) = Slot(head, i + 1)
      BY <1>6, SlotBehindFirst DEF Take, TypeOK
    <2> QED
      BY <2>1, <2>2, <2>3
  <1> QED
    BY <1>1, <1>2, <1>4, <1>7, <1>8, CapacityAssumption, SMT

-----------------------------------------------------------------------------
(* The order of the messages, with any number of receivers and in any usage *)

\* Ordered says of the ring what InOrder says while no receiver has taken from
\* an empty one.
Ordered ==
  \A i \in 1 .. Count :
    /\ Queue[i] \in 1 .. offered
    /\ \A r \in Receivers : got[r] < Queue[i]
    /\ \A j \in 1 .. i - 1 : Queue[j] < Queue[i]

\* What the next message is newer than although the ring may be empty.
OrderInv ==
  /\ \A r \in Receivers : got[r] <= offered
  /\ \A i \in Index : pool[i] <= offered
  /\ emptyWake \/ Ordered

LEMMA OrderInit == Init => OrderInv
  <1> SUFFICES ASSUME Init
               PROVE  OrderInv
    OBVIOUS
  <1>1. Count = 0
    BY TypeInit, QueueTypes, CapacityAssumption, DistanceValue DEF Init, TypeOK
  <1>2. Ordered
    BY <1>1, SMT DEF Ordered
  <1> QED
    BY <1>2 DEF Init, OrderInv, Nothing

\* A message that b_mq_send accepts is newer than all others.
LEMMA OrderSend ==
  ASSUME TypeOK, TypeOK', OrderInv, Send
  PROVE  OrderInv'
  <1>1. /\ offered \in Nat /\ offered' = offered + 1 /\ got' = got /\ emptyWake' = emptyWake
        /\ got \in [Receivers -> Message \cup {Nothing}] /\ pool \in [Index -> Message \cup {Nothing}]
        /\ \A r \in Receivers : got[r] \in Nat /\ got[r] <= offered
        /\ \A i \in Index : pool[i] \in Nat /\ pool[i] <= offered
    BY BoundAssumption, SMT DEF Send, TypeOK, OrderInv, Message, Nothing
  <1>2. CASE SendAccepted
    <2>1. /\ Count' = Count + 1
          /\ \A i \in 1 .. Count : Queue'[i] = Queue[i]
          /\ Queue'[Count + 1] = offered + 1
      BY <1>2, QueueGrows
    <2>2. Count \in Nat
      BY QueueTypes, CapacityAssumption, SMT
    <2>3. pool' = [pool EXCEPT ![tail] = offered + 1]
      BY <1>2 DEF SendAccepted
    <2>4. \A i \in Index : pool'[i] <= offered'
      <3> SUFFICES ASSUME NEW i \in Index
                   PROVE  pool'[i] <= offered + 1
        BY <1>1
      <3>1. pool'[i] = offered + 1 \/ pool'[i] = pool[i]
        BY <1>1, <2>3
      <3> QED
        BY <1>1, <3>1, SMT
    <2>5. ASSUME Ordered
          PROVE  Ordered'
      <3> SUFFICES ASSUME NEW i \in 1 .. Count + 1
                   PROVE  /\ Queue'[i] \in 1 .. offered + 1
                          /\ \A r \in Receivers : got[r] < Queue'[i]
                          /\ \A j \in 1 .. i - 1 : Queue'[j] < Queue'[i]
        BY <1>1, <2>1 DEF Ordered
      <3>1. \A j \in 1 .. Count : Queue[j] \in 1 .. offered
        BY <2>5 DEF Ordered
      <3>2. CASE i = Count + 1
        <4>1. \A j \in 1 .. Count : Queue'[j] < offered + 1
          BY <1>1, <2>1, <3>1, SMT
        <4>2. \A r \in Receivers : got[r] < offered + 1
          BY <1>1, SMT
        <4>3. i - 1 = Count /\ offered + 1 \in 1 .. offered + 1
          BY <1>1, <2>2, <3>2, SMT
        <4> QED
          BY <2>1, <3>2, <4>1, <4>2, <4>3
      <3>3. CASE i # Count + 1
        <4>1. i \in 1 .. Count /\ \A j \in 1 .. i - 1 : j \in 1 .. Count
          BY <2>2, <3>3, SMT
        <4>2. Queue[i] \in 1 .. offered + 1
          BY <1>1, <3>1, <4>1, SMT
        <4> QED
          BY <2>1, <2>5, <4>1, <4>2 DEF Ordered
      <3> QED
        BY <3>2, <3>3
    <2>6. \A r \in Receivers : got[r] <= offered + 1
      BY <1>1, SMT
    <2> QED
      BY <1>1, <2>4, <2>5, <2>6 DEF OrderInv
  <1>3. CASE SendRefused
    <2>1. pool' = pool /\ Count' = Count /\ Queue' = Queue
      BY <1>3 DEF SendRefused, Count, Queue, Slots
    <2>2. ASSUME Ordered
          PROVE  Ordered'
      <3>1. \A i \in 1 .. Count : Queue[i] \in 1 .. offered + 1
        BY <1>1, <2>2, SMT DEF Ordered
      <3> QED
        BY <1>1, <2>1, <2>2, <3>1 DEF Ordered
    <2>3. /\ \A r \in Receivers : got[r] <= offered + 1
          /\ \A i \in Index : pool[i] <= offered + 1
      BY <1>1, SMT
    <2> QED
      BY <1>1, <2>1, <2>2, <2>3 DEF OrderInv
  <1> QED
    BY <1>2, <1>3 DEF Send

\* The one that b_mq_recv returns is older than all that stay.
LEMMA OrderTake ==
  ASSUME TypeOK, TypeOK', OrderInv, NEW r \in Receivers, Take(r)
  PROVE  OrderInv'
  <1>1. /\ offered' = offered /\ pool' = pool /\ head \in Index
        /\ got' = [got EXCEPT ![r] = pool[head]]
        /\ got \in [Receivers -> Message \cup {Nothing}]
        /\ emptyWake' = (emptyWake \/ Empty)
    BY DEF Take, TypeOK
  <1>2. \A s \in Receivers : got'[s] <= offered'
    BY <1>1 DEF OrderInv
  <1>3. ASSUME ~Empty, Ordered
        PROVE  Ordered'
    <2>1. /\ Count' = Count - 1 /\ Count \in 1 .. Capacity
          /\ \A i \in 1 .. Count - 1 : Queue'[i] = Queue[i + 1]
          /\ got' = [got EXCEPT ![r] = Queue[1]]
      BY <1>3, QueueShrinks
    <2> SUFFICES ASSUME NEW i \in 1 .. Count - 1
                 PROVE  /\ Queue[i + 1] \in 1 .. offered
                        /\ \A s \in Receivers : got'[s] < Queue[i + 1]
                        /\ \A j \in 1 .. i - 1 : Queue'[j] < Queue[i + 1]
      BY <1>1, <2>1 DEF Ordered
    <2>2. /\ i + 1 \in 1 .. Count /\ 1 \in 1 .. i + 1 - 1
          /\ \A j \in 1 .. i - 1 : j \in 1 .. Count - 1 /\ j + 1 \in 1 .. i + 1 - 1
      BY <2>1, CapacityAssumption, SMT
    <2>3. /\ Queue[i + 1] \in 1 .. offered
          /\ \A s \in Receivers : got[s] < Queue[i + 1]
          /\ \A j \in 1 .. i + 1 - 1 : Queue[j] < Queue[i + 1]
      BY <1>3, <2>2 DEF Ordered
    <2> QED
      BY <1>1, <2>1, <2>2, <2>3
  <1> QED
    BY <1>1, <1>2, <1>3 DEF OrderInv

LEMMA OrderStep == TypeOK /\ TypeOK' /\ OrderInv /\ [Next]_vars => OrderInv'
  <1> SUFFICES ASSUME TypeOK, TypeOK', OrderInv, [Next]_vars
               PROVE  OrderInv'
    OBVIOUS
  <1>1. CASE UNCHANGED <<pool, head, tail, offered, emptyWake>>
             /\ \A s \in Receivers : got'[s] = got[s] \/ got'[s] = Nothing
    <2>1. Count' = Count /\ Queue' = Queue
      BY <1>1 DEF Count, Queue, Slots
    <2>2. offered \in Nat
      BY BoundAssumption, SMT DEF TypeOK
    <2>3. \A s \in Receivers : got'[s] <= offered
      BY <1>1, <2>2, SMT DEF OrderInv, Nothing
    <2>4. ASSUME Ordered
          PROVE  Ordered'
      <3>1. \A i \in 1 .. Count : Queue[i] \in 1 .. offered /\ 0 < Queue[i]
        BY <2>2, <2>4, SMT DEF Ordered
      <3> QED
        BY <1>1, <2>1, <2>4, <3>1 DEF Ordered, Nothing
    <2> QED
      BY <1>1, <2>3, <2>4 DEF OrderInv
  <1>2. CASE Send
    BY <1>2, OrderSend
  <1>3. ASSUME NEW r \in Receivers, Recv(r)
        PROVE  OrderInv'
    <2>1. CASE RecvAvailable(r) \/ RecvWoken(r)
      BY <2>1, OrderTake DEF RecvAvailable, RecvWoken
    <2>2. CASE RecvPoll(r) \/ RecvExpired(r)
      BY <1>1, <2>2 DEF RecvPoll, RecvExpired, RecvReturnsNothing, TypeOK
    <2>3. CASE RecvWait(r) \/ Expire(r) \/ SpuriousWakeup(r)
      BY <1>1, <2>3 DEF RecvWait, Expire, SpuriousWakeup
    <2> QED
      BY <1>3, <2>1, <2>2, <2>3 DEF Recv
  <1>4. CASE Reset
    <2>1. Count' = 0
      <3>1. Count' = Distance(0, 0) /\ 0 \in Index
        BY <1>4, CapacityAssumption, SMT DEF Reset, Count, Distance, Slots, Index
      <3> QED
        BY <3>1, DistanceValue
    <2>2. Ordered'
      BY <2>1, SMT DEF Ordered
    <2> QED
      BY <1>4, <2>2 DEF Reset, OrderInv
  <1>5. CASE UNCHANGED vars
    BY <1>1, <1>5 DEF vars
  <1> QED
    BY <1>2, <1>3, <1>4, <1>5 DEF Next

\* The messages stay in the order of their b_mq_send round and round the ring,
\* and b_mq_recv returns none twice, for any receivers, wakeups and resets, until
\* one takes from an empty ring.
THEOREM AlwaysInOrder == Spec => []InOrder
  <1>1. OrderInv => InOrder
    BY DEF OrderInv, InOrder, Ordered
  <1> QED
    BY <1>1, OrderInit, OrderStep, TypeCorrect, PTL DEF Spec

-----------------------------------------------------------------------------
(* The refinement of BoundedQueue                                          *)

\* The slots of the ring from h to t hold a sequence of what is in the slots.
LEMMA RingIsSeq ==
  ASSUME NEW S, NEW p \in [Index -> S], NEW h \in Index, NEW t \in Index, NEW s,
         s = [i \in 1 .. Distance(h, t) |-> p[Slot(h, i)]]
  PROVE  s \in Seq(S) /\ Len(s) = Distance(h, t)
  <1>1. Distance(h, t) \in Nat /\ \A i \in 1 .. Distance(h, t) : i \in 1 .. Slots
    BY DistanceValue, CapacityAssumption, SMT DEF Slots
  <1>2. \A i \in 1 .. Distance(h, t) : p[Slot(h, i)] \in S
    BY <1>1, SlotValue
  <1>3. s \in [1 .. Distance(h, t) -> S]
    BY <1>2
  <1> QED
    BY <1>1, <1>3, SMT

\* Used safely, each step of block_msg_queue.c is a step of the bounded queue or
\* changes nothing that its callers see.
LEMMA QueueStep ==
  ASSUME TypeOK, TypeOK', SafeUsage, SafeInv', [Next]_vars
  PROVE  [Abstract!Next]_Abstract!vars
  <1> USE DEF TypeOK
  <1> DEFINE Element == Message \cup {Nothing}
  <1>1. Count \in Nat /\ Count <= Capacity /\ Queue \in Seq(Element) /\ Len(Queue) = Count
    <2>1. Count = Distance(head, tail) /\ Count \in 0 .. Capacity
      BY QueueTypes
    <2>2. Queue = [i \in 1 .. Distance(head, tail) |-> pool[Slot(head, i)]]
      BY <2>1, QueueTypes
    <2>3. Queue \in Seq(Element) /\ Len(Queue) = Distance(head, tail)
      BY <2>2, RingIsSeq
    <2> QED
      BY <2>1, <2>3, CapacityAssumption, SMT
  <1>2. Count' \in Nat /\ Queue' \in Seq(Element) /\ Len(Queue') = Count'
    <2>1. Count' = Distance(head', tail') /\ Count' \in Nat
      <3>1. Count' = Distance(head', tail')
        BY DEF Count, Distance, Slots
      <3> QED
        BY <3>1, DistanceValue, CapacityAssumption, SMT
    <2>2. Queue' = [i \in 1 .. Distance(head', tail') |-> pool'[Slot(head', i)]]
      BY <2>1 DEF Queue, Slot, Slots
    <2>3. Queue' \in Seq(Element) /\ Len(Queue') = Distance(head', tail')
      <3>1. pool' \in [Index -> Element] /\ head' \in Index /\ tail' \in Index
        OBVIOUS
      <3> HIDE DEF Element, TypeOK
      <3> QED
        BY <2>2, <3>1, RingIsSeq
    <2> QED
      BY <2>1, <2>3
  <1> HIDE DEF Element
  <1>3. CASE Send
    <2>1. CASE SendAccepted
      <3>1. /\ Count' = Count + 1 /\ Count + 1 <= Capacity
            /\ \A i \in 1 .. Count : Queue'[i] = Queue[i]
            /\ Queue'[Count + 1] = offered + 1
        BY <2>1, QueueGrows
      <3>2. Queue' = Append(Queue, offered + 1)
        <4>1. offered + 1 \in Element
          BY <1>3, BoundAssumption, SMT DEF Send, Message, Element
        <4>2. /\ Append(Queue, offered + 1) \in Seq(Element)
              /\ Len(Append(Queue, offered + 1)) = Count + 1
              /\ \A i \in 1 .. Count : Append(Queue, offered + 1)[i] = Queue[i]
              /\ Append(Queue, offered + 1)[Count + 1] = offered + 1
          BY <1>1, <4>1, AppendProperties
        <4>3. \A i \in 1 .. Count + 1 : i \in 1 .. Count \/ i = Count + 1
          BY <1>1, SMT
        <4>4. \A i \in 1 .. Count + 1 : Queue'[i] = Append(Queue, offered + 1)[i]
          BY <3>1, <4>2, <4>3
        <4> QED
          BY <1>2, <3>1, <4>2, <4>4, SeqEqual
      <3>3. Len(Queue) < Capacity
        BY <1>1, <3>1, CapacityAssumption, SMT
      <3> QED
        BY <1>3, <2>1, <3>2, <3>3 DEF Send, SendAccepted, Abstract!Next, Abstract!Send
    <2>2. CASE SendRefused
      <3>1. Count = Capacity
        BY <2>2, QueueTypes, DistanceValue DEF SendRefused, Full
      <3>2. Queue' = Queue
        BY <2>2 DEF SendRefused, Queue, Count, Slots
      <3> QED
        BY <1>1, <1>3, <2>2, <3>1, <3>2 DEF Send, SendRefused, Abstract!Next, Abstract!Send
    <2> QED
      BY <1>3, <2>1, <2>2 DEF Send
  <1>4. ASSUME NEW r \in Receivers, Recv(r)
        PROVE  [Abstract!Next]_Abstract!vars
    <2>1. CASE RecvAvailable(r) \/ RecvWoken(r)
      <3>1. Take(r)
        BY <2>1 DEF RecvAvailable, RecvWoken
      <3>2. ~Empty
        BY <3>1 DEF SafeInv, Take
      <3>3. /\ Count' = Count - 1 /\ Count \in 1 .. Capacity
            /\ \A i \in 1 .. Count - 1 : Queue'[i] = Queue[i + 1]
            /\ got' = [got EXCEPT ![r] = Queue[1]]
        BY <3>1, <3>2, QueueShrinks
      <3>4. Queue # <<>> /\ Head(Queue) = Queue[1]
        BY <1>1, <3>3
      <3>5. Queue' = Tail(Queue)
        <4>1. /\ Tail(Queue) \in Seq(Element) /\ Len(Tail(Queue)) = Count - 1
              /\ \A i \in 1 .. Count - 1 : Tail(Queue)[i] = Queue[i + 1]
          BY <1>1, <3>4, HeadTailProperties
        <4> QED
          BY <1>2, <3>3, <4>1, SeqEqual
      <3> QED
        BY <3>1, <3>3, <3>4, <3>5 DEF Take, Abstract!Next, Abstract!Receive
    <2>2. CASE RecvPoll(r) \/ RecvExpired(r)
      <3>1. RecvReturnsNothing(r) /\ Queue' = Queue
        BY <2>2 DEF RecvPoll, RecvExpired, RecvReturnsNothing, Queue, Count, Slots
      <3> QED
        BY <3>1 DEF RecvReturnsNothing, Nothing, Abstract!Next, Abstract!GiveUp, Abstract!Nothing
    <2>3. CASE RecvWait(r) \/ Expire(r) \/ SpuriousWakeup(r)
      <3>1. Queue' = Queue
        BY <2>3 DEF RecvWait, Expire, SpuriousWakeup, Queue, Count, Slots
      <3> QED
        BY <2>3, <3>1 DEF RecvWait, Expire, SpuriousWakeup, Abstract!vars
    <2> QED
      BY <1>4, <2>1, <2>2, <2>3 DEF Recv
  <1>5. CASE Reset
    <2>1. Count' = 0
      <3>1. Count' = Distance(0, 0) /\ 0 \in Index
        BY <1>5, CapacityAssumption, SMT DEF Reset, Count, Distance, Slots, Index
      <3> QED
        BY <3>1, DistanceValue
    <2>2. Queue' = <<>>
      BY <1>2, <2>1, EmptySeq
    <2> QED
      BY <1>5, <2>2 DEF Reset, Abstract!Next, Abstract!Reset
  <1>6. CASE UNCHANGED vars
    BY <1>6 DEF vars, Abstract!vars, Queue, Count, Slots
  <1> QED
    BY <1>3, <1>4, <1>5, <1>6 DEF Next

\* With one receiver that resets its own queue, as the tasks use it, the ring of
\* block_msg_queue.c is the bounded first-in first-out queue.
THEOREM RingIsQueue == SafeUsage /\ Spec => ImplementsQueue
  <1> SUFFICES ASSUME SafeUsage
               PROVE  Spec => ImplementsQueue
    OBVIOUS
  <1>1. Init => Abstract!Init
    <2> SUFFICES ASSUME Init
                 PROVE  Abstract!Init
      OBVIOUS
    <2>1. Count = 0
      BY TypeInit, QueueTypes, DistanceValue DEF Init, TypeOK
    <2>2. Queue = <<>>
      BY <2>1 DEF Queue
    <2> QED
      BY <2>2 DEF Init, Nothing, Abstract!Init, Abstract!Nothing
  <1>2. Init => SafeInv
    BY DEF Init, SafeInv
  <1>3. TypeOK /\ TypeOK' /\ SafeInv' /\ [Next]_vars => [Abstract!Next]_Abstract!vars
    BY QueueStep
  <1> QED
    BY <1>1, <1>2, <1>3, SafeStep, TypeCorrect, PTL DEF Spec, ImplementsQueue, Abstract!Spec
=============================================================================
