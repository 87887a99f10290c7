------------------------------- MODULE Bfifo -------------------------------
(***************************************************************************)
(* sdccp/bfifo.c: the blocking byte fifo between the thread that reads a   *)
(* port or a socket and the one that decodes what came.  `in` and `out`    *)
(* are unsigned counters that run free and wrap at the machine word; the   *)
(* slot of a byte is the counter modulo the size.                          *)
(*                                                                         *)
(* Every call holds the mutex throughout, except inside a wait on          *)
(* c_not_full or c_not_empty; a wait is not repeated after a wakeup.       *)
(* Wakeups may be spurious.  Bytes are numbered in the order in which they *)
(* are accepted.                                                           *)
(***************************************************************************)
EXTENDS Integers, Sequences, FiniteSets

CONSTANTS
  Producers,  \* threads that call bfifo_push, bfifo_push_wait
  Consumers,  \* threads that call the other operations
  Size,       \* size argument of bfifo_create
  Word,       \* number of values of an unsigned int
  MaxChunk,   \* bound: bytes offered or asked for by one call
  MaxBytes    \* bound: bytes accepted over the whole run

ASSUME SizeAssumption == Size \in Nat \ {0} /\ Word \in Nat /\ Size < Word
ASSUME ThreadsAssumption == IsFiniteSet(Producers) /\ IsFiniteSet(Consumers)
ASSUME BoundAssumption == MaxChunk \in Nat \ {0} /\ MaxBytes \in Nat

VARIABLES
  buffer,   \* the byte in each slot
  in,       \* f->in
  out,      \* f->out
  pwait,    \* where each producer is, and the bytes it still offers
  cwait,    \* where each consumer is, and the bytes it asks for
  locked,   \* f->lock was left locked by a call that returned
  fed,      \* history: number of bytes accepted
  taken,    \* history: number of bytes pulled or dropped by a reset
  got       \* history: what the last bfifo_pull returned

vars == <<buffer, in, out, pwait, cwait, locked, fed, taken, got>>

Slot == 0 .. Size - 1
Chunk == 1 .. MaxChunk
\* A byte no call ever pushed.
Blank == 0

Least(a, b) == IF a < b THEN a ELSE b

\* Room as it would be one byte too generous.
RoomPlusOne == (Size - in + out + 1) % Word

\* f->in - f->out and f->size - f->in + f->out, in unsigned arithmetic.
Used == (in - out) % Word
Room == (Size - in + out) % Word

\* A thread outside bfifo.c, one inside a wait, one whose wait has ended with
\* success.  `n` is the length of the call; 0 for the *_wait calls, which move
\* no bytes.
Idle == [at |-> "idle", n |-> 0]
Waiting(n, how) == [at |-> how, n |-> n]
IsWaiting(w) == w.at \in {"forever", "timed"}
Where == [at : {"idle", "forever", "timed", "woken", "counted"}, n : 0 .. MaxChunk]

Init ==
  /\ buffer = [i \in Slot |-> Blank]
  /\ in = 0
  /\ out = 0
  /\ pwait = [p \in Producers |-> Idle]
  /\ cwait = [c \in Consumers |-> Idle]
  /\ locked = FALSE
  /\ fed = 0
  /\ taken = 0
  /\ got = <<>>

\* The value of a table of threads after a signal of their condition variable.
Signalled(wait) ==
  LET W == {t \in DOMAIN wait : IsWaiting(wait[t])} IN
  IF W = {} THEN {wait} ELSE {[wait EXCEPT ![t].at = "woken"] : t \in W}

-----------------------------------------------------------------------------
\* Store as it would be with the copy not folded back at the end of the buffer.
StoreUnfolded(p, n) ==
  LET len == Least(n, Room)
      pos == in % Size
  IN
  /\ fed + len <= MaxBytes
  /\ buffer' = [i \in Slot |->
       IF i \in pos .. pos + len - 1 THEN fed + i - pos + 1 ELSE buffer[i]]
  /\ in' = (in + len) % Word
  /\ fed' = fed + len
  /\ pwait' = [pwait EXCEPT ![p] = Idle]
  /\ cwait' \in IF len > 0 THEN Signalled(cwait) ELSE {cwait}
  /\ UNCHANGED <<out, locked, taken, got>>

\* The second half of bfifo_push, with n bytes offered.
Store(p, n) ==
  LET len == Least(n, Room)
      pos == in % Size
      l == Least(len, Size - pos)
  IN
  /\ fed + len <= MaxBytes
  /\ buffer' = [i \in Slot |->
       IF i \in pos .. pos + l - 1 THEN fed + i - pos + 1
       ELSE IF i < len - l THEN fed + l + i + 1
       ELSE buffer[i]]
  /\ in' = (in + len) % Word
  /\ fed' = fed + len
  /\ pwait' = [pwait EXCEPT ![p] = Idle]
  /\ cwait' \in IF len > 0 THEN Signalled(cwait) ELSE {cwait}
  /\ UNCHANGED <<out, locked, taken, got>>

Push(p) ==
  /\ ~locked
  /\ pwait[p] = Idle
  /\ Used # Size
  /\ \E n \in Chunk : Store(p, n)

\* bfifo_push or bfifo_push_wait on a full fifo; with timeout 0 the call
\* returns at once and nothing changes.
PushFull(p) ==
  /\ ~locked
  /\ pwait[p] = Idle
  /\ Used = Size
  /\ fed < MaxBytes
  /\ \E n \in 0 .. MaxChunk, how \in {"forever", "timed"} :
       pwait' = [pwait EXCEPT ![p] = Waiting(n, how)]
  /\ UNCHANGED <<buffer, in, out, cwait, locked, fed, taken, got>>

\* A wakeup without a signal.
PushSpurious(p) ==
  /\ IsWaiting(pwait[p])
  /\ pwait' = [pwait EXCEPT ![p].at = "woken"]
  /\ UNCHANGED <<buffer, in, out, cwait, locked, fed, taken, got>>

\* The wait timed out: bfifo_push returns 0.
PushTimeout(p) ==
  /\ ~locked
  /\ pwait[p].at = "timed"
  /\ pwait' = [pwait EXCEPT ![p] = Idle]
  /\ UNCHANGED <<buffer, in, out, cwait, locked, fed, taken, got>>

PushWoken(p) ==
  /\ ~locked
  /\ pwait[p].at = "woken"
  /\ Store(p, pwait[p].n)

-----------------------------------------------------------------------------
\* Fetch as it would be without the signal to the producer.
FetchSilent(c, n) ==
  LET len == Least(n, Used)
      pos == out % Size
      l == Least(len, Size - pos)
  IN
  /\ got' = [j \in 1 .. len |->
       IF j <= l THEN buffer[pos + j - 1] ELSE buffer[j - l - 1]]
  /\ out' = (out + len) % Word
  /\ taken' = taken + len
  /\ cwait' = [cwait EXCEPT ![c] = Idle]
  /\ UNCHANGED <<pwait, buffer, in, locked, fed>>

\* The second half of bfifo_pull, with n bytes asked for.
Fetch(c, n) ==
  LET len == Least(n, Used)
      pos == out % Size
      l == Least(len, Size - pos)
  IN
  /\ got' = [j \in 1 .. len |->
       IF j <= l THEN buffer[pos + j - 1] ELSE buffer[j - l - 1]]
  /\ out' = (out + len) % Word
  /\ taken' = taken + len
  /\ cwait' = [cwait EXCEPT ![c] = Idle]
  /\ pwait' \in IF len > 0 THEN Signalled(pwait) ELSE {pwait}
  /\ UNCHANGED <<buffer, in, locked, fed>>

Pull(c) ==
  /\ ~locked
  /\ cwait[c].at \in {"idle", "counted"}
  /\ Used # 0
  /\ \E n \in Chunk : Fetch(c, n)

\* bfifo_pull or bfifo_pull_wait on an empty fifo.
PullEmpty(c) ==
  /\ ~locked
  /\ cwait[c] = Idle
  /\ Used = 0
  /\ \E n \in 0 .. MaxChunk, how \in {"forever", "timed"} :
       cwait' = [cwait EXCEPT ![c] = Waiting(n, how)]
  /\ UNCHANGED <<buffer, in, out, pwait, locked, fed, taken, got>>

PullSpurious(c) ==
  /\ IsWaiting(cwait[c])
  /\ cwait' = [cwait EXCEPT ![c].at = "woken"]
  /\ UNCHANGED <<buffer, in, out, pwait, locked, fed, taken, got>>

PullTimeout(c) ==
  /\ ~locked
  /\ cwait[c].at = "timed"
  /\ cwait' = [cwait EXCEPT ![c] = Idle]
  /\ UNCHANGED <<buffer, in, out, pwait, locked, fed, taken, got>>

PullWoken(c) ==
  /\ ~locked
  /\ cwait[c].at = "woken"
  /\ Fetch(c, cwait[c].n)

\* Count as it would be for a caller that does not look at the answer.
CountIgnored(c) ==
  /\ ~locked
  /\ cwait[c] = Idle
  /\ cwait' = [cwait EXCEPT ![c].at = "counted"]
  /\ UNCHANGED <<buffer, in, out, pwait, locked, fed, taken, got>>

\* bfifo_count, as the dm101 task calls it: to find out whether to peek.
Count(c) ==
  /\ ~locked
  /\ cwait[c] = Idle
  /\ Used # 0
  /\ cwait' = [cwait EXCEPT ![c].at = "counted"]
  /\ UNCHANGED <<buffer, in, out, pwait, locked, fed, taken, got>>

\* bfifo_peek moves nothing, and does not unlock an empty fifo.
Peek(c) ==
  /\ ~locked
  /\ cwait[c].at = "counted"
  /\ locked' = (Used = 0)
  /\ UNCHANGED <<buffer, in, out, pwait, cwait, fed, taken, got>>

\* bfifo_reset: wakes one thread on either side, then drops everything.
Reset(c) ==
  /\ ~locked
  /\ cwait[c] = Idle
  /\ in' = 0
  /\ out' = 0
  /\ taken' = fed
  /\ got' = <<>>
  /\ pwait' \in Signalled(pwait)
  /\ cwait' \in Signalled(cwait)
  /\ UNCHANGED <<buffer, locked, fed>>

ProducerStep(p) ==
  Push(p) \/ PushFull(p) \/ PushSpurious(p) \/ PushTimeout(p) \/ PushWoken(p)

ConsumerStep(c) ==
  \/ Pull(c) \/ PullEmpty(c) \/ PullSpurious(c) \/ PullTimeout(c) \/ PullWoken(c)
  \/ Count(c) \/ Peek(c) \/ Reset(c)

Next ==
  \/ \E p \in Producers : ProducerStep(p)
  \/ \E c \in Consumers : ConsumerStep(c)

Spec == Init /\ [][Next]_vars

\* The consumer of each fifo of the program is a task that reads in an endless
\* loop, and a thread that was woken gets the mutex.
Fairness ==
  /\ \A p \in Producers : WF_vars(PushWoken(p))
  /\ \A c \in Consumers : WF_vars(Pull(c))
  /\ \A c \in Consumers : WF_vars(PullWoken(c))

FairSpec == Spec /\ Fairness

-----------------------------------------------------------------------------
(* Properties *)

TypeOK ==
  /\ buffer \in [Slot -> 0 .. MaxBytes]
  /\ in \in 0 .. Word - 1
  /\ out \in 0 .. Word - 1
  /\ pwait \in [Producers -> Where]
  /\ cwait \in [Consumers -> Where]
  /\ locked \in BOOLEAN
  /\ fed \in 0 .. MaxBytes
  /\ taken \in 0 .. MaxBytes
  /\ DOMAIN got \subseteq Chunk
  /\ \A j \in DOMAIN got : got[j] \in 0 .. MaxBytes

\* The difference of the two counters is the number of bytes in the fifo, also
\* after they wrap, and never more than its size: no byte is written over.
Conserved == Used = fed - taken /\ fed - taken <= Size

\* The bytes come out as they went in: those the next bfifo_pull would copy,
\* and those the last one copied.
Intact ==
  /\ \A j \in 1 .. fed - taken : buffer[((out % Size) + j - 1) % Size] = taken + j
  /\ \A j \in DOMAIN got : got[j] = taken - Len(got) + j

\* One thread on either side, as in all the program.
OneEach == Cardinality(Producers) = 1 /\ Cardinality(Consumers) = 1

\* With one thread on either side no wakeup is lost: only a full fifo keeps the
\* producer waiting and only an empty one the consumer.
NoLostWakeup ==
  OneEach =>
    /\ \A p \in Producers : IsWaiting(pwait[p]) => Used = Size
    /\ \A c \in Consumers : IsWaiting(cwait[c]) => Used = 0

\* bfifo_peek returns with the mutex held when the fifo is empty; a consumer
\* that counts first and has the fifo to itself never gets there.
MutexReleased == Cardinality(Consumers) = 1 => ~locked
=============================================================================
