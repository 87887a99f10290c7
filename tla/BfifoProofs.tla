---------------------------- MODULE BfifoProofs ----------------------------
(***************************************************************************)
(* Theorems about Bfifo for every size of the fifo that is below the       *)
(* machine word, any number of threads and calls of any length.            *)
(***************************************************************************)
EXTENDS Bfifo, FiniteSetTheorems, TLAPS

-----------------------------------------------------------------------------
(* The counters *)

\* An unsigned int, and what the program takes for the number of bytes between
\* two counters.
Wrap(x) == x % Word
Held(i, o) == (i - o) % Word

\* The same without a remainder.
LEMMA Wrapped ==
  ASSUME NEW x \in 0 .. 2 * Word - 1
  PROVE  Wrap(x) = IF x < Word THEN x ELSE x - Word
  <1>1. Word \in Nat \ {0}
    BY SizeAssumption
  <1>2. CASE x < Word
    BY <1>1, <1>2, SMT DEF Wrap
  <1>3. CASE x >= Word
    BY <1>1, <1>3, SMT DEF Wrap
  <1> QED
    BY <1>1, <1>2, <1>3

LEMMA Difference ==
  ASSUME NEW i \in 0 .. Word - 1, NEW o \in 0 .. Word - 1
  PROVE  Held(i, o) = IF i >= o THEN i - o ELSE i - o + Word
  <1> DEFINE x == i - o
  <1>1. Word \in Nat \ {0}
    BY SizeAssumption
  <1>2. CASE i >= o
    <2>1. x \in 0 .. Word - 1
      BY <1>1, <1>2, SMT
    <2>2. x % Word = x
      BY <1>1, <2>1, SMT
    <2> QED
      BY <1>2, <2>2 DEF Held
  <1>3. CASE i < o
    <2>1. x \in -Word .. -1
      BY <1>1, <1>3, SMT
    <2>2. x % Word = x + Word
      BY <1>1, <2>1, SMT
    <2> QED
      BY <1>1, <1>3, <2>2, SMT DEF Held
  <1> QED
    BY <1>1, <1>2, <1>3, SMT

\* A push adds to that number what it stores, also when the counter wraps ...
LEMMA HeldGrows ==
  ASSUME NEW i \in 0 .. Word - 1, NEW o \in 0 .. Word - 1, NEW n \in 0 .. Size,
         Held(i, o) + n <= Size
  PROVE  /\ Wrap(i + n) \in 0 .. Word - 1
         /\ Held(Wrap(i + n), o) = Held(i, o) + n
  <1>1. Word \in Nat \ {0} /\ Size \in Nat /\ Size < Word
    BY SizeAssumption
  <1>2. Held(i, o) = IF i >= o THEN i - o ELSE i - o + Word
    BY Difference
  <1>3. PICK x \in 0 .. 2 * Word - 1 : x = i + n
    BY <1>1, SMT
  <1>4. Wrap(x) = IF x < Word THEN x ELSE x - Word
    BY Wrapped
  <1>5. Wrap(x) \in 0 .. Word - 1
    BY <1>1, <1>4, SMT
  <1>6. Held(Wrap(x), o) = IF Wrap(x) >= o THEN Wrap(x) - o ELSE Wrap(x) - o + Word
    BY <1>5, Difference
  <1>7. Held(Wrap(x), o) = Held(i, o) + n
    BY <1>1, <1>2, <1>3, <1>4, <1>5, <1>6, SMT
  <1>8. Wrap(i + n) = Wrap(x)
    BY <1>3
  <1> QED
    BY <1>5, <1>7, <1>8

\* ... and a pull takes from it what it copies.
LEMMA HeldShrinks ==
  ASSUME NEW i \in 0 .. Word - 1, NEW o \in 0 .. Word - 1, NEW n \in 0 .. Size,
         n <= Held(i, o)
  PROVE  /\ Wrap(o + n) \in 0 .. Word - 1
         /\ Held(i, Wrap(o + n)) = Held(i, o) - n
  <1>1. Word \in Nat \ {0} /\ Size \in Nat /\ Size < Word
    BY SizeAssumption
  <1>2. Held(i, o) = IF i >= o THEN i - o ELSE i - o + Word
    BY Difference
  <1>3. PICK x \in 0 .. 2 * Word - 1 : x = o + n
    BY <1>1, SMT
  <1>4. Wrap(x) = IF x < Word THEN x ELSE x - Word
    BY Wrapped
  <1>5. Wrap(x) \in 0 .. Word - 1
    BY <1>1, <1>4, SMT
  <1>6. Held(i, Wrap(x)) = IF i >= Wrap(x) THEN i - Wrap(x) ELSE i - Wrap(x) + Word
    BY <1>5, Difference
  <1>7. Held(i, Wrap(x)) = Held(i, o) - n
    BY <1>1, <1>2, <1>3, <1>4, <1>5, <1>6, SMT
  <1>8. Wrap(o + n) = Wrap(x)
    BY <1>3
  <1> QED
    BY <1>5, <1>7, <1>8

\* The room is what the bytes leave, however the code computes it.
LEMMA RoomValue ==
  ASSUME NEW i \in 0 .. Word - 1, NEW o \in 0 .. Word - 1, Held(i, o) <= Size
  PROVE  /\ Held(i, o) \in 0 .. Size
         /\ Wrap(Size - i + o) = Size - Held(i, o)
  <1>1. Word \in Nat \ {0} /\ Size \in Nat /\ Size < Word
    BY SizeAssumption
  <1>2. Held(i, o) = IF i >= o THEN i - o ELSE i - o + Word
    BY Difference
  <1> DEFINE x == Size - i + o
  <1>3. x \in 0 .. 2 * Word - 1
    BY <1>1, <1>2, SMT
  <1> HIDE DEF x
  <1>4. Wrap(x) = IF x < Word THEN x ELSE x - Word
    BY <1>3, Wrapped
  <1> QED
    BY <1>1, <1>2, <1>4, SMT DEF x

-----------------------------------------------------------------------------
(* Signals *)

\* A signal changes nothing but the state of one thread that waits; if there
\* is but one thread it does not wait any more.
LEMMA SignalValue ==
  ASSUME NEW S, NEW wait \in [S -> Where], NEW w \in Signalled(wait)
  PROVE  /\ w \in [S -> Where]
         /\ \A t \in S : w[t] = wait[t] \/ w[t].at = "woken"
         /\ \A t \in S : S = {t} => ~IsWaiting(w[t])
  <1> DEFINE W == {t \in S : IsWaiting(wait[t])}
  <1>1. CASE W = {}
    BY <1>1 DEF Signalled
  <1>2. CASE W # {}
    <2>1. PICK t \in W : w = [wait EXCEPT ![t].at = "woken"]
      BY <1>2 DEF Signalled
    <2>2. [wait[t] EXCEPT !.at = "woken"] \in Where
      BY <2>1 DEF Where
    <2>3. w = [wait EXCEPT ![t] = [wait[t] EXCEPT !.at = "woken"]]
      BY <2>1
    <2>4. w[t].at = "woken" /\ \A u \in S \ {t} : w[u] = wait[u]
      BY <2>1, <2>2, <2>3 DEF Where
    <2> QED
      BY <2>1, <2>2, <2>3, <2>4 DEF IsWaiting
  <1> QED
    BY <1>1, <1>2

LEMMA IdleIsPlace == Idle \in Where /\ ~IsWaiting(Idle)
  BY BoundAssumption DEF Idle, Where, IsWaiting

-----------------------------------------------------------------------------
(* Types and counters *)

FifoInv == TypeOK /\ Conserved

LEMMA FifoInit == Init => FifoInv
  <1> SUFFICES ASSUME Init
               PROVE  FifoInv
    OBVIOUS
  <1>1. Word \in Nat \ {0} /\ Size \in Nat \ {0} /\ MaxBytes \in Nat
    BY SizeAssumption, BoundAssumption
  <1>2. 0 \in 0 .. Word - 1 /\ 0 \in 0 .. MaxBytes
    BY <1>1, SMT
  <1>3. Used = 0
    BY <1>2, Difference DEF Init, Used, Held
  <1>4. DOMAIN got = {}
    BY DEF Init
  <1>5. TypeOK
    BY <1>2, <1>4, IdleIsPlace DEF Init, TypeOK, Blank
  <1>6. Conserved
    BY <1>1, <1>3 DEF Init, Conserved
  <1> QED
    BY <1>5, <1>6 DEF FifoInv

\* What the other actions rely on.
LEMMA FifoFacts ==
  ASSUME FifoInv
  PROVE  /\ Used \in 0 .. Size /\ Used = fed - taken /\ Used = Held(in, out)
         /\ Room = Size - Used
         /\ in \in 0 .. Word - 1 /\ out \in 0 .. Word - 1
         /\ fed \in 0 .. MaxBytes /\ taken \in 0 .. MaxBytes
         /\ Size \in Nat \ {0} /\ Word \in Nat \ {0} /\ Size < Word /\ MaxBytes \in Nat
  <1>1. /\ in \in 0 .. Word - 1 /\ out \in 0 .. Word - 1
        /\ fed \in 0 .. MaxBytes /\ taken \in 0 .. MaxBytes
        /\ Used = fed - taken /\ fed - taken <= Size
    BY DEF FifoInv, TypeOK, Conserved
  <1>2. Used = Held(in, out)
    BY DEF Used, Held
  <1>3. Size \in Nat \ {0} /\ Word \in Nat \ {0} /\ Size < Word /\ MaxBytes \in Nat
    BY SizeAssumption, BoundAssumption
  <1>4. Used \in 0 .. Size /\ Wrap(Size - in + out) = Size - Held(in, out)
    BY <1>1, <1>2, RoomValue
  <1>5. Room = Size - Used
    BY <1>2, <1>4 DEF Room, Wrap
  <1> QED
    BY <1>1, <1>2, <1>3, <1>4, <1>5

\* bfifo_push, from the length it can store to the signal.
LEMMA StoreStep ==
  ASSUME FifoInv, NEW p \in Producers, NEW n \in 0 .. MaxChunk, Store(p, n)
  PROVE  /\ FifoInv'
         /\ Used' = Used + Least(n, Size - Used)
         /\ pwait' = [pwait EXCEPT ![p] = Idle]
         /\ cwait' \in IF Least(n, Size - Used) > 0 THEN Signalled(cwait) ELSE {cwait}
         /\ UNCHANGED locked
  <1> DEFINE len == Least(n, Size - Used)
             pos == in % Size
             l == Least(len, Size - pos)
  <1>1. /\ Used \in 0 .. Size /\ Used = fed - taken /\ Used = Held(in, out)
        /\ Room = Size - Used
        /\ in \in 0 .. Word - 1 /\ out \in 0 .. Word - 1
        /\ fed \in 0 .. MaxBytes /\ taken \in 0 .. MaxBytes
        /\ Size \in Nat \ {0} /\ Word \in Nat \ {0} /\ Size < Word /\ MaxBytes \in Nat
    BY FifoFacts
  <1>2. /\ fed + len <= MaxBytes
        /\ buffer' = [i \in Slot |->
             IF i \in pos .. pos + l - 1 THEN fed + i - pos + 1
             ELSE IF i < len - l THEN fed + l + i + 1
             ELSE buffer[i]]
        /\ in' = (in + len) % Word
        /\ fed' = fed + len
        /\ pwait' = [pwait EXCEPT ![p] = Idle]
        /\ cwait' \in IF len > 0 THEN Signalled(cwait) ELSE {cwait}
        /\ UNCHANGED <<out, locked, taken, got>>
    BY <1>1 DEF Store
  <1>3. len \in 0 .. Size /\ Used + len <= Size /\ n \in Nat
    BY <1>1, BoundAssumption, SMT DEF Least
  <1>4. pos \in 0 .. Size - 1
    BY <1>1, SMT
  <1> HIDE DEF len, pos
  <1>5. l \in 0 .. len
    BY <1>1, <1>3, <1>4, SMT DEF Least
  <1> HIDE DEF l
  <1>6. in' \in 0 .. Word - 1 /\ Held(in', out) = Held(in, out) + len
    <2>1. in' = Wrap(in + len)
      BY <1>2 DEF Wrap
    <2>2. Held(in, out) + len <= Size
      BY <1>1, <1>3
    <2> QED
      BY <1>1, <1>3, <2>1, <2>2, HeldGrows
  <1>7. Used' = Used + len
    BY <1>1, <1>2, <1>6 DEF Used, Held
  <1>8. buffer' \in [Slot -> 0 .. MaxBytes]
    <2>1. ASSUME NEW i \in Slot
          PROVE  buffer'[i] \in 0 .. MaxBytes
      <3>1. buffer[i] \in 0 .. MaxBytes /\ i \in Nat
        BY <2>1, <1>1 DEF FifoInv, TypeOK, Slot
      <3>2. CASE i \in pos .. pos + l - 1
        <4>1. fed + i - pos + 1 \in 0 .. MaxBytes
          BY <1>1, <1>2, <1>3, <1>4, <1>5, <3>1, <3>2, SMT
        <4> QED
          BY <1>2, <3>2, <4>1
      <3>3. CASE i \notin pos .. pos + l - 1 /\ i < len - l
        <4>1. fed + l + i + 1 \in 0 .. MaxBytes
          BY <1>1, <1>2, <1>3, <1>5, <3>1, <3>3, SMT
        <4> QED
          BY <1>2, <3>3, <4>1
      <3>4. CASE i \notin pos .. pos + l - 1 /\ ~(i < len - l)
        BY <1>2, <3>1, <3>4
      <3> QED
        BY <3>2, <3>3, <3>4
    <2> QED
      BY <1>2, <2>1
  <1>9. fed' \in 0 .. MaxBytes /\ fed' - taken' <= Size /\ Used' = fed' - taken'
    BY <1>1, <1>2, <1>3, <1>7, SMT
  <1>10. pwait' \in [Producers -> Where] /\ cwait' \in [Consumers -> Where]
    BY <1>2, IdleIsPlace, SignalValue DEF FifoInv, TypeOK
  <1>11. FifoInv'
    BY <1>1, <1>2, <1>6, <1>8, <1>9, <1>10 DEF FifoInv, TypeOK, Conserved
  <1> QED
    BY <1>2, <1>7, <1>11 DEF len

\* bfifo_pull, from the length there is to the signal.
LEMMA FetchStep ==
  ASSUME FifoInv, NEW c \in Consumers, NEW n \in 0 .. MaxChunk, Fetch(c, n)
  PROVE  /\ FifoInv'
         /\ Used' = Used - Least(n, Used)
         /\ cwait' = [cwait EXCEPT ![c] = Idle]
         /\ pwait' \in IF Least(n, Used) > 0 THEN Signalled(pwait) ELSE {pwait}
         /\ UNCHANGED locked
  <1> DEFINE len == Least(n, Used)
             pos == out % Size
             l == Least(len, Size - pos)
  <1>1. /\ Used \in 0 .. Size /\ Used = fed - taken /\ Used = Held(in, out)
        /\ in \in 0 .. Word - 1 /\ out \in 0 .. Word - 1
        /\ fed \in 0 .. MaxBytes /\ taken \in 0 .. MaxBytes
        /\ Size \in Nat \ {0} /\ Word \in Nat \ {0} /\ Size < Word /\ MaxBytes \in Nat
    BY FifoFacts
  <1>2. /\ got' = [j \in 1 .. len |->
             IF j <= l THEN buffer[pos + j - 1] ELSE buffer[j - l - 1]]
        /\ out' = (out + len) % Word
        /\ taken' = taken + len
        /\ cwait' = [cwait EXCEPT ![c] = Idle]
        /\ pwait' \in IF len > 0 THEN Signalled(pwait) ELSE {pwait}
        /\ UNCHANGED <<buffer, in, locked, fed>>
    BY DEF Fetch
  <1>3. len \in 0 .. Size /\ len <= Used /\ len <= n /\ n \in 0 .. MaxChunk
    BY <1>1, BoundAssumption, SMT DEF Least
  <1>4. pos \in 0 .. Size - 1
    BY <1>1, SMT
  <1> HIDE DEF len, pos
  <1>5. l \in 0 .. len /\ pos + l <= Size /\ len - l <= Size
    BY <1>1, <1>3, <1>4, SMT DEF Least
  <1> HIDE DEF l
  <1>6. out' \in 0 .. Word - 1 /\ Held(in, out') = Held(in, out) - len
    <2>1. out' = Wrap(out + len)
      BY <1>2 DEF Wrap
    <2>2. len <= Held(in, out)
      BY <1>1, <1>3
    <2> QED
      BY <1>1, <1>3, <2>1, <2>2, HeldShrinks
  <1>7. Used' = Used - len
    BY <1>1, <1>2, <1>6 DEF Used, Held
  <1>8. DOMAIN got' \subseteq Chunk /\ \A j \in DOMAIN got' : got'[j] \in 0 .. MaxBytes
    <2>1. DOMAIN got' = 1 .. len
      BY <1>2
    <2>2. 1 .. len \subseteq Chunk
      BY <1>3, BoundAssumption, SMT DEF Chunk
    <2>3. ASSUME NEW j \in 1 .. len
          PROVE  got'[j] \in 0 .. MaxBytes
      <3>1. j <= l => pos + j - 1 \in Slot
        BY <1>1, <1>3, <1>4, <1>5, SMT DEF Slot
      <3>2. ~(j <= l) => j - l - 1 \in Slot
        BY <1>1, <1>3, <1>5, SMT DEF Slot
      <3> QED
        BY <1>2, <3>1, <3>2 DEF FifoInv, TypeOK
    <2> QED
      BY <2>1, <2>2, <2>3
  <1>9. taken' \in 0 .. MaxBytes /\ fed' - taken' <= Size /\ Used' = fed' - taken'
    BY <1>1, <1>2, <1>3, <1>7, SMT
  <1>10. pwait' \in [Producers -> Where] /\ cwait' \in [Consumers -> Where]
    BY <1>2, IdleIsPlace, SignalValue DEF FifoInv, TypeOK
  <1>11. FifoInv'
    BY <1>1, <1>2, <1>6, <1>8, <1>9, <1>10 DEF FifoInv, TypeOK, Conserved
  <1> QED
    BY <1>2, <1>7, <1>11 DEF len

\* bfifo_reset.
LEMMA ResetStep ==
  ASSUME FifoInv, NEW c \in Consumers, Reset(c)
  PROVE  FifoInv' /\ Used' = 0
  <1>1. /\ fed \in 0 .. MaxBytes /\ Size \in Nat \ {0} /\ Word \in Nat \ {0}
    BY FifoFacts
  <1>2. /\ in' = 0 /\ out' = 0 /\ taken' = fed /\ fed' = fed /\ got' = <<>>
        /\ pwait' \in Signalled(pwait) /\ cwait' \in Signalled(cwait)
        /\ UNCHANGED <<buffer, locked>>
    BY DEF Reset
  <1>3. 0 \in 0 .. Word - 1
    BY <1>1, SMT
  <1>4. Used' = 0
    BY <1>2, <1>3, Difference DEF Used, Held
  <1>5. pwait' \in [Producers -> Where] /\ cwait' \in [Consumers -> Where]
    BY <1>2, SignalValue DEF FifoInv, TypeOK
  <1>6. DOMAIN got' = {}
    BY <1>2
  <1>7. TypeOK'
    BY <1>1, <1>2, <1>3, <1>5, <1>6 DEF FifoInv, TypeOK
  <1>8. Conserved'
    BY <1>1, <1>2, <1>4 DEF Conserved
  <1> QED
    BY <1>4, <1>7, <1>8 DEF FifoInv

\* Steps that move no byte.
Still == UNCHANGED <<buffer, in, out, fed, taken, got>>

LEMMA StillStep ==
  ASSUME FifoInv, Still, pwait' \in [Producers -> Where], cwait' \in [Consumers -> Where],
         locked' \in BOOLEAN
  PROVE  FifoInv' /\ Used' = Used
  BY DEF FifoInv, TypeOK, Conserved, Still, Used

LEMMA WaitIsPlace ==
  ASSUME NEW n \in 0 .. MaxChunk, NEW how \in {"forever", "timed"}
  PROVE  Waiting(n, how) \in Where /\ IsWaiting(Waiting(n, how))
  BY DEF Waiting, Where, IsWaiting

\* The producer's steps, by what they do.
LEMMA ProducerCases ==
  ASSUME FifoInv, NEW p \in Producers, ProducerStep(p)
  PROVE  \/ /\ ~locked
            /\ \E n \in 0 .. MaxChunk :
                 Store(p, n) /\ (n = 0 => pwait[p].at = "woken")
         \/ /\ Still /\ UNCHANGED <<locked, cwait>>
            /\ \E w \in Where :
                 pwait' = [pwait EXCEPT ![p] = w] /\ (IsWaiting(w) => Used = Size)
  <1>1. pwait[p] \in Where
    BY DEF FifoInv, TypeOK
  <1>2. CASE Push(p)
    <2>1. PICK n \in Chunk : Store(p, n)
      BY <1>2 DEF Push
    <2>2. n \in 0 .. MaxChunk /\ n # 0
      BY BoundAssumption, SMT DEF Chunk
    <2> QED
      BY <1>2, <2>1, <2>2 DEF Push
  <1>3. CASE PushFull(p)
    BY <1>3, WaitIsPlace DEF PushFull, Still
  <1>4. CASE PushSpurious(p)
    <2> DEFINE w == [pwait[p] EXCEPT !.at = "woken"]
    <2>1. w \in Where /\ ~IsWaiting(w) /\ pwait' = [pwait EXCEPT ![p] = w]
      BY <1>1, <1>4 DEF PushSpurious, Where, IsWaiting
    <2> QED
      BY <1>4, <2>1 DEF PushSpurious, Still
  <1>5. CASE PushTimeout(p)
    BY <1>5, IdleIsPlace DEF PushTimeout, Still
  <1>6. CASE PushWoken(p)
    <2>1. pwait[p].n \in 0 .. MaxChunk
      BY <1>1 DEF Where
    <2> QED
      BY <1>6, <2>1 DEF PushWoken
  <1> QED
    BY <1>2, <1>3, <1>4, <1>5, <1>6 DEF ProducerStep

\* The consumer's.
LEMMA ConsumerCases ==
  ASSUME FifoInv, NEW c \in Consumers, ConsumerStep(c)
  PROVE  \/ ~locked /\ \E n \in 0 .. MaxChunk : Fetch(c, n)
         \/ /\ Still /\ UNCHANGED <<locked, pwait>>
            /\ \E w \in Where :
                 /\ cwait' = [cwait EXCEPT ![c] = w]
                 /\ IsWaiting(w) => Used = 0
                 /\ w.at = "counted" => Used # 0
         \/ Reset(c)
         \/ /\ Still /\ UNCHANGED <<pwait, cwait>>
            /\ cwait[c].at = "counted" /\ locked' = (Used = 0)
  <1>1. cwait[c] \in Where
    BY DEF FifoInv, TypeOK
  <1>2. CASE Pull(c)
    <2>1. PICK n \in Chunk : Fetch(c, n)
      BY <1>2 DEF Pull
    <2>2. n \in 0 .. MaxChunk
      BY BoundAssumption, SMT DEF Chunk
    <2> QED
      BY <1>2, <2>1, <2>2 DEF Pull
  <1>3. CASE PullEmpty(c)
    <2>1. PICK n \in 0 .. MaxChunk, how \in {"forever", "timed"} :
            cwait' = [cwait EXCEPT ![c] = Waiting(n, how)]
      BY <1>3 DEF PullEmpty
    <2>2. Waiting(n, how) \in Where /\ Waiting(n, how).at # "counted"
      BY WaitIsPlace DEF Waiting
    <2> QED
      BY <1>3, <2>1, <2>2 DEF PullEmpty, Still
  <1>4. CASE PullSpurious(c)
    <2> DEFINE w == [cwait[c] EXCEPT !.at = "woken"]
    <2>1. /\ w \in Where /\ ~IsWaiting(w) /\ w.at # "counted"
          /\ cwait' = [cwait EXCEPT ![c] = w]
      BY <1>1, <1>4 DEF PullSpurious, Where, IsWaiting
    <2> QED
      BY <1>4, <2>1 DEF PullSpurious, Still
  <1>5. CASE PullTimeout(c)
    <2>1. Idle.at # "counted"
      BY DEF Idle
    <2> QED
      BY <1>5, <2>1, IdleIsPlace DEF PullTimeout, Still
  <1>6. CASE PullWoken(c)
    <2>1. cwait[c].n \in 0 .. MaxChunk
      BY <1>1 DEF Where
    <2> QED
      BY <1>6, <2>1 DEF PullWoken
  <1>7. CASE Count(c)
    <2> DEFINE w == [cwait[c] EXCEPT !.at = "counted"]
    <2>1. w \in Where /\ ~IsWaiting(w) /\ cwait' = [cwait EXCEPT ![c] = w]
      BY <1>1, <1>7 DEF Count, Where, IsWaiting
    <2> QED
      BY <1>7, <2>1 DEF Count, Still
  <1>8. CASE Peek(c)
    BY <1>8 DEF Peek, Still
  <1> QED
    BY <1>2, <1>3, <1>4, <1>5, <1>6, <1>7, <1>8 DEF ConsumerStep

LEMMA FifoStep == FifoInv /\ [Next]_vars => FifoInv'
  <1> SUFFICES ASSUME FifoInv, [Next]_vars
               PROVE  FifoInv'
    OBVIOUS
  <1>1. ASSUME NEW p \in Producers, ProducerStep(p)
        PROVE  FifoInv'
    <2>1. CASE \E n \in 0 .. MaxChunk : Store(p, n)
      BY <2>1, StoreStep
    <2>2. CASE Still /\ UNCHANGED <<locked, cwait>> /\ \E w \in Where : pwait' = [pwait EXCEPT ![p] = w]
      BY <2>2, StillStep DEF FifoInv, TypeOK
    <2> QED
      BY <1>1, <2>1, <2>2, ProducerCases
  <1>2. ASSUME NEW c \in Consumers, ConsumerStep(c)
        PROVE  FifoInv'
    <2>1. CASE \E n \in 0 .. MaxChunk : Fetch(c, n)
      BY <2>1, FetchStep
    <2>2. CASE Still /\ UNCHANGED <<locked, pwait>> /\ \E w \in Where : cwait' = [cwait EXCEPT ![c] = w]
      BY <2>2, StillStep DEF FifoInv, TypeOK
    <2>3. CASE Still /\ UNCHANGED <<pwait, cwait>> /\ locked' = (Used = 0)
      BY <2>3, StillStep DEF FifoInv, TypeOK
    <2> QED
      BY <1>2, <2>1, <2>2, <2>3, ConsumerCases, ResetStep
  <1>3. CASE UNCHANGED vars
    BY <1>3, StillStep DEF vars, Still, FifoInv, TypeOK
  <1> QED
    BY <1>1, <1>2, <1>3 DEF Next

LEMMA FifoInvariant == Spec => []FifoInv
  <1> QED
    BY FifoInit, FifoStep, PTL DEF Spec

-----------------------------------------------------------------------------
(* The results *)

\* Everything in bfifo.c stays in range: no copy leaves the buffer.
THEOREM TypeCorrect == Spec => []TypeOK
  <1>1. FifoInv => TypeOK
    BY DEF FifoInv
  <1> QED
    BY <1>1, FifoInvariant, PTL

\* The difference of the counters is the number of bytes in the fifo, for
\* every size below the word, also across their wrap.
THEOREM AlwaysConserved == Spec => []Conserved
  <1>1. FifoInv => Conserved
    BY DEF FifoInv
  <1> QED
    BY <1>1, FifoInvariant, PTL

\* The only thread on a side.
LEMMA TheOnly ==
  ASSUME NEW S, IsFiniteSet(S), Cardinality(S) = 1, NEW t \in S
  PROVE  S = {t}
  <1>1. PICK x : S = {x}
    BY FS_Singleton
  <1> QED
    BY <1>1

LEMMA LeastIsPositive ==
  ASSUME NEW n \in Nat, NEW m \in Nat
  PROVE  Least(n, m) \in Nat /\ Least(n, m) <= m /\ (Least(n, m) = 0 <=> n = 0 \/ m = 0)
  BY SMT DEF Least

\* A consumer that has counted bytes finds them when it peeks.
CountInv ==
  Cardinality(Consumers) = 1 =>
    ~locked /\ \A c \in Consumers : cwait[c].at = "counted" => Used # 0

LEMMA CountStep == FifoInv /\ CountInv /\ [Next]_vars => CountInv'
  <1> SUFFICES ASSUME FifoInv, CountInv, [Next]_vars, Cardinality(Consumers) = 1
               PROVE  ~locked' /\ \A c \in Consumers : cwait'[c].at = "counted" => Used' # 0
    BY DEF CountInv
  <1>1. ~locked /\ \A c \in Consumers : cwait[c].at = "counted" => Used # 0
    BY DEF CountInv
  <1>2. cwait \in [Consumers -> Where] /\ Used \in 0 .. Size /\ Size \in Nat
    BY FifoFacts DEF FifoInv, TypeOK
  <1>3. CASE UNCHANGED vars
    BY <1>1, <1>3 DEF vars, Used
  <1>4. ASSUME NEW p \in Producers, ProducerStep(p)
        PROVE  ~locked' /\ \A c \in Consumers : cwait'[c].at = "counted" => Used' # 0
    <2>1. CASE \E n \in 0 .. MaxChunk : Store(p, n)
      <3>1. PICK n \in 0 .. MaxChunk : Store(p, n)
        BY <2>1
      <3> DEFINE len == Least(n, Size - Used)
      <3>2. len \in Nat
        BY <1>2, BoundAssumption, LeastIsPositive
      <3>3. /\ Used' = Used + len /\ UNCHANGED locked
            /\ cwait' \in IF len > 0 THEN Signalled(cwait) ELSE {cwait}
        BY <3>1, StoreStep
      <3> HIDE DEF len
      <3>4. \A c \in Consumers : cwait'[c] = cwait[c] \/ cwait'[c].at = "woken"
        BY <1>2, <3>3, SignalValue
      <3>5. Used # 0 => Used' # 0
        BY <1>2, <3>2, <3>3
      <3> QED
        BY <1>1, <3>3, <3>4, <3>5
    <2>2. CASE Still /\ UNCHANGED <<locked, cwait>>
      BY <1>1, <2>2 DEF Still, Used
    <2> QED
      BY <1>4, <2>1, <2>2, ProducerCases
  <1>5. ASSUME NEW c \in Consumers, ConsumerStep(c)
        PROVE  ~locked' /\ \A d \in Consumers : cwait'[d].at = "counted" => Used' # 0
    <2>1. Consumers = {c}
      BY ThreadsAssumption, TheOnly
    <2>2. CASE \E n \in 0 .. MaxChunk : Fetch(c, n)
      <3>1. cwait' = [cwait EXCEPT ![c] = Idle] /\ UNCHANGED locked
        BY <2>2, FetchStep
      <3>2. cwait'[c].at # "counted"
        BY <1>2, <3>1 DEF Idle
      <3> QED
        BY <1>1, <2>1, <3>1, <3>2
    <2>3. CASE /\ Still /\ UNCHANGED locked
               /\ \E w \in Where :
                    cwait' = [cwait EXCEPT ![c] = w] /\ (w.at = "counted" => Used # 0)
      BY <1>1, <1>2, <2>1, <2>3 DEF Still, Used
    <2>4. CASE Reset(c)
      <3>1. /\ cwait[c] = Idle /\ cwait' \in Signalled(cwait) /\ UNCHANGED locked
        BY <2>4 DEF Reset
      <3>2. cwait'[c].at # "counted"
        BY <1>2, <3>1, SignalValue DEF Idle
      <3> QED
        BY <1>1, <2>1, <3>1, <3>2
    <2>5. CASE /\ Still /\ UNCHANGED cwait
               /\ cwait[c].at = "counted" /\ locked' = (Used = 0)
      BY <1>1, <2>5 DEF Still, Used
    <2> QED
      BY <1>5, <2>2, <2>3, <2>4, <2>5, ConsumerCases
  <1> QED
    BY <1>3, <1>4, <1>5 DEF Next

\* bfifo_peek never keeps the mutex of a fifo with one consumer that counts
\* before it peeks.
THEOREM MutexAlwaysReleased == Spec => []MutexReleased
  <1>1. Init => CountInv
    BY DEF Init, CountInv, Idle
  <1>2. CountInv => MutexReleased
    BY DEF CountInv, MutexReleased
  <1> QED
    BY <1>1, <1>2, CountStep, FifoInvariant, PTL DEF Spec

LEMMA WakeStep == FifoInv /\ NoLostWakeup /\ [Next]_vars => NoLostWakeup'
  <1> SUFFICES ASSUME FifoInv, NoLostWakeup, [Next]_vars, OneEach
               PROVE  /\ \A p \in Producers : IsWaiting(pwait'[p]) => Used' = Size
                      /\ \A c \in Consumers : IsWaiting(cwait'[c]) => Used' = 0
    BY DEF NoLostWakeup, OneEach, IsWaiting
  <1>1. /\ \A p \in Producers : IsWaiting(pwait[p]) => Used = Size
        /\ \A c \in Consumers : IsWaiting(cwait[c]) => Used = 0
    BY DEF NoLostWakeup
  <1>2. /\ pwait \in [Producers -> Where] /\ cwait \in [Consumers -> Where]
        /\ Used \in 0 .. Size /\ Size \in Nat \ {0}
    BY FifoFacts DEF FifoInv, TypeOK
  <1>3. /\ \A p \in Producers : Producers = {p}
        /\ \A c \in Consumers : Consumers = {c}
    BY ThreadsAssumption, TheOnly DEF OneEach
  <1>4. CASE UNCHANGED vars
    BY <1>1, <1>4 DEF vars, Used
  <1>5. ASSUME NEW p \in Producers, ProducerStep(p)
        PROVE  /\ \A q \in Producers : IsWaiting(pwait'[q]) => Used' = Size
               /\ \A c \in Consumers : IsWaiting(cwait'[c]) => Used' = 0
    <2>1. CASE \E n \in 0 .. MaxChunk : Store(p, n)
      <3>1. PICK n \in 0 .. MaxChunk : Store(p, n)
        BY <2>1
      <3> DEFINE len == Least(n, Size - Used)
      <3>2. len \in Nat
        BY <1>2, BoundAssumption, LeastIsPositive
      <3>3. /\ Used' = Used + len
            /\ pwait' = [pwait EXCEPT ![p] = Idle]
            /\ cwait' \in IF len > 0 THEN Signalled(cwait) ELSE {cwait}
        BY <3>1, StoreStep
      <3> HIDE DEF len
      <3>4. ~IsWaiting(pwait'[p])
        BY <1>2, <3>3, IdleIsPlace
      <3>5. CASE len = 0
        BY <1>1, <1>2, <1>3, <3>3, <3>4, <3>5
      <3>6. CASE len > 0
        <4>1. \A c \in Consumers : ~IsWaiting(cwait'[c])
          BY <1>2, <1>3, <3>3, <3>6, SignalValue
        <4> QED
          BY <1>3, <3>4, <4>1
      <3> QED
        BY <3>2, <3>5, <3>6
    <2>2. CASE /\ Still /\ UNCHANGED <<locked, cwait>>
               /\ \E w \in Where :
                    pwait' = [pwait EXCEPT ![p] = w] /\ (IsWaiting(w) => Used = Size)
      BY <1>1, <1>2, <1>3, <2>2 DEF Still, Used
    <2> QED
      BY <1>5, <2>1, <2>2, ProducerCases
  <1>6. ASSUME NEW c \in Consumers, ConsumerStep(c)
        PROVE  /\ \A p \in Producers : IsWaiting(pwait'[p]) => Used' = Size
               /\ \A d \in Consumers : IsWaiting(cwait'[d]) => Used' = 0
    <2>1. CASE \E n \in 0 .. MaxChunk : Fetch(c, n)
      <3>1. PICK n \in 0 .. MaxChunk : Fetch(c, n)
        BY <2>1
      <3> DEFINE len == Least(n, Used)
      <3>2. len \in Nat
        BY <1>2, BoundAssumption, LeastIsPositive
      <3>3. /\ Used' = Used - len
            /\ cwait' = [cwait EXCEPT ![c] = Idle]
            /\ pwait' \in IF len > 0 THEN Signalled(pwait) ELSE {pwait}
        BY <3>1, FetchStep
      <3> HIDE DEF len
      <3>4. ~IsWaiting(cwait'[c])
        BY <1>2, <3>3, IdleIsPlace
      <3>5. CASE len = 0
        BY <1>1, <1>2, <1>3, <3>3, <3>4, <3>5
      <3>6. CASE len > 0
        <4>1. \A p \in Producers : ~IsWaiting(pwait'[p])
          BY <1>2, <1>3, <3>3, <3>6, SignalValue
        <4> QED
          BY <1>3, <3>4, <4>1
      <3> QED
        BY <3>2, <3>5, <3>6
    <2>2. CASE /\ Still /\ UNCHANGED pwait
               /\ \E w \in Where : cwait' = [cwait EXCEPT ![c] = w] /\ (IsWaiting(w) => Used = 0)
      BY <1>1, <1>2, <1>3, <2>2 DEF Still, Used
    <2>3. CASE Reset(c)
      <3>1. /\ \A p \in Producers : ~IsWaiting(pwait'[p])
            /\ \A d \in Consumers : ~IsWaiting(cwait'[d])
        BY <1>2, <1>3, <2>3, SignalValue DEF Reset
      <3> QED
        BY <3>1
    <2>4. CASE Still /\ UNCHANGED <<pwait, cwait>>
      BY <1>1, <2>4 DEF Still, Used
    <2> QED
      BY <1>6, <2>1, <2>2, <2>3, <2>4, ConsumerCases
  <1> QED
    BY <1>4, <1>5, <1>6 DEF Next

\* With one thread on either side, only a full fifo keeps the producer waiting
\* and only an empty one the consumer.
THEOREM NeverLostWakeup == Spec => []NoLostWakeup
  <1>1. Init => NoLostWakeup
    BY IdleIsPlace DEF Init, NoLostWakeup
  <1> QED
    BY <1>1, WakeStep, FifoInvariant, PTL DEF Spec

-----------------------------------------------------------------------------
(* The slots, when the size of the fifo divides the machine word            *)

\* A remainder is known by its quotient.
LEMMA ModUnique ==
  ASSUME NEW n \in Nat \ {0}, NEW x \in Int, NEW k \in Int, NEW r \in 0 .. n - 1, x = k * n + r
  PROVE  x % n = r
  <1> DEFINE d == x \div n
             m == x % n
  <1>1. d \in Int /\ m \in 0 .. n - 1 /\ x = n * d + m
    BY SMT
  <1> HIDE DEF d, m
  <1>2. d - k >= 1 => n * (d - k) >= n
    BY <1>1, SMT
  <1>3. d - k <= -1 => n * (d - k) <= -n
    BY <1>1, SMT
  <1>4. n * (d - k) = r - m
    BY <1>1, SMT
  <1>5. d = k
    BY <1>1, <1>2, <1>3, <1>4, SMT
  <1>6. m = r
    BY <1>1, <1>5, SMT
  <1> QED
    BY <1>6 DEF m

\* Whole turns do not count.
LEMMA ModShift ==
  ASSUME NEW n \in Nat \ {0}, NEW x \in Int, NEW k \in Int
  PROVE  (x + k * n) % n = x % n
  <1> DEFINE d == x \div n
             m == x % n
  <1>1. d \in Int /\ m \in 0 .. n - 1 /\ x = n * d + m
    BY SMT
  <1> HIDE DEF d, m
  <1>2. x + k * n = (d + k) * n + m /\ x + k * n \in Int /\ d + k \in Int
    BY <1>1, SMT
  <1>3. (x + k * n) % n = m
    BY <1>1, <1>2, ModUnique
  <1> QED
    BY <1>3 DEF m

LEMMA ModInside ==
  ASSUME NEW n \in Nat \ {0}, NEW x \in Int, NEW y \in Int
  PROVE  ((x % n) + y) % n = (x + y) % n
  <1> DEFINE d == x \div n
             m == x % n
  <1>1. d \in Int /\ m \in Int /\ x = n * d + m
    BY SMT
  <1> HIDE DEF d, m
  <1>2. x + y = (m + y) + d * n /\ m + y \in Int
    BY <1>1, SMT
  <1>3. (x + y) % n = (m + y) % n
    BY <1>1, <1>2, ModShift
  <1> QED
    BY <1>3 DEF m

\* The slot some bytes on from another.
LEMMA Turn ==
  ASSUME NEW q \in 0 .. Size - 1, NEW j \in 0 .. Size
  PROVE  (q + j) % Size = IF q + j < Size THEN q + j ELSE q + j - Size
  <1>1. Size \in Nat \ {0}
    BY SizeAssumption
  <1>2. CASE q + j < Size
    BY <1>1, <1>2, SMT
  <1>3. CASE ~(q + j < Size)
    <2>1. q + j - Size \in 0 .. Size - 1 /\ q + j = 1 * Size + (q + j - Size) /\ q + j \in Int
      BY <1>1, <1>3, SMT
    <2>2. (q + j) % Size = q + j - Size
      BY <1>1, <2>1, ModUnique
    <2> QED
      BY <1>3, <2>2
  <1> QED
    BY <1>2, <1>3

\* The sizes in use, 4096 and its like, divide the word; that of the packet
\* monitor, 102400, does not.
Divides == Word % Size = 0

\* A counter that wraps stays at its slot.
LEMMA WrapKeepsSlot ==
  ASSUME Divides, NEW x \in 0 .. 2 * Word - 1
  PROVE  Wrap(x) % Size = x % Size
  <1>1. Size \in Nat \ {0} /\ Word \in Nat
    BY SizeAssumption
  <1>2. Wrap(x) = IF x < Word THEN x ELSE x - Word
    BY Wrapped
  <1> DEFINE k == Word \div Size
  <1>3. k \in Int /\ Word = Size * k
    BY <1>1, SMT DEF Divides
  <1> HIDE DEF k
  <1>4. -k \in Int /\ x \in Int /\ x - Word = x + (-k) * Size
    BY <1>1, <1>3, SMT
  <1>5. (x - Word) % Size = x % Size
    BY <1>1, <1>4, ModShift
  <1> QED
    BY <1>2, <1>5

\* The bytes of the fifo lie from the slot of out to the slot of in.
LEMMA InBehindOut ==
  ASSUME FifoInv, Divides
  PROVE  /\ out % Size \in 0 .. Size - 1
         /\ in % Size = ((out % Size) + Used) % Size
  <1>1. /\ Used \in 0 .. Size /\ Used = Held(in, out)
        /\ in \in 0 .. Word - 1 /\ out \in 0 .. Word - 1
        /\ Size \in Nat \ {0} /\ Word \in Nat \ {0} /\ Size < Word
    BY FifoFacts
  <1>2. Held(in, out) = IF in >= out THEN in - out ELSE in - out + Word
    BY <1>1, Difference
  <1>3. PICK x \in 0 .. 2 * Word - 1 : x = out + Used
    BY <1>1, SMT
  <1>4. Wrap(x) = in
    <2>1. Wrap(x) = IF x < Word THEN x ELSE x - Word
      BY Wrapped
    <2> QED
      BY <1>1, <1>2, <1>3, <2>1, SMT
  <1>5. in % Size = (out + Used) % Size
    BY <1>3, <1>4, WrapKeepsSlot
  <1>6. ((out % Size) + Used) % Size = (out + Used) % Size
    <2>1. out \in Int /\ Used \in Int
      BY <1>1, SMT
    <2> QED
      BY <1>1, <2>1, ModInside
  <1>7. out % Size \in 0 .. Size - 1
    BY <1>1, SMT
  <1> QED
    BY <1>5, <1>6, <1>7

\* bfifo_push writes its bytes behind the others, in their order.
LEMMA StoreIntact ==
  ASSUME FifoInv, FifoInv', Divides, Intact, NEW p \in Producers, NEW n \in 0 .. MaxChunk, Store(p, n)
  PROVE  Intact'
  <1> DEFINE len == Least(n, Size - Used)
             pos == in % Size
             l == Least(len, Size - pos)
             q == out % Size
  <1>1. /\ Used \in 0 .. Size /\ Used = fed - taken
        /\ Room = Size - Used
        /\ fed \in 0 .. MaxBytes /\ taken \in 0 .. MaxBytes
        /\ Size \in Nat \ {0} /\ MaxBytes \in Nat
    BY FifoFacts
  <1>2. /\ buffer' = [i \in Slot |->
             IF i \in pos .. pos + l - 1 THEN fed + i - pos + 1
             ELSE IF i < len - l THEN fed + l + i + 1
             ELSE buffer[i]]
        /\ fed' = fed + len
        /\ UNCHANGED <<out, taken, got>>
    BY <1>1 DEF Store
  <1>3. q \in 0 .. Size - 1 /\ pos = (q + Used) % Size
    BY InBehindOut
  <1>4. len \in 0 .. Size /\ Used + len <= Size
    BY <1>1, BoundAssumption, SMT DEF Least
  <1> HIDE DEF len, pos, q
  <1>5. pos = IF q + Used < Size THEN q + Used ELSE q + Used - Size
    BY <1>1, <1>3, Turn
  <1>6. l = IF len < Size - pos THEN len ELSE Size - pos
    BY DEF Least
  <1> HIDE DEF l
  <1> SUFFICES ASSUME NEW j \in 1 .. fed' - taken
               PROVE  buffer'[(q + j - 1) % Size] = taken + j
    BY <1>2 DEF Intact, q
  <1> DEFINE s == (q + j - 1) % Size
  <1>7. s = IF q + j - 1 < Size THEN q + j - 1 ELSE q + j - 1 - Size
    <2>1. j - 1 \in 0 .. Size /\ q + (j - 1) = q + j - 1
      BY <1>1, <1>2, <1>3, <1>4, SMT
    <2>2. (q + (j - 1)) % Size = IF q + (j - 1) < Size THEN q + (j - 1) ELSE q + (j - 1) - Size
      BY <1>3, <2>1, Turn
    <2> QED
      BY <2>1, <2>2
  <1> HIDE DEF s
  <1>8. s \in Slot /\ s \in Int
    BY <1>1, <1>2, <1>3, <1>4, <1>7, SMT DEF Slot
  <1>9. CASE j <= Used
    <2>1. s \notin pos .. pos + l - 1 /\ ~(s < len - l)
      BY <1>1, <1>3, <1>4, <1>5, <1>6, <1>7, <1>9, SMT
    <2>2. j \in 1 .. fed - taken
      BY <1>1, <1>9, SMT
    <2>3. buffer[s] = taken + j
      BY <2>2 DEF Intact, s, q
    <2> QED
      BY <1>2, <1>8, <2>1, <2>3 DEF s
  <1>10. CASE Used < j /\ s \in pos .. pos + l - 1
    <2>1. pos <= s /\ j \in Int /\ Used < j /\ j - 1 < Size /\ pos \in Int /\ q \in Int
      BY <1>1, <1>2, <1>3, <1>4, <1>5, <1>6, <1>8, <1>10, SMT
    <2>2. s - pos = j - 1 - Used
      BY <1>1, <1>3, <1>5, <1>7, <1>8, <2>1, SMT
    <2>3. fed + s - pos + 1 = taken + j
      BY <1>1, <1>8, <2>1, <2>2, SMT
    <2> QED
      BY <1>2, <1>8, <1>10, <2>3 DEF s
  <1>11. CASE Used < j /\ s \notin pos .. pos + l - 1
    <2>1. s < len - l /\ fed + l + s + 1 = taken + j
      BY <1>1, <1>2, <1>3, <1>4, <1>5, <1>6, <1>7, <1>11, SMT
    <2> QED
      BY <1>2, <1>8, <1>11, <2>1 DEF s
  <1> QED
    BY <1>1, <1>9, <1>10, <1>11, SMT DEF s

\* bfifo_pull copies the oldest bytes, and the others stay.
LEMMA FetchIntact ==
  ASSUME FifoInv, FifoInv', Divides, Intact, NEW c \in Consumers, NEW n \in 0 .. MaxChunk, Fetch(c, n)
  PROVE  Intact'
  <1> DEFINE len == Least(n, Used)
             q == out % Size
             l == Least(len, Size - q)
  <1>1. /\ Used \in 0 .. Size /\ Used = fed - taken
        /\ out \in 0 .. Word - 1 /\ Word \in Nat \ {0}
        /\ fed \in 0 .. MaxBytes /\ taken \in 0 .. MaxBytes
        /\ Size \in Nat \ {0} /\ Size < Word /\ MaxBytes \in Nat
    BY FifoFacts
  <1>2. /\ got' = [j \in 1 .. len |->
             IF j <= l THEN buffer[q + j - 1] ELSE buffer[j - l - 1]]
        /\ out' = Wrap(out + len)
        /\ taken' = taken + len
        /\ UNCHANGED <<buffer, fed>>
    BY DEF Fetch, Wrap
  <1>3. q \in 0 .. Size - 1
    BY InBehindOut
  <1>4. len \in 0 .. Used
    BY <1>1, BoundAssumption, SMT DEF Least
  <1>5. out' % Size = (q + len) % Size
    <2>1. out + len \in 0 .. 2 * Word - 1 /\ out \in Int /\ len \in Int
      BY <1>1, <1>4, SMT
    <2>2. out' % Size = (out + len) % Size
      BY <1>2, <2>1, WrapKeepsSlot
    <2>3. ((out % Size) + len) % Size = (out + len) % Size
      BY <1>1, <2>1, ModInside
    <2> QED
      BY <2>2, <2>3
  <1>6. l = IF len < Size - q THEN len ELSE Size - q
    BY DEF Least
  <1>7. \A j \in 1 .. Used : buffer[(q + j - 1) % Size] = taken + j
    BY <1>1 DEF Intact
  <1> HIDE DEF len, q, l
  <1>8. \A j \in 1 .. Used : (q + j - 1) % Size = IF q + j - 1 < Size THEN q + j - 1 ELSE q + j - 1 - Size
    <2> SUFFICES ASSUME NEW j \in 1 .. Used
                 PROVE  (q + j - 1) % Size = IF q + j - 1 < Size THEN q + j - 1 ELSE q + j - 1 - Size
      OBVIOUS
    <2>1. j - 1 \in 0 .. Size /\ q + (j - 1) = q + j - 1
      BY <1>1, <1>3, SMT
    <2>2. (q + (j - 1)) % Size = IF q + (j - 1) < Size THEN q + (j - 1) ELSE q + (j - 1) - Size
      BY <1>3, <2>1, Turn
    <2> QED
      BY <2>1, <2>2
  <1>9. ASSUME NEW j \in 1 .. fed' - taken'
        PROVE  buffer'[((out' % Size) + j - 1) % Size] = taken' + j
    <2>1. len + j \in 1 .. Used /\ q + (len + j) - 1 = (q + len) + (j - 1) /\ j - 1 \in Int /\ q + len \in Int
      BY <1>1, <1>2, <1>3, <1>4, SMT
    <2>2. (((q + len) % Size) + (j - 1)) % Size = ((q + len) + (j - 1)) % Size
      BY <1>1, <2>1, ModInside
    <2>3. (out' % Size) + j - 1 = ((q + len) % Size) + (j - 1)
      BY <1>1, <1>5, <2>1, SMT
    <2>4. buffer[(q + (len + j) - 1) % Size] = taken + (len + j)
      BY <1>7, <2>1
    <2>5. taken + (len + j) = taken' + j
      BY <1>1, <1>2, <1>4, SMT
    <2> QED
      BY <1>2, <2>1, <2>2, <2>3, <2>4, <2>5
  <1>10. ASSUME NEW j \in DOMAIN got'
         PROVE  got'[j] = taken' - Len(got') + j
    <2>1. j \in 1 .. len /\ j \in 1 .. Used /\ j \in Int
      BY <1>1, <1>2, <1>4, <1>10, SMT
    <2>2. len \in Nat /\ Len(got') = len
      BY <1>1, <1>2, <1>4, SMT
    <2>3. buffer[(q + j - 1) % Size] = taken + j
      BY <1>7, <2>1
    <2>4. got'[j] = buffer[(q + j - 1) % Size]
      <3>1. j <= l => (q + j - 1) % Size = q + j - 1
        BY <1>1, <1>3, <1>4, <1>6, <1>8, <2>1, SMT
      <3>2. ~(j <= l) => (q + j - 1) % Size = j - l - 1
        BY <1>1, <1>3, <1>4, <1>6, <1>8, <2>1, SMT
      <3> QED
        BY <1>2, <2>1, <3>1, <3>2
    <2>5. taken + j = taken' - Len(got') + j
      BY <1>1, <1>2, <1>4, <2>1, <2>2, SMT
    <2> QED
      BY <2>3, <2>4, <2>5
  <1> QED
    BY <1>9, <1>10 DEF Intact

LEMMA IntactStep == FifoInv /\ FifoInv' /\ Divides /\ Intact /\ [Next]_vars => Intact'
  <1> SUFFICES ASSUME FifoInv, FifoInv', Divides, Intact, [Next]_vars
               PROVE  Intact'
    OBVIOUS
  <1>1. CASE Still
    BY <1>1 DEF Still, Intact
  <1>2. ASSUME NEW p \in Producers, ProducerStep(p)
        PROVE  Intact'
    BY <1>1, <1>2, ProducerCases, StoreIntact
  <1>3. ASSUME NEW c \in Consumers, ConsumerStep(c)
        PROVE  Intact'
    <2>1. CASE Reset(c)
      <3>1. fed' - taken' = 0 /\ DOMAIN got' = {}
        BY <2>1, FifoFacts, SMT DEF Reset
      <3>2. 1 .. 0 = {}
        BY SMT
      <3> QED
        BY <3>1, <3>2 DEF Intact
    <2> QED
      BY <1>1, <1>3, <2>1, ConsumerCases, FetchIntact
  <1>4. CASE UNCHANGED vars
    BY <1>1, <1>4 DEF Still, vars
  <1> QED
    BY <1>2, <1>3, <1>4 DEF Next

\* In a fifo whose size divides the machine word the bytes come out as they
\* went in, for ever: the slots stay in step when `in` and `out` wrap.
THEOREM AlwaysIntact == Divides /\ Spec => []Intact
  <1> SUFFICES ASSUME Divides
               PROVE  Spec => []Intact
    OBVIOUS
  <1>1. Init => Intact
    <2> SUFFICES ASSUME Init
                 PROVE  Intact
      OBVIOUS
    <2>1. fed - taken = 0 /\ DOMAIN got = {}
      BY SMT DEF Init
    <2>2. 1 .. 0 = {}
      BY SMT
    <2> QED
      BY <2>1, <2>2 DEF Intact
  <1>2. FifoInv /\ FifoInv' /\ Intact /\ [Next]_vars => Intact'
    BY IntactStep
  <1> QED
    BY <1>1, <1>2, FifoInvariant, PTL DEF Spec
=============================================================================
