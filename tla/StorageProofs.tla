--------------------------- MODULE StorageProofs ---------------------------
(***************************************************************************)
(* Theorems about Storage for every size of the queue, every limit of the  *)
(* table and any number of items.                                          *)
(***************************************************************************)
EXTENDS Storage, TLAPS

-----------------------------------------------------------------------------
(* Who is where: the thread, the holder of s_db_mutex and the database      *)

Pcs == {"open", "begin", "began", "refused", "recv", "store", "relimit", "timer", "commit", "ended"}
Holders == {"free", "thread", "timed", "docommit", "timed2", "docommit2"}

\* The thread is in its first __begin_transaction, or before it.
Starting == pc \in {"open", "begin", "began", "refused"}

\* The part of the types the transaction depends on.
Flags ==
  /\ pc \in Pcs
  /\ mutex \in Holders
  /\ insert \in BOOLEAN /\ exec \in BOOLEAN /\ s_dbinit \in BOOLEAN /\ s_transaction \in BOOLEAN
  /\ intxn \in BOOLEAN /\ hasty \in BOOLEAN /\ shed \in BOOLEAN

\* The mutex, the place of its holder, and the pending result of a begin.
Placed ==
  /\ mutex \in {"timed", "timed2"} => pc = "commit"
  /\ mutex = "thread" <=> pc = "relimit"
  /\ exec => mutex \in {"timed2", "docommit2"}
  /\ Starting /\ mutex # "free" => hasty
  /\ pc = "open" => mutex = "free" /\ ~s_dbinit
  /\ ~s_dbinit => ~intxn

\* What is open although s_transaction may not say so.
Tracked ==
  /\ TransactionKnown
  /\ pc \in {"begin", "refused"} /\ intxn => hasty
  /\ mutex \in {"timed", "docommit"} /\ intxn => hasty
  /\ mutex \in {"timed2", "docommit2"} /\ intxn /\ ~exec => hasty

\* Outside a transaction, and before the first one, nothing waits for a commit.
Settled ==
  /\ ~intxn => work = disk
  /\ Starting => work = disk

TxnInv == Flags /\ Placed /\ Tracked /\ Settled /\ CloseKeeps

LEMMA TxnInit == Init => TxnInv
  BY DEF Init, TxnInv, Flags, Placed, Tracked, Settled, Starting, Pcs, Holders, TransactionKnown,
         CloseKeeps

\* Every step of storage.c keeps the flag s_transaction true to the transaction.
LEMMA TxnStep == TxnInv /\ [Next]_vars => TxnInv'
  <1> SUFFICES ASSUME TxnInv, [Next]_vars
               PROVE  TxnInv'
    OBVIOUS
  <1> USE DEF TxnInv, Flags, Placed, Tracked, Settled, Starting, Pcs, Holders, TransactionKnown,
              CloseKeeps
  <1>1. CASE AddData
    BY <1>1 DEF AddData, threadVars, dbVars
  <1>2. CASE SendData
    BY <1>2 DEF SendData, threadVars, dbVars
  <1>3. CASE Open
    BY <1>3 DEF Open, dbVars
  <1>4. CASE Begin
    BY <1>4 DEF Begin
  <1>5. CASE Assign
    BY <1>5 DEF Assign, dbVars
  <1>6. CASE Recv
    BY <1>6 DEF Recv, dbVars
  <1>7. CASE StoreRow
    BY <1>7 DEF StoreRow, Write
  <1>8. CASE StoreFails
    <2>1. /\ pc = "store" /\ pc' = "timer" /\ mutex = "free" /\ insert' \in BOOLEAN
          /\ mutex' = mutex /\ exec' = exec /\ s_dbinit' = s_dbinit
          /\ s_transaction' = s_transaction /\ hasty' = hasty /\ shed' = shed
      BY <1>8 DEF StoreFails
    <2>2. CASE intxn' = intxn /\ work' = work /\ disk' = disk
      BY <2>1, <2>2
    <2>3. CASE intxn' = FALSE /\ work' = disk /\ disk' = disk
      BY <2>1, <2>3
    <2> QED
      BY <1>8, <2>2, <2>3 DEF StoreFails, Fails, dbVars
  <1>9. CASE Relimit
    <2>1. /\ pc = "relimit" /\ pc' = "timer" /\ mutex = "thread" /\ mutex' = "free"
          /\ insert' = insert /\ exec' = exec /\ s_dbinit' = s_dbinit
          /\ s_transaction' = s_transaction /\ hasty' = hasty /\ shed' = shed
      BY <1>9 DEF Relimit
    <2>2. CASE intxn' = intxn /\ work' = work /\ disk' = disk
      BY <2>1, <2>2
    <2>3. CASE intxn' = FALSE /\ work' = disk /\ disk' = disk
      BY <2>1, <2>3
    <2>4. CASE intxn' = intxn /\ (~intxn => work' = disk')
      BY <2>1, <2>4
    <2> QED
      BY <1>9, <2>2, <2>3, <2>4 DEF Relimit, Write, Fails, dbVars
  <1>10. CASE NotDue
    BY <1>10 DEF NotDue, dbVars
  <1>11. CASE TimedCommit
    BY <1>11 DEF TimedCommit, CommitTransaction, SqlCommit, dbVars
  <1>12. CASE DoCommit
    BY <1>12 DEF DoCommit, CommitTransaction, SqlCommit, threadVars, dbVars
  <1>13. CASE BeginAgain
    BY <1>13 DEF BeginAgain, SqlBegin, dbVars
  <1>14. CASE AssignAgain
    BY <1>14 DEF AssignAgain, dbVars
  <1>15. CASE DoClose
    BY <1>15 DEF DoClose, threadVars
  <1>16. CASE Restart
    BY <1>16 DEF Restart
  <1>17. CASE UNCHANGED vars
    BY <1>17 DEF vars, threadVars, dbVars
  <1> QED
    BY <1>1, <1>2, <1>3, <1>4, <1>5, <1>6, <1>7, <1>8, <1>9, <1>10, <1>11, <1>12, <1>13, <1>14,
       <1>15, <1>16, <1>17 DEF Next, ThreadStep, CommitStep

LEMMA TxnInvariant == Spec => []TxnInv
  <1>1. Init => TxnInv
    BY TxnInit
  <1>2. TxnInv /\ [Next]_vars => TxnInv'
    BY TxnStep
  <1> QED
    BY <1>1, <1>2, PTL DEF Spec

\* An open transaction is never forgotten, but for a commit that comes before
\* the thread's first begin is over.
THEOREM TransactionAlwaysKnown == Spec => []TransactionKnown
  <1>1. TxnInv => TransactionKnown
    BY DEF TxnInv, Tracked
  <1> QED
    BY <1>1, TxnInvariant, PTL

\* bStorageDoClose loses no row when its commit succeeds.
THEOREM CloseAlwaysKeeps == Spec => []CloseKeeps
  <1>1. TxnInv => CloseKeeps
    BY DEF TxnInv
  <1> QED
    BY <1>1, TxnInvariant, PTL

-----------------------------------------------------------------------------
(* The order of the rows                                                    *)

\* Every element of s comes before n.
Below(s, n) == \A i \in 1 .. Len(s) : s[i] < n

\* Every element of s comes after n.
Beyond(s, n) == \A i \in 1 .. Len(s) : n < s[i]

\* Items come out of the queue in the order in which they were offered.
Queued ==
  /\ queue \in Seq(Items)
  /\ offered \in 0 .. MaxItems
  /\ adding => offered < MaxItems
  /\ \A i, j \in 1 .. Len(queue) : i < j => queue[i] < queue[j]
  /\ Below(queue, offered + 1)

\* The item the thread is about to insert.
InHand ==
  pc = "store" => item \in Items /\ item <= offered /\ Beyond(queue, item)

\* Rows are older than everything that is still to come.
Older(s) ==
  /\ s \in Seq(Items)
  /\ Below(s, offered + 1)
  /\ \A j \in 1 .. Len(queue) : Below(s, queue[j])
  /\ pc = "store" => Below(s, item)

OrderInv == Queued /\ InHand /\ Older(work) /\ Older(disk)

\* What __relimit_table leaves of a table is rows of the table.
LEMMA NewestRows ==
  ASSUME NEW s \in Seq(Items), NEW k \in Nat
  PROVE  /\ Log!Newest(s, k) \in Seq(Items)
         /\ \A n \in Int : Below(s, n) => Below(Log!Newest(s, k), n)
  <1> DEFINE t == Log!Newest(s, k)
  <1>1. Len(s) \in Nat /\ \A i \in 1 .. Len(s) : s[i] \in Items
    OBVIOUS
  <1>2. CASE k >= Len(s)
    <2>1. t = s
      BY <1>2 DEF Log!Newest
    <2> QED
      BY <2>1
  <1>3. CASE k < Len(s)
    <2>1. t = SubSeq(s, Len(s) - k + 1, Len(s)) /\ Len(s) - k + 1 \in 1 .. Len(s) + 1
      BY <1>1, <1>3 DEF Log!Newest
    <2>2. Len(t) = k /\ \A i \in 1 .. k : t[i] = s[Len(s) - k + i]
      BY <1>1, <1>3, <2>1
    <2>3. t \in Seq(Items)
      BY <1>1, <1>3, <2>1
    <2>4. \A i \in 1 .. k : Len(s) - k + i \in 1 .. Len(s)
      BY <1>1, <1>3
    <2> QED
      BY <2>2, <2>3, <2>4 DEF Below
  <1> QED
    BY <1>1, <1>2, <1>3

LEMMA KeptIsNat == Log!Kept \in Nat
  BY SizeAssumption, SMT DEF Log!Kept

LEMMA OrderInit == Init => OrderInv
  BY BoundAssumption DEF Init, OrderInv, Queued, InHand, Older, Below, Beyond, Items

\* Steps after which the rows are rows that were there before.
LEMMA OlderStays ==
  ASSUME OrderInv, UNCHANGED <<queue, offered, adding>>, pc' # "store",
         work' \in {work, disk}, disk' \in {work, disk}
  PROVE  OrderInv'
  BY DEF OrderInv, Queued, InHand, Older, Below, Beyond

LEMMA OrderStep == TxnInv /\ OrderInv /\ [Next]_vars => OrderInv'
  <1> SUFFICES ASSUME TxnInv, OrderInv, [Next]_vars
               PROVE  OrderInv'
    OBVIOUS
  <1> USE BoundAssumption
  <1>1. CASE UNCHANGED <<queue, offered, adding, item, work, disk, pc>>
    BY <1>1 DEF OrderInv, Queued, InHand, Older, Below, Beyond
  <1>2. CASE AddData
    BY <1>2 DEF AddData, threadVars, dbVars, OrderInv, Queued, InHand, Older, Below, Beyond
  <1>3. CASE SendData
    <2>1. /\ offered' = offered + 1 /\ adding' = FALSE /\ offered' \in 0 .. MaxItems
          /\ UNCHANGED <<pc, item, work, disk>>
      BY <1>3 DEF SendData, threadVars, dbVars, OrderInv, Queued
    <2>2. CASE queue' = queue
      BY <2>1, <2>2 DEF OrderInv, Queued, InHand, Older, Below, Beyond, Items
    <2>3. CASE queue' = Append(queue, offered + 1)
      <3>1. /\ queue' \in Seq(Items) /\ Len(queue') = Len(queue) + 1
            /\ \A i \in 1 .. Len(queue) : queue'[i] = queue[i]
            /\ queue'[Len(queue) + 1] = offered + 1
        BY <2>1, <2>3 DEF OrderInv, Queued, Items
      <3>2. /\ Len(queue) \in Nat /\ offered \in Nat
            /\ \A i \in 1 .. Len(queue) : queue[i] \in Nat /\ queue[i] < offered + 1
            /\ \A i \in 1 .. Len(queue') : i = Len(queue) + 1 \/ i \in 1 .. Len(queue)
        BY <3>1 DEF OrderInv, Queued, Below, Items
      <3>3. \A i, j \in 1 .. Len(queue') : i < j => queue'[i] < queue'[j]
        BY <3>1, <3>2 DEF OrderInv, Queued
      <3>4. Below(queue, offered + 1)'
        BY <2>1, <3>1, <3>2 DEF Below
      <3>5. InHand'
        <4> SUFFICES ASSUME pc = "store"
                     PROVE  /\ item \in Items /\ item <= offered'
                            /\ \A i \in 1 .. Len(queue') : item < queue'[i]
          BY <2>1 DEF InHand, Beyond
        <4>1. item \in Items /\ item <= offered /\ \A i \in 1 .. Len(queue) : item < queue[i]
          BY DEF OrderInv, InHand, Beyond
        <4>2. item < offered + 1 /\ item <= offered'
          BY <2>1, <3>2, <4>1 DEF Items
        <4> QED
          BY <3>1, <3>2, <4>1, <4>2
      <3>6. ASSUME NEW t, Older(t)
            PROVE  /\ Below(t, offered' + 1)
                   /\ \A j \in 1 .. Len(queue') : Below(t, queue'[j])
        <4>1. Len(t) \in Nat /\ \A i \in 1 .. Len(t) : t[i] \in Nat /\ t[i] < offered + 1
          BY <3>6 DEF Older, Below, Items
        <4>2. \A j \in 1 .. Len(queue) : Below(t, queue[j])
          BY <3>6 DEF Older
        <4>3. Below(t, offered + 1) /\ Below(t, offered' + 1)
          BY <2>1, <3>2, <4>1 DEF Below
        <4> QED
          BY <3>1, <3>2, <4>2, <4>3
      <3>7. Older(work)' /\ Older(disk)'
        BY <2>1, <3>6 DEF OrderInv, Older
      <3> QED
        BY <2>1, <3>1, <3>3, <3>4, <3>5, <3>7 DEF OrderInv, Queued
    <2> QED
      BY <1>3, <2>2, <2>3 DEF SendData
  <1>4. CASE Recv
    <2>1. UNCHANGED <<offered, adding, work, disk>>
      BY <1>4 DEF Recv, dbVars
    <2>2. CASE queue # <<>>
      <3>1. /\ queue' = Tail(queue) /\ item' = Head(queue)
            /\ queue' \in Seq(Items) /\ Len(queue') = Len(queue) - 1 /\ Len(queue) \in Nat \ {0}
            /\ \A i \in 1 .. Len(queue') : queue'[i] = queue[i + 1]
            /\ item' = queue[1] /\ item' \in Items
        <4>1. queue' = Tail(queue) /\ item' = Head(queue)
          BY <1>4, <2>2 DEF Recv
        <4>2. queue \in Seq(Items) /\ Len(queue) \in Nat \ {0}
          BY <2>2 DEF OrderInv, Queued
        <4>3. /\ Tail(queue) \in Seq(Items) /\ Len(Tail(queue)) = Len(queue) - 1
              /\ \A i \in 1 .. Len(Tail(queue)) : Tail(queue)[i] = queue[i + 1]
          BY <4>2
        <4>4. Head(queue) = queue[1] /\ queue[1] \in Items
          BY <4>2
        <4> QED
          BY <4>1, <4>2, <4>3, <4>4
      <3>2. Queued'
        BY <2>1, <3>1 DEF OrderInv, Queued, Below
      <3>3. InHand'
        BY <2>1, <3>1 DEF OrderInv, Queued, InHand, Below, Beyond, Items
      <3>4. Older(work)' /\ Older(disk)'
        BY <2>1, <3>1 DEF OrderInv, Queued, Older, Below, Items
      <3> QED
        BY <3>2, <3>3, <3>4 DEF OrderInv
    <2>3. CASE queue = <<>>
      <3>1. pc' # "store" /\ queue' = queue
        BY <1>4, <2>3 DEF Recv
      <3> QED
        BY <2>1, <3>1, OlderStays
    <2> QED
      BY <2>2, <2>3
  <1>5. CASE StoreRow
    <2> DEFINE s == Append(work, item)
    <2>1. /\ pc = "store" /\ pc' # "store" /\ UNCHANGED <<queue, offered, adding, item>>
          /\ work' = s /\ disk' \in {s, disk}
      BY <1>5 DEF StoreRow, Write
    <2>2. /\ s \in Seq(Items) /\ Len(s) = Len(work) + 1
          /\ \A i \in 1 .. Len(work) : s[i] = work[i]
          /\ s[Len(work) + 1] = item
      BY <2>1 DEF OrderInv, InHand, Older, Items
    <2> HIDE DEF s
    <2>3. Below(s, offered + 1) /\ \A j \in 1 .. Len(queue) : Below(s, queue[j])
      <3>1. /\ Len(work) \in Nat
            /\ \A i \in 1 .. Len(s) : i = Len(work) + 1 \/ i \in 1 .. Len(work)
        BY <2>2 DEF OrderInv, Older
      <3>2. item < offered + 1 /\ \A j \in 1 .. Len(queue) : item < queue[j]
        BY <2>1 DEF OrderInv, Queued, InHand, Beyond, Items
      <3>3. /\ Below(work, offered + 1)
            /\ \A j \in 1 .. Len(queue) : Below(work, queue[j])
        BY DEF OrderInv, Older
      <3> QED
        BY <2>2, <3>1, <3>2, <3>3 DEF Below
    <2>4. Queued' /\ InHand'
      BY <2>1 DEF OrderInv, Queued, InHand, Below, Beyond
    <2>5. Older(work)' /\ Older(disk)'
      BY <2>1, <2>2, <2>3 DEF OrderInv, Older, Below
    <2> QED
      BY <2>4, <2>5 DEF OrderInv
  <1>6. CASE Relimit
    <2>1. pc' # "store" /\ UNCHANGED <<queue, offered, adding, item>>
      BY <1>6 DEF Relimit
    <2>2. CASE work' \in {work, disk} /\ disk' \in {work, disk}
      BY <2>1, <2>2, OlderStays
    <2>3. CASE work' = Log!Newest(work, Log!Kept) /\ disk' \in {work', disk}
      <3>1. /\ work' \in Seq(Items) /\ Below(work', offered + 1)
            /\ \A j \in 1 .. Len(queue) : Below(work', queue[j])
        <4>1. offered + 1 \in Int /\ \A j \in 1 .. Len(queue) : queue[j] \in Int
          BY DEF OrderInv, Queued, Items
        <4>2. work \in Seq(Items) /\ Below(work, offered + 1)
              /\ \A j \in 1 .. Len(queue) : Below(work, queue[j])
          BY DEF OrderInv, Older
        <4>3. /\ work' \in Seq(Items)
              /\ \A n \in Int : Below(work, n) => Below(work', n)
          BY <2>3, <4>2, NewestRows, KeptIsNat
        <4> QED
          BY <4>1, <4>2, <4>3
      <3>2. Queued' /\ InHand'
        BY <2>1 DEF OrderInv, Queued, InHand, Below, Beyond
      <3>3. Older(work)' /\ Older(disk)'
        BY <2>1, <2>3, <3>1 DEF OrderInv, Older, Below
      <3> QED
        BY <3>2, <3>3 DEF OrderInv
    <2> QED
      BY <1>6, <2>2, <2>3 DEF Relimit, Write, Fails, dbVars
  <1>7. CASE Restart
    BY <1>7 DEF Restart, OrderInv, Queued, InHand, Older, Below, Beyond, Items
  <1>8. CASE DoCommit \/ DoClose
    <2>1. /\ UNCHANGED <<queue, offered, adding, item, pc>>
          /\ work' \in {work, disk} /\ disk' \in {work, disk}
      BY <1>8 DEF DoCommit, DoClose, CommitTransaction, SqlCommit, dbVars, threadVars
    <2> QED
      BY <2>1 DEF OrderInv, Queued, InHand, Older, Below, Beyond
  <1>9. CASE BeginAgain \/ AssignAgain
    <2>1. UNCHANGED <<queue, offered, adding, item, work, disk>> /\ pc' \in {pc, "recv"}
      BY <1>9 DEF BeginAgain, AssignAgain, SqlBegin, dbVars
    <2> QED
      BY <2>1 DEF OrderInv, Queued, InHand, Older, Below, Beyond
  <1>10. CASE Open \/ Begin \/ Assign \/ StoreFails \/ NotDue \/ TimedCommit
    <2>1. /\ UNCHANGED <<queue, offered, adding>> /\ pc' # "store"
          /\ work' \in {work, disk} /\ disk' \in {work, disk}
      BY <1>10
      DEF Open, Begin, Assign, StoreFails, NotDue, TimedCommit, CommitTransaction, SqlCommit,
          Fails, dbVars
    <2> QED
      BY <2>1, OlderStays
  <1>11. CASE UNCHANGED vars
    BY <1>1, <1>11 DEF vars, threadVars, dbVars
  <1> QED
    BY <1>2, <1>3, <1>4, <1>5, <1>6, <1>7, <1>8, <1>9, <1>10, <1>11
    DEF Next, ThreadStep, CommitStep

-----------------------------------------------------------------------------
(* The refinement of StableLog                                              *)

LEMMA LogStep == TxnInv /\ OrderInv /\ [Next]_vars => [Log!Next]_(Log!vars)
  <1> SUFFICES ASSUME TxnInv, OrderInv, [Next]_vars
               PROVE  Log!Next \/ UNCHANGED <<disk, work>>
    BY DEF Log!vars
  <1>1. CASE UNCHANGED <<disk, work>>
    BY <1>1
  <1>2. CASE work' = disk /\ disk' = disk
    BY <1>2 DEF Log!Next, Log!Forget
  <1>3. CASE disk' = work /\ work' = work
    BY <1>3 DEF Log!Next, Log!Flush
  <1>4. CASE StoreRow
    <2>1. item \in Items /\ \A i \in DOMAIN work : work[i] < item
      BY <1>4 DEF StoreRow, OrderInv, InHand, Older, Below
    <2>2. Log!Change(Append(work, item))
      BY <1>4 DEF StoreRow, Write, TxnInv, Settled, Log!Change
    <2> QED
      BY <2>1, <2>2 DEF Log!Next, Log!Write
  <1>5. CASE Relimit
    <2>1. CASE Len(work) > Limit + 1 /\ Write(Log!Newest(work, Log!Kept))
      <3>1. Log!Change(Log!Newest(work, Log!Kept))
        BY <2>1 DEF Write, TxnInv, Settled, Log!Change
      <3> QED
        BY <2>1, <3>1 DEF Log!Next, Log!Trim
    <2>2. CASE Fails \/ UNCHANGED dbVars
      BY <1>1, <1>2, <2>2 DEF Fails, dbVars
    <2> QED
      BY <1>5, <2>1, <2>2 DEF Relimit
  <1>6. CASE StoreFails
    BY <1>1, <1>2, <1>6 DEF StoreFails, Fails, dbVars
  <1>7. CASE TimedCommit \/ DoCommit
    BY <1>1, <1>2, <1>3, <1>7 DEF TimedCommit, DoCommit, CommitTransaction, SqlCommit, dbVars
  <1>8. CASE DoClose
    BY <1>2, <1>3, <1>8 DEF DoClose
  <1>9. CASE Restart
    BY <1>2, <1>9 DEF Restart
  <1>10. CASE \/ AddData \/ SendData \/ Open \/ Begin \/ Assign \/ Recv \/ NotDue
              \/ BeginAgain \/ AssignAgain \/ UNCHANGED vars
    BY <1>1, <1>10
    DEF AddData, SendData, Open, Begin, Assign, Recv, NotDue, BeginAgain, AssignAgain, SqlBegin,
        vars, dbVars
  <1> QED
    BY <1>4, <1>5, <1>6, <1>7, <1>8, <1>9, <1>10 DEF Next, ThreadStep, CommitStep

\* The table is a log: rows come in the order of their items and none twice,
\* they reach the disk or are forgotten all together, and only those above
\* the limit are removed.
THEOREM StorageIsLog == Spec => ImplementsLog
  <1>1. Init => Log!Init
    BY DEF Init, Log!Init
  <1> QED
    BY <1>1, OrderInit, OrderStep, LogStep, TxnInvariant, PTL DEF Spec, ImplementsLog, Log!Spec
=============================================================================
