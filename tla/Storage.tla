------------------------------ MODULE Storage ------------------------------
(***************************************************************************)
(* board/storage.c: measured values go through a message queue to a thread *)
(* that inserts them into an sqlite table and commits every ten seconds.   *)
(* Other threads commit at once (bStorageDoCommit) or close the database   *)
(* before a reboot (bStorageDoClose).  storage_log.c has the same shape.   *)
(*                                                                         *)
(* The code keeps in s_transaction what it believes of the transaction of  *)
(* the connection; sqlite knows better.  s_db_mutex guards both, but the   *)
(* thread's first __begin_transaction does not take it.                    *)
(*                                                                         *)
(* One table; ids are consecutive (AUTOINCREMENT), so that a row is known  *)
(* by its place.  s_db is NULL just when s_dbinit is RT_FALSE, as far as   *)
(* the code looks at it.  Power may fail at any time.                      *)
(***************************************************************************)
EXTENDS Integers, Sequences

CONSTANTS
  Lines,      \* STORAGE_LINE_LIMIT: size of the message queue
  Limit,      \* s_limit_count of the table
  DelNum,     \* _DEL_NUM
  MaxItems    \* bound: calls of bStorageAddData that find the database open

ASSUME SizeAssumption == Lines \in Nat \ {0} /\ Limit \in Nat \ {0} /\ DelNum \in Nat \ {0}
ASSUME BoundAssumption == MaxItems \in Nat

VARIABLES
  queue,          \* s_stroage_mq
  offered,        \* number of items bStorageAddData has offered to the queue
  adding,         \* a call of bStorageAddData found the database open
  pc,             \* where rt_storage_thread is
  item,           \* the item it took from the queue
  insert,         \* its flag that there may be something to commit
  mutex,          \* who holds s_db_mutex over more than one step
  exec,           \* the result of the last begin; FALSE also while there is none
  s_dbinit,
  s_transaction,
  intxn,          \* sqlite: the connection is in a transaction
  work,           \* sqlite: the rows the connection sees
  disk,           \* sqlite: the rows that survive a loss of power
  hasty,          \* history: bStorageDoCommit ran before the thread had begun its
                  \* first transaction
  shed            \* history: else, an orderly close lost rows though no commit failed

threadVars == <<pc, item, insert>>
dbVars == <<intxn, work, disk>>
vars == <<queue, offered, adding, threadVars, mutex, exec, s_dbinit, s_transaction, dbVars,
          hasty, shed>>

Items == 1 .. MaxItems

Init ==
  /\ queue = <<>>
  /\ offered = 0
  /\ adding = FALSE
  /\ pc = "open" /\ item = 0 /\ insert = FALSE
  /\ mutex = "free"
  /\ exec = FALSE
  /\ s_dbinit = FALSE
  /\ s_transaction = FALSE
  /\ intxn = FALSE /\ work = <<>> /\ disk = <<>>
  /\ hasty = FALSE
  /\ shed = FALSE

Log == INSTANCE StableLog WITH stored <- disk, rows <- work

-----------------------------------------------------------------------------
(* sqlite *)

\* A change of the table: on disk at once outside a transaction.
Write(s) ==
  /\ work' = s
  /\ disk' = IF intxn THEN disk ELSE s
  /\ UNCHANGED intxn

\* A statement that fails has no effect, or ends the transaction (disk full,
\* i/o error, out of memory).
Fails ==
  /\ UNCHANGED disk
  /\ \/ UNCHANGED <<work, intxn>>
     \/ work' = disk /\ intxn' = FALSE

\* "begin;": refused within a transaction.
SqlBegin ==
  /\ \E ok \in BOOLEAN :
       /\ ok => ~intxn
       /\ exec' = ok
       /\ intxn' = (intxn \/ ok)
  /\ UNCHANGED <<work, disk>>

\* SqlCommit as it would be without the rollback of a transaction that fails.
SqlCommitOnly ==
  \/ disk' = work /\ intxn' = FALSE /\ UNCHANGED work
  \/ UNCHANGED dbVars

\* "commit;" and, if it fails, "rollback;".
SqlCommit ==
  /\ intxn' = FALSE
  /\ \/ disk' = work /\ UNCHANGED work
     \/ work' = disk /\ UNCHANGED disk

\* __commit_transaction
CommitTransaction ==
  /\ s_transaction' = (s_transaction /\ ~s_dbinit)
  /\ IF s_dbinit /\ s_transaction THEN SqlCommit ELSE UNCHANGED dbVars

-----------------------------------------------------------------------------
(* bStorageAddData *)

AddData ==
  /\ ~adding
  /\ s_dbinit
  /\ offered < MaxItems
  /\ adding' = TRUE
  /\ UNCHANGED <<queue, offered, threadVars, mutex, exec, s_dbinit, s_transaction, dbVars, hasty, shed>>

\* It waits for the mutex, which it gives back at once, and sends; an item that
\* finds the queue full is dropped.
SendData ==
  /\ adding
  /\ adding' = FALSE
  /\ offered' = offered + 1
  /\ queue' = IF Len(queue) < Lines THEN Append(queue, offered + 1) ELSE queue
  /\ UNCHANGED <<threadVars, mutex, exec, s_dbinit, s_transaction, dbVars, hasty, shed>>

-----------------------------------------------------------------------------
(* rt_storage_thread *)

\* The database is opened and the tables are created; or the thread ends.
Open ==
  /\ pc = "open"
  /\ \/ pc' = "begin" /\ s_dbinit' = TRUE
     \/ pc' = "ended" /\ UNCHANGED s_dbinit
  /\ UNCHANGED <<queue, offered, adding, item, insert, mutex, exec, s_transaction, dbVars, hasty, shed>>

\* The first __begin_transaction, without the mutex: its test and sqlite3_exec ...
Begin ==
  /\ pc = "begin"
  /\ \/ /\ s_dbinit
        /\ \E ok \in BOOLEAN :
             /\ ok => ~intxn
             /\ intxn' = (intxn \/ ok)
             /\ pc' = IF ok THEN "began" ELSE "refused"
     \/ /\ ~s_dbinit
        /\ pc' = "recv"
        /\ UNCHANGED intxn
  /\ UNCHANGED <<queue, offered, adding, item, insert, mutex, exec, s_dbinit, s_transaction, work,
                 disk, hasty, shed>>

\* ... and its assignment.
Assign ==
  /\ pc \in {"began", "refused"}
  /\ s_transaction' = (pc = "began")
  /\ pc' = "recv"
  /\ UNCHANGED <<queue, offered, adding, item, insert, mutex, exec, s_dbinit, dbVars, hasty, shed>>

\* An item, which is thrown away when the database is closed, or nothing for
\* five seconds.
Recv ==
  /\ pc = "recv"
  /\ \/ /\ queue # <<>>
        /\ item' = Head(queue)
        /\ queue' = Tail(queue)
        /\ pc' = IF s_dbinit THEN "store" ELSE "timer"
     \/ /\ queue = <<>>
        /\ pc' = "timer"
        /\ UNCHANGED <<queue, item>>
  /\ UNCHANGED <<offered, adding, insert, mutex, exec, s_dbinit, s_transaction, dbVars, hasty, shed>>

\* StoreRow as it would be without the note that there is something to commit.
StoreQuietly ==
  /\ pc = "store"
  /\ mutex = "free"
  /\ s_dbinit
  /\ Write(Append(work, item))
  /\ mutex' = "thread"
  /\ pc' = "relimit"
  /\ UNCHANGED <<queue, offered, adding, item, insert, exec, s_dbinit, s_transaction, hasty, shed>>

\* The insert succeeds; the mutex is kept for __relimit_table.
StoreRow ==
  /\ pc = "store"
  /\ mutex = "free"
  /\ s_dbinit
  /\ Write(Append(work, item))
  /\ insert' = TRUE
  /\ mutex' = "thread"
  /\ pc' = "relimit"
  /\ UNCHANGED <<queue, offered, adding, item, exec, s_dbinit, s_transaction, hasty, shed>>

\* The statement fails; or it cannot be prepared, as on a database that was
\* closed while the thread waited for the mutex.
StoreFails ==
  /\ pc = "store"
  /\ mutex = "free"
  /\ \/ s_dbinit /\ Fails /\ insert' = TRUE
     \/ UNCHANGED <<dbVars, insert>>
  /\ pc' = "timer"
  /\ UNCHANGED <<queue, offered, adding, item, mutex, exec, s_dbinit, s_transaction, hasty, shed>>

\* Relimit as it would be with the limit one row too low.
RelimitEarly ==
  /\ pc = "relimit"
  /\ IF Len(work) > Limit THEN Write(Log!Newest(work, Log!Kept)) ELSE UNCHANGED dbVars
  /\ mutex' = "free"
  /\ pc' = "timer"
  /\ UNCHANGED <<queue, offered, adding, item, insert, exec, s_dbinit, s_transaction, hasty, shed>>

\* __relimit_table: too many rows, and the oldest are deleted.
Relimit ==
  /\ pc = "relimit"
  /\ IF Len(work) > Limit + 1
       THEN Write(Log!Newest(work, Log!Kept)) \/ Fails
       ELSE UNCHANGED dbVars
  /\ mutex' = "free"
  /\ pc' = "timer"
  /\ UNCHANGED <<queue, offered, adding, item, insert, exec, s_dbinit, s_transaction, hasty, shed>>

\* Less than ten seconds since the last commit, or nothing inserted.
NotDue ==
  /\ pc = "timer"
  /\ pc' = "recv"
  /\ UNCHANGED <<queue, offered, adding, item, insert, mutex, exec, s_dbinit, s_transaction, dbVars, hasty, shed>>

-----------------------------------------------------------------------------
(* Commit and begin again, under the mutex: the thread when ten seconds are *)
(* over, and bStorageDoCommit                                               *)

TimedCommit ==
  /\ pc = "timer"
  /\ insert
  /\ mutex = "free"
  /\ CommitTransaction
  /\ mutex' = "timed"
  /\ pc' = "commit"
  /\ UNCHANGED <<queue, offered, adding, item, insert, exec, s_dbinit, hasty, shed>>

DoCommit ==
  /\ s_dbinit
  /\ mutex = "free"
  /\ CommitTransaction
  /\ mutex' = "docommit"
  /\ hasty' = (hasty \/ pc \in {"begin", "began", "refused"})
  /\ UNCHANGED <<queue, offered, adding, threadVars, exec, s_dbinit, shed>>

\* __begin_transaction: sqlite3_exec ...
BeginAgain ==
  /\ mutex \in {"timed", "docommit"}
  /\ IF s_dbinit
       THEN /\ SqlBegin
            /\ mutex' = IF mutex = "timed" THEN "timed2" ELSE "docommit2"
            /\ UNCHANGED <<pc, insert>>
       ELSE /\ mutex' = "free"
            /\ pc' = IF mutex = "timed" THEN "recv" ELSE pc
            /\ insert' = (insert /\ mutex # "timed")
            /\ UNCHANGED <<dbVars, exec>>
  /\ UNCHANGED <<queue, offered, adding, item, s_dbinit, s_transaction, hasty, shed>>

\* ... the assignment, and the release of the mutex.
AssignAgain ==
  /\ mutex \in {"timed2", "docommit2"}
  /\ s_transaction' = exec
  /\ exec' = FALSE
  /\ mutex' = "free"
  /\ pc' = IF mutex = "timed2" THEN "recv" ELSE pc
  /\ insert' = (insert /\ mutex # "timed2")
  /\ UNCHANGED <<queue, offered, adding, item, s_dbinit, dbVars, hasty, shed>>

-----------------------------------------------------------------------------
(* The end *)

\* DoClose as it would be without the commit.
DoCloseOnly ==
  /\ s_dbinit
  /\ mutex = "free"
  /\ work' = disk
  /\ intxn' = FALSE
  /\ s_dbinit' = FALSE
  /\ shed' = (shed \/ (~hasty /\ disk # work))
  /\ UNCHANGED <<queue, offered, adding, threadVars, mutex, exec, s_transaction, disk, hasty>>

\* bStorageDoClose: what is not committed is rolled back by sqlite3_close.
DoClose ==
  /\ s_dbinit
  /\ mutex = "free"
  /\ \E ok \in BOOLEAN :
       /\ disk' = IF s_transaction /\ intxn /\ ok THEN work ELSE disk
       /\ shed' = (shed \/ (~hasty /\ ok /\ disk' # work))
  /\ work' = disk'
  /\ intxn' = FALSE
  /\ s_transaction' = FALSE
  /\ s_dbinit' = FALSE
  /\ UNCHANGED <<queue, offered, adding, threadVars, mutex, exec, hasty>>

\* A loss of power, or the reboot that follows bStorageDoClose.
Restart ==
  /\ queue' = <<>>
  /\ adding' = FALSE
  /\ pc' = "open" /\ item' = 0 /\ insert' = FALSE
  /\ mutex' = "free"
  /\ exec' = FALSE
  /\ s_dbinit' = FALSE
  /\ s_transaction' = FALSE
  /\ intxn' = FALSE
  /\ work' = disk
  /\ hasty' = FALSE
  /\ UNCHANGED <<offered, disk, shed>>

ThreadStep ==
  Open \/ Begin \/ Assign \/ Recv \/ StoreRow \/ StoreFails \/ Relimit \/ NotDue \/ TimedCommit

CommitStep == BeginAgain \/ AssignAgain

Next ==
  \/ AddData \/ SendData
  \/ ThreadStep
  \/ DoCommit
  \/ CommitStep
  \/ DoClose
  \/ Restart

Spec == Init /\ [][Next]_vars

\* The threads run whenever they can; and ten seconds pass, so that a thread
\* with something to commit does not find it too early for ever.
FairSpec == Spec /\ WF_vars(ThreadStep) /\ WF_vars(CommitStep) /\ SF_vars(TimedCommit)

-----------------------------------------------------------------------------
(* Properties *)

\* The code never forgets an open transaction, which would keep every later row
\* from the disk: s_transaction says RT_FALSE within one only until the
\* assignment, or after a commit that came before the first begin was over.
TransactionKnown ==
  intxn => s_transaction \/ hasty \/ pc = "began" \/ exec

\* bStorageDoClose before a reboot loses no row, unless the commit fails.
CloseKeeps == ~shed

RowsOf(s) == {s[i] : i \in DOMAIN s}

\* No inserted row is kept from the disk for ever: again and again every row of
\* the table is there, those gone that a rollback, a loss of power or the limit
\* of the table took away.
Durable == []<>(RowsOf(work) \subseteq RowsOf(disk) \/ hasty)

\* The disk only ever takes over all of the table; rows come in order, none
\* twice, and only those above the limit go.
ImplementsLog == Log!Spec
=============================================================================
