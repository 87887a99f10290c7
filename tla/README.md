# Verification of the Nuvoton NUC977 edge gateway

The gateway (`src/software/das`) collects measurements from serial and analogue
devices and reports them to monitoring platforms over TCP, UDP and modems.  It is one
Linux process of many threads, written against RT-Thread names
(`rt_mq_*`, `rt_mutex_*`) that `das_os.c` maps to pthreads.  What goes wrong in such a
program is seldom a computation: it is a thread that sleeps on a message, a
descriptor number that was given to somebody else, a handshake out of step, a row
that never reaches the disk.  This project models the parts where such things can
happen, in TLA+, checks them with TLC on small instances and proves the most
important results for all instances with TLAPS.

Line numbers in `PROJECT.json` are those of the sources modelled.

## 1. Inventory

Sizes and the complete list are in `PROJECT.json`, `components`.  The parts that carry
logic of their own:

| Part | State | Operations | Talks to | Hard because | Correct when |
|---|---|---|---|---|---|
| Message queue, `block_msg_queue.c` | ring, `head`, `tail`, one condition variable | send, recv (poll, wait, wait with deadline), reset, count | every task: the protocol decoders, the storage, the serial ports, the modems | the wait is not repeated after a wakeup; resets from other threads | it is a bounded fifo queue; no message is lost, repeated or slept upon |
| Byte fifo, `sdccp/bfifo.c` | buffer, free-running `in`, `out`, two condition variables | push, pull, their waits, count, peek, reset | dm101 and the packet monitor | counters wrap; waits are not repeated; `peek` can keep the mutex | bytes come out as they went in; nobody blocks for ever |
| Network helper, `board/net_helper.c` | per entry: `sock_fd`, `tcp_fd[]`, `disconnect`, a list of connections for the web page | a task per entry that connects, or listens and accepts, reads, closes, starts again; `net_send`, `net_disconnect`, `ws_net_try_send` from other threads | the protocol dispatch (`*_startwork`, `*_exitwork`, `*_PutBytes`) | descriptor numbers are reused; checks and a server's closes outside the mutex | bytes go only to the helper's own descriptor; none leaks; it reconnects; a request to disconnect is honoured |
| Protocol tasks, `sdccp/hjt212.c`, `cc_bjdc.c`, `dm101/`, `sdccp_mqtt.c` | a place in a handshake, a queue of three answers or a byte fifo, timers, `s_cc_reinit_flag`, the clocks of the reports | log in or verify, subscribe, report, heartbeat, start over | the network helper in both directions, the Paho client, the variable engine, the storage | the connection changes at any step; answers are matched by order alone; packets come in pieces; the list of variables changes under a round of reports | data goes only to a platform that accepted the gateway on this connection; a silent platform is given up; the handshake succeeds in the end; a round reports everything that is ready and ends |
| Storage, `board/storage.c`, `storage_log.c` | a queue, `s_transaction`, `s_dbinit`, the sqlite connection | add, insert, relimit, commit every ten seconds, commit now, close | all the tasks that measure, the reboot | the code's copy of the state of the transaction; failing statements; loss of power; an unguarded first begin | rows reach the disk, in order, and none goes but above the limit |
| Watchdog, `threaddog/`, `das_daemon.c` | a table of dogs | register, feed, suspend, resume | every task | nothing depends on it: `threaddog_check`, the only reader of the table, has no caller | |
| Serial ports and requests, `serial_helper.c`, `sdccp_smf.c`, `sdccp_dust.c` | reply queues and slots | request, wait, answer | variable engine, modems | late answers; a queue reset by another thread | an answer belongs to its request |
| Modems, `drivers/lora`, `zigbee`, `gprs` | AT mode and its answer queue of one place, the list of nodes, two mutexes | configure in AT mode, keep the nodes (sync posts, heartbeats, ends), transparent data | web pages, variable engine | late answers to a command that timed out; nothing is heard from the nodes in AT mode; one heartbeat in a pass, which takes a second and the time of its sends | an answer belongs to its command; a node that answers is not given up unasked, and comes back |
| Variable engine, `drivers/varmanage` | the sorted list of variables, the chain of modbus requests made from it, sums for averages, a mutex per port | a task per port walks the chain and polls; the web server changes the list and rebuilds the chain, restores a configuration, searches for devices | protocol tasks, rules, web server | the chain is freed under the task that walks it; 16 bit ends of requests; a searching thread deleted in its tracks; the sort of the list | every variable is asked for, again and again; a port is in one hand; the list keeps its variables |
| Configuration, `board/cfg`, `cfg_recover.c` | files, a busy flag | load, save, recover | everything, at startup and from the web pages | an early return that leaves the flag up | the engine is not stopped for ever |

Startup (`das.c`, `startup.c`, `board.c`) creates these in a fixed order; the web
pages (`*_cgi`), the checksums, the conversions of frames and the vendored libraries
(webnet, sqlite, mxml, modbus, Paho) have no protocol of the gateway's own and are not
modelled.  `board_lua.c`, `board_udp.c`, `update.c`, `net_broadcast.c` and some
drivers are not in the Makefile.

Hazards, each at its line and with the properties that would show it, are listed in
`PROJECT.json`, `hazards`.

## 2. The modules

| Module | Models | Abstract specification |
|---|---|---|
| `MsgQueue` | `block_msg_queue.c` | `BoundedQueue` |
| `Bfifo` | `sdccp/bfifo.c`, one fifo | |
| `NetHelper` | `net_helper.c`, one entry as TCP or UDP client | `Link` |
| `NetServer` (extends `NetHelper`) | the same file, one entry as TCP server, in normal or transfer mode, or as UDP server | |
| `Hjt212` (extends `Link`) | `sdccp/hjt212.c`, the work task | |
| `CcBjdc` (extends `Link`) | `sdccp/cc_bjdc.c`, the work task | |
| `Dm101` (extends `Link`) | `sdccp/dm101/`, the work task and its reader of packets | |
| `Mqtt` | `sdccp/sdccp_mqtt.c`, the task of a connection | |
| `Hjt212Pages` | `sdccp/hjt212.c`, the averages and the rounds of reports | |
| `Frames` | `HJT212_PutBytes` and `CC_BJDC_PutBytes`: the frames in what is received | |
| `VarManage` | `drivers/varmanage/varmanage.c`: chain of requests, polling tasks, search, recovery of a configuration | |
| `VarList` | the sorted list of variables of `varmanage.c` | |
| `Lora` | `drivers/lora/`: list of nodes, worker, AT mode | |
| `Storage` | `board/storage.c` (`storage_log.c` has the same shape) | `StableLog` |
| `MsgQueueProofs`, `BfifoProofs`, `NetProofs` (client and server), `TaskProofs` (hjt212, cc_bjdc, mqtt, rounds, frames), `VarManageProofs`, `LoraProofs`, `StorageProofs` | theorems | |
| `FoldLemmas` | facts on sets of numbers, sequences and folds for the proofs | |
| `MCMsgQueue`, `MCBfifo`, `MCHjt212`, `MCCcBjdc` | instances for TLC | |
| `MCNetHelper`, `MCTasks`, `MCModem`, `MCData` | instances in which one of several modules moves, chosen in the initial state (the runs `Dm101`, `VarList` and `Hjt212Pages` take those modules as they are): an entry as client or server, or what is read of it; a connection with one of three protocols; a fifo, a lora network of several nodes or one with a modem that is configured; the polling of the variables, the storage of their values or the reports of them | |

`Link` is the joint of the composition.  `NetHelper` is shown to implement it (property
and theorem `ImplementsLink`), and the protocol tasks are written over it: whatever
holds of a task over `Link` holds of it over `net_helper.c` as a client.  `Link` has no
fairness; the tasks' liveness is conditional on a connection that lasts.

Modules that share no state in the code either are not composed into one state space: in
`MCTasks`, `MCModem` and `MCData` a variable that never changes says which of them moves.

### MsgQueue

`pool`, `head`, `tail` are the fields of `struct block_msg_queue`; `rstate[r]` is where
receiver *r* is in `b_mq_recv`.  A call holds the mutex throughout, so it is one action,
but for the wait: `RecvWait` releases the mutex, a signal (`SignalEmpty`, in
`b_mq_send`), `SpuriousWakeup` or `Expire` ends the wait, and `RecvWoken` or
`RecvExpired` has the mutex again.  The code tests the ring with `if` before the wait
and not after it, so `RecvWoken` takes what is at `head` whatever it is.
`SpuriousWakeups` and `ResetAnytime` choose the environment.  A message is the number
of its send.

### Bfifo

`in` and `out` are counted modulo `Word`, the slot of a byte is the counter modulo
`Size`.  `PushFull`/`PullEmpty` are the waits, `PushWoken`/`PullWoken` what follows
them, again without a second look.  `Peek` is `bfifo_peek` with its early return that
leaves `f->lock` locked; `Count` is the look the dm101 task takes first.

### NetHelper and Link

`pc` follows `_net_task` and `prvRunAsTCPClient` (or `prvRunAsUDPClient`, chosen by
`udp`), each failing call with its way to `exit`.  Descriptors come from `kernel`,
which gives out the lowest free number, to the rest of the program (`OthersOpen`) as
well; so a number that was closed can come back as somebody else's.  The closing
section is taken apart into steps, with `locked` around it; `net_send`'s look at the
descriptor before the mutex is a step of its own (`SendChecks`).  `call` holds where the
other threads are.  `status` is the list for the web page, with the first-fit reuse of
`net_tcpip_state_open`.

`Link` keeps what the tasks see: `up` (`net_isconnect`), `ending` (after `*_exitwork`,
before the descriptor is cleared), `reinit` (`s_cc_reinit_flag`).

### NetServer

`spc` follows `prvRunAsTCPServer` (`prvRunAsUDPServer`): `Listen`, the round of `select`
(`SSelect`), accept (`Accept`), the ends of old clients in transfer mode (`DropOld`), the
place for the new one (`Place`), the reads, and the end of everything under the mutex
(`SLock`, `EndAll`, `ClearAll`).  A client is closed without the mutex in three steps,
`Unlist`, `CloseCli` and `Forget`; between the last two a thread in `net_send` writes to a
number that may be somebody else's, and `strays` records at which place of the task that
has happened.

### Hjt212 and CcBjdc

`pc` follows the work task from `_START`.  In `Hjt212` any message is the answer waited
for, so only the length of the queue is kept.  In `CcBjdc` the kind of a message decides
(`__CC_BJDC_ParsePack`), so the queue is a sequence of kinds, the answers on their way
are `flight`, and `good` says whether the platform answers every request with success.
History variables (`fresh`, `same`, `verified`, `restarted`, `old`, `unanswered`) tell
the properties which connection a login, a pass or a cleared flag belongs to.

### Frames

`HJT212_PutBytes` and `CC_BJDC_PutBytes` are one machine with other marks, `Pre` and `Eom`.
`fbuf` is the buffer up to `s_CCBufferPos`, `rcv` is `s_eRcvState`; an action is a byte, since
TCP cuts the stream anywhere.  `Seek` looks for the mark, `Collect` for the end;
`Lose` cuts the frame and leaves both variables as they are, for only `hjt212_open` and
`cc_bjdc_open` set them back.  `missed` counts the frames that came whole since and were not
handed on.  The marks do not appear in a body: that of hjt212 is text, that of cc_bjdc
is encrypted and may hold one by chance.

### Dm101

`bytes` is the fifo between `dm101_put_bytes` in the network task and `read_pkg` in the work
task; `chunk` the piece the network task is putting, `stream` how much of the current
packet TCP has delivered.  A piece has any length.  `Scan` looks for the head,
`ReadHead`, `ReadPayload` and `ReadCrc` read what there is, as `bfifo_pull` does,
so that a packet may be read short; `intact` says whether what was read is a packet from its
beginning.  A head that is put together from two packets has any `payload_length`, up to
`Beyond`, which stands for all that exceed `recvbuf`: `read_pkg` then takes what the fifo
holds, and `dm_crc32` goes over memory that may not be there, which ends the process
(`Overrun`), or finds the checksum wrong (`Handle`).  The remote reboot
(`RemoteReboot`) begins a new process as well (`Restart`).  `Hello` and `Version` are two of
the three passes over `_START` that move `status` on.

The clock is three bits: `silent`, `dm101_lastrecv` lies 110 seconds back (`Elapse`
sets it, each chunk in `Arrive` and `DClear` take it back); `overdue`, what that was when `Beat`
read the clock; `behind`, `dm101_lastrecv` was set between that and the subtraction in
`Compare`.

### Mqtt

`mpc` follows `__mqtt_work_task` and `__mqtt_reconnect` step by step; each call of the Paho
client succeeds or fails until `stable`, a moment from which the broker can be reached.
`msub` is whether this client has subscribed; `age` are the clocks of the reports, with
index 0 the one the formats td and zy share (`ClockOf`), and `others` the connections
that set it too.

### Hjt212Pages

`PSample` adds the values to the averages; `PReport` begins a round, `PPage` is one call of
`hjt212_report_real_data` (or its copies for minutes and hours): the variables behind
`ppnode` up to one of another station (`Group`), those of them that are ready and fit
(`Framed`), and where the next call goes on (`GoOn`).  Between two calls the web server
may change, add or remove a variable.  `open` is the history of what was ready at the
beginning of the round and is not reported yet.

### VarManage and VarList

`Chain` computes the requests from the list as `__creat_sync_slave_link` does: registers
of a unit in order (`AddExt`), then joined where they touch and fit (`Merge`, ends
sixteen bits wide, here modulo `RegMod`).  `vpc[d]` follows the task of port *d*;
`at[d]` is its pointer into the chain, which after a rebuild dangles (`Stale`) or happens to be a
node of the new chain (`Dangling`).  The web server changes the list and, in a step of
its own, the chain; it restores a configuration (`Recover` to `RecoverDone`, then
`Reboot`) and starts a search.  Deleting the thread of a former search is a deferred
cancellation: it goes on (`doomed`) to the next call that honours it (`Die`), maybe with
the mutex of the port.

`VarList` takes the list apart into records with `next` and `prev`, and the
insertion sort into its pointer assignments.

### Lora

`members` is the list of nodes with the ages the code compares, and with the history
`asked` and `seat`, the place at which the node joined; `stdq` the packets for
the parse thread, `wpc` the worker: sync posts, `CheckOnline`, one heartbeat in a pass.
`Tick` is a second of `time(0)`.  It may fall anywhere in a pass of the worker, which ends with
a delay of a second after sends that are held up, up to `PassMax` times (`ticks`) out of AT
mode and any number of times in it.  What is not slow in the code is done before a `Tick`:
a packet arrives, and is taken up, in the second in which it was sent.
Both mutexes follow from where the threads are (`StdFree`, `ModemFree`).  `apc` is the web
server's thread in a call of `lora_at_set_all` and its kin: it enters AT mode; for each command
it enters it again, which empties the queue of one place (`AtCommand`), and only then writes
the command (`AtSend`); it waits for an answer and leaves.  The receiving thread takes no
mutex, and `RecvAnswer` may come between any two of these.
`owed` are answers of the modem on their way, of which those to former commands are
`"old"`; `given_up` says that a command of this AT session had no answer in time, and `clear`
that nothing was owed at the reset.

### Storage and StableLog

`queue`, `s_dbinit`, `s_transaction` are those of `storage.c`; `pc` is where
`rt_storage_thread` is, `mutex` who holds `s_db_mutex` over more than one step.  sqlite is
`intxn`, `work` (the table as the connection sees it) and `disk` (what survives a loss of
power); its statements fail at will, and a failing one may roll the transaction back by
itself, as sqlite documents for a full disk or an i/o error.  `sqlite3_exec("begin;")` and
the assignment to `s_transaction` are two steps, since the thread's first
`__begin_transaction` is outside the mutex.  `Restart` is a loss of power at any time, or
the reboot after `bStorageDoClose`.  `StableLog` keeps `rows` and `stored` and
allows four steps: a newer row, the removal of the oldest above the limit, everything to
the disk, everything forgotten.

## 3. The runs

| Run | Shows | Bounds and why they are enough |
|---|---|---|
| `MsgQueueSafe` | one receiver that resets its own queue: `ImplementsQueue` (refines `BoundedQueue`), `Delivery` | capacity 3 (four slots), 6 sends: `tail` goes round the ring and the ring is full and empty at every position of `head` |
| `MsgQueueShared` | two receivers, spurious wakeups, resets at any time: `NoLostWakeup`, `InOrder` | the same; two receivers are what the dust sensor has, symmetric |
| `NetHelper` | the client: `SendsOwn`, `NoLeak`, `StatusExact`, `ClientReconnects`, `DisconnectHonoured`, `ImplementsLink`; the server: `ServerKeeps`, `AstrayOnlyForgetting`; what is received: `FewFramesLost` | 4 descriptors and 2 places for clients: one for the listener, two clients, one to spare, so that a number is reused by the helper or by another part and a third client finds no place; one thread that sends and disconnects (the theorems cover any number for the client). Frames of 6 and 10 bytes in a buffer of 16, the smallest `FramesAssumption` admits: the connection is cut at every byte, and what is left over reaches the end of the buffer |
| `Tasks` | hjt212: `ReportsLoggedIn`, `LogsIn`, `SilenceDetected`; cc_bjdc: `ReportsVerified`, `VerifiesFromScratch`; mqtt: `MqttListens`, `MqttConnReports` | 3 answers on their way: as many as the queue holds, so that it overflows; intervals of 2 and 3, neither a multiple of the other; 2 attempts to reconnect |
| `Dm101` | `PutReturns`, `ReportsData`, `Resyncs`, `SilentDropped` | a fifo of 5 bytes for packets of 4, so that a packet and a piece of the next fill it; a wrong `payload_length` from none to one more than the fifo holds, after which longer ones read the same |
| `Data` | the engine: `ChainCovers`, `PortExclusive`, `PassComplete`, `EngineCollects`; storage: `TransactionKnown`, `CloseKeeps`, `Durable`, `ImplementsLog`; the reports of hjt212: `RoundComplete` | engine: 3 variables, two of one unit whose registers overlap, touch, lie apart or reach the last of 8, and one of another port; requests of at most 4; two operations of the web server, so that a change meets a recovery, and a search one before it. Storage: queue of 2, limit 2, one row removed in excess, 5 items: the queue overflows, the table is cut more than once, and rows are inserted across commits, failures and restarts. Reports: 3 variables, 2 stations in any order, one variable in a frame |
| `Modem` | a fifo whose size divides the word: `Conserved`, `Intact`, `NoLostWakeup`, `MutexReleased`; lora: `LoraAnswers`, `LoraDrops`, `LoraNodesOnline` | fifo: size 4, word 8, 9 bytes in chunks up to 3: both counters wrap, and every copy that folds at the end of the buffer happens. lora without AT mode: two nodes, one of which may fall silent, passes of one or two seconds, and times just long enough for the second node (`Sure`). lora with it: one node, and one AT session, in which AT mode is entered three times, of up to two commands each with up to two answers owed: enough for an answer to come late before or after the next command is written, and for the node to be given up meanwhile and come back |
| `BfifoMonitor` (violated) | `Intact` fails for a size that does not divide the word | size 3, word 8 |
| `Hjt212Strikes` (violated) | `TwoStrikes` | none: the module has no constants |
| `CcBjdcAgain` (violated) | `Verifies` | 3 answers on their way |
| `VarList` (violated) | `CountIsNumber` | 4 records and 4 registers: three to be sorted and one to follow |
| `Hjt212Pages` (violated) | `HeartbeatGoesOn` | as in `Data` |

Runs without deadlock checking: `MsgQueueSafe` stops where the senders have used up the
bound and the receiver waits for ever; `Data` where the storage has stored its last item,
or where the flag of a failed recovery and a lost mutex leave the engine nothing to do;
`VarList` only for its size.

### What the violated runs show

* **Byte fifo of the packet monitor.**  `das_monitor.c` creates fifos of 100 * 1024
  bytes.  The slot of a byte is the free-running counter modulo the size; 2^32 is not a
  multiple of 102400, so when `in` wraps, after 4 GiB, the slots jump and the reader gets
  bytes nobody wrote there.  The fifos of 4096 bytes are not affected.
* **hjt212 heartbeats.**  `login_err_count` is declared before the label `_START` and
  survives `goto _START`: after a first reset one unanswered login closes the new
  connection, where the comment says two.
* **cc_bjdc handshake.**  The answer queue is not emptied at `_START`.  A message left
  from a former connection is taken for the first answer, the request is repeated, and
  from then on every answer meets the wrong question, on a connection that lasts and
  with a platform that answers everything.  `VerifiesFromScratch` says what does hold.
* **Sort of the variables.**  When a variable is moved in front of another, the `prev` of the
  node behind that one is set, and the other's own `prev` stays.  Insert a, then b with an
  address not above that of a: b is the head, and the `prev` of a is still NULL.  When
  a is removed, it is taken for the head, and `pList` is set to what follows it: b is off the
  list, and the count is 1.
* **Reports of hjt212.**  A call that puts nothing in its frame does not move `*ppnode`.
  When the variables of the first station have nothing to report and one of another station
  follows, the loop around the call goes on for ever: no averages, no queue, no heartbeat.
  A save on the web page is enough, since it sets all counts of the real data back.

### Worth knowing, though no property is violated

* cc_bjdc: after a mismatch `nPos` goes back to 2 and the first two bytes stay.  When a
  connection is cut after the first byte of a frame, they are `AA AA` from then on, and no
  frame is found any more, over all later connections, until the entry is opened again.
  Cut after the third they may be `AA 55` and be compared out of step, with the same
  result while the frames have an even length, as encrypted ones do.
  `FewFramesLost` excepts just this (`OutOfStep`).
* `MsgQueue` is a queue only in the safe usage: one receiver, no spurious wakeups, no
  reset by another thread.  The dust sensor resets the queue of the serial reader.
* `TransactionKnown` excepts `hasty`: a `bStorageDoCommit` between the opening of the
  database and the end of the thread's first begin leaves a transaction open that
  `s_transaction` denies.  Nothing is then committed until the database is closed, and
  what was inserted since is rolled back by the close.
* Items still in the storage queue when the process reboots are lost; `CloseKeeps` speaks
  of inserted rows only.
* When `s_limit_count` is below `_DEL_NUM`, `__relimit_table` removes every row.  The
  comment at `storage_log.c:15` gives another limit than the definition after it.
* `bStorageCommit` and `nStorage_CC_BJDC_DataDesc` are never called.
* `AstrayOnlyForgetting` has its exception because the server closes its clients without
  the mutex: in that moment `net_send` may write to a descriptor of another part.
* dm101: `rt_tick_get() - dm101_lastrecv` is unsigned and taken without a lock.  When the network
  task sets `dm101_lastrecv` after the clock was read and before it is subtracted, the
  difference is huge, and the task asks for the end of a connection on which something
  has just arrived (`Compare` with `behind`).
* dm101: nothing compares `payload_length` with `recvbuf`; a head whose own checksum is wrong
  is used as it is.
* `varmanage.c:49` limits a request to 100 registers; the comment on that line says 32.
* `ChainCovers` excepts variables whose unit also uses the last register of the slave
  (`AtTop`): the 16 bit end of that request is 0 and the merge goes wrong.
* `EngineCollects` excepts two ends: `cfg_recover_with_json` leaves its flag up when the file
  does not open, and a search deleted while it waits for an answer keeps the mutex of its
  port.  Both last until the next start.
* The destination of a request is set before the mutex of the port is taken
  (`varmanage.c:2403`), so that two users of a port can misdirect a request.
* mqtt: in the formats td and zy the reports share `last_report_data`, so that a longer
  interval starves (`Undisturbed`).  The first connection gives `setCallbacks` its index, a
  reconnect gives it nothing, which `msgarrvd` takes for the index 0: after a loss of the
  connection the commands of any connection are handled with the configuration of the
  first.  A client whose five attempts to subscribe failed counts as good (`MqttListens`).  Reports of the time
  without a connection are lost.
* lora: one heartbeat in a pass, in the order of the list, is not enough for any number of
  nodes.  `LoraDrops` excepts the nodes for which it is not sure to be (`Sure`): with up to two
  seconds in a pass these are the nodes behind the seventh for the `learnstep` of 30, before
  whose turn the first of the list are due again, and those behind the first for one
  of 5, the smallest in the file; the web page accepts smaller ones still
  (`lora_cfg.c:155`).  They may be dropped without having been asked.
* lora: the queue is emptied before a command is written, and an answer to a former command
  that comes after that is taken for its own.  `LoraAnswers` says when that may happen: only
  after a command of the same session that had no answer in time.
* lora: `getLoRaList` walks the list without its mutex.  A clock set back puts every node offline.
* hjt212: a round whose first call finds nothing to report at the first station may end with that
  call, and report nothing of the stations that follow either (`NothingAtFirst`, the exception
  of `RoundComplete`).  A variable that is removed between two calls while `*ppnode` is at it leaves a dangling pointer; the model excludes it.

## 4. Fairness

Weak fairness of a task's steps says that the kernel schedules a thread that can run.
Beyond that:

* `MsgQueue`, `Bfifo`: a woken thread gets the mutex, and a reader reads again: the
  readers are endless loops.  Nothing is assumed of senders, clocks or signals.
* `NetHelper`: strong fairness of `OpenSocket`, `Connected` and `Quiet`.  A peer that can
  be reached again and again is reached in the end, and the line is quiet for the four
  seconds of the `select` again and again; without the second the task would not look
  at `net->disconnect` at all, since it only does so when `select` times out.
* `Hjt212`: strong fairness of `Heartbeat`: `enable_heart` seconds pass.
* `CcBjdc`: weak fairness of the task and of the delivery by the network task.
* `Dm101`: weak fairness of the task and of the network task in `dm101_put_bytes`, and time
  passes (`Elapse`).
* `Mqtt`: weak fairness of the task; `MqttReports` speaks of behaviours in which the broker
  can be reached from some time on.
* `VarManage`: the tasks, the search and an operation of the web server that has begun go
  on, and intervals run out.  Nobody has to start an operation, and an answer comes or
  the read gives up.
* `Lora`: the threads run, a packet that was sent arrives or is dropped by AT mode, and time
  passes (`Tick`).  `LoraDrops` needs no fairness: that a packet takes less than a second is in
  the guard of `Tick`.  The modem may owe answers for ever.
* `Hjt212Pages`: the task runs, intervals run out, minutes and hours begin.
* `NetServer`: none, its properties are of safety.
* `Storage`: weak fairness of the thread and of the holder of the mutex, strong fairness of
  `TimedCommit`: ten seconds pass, and the mutex is not always somebody else's.

## 5. What is proved

All theorems hold for every value of the constants that satisfies the named assumptions
of the modules (`CapacityAssumption`, `ReceiversAssumption`, `SizeAssumption`, ...).

Every invariant and every action property of a passing run is a theorem.

**MsgQueueProofs.**  `TypeCorrect`.  `NeverPhantom`: strengthened by "a woken receiver
finds the ring not empty" (`SafeInv`), which needs that there is one receiver and that
the others' resets are excluded.  `NeverLostWakeup`: `NoLostWakeup` is inductive with the
types; the proof is the bookkeeping of one signal per message, `Count` against the number
of woken receivers, with `DistanceStep` for the arithmetic of the ring without
remainders.  `AlwaysInOrder`: the slots between `head` and `tail` rise (`OrderInv`), with
lemmas on what each operation does to the sequence `Queue`.  `RingIsQueue` is the refinement
of `BoundedQueue`, from `OrderInv` and `NeverPhantom`, under `SafeUsage`: a second receiver
could take from an empty ring, which the abstract queue never does.

**BfifoProofs.**  `TypeCorrect`, `AlwaysConserved` for every size below the word, whether or
not it divides it, and any threads: unsigned arithmetic without remainders (`HeldGrows`,
`HeldShrinks`, `RoomValue`), then the types of every copy.  `MutexAlwaysReleased` and
`NeverLostWakeup` build on them, since a count, or a wait, is about the number of bytes.
`AlwaysIntact` has the hypothesis `Divides`, that the size divides the word; the run
`BfifoMonitor` shows that it is needed.

**NetProofs.**  The client: `TypeCorrect`, `AlwaysSendsOwn`, `NeverLeaks`,
`StatusAlwaysExact`, `HelperIsLink`.  One invariant, `NetInv`: the place of the task says
which of `sock_fd` and `tcp_fd` holds a number (`InHand`), the kernel's view is exactly that
but between `close` and the clearing of the variables (`Owned`), in which moment the task
has the mutex (`Placed`), and the list has at most one node, which shows the open
descriptor (`Listed`).  `SendsOwn` alone is not inductive: a send reads the descriptor again
under the mutex, so its safety is `Placed` and `Owned` together.  The server: `ServerTypes`,
`AlwaysKeeps`, `StraysOnlyForgetting`, from `ServerInv`, which says for each place of the
task which descriptors are its own (`SOwned`), where the loops over the places of
`net->tcp_fd` are, and what the list shows meanwhile.

**TaskProofs.**  `AlwaysLoggedIn` and `AlwaysVerified`, over `Link`.  A login (a pass) is good
as long as nothing happens to its connection (`HSameMeans`, `BSameMeans`); after the clear
of the flag on a good one, the task has that connection or the flag is up again (`HWarned`,
`BWarned`).  With `HelperIsLink`, these hold over `net_helper.c` as a client.  `MqttTypes` and
`AlwaysListens`: which clients of the library and subscriptions there may be at each place of
the task.  `Dm101Types`: the fifo of dm101 keeps its bound under pieces and lengths of any size.  `RoundsComplete`: what was ready and is not reported lies behind `*ppnode`, for all stations
(`Owed`), so that a round that does not end with its first call has reported it all.
`AlwaysFewLost`, from `FrameInv`: what is in the buffer of the parser is a tail of an old stream, a frame
being received, or both, and each case bounds what the next loss costs; for any lengths of
the prefixes and ends up to that of the least frame (`FramesAssumption`).

**VarManageProofs.**  `AlwaysExclusive`: who is where says who has the mutex of a port, also
when a search is deleted.  `AlwaysCovers`: the chain of requests is two folds over the list,
and each is shown step by step to keep the units sorted and each register covered
(`AddKeeps`, `MergeKeeps`).  `AlwaysComplete`: how far the walk of a task over the chain has
come, as long as nobody changed it.

**LoraProofs.**  `AlwaysAnswered`: until a command had no answer in time there is no answer
under way but to the command that waits, and when nothing was owed at the reset neither the
queue nor what is under way holds a former answer (`Unmixed`).  `AlwaysAskedFirst`: a node whose
heartbeat is late waits for those before it in the list whose own is older than its delay
(`Ahead`), and the time these take, `PassMax` each, and the delay are together bounded by its
`seat` (`Turn`): each pass serves one of `Ahead`, and one that was served does not get back into it
while the seat is `Sure`.  It holds for any number of nodes, steps and seconds of a pass; the
nodes it does not speak of are those whose seat is not `Sure`.  `CheckedOneByOne` and `Checked` say
what `lora_check_online` leaves of a list.

**StorageProofs.**  `TransactionAlwaysKnown` and `CloseAlwaysKeeps` follow from `TxnInv`:
the types of the flags, where the holder of the mutex is (`Placed`), which open
transactions `s_transaction` may deny, and only between a begin and its assignment
(`Tracked`), and that outside a transaction table and disk agree (`Settled`).
`CloseKeeps` alone is not inductive: the close keeps the rows because a transaction it
does not know of cannot be open.  `StorageIsLog` is the refinement of `StableLog`: it needs
`Settled` (a row inserted outside a transaction is on disk at once) and `OrderInv` (what is
in the queue, in the thread's hand and in the table is in the order of the items; the
rows are older than all that is to come, also after a loss of power).

**FoldLemmas.**  The folds of the community modules are recursive functions, of which nothing
is known before one is shown to exist.  Theorems about induction and recursion that take an
operator cannot be used with the installed provers; `Induction` and `Recursion` say the same
of sets and of functions, and `FoldExists` and `Flattened` follow.  So the results about the
chain of requests and the list of nodes hold for lists of any length.

Only model-checked: liveness under fairness, which with ENABLED is out of the prover's
reach: `Delivery`, `ClientReconnects`, `DisconnectHonoured`, `LogsIn`, `SilenceDetected`,
`VerifiesFromScratch`, `PutReturns`, `ReportsData`, `Resyncs`, `SilentDropped`,
`MqttConnReports`, `EngineCollects`, `LoraNodesOnline` and `Durable`.  What is said of `VarList` a run
refutes, and nothing is proved of it.  The theorems on a refinement are about the safety part
of the specifications.

## 6. Plan

Done, the most used parts first: message queue, byte fifo, network helper as client and
server, the four protocol tasks, the rounds of reports, storage, the variable engine with
the flag of the recovery, the lora modem; the theorems above.

Next, modelling: the request and reply slots of `sdccp_smf.c` and `sdccp_dust.c` (an answer
belongs to its request); the files of `das_monitor.c`; the rounds of reports of dm101 and
mqtt; the commands that come over mqtt.  Zigbee's AT mode and list of nodes have the shape
of lora's.  The watchdog was on an earlier plan; nobody calls `threaddog_check`, so nothing
the table holds has an effect.

Next, proofs: the steps that the liveness
properties rest on, as far as they are safety (a task over `Link` that is stuck leaves a
trace); what of `VarManage` holds while an operation of the web server is under way.

## 7. Not modelled, and why

* Most of the repository's lines are not the gateway's own: Paho MQTT, webnet, sqlite,
  mxml, modbus, cJSON, the headers of radio chips the Makefile leaves out.  They are modelled
  only as far as `src/software/das` relies on them, and marked external.
* Of the gateway's own code the larger part turns one form of data into another: json to
  structures and back, registers to values, values to frames, web pages.  It keeps no state
  another thread waits for, and no property here depends on it; the meter protocols
  (`dlt645.c`, `mbus_603.c`) encode and decode single frames under the mutex of the port.
* Sizes of messages and contents of rows: a message or a row is its number.
* Time: a timeout is a step that may be taken once its condition holds; ages are kept where
  the code compares them (`Mqtt`, `Lora`).
* `b_mq_delete`, `net_close` and the closing of tasks: they run when nobody uses the object,
  at startup only.
* The simulated descriptors of `bfifo.c`, the settings tables of the storage, queries: no
  state another thread waits for.
* Undefined behaviour after a freed node is used, except where the outcome is one of a few
  (`Dangling` in `VarManage`).
* gprs: `gprs_do_init` waits for an external pppd, and its supervision has no caller.
