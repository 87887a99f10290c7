-------------------------------- MODULE Lora --------------------------------
(***************************************************************************)
(* The lora modem as the central of its network: the list of nodes of      *)
(* lora_std.c, kept by the parse thread (what the nodes send) and the      *)
(* worker thread (sync posts, heartbeats, the ends of silent nodes), and   *)
(* the AT mode of lora.c, in which the web server's thread configures the  *)
(* modem while nothing is heard from the nodes.                            *)
(*                                                                         *)
(* s_lora_std_mutex guards the list and is held while a packet is sent,    *)
(* which takes s_lora_mutex; AT mode holds the latter alone.  Both are     *)
(* recursive.  Who holds them follows from where the threads are.          *)
(*                                                                         *)
(* Times of a node are kept as ages in seconds, each while the code looks  *)
(* at it and up to the age it is compared with.  A pass of the worker ends *)
(* with a delay of a second; what it and the parse thread send before      *)
(* takes time too, so that time(0) moves on by one second or more in a     *)
(* pass.  The minute between two questions for a node's signal is long     *)
(* against the other times; which node is due for one is left open.        *)
(***************************************************************************)
EXTENDS Naturals, FiniteSets, SequencesExt

CONSTANTS LNodes,      \* the nodes in the network
          Good,        \* those that never fall silent
          LearnStep,   \* g_lora_cfg.learnstep
          HrtAfter,    \* the age of last_hrt_time to exceed, 15
          PassMax,     \* the seconds of a pass of the worker out of AT mode, at most
          StdLen,      \* the places of s_lora_std_queue, 5
          MaxCmds,     \* the commands of one AT session
          MaxOwed,     \* the answers the modem may owe at once
          MaxSessions  \* the bound on the changes of the configuration

ASSUME LoraAssumption ==
  /\ IsFiniteSet(LNodes) /\ Good \subseteq LNodes
  /\ LearnStep \in Nat \ {0} /\ HrtAfter \in Nat /\ PassMax \in Nat \ {0}
  /\ StdLen \in Nat \ {0} /\ MaxCmds \in Nat \ {0}
  /\ MaxOwed \in Nat /\ MaxSessions \in Nat

VARIABLES
  members,  \* s_lora_mnode: the list of nodes
  stdq,     \* s_lora_std_queue: packets <<node, kind>>
  ppc,      \* the parse thread: waits, has a packet, sends with the list locked
  pmsg,     \* the packet it has
  wpc,      \* the worker thread
  wnode,    \* the node it writes to
  ticks,    \* the seconds of this pass
  syncage,  \* the age of s_lora_last_sync_sec
  apc,      \* the web server's thread
  calls,    \* lora_at_req_all, lora_at_set_all, lora_at_req_all_cfg: left
  cmds,     \* commands left in this call
  hold,     \* s_lora_in_at_hold
  in_at,    \* s_lora_in_at
  cmdq,     \* s_lora_cmd_queue, of one place
  owed,     \* the answers of the modem on their way
  clear,    \* the modem owed no answer when the queue was reset for this command
  given_up, \* a command since AT mode was entered had no answer in time
  air,      \* the packets of the nodes on their way
  silent,   \* the nodes that have fallen silent
  sessions

listVars  == <<members, stdq, ppc, pmsg>>
workVars  == <<wpc, wnode, ticks>>
atVars    == <<apc, calls, cmds, hold, in_at, cmdq, owed, clear,
               given_up, sessions>>
lvars     == <<listVars, workVars, syncage, atVars, air, silent>>

\* The mutexes.  A packet is sent in one step that takes s_lora_mutex.
StdFree   == wpc \notin {"sync", "hrtsend", "rssisend"} /\ ppc # "send"
ModemFree == apc \in {"idle", "enter", "learn"}

Up(x, cap) == IF x < cap THEN x + 1 ELSE x

Seat(n) == {i \in DOMAIN members : members[i].id = n}
On(n)   == \E i \in Seat(n) : members[i].on
Asked(n) == \E i \in Seat(n) : members[i].asked

(***************************************************************************)
(* The list of nodes, lora_std.c.                                          *)
(***************************************************************************)
\* Node n at place i of the list, just heard.  Its seat is that place, which moves
\* to the front as others before it are removed.
Entry(n, i) == [id |-> n, on |-> TRUE, last |-> 0, hrt |-> 0, off |-> 0,
                asked |-> FALSE, seat |-> i]

\* lora_mnode_online, lora_mnode_update_rssi: the node was heard.
Heard(ms, n) ==
  [i \in DOMAIN ms |-> IF ms[i].id = n THEN Entry(n, i) ELSE ms[i]]

\* lora_mnode_insert: a new node goes to the end of the list.
Insert(ms, n) ==
  IF \E i \in DOMAIN ms : ms[i].id = n THEN Heard(ms, n)
  ELSE Append(ms, Entry(n, Len(ms) + 1))

\* lora_check_online for node e, with the nodes kept before it: a silent node goes
\* offline, as if since three steps; one that was offline before goes when ten
\* steps have passed.
CheckNode(kept, e) ==
  CASE e.on /\ e.last >= 4 * LearnStep ->
         Append(kept, [Entry(e.id, e.seat) EXCEPT !.on = FALSE, !.off = 3 * LearnStep])
    [] ~e.on /\ e.off >= 10 * LearnStep -> kept
    [] OTHER -> Append(kept, e)

CheckOnline(ms) == FoldLeft(CheckNode, <<>>, ms)

\* The first node of the list whose heartbeat is due; 0 is none.
FirstDue ==
  LET s == {i \in DOMAIN members : members[i].on /\ members[i].hrt > HrtAfter}
  IN  IF s = {} THEN 0 ELSE CHOOSE i \in s : \A j \in s : i <= j

\* A second passes.  With the modem in AT mode nobody can be asked, which
\* excuses a node.
Aged(ms) ==
  [i \in DOMAIN ms |->
     IF ms[i].on
       THEN [ms[i] EXCEPT !.last = Up(@, 4 * LearnStep),
                          !.hrt = Up(@, HrtAfter + 1),
                          !.asked = @ \/ ~ModemFree]
       ELSE [ms[i] EXCEPT !.off = Up(@, 10 * LearnStep)]]

\* The parse thread has nothing to do, or waits for the end of AT mode, maybe
\* behind the worker.
ParseWaits ==
  CASE ppc = "wait" -> stdq = <<>>
    [] ppc = "lock" -> ~StdFree /\ ~ModemFree
    [] ppc = "send" -> ~ModemFree

\* time(0) moves on.  A node answers within the second, and a packet is taken up in
\* it; what is slow is the sending (__lora_hold_do), the delay of the worker, and
\* the AT mode.
Tick ==
  /\ air = {} /\ (ppc = "wait" => stdq = <<>>) /\ (ppc = "lock" => ~StdFree)
  /\ \/ ~ModemFree /\ ticks' = ticks
     \/ /\ ModemFree /\ ticks' = ticks + 1
        /\ ticks' < PassMax \/ (ticks' = PassMax /\ wpc = "delay")
  /\ members' = Aged(members)
  /\ syncage' = Up(syncage, LearnStep)
  /\ wpc' = IF wpc = "delay" THEN "rested" ELSE wpc
  /\ UNCHANGED <<stdq, ppc, pmsg, wnode, atVars, air, silent>>

\* What node n, when it is sent something, puts on the air.
Reply(n, kind) == air' = air \cup ({n} \ silent) \X {kind}

LInit ==
  /\ members = <<>> /\ stdq = <<>> /\ air = {} /\ silent = {}
  /\ ppc = "wait" /\ pmsg = <<>>
  /\ wpc = "top" /\ wnode = 0 /\ ticks = 0 /\ syncage = LearnStep
  /\ apc = "idle" /\ calls = 0 /\ cmds = 0 /\ hold = 0 /\ in_at = FALSE
  /\ cmdq = <<>> /\ owed = <<>> /\ clear = TRUE /\ given_up = FALSE
  /\ sessions = 0

(***************************************************************************)
(* __lora_recv_buffer, by the receiving thread.                            *)
(***************************************************************************)
\* A packet of a node.  In AT mode it does not end as an answer does, and is
\* dropped, as it is when the queue is full.  Between two packets on the air
\* there is time enough to deal with the first.
RecvPacket ==
  \E m \in air :
    /\ ParseWaits /\ air' = air \ {m}
    /\ stdq' = IF in_at \/ Len(stdq) = StdLen THEN stdq ELSE Append(stdq, m)
    /\ UNCHANGED <<members, ppc, pmsg, workVars, syncage, atVars, silent>>

\* An answer of the modem, lost when there is one in the queue.
RecvAnswer ==
  /\ owed # <<>> /\ owed' = Tail(owed)
  /\ cmdq' = IF in_at /\ cmdq = <<>> THEN <<Head(owed)>> ELSE cmdq
  /\ UNCHANGED <<listVars, workVars, syncage, apc, calls, cmds, hold, in_at,
                 clear, given_up, sessions, air, silent>>

(***************************************************************************)
(* __lora_parse_thread.                                                    *)
(***************************************************************************)
ParseRecv ==
  /\ ppc = "wait" /\ stdq # <<>>
  /\ ppc' = "lock" /\ pmsg' = Head(stdq) /\ stdq' = Tail(stdq)
  /\ UNCHANGED <<members, workVars, syncage, atVars, air, silent>>

\* __lora_std_parse_buffer up to a send: an answer to a heartbeat or about the
\* signal is noted; an online post and an info are answered.
ParseLock ==
  /\ ppc = "lock" /\ StdFree
  /\ LET n == pmsg[1] kind == pmsg[2] IN
       CASE kind = "online" -> ppc' = "send" /\ UNCHANGED <<members, pmsg>>
         [] kind = "info" -> /\ ppc' = "send" /\ UNCHANGED pmsg
                             /\ members' = Insert(members, n)
         [] OTHER -> /\ ppc' = "wait" /\ pmsg' = <<>>
                     /\ members' = Heard(members, n)
  /\ UNCHANGED <<stdq, workVars, syncage, atVars, air, silent>>

\* __lora_send_info_req, or __lora_send_join_post and lora_mnode_online.
ParseSend ==
  /\ ppc = "send" /\ ModemFree
  /\ ppc' = "wait" /\ pmsg' = <<>>
  /\ IF pmsg[2] = "online"
       THEN Reply(pmsg[1], "info") /\ UNCHANGED members
       ELSE members' = Heard(members, pmsg[1]) /\ UNCHANGED air
  /\ UNCHANGED <<stdq, workVars, syncage, atVars, silent>>

Parse == ParseRecv \/ ParseLock \/ ParseSend

(***************************************************************************)
(* __lora_worker_thread.                                                   *)
(***************************************************************************)
\* The time of the sync post is that of the beginning of the loop.
WorkTop ==
  /\ wpc = "top"
  /\ \/ syncage < LearnStep /\ wpc' = "check"
     \/ syncage = LearnStep /\ StdFree /\ wpc' = "sync"
  /\ syncage' = IF syncage = LearnStep THEN 0 ELSE syncage
  /\ UNCHANGED <<ticks, listVars, wnode, atVars, air, silent>>

\* __lora_send_sync_post: the nodes that are not accepted announce themselves.
WorkSync ==
  /\ wpc = "sync" /\ ModemFree
  /\ wpc' = "check"
  /\ air' = air \cup {n \in LNodes \ silent : ~On(n)} \X {"online"}
  /\ UNCHANGED <<ticks, listVars, wnode, syncage, atVars, silent>>

WorkCheck ==
  /\ wpc = "check" /\ StdFree /\ wpc' = "hrt"
  /\ members' = CheckOnline(members)
  /\ UNCHANGED <<ticks, stdq, ppc, pmsg, wnode, syncage, atVars, air, silent>>

\* Mutant: the time of the heartbeat is not noted, and the first node stays due.
WorkHrtForgotten ==
  /\ wpc = "hrt" /\ StdFree
  /\ IF FirstDue = 0 THEN wpc' = "rssi" /\ UNCHANGED wnode
     ELSE wpc' = "hrtsend" /\ wnode' = members[FirstDue].id
  /\ UNCHANGED members
  /\ UNCHANGED <<ticks, stdq, ppc, pmsg, syncage, atVars, air, silent>>

\* lora_mnode_check_hrt.
WorkHrt ==
  /\ wpc = "hrt" /\ StdFree
  /\ IF FirstDue = 0 THEN wpc' = "rssi" /\ UNCHANGED <<wnode, members>>
     ELSE /\ wpc' = "hrtsend" /\ wnode' = members[FirstDue].id
          /\ members' = [members EXCEPT ![FirstDue].hrt = 0]
  /\ UNCHANGED <<ticks, stdq, ppc, pmsg, syncage, atVars, air, silent>>

\* lora_mnode_check_rssi: no node is due, or one of those online.
WorkRssi ==
  /\ wpc = "rssi" /\ StdFree
  /\ \/ wpc' = "delay" /\ UNCHANGED wnode
     \/ \E n \in LNodes : On(n) /\ wpc' = "rssisend" /\ wnode' = n
  /\ UNCHANGED <<ticks, listVars, syncage, atVars, air, silent>>

\* __lora_send_hrt_post, __lora_send_rssi_req: the node is asked.
WorkSend(from, to, kind) ==
  /\ wpc = from /\ ModemFree
  /\ wpc' = to /\ wnode' = 0
  /\ members' = [i \in DOMAIN members |->
       IF members[i].id = wnode THEN [members[i] EXCEPT !.asked = TRUE] ELSE members[i]]
  /\ Reply(wnode, kind)
  /\ UNCHANGED <<ticks, stdq, ppc, pmsg, syncage, atVars, silent>>

\* The delay of a second is over.
WorkDelay ==
  /\ wpc = "rested" /\ wpc' = "top" /\ ticks' = 0
  /\ UNCHANGED <<listVars, wnode, syncage, atVars, air, silent>>

Work == \/ WorkTop \/ WorkSync \/ WorkCheck \/ WorkHrt \/ WorkRssi \/ WorkDelay
        \/ WorkSend("hrtsend", "rssi", "heard")
        \/ WorkSend("rssisend", "delay", "heard")

(***************************************************************************)
(* The AT mode, by the web server's thread.                                *)
(***************************************************************************)
\* setLoRaCfgWithJson: something was changed.
SetLoRaCfg ==
  /\ apc = "idle" /\ sessions < MaxSessions
  /\ apc' = "enter" /\ calls' = 3 /\ sessions' = sessions + 1
  /\ UNCHANGED <<listVars, workVars, syncage, cmds, hold, in_at, cmdq, owed,
                 clear, given_up, air, silent>>

\* Mutant: the answers of former commands stay in the queue.
EnterAtFull == /\ hold' = hold + 1 /\ in_at' = TRUE
               /\ cmdq' = [i \in DOMAIN cmdq |-> "old"]

\* lora_enter_at_mode.
EnterAt == /\ hold' = hold + 1 /\ in_at' = TRUE /\ cmdq' = <<>>

\* Mutant: the mark of AT mode stays.
ExitAtMarked == hold' = hold - 1 /\ UNCHANGED in_at

\* lora_exit_at_mode.
ExitAt == hold' = hold - 1 /\ in_at' = (in_at /\ hold' # 0)

\* lora_at_req_all and lora_at_set_all enter AT mode for all their commands.  The
\* modem does not pass on packets in that mode.
AtEnter ==
  /\ apc = "enter" /\ calls > 1 /\ EnterAt
  /\ apc' = "held" /\ cmds' \in 1..MaxCmds
  /\ air' = {}
  /\ UNCHANGED <<listVars, workVars, syncage, calls, owed, clear, given_up,
                 sessions, silent>>

\* A command begins.  What the modem owes now belongs to former commands.
AtCommand ==
  /\ EnterAt /\ apc' = "cmd"
  /\ owed' = [i \in DOMAIN owed |-> "old"] /\ clear' = (owed = <<>>)
  /\ UNCHANGED <<listVars, workVars, syncage, calls, cmds, given_up, sessions, silent>>

\* A command of lora_at_req_all, one of lora_at_set_all, and AT+CFG?.
AtReq    == apc = "held" /\ calls = 3 /\ cmds > 0 /\ AtCommand /\ UNCHANGED air
AtSet    == apc = "held" /\ calls = 2 /\ cmds > 0 /\ AtCommand /\ UNCHANGED air
AtReqCfg == apc = "enter" /\ calls = 1 /\ AtCommand /\ air' = {}

\* __lora_printf_at: the command is written, to be answered, AT+CFG? in up to two
\* pieces, or not at all.
AtSend ==
  /\ apc = "cmd" /\ apc' = "wait"
  /\ \E k \in 0..(IF calls = 1 THEN 2 ELSE 1) :
       /\ Len(owed) + k <= MaxOwed
       /\ owed' = owed \o [i \in 1..k |-> "own"]
  /\ UNCHANGED <<listVars, workVars, syncage, calls, cmds, hold, in_at, cmdq,
                 clear, given_up, sessions, air, silent>>

\* The call is over.  Out of AT mode the modem gives no answers.
Leave == /\ calls' = calls - 1 /\ owed' = <<>> /\ given_up' = FALSE
         /\ apc' = IF calls = 1 THEN "learn" ELSE "enter"

\* The command is over.
AtDone == apc' = "held" /\ cmds' = cmds - 1 /\ UNCHANGED <<calls, owed>>

\* __lora_wait_at_result has an answer; lora_at_req_all_cfg waits for more.
AtTake ==
  /\ apc = "wait" /\ cmdq # <<>>
  /\ cmdq' = <<>>
  /\ IF calls = 1 THEN UNCHANGED <<apc, calls, cmds, hold, in_at, owed, clear>>
     ELSE AtDone /\ ExitAt /\ clear' = TRUE
  /\ UNCHANGED <<listVars, workVars, syncage, given_up, sessions, air, silent>>

AtTimeout ==
  /\ apc = "wait" /\ cmdq = <<>> /\ ExitAt /\ clear' = TRUE
  /\ IF calls = 1 THEN Leave /\ UNCHANGED cmds ELSE AtDone /\ given_up' = TRUE
  /\ UNCHANGED <<listVars, workVars, syncage, cmdq, sessions, air, silent>>

\* The end of lora_at_req_all or lora_at_set_all.
AtExit ==
  /\ apc = "held" /\ cmds = 0 /\ ExitAt /\ Leave
  /\ cmdq' = [i \in DOMAIN cmdq |-> "old"]
  /\ UNCHANGED <<listVars, workVars, syncage, cmds, clear, sessions, air, silent>>

\* lora_learn_now.  The worker overwrites it when it has a sync post to send.
LearnNow ==
  /\ apc = "learn" /\ apc' = "idle"
  /\ syncage' = IF wpc = "sync" THEN syncage ELSE LearnStep
  /\ UNCHANGED <<listVars, workVars, calls, cmds, hold, in_at, cmdq, owed,
                 clear, given_up, sessions, air, silent>>

Configure == \/ AtEnter \/ AtReq \/ AtSet \/ AtReqCfg \/ AtSend \/ AtTake \/ AtTimeout
             \/ AtExit \/ LearnNow

\* A node loses its power or goes out of reach.
FallSilent ==
  \E n \in LNodes \ (Good \cup silent) :
    /\ silent' = silent \cup {n}
    /\ UNCHANGED <<listVars, workVars, syncage, atVars, air>>

LNext == RecvPacket \/ RecvAnswer \/ Parse \/ Work \/ Tick \/ SetLoRaCfg
         \/ Configure \/ FallSilent

\* The threads run, packets arrive, and time passes.
LSpec == /\ LInit /\ [][LNext]_lvars
         /\ WF_lvars(RecvPacket) /\ WF_lvars(Parse) /\ WF_lvars(Work)
         /\ WF_lvars(Configure) /\ WF_lvars(Tick)

(***************************************************************************)
(* Properties.                                                             *)
(***************************************************************************)
\* The answer of a former command is taken for that of this one only when a command
\* since AT mode was entered had no answer in time, and the modem still owed that
\* answer when the queue was reset (lora.c, lora_enter_at_mode): the receiving
\* thread puts it in the queue after the reset, before the command is written or
\* later.  A command after answered ones takes its own answer or none.
LoraAnswers ==
  apc \in {"cmd", "wait"} /\ cmdq = <<"old">> => given_up /\ ~clear

\* The heartbeats, one in a pass, reach a node at seat s in time: each node before
\* it is served once, and not due again before its turn.
Sure(s) == /\ PassMax * (s + 1) <= HrtAfter + 1
           /\ HrtAfter + PassMax * (s + 1) < 4 * LearnStep

\* A node is given up only when it was asked, by a heartbeat or for its signal,
\* after it was last heard, or when AT mode was in the way of that, or when it was
\* too far down the list (lora_std.c, lora_check_online and lora_mnode_check_hrt).
\* With two seconds in a pass that is behind the seventh node for a learnstep of
\* 30, and behind the first for one of 5.
LoraDrops ==
  [][\A n \in LNodes : On(n) /\ ~On(n)' =>
       Asked(n) \/ \E i \in Seat(n) : ~Sure(members[i].seat)]_lvars

\* A node that answers is on the list in the end and stays online, though it
\* was given up, and maybe removed, while the modem was in AT mode.
LoraOnline == \A n \in Good : <>[]On(n)
=============================================================================
