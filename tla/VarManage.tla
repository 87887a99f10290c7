------------------------------ MODULE VarManage ------------------------------
(***************************************************************************)
(* The collection of variables by varmanage.c: the list of the configured  *)
(* variables, the chain of modbus requests built from it, the task of each *)
(* serial port that walks the chain and polls, and what disturbs the walk: *)
(* the web server, which changes the list, restores a configuration and    *)
(* starts the search for devices, and the thread of that search.           *)
(*                                                                         *)
(* The list is kept in the order of the variables' own addresses, which is *)
(* the order of Vars: variables that are added in that order are left      *)
(* alone by the sort of module VarList.  A variable that is disabled, and  *)
(* so left out of the chain, counts as absent.                             *)
(***************************************************************************)
EXTENDS Naturals, FiniteSets, SequencesExt

CONSTANTS Vars,       \* the variables, numbers in the order of the list
          Devs,       \* the serial ports whose tasks are looked at
          Unit,       \* Unit[v]: port, slave and function code of variable v
          Places,     \* Places[v]: the registers [addr, size] v may be given
          RegMod,     \* the number of registers of a slave, 2^16
          MaxSize,    \* _SYNC_EXT_MAX_SIZE
          Slaves,     \* the number of slaves a search asks, 247
          MaxOps      \* the bound on the operations the web server starts

Absent == [addr |-> 0, size |-> 0]

\* A position in no chain, which has at most one request for a variable.
Stale == Cardinality(Vars) + 1

ASSUME VarAssumption ==
  /\ IsFiniteSet(Vars) /\ Vars = 1..Cardinality(Vars)
  /\ RegMod \in Nat /\ MaxSize \in Nat
  /\ Slaves \in Nat \ {0} /\ MaxOps \in Nat
  /\ \A v \in Vars : /\ Places[v] \subseteq [addr : Nat, size : 1..MaxSize]
                     /\ \A r \in Places[v] : r.addr + r.size <= RegMod
  /\ \A v \in Vars : Unit[v] \in [dev : STRING, slave : Nat, op : Nat]

VARIABLES
  list,     \* s_xExtDataList: the registers of each variable, or Absent
  link,     \* s_psync_slave, flattened: the requests in the order of the walk
  busy,     \* s_cfg_recover_ing
  web,      \* the web server's thread
  due,      \* due[d]: s_com_last_tick lies more than the interval back
  vpc,       \* vpc[d]: where the task of port d stands
  at,       \* at[d]: its position in the chain: 0 at the start, or Stale
  node,     \* node[d]: sync_node, its copy of the request
  whole,    \* whole[d]: com_flag, every request so far was due
  asked,    \* asked[d]: the requests polled in this pass
  calm,     \* calm[d]: no change of the chain, no recovery in this pass
  port,     \* port[d]: the holder of g_mb_mutex_uart[d]
  flag,     \* group_search_flag
  target,   \* group_search_dev_type
  search,   \* the search's thread: its state, its port, slaves left
  doomed,   \* a search's thread that was deleted and still runs
  ops       \* the number of operations the web server has started

pollVars   == <<vpc, at, node, whole, asked>>
searchVars == <<flag, target, search, doomed>>
vvars == <<list, link, busy, web, ops, due, calm, pollVars, port,
          searchVars>>

(***************************************************************************)
(* The chain of requests.                                                  *)
(***************************************************************************)
Lists   == {l \in [Vars -> (UNION {Places[v] : v \in Vars}) \cup {Absent}] :
              \A v \in Vars : l[v] \in Places[v] \cup {Absent}}
In(l)   == {v \in Vars : l[v] # Absent}
Present == In(list)

\* Mutant: registers count as asked for when some request begins with them.
AddExtByAddr(exts, r) ==
  LET k == Cardinality({i \in DOMAIN exts : exts[i].addr <= r.addr})
  IN  IF \E i \in DOMAIN exts : exts[i].addr = r.addr THEN exts
      ELSE SubSeq(exts, 1, k) \o <<r>> \o SubSeq(exts, k+1, Len(exts))

\* __add_sync_ext_node within one unit: registers asked for already are not
\* asked for again, others go in front of the first that lie higher.
AddExt(exts, r) ==
  LET k == Cardinality({i \in DOMAIN exts : exts[i].addr <= r.addr})
  IN  IF r \in ToSet(exts) THEN exts
      ELSE SubSeq(exts, 1, k) \o <<r>> \o SubSeq(exts, k+1, Len(exts))

\* __find_sync_slave_node and __add_sync_slave_node: the registers r of a unit u
\* not met before go to the end of the chain.
AddNode(chain, u, r) ==
  LET mine == {i \in DOMAIN chain : chain[i].unit = u}
  IN  IF mine = {} THEN Append(chain, [unit |-> u, exts |-> <<r>>])
      ELSE [i \in DOMAIN chain |->
              IF i \in mine THEN [unit |-> u, exts |-> AddExt(chain[i].exts, r)]
              ELSE chain[i]]

\* Mutant: requests that touch are joined whatever their size.
MergeAnySize(exts, r) ==
  LET e == Last(exts)
      a == (e.addr + e.size) % RegMod
      b == (r.addr + r.size) % RegMod
  IN  IF exts = <<>> THEN <<r>>
      ELSE IF e.addr + e.size < r.addr THEN Append(exts, r)
      ELSE IF a >= b THEN exts
      ELSE Append(Front(exts), [e EXCEPT !.size = b - e.addr])

\* One step of __trim_sync_slave_link: the request r joins the last of exts
\* when they touch and fit in one request.  The ends are 16 bits wide.
Merge(exts, r) ==
  LET e == Last(exts)
      a == (e.addr + e.size) % RegMod
      b == (r.addr + r.size) % RegMod
  IN  IF exts = <<>> THEN <<r>>
      ELSE IF e.addr + e.size < r.addr THEN Append(exts, r)
      ELSE IF a >= b THEN exts
      ELSE IF b - e.addr > MaxSize THEN Append(exts, r)
      ELSE Append(Front(exts), [e EXCEPT !.size = b - e.addr])

\* __creat_sync_slave_link for the list l.
Chain(l) ==
  LET units == FoldLeft(LAMBDA c, v : IF v \in In(l) THEN AddNode(c, Unit[v], l[v]) ELSE c,
                        <<>>, [v \in Vars |-> v])
      Asks(u, exts) == [i \in DOMAIN exts |-> [unit |-> u, addr |-> exts[i].addr,
                                              size |-> exts[i].size]]
  IN  FlattenSeq([i \in DOMAIN units |->
        Asks(units[i].unit, FoldLeft(Merge, <<>>, units[i].exts))])

Chains == [l \in Lists |-> Chain(l)]

\* The registers of v lie within the request q.
Inside(v, q) == /\ q.unit = Unit[v]
                /\ list[v].addr >= q.addr
                /\ list[v].addr + list[v].size <= q.addr + q.size

Mine(d) == {q \in ToSet(link) : q.unit.dev = d}

Idle(t) == [at |-> t, dev |-> "none", left |-> 0]

VInit == /\ list \in Lists
        /\ link = Chains[list]
        /\ busy = FALSE /\ web = "idle"
        /\ due = [d \in Devs |-> TRUE]
        /\ vpc = [d \in Devs |-> "check"]
        /\ at = [d \in Devs |-> 0]
        /\ node = [d \in Devs |-> <<>>]
        /\ whole = [d \in Devs |-> TRUE]
        /\ asked = [d \in Devs |-> {}]
        /\ calm = [d \in Devs |-> TRUE]
        /\ port = [d \in Devs |-> "free"]
        /\ flag = FALSE /\ target = "none" /\ ops = 0
        /\ search = Idle("none") /\ doomed = Idle("none")

(***************************************************************************)
(* vVarManage_ExtDataRefreshTask, the task of port d.                      *)
(***************************************************************************)
Goto(d, l) == vpc' = [vpc EXCEPT ![d] = l]

\* The condition of the inner loop.
Check(d) ==
  /\ vpc[d] = "check" /\ Goto(d, IF busy THEN "tail" ELSE "next")
  /\ UNCHANGED <<list, link, busy, web, ops, due, calm, at, node, whole,
                 asked, port, searchVars>>

\* __get_next_sync_ext_node: the request after the one the task stands at, the
\* first one if that is not in the chain any more.
Following(d) == IF at[d] = Stale THEN 1 ELSE at[d] + 1

NextNode(d) ==
  /\ vpc[d] = "next"
  /\ LET i == Following(d) IN
     \/ /\ i > Len(link)
        /\ Goto(d, "tail")
        /\ UNCHANGED <<at, node>>
     \/ /\ i <= Len(link)
        /\ at' = [at EXCEPT ![d] = i]
        /\ IF link[i].unit.dev # d
             THEN Goto(d, "check") /\ UNCHANGED node
             ELSE /\ node' = [node EXCEPT ![d] = link[i]]
                  /\ Goto(d, IF flag /\ target = d THEN "wait" ELSE "poll")
  /\ UNCHANGED <<list, link, busy, web, ops, due, calm, whole, asked, port,
                 searchVars>>

\* A search on this port is waited for.
Wait(d) ==
  /\ vpc[d] = "wait" /\ ~flag /\ Goto(d, "poll")
  /\ UNCHANGED <<list, link, busy, web, ops, due, calm, at, node, whole,
                 asked, port, searchVars>>

\* Mutant: the request is sent without the mutex of the port.
PollUnlocked(d) ==
  /\ vpc[d] = "poll"
  /\ whole' = [whole EXCEPT ![d] = @ /\ due[d]]
  /\ IF due[d]
       THEN /\ port' = [port EXCEPT ![d] = "task"]
            /\ asked' = [asked EXCEPT ![d] = @ \cup {node[d]}]
            /\ Goto(d, "read")
       ELSE Goto(d, "check") /\ UNCHANGED <<port, asked>>
  /\ node' = [node EXCEPT ![d] = <<>>]
  /\ UNCHANGED <<list, link, busy, web, ops, due, calm, at, searchVars>>

\* Mutant: com_flag tells of the last request only.
PollForgetful(d) ==
  /\ vpc[d] = "poll"
  /\ whole' = [whole EXCEPT ![d] = due[d]]
  /\ IF due[d]
       THEN /\ port[d] = "free"
            /\ port' = [port EXCEPT ![d] = "task"]
            /\ asked' = [asked EXCEPT ![d] = @ \cup {node[d]}]
            /\ Goto(d, "read")
       ELSE Goto(d, "check") /\ UNCHANGED <<port, asked>>
  /\ node' = [node EXCEPT ![d] = <<>>]
  /\ UNCHANGED <<list, link, busy, web, ops, due, calm, at, searchVars>>

\* The request is sent when the interval is over, else passed by.
Poll(d) ==
  /\ vpc[d] = "poll"
  /\ whole' = [whole EXCEPT ![d] = @ /\ due[d]]
  /\ IF due[d]
       THEN /\ port[d] = "free"
            /\ port' = [port EXCEPT ![d] = "task"]
            /\ asked' = [asked EXCEPT ![d] = @ \cup {node[d]}]
            /\ Goto(d, "read")
       ELSE Goto(d, "check") /\ UNCHANGED <<port, asked>>
  /\ node' = [node EXCEPT ![d] = <<>>]
  /\ UNCHANGED <<list, link, busy, web, ops, due, calm, at, searchVars>>

\* The answer, or the timeout of modbus_read_registers, gives the port back.
Answer(d) ==
  /\ vpc[d] = "read" /\ Goto(d, "check")
  /\ port' = [port EXCEPT ![d] = "free"]
  /\ UNCHANGED <<list, link, busy, web, ops, due, calm, at, node, whole,
                 asked, searchVars>>

\* The end of a pass: the interval begins anew when all requests were due, and
\* the next pass sets its flag and its position back.
EndPass(d) ==
  /\ vpc[d] = "tail" /\ Goto(d, "check")
  /\ due' = [due EXCEPT ![d] = @ /\ (busy \/ ~whole[d])]
  /\ at' = [at EXCEPT ![d] = 0]
  /\ whole' = [whole EXCEPT ![d] = TRUE]
  /\ asked' = [asked EXCEPT ![d] = {}]
  /\ calm' = [calm EXCEPT ![d] = ~busy]
  /\ UNCHANGED <<list, link, busy, web, ops, node, port, searchVars>>

\* The interval of port d runs out.
Elapse(d) ==
  /\ ~due[d] /\ due' = [due EXCEPT ![d] = TRUE]
  /\ UNCHANGED <<list, link, busy, web, ops, calm, pollVars, port,
                 searchVars>>

Task(d) == Check(d) \/ NextNode(d) \/ Wait(d) \/ Poll(d)
           \/ Answer(d) \/ EndPass(d)

(***************************************************************************)
(* The web server's thread.                                                *)
(***************************************************************************)
\* The tasks keep pointers into the chain.  Once it is freed such a pointer
\* dangles, or is the address of a node of the new chain.
Dangling(new) ==
  {p \in [Devs -> {0, Stale} \cup DOMAIN new] :
     \A d \in Devs : (p[d] = 0) <=> (at[d] = 0)}

\* The web server's thread takes up an operation.
Start(l) == /\ web = "idle" /\ ops < MaxOps
            /\ web' = l /\ ops' = ops + 1

\* setVarManageExtDataWithJson, delVarManageExtData and their kin change the
\* list, then save, sort and build the chain anew.
SetVar(v) ==
  /\ Start("changed")
  /\ \E r \in Places[v] \cup {Absent} :
       r # list[v] /\ list' = [list EXCEPT ![v] = r]
  /\ UNCHANGED <<link, busy, due, calm, pollVars, port, searchVars>>

Rebuild ==
  /\ web = "changed" /\ web' = "idle"
  /\ link' = Chains[list]
  /\ due' = [d \in Devs |-> TRUE]
  /\ calm' = [d \in Devs |-> FALSE]
  /\ asked' = [d \in Devs |-> {}]
  /\ at' \in Dangling(Chains[list])
  /\ UNCHANGED <<list, busy, ops, vpc, node, whole, port, searchVars>>

\* cfg_recover_with_json.  A file that cannot be opened leaves the flag up.
Recover ==
  /\ \E l \in {"idle", "lines"} : Start(l)
  /\ busy' = TRUE
  /\ calm' = [d \in Devs |-> FALSE]
  /\ UNCHANGED <<list, link, due, pollVars, port, searchVars>>

\* No valid line, or lines none of which is of a variable.
RecoverPlain ==
  /\ web = "lines" /\ web' \in {"idle", "reboot"}
  /\ busy' = FALSE
  /\ UNCHANGED <<list, link, ops, due, calm, pollVars, port, searchVars>>

\* The first line of a variable: varmanage_free_all empties the list in the
\* critical section and frees the chain after it.
RecoverVars ==
  /\ web = "lines" /\ web' = "freeing"
  /\ list' = [v \in Vars |-> Absent]
  /\ UNCHANGED <<link, busy, ops, due, calm, pollVars, port, searchVars>>

FreeLink ==
  /\ web = "freeing" /\ web' = "saving"
  /\ link' = <<>> /\ at' \in Dangling(<<>>)
  /\ UNCHANGED <<list, busy, ops, due, calm, vpc, node, whole, asked, port,
                 searchVars>>

\* The variables of the file are saved; the new ones are read at the next start.
RecoverDone ==
  /\ web = "saving" /\ web' = "reboot"
  /\ busy' = FALSE
  /\ UNCHANGED <<list, link, ops, due, calm, pollVars, port, searchVars>>

\* do_search_group: the thread of a former search is deleted.  Deleting is a
\* deferred cancellation, so a thread that runs goes on to a call that honours it.
StartSearch(d) ==
  /\ Start("idle") /\ doomed.at = "none"
  /\ target' = d
  /\ search' = [at |-> "new", dev |-> d, left |-> Slaves]
  /\ doomed' = search
  /\ UNCHANGED <<list, link, busy, due, calm, pollVars, port, flag>>

Web == \/ \E v \in Vars : SetVar(v)
       \/ Rebuild \/ Recover \/ RecoverPlain \/ RecoverVars \/ FreeLink
       \/ RecoverDone
       \/ \E d \in Devs : StartSearch(d)

(***************************************************************************)
(* __do_search_group, run by a thread t that becomes u.                    *)
(***************************************************************************)
\* Mutant: the search ends without lowering its flag.
SearchStepFlagged(t, u) ==
  \/ /\ t.at = "new"
     /\ u = [t EXCEPT !.at = "loop", !.dev = target]
     /\ flag' = TRUE /\ UNCHANGED port
  \/ /\ t.at = "loop" /\ t.left > 0 /\ port[t.dev] = "free"
     /\ u = [t EXCEPT !.at = "reading"]
     /\ port' = [port EXCEPT ![t.dev] = "search"] /\ UNCHANGED flag
  \/ /\ t.at = "reading"
     /\ u = [t EXCEPT !.at = "loop", !.left = @ - 1]
     /\ port' = [port EXCEPT ![t.dev] = "free"] /\ UNCHANGED flag
  \/ /\ t.at = "loop" /\ t.left = 0
     /\ u = Idle("none")
     /\ UNCHANGED <<flag, port>>

SearchStep(t, u) ==
  \/ /\ t.at = "new"
     /\ u = [t EXCEPT !.at = "loop", !.dev = target]
     /\ flag' = TRUE /\ UNCHANGED port
  \/ /\ t.at = "loop" /\ t.left > 0 /\ port[t.dev] = "free"
     /\ u = [t EXCEPT !.at = "reading"]
     /\ port' = [port EXCEPT ![t.dev] = "search"] /\ UNCHANGED flag
  \/ /\ t.at = "reading"
     /\ u = [t EXCEPT !.at = "loop", !.left = @ - 1]
     /\ port' = [port EXCEPT ![t.dev] = "free"] /\ UNCHANGED flag
  \/ /\ t.at = "loop" /\ t.left = 0
     /\ u = Idle("none")
     /\ flag' = FALSE /\ UNCHANGED port

Search ==
  /\ \/ SearchStep(search, search') /\ UNCHANGED doomed
     \/ SearchStep(doomed, doomed') /\ UNCHANGED search
  /\ UNCHANGED <<list, link, busy, web, ops, due, calm, pollVars,
                 target>>

\* The deleted thread ends where it waits: for its start, or for an answer
\* with the mutex of the port taken.
Die ==
  /\ doomed.at \in {"new", "reading"}
  /\ doomed' = Idle("none")
  /\ port' = IF doomed.at = "new" THEN port
             ELSE [port EXCEPT ![doomed.dev] = "dead"]
  /\ UNCHANGED <<list, link, busy, web, ops, due, calm, pollVars, flag,
                 target, search>>

\* vDoSystemReboot: everything starts from the saved configuration.
Reboot ==
  /\ web = "reboot" /\ web' = "idle"
  /\ list' \in Lists
  /\ link' = Chains[list']
  /\ due' = [d \in Devs |-> TRUE] /\ calm' = [d \in Devs |-> TRUE]
  /\ vpc' = [d \in Devs |-> "check"] /\ at' = [d \in Devs |-> 0]
  /\ node' = [d \in Devs |-> <<>>] /\ whole' = [d \in Devs |-> TRUE]
  /\ asked' = [d \in Devs |-> {}] /\ port' = [d \in Devs |-> "free"]
  /\ flag' = FALSE /\ target' = "none"
  /\ search' = Idle("none") /\ doomed' = Idle("none")
  /\ UNCHANGED <<busy, ops>>

VNext == \/ \E d \in Devs : Task(d) \/ Elapse(d)
        \/ Web \/ Search \/ Die \/ Reboot

\* The threads run, an operation of the web server that has begun goes on, an
\* answer comes or is given up, and time passes.  Nobody has to start an
\* operation.
WebPlaces == {"idle", "changed", "lines", "freeing", "saving", "reboot"}
WebGoesOn == web # "idle" /\ web' \in WebPlaces \ {web}

Fairness == /\ \A d \in Devs : WF_vvars(Task(d)) /\ WF_vvars(Elapse(d))
            /\ WF_web(WebGoesOn)
            /\ WF_vvars(Search)

VSpec == VInit /\ [][VNext]_vvars /\ Fairness

(***************************************************************************)
(* Properties.                                                             *)
(***************************************************************************)
Requests == [unit : {Unit[v] : v \in Vars}, addr : 0..RegMod-1,
             size : 1..MaxSize]
Threads  == [at : {"none", "new", "loop", "reading"}, dev : Devs \cup {"none"},
             left : 0..Slaves]

\* The type of the state: among other things a request asks for 1 to MaxSize
\* registers, within the slave.
VTypeOK ==
  /\ list \in Lists
  /\ \A i \in DOMAIN link : link[i] \in Requests
  /\ busy \in BOOLEAN
  /\ web \in WebPlaces
  /\ due \in [Devs -> BOOLEAN] /\ calm \in [Devs -> BOOLEAN]
  /\ vpc \in [Devs -> {"check", "next", "wait", "poll", "read", "tail"}]
  /\ \A d \in Devs : at[d] \in {0, Stale} \cup DOMAIN link
  /\ whole \in [Devs -> BOOLEAN]
  /\ \A d \in Devs : asked[d] \subseteq Requests
  /\ port \in [Devs -> {"free", "task", "search", "dead"}]
  /\ flag \in BOOLEAN /\ target \in Devs \cup {"none"}
  /\ search \in Threads /\ doomed \in Threads
  /\ ops \in 0..MaxOps

\* A variable whose unit also uses the last register of the slave: the 16 bit
\* end of that one is 0, and the merge of requests goes wrong.
AtTop(v) == \E w \in Present : /\ Unit[w] = Unit[v]
                               /\ list[w].addr + list[w].size = RegMod

\* A request asks for no more registers than one may, and while the list is at
\* rest the chain asks for the registers of every variable in one request,
\* whatever overlaps, touches or repeats; what a refresh applies an answer to
\* is exactly a variable inside the request.
ChainCovers ==
  /\ \A i \in DOMAIN link : link[i].size <= MaxSize
  /\ web = "idle" =>
       \A v \in Present : AtTop(v) \/ \E i \in DOMAIN link : Inside(v, link[i])

\* A pass that puts the clock of its port back has polled every request of the
\* port, unless the chain was changed under it.
PassComplete ==
  [][\A d \in Devs : due[d] /\ ~due'[d] /\ calm[d] => Mine(d) \subseteq asked[d]]_vvars

\* A port is in one hand: the task waits for an answer only while it holds the
\* mutex, whatever searches are started, end or are deleted meanwhile.
PortExclusive ==
  \A d \in Devs :
    /\ vpc[d] = "read" <=> port[d] = "task"
    /\ port[d] = "search" <=>
         \/ search.at = "reading" /\ search.dev = d
         \/ doomed.at = "reading" /\ doomed.dev = d

\* A variable that stays configured is polled again and again once the changes
\* have ended, a started search not excepted.  Only two things stop it: the flag
\* of a recovery whose file could not be opened, and the mutex of the port,
\* lost with a search that was deleted while it waited for an answer.
Collected ==
  \A v \in Vars : LET d == Unit[v].dev IN
    d \in Devs =>
      (<>[](/\ web = "idle" /\ ~busy /\ v \in Present /\ ~AtTop(v)
            /\ port[d] # "dead")
        => []<>(\E q \in asked[d] : Inside(v, q)))
=============================================================================
