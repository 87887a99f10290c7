----------------------------- MODULE Hjt212Pages -----------------------------
(***************************************************************************)
(* sdccp/hjt212.c: how the task reports the variables of its connection.   *)
(* In each pass of its loop it adds the value of every variable to its     *)
(* average and then, when a report is due, goes through the list in calls  *)
(* of hjt212_report_..._data.  A call makes one frame, of variables with   *)
(* the same station (nid) and as many as fit, and leaves in *ppnode the    *)
(* variable after which the next call goes on; NULL ends the round.        *)
(*                                                                         *)
(* The reports of real, minute, five minute and hour data are the same     *)
(* code over four averages; one of them is modelled, `real` or another.    *)
(* The lock of the list (rt_enter_critical) is held in a call and not      *)
(* between two, where the web server may change the list.  A variable that *)
(* is disabled counts as absent; the login, the queue and the loss of the  *)
(* connection are the subject of module Hjt212.                            *)
(***************************************************************************)
EXTENDS Naturals, FiniteSetsExt

CONSTANTS NVars,     \* the variables are 1..NVars, in the order of the list
          Nids,       \* the stations
          FrameSize   \* the variables that fit in a frame

ASSUME PagesAssumption ==
  NVars \in Nat \ {0} /\ FrameSize \in Nat \ {0} /\ Nids # {}

PVars == 1..NVars

VARIABLES
  real,     \* configuration: the report of real data
  sharp,    \* configuration: hjtcfg->sharp_flag
  nid,      \* configuration: xUp.szNid of each variable
  listed,   \* the variables on the list for this connection
  full,     \* those with avg->count > 0
  late,     \* those whose avg->time lies more than the interval back
  turned,   \* a new minute, or hour, has begun since the last round
  rpc,      \* where hjt212_work_task is
  ppnode,   \* node of hjt212_work_task; 0 is NULL
  open      \* history: the variables ready at the begin of the round, without
            \* those reported in it, changed or removed since

pcfg  == <<real, sharp, nid>>
plist == <<listed, full, late>>
pvars == <<pcfg, plist, turned, rpc, ppnode, open>>

Ready(v) == v \in full /\ (sharp \/ v \in late)

PInit ==
  /\ real \in BOOLEAN /\ sharp \in BOOLEAN /\ nid \in [PVars -> Nids]
  /\ listed \in SUBSET PVars /\ full = {} /\ late = {}
  /\ turned = FALSE /\ rpc = "sample" /\ ppnode = 0 /\ open = {}

(***************************************************************************)
(* One call of hjt212_report_real_data, or of its copies for the means.    *)
(***************************************************************************)
\* pVarManage_GetExtDataWithUpProto from p to the end of the list.
After(p) == {v \in listed : v > p}

\* What a call from p looks at: up to a variable of another station than that
\* of the first.
Group(p) == {v \in After(p) : \A u \in After(p) : u <= v => nid[u] = nid[Min(After(p))]}

\* The variables the call puts in its frame, in the order of the list.
Framed(p) ==
  LET ready == {v \in Group(p) : Ready(v)}
  IN  {v \in ready : Cardinality({u \in ready : u <= v}) <= FrameSize}

\* The call comes to the end of the list.
Ends(p) ==
  Group(p) = After(p) /\ Cardinality({v \in Group(p) : Ready(v)}) <= FrameSize

\* Mutant: the variable that does not fit counts as done.
GoOnBehind(p) ==
  LET rest == {v \in Group(p) \ Framed(p) : Ready(v)}
  IN  IF Ends(p) THEN 0
      ELSE IF rest # {} THEN Min(rest)
      ELSE IF Framed(p) = {} THEN p ELSE Max(Framed(p))

\* What the call leaves in *ppnode: only a variable in the frame moves it.
GoOn(p) == IF Ends(p) THEN 0 ELSE IF Framed(p) = {} THEN p ELSE Max(Framed(p))

PPage ==
  /\ rpc = "page"
  /\ full' = full \ Framed(ppnode) /\ late' = late \ Framed(ppnode)
  /\ open' = open \ Framed(ppnode)
  /\ ppnode' = GoOn(ppnode)
  /\ rpc' = IF ppnode' = 0 THEN "sample" ELSE "page"
  /\ UNCHANGED <<pcfg, listed, turned>>

(***************************************************************************)
(* The rest of hjt212_work_task's loop.                                    *)
(***************************************************************************)
\* bVarManage_UpdateAvgValue of each variable whose value can be read, up to
\* the one at which s_cc_reinit_flag was raised, if it was.
PSample ==
  /\ rpc = "sample" /\ rpc' = "wait"
  /\ \E read \in SUBSET listed : full' = full \cup read
  /\ UNCHANGED <<pcfg, listed, late, turned, ppnode, open>>

\* The message queue and the heartbeat.
PWait == /\ rpc = "wait" /\ rpc' = "report"
         /\ UNCHANGED <<pcfg, plist, turned, ppnode, open>>

\* The reports: always when each variable has its own time, else when a new
\* minute or hour has begun.
PReport ==
  /\ rpc = "report" /\ ppnode' = 0
  /\ IF sharp /\ ~turned THEN rpc' = "sample" /\ UNCHANGED <<turned, open>>
     ELSE /\ rpc' = "page" /\ turned' = FALSE
          /\ open' = {v \in listed : Ready(v)}
  /\ UNCHANGED <<pcfg, plist>>

PTask == PSample \/ PWait \/ PReport \/ PPage

(***************************************************************************)
(* The clock and the web server.                                           *)
(***************************************************************************)
Elapses(v) == /\ ~sharp /\ v \in listed \ late /\ late' = late \cup {v}
              /\ UNCHANGED <<pcfg, listed, full, turned, rpc, ppnode, open>>

Turns == /\ sharp /\ ~turned /\ turned' = TRUE
         /\ UNCHANGED <<pcfg, plist, rpc, ppnode, open>>

\* setVarManageExtDataWithJson: a variable is new or changed, and the averages
\* of the real data of all variables begin anew.
PSetVar(v) ==
  LET reset == IF real THEN PVars ELSE {v} \ listed IN
  /\ listed' = listed \cup {v}
  /\ full' = full \ reset /\ late' = late \ reset /\ open' = open \ reset
  /\ UNCHANGED <<pcfg, turned, rpc, ppnode>>

\* A variable is removed, but not the one the task's pointer is at.
PRemove(v) ==
  /\ v \in listed /\ (rpc = "page" => v # ppnode)
  /\ listed' = listed \ {v}
  /\ full' = full \ {v} /\ late' = late \ {v} /\ open' = open \ {v}
  /\ UNCHANGED <<pcfg, turned, rpc, ppnode>>

PWeb == \E v \in PVars : PSetVar(v) \/ PRemove(v)

PNext == PTask \/ Turns \/ (\E v \in PVars : Elapses(v)) \/ PWeb

\* The task runs and time passes.
PSpec == /\ PInit /\ [][PNext]_pvars
         /\ WF_pvars(PTask) /\ WF_pvars(Turns) /\ \A v \in PVars : WF_pvars(Elapses(v))

(***************************************************************************)
(* Properties.                                                             *)
(***************************************************************************)
\* A round that ends has reported every variable that was ready at its begin,
\* whatever the web server changed meanwhile and whatever stations follow each
\* other in the list.  The one exception is a round that ends with its first
\* call (*ppnode still NULL), at whose time the first station had nothing to
\* report: it reports nothing at all.
NothingAtFirst == ppnode = 0 /\ \A v \in Group(0) : ~Ready(v)

RoundComplete == [][rpc = "page" /\ rpc' # "page" => open' = {} \/ NothingAtFirst]_pvars

\* hjt212.c:1518, a heartbeat is sent every 15 minutes: when the web server
\* changes the list no more, the task comes to its heartbeat again and again.
HeartbeatGoesOn == <>[][~PWeb]_pvars => []<>(rpc = "wait")
=============================================================================
