-------------------------------- MODULE Mqtt --------------------------------
(***************************************************************************)
(* sdccp/sdccp_mqtt.c: the task of an MQTT connection.  It connects and    *)
(* subscribes, then in every pass of its loop looks after the connection   *)
(* and publishes the reports whose interval is over.                       *)
(*                                                                         *)
(* The client is that of the Paho library, external: its calls succeed or  *)
(* fail.  s_mqtt_run stays 1: mqtt_exitwork is called by mqtt_open alone,  *)
(* before there is a task.  The unit of time is a pass of the loop, which  *)
(* sleeps for a second.  There are variables to report and they can be     *)
(* read.  What a message of the broker asks for (msgarrvd) is not          *)
(* modelled.                                                               *)
(***************************************************************************)
EXTENDS Naturals, Sequences

CONSTANTS Intervals,  \* the intervals of the reports: real time, minutes, hours
          MaxTries    \* MQTT_RECONNECT_TIMES

ASSUME IntervalsAssumption == Intervals \in Seq(Nat \ {0})
ASSUME TriesAssumption == MaxTries \in Nat \ {0}

Period == 1 .. Len(Intervals)
RealTime == 1

VARIABLES
  mcfg,     \* configuration: format, sharp_flag, topic_sub, the reports switched
            \* on; others: another connection has the format td or zy as well
  mpc,      \* where __mqtt_work_task is
  mstate,   \* s_mqtt_state
  clients,  \* how many Paho clients there are
  mup,      \* MQTTClient_isConnected
  msub,     \* this client has subscribed; the broker may also know of an
            \* earlier subscription, cleansession being 0
  tries,    \* reconn_retry
  mper,     \* the report the task is at
  age,      \* how long ago each of the clocks was set; 0 is last_report_data
  stable    \* from now on the broker can be reached and calls succeed

mvars == <<mcfg, mpc, mstate, clients, mup, msub, tries, mper, age, stable>>

MInit ==
  /\ mcfg \in [td : BOOLEAN, sharp : BOOLEAN, topic : BOOLEAN, on : SUBSET Period, others : BOOLEAN]
  /\ mcfg.others => mcfg.td
  /\ mpc = "create" /\ mstate = "init"
  /\ clients = 0 /\ mup = FALSE /\ msub = FALSE
  /\ tries = MaxTries /\ mper = 1
  /\ age = [k \in {0} \cup Period |-> 0]
  /\ stable = FALSE

-----------------------------------------------------------------------------
(* The connection *)

\* MQTTClient_create and MQTTClient_setCallbacks; only the first may fail
\* without a client to show for it.
MCreate ==
  /\ mpc = "create"
  /\ \/ /\ mpc' = "connect" /\ clients' = clients + 1 /\ mstate' = "connecting"
     \/ /\ ~stable /\ mpc' = "exit" /\ clients' \in {clients, clients + 1}
        /\ UNCHANGED mstate
  /\ UNCHANGED <<mcfg, mup, msub, tries, mper, age, stable>>

MConnect ==
  /\ mpc = "connect"
  /\ \/ mpc' = "subscribe" /\ mup' = TRUE
     \/ ~stable /\ mpc' = "exit" /\ UNCHANGED mup
  /\ UNCHANGED <<mcfg, mstate, clients, msub, tries, mper, age, stable>>

MSubscribe ==
  /\ mpc = "subscribe"
  /\ \/ mpc' = "loop" /\ mstate' = "ok" /\ msub' = mcfg.topic
     \/ ~stable /\ mcfg.topic /\ mpc' = "exit" /\ UNCHANGED <<mstate, msub>>
  /\ UNCHANGED <<mcfg, clients, mup, tries, mper, age, stable>>

\* _exit: the client is destroyed, and everything begins again.
MExit ==
  /\ mpc = "exit" /\ mpc' = "create"
  /\ clients' = IF clients > 0 THEN clients - 1 ELSE 0
  /\ mup' = FALSE /\ msub' = FALSE /\ mstate' = "init"
  /\ UNCHANGED <<mcfg, tries, mper, age, stable>>

\* The broker, or the network, ends the connection.
MLost ==
  /\ mup /\ ~stable
  /\ mup' = FALSE
  /\ UNCHANGED <<mcfg, mpc, mstate, clients, msub, tries, mper, age, stable>>

-----------------------------------------------------------------------------
(* __mqtt_reconnect *)

\* The next attempt destroys the client of the last one.
RAttempt ==
  /\ mpc = "again"
  /\ \/ tries = 0 /\ mpc' = "verdict" /\ UNCHANGED <<tries, clients, mup, msub>>
     \/ /\ tries > 0
        /\ tries' = tries - 1
        /\ clients' = IF clients > 0 THEN clients - 1 ELSE 0
        /\ mup' = FALSE /\ msub' = FALSE
        /\ mpc' = "recreate"
  /\ UNCHANGED <<mcfg, mstate, mper, age, stable>>

\* As MCreate, but setCallbacks is given no context, which msgarrvd takes for the
\* index 0: whose commands arrive from now on is not in this model.
RCreate ==
  /\ mpc = "recreate"
  /\ \/ mpc' = "reconnect" /\ clients' = clients + 1
     \/ /\ ~stable /\ mpc' = "again" /\ clients' \in {clients, clients + 1}
  /\ UNCHANGED <<mcfg, mstate, mup, msub, tries, mper, age, stable>>

RConnect ==
  /\ mpc = "reconnect"
  /\ \/ mpc' = "resubscribe" /\ mup' = TRUE
     \/ ~stable /\ mpc' = "again" /\ UNCHANGED mup
  /\ UNCHANGED <<mcfg, mstate, clients, msub, tries, mper, age, stable>>

\* RSubscribe as it would be if its failure were passed over.
RSubscribeOnce ==
  /\ mpc = "resubscribe" /\ mpc' = "verdict"
  /\ \/ msub' = mcfg.topic
     \/ ~stable /\ mcfg.topic /\ UNCHANGED msub
  /\ UNCHANGED <<mcfg, mstate, clients, mup, tries, mper, age, stable>>

RSubscribe ==
  /\ mpc = "resubscribe"
  /\ \/ mpc' = "verdict" /\ msub' = mcfg.topic
     \/ ~stable /\ mcfg.topic /\ mpc' = "again" /\ UNCHANGED msub
  /\ UNCHANGED <<mcfg, mstate, clients, mup, tries, mper, age, stable>>

\* A client that is connected is used, whatever became of its subscription,
\* unless it is lost before the caller has looked at it again.
RVerdict ==
  /\ mpc = "verdict"
  /\ \/ /\ mup /\ mpc' = "report" /\ mper' = 1 /\ mstate' = "ok"
        /\ UNCHANGED <<clients, mup, msub>>
     \/ /\ mup /\ ~stable /\ mpc' = "exit" /\ mup' = FALSE
        /\ UNCHANGED <<clients, msub, mper, mstate>>
     \/ /\ ~mup /\ mpc' = "exit" /\ msub' = FALSE
        /\ clients' = IF clients > 0 THEN clients - 1 ELSE 0
        /\ UNCHANGED <<mup, mper, mstate>>
  /\ UNCHANGED <<mcfg, tries, age, stable>>

-----------------------------------------------------------------------------
(* The loop *)

\* ClockOf as it would be with last_report_data in every format.
ClockOfAny(p) == IF mcfg.sharp /\ p # RealTime THEN p ELSE 0

\* The clock a report goes by: its own, but for the formats td and zy
\* last_report_data, unless sharp_flag ties the report to the time of day.
ClockOf(p) == IF mcfg.td /\ ~(mcfg.sharp /\ p # RealTime) THEN 0 ELSE p

\* A second passes, the averages are brought up to date, and the connection
\* is looked at.  Clocks that no report goes by are left alone.
MLoop ==
  /\ mpc = "loop"
  /\ LET Runs(k) == \E p \in mcfg.on : ClockOf(p) = k /\ age[k] < Intervals[p]
     IN  age' = [k \in DOMAIN age |-> IF Runs(k) THEN age[k] + 1 ELSE age[k]]
  /\ IF mup THEN mpc' = "report" /\ mper' = 1 /\ UNCHANGED <<mstate, tries>>
            ELSE mpc' = "again" /\ mstate' = "connecting" /\ tries' = MaxTries /\ UNCHANGED mper
  /\ UNCHANGED <<mcfg, clients, mup, msub, stable>>

Due(p) == p \in mcfg.on /\ age[ClockOf(p)] >= Intervals[p]

\* The reports in their order.  td and zy set last_report_data for each.
MReport ==
  /\ mpc = "report"
  /\ \/ /\ mper > Len(Intervals)
        /\ mpc' = "loop" /\ UNCHANGED <<mper, age>>
     \/ /\ mper \in Period /\ ~Due(mper)
        /\ mper' = mper + 1 /\ UNCHANGED <<mpc, age>>
     \/ /\ mper \in Period /\ Due(mper)
        /\ age' = [k \in DOMAIN age |->
                     IF k = ClockOf(mper) \/ (mcfg.td /\ k = 0) THEN 0 ELSE age[k]]
        /\ mpc' = "publish" /\ UNCHANGED mper
  /\ UNCHANGED <<mcfg, mstate, clients, mup, msub, tries, stable>>

\* MQTTClient_publishMessage, twice at most and only while connected; what is
\* not sent is not kept.
MPublish ==
  /\ mpc = "publish" /\ mpc' = "report"
  /\ mper' = mper + 1
  /\ UNCHANGED <<mcfg, mstate, clients, mup, msub, tries, age, stable>>

\* Another connection with the format td or zy reports.
MOthers ==
  /\ mcfg.others /\ age[0] # 0
  /\ age' = [age EXCEPT ![0] = 0]
  /\ UNCHANGED <<mcfg, mpc, mstate, clients, mup, msub, tries, mper, stable>>

MStable ==
  /\ ~stable /\ stable' = TRUE
  /\ UNCHANGED <<mcfg, mpc, mstate, clients, mup, msub, tries, mper, age>>

MTaskStep ==
  \/ MCreate \/ MConnect \/ MSubscribe \/ MExit
  \/ RAttempt \/ RCreate \/ RConnect \/ RSubscribe \/ RVerdict
  \/ MLoop \/ MReport \/ MPublish

MNext == MTaskStep \/ MLost \/ MOthers \/ MStable

\* The task runs.
MSpec == MInit /\ [][MNext]_mvars /\ WF_mvars(MTaskStep)

-----------------------------------------------------------------------------
(* Properties *)

\* The types; among other things no attempt, however it fails, leaves a client
\* of the library behind.
MTypeOK ==
  /\ mpc \in {"create", "connect", "subscribe", "exit", "again", "recreate", "reconnect",
              "resubscribe", "verdict", "loop", "report", "publish"}
  /\ mstate \in {"init", "connecting", "ok"}
  /\ clients \in 0 .. 1 /\ mup \in BOOLEAN /\ msub \in BOOLEAN
  /\ mup => clients = 1
  /\ tries \in 0 .. MaxTries /\ mper \in 1 .. Len(Intervals) + 1
  /\ age \in [{0} \cup Period -> Nat] /\ stable \in BOOLEAN

\* A connection that is shown as good has its subscription, however often it
\* was lost and made again; but for one whose last attempt connected and failed
\* to subscribe.  It does not say that the commands that arrive are taken for those
\* of this connection: after a reconnect they are taken for those of index 0.
MqttListens == mstate = "ok" /\ mup /\ mcfg.topic /\ ~msub => tries = 0

\* A report whose clock nobody else sets before it is due.
Undisturbed(p) ==
  \/ ~mcfg.td
  \/ mcfg.sharp /\ p # RealTime
  \/ ~mcfg.others /\ \A q \in mcfg.on \ {p} : p < q /\ Intervals[p] <= Intervals[q]

\* Once the broker can be reached, whatever has happened before, every report
\* that is switched on is published again and again, each at its own
\* interval.  In the formats td and zy only the first and shortest one is.
MqttReports ==
  \A p \in Period :
    p \in mcfg.on /\ Undisturbed(p) /\ <>stable
      => []<>(mpc = "publish" /\ mper = p /\ mup)
=============================================================================
