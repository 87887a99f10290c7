------------------------------ MODULE MCTasks ------------------------------
(***************************************************************************)
(* The protocol tasks for TLC.  A connection has the protocol its          *)
(* configuration names, cc_cfg, and so one of the tasks; the state of the  *)
(* others stays as it was.  The dm101 task is checked by itself.           *)
(***************************************************************************)
EXTENDS Hjt212, CcBjdc, Mqtt

VARIABLE proto    \* the protocol of the connection

hOwn == <<verify, heart, htaskVars>>
bOwn == <<good, taskVars>>
tvars == <<proto, linkVars, hOwn, bOwn, mvars>>

\* A short interval and a longer one that it does not divide.
MCIntervals == <<2, 3>>

TInit ==
  /\ proto \in {"hjt212", "cc_bjdc", "mqtt"}
  /\ HInit /\ BInit /\ MInit
  /\ proto # "hjt212" => ~verify /\ ~heart
  /\ proto # "cc_bjdc" => ~good
  /\ proto # "mqtt" => mcfg.on = {} /\ ~mcfg.td /\ ~mcfg.sharp /\ ~mcfg.topic /\ ~mcfg.others

AsHjt212(A) == proto = "hjt212" /\ A /\ UNCHANGED <<proto, bOwn, mvars>>
AsCcBjdc(A) == proto = "cc_bjdc" /\ A /\ UNCHANGED <<proto, hOwn, mvars>>
AsMqtt(A)   == proto = "mqtt" /\ A /\ UNCHANGED <<proto, linkVars, hOwn, bOwn>>

TNext == AsHjt212(HNext) \/ AsCcBjdc(BNext) \/ AsMqtt(MNext)

\* The fairness of HFairSpec, BFairSpec and MSpec.
TSpec ==
  /\ TInit /\ [][TNext]_tvars
  /\ WF_tvars(AsHjt212(HTaskStep)) /\ SF_tvars(AsHjt212(Heartbeat))
  /\ WF_tvars(AsCcBjdc(TaskStep)) /\ WF_tvars(AsCcBjdc(Deliver))
  /\ WF_tvars(AsMqtt(MTaskStep))

\* MqttReports of a connection whose protocol is mqtt.
MqttConnReports == proto = "mqtt" => MqttReports
=============================================================================
