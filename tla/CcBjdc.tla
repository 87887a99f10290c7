------------------------------- MODULE CcBjdc -------------------------------
(***************************************************************************)
(* sdccp/cc_bjdc.c: the task that reports to an energy platform over one   *)
(* TCP client connection.  It proves who it is by answering a random       *)
(* sequence with its digest, and then reports data and heartbeats.  What   *)
(* the platform answers reaches it through a message queue of three        *)
(* places, which is not emptied between connections.  Unlike hjt212.c the  *)
(* task does not wait for a connection before it sends.                    *)
(*                                                                         *)
(* The connection is a Link; the platform is the environment.  A good      *)
(* platform answers every request, in order and before the task gives up   *)
(* waiting.                                                                *)
(***************************************************************************)
EXTENDS Integers, Sequences, Link

CONSTANT MaxFlight  \* bound: answers on their way on one connection

ASSUME FlightAssumption == MaxFlight \in Nat \ {0}

\* rt_mq_create(.., 3, ..)
QueueSize == 3

\* The kinds of message __CC_BJDC_ParsePack tells apart, as far as the task
\* does: a sequence, the two results, and all the rest.
Kind == {"seq", "pass", "fail", "other"}

VARIABLES
  good,       \* configuration: the platform answers every request with success
  pc,         \* where cc_bjdc_work_task is
  queue,      \* s_CCDataQueue[index]
  flight,     \* answers of the platform on their way
  old,        \* history: messages at the head of the queue from former connections
  same,       \* history: the connection of the last verify request has not ended, and
              \* it was its own messages that were taken since
  verified,   \* history: a pass of this connection was taken from the queue
  restarted   \* history: the value of `same` when the flag was last cleared

taskVars == <<pc, queue, flight, old, same, verified, restarted>>
bvars == <<linkVars, good, taskVars>>

BInit ==
  /\ LinkInit
  /\ good \in BOOLEAN
  /\ pc = "request"
  /\ queue = <<>>
  /\ flight = <<>>
  /\ old = 0
  /\ same = FALSE
  /\ verified = FALSE
  /\ restarted = FALSE

-----------------------------------------------------------------------------
(* The connection and the platform *)

LinkStep ==
  /\ LinkNext
  /\ flight' = IF up' THEN flight ELSE <<>>
  /\ IF up' /\ ~up
       THEN old' = Len(queue) /\ verified' = FALSE
       ELSE UNCHANGED <<old, verified>>
  /\ same' = FALSE
  /\ UNCHANGED <<good, pc, queue, restarted>>

\* Deliver as it would be on a queue without an end.
DeliverMore ==
  /\ up /\ ~ending
  /\ flight # <<>>
  /\ queue' = Append(queue, Head(flight))
  /\ flight' = Tail(flight)
  /\ UNCHANGED <<linkVars, good, pc, old, same, verified, restarted>>

\* The network task decodes the next answer and puts it into the queue; it is
\* dropped if the queue is full.
Deliver ==
  /\ up /\ ~ending
  /\ flight # <<>>
  /\ queue' = IF Len(queue) < QueueSize THEN Append(queue, Head(flight)) ELSE queue
  /\ flight' = Tail(flight)
  /\ UNCHANGED <<linkVars, good, pc, old, same, verified, restarted>>

\* A query, a new period or the like, from a platform that accepted the gateway.
Ask ==
  /\ up /\ ~ending
  /\ verified
  /\ Len(flight) < MaxFlight
  /\ flight' = Append(flight, "other")
  /\ UNCHANGED <<linkVars, good, pc, queue, old, same, verified, restarted>>

\* The task sends a request whose answer is one of `kinds`; without a
\* connection it is lost, and a platform that is not good may not answer.
Request(kind) ==
  \/ /\ up /\ Len(flight) < MaxFlight
     /\ flight' = Append(flight, kind)
  \/ /\ up /\ ~good /\ kind = "pass" /\ Len(flight) < MaxFlight
     /\ flight' = Append(flight, "fail")
  \/ /\ ~up \/ ~good \/ Len(flight) = MaxFlight
     /\ UNCHANGED flight

\* b_mq_recv of the task: the oldest message.
Take == queue' = Tail(queue) /\ old' = IF old > 0 THEN old - 1 ELSE 0

\* It gives up: not while an answer of a good platform is on its way.
Starved == queue = <<>> /\ (good => flight = <<>> \/ ~up \/ ending)

-----------------------------------------------------------------------------
(* The task *)

VerifyReq ==
  /\ pc = "request"
  /\ Request("seq")
  /\ same' = (up /\ ~ending)
  /\ pc' = "sequence"
  /\ UNCHANGED <<linkVars, good, queue, old, verified, restarted>>

\* RecvSequence as it would be without the digest.
RecvSequenceMute ==
  /\ pc = "sequence"
  /\ queue # <<>>
  /\ Take
  /\ UNCHANGED flight
  /\ pc' = IF Head(queue) = "seq" THEN "result" ELSE "request"
  /\ UNCHANGED <<linkVars, good, same, verified, restarted>>

\* The sequence comes and its digest is sent; any other message is thrown
\* away and the request repeated.
RecvSequence ==
  /\ pc = "sequence"
  /\ queue # <<>>
  /\ Take
  /\ \/ /\ Head(queue) = "seq"
        /\ Request("pass")
        /\ pc' = "result"
     \/ /\ Head(queue) # "seq"
        /\ UNCHANGED flight
        /\ pc' = "request"
  /\ UNCHANGED <<linkVars, good, same, verified, restarted>>

SequenceTimeout ==
  /\ pc = "sequence"
  /\ Starved
  /\ pc' = "disconnect"
  /\ UNCHANGED <<linkVars, good, queue, flight, old, same, verified, restarted>>

\* RecvResult as it would be with any answer to the digest taken for a pass.
RecvAnyResult ==
  /\ pc = "result"
  /\ queue # <<>>
  /\ Take
  /\ pc' = "begin"
  /\ verified' = (verified \/ (Head(queue) = "pass" /\ old = 0))
  /\ same' = (same /\ old = 0)
  /\ UNCHANGED <<linkVars, good, flight, restarted>>

RecvResult ==
  /\ pc = "result"
  /\ queue # <<>>
  /\ Take
  /\ pc' = CASE Head(queue) = "pass" -> "begin"
             [] Head(queue) = "fail" -> "disconnect"
             [] OTHER -> "request"
  /\ verified' = (verified \/ (Head(queue) = "pass" /\ old = 0))
  /\ same' = (same /\ old = 0)
  /\ UNCHANGED <<linkVars, good, flight, restarted>>

\* No result in five seconds: the request is repeated.
ResultTimeout ==
  /\ pc = "result"
  /\ Starved
  /\ pc' = "request"
  /\ UNCHANGED <<linkVars, good, queue, flight, old, same, verified, restarted>>

\* net_disconnect, five seconds, goto _START.
Disconnect ==
  /\ pc = "disconnect"
  /\ pc' = "request"
  /\ UNCHANGED <<linkVars, good, queue, flight, old, same, verified, restarted>>

\* The flag is cleared, though it may have been raised since the request.
Clear ==
  /\ pc = "begin"
  /\ ClearReinit
  /\ restarted' = same
  /\ pc' = "info"
  /\ UNCHANGED <<good, queue, flight, old, same, verified>>

DeviceInfo ==
  /\ pc = "info"
  /\ Request("other")
  /\ pc' = "loop"
  /\ UNCHANGED <<linkVars, good, queue, old, same, verified, restarted>>

\* One pass of the main loop: the flag, ...
Loop ==
  /\ pc = "loop"
  /\ pc' = IF reinit THEN "request" ELSE "recv"
  /\ UNCHANGED <<linkVars, good, queue, flight, old, same, verified, restarted>>

\* ... a message or two seconds without one (queries are answered: a report), ...
Recv ==
  /\ pc = "recv"
  /\ pc' = "report"
  /\ \/ queue # <<>> /\ Take
     \/ Starved /\ UNCHANGED <<queue, old>>
  /\ UNCHANGED <<linkVars, good, flight, same, verified, restarted>>

\* ... then the heartbeat, when it is due, and the data.
Report ==
  /\ pc = "report"
  /\ Request("other") \/ UNCHANGED flight
  /\ pc' = "loop"
  /\ UNCHANGED <<linkVars, good, queue, old, same, verified, restarted>>

TaskStep ==
  \/ VerifyReq \/ RecvSequence \/ SequenceTimeout \/ RecvResult \/ ResultTimeout
  \/ Disconnect \/ Clear \/ DeviceInfo \/ Loop \/ Recv \/ Report

BNext == LinkStep \/ Deliver \/ Ask \/ TaskStep

BSpec == BInit /\ [][BNext]_bvars

\* The task and the network task run whenever they can.
BFairSpec == BSpec /\ WF_bvars(TaskStep) /\ WF_bvars(Deliver)

-----------------------------------------------------------------------------
(* Properties *)

BTypeOK ==
  /\ LinkTypeOK
  /\ good \in BOOLEAN
  /\ pc \in {"request", "sequence", "result", "disconnect", "begin", "info", "loop", "recv",
             "report"}
  /\ queue \in Seq(Kind) /\ Len(queue) <= QueueSize
  /\ flight \in Seq(Kind) /\ Len(flight) <= MaxFlight
  /\ old \in 0 .. Len(queue)
  /\ same \in BOOLEAN /\ verified \in BOOLEAN /\ restarted \in BOOLEAN

\* Data goes to a platform that has not accepted the gateway on this
\* connection only in the pass in which the connection changed, or after Clear
\* has thrown the flag away or an older pass was taken for a new one.
ReportsVerified == pc \in {"info", "report"} /\ up /\ ~verified => reinit \/ ~restarted

\* A verification that begins with nothing left over, in the queue or on its
\* way, succeeds with a good platform if the connection lasts.
VerifiesFromScratch ==
  good /\ pc = "request" /\ up /\ ~ending /\ queue = <<>> /\ flight = <<>>
    ~> pc = "loop" \/ ~up \/ ending

\* The README: a lost connection is made again and the device stays on line.
\* Whatever the queue held, a good platform accepts it on a connection that
\* lasts.
Verifies == good /\ <>[](up /\ ~ending) => []<>(pc = "loop")
=============================================================================
