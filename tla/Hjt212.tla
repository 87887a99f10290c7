------------------------------- MODULE Hjt212 -------------------------------
(***************************************************************************)
(* sdccp/hjt212.c: the task that reports to an environmental monitoring    *)
(* platform over one TCP client connection.  It logs in, reports data, and *)
(* logs in again as a heartbeat; what the platform answers reaches it      *)
(* through a message queue of three places.  It takes any message for the  *)
(* answer it waits for, and the queue is not emptied between connections,  *)
(* so that only the number of messages in it matters.                      *)
(*                                                                         *)
(* The connection is a Link.  A send on a connection that is gone fails    *)
(* without the task noticing.                                              *)
(***************************************************************************)
EXTENDS Integers, Link

\* rt_mq_create(.., 3, ..); the heartbeats in a row that may go unanswered.
HQueueSize == 3
MaxLoginErr == 3

VARIABLES
  verify,      \* configuration: hjtcfg->verify_flag
  heart,       \* configuration: hjtcfg->enable_heart is not 0
  hpc,          \* where hjt212_work_task is
  queued,      \* number of messages in s_CCDataQueue[index]
  login_err,   \* login_err_count; every value from MaxLoginErr on is the same
  fresh,       \* history: no login was sent on this connection so far
  hsame,        \* history: the connection the last login went to has not ended
  hrestarted,   \* history: the value of `hsame` when the flag was last cleared
  unanswered   \* history: heartbeats in a row without an answer, since _START

htaskVars == <<hpc, queued, login_err, fresh, hsame, hrestarted, unanswered>>
hvars == <<linkVars, verify, heart, htaskVars>>

Least(a, b) == IF a < b THEN a ELSE b

HInit ==
  /\ LinkInit
  /\ verify \in BOOLEAN
  /\ heart \in BOOLEAN
  /\ hpc = "start"
  /\ queued = 0
  /\ login_err = 0
  /\ fresh = FALSE
  /\ hsame = FALSE
  /\ hrestarted = FALSE
  /\ unanswered = 0

-----------------------------------------------------------------------------
(* The connection *)

HLinkStep ==
  /\ LinkNext
  /\ fresh' = (fresh \/ (up' /\ ~up))
  /\ hsame' = FALSE
  /\ UNCHANGED <<verify, heart, hpc, queued, login_err, hrestarted, unanswered>>

\* Receive as it would be on a queue without an end.
ReceiveMore ==
  /\ up /\ ~ending
  /\ queued' = queued + 1
  /\ UNCHANGED <<linkVars, verify, heart, hpc, login_err, fresh, hsame, hrestarted, unanswered>>

\* A message of the platform; one that finds the queue full is dropped.
Receive ==
  /\ up /\ ~ending
  /\ queued' = Least(queued + 1, HQueueSize)
  /\ UNCHANGED <<linkVars, verify, heart, hpc, login_err, fresh, hsame, hrestarted, unanswered>>

-----------------------------------------------------------------------------
(* The task *)

\* hjt212_login_verify_req: the platform sees it if there is a connection.
SendLogin ==
  /\ fresh' = (fresh /\ ~up)
  /\ hsame' = (up /\ ~ending)

\* _START: net_waitconnect, then the login request.
Start ==
  /\ hpc = "start"
  /\ up
  /\ unanswered' = 0
  /\ hpc' = "login"
  /\ UNCHANGED <<linkVars, verify, heart, queued, login_err, fresh, hsame, hrestarted>>

Login ==
  /\ hpc = "login"
  /\ SendLogin
  /\ hpc' = IF verify THEN "verify" ELSE "begin"
  /\ UNCHANGED <<linkVars, verify, heart, queued, login_err, hrestarted, unanswered>>

\* A second request, whose answer the task waits for: any message will do.
Verify ==
  /\ hpc = "verify"
  /\ SendLogin
  /\ hpc' = "verifying"
  /\ UNCHANGED <<linkVars, verify, heart, queued, login_err, hrestarted, unanswered>>

Verified ==
  /\ hpc = "verifying"
  /\ queued > 0
  /\ queued' = queued - 1
  /\ hpc' = "begin"
  /\ UNCHANGED <<linkVars, verify, heart, login_err, fresh, hsame, hrestarted, unanswered>>

\* 15 seconds without a message.
VerifyTimeout ==
  /\ hpc = "verifying"
  /\ queued = 0
  /\ hpc' = "abandon"
  /\ UNCHANGED <<linkVars, verify, heart, queued, login_err, fresh, hsame, hrestarted, unanswered>>

\* The flag is cleared, though it may have been raised since the login.
HClear ==
  /\ hpc = "begin"
  /\ ClearReinit
  /\ hrestarted' = hsame
  /\ hpc' = "loop"
  /\ UNCHANGED <<verify, heart, queued, login_err, fresh, hsame, unanswered>>

\* One pass of the main loop: the flag, net_waitconnect, ...
HLoop ==
  /\ hpc = "loop"
  /\ hpc' = IF reinit THEN "start" ELSE "connected"
  /\ UNCHANGED <<linkVars, verify, heart, queued, login_err, fresh, hsame, hrestarted, unanswered>>

WaitConnect ==
  /\ hpc = "connected"
  /\ up
  /\ hpc' = "recv"
  /\ UNCHANGED <<linkVars, verify, heart, queued, login_err, fresh, hsame, hrestarted, unanswered>>

\* ... a message or five seconds without one, ...
HRecv ==
  /\ hpc = "recv"
  /\ queued' = IF queued > 0 THEN queued - 1 ELSE 0
  /\ hpc' = "heart"
  /\ UNCHANGED <<linkVars, verify, heart, login_err, fresh, hsame, hrestarted, unanswered>>

\* ... the heartbeat, when it is due, ...
NoHeartbeat ==
  /\ hpc = "heart"
  /\ hpc' = "report"
  /\ UNCHANGED <<linkVars, verify, heart, queued, login_err, fresh, hsame, hrestarted, unanswered>>

\* Heartbeat as it would be with a message other than the login.
HeartbeatMute ==
  /\ hpc = "heart"
  /\ heart
  /\ hpc' = "answer"
  /\ UNCHANGED <<linkVars, verify, heart, queued, login_err, fresh, hsame, hrestarted, unanswered>>

Heartbeat ==
  /\ hpc = "heart"
  /\ heart
  /\ SendLogin
  /\ hpc' = "answer"
  /\ UNCHANGED <<linkVars, verify, heart, queued, login_err, hrestarted, unanswered>>

Answered ==
  /\ hpc = "answer"
  /\ queued > 0
  /\ queued' = queued - 1
  /\ login_err' = 0
  /\ unanswered' = 0
  /\ hpc' = "report"
  /\ UNCHANGED <<linkVars, verify, heart, fresh, hsame, hrestarted>>

\* Unanswered as it would be with the count started anew every time.
UnansweredForgotten ==
  /\ hpc = "answer"
  /\ queued = 0
  /\ login_err' = 1
  /\ unanswered' = Least(unanswered + 1, MaxLoginErr)
  /\ hpc' = IF login_err' >= MaxLoginErr THEN "disconnect" ELSE "report"
  /\ UNCHANGED <<linkVars, verify, heart, queued, fresh, hsame, hrestarted>>

\* 20 seconds without a message.
Unanswered ==
  /\ hpc = "answer"
  /\ queued = 0
  /\ login_err' = Least(login_err + 1, MaxLoginErr)
  /\ unanswered' = Least(unanswered + 1, MaxLoginErr)
  /\ hpc' = IF login_err' >= MaxLoginErr THEN "disconnect" ELSE "report"
  /\ UNCHANGED <<linkVars, verify, heart, queued, fresh, hsame, hrestarted>>

\* net_disconnect, five seconds, goto _START: login_err_count is declared
\* before the label and keeps its value.
HDisconnect ==
  /\ hpc \in {"abandon", "disconnect"}
  /\ hpc' = "start"
  /\ UNCHANGED <<linkVars, verify, heart, queued, login_err, fresh, hsame, hrestarted, unanswered>>

\* ... and the data reports.
HReport ==
  /\ hpc = "report"
  /\ hpc' = "loop"
  /\ UNCHANGED <<linkVars, verify, heart, queued, login_err, fresh, hsame, hrestarted, unanswered>>

HTaskStep ==
  \/ Start \/ Login \/ Verify \/ Verified \/ VerifyTimeout \/ HClear
  \/ HLoop \/ WaitConnect \/ HRecv \/ NoHeartbeat \/ Heartbeat \/ Answered \/ Unanswered
  \/ HDisconnect \/ HReport

HNext == HLinkStep \/ Receive \/ HTaskStep

HSpec == HInit /\ [][HNext]_hvars

\* The task runs whenever it can, and again and again the line has been quiet
\* for enable_heart seconds, so that it finds the heartbeat due.
HFairSpec == HSpec /\ WF_hvars(HTaskStep) /\ SF_hvars(Heartbeat)

-----------------------------------------------------------------------------
(* Properties *)

HTypeOK ==
  /\ LinkTypeOK
  /\ verify \in BOOLEAN /\ heart \in BOOLEAN
  /\ hpc \in {"start", "login", "verify", "verifying", "begin", "loop", "connected", "recv",
             "heart", "answer", "abandon", "disconnect", "report"}
  /\ queued \in 0 .. HQueueSize
  /\ login_err \in 0 .. MaxLoginErr
  /\ unanswered \in 0 .. MaxLoginErr
  /\ fresh \in BOOLEAN /\ hsame \in BOOLEAN /\ hrestarted \in BOOLEAN

\* Data goes out on a connection without a login only in the pass in which the
\* connection changed: the flag is up and the task about to start over.  The
\* exception is a flag that HClear has thrown away.
ReportsLoggedIn == hpc = "report" /\ up /\ fresh => reinit \/ ~hrestarted

\* With heartbeats, every connection that stays up is logged in on, even one
\* whose flag was thrown away.
LogsIn == heart /\ up /\ fresh ~> ~(up /\ fresh)

\* With heartbeats, a platform that has gone silent for good is given up: the
\* task asks for the connection to be closed again and again.
SilenceDetected == heart /\ <>[](queued = 0) => []<>(hpc \in {"abandon", "disconnect"} \/ ~up)

\* The comment before hjt212_login_verify_req: the connection is reset after
\* two logins in a row without an answer.
TwoStrikes == hpc = "disconnect" => unanswered >= 2
=============================================================================
