----------------------------- MODULE TaskProofs -----------------------------
(***************************************************************************)
(* Theorems about the protocol tasks.                                      *)
(*                                                                         *)
(* Hjt212: a login is good for the connection it was sent on as long as    *)
(* nothing happens to that connection (HSameMeans); once the flag was      *)
(* cleared on such a login, the task either still has that connection, or  *)
(* finds the flag up again (HWarned).                                      *)
(*                                                                         *)
(* CcBjdc, for any number of answers on their way: the same argument, with *)
(* the pass of the platform in place of the login that was sent.           *)
(*                                                                         *)
(* Dm101, for any sizes: the fifo never holds more than it has room for.   *)
(*                                                                         *)
(* Mqtt, for any intervals and number of attempts: where the task is tells *)
(* whether there is a client, what is shown and whether the client has its *)
(* subscription (MqttInv).                                                 *)
(*                                                                         *)
(* Hjt212Pages, for any variables, stations and size of a frame: in a      *)
(* round, what is still owed lies behind the node the next call goes on    *)
(* from (Owed).                                                            *)
(*                                                                         *)
(* Frames, for any lengths: what a former connection can have left in the  *)
(* buffer, and how many frames that can have cost so far (FrameInv).  The  *)
(* last bytes in the buffer are the last that came (Recent), so that an    *)
(* end of a frame is found when it comes and nowhere else.                 *)
(***************************************************************************)
EXTENDS Hjt212, CcBjdc, Dm101, Mqtt, Hjt212Pages, Frames, FoldLemmas

-----------------------------------------------------------------------------
(* hjt212 *)

\* The main loop, after the flag was cleared.
HInLoop == hpc \in {"loop", "connected", "recv", "heart", "answer", "report"}

HSameMeans == hsame => up /\ ~ending /\ ~fresh

HWarned == HInLoop /\ hrestarted => reinit \/ (up /\ ~ending /\ ~fresh)

LoginInv == HTypeOK /\ HSameMeans /\ HWarned

LEMMA LoginInit == HInit => LoginInv
  <1> SUFFICES ASSUME HInit
               PROVE  LoginInv
    OBVIOUS
  <1>1. HTypeOK
    <2>1. queued \in 0 .. HQueueSize /\ login_err \in 0 .. MaxLoginErr /\ unanswered \in 0 .. MaxLoginErr
      BY DEF HInit, HQueueSize, MaxLoginErr
    <2>2. LinkTypeOK /\ fresh \in BOOLEAN /\ hsame \in BOOLEAN /\ hrestarted \in BOOLEAN
      BY Zenon DEF HInit, LinkInit, LinkTypeOK
    <2> QED
      BY <2>1, <2>2 DEF HInit, HTypeOK
  <1>2. HSameMeans /\ HWarned
    BY DEF HInit, HSameMeans, HWarned, HInLoop
  <1> QED
    BY <1>1, <1>2 DEF LoginInv

\* The answers that are waiting, and the counts, stay in range.
LEMMA CountsStay ==
  ASSUME HTypeOK
  PROVE  /\ Least(queued + 1, HQueueSize) \in 0 .. HQueueSize
         /\ Least(login_err + 1, MaxLoginErr) \in 0 .. MaxLoginErr
         /\ Least(unanswered + 1, MaxLoginErr) \in 0 .. MaxLoginErr
         /\ queued > 0 => queued - 1 \in 0 .. HQueueSize
         /\ 0 \in 0 .. HQueueSize /\ 0 \in 0 .. MaxLoginErr
  <1>1. /\ queued \in 0 .. 3 /\ login_err \in 0 .. 3 /\ unanswered \in 0 .. 3
        /\ HQueueSize = 3 /\ MaxLoginErr = 3
    BY DEF HTypeOK, HQueueSize, MaxLoginErr
  <1>2. \A n \in 0 .. 3 : Least(n + 1, 3) \in 0 .. 3
    BY SMT DEF Least
  <1> QED
    BY <1>1, <1>2

\* Whatever happens to the connection is announced in the flag.
LEMMA HLinkKeeps == LoginInv /\ HLinkStep => LoginInv'
  <1> SUFFICES ASSUME LoginInv, HLinkStep
               PROVE  LoginInv'
    OBVIOUS
  <1> USE DEF LoginInv, HTypeOK, LinkTypeOK, HSameMeans, HWarned, HInLoop
  <1>1. CASE Connect
    BY <1>1 DEF HLinkStep, Connect
  <1>2. CASE Exit
    BY <1>2 DEF HLinkStep, Exit
  <1>3. CASE Finish
    BY <1>3 DEF HLinkStep, Finish
  <1> QED
    BY <1>1, <1>2, <1>3 DEF HLinkStep, LinkNext

\* The steps of the task, and the messages it gets.
LEMMA HTaskKeeps == LoginInv /\ (HTaskStep \/ Receive) => LoginInv'
  <1> SUFFICES ASSUME LoginInv, HTaskStep \/ Receive
               PROVE  LoginInv'
    OBVIOUS
  <1> USE CountsStay DEF LoginInv, HTypeOK, LinkTypeOK, HSameMeans, HWarned, HInLoop, linkVars
  <1>1. CASE Receive
    BY <1>1 DEF Receive
  <1>2. CASE Start \/ WaitConnect \/ NoHeartbeat \/ HDisconnect \/ HReport \/ VerifyTimeout
    BY <1>2 DEF Start, WaitConnect, NoHeartbeat, HDisconnect, HReport, VerifyTimeout
  <1>3. CASE Login \/ Verify
    BY <1>3 DEF Login, Verify, SendLogin
  <1>4. CASE Verified \/ HRecv
    BY <1>4 DEF Verified, HRecv
  <1>5. CASE HClear
    BY <1>5 DEF HClear, ClearReinit
  <1>6. CASE HLoop
    BY <1>6 DEF HLoop
  <1>7. CASE Heartbeat
    BY <1>7 DEF Heartbeat, SendLogin
  <1>8. CASE Answered
    BY <1>8 DEF Answered
  <1>9. CASE Unanswered
    BY <1>9 DEF Unanswered
  <1> QED
    BY <1>1, <1>2, <1>3, <1>4, <1>5, <1>6, <1>7, <1>8, <1>9 DEF HTaskStep

LEMMA LoginInvariant == HSpec => []LoginInv
  <1>1. LoginInv /\ UNCHANGED hvars => LoginInv'
    BY DEF hvars, linkVars, htaskVars, LoginInv, HTypeOK, LinkTypeOK, HSameMeans, HWarned, HInLoop
  <1>2. LoginInv /\ [HNext]_hvars => LoginInv'
    BY <1>1, HLinkKeeps, HTaskKeeps DEF HNext
  <1> QED
    BY <1>2, LoginInit, PTL DEF HSpec

\* Data goes out on a connection without a login only while the flag is up, or
\* after a clear that came too late.
THEOREM AlwaysLoggedIn == HSpec => []ReportsLoggedIn
  <1>1. LoginInv => ReportsLoggedIn
    BY DEF LoginInv, HTypeOK, LinkTypeOK, HWarned, HInLoop, ReportsLoggedIn
  <1> QED
    BY <1>1, LoginInvariant, PTL

-----------------------------------------------------------------------------
(* cc_bjdc *)

\* The main loop, after the flag was cleared.
BInLoop == pc \in {"info", "loop", "recv", "report"}

\* The connection of the request is still there; at the end of the handshake
\* it is the one the pass came from.
BSameMeans == same => up /\ ~ending /\ (pc = "begin" => verified)

BWarned == BInLoop /\ restarted => reinit \/ (up /\ ~ending /\ verified)

\* The part of the types the argument needs.
Flags ==
  /\ LinkTypeOK
  /\ pc \in {"request", "sequence", "result", "disconnect", "begin"} \/ BInLoop
  /\ same \in BOOLEAN /\ verified \in BOOLEAN /\ restarted \in BOOLEAN

PassInv == Flags /\ BSameMeans /\ BWarned

LEMMA PassInit == BInit => PassInv
  BY DEF BInit, LinkInit, PassInv, Flags, LinkTypeOK, BSameMeans, BWarned, BInLoop

\* Whatever happens to the connection is announced in the flag.
LEMMA BLinkKeeps == PassInv /\ LinkStep => PassInv'
  <1> SUFFICES ASSUME PassInv, LinkStep
               PROVE  PassInv'
    OBVIOUS
  <1> USE DEF PassInv, Flags, LinkTypeOK, BSameMeans, BWarned, BInLoop
  <1>1. CASE Connect
    BY <1>1 DEF LinkStep, Connect
  <1>2. CASE Exit
    BY <1>2 DEF LinkStep, Exit
  <1>3. CASE Finish
    BY <1>3 DEF LinkStep, Finish
  <1> QED
    BY <1>1, <1>2, <1>3 DEF LinkStep, LinkNext

\* The steps of the task, and the messages it gets.
LEMMA BTaskKeeps == PassInv /\ (TaskStep \/ Deliver \/ Ask) => PassInv'
  <1> SUFFICES ASSUME PassInv, TaskStep \/ Deliver \/ Ask
               PROVE  PassInv'
    OBVIOUS
  <1> USE DEF PassInv, Flags, LinkTypeOK, BSameMeans, BWarned, BInLoop, linkVars
  <1>1. CASE Deliver \/ Ask
    BY <1>1 DEF Deliver, Ask
  <1>2. CASE VerifyReq
    BY <1>2 DEF VerifyReq
  <1>3. CASE RecvSequence \/ SequenceTimeout \/ ResultTimeout \/ Disconnect
    BY <1>3 DEF RecvSequence, SequenceTimeout, ResultTimeout, Disconnect
  <1>4. CASE RecvResult
    <2>1. /\ UNCHANGED linkVars /\ restarted' = restarted
          /\ pc = "result" /\ pc' \in {"begin", "disconnect", "request"}
          /\ pc' = "begin" => Head(queue) = "pass"
          /\ verified' = (verified \/ (Head(queue) = "pass" /\ old = 0))
          /\ same' = (same /\ old = 0)
      BY <1>4 DEF RecvResult
    <2> QED
      BY <2>1
  <1>5. CASE Clear
    BY <1>5 DEF Clear, ClearReinit
  <1>6. CASE DeviceInfo \/ Loop \/ Recv \/ Report
    BY <1>6 DEF DeviceInfo, Loop, Recv, Report
  <1> QED
    BY <1>1, <1>2, <1>3, <1>4, <1>5, <1>6 DEF TaskStep

LEMMA PassInvariant == BSpec => []PassInv
  <1>1. PassInv /\ UNCHANGED bvars => PassInv'
    BY DEF bvars, linkVars, taskVars, PassInv, Flags, LinkTypeOK, BSameMeans, BWarned, BInLoop
  <1>2. PassInv /\ [BNext]_bvars => PassInv'
    BY <1>1, BLinkKeeps, BTaskKeeps DEF BNext
  <1> QED
    BY <1>2, PassInit, PTL DEF BSpec

\* Data goes to a platform that has not accepted the gateway on this connection
\* only while the flag is up, or after a clear or a pass that came too late.
THEOREM AlwaysVerified == BSpec => []ReportsVerified
  <1>1. PassInv => ReportsVerified
    BY DEF PassInv, Flags, LinkTypeOK, BWarned, BInLoop, ReportsVerified
  <1> QED
    BY <1>1, PassInvariant, PTL

-----------------------------------------------------------------------------
(* dm101 *)

\* The pieces a packet is made of.
LEMMA PacketParts ==
  /\ Payload \in Seq(Byte) /\ Packet \in Seq(Byte)
  /\ Len(Packet) \in Nat /\ Len(Packet) = PayloadLen + 3
  /\ PayloadLen \in Nat /\ FifoSize \in Nat
  <1>1. PayloadLen \in Nat /\ FifoSize \in Nat
    BY FifoAssumption, PayloadAssumption
  <1>2. Payload \in Seq(Byte) /\ Len(Payload) = PayloadLen
    BY <1>1, SMT DEF Payload, Byte
  <1>3. <<"magic", "head">> \in Seq(Byte) /\ <<"crc">> \in Seq(Byte)
    BY DEF Byte
  <1> HIDE DEF Payload
  <1>4. <<"magic", "head">> \o Payload \in Seq(Byte) /\ Len(<<"magic", "head">> \o Payload) = PayloadLen + 2
    BY <1>1, <1>2, <1>3
  <1> QED
    BY <1>1, <1>2, <1>3, <1>4 DEF Packet

\* A part of a sequence is not longer than the whole.
LEMMA PartIsShort ==
  ASSUME NEW S, NEW s \in Seq(S), NEW i \in Nat \ {0}, NEW n \in Int, n <= Len(s)
  PROVE  SubSeq(s, i, n) \in Seq(S) /\ Len(SubSeq(s, i, n)) <= Len(s)
  OBVIOUS

\* What dm101_put_bytes puts never exceeds the room, and nothing else but the
\* pulls of the task changes the fifo.
LEMMA PutKeeps == DTypeOK /\ Put => DTypeOK'
  <1> SUFFICES ASSUME DTypeOK, Put
               PROVE  DTypeOK'
    OBVIOUS
  <1> DEFINE room == FifoSize - Len(bytes)
             n == IF Len(chunk) < room THEN Len(chunk) ELSE room
  <1>1. /\ bytes \in Seq(Byte) /\ chunk \in Seq(Byte) /\ FifoSize \in Nat
        /\ Len(bytes) \in Nat /\ Len(chunk) \in Nat /\ Len(bytes) < FifoSize
    BY PacketParts DEF DTypeOK, Put
  <1>2. n \in Nat /\ n <= Len(chunk) /\ Len(bytes) + n <= FifoSize
    BY <1>1
  <1>3. /\ bytes' = bytes \o SubSeq(chunk, 1, n)
        /\ chunk' = SubSeq(chunk, n + 1, Len(chunk))
    BY DEF Put
  <1> HIDE DEF n
  <1>4. SubSeq(chunk, 1, n) \in Seq(Byte) /\ Len(SubSeq(chunk, 1, n)) = n
    BY <1>1, <1>2
  <1>5. bytes' \in Seq(Byte) /\ Len(bytes') <= FifoSize
    BY <1>1, <1>2, <1>3, <1>4
  <1>6. chunk' \in Seq(Byte)
    BY <1>1, <1>2, <1>3
  <1> QED
    BY <1>5, <1>6 DEF DTypeOK, Put, LinkTypeOK, linkVars, dtaskVars, clockVars

\* A piece of what the platform sends, which may begin in one packet and end
\* in the next.
LEMMA ArriveKeeps == DTypeOK /\ Arrive => DTypeOK'
  <1> SUFFICES ASSUME DTypeOK, Arrive
               PROVE  DTypeOK'
    OBVIOUS
  <1>1. PICK n \in 1 .. Len(Packet) :
             /\ chunk' = SubSeq(Packet \o Packet, stream + 1, stream + n)
             /\ stream' = (stream + n) % Len(Packet)
    BY DEF Arrive
  <1>2. /\ Len(Packet) \in Nat \ {0} /\ Packet \in Seq(Byte) /\ n \in Nat
        /\ stream \in 0 .. Len(Packet) - 1
    BY PacketParts DEF DTypeOK
  <1> HIDE DEF Packet
  <1>3. Packet \o Packet \in Seq(Byte) /\ Len(Packet \o Packet) = Len(Packet) + Len(Packet)
    BY <1>2
  <1>4. stream + 1 \in Nat \ {0} /\ stream + n \in Int /\ stream + n <= Len(Packet \o Packet)
    BY <1>2, <1>3
  <1>5. chunk' \in Seq(Byte)
    BY <1>1, <1>3, <1>4, PartIsShort
  <1>6. stream' \in 0 .. Len(Packet) - 1
    BY <1>1, <1>2
  <1>7. tidy' \in BOOLEAN /\ silent' \in BOOLEAN /\ behind' \in BOOLEAN
    BY DEF Arrive
  <1> QED
    BY <1>5, <1>6, <1>7 DEF DTypeOK, Arrive, LinkTypeOK, linkVars, dtaskVars

\* What the task takes out of the fifo leaves a shorter one.
LEMMA PullShortens ==
  ASSUME DTypeOK, NEW n \in Nat, Pull(n)
  PROVE  bytes' \in Seq(Byte) /\ Len(bytes') <= FifoSize
  <1>1. bytes \in Seq(Byte) /\ Len(bytes) \in Nat /\ Len(bytes) <= FifoSize /\ FifoSize \in Nat
    BY PacketParts DEF DTypeOK
  <1>2. bytes' \in Seq(Byte) /\ Len(bytes') <= Len(bytes)
    BY <1>1, PartIsShort DEF Pull
  <1>3. Len(bytes') \in Nat
    BY <1>2
  <1> QED
    BY <1>1, <1>2, <1>3

\* The reader of packets.
LEMMA DReadKeeps == DTypeOK /\ (Scan \/ ReadHead \/ ReadPayload \/ ReadCrc) => DTypeOK'
  <1> SUFFICES ASSUME DTypeOK, Scan \/ ReadHead \/ ReadPayload \/ ReadCrc
               PROVE  DTypeOK'
    OBVIOUS
  <1> USE DEF LinkTypeOK, linkVars, dnetVars, clockVars
  <1>1. ASSUME NEW n \in 0 .. PayloadLen \cup 0 .. Beyond \cup {1}, NEW part, ReadUpTo(n, part)
        PROVE  bytes' \in Seq(Byte) /\ Len(bytes') <= FifoSize /\ intact' \in BOOLEAN
    <2> DEFINE k == IF Len(bytes) < n THEN Len(bytes) ELSE n
    <2>1. k \in Nat
      BY PacketParts DEF DTypeOK, Beyond
    <2>2. Pull(k) /\ intact' \in BOOLEAN
      BY <1>1 DEF ReadUpTo
    <2> QED
      BY <2>1, <2>2, PullShortens
  <1>2. CASE Scan
    <2>1. bytes' \in Seq(Byte) /\ Len(bytes') <= FifoSize
      BY <1>2, PullShortens DEF Scan, DTypeOK
    <2> QED
      BY <1>2, <2>1 DEF Scan, DTypeOK
  <1>3. CASE ReadHead
    <2>1. bytes' \in Seq(Byte) /\ Len(bytes') <= FifoSize
      BY <1>3, PullShortens DEF ReadHead, HeadLen
    <2>2. intact' \in BOOLEAN
      BY <1>3 DEF ReadHead
    <2>3. want' \in 0 .. PayloadLen \cup 0 .. Beyond
      BY <1>3, PacketParts DEF ReadHead
    <2> QED
      BY <1>3, <2>1, <2>2, <2>3 DEF ReadHead, DTypeOK
  <1>4. CASE ReadPayload
    BY <1>1, <1>4 DEF ReadPayload, DTypeOK
  <1>5. CASE ReadCrc
    BY <1>1, <1>5 DEF ReadCrc, DTypeOK
  <1> QED
    BY <1>2, <1>3, <1>4, <1>5

\* A process that begins anew, by the remote reboot or because it was killed.
LEMMA RestartKeeps == Restart => DTypeOK'
  <1>1. <<>> \in Seq(Byte) /\ Len(<<>>) = 0
    OBVIOUS
  <1>2. 0 \in 0 .. Len(Packet) - 1 /\ 0 <= FifoSize /\ 0 \in 0 .. PayloadLen \cup 0 .. Beyond
    BY PacketParts
  <1>3. 0 \in 0 .. ReportData
    BY DEF ReportData
  <1> QED
    BY <1>1, <1>2, <1>3 DEF Restart, DTypeOK, LinkTypeOK

\* The other steps leave the fifo alone.
LEMMA DTaskKeeps == DTypeOK /\ DTaskStep => DTypeOK'
  <1> SUFFICES ASSUME DTypeOK, DTaskStep
               PROVE  DTypeOK'
    OBVIOUS
  <1> USE DEF DTypeOK, LinkTypeOK, linkVars, dnetVars, clockVars
  <1>1. CASE DStart
    BY <1>1 DEF DStart
  <1>2. CASE Hello
    <2>1. status' \in 0 .. ReportData
      BY <1>2 DEF Hello, ReportData
    <2> QED
      BY <1>2, <2>1 DEF Hello
  <1>3. CASE Version \/ DLoop \/ Pass
    BY <1>3 DEF Version, DLoop, Pass
  <1>4. CASE DClear
    BY <1>4 DEF DClear, ClearReinit
  <1>5. CASE Handle
    <2>1. want' \in 0 .. PayloadLen \cup 0 .. Beyond
      BY <1>5, PacketParts DEF Handle
    <2> QED
      BY <1>5, <2>1 DEF Handle
  <1>6. CASE Beat \/ Compare
    BY <1>6 DEF Beat, Compare
  <1>7. CASE Drop \/ Data
    BY <1>7 DEF Drop, Data
  <1>8. CASE Scan \/ ReadHead \/ ReadPayload \/ ReadCrc
    BY <1>8, DReadKeeps
  <1> QED
    BY <1>1, <1>2, <1>3, <1>4, <1>5, <1>6, <1>7, <1>8 DEF DTaskStep

\* The fifo of dm101 never holds more than it has room for, whatever comes in
\* pieces of whatever length and whatever payload_length a wrong head has; and
\* the connection, the task and its clocks stay in the places they have.
THEOREM Dm101Types == DSpec => []DTypeOK
  <1>1. DInit => DTypeOK
    <2> SUFFICES ASSUME DInit
                 PROVE  DTypeOK
      OBVIOUS
    <2>1. bytes \in Seq(Byte) /\ chunk \in Seq(Byte) /\ Len(bytes) <= FifoSize
      BY PacketParts DEF DInit
    <2>2. stream \in 0 .. Len(Packet) - 1 /\ want \in 0 .. PayloadLen \cup 0 .. Beyond
      BY PacketParts DEF DInit
    <2>3. LinkTypeOK
      BY Zenon DEF DInit, LinkInit, LinkTypeOK
    <2>4. status \in 0 .. ReportData
      BY DEF DInit, ReportData
    <2> QED
      BY <2>1, <2>2, <2>3, <2>4 DEF DInit, DTypeOK
  <1>2. DTypeOK /\ DLinkStep => DTypeOK'
    <2> SUFFICES ASSUME DTypeOK, DLinkStep
                 PROVE  DTypeOK'
      OBVIOUS
    <2>1. LinkTypeOK /\ (Connect \/ Exit \/ Finish)
      BY DEF DTypeOK, DLinkStep, LinkNext
    <2>2. LinkTypeOK'
      BY <2>1, Zenon DEF LinkTypeOK, Connect, Exit, Finish
    <2>3. stream' \in 0 .. Len(Packet) - 1
      BY PacketParts DEF DTypeOK, DLinkStep
    <2> QED
      BY <2>2, <2>3 DEF DTypeOK, DLinkStep, dtaskVars, clockVars
  <1>3. DTypeOK /\ Elapse => DTypeOK'
    BY DEF DTypeOK, LinkTypeOK, Elapse, linkVars, dtaskVars, dnetVars
  <1>4. RemoteReboot \/ Overrun => DTypeOK'
    BY RestartKeeps DEF RemoteReboot, Overrun
  <1>5. DTypeOK /\ UNCHANGED dvars => DTypeOK'
    BY DEF dvars, DTypeOK, LinkTypeOK, linkVars, dtaskVars, dnetVars, clockVars
  <1>6. DTypeOK /\ [DNext]_dvars => DTypeOK'
    BY <1>2, <1>3, <1>4, <1>5, PutKeeps, ArriveKeeps, DTaskKeeps DEF DNext
  <1> QED
    BY <1>1, <1>6, PTL DEF DSpec

-----------------------------------------------------------------------------
(* mqtt *)

\* The pass of the loop in which the connection has been looked at.
Serving == mpc \in {"loop", "report", "publish"}

\* The state that is shown is that of the last look at the connection.
Shown == mstate = "ok" <=> Serving

\* There is no second client, and none without its turn: an attempt begins
\* without one, and one to connect or to subscribe has the one it created.
Clients ==
  /\ clients \in 0 .. 1
  /\ mpc \in {"create", "recreate"} => clients = 0
  /\ mpc \in {"connect", "subscribe", "reconnect", "resubscribe"} \/ Serving => clients = 1
  /\ mup => clients = 1

\* A connection comes to be served with its subscription, or after the last
\* attempt.
Subscribed == (mpc = "verdict" \/ Serving) /\ mup /\ mcfg.topic /\ ~msub => tries = 0

\* What MInit says of the configuration.
Configured ==
  mcfg \in [td : BOOLEAN, sharp : BOOLEAN, topic : BOOLEAN, on : SUBSET Period, others : BOOLEAN]

MqttInv ==
  /\ Configured /\ MTypeOK /\ Shown /\ Clients /\ Subscribed
  /\ mpc = "publish" => mper \in Period

\* The counts of attempts and of reports, and the clocks.
LEMMA MqttNumbers ==
  ASSUME MTypeOK
  PROVE  /\ tries # 0 => tries - 1 \in 0 .. MaxTries
         /\ tries > 0 <=> tries # 0
         /\ MaxTries \in 0 .. MaxTries /\ MaxTries # 0
         /\ 1 \in 1 .. Len(Intervals) + 1
         /\ mper > Len(Intervals) <=> mper \notin Period
         /\ mper \in Period => mper + 1 \in 1 .. Len(Intervals) + 1
         /\ 0 \in 0 .. 1 /\ 1 \in 0 .. 1
         /\ clients = 0 => clients + 1 = 1
         /\ (IF clients > 0 THEN clients - 1 ELSE 0) = 0
  <1>1. Len(Intervals) \in Nat /\ MaxTries \in Nat \ {0}
    BY IntervalsAssumption, TriesAssumption
  <1> QED
    BY <1>1, SMT DEF MTypeOK, Period

LEMMA MqttInit == MInit => MqttInv
  <1> SUFFICES ASSUME MInit
               PROVE  MqttInv
    OBVIOUS
  <1>1. Configured
    BY Zenon DEF MInit, Configured
  <1>2. MTypeOK
    <2>1. Len(Intervals) \in Nat /\ MaxTries \in Nat \ {0}
      BY IntervalsAssumption, TriesAssumption
    <2>2. 1 \in 1 .. Len(Intervals) + 1 /\ MaxTries \in 0 .. MaxTries /\ 0 \in 0 .. 1
      BY <2>1, SMT
    <2> QED
      BY <2>2 DEF MInit, MTypeOK
  <1> QED
    BY <1>1, <1>2 DEF MInit, MqttInv, Shown, Serving, Clients, Subscribed

\* Nothing changes the configuration.
LEMMA ConfigurationStays ==
  ASSUME Configured
  PROVE  (mcfg' = mcfg => Configured') /\ mcfg.topic \in BOOLEAN
  BY DEF Configured

\* The connection is made: the first time, and again after it was lost.
LEMMA MqttConnection ==
  ASSUME MqttInv,
         MCreate \/ MConnect \/ MSubscribe \/ MExit \/ MLost
         \/ RAttempt \/ RCreate \/ RConnect \/ RSubscribe \/ RVerdict
  PROVE  MqttInv'
  <1> USE MqttNumbers, ConfigurationStays DEF MqttInv, MTypeOK, Shown, Serving, Clients, Subscribed
  <1>1. CASE MCreate
    BY <1>1 DEF MCreate
  <1>2. CASE MConnect
    BY <1>2 DEF MConnect
  <1>3. CASE MSubscribe
    BY <1>3 DEF MSubscribe
  <1>4. CASE MExit
    <2>1. /\ clients' = 0 /\ mpc' = "create"
          /\ mup' = FALSE /\ msub' = FALSE /\ mstate' = "init"
          /\ UNCHANGED <<mcfg, tries, mper, age, stable>>
      BY <1>4 DEF MExit
    <2> QED
      BY <2>1
  <1>5. CASE MLost
    BY <1>5 DEF MLost
  <1>6. CASE RAttempt
    <2>1. CASE tries = 0 /\ mpc' = "verdict" /\ UNCHANGED <<tries, clients, mup, msub>>
      BY <1>6, <2>1 DEF RAttempt
    <2>2. CASE tries > 0 /\ mpc' = "recreate"
      <3>1. /\ mpc = "again" /\ clients' = 0 /\ tries' \in 0 .. MaxTries
            /\ mup' = FALSE /\ msub' = FALSE
            /\ UNCHANGED <<mcfg, mstate, mper, age, stable>>
        BY <1>6, <2>2 DEF RAttempt
      <3> QED
        BY <2>2, <3>1
    <2> QED
      BY <1>6, <2>1, <2>2 DEF RAttempt
  <1>7. CASE RCreate
    BY <1>7 DEF RCreate
  <1>8. CASE RConnect
    BY <1>8 DEF RConnect
  <1>9. CASE RSubscribe
    BY <1>9 DEF RSubscribe
  <1>10. CASE RVerdict
    <2>1. CASE mup
      <3>1. UNCHANGED <<mcfg, clients, msub, tries, age>>
        BY <1>10, <2>1 DEF RVerdict
      <3>2. CASE mpc' = "report"
        BY <1>10, <2>1, <3>1, <3>2 DEF RVerdict
      <3>3. CASE mpc' = "exit"
        BY <1>10, <2>1, <3>1, <3>3 DEF RVerdict
      <3> QED
        BY <1>10, <2>1, <3>2, <3>3 DEF RVerdict
    <2>2. CASE ~mup
      <3>1. clients' = 0 /\ msub' = FALSE /\ mpc' = "exit"
            /\ UNCHANGED <<mcfg, mstate, mup, tries, mper, age, stable>>
        BY <1>10, <2>2 DEF RVerdict
      <3>2. Configured' /\ MTypeOK'
        BY <2>2, <3>1
      <3>3. mup' = FALSE /\ mstate # "ok" /\ 0 \in 0 .. 1
        BY <2>2, <3>1, <1>10 DEF RVerdict
      <3>4. Shown' /\ Subscribed' /\ Clients'
        BY <3>1, <3>3
      <3> QED
        BY <3>1, <3>2, <3>4
    <2> QED
      BY <2>1, <2>2
  <1> QED
    BY <1>1, <1>2, <1>3, <1>4, <1>5, <1>6, <1>7, <1>8, <1>9, <1>10

\* The connection is used.
LEMMA MqttService ==
  ASSUME MqttInv, MLoop \/ MReport \/ MPublish \/ MOthers \/ MStable
  PROVE  MqttInv'
  <1> USE MqttNumbers, ConfigurationStays DEF MqttInv, MTypeOK, Shown, Serving, Clients, Subscribed
  <1>1. CASE MLoop
    <2>1. age' \in [{0} \cup Period -> Nat]
      BY <1>1 DEF MLoop
    <2> QED
      BY <1>1, <2>1 DEF MLoop
  <1>2. CASE MReport
    <2>1. age \in [{0} \cup Period -> Nat]
      OBVIOUS
    <2>2. age' \in [{0} \cup Period -> Nat]
      <3>1. CASE UNCHANGED age
        BY <2>1, <3>1
      <3>2. CASE age' = [k \in DOMAIN age |->
                           IF k = ClockOf(mper) \/ (mcfg.td /\ k = 0) THEN 0 ELSE age[k]]
        BY <2>1, <3>2, Zenon
      <3> QED
        BY <1>2, <3>1, <3>2 DEF MReport
    <2> QED
      BY <1>2, <2>2 DEF MReport
  <1>3. CASE MPublish
    BY <1>3 DEF MPublish
  <1>4. CASE MOthers
    BY <1>4 DEF MOthers
  <1>5. CASE MStable
    BY <1>5 DEF MStable
  <1> QED
    BY <1>1, <1>2, <1>3, <1>4, <1>5

LEMMA MqttInvariant == MSpec => []MqttInv
  <1>1. MqttInv /\ UNCHANGED mvars => MqttInv'
    BY DEF mvars, MqttInv, Configured, MTypeOK, Shown, Serving, Clients, Subscribed
  <1>2. MqttInv /\ [MNext]_mvars => MqttInv'
    BY <1>1, MqttConnection, MqttService DEF MNext, MTaskStep
  <1> QED
    BY <1>2, MqttInit, PTL DEF MSpec

\* Whatever fails when a connection is made or made again, there is at most
\* one client of the library, and none is left behind.
THEOREM MqttTypes == MSpec => []MTypeOK
  <1>1. MqttInv => MTypeOK
    BY DEF MqttInv
  <1> QED
    BY <1>1, MqttInvariant, PTL

\* A connection that is shown as good and that is up has its subscription, but
\* for one that the last attempt made.
THEOREM AlwaysListens == MSpec => []MqttListens
  <1>1. MqttInv => MqttListens
    BY DEF MqttInv, Shown, Subscribed, MqttListens
  <1> QED
    BY <1>1, MqttInvariant, PTL

-----------------------------------------------------------------------------
(* The pages of a report of hjt212 *)

PagesTypes == listed \subseteq PVars /\ ppnode \in 0 .. NVars

\* In a round all that was ready and is still owed lies behind the node the
\* next call goes on from.
Owed == rpc = "page" => \A v \in open : v \in listed /\ Ready(v) /\ v > ppnode

PagesInv == PagesTypes /\ Owed

\* A call looks at the variables of the list from the first one behind p on,
\* leaving none out.
LEMMA GroupFacts ==
  ASSUME PagesTypes, NEW p \in 0 .. NVars
  PROVE  /\ After(p) \subseteq PVars
         /\ Group(p) \subseteq After(p)
         /\ \A v \in After(p) : \A w \in Group(p) : v <= w => v \in Group(p)
  <1>1. After(p) \subseteq PVars /\ NVars \in Nat
    BY PagesAssumption DEF After, PagesTypes
  <1>2. Group(p) \subseteq After(p)
    BY DEF Group
  <1>3. ASSUME NEW v \in After(p), NEW w \in Group(p), v <= w
        PROVE  v \in Group(p)
    <2>1. \A u \in After(p) : u <= v => u <= w
      BY <1>1, <1>2, <1>3, SMT DEF PVars
    <2>2. \A u \in After(p) : u <= w => nid[u] = nid[Min(After(p))]
      BY DEF Group
    <2> QED
      BY <2>1, <2>2 DEF Group
  <1> QED
    BY <1>1, <1>2, <1>3

\* What a call has room for: no ready variable is left out before one that is
\* in the frame, the first one always fits, and so do all of them if there are
\* no more than that.
LEMMA FramedFacts ==
  ASSUME PagesTypes, NEW p \in 0 .. NVars
  PROVE  /\ Framed(p) \subseteq PVars
         /\ \A v \in Framed(p) : v \in Group(p) /\ Ready(v)
         /\ \A v \in Group(p) : \A w \in Framed(p) : Ready(v) /\ v <= w => v \in Framed(p)
         /\ Framed(p) = {} => \A v \in Group(p) : ~Ready(v)
         /\ Cardinality({v \in Group(p) : Ready(v)}) <= FrameSize
              => \A v \in Group(p) : Ready(v) => v \in Framed(p)
  <1> DEFINE ready == {v \in Group(p) : Ready(v)}
             Upto(v) == {u \in ready : u <= v}
  <1>1. ready \subseteq PVars /\ PVars = 1 .. NVars /\ NVars \in Nat /\ FrameSize \in Nat \ {0}
    BY GroupFacts, PagesAssumption DEF PVars
  <1>2. Framed(p) = {v \in ready : Cardinality(Upto(v)) <= FrameSize}
    BY DEF Framed
  <1>r. \A v : v \in ready <=> v \in Group(p) /\ Ready(v)
    OBVIOUS
  <1> HIDE DEF ready
  <1>3. IsFiniteSet(ready) /\ Cardinality(ready) \in Nat
    <2>1. IsFiniteSet(1 .. NVars)
      BY <1>1, FS_Interval
    <2> QED
      BY <1>1, <2>1, FS_Subset, FS_CardinalityType
  <1>4. \A v : Cardinality(Upto(v)) \in Nat /\ Cardinality(Upto(v)) <= Cardinality(ready)
    <2>1. \A v : Upto(v) \subseteq ready
      OBVIOUS
    <2> HIDE DEF Upto
    <2> QED
      BY <1>3, <2>1, FS_Subset, FS_CardinalityType
  <1>5. ASSUME NEW v \in ready, NEW w \in ready, v <= w
        PROVE  Cardinality(Upto(v)) <= Cardinality(Upto(w))
    <2>1. \A u \in ready : u <= v => u <= w
      <3>1. \A u \in 1 .. NVars : v \in 1 .. NVars /\ w \in 1 .. NVars /\ u <= v => u <= w
        BY <1>1, <1>5, SMT
      <3> QED
        BY <1>1, <3>1
    <2>2. Upto(v) \subseteq Upto(w) /\ Upto(w) \subseteq ready
      BY <2>1
    <2> HIDE DEF Upto
    <2>3. IsFiniteSet(Upto(w))
      BY <1>3, <2>2, FS_Subset
    <2> QED
      BY <2>2, <2>3, FS_Subset
  <1>6. ASSUME NEW v \in ready, NEW w \in Framed(p), v <= w
        PROVE  v \in Framed(p)
    <2>1. w \in ready /\ Cardinality(Upto(w)) <= FrameSize
      BY <1>2
    <2>2. Cardinality(Upto(v)) <= FrameSize
      <3>1. Cardinality(Upto(v)) <= Cardinality(Upto(w))
        BY <1>5, <1>6, <2>1
      <3> HIDE DEF Upto
      <3> QED
        BY <1>1, <1>4, <2>1, <3>1, SMT
    <2> QED
      BY <1>2, <2>2
  <1>7. ASSUME ready # {} PROVE Framed(p) # {}
    <2>1. PICK v \in ready : \A u \in ready : v <= u
      <3>1. ready \subseteq Nat
        BY <1>1, SMT
      <3> QED
        BY <1>7, <3>1, LeastOf
    <2>2. Upto(v) = {v}
      <3>1. \A u \in ready : u <= v <=> u = v
        <4>1. \A u \in ready : u \in Nat /\ v \in Nat /\ v <= u
          BY <1>1, <2>1
        <4> QED
          BY <4>1, SMT
      <3> QED
        BY <3>1
    <2>3. Cardinality(Upto(v)) = 1
      BY <2>2, FS_Singleton
    <2>4. Cardinality(Upto(v)) <= FrameSize
      BY <1>1, <2>3, SMT
    <2> QED
      BY <1>2, <2>4
  <1>8. ASSUME Cardinality(ready) <= FrameSize PROVE ready \subseteq Framed(p)
    <2>1. ASSUME NEW v \in ready PROVE Cardinality(Upto(v)) <= FrameSize
      <3> HIDE DEF Upto
      <3> QED
        BY <1>1, <1>3, <1>4, <1>8, SMT
    <2> QED
      BY <1>2, <2>1
  <1>9. Framed(p) \subseteq ready
    BY <1>2
  <1> QED
    <2>1. ready = {v \in Group(p) : Ready(v)}
      BY DEF ready
    <2> QED
      BY <1>1, <1>r, <1>6, <1>7, <1>8, <1>9, <2>1

\* A call leaves nothing that is owed behind.
LEMMA PageKeeps ==
  ASSUME PagesInv, PPage
  PROVE  /\ PagesInv'
         /\ rpc' # "page" => open' = {} \/ NothingAtFirst
  <1> DEFINE p == ppnode
             F == Framed(ppnode)
  <1>1. /\ p \in 0 .. NVars /\ NVars \in Nat /\ rpc = "page" /\ listed' = listed
        /\ open' = open \ F /\ ppnode' = GoOn(p) /\ (rpc' = "page" <=> ppnode' # 0)
        /\ full' = full \ F /\ late' = late \ F /\ sharp' = sharp
    BY PagesAssumption DEF PagesInv, PagesTypes, PPage, pcfg
  <1>2. \A v \in open : v \in listed /\ Ready(v) /\ v > p /\ v \in After(p)
    BY <1>1 DEF PagesInv, Owed, After
  <1>3. CASE Ends(p)
    <2>1. \A v \in open : v \in F
      <3>1. Cardinality({v \in Group(p) : Ready(v)}) <= FrameSize /\ Group(p) = After(p)
        BY <1>3 DEF Ends
      <3> QED
        BY <1>1, <1>2, <3>1, FramedFacts DEF PagesInv
    <2>2. open' = {} /\ ppnode' = 0
      BY <1>1, <1>3, <2>1 DEF GoOn
    <2>3. 0 \in 0 .. NVars
      BY <1>1, SMT
    <2> QED
      BY <1>1, <2>2, <2>3 DEF PagesInv, PagesTypes, Owed
  <1>4. CASE ~Ends(p) /\ F = {}
    <2>1. ppnode' = p /\ \A v \in Group(p) : ~Ready(v)
      BY <1>1, <1>4, FramedFacts DEF GoOn, PagesInv
    <2>2. full' = full /\ late' = late /\ open' = open
      BY <1>1, <1>4
    <2> HIDE DEF F
    <2>3. PagesInv'
      BY <1>1, <2>1, <2>2 DEF PagesInv, PagesTypes, Owed, Ready
    <2> QED
      BY <1>1, <2>1, <2>3 DEF NothingAtFirst
  <1>5. CASE ~Ends(p) /\ F # {}
    <2> DEFINE m == Max(F)
    <2>1. m \in F /\ \A y \in F : y <= m
      BY <1>1, <1>5, FramedFacts, MaxOf DEF PagesInv, PVars
    <2>2. ppnode' = m
      BY <1>1, <1>5 DEF GoOn
    <2> HIDE DEF m
    <2>3. m \in PVars /\ m \in Group(p) /\ m # 0 /\ m \in 0 .. NVars
      <3>1. m \in PVars /\ m \in Group(p)
        BY <1>1, <2>1, FramedFacts DEF PagesInv
      <3> QED
        BY <1>1, <3>1, SMT DEF PVars
    <2>4. ASSUME NEW v \in open \ F PROVE v > m
      <3>1. ~(v <= m)
        <4>1. v \in After(p) /\ Ready(v)
          BY <1>2
        <4>2. v <= m => v \in Group(p)
          BY <1>1, <2>3, <4>1, GroupFacts DEF PagesInv
        <4> QED
          BY <1>1, <2>1, <2>4, <4>1, <4>2, FramedFacts DEF PagesInv
      <3>2. v \in PVars
        BY <1>2 DEF PagesInv, PagesTypes
      <3> QED
        BY <1>1, <2>3, <3>1, <3>2, SMT DEF PVars
    <2>5. \A v \in open \ F : v \in full' /\ (sharp \/ v \in late')
      BY <1>1, <1>2 DEF Ready
    <2> HIDE DEF F
    <2> QED
      BY <1>1, <1>2, <2>2, <2>3, <2>4, <2>5 DEF PagesInv, PagesTypes, Owed, Ready
  <1> QED
    BY <1>3, <1>4, <1>5

LEMMA PagesInit == PInit => PagesInv
  <1>1. 0 \in 0 .. NVars
    BY PagesAssumption, SMT
  <1> QED
    BY <1>1 DEF PInit, PagesInv, PagesTypes, Owed

\* The rest of the loop, the clock and the web server.
LEMMA OthersKeep ==
  ASSUME PagesInv,
         PSample \/ PWait \/ PReport \/ Turns \/ (\E v \in PVars : Elapses(v)) \/ PWeb
  PROVE  PagesInv' /\ (rpc = "page" => rpc' = "page")
  <1> USE DEF PagesInv, PagesTypes, Owed, Ready, pcfg, plist
  <1>1. CASE PSample \/ PWait
    BY <1>1 DEF PSample, PWait
  <1>2. CASE PReport
    <2>1. 0 \in 0 .. NVars /\ \A v \in PVars : v > 0
      BY PagesAssumption, SMT DEF PVars
    <2> QED
      BY <1>2, <2>1 DEF PReport
  <1>3. CASE Turns
    BY <1>3 DEF Turns
  <1>4. CASE \E v \in PVars : Elapses(v)
    BY <1>4 DEF Elapses
  <1>5. ASSUME NEW v \in PVars, PSetVar(v)
        PROVE  PagesInv' /\ (rpc = "page" => rpc' = "page")
    BY <1>5 DEF PSetVar
  <1>6. ASSUME NEW v \in PVars, PRemove(v)
        PROVE  PagesInv' /\ (rpc = "page" => rpc' = "page")
    BY <1>6 DEF PRemove
  <1> QED
    BY <1>1, <1>2, <1>3, <1>4, <1>5, <1>6 DEF PWeb

LEMMA PagesInvariant == PSpec => []PagesInv
  <1>1. PagesInv /\ UNCHANGED pvars => PagesInv'
    BY DEF pvars, pcfg, plist, PagesInv, PagesTypes, Owed, Ready
  <1>2. PagesInv /\ [PNext]_pvars => PagesInv'
    BY <1>1, PageKeeps, OthersKeep DEF PNext, PTask
  <1> QED
    BY <1>2, PagesInit, PTL DEF PSpec

\* For any variables, stations and size of a frame, a round that ends has
\* reported all that was ready at its begin, unless it ends with its first call
\* because nothing was ready at the first station.
THEOREM RoundsComplete == PSpec => RoundComplete
  <1> DEFINE Done == rpc = "page" /\ rpc' # "page" => open' = {} \/ NothingAtFirst
  <1>1. PagesInv /\ [PNext]_pvars => [Done]_pvars
    <2>1. PagesInv /\ PNext => Done
      BY PageKeeps, OthersKeep DEF PNext, PTask
    <2> HIDE DEF Done
    <2> QED
      BY <2>1
  <1>2. PSpec => [][Done]_pvars
    <2> HIDE DEF Done
    <2> QED
      BY <1>1, PagesInvariant, PTL DEF PSpec
  <1> QED
    BY <1>2 DEF RoundComplete

-----------------------------------------------------------------------------
(* The frames of hjt212 and cc_bjdc *)

Bytes == {"#", "cr", "lf", "AA", "55", "68", "16", "body"}

\* The frame of this connection.
Whole == Frame[fproto]

\* The last bytes in the buffer are the last that came of the frame.
Recent == \A i \in 0 .. sent - 1 : i < Len(fbuf) => fbuf[Len(fbuf) - i] = Whole[sent - i]

\* The buffer holds what has come of the frame.
InStep == Len(fbuf) = sent /\ \A i \in 1 .. sent : fbuf[i] = Whole[i]

\* What a former connection left is the beginning of a mark.
Early ==
  \/ Len(fbuf) = 1 /\ fbuf[1] = Whole[1] /\ sent = 0 /\ missed = 0
  \/ /\ fproto = "cc_bjdc" /\ sent \in {0, 1} /\ missed <= 1
     /\ Len(fbuf) = sent + 2 /\ fbuf[1] = "AA" /\ fbuf[2] = "55" /\ (sent = 1 => fbuf[3] = "AA")

\* It is not and never will be; or the mark is looked for across its pairs.
Stuck == fproto = "cc_bjdc" /\ Len(fbuf) \in {2, 3} /\ fbuf[1] = "AA" /\ fbuf[2] = "AA"
Across ==
  /\ fproto = "cc_bjdc" /\ Len(fbuf) \in {2, 3} /\ fbuf[1] = "AA" /\ fbuf[2] = "55"
  /\ Len(fbuf) % 2 # sent % 2
  /\ Len(Whole) % 2 = 1 => missed = 0

FrameTypes ==
  /\ fproto \in Protos /\ rcv \in {"head", "eom"} /\ handled \in BOOLEAN
  /\ fbuf \in Seq(Bytes) /\ Len(fbuf) < BufSize
  /\ sent \in 0 .. Len(Whole) - 1 /\ missed \in 0 .. 3

AtHead ==
  \/ InStep /\ missed <= 2 /\ sent < Len(Pre[fproto])
  \/ Early \/ Stuck \/ Across

AtEom ==
  /\ Recent /\ missed <= 2
  /\ missed >= 1 => Len(fbuf) - sent \in 0 .. MinLen - 1
  /\ missed = 2 => InStep

FrameInv ==
  /\ FrameTypes /\ (handled => sent = 0)
  /\ rcv = "head" => AtHead
  /\ rcv = "eom" => AtEom

\* How a frame is made up: where the marks are, and that their last bytes are
\* nowhere else.
LEMMA HjtFrame ==
  LET F == Frame["hjt212"] IN
  /\ F \in Seq(Bytes) /\ Len(F) = BodyLen + 4 /\ Len(F) >= MinLen
  /\ F[1] = "#" /\ F[2] = "#" /\ F[Len(F) - 1] = "cr" /\ F[Len(F)] = "lf"
  /\ \A i \in 1 .. Len(F) : F[i] = "lf" => i = Len(F)
  /\ Pre["hjt212"] = <<"#", "#">> /\ Eom["hjt212"] = <<"cr", "lf">> /\ Back["hjt212"] = 1
  /\ Len(F) \in Nat /\ MinLen \in Nat /\ BufSize \in Nat
  /\ MinLen >= 2 /\ Len(F) + MinLen <= BufSize
  <1> DEFINE F == Frame["hjt212"]
             body == [i \in 1 .. BodyLen |-> "body"]
             a == <<"#", "#">> \o body
  <1>1. /\ Pre["hjt212"] = <<"#", "#">> /\ Eom["hjt212"] = <<"cr", "lf">> /\ Back["hjt212"] = 1
        /\ "hjt212" \in Protos /\ F = a \o <<"cr", "lf">>
    BY DEF Pre, Eom, Back, Protos, Frame
  <1>2. BodyLen \in Nat /\ body \in Seq(Bytes) /\ Len(body) = BodyLen
        /\ \A i \in 1 .. BodyLen : body[i] = "body"
    BY FramesAssumption, SMT DEF Bytes
  <1> HIDE DEF body
  <1>3. /\ a \in Seq(Bytes) /\ Len(a) = BodyLen + 2 /\ a[1] = "#" /\ a[2] = "#"
        /\ \A i \in 1 .. BodyLen : a[i + 2] = "body"
    BY <1>2, SMT DEF Bytes
  <1>4. \A i \in 1 .. Len(a) : a[i] # "lf"
    <2>1. \A i \in 1 .. Len(a) : i = 1 \/ i = 2 \/ (i - 2 \in 1 .. BodyLen /\ i = (i - 2) + 2)
      BY <1>2, <1>3, SMT
    <2> QED
      BY <1>3, <2>1
  <1> HIDE DEF a
  <1>5. /\ F \in Seq(Bytes) /\ Len(F) = BodyLen + 4
        /\ F[BodyLen + 3] = "cr" /\ F[BodyLen + 4] = "lf"
        /\ \A i \in 1 .. BodyLen + 2 : F[i] = a[i]
    BY <1>1, <1>2, <1>3, SMT DEF Bytes
  <1>6. F[1] = "#" /\ F[2] = "#" /\ \A i \in 1 .. Len(F) : F[i] = "lf" => i = Len(F)
    BY <1>2, <1>3, <1>4, <1>5, SMT
  <1>7. Len(F) >= MinLen /\ Len(F) + MinLen <= BufSize /\ MinLen \in Nat /\ BufSize \in Nat
        /\ MinLen >= Len(Pre["hjt212"])
    BY <1>1, FramesAssumption
  <1> HIDE DEF F
  <1>8. Len(F) - 1 = BodyLen + 3 /\ MinLen >= 2 /\ Len(F) \in Nat
    BY <1>1, <1>2, <1>5, <1>7, SMT
  <1> QED
    BY <1>1, <1>5, <1>6, <1>7, <1>8 DEF F

LEMMA CcFrame ==
  LET F == Frame["cc_bjdc"] IN
  /\ F \in Seq(Bytes) /\ Len(F) = BodyLen + 8 /\ Len(F) >= MinLen
  /\ F[1] = "AA" /\ F[2] = "55" /\ F[3] = "AA" /\ F[4] = "55"
  /\ F[Len(F) - 3] = "68" /\ F[Len(F) - 2] = "68" /\ F[Len(F) - 1] = "16" /\ F[Len(F)] = "16"
  /\ \A i \in 1 .. Len(F) : F[i] = "16" => i = Len(F) - 1 \/ i = Len(F)
  /\ \A i \in 1 .. Len(F) : F[i] = "55" => i = 2 \/ i = 4
  /\ Pre["cc_bjdc"] = <<"AA", "55", "AA", "55">> /\ Eom["cc_bjdc"] = <<"68", "68", "16", "16">>
  /\ Back["cc_bjdc"] = 2
  /\ Len(F) \in Nat /\ MinLen \in Nat /\ BufSize \in Nat
  /\ MinLen >= 4 /\ Len(F) + MinLen <= BufSize
  <1> DEFINE F == Frame["cc_bjdc"]
             body == [i \in 1 .. BodyLen |-> "body"]
             a == <<"AA", "55", "AA", "55">> \o body
  <1>1. /\ Pre["cc_bjdc"] = <<"AA", "55", "AA", "55">>
        /\ Eom["cc_bjdc"] = <<"68", "68", "16", "16">> /\ Back["cc_bjdc"] = 2
        /\ "cc_bjdc" \in Protos /\ F = a \o <<"68", "68", "16", "16">>
    BY DEF Pre, Eom, Back, Protos, Frame
  <1>2. BodyLen \in Nat /\ body \in Seq(Bytes) /\ Len(body) = BodyLen
        /\ \A i \in 1 .. BodyLen : body[i] = "body"
    BY FramesAssumption, SMT DEF Bytes
  <1> HIDE DEF body
  <1>3. /\ a \in Seq(Bytes) /\ Len(a) = BodyLen + 4
        /\ a[1] = "AA" /\ a[2] = "55" /\ a[3] = "AA" /\ a[4] = "55"
        /\ \A i \in 1 .. BodyLen : a[i + 4] = "body"
    BY <1>2, SMT DEF Bytes
  <1>4. \A i \in 1 .. Len(a) : a[i] # "16" /\ (a[i] = "55" => i = 2 \/ i = 4)
    <2>1. \A i \in 1 .. Len(a) : i = 1 \/ i = 2 \/ i = 3 \/ i = 4
                                  \/ (i - 4 \in 1 .. BodyLen /\ i = (i - 4) + 4)
      BY <1>2, <1>3, SMT
    <2> QED
      BY <1>3, <2>1
  <1> HIDE DEF a
  <1>5. /\ F \in Seq(Bytes) /\ Len(F) = BodyLen + 8
        /\ F[BodyLen + 5] = "68" /\ F[BodyLen + 6] = "68"
        /\ F[BodyLen + 7] = "16" /\ F[BodyLen + 8] = "16"
        /\ \A i \in 1 .. BodyLen + 4 : F[i] = a[i]
    BY <1>1, <1>2, <1>3, SMT DEF Bytes
  <1> HIDE DEF F
  <1>6. /\ F[1] = "AA" /\ F[2] = "55" /\ F[3] = "AA" /\ F[4] = "55"
    BY <1>2, <1>3, <1>5, SMT
  <1>7. \A i \in 1 .. Len(F) : /\ F[i] = "16" => i = Len(F) - 1 \/ i = Len(F)
                               /\ F[i] = "55" => i = 2 \/ i = 4
    <2>1. \A i \in 1 .. Len(F) : i \in 1 .. BodyLen + 4 \/ i = BodyLen + 5 \/ i = BodyLen + 6
                                  \/ i = Len(F) - 1 \/ i = Len(F)
      BY <1>2, <1>5, SMT
    <2>2. Len(F) - 1 = BodyLen + 7
      BY <1>2, <1>5, SMT
    <2> QED
      BY <1>3, <1>4, <1>5, <2>1, <2>2
  <1>8. Len(F) >= MinLen /\ Len(F) + MinLen <= BufSize /\ MinLen \in Nat /\ BufSize \in Nat
        /\ MinLen >= Len(Pre["cc_bjdc"])
    BY <1>1, FramesAssumption DEF F
  <1>9. Len(F) - 3 = BodyLen + 5 /\ Len(F) - 2 = BodyLen + 6 /\ Len(F) - 1 = BodyLen + 7
        /\ MinLen >= 4 /\ Len(F) \in Nat
    BY <1>1, <1>2, <1>5, <1>8, SMT
  <1> QED
    BY <1>1, <1>5, <1>6, <1>7, <1>8, <1>9 DEF F

\* What IsSuffix says, without turning the sequences round.
LEMMA SuffixIs ==
  ASSUME NEW X, NEW s \in Seq(X), NEW t \in Seq(X)
  PROVE  IsSuffix(s, t) <=>
           Len(s) <= Len(t) /\ \A i \in 0 .. Len(s) - 1 : t[Len(t) - i] = s[Len(s) - i]
  <1> DEFINE m == Len(s)
             n == Len(t)
             rs == Reverse(s)
             rt == Reverse(t)
  <1>1. m \in Nat /\ n \in Nat
    OBVIOUS
  <1>2. /\ rs \in Seq(X) /\ Len(rs) = m /\ \A i \in 1 .. m : rs[i] = s[(m - i) + 1]
        /\ rt \in Seq(X) /\ Len(rt) = n /\ \A i \in 1 .. n : rt[i] = t[(n - i) + 1]
    BY SMT DEF Reverse
  <1> HIDE DEF rs, rt
  <1>3. IsSuffix(s, t) <=> m <= n /\ SubSeq(rs, 1, m) = SubSeq(rt, 1, m)
    BY <1>2 DEF IsSuffix, IsPrefix, rs, rt
  <1>4. m <= n => (SubSeq(rs, 1, m) = SubSeq(rt, 1, m) <=> \A i \in 1 .. m : rs[i] = rt[i])
    <2> HAVE m <= n
    <2>1. /\ SubSeq(rs, 1, m) \in Seq(X) /\ SubSeq(rt, 1, m) \in Seq(X)
          /\ Len(SubSeq(rs, 1, m)) = m /\ Len(SubSeq(rt, 1, m)) = m
          /\ \A i \in 1 .. m : SubSeq(rs, 1, m)[i] = rs[i] /\ SubSeq(rt, 1, m)[i] = rt[i]
      BY <1>1, <1>2, SMT
    <2> DEFINE u == SubSeq(rs, 1, m)
               v == SubSeq(rt, 1, m)
    <2>2. u = [i \in 1 .. m |-> u[i]] /\ v = [i \in 1 .. m |-> v[i]]
      BY <2>1
    <2> HIDE DEF u, v
    <2>3. u = v <=> \A i \in 1 .. m : u[i] = v[i]
      BY <2>2
    <2> QED
      BY <2>1, <2>3 DEF u, v
  <1>5. m <= n => ((\A i \in 1 .. m : rs[i] = rt[i])
                     <=> \A i \in 0 .. m - 1 : t[n - i] = s[m - i])
    <2> HAVE m <= n
    <2>1. \A i \in 1 .. m : i - 1 \in 0 .. m - 1 /\ (m - i) + 1 = m - (i - 1)
                            /\ (n - i) + 1 = n - (i - 1) /\ i \in 1 .. n
      BY <1>1, SMT
    <2>2. \A i \in 0 .. m - 1 : i + 1 \in 1 .. m /\ (i + 1) - 1 = i
      BY <1>1, SMT
    <2>3. \A i \in 1 .. m : rs[i] = s[m - (i - 1)] /\ rt[i] = t[n - (i - 1)]
      BY <1>2, <2>1
    <2> HIDE DEF m, n
    <2>4. ASSUME \A i \in 0 .. m - 1 : t[n - i] = s[m - i], NEW i \in 1 .. m
          PROVE  rs[i] = rt[i]
      BY <2>1, <2>3, <2>4
    <2>5. ASSUME \A i \in 1 .. m : rs[i] = rt[i], NEW i \in 0 .. m - 1
          PROVE  t[n - i] = s[m - i]
      <3>1. rs[i + 1] = s[m - ((i + 1) - 1)] /\ rt[i + 1] = t[n - ((i + 1) - 1)] /\ rs[i + 1] = rt[i + 1]
        BY <2>2, <2>3, <2>5
      <3> QED
        BY <2>2, <3>1
    <2> QED
      BY <2>4, <2>5
  <1> QED
    BY <1>3, <1>4, <1>5

\* The frame of this connection, whichever it is.
LEMMA WholeFrame ==
  ASSUME fproto \in Protos
  PROVE  /\ Whole \in Seq(Bytes) /\ Len(Whole) \in Nat
         /\ Len(Whole) >= MinLen /\ Len(Whole) + MinLen <= BufSize
         /\ MinLen \in Nat /\ BufSize \in Nat /\ MinLen >= Len(Eom[fproto])
         /\ Len(Pre[fproto]) < Len(Whole)
         /\ Eom[fproto] \in Seq(Bytes) /\ Len(Eom[fproto]) \in Nat \ {0}
         /\ Len(Eom[fproto]) <= Len(Whole)
         /\ \A i \in 0 .. Len(Eom[fproto]) - 1 :
              Whole[Len(Whole) - i] = Eom[fproto][Len(Eom[fproto]) - i]
  <1>1. CASE fproto = "hjt212"
    <2>1. BodyLen \in Nat
      BY FramesAssumption
    <2>2. \A i \in 0 .. 2 - 1 : i = 0 \/ i = 1
      BY SMT
    <2>3. /\ Len(<<"cr", "lf">>) = 2 /\ <<"cr", "lf">> \in Seq(Bytes) /\ Len(<<"#", "#">>) = 2
          /\ <<"cr", "lf">>[2 - 0] = "lf" /\ <<"cr", "lf">>[2 - 1] = "cr"
      BY SMT DEF Bytes
    <2>4. Whole[Len(Whole) - 0] = "lf" /\ Whole[Len(Whole) - 1] = "cr"
      BY <1>1, HjtFrame, SMT DEF Whole
    <2>5. Len(Whole) > 2
      BY <1>1, <2>1, HjtFrame, SMT DEF Whole
    <2> QED
      BY <1>1, <2>2, <2>3, <2>4, <2>5, HjtFrame DEF Whole
  <1>2. CASE fproto = "cc_bjdc"
    <2>1. BodyLen \in Nat
      BY FramesAssumption
    <2>2. \A i \in 0 .. 4 - 1 : i = 0 \/ i = 1 \/ i = 2 \/ i = 3
      BY SMT
    <2> DEFINE E == <<"68", "68", "16", "16">>
    <2>3. /\ Len(E) = 4 /\ E \in Seq(Bytes) /\ Len(<<"AA", "55", "AA", "55">>) = 4
          /\ E[4 - 0] = "16" /\ E[4 - 1] = "16" /\ E[4 - 2] = "68" /\ E[4 - 3] = "68"
      BY SMT DEF Bytes
    <2>4. /\ Whole[Len(Whole) - 0] = "16" /\ Whole[Len(Whole) - 1] = "16"
          /\ Whole[Len(Whole) - 2] = "68" /\ Whole[Len(Whole) - 3] = "68"
      BY <1>2, CcFrame, SMT DEF Whole
    <2>5. Len(Whole) > 4
      BY <1>2, <2>1, CcFrame, SMT DEF Whole
    <2>6. Eom[fproto] = E /\ Len(Pre[fproto]) = 4
      BY <1>2, <2>3, CcFrame
    <2>7. \A i \in 0 .. 4 - 1 : Whole[Len(Whole) - i] = E[4 - i]
      BY <2>2, <2>3, <2>4
    <2> HIDE DEF E
    <2>8. /\ Whole \in Seq(Bytes) /\ Len(Whole) \in Nat
          /\ Len(Whole) >= MinLen /\ Len(Whole) + MinLen <= BufSize
          /\ MinLen \in Nat /\ BufSize \in Nat /\ MinLen >= 4
      BY <1>2, CcFrame DEF Whole
    <2>9. 4 <= Len(Whole) /\ 4 < Len(Whole) /\ 4 \in Nat \ {0}
      BY <2>5, <2>8, SMT
    <2> QED
      BY <2>3, <2>6, <2>7, <2>8, <2>9, Zenon
  <1> QED
    BY <1>1, <1>2 DEF Protos

\* A byte comes, and the count of frames missed goes with it.
LEMMA ByteCounts ==
  ASSUME FrameTypes, PutByte
  PROVE  /\ Whole' = Whole /\ fproto' = fproto
         /\ sent + 1 < Len(Whole) => /\ sent' = sent + 1
                                     /\ handled' = FALSE => missed' = missed
         /\ ~(sent + 1 < Len(Whole)) => /\ sent + 1 = Len(Whole) /\ sent' = 0
                                        /\ handled' = FALSE /\ missed < 3 => missed' = missed + 1
                                        /\ handled' = FALSE /\ missed = 3 => missed' = 3
         /\ handled' = TRUE => missed' = 0
         /\ sent' \in 0 .. Len(Whole) - 1 /\ sent + 1 \in 1 .. Len(Whole)
         /\ Whole[sent + 1] \in Bytes
  <1>1. fproto' = fproto /\ Whole' = Whole
    BY DEF PutByte, Whole
  <1>2. Len(Whole) \in Nat /\ sent \in 0 .. Len(Whole) - 1 /\ missed \in 0 .. 3 /\ Whole \in Seq(Bytes)
    BY WholeFrame DEF FrameTypes
  <1>3. sent' = (sent + 1) % Len(Whole)
    BY DEF PutByte, Whole
  <1>4. \A L \in Nat : \A n \in 0 .. L - 1 : /\ n + 1 < L => (n + 1) % L = n + 1
                                             /\ ~(n + 1 < L) => n + 1 = L /\ (n + 1) % L = 0
    BY SMT
  <1>5. /\ sent + 1 < Len(Whole) => sent' = sent + 1 /\ sent' # 0
        /\ ~(sent + 1 < Len(Whole)) => sent + 1 = Len(Whole) /\ sent' = 0
    BY <1>2, <1>3, <1>4, SMT
  <1>6. missed' = IF handled' THEN 0
                  ELSE IF sent' = 0 /\ missed < 3 THEN missed + 1 ELSE missed
    BY DEF PutByte
  <1>7. sent' \in 0 .. Len(Whole) - 1 /\ sent + 1 \in 1 .. Len(Whole)
    BY <1>2, <1>5, SMT
  <1>8. Whole[sent + 1] \in Bytes
    BY <1>2, <1>7
  <1>9. ~(3 < 3)
    BY SMT
  <1> QED
    BY <1>1, <1>5, <1>6, <1>7, <1>8, <1>9, Zenon

\* The buffer with the next byte in it.
LEMMA FilledIs ==
  ASSUME FrameTypes
  PROVE  /\ Filled \in Seq(Bytes) /\ Len(Filled) \in Nat /\ Len(Filled) < BufSize
         /\ Len(fbuf) \in Nat
         /\ Len(fbuf) + 1 < BufSize =>
              /\ Len(Filled) = Len(fbuf) + 1
              /\ \A i \in 1 .. Len(fbuf) : Filled[i] = fbuf[i]
              /\ Filled[Len(fbuf) + 1] = Whole[sent + 1]
         /\ ~(Len(fbuf) + 1 < BufSize) => Filled = <<>> /\ Len(Filled) = 0
  <1>1. /\ Whole \in Seq(Bytes) /\ Len(Whole) \in Nat /\ BufSize \in Nat /\ BufSize > 0
        /\ sent \in 0 .. Len(Whole) - 1
        /\ fbuf \in Seq(Bytes) /\ Len(fbuf) < BufSize /\ Len(fbuf) \in Nat
    BY WholeFrame, SMT DEF FrameTypes
  <1>2. Whole[sent + 1] \in Bytes
    BY <1>1, SMT
  <1>3. Filled = IF Len(fbuf) + 1 = BufSize THEN <<>> ELSE Append(fbuf, Whole[sent + 1])
    BY DEF Filled, Whole
  <1> QED
    BY <1>1, <1>2, <1>3, SMT

\* The first byte too many: it follows another in the mark of the end.
LEMMA EndIsEnd ==
  ASSUME FrameTypes, Recent, AtEnd
  PROVE  sent + 1 = Len(Whole)
  <1> DEFINE b == Filled
             k == Len(Filled)
  <1>1. /\ fproto \in Protos /\ sent \in 0 .. Len(Whole) - 1 /\ fbuf \in Seq(Bytes)
        /\ Len(Whole) \in Nat /\ Len(fbuf) \in Nat /\ BufSize \in Nat
        /\ Whole \in Seq(Bytes) /\ Eom[fproto] \in Seq(Bytes) /\ b \in Seq(Bytes)
    BY WholeFrame, FilledIs DEF FrameTypes
  <1>2. /\ Len(Eom[fproto]) <= k
        /\ \A i \in 0 .. Len(Eom[fproto]) - 1 : b[k - i] = Eom[fproto][Len(Eom[fproto]) - i]
    BY <1>1, SuffixIs DEF AtEnd
  <1>3. k # 0
    BY <1>1, <1>2, WholeFrame, FilledIs, SMT
  <1>4. /\ k = Len(fbuf) + 1 /\ b[k] = Whole[sent + 1]
        /\ \A i \in 1 .. Len(fbuf) : b[i] = fbuf[i]
    BY <1>3, FilledIs
  <1> HIDE DEF b, k
  <1>5. CASE fproto = "hjt212"
    <2>1. Eom[fproto] = <<"cr", "lf">> /\ Whole = Frame["hjt212"]
      BY <1>5, HjtFrame DEF Whole
    <2>2. Len(Eom[fproto]) = 2 /\ Eom[fproto][2 - 0] = "lf" /\ 0 \in 0 .. 2 - 1 /\ k - 0 = k
      BY <1>1, <1>4, <2>1, SMT
    <2>3. Whole[sent + 1] = "lf"
      BY <1>2, <1>4, <2>2
    <2>4. sent + 1 \in 1 .. Len(Whole)
      BY <1>1, SMT
    <2> QED
      BY <2>1, <2>3, <2>4, HjtFrame
  <1>6. CASE fproto = "cc_bjdc"
    <2>1. Eom[fproto] = <<"68", "68", "16", "16">> /\ Whole = Frame["cc_bjdc"]
      BY <1>6, CcFrame DEF Whole
    <2>2. Len(Eom[fproto]) = 4 /\ Eom[fproto][4 - 0] = "16" /\ Eom[fproto][4 - 1] = "16"
      BY <2>1, SMT
    <2>3. 0 \in 0 .. 4 - 1 /\ 1 \in 0 .. 4 - 1 /\ k - 0 = k
      BY <1>1, <1>4, SMT
    <2>4. b[k] = "16" /\ b[k - 1] = "16" /\ Len(fbuf) >= 3
      <3>1. Len(fbuf) >= 3
        BY <1>1, <1>2, <1>4, <2>2, SMT
      <3> QED
        BY <1>2, <2>2, <2>3, <3>1
    <2>5. fbuf[Len(fbuf)] = "16" /\ Whole[sent + 1] = "16"
      <3>1. k - 1 = Len(fbuf) /\ Len(fbuf) \in 1 .. Len(fbuf)
        BY <1>1, <1>4, <2>4, SMT
      <3> QED
        BY <1>4, <2>4, <3>1
    <2>6. sent + 1 \in 1 .. Len(Whole)
      BY <1>1, SMT
    <2>7. sent # 0
      <3>1. sent = 0 => Whole[sent + 1] = "AA"
        BY <2>1, CcFrame
      <3> QED
        BY <2>5, <3>1
    <2>8. Whole[sent] = "16"
      <3>1. 0 \in 0 .. sent - 1 /\ 0 < Len(fbuf) /\ Len(fbuf) - 0 = Len(fbuf) /\ sent - 0 = sent
        BY <1>1, <2>4, <2>7, SMT
      <3> QED
        BY <2>5, <3>1 DEF Recent
    <2>9. sent \in 1 .. Len(Whole)
      BY <1>1, <2>7, SMT
    <2>10. \A i \in 1 .. Len(Whole) : Whole[i] = "16" => i = Len(Whole) - 1 \/ i = Len(Whole)
      BY <2>1, CcFrame
    <2> QED
      BY <1>1, <2>5, <2>6, <2>8, <2>9, <2>10, SMT
  <1> QED
    BY <1>1, <1>5, <1>6 DEF Protos

\* The bytes that have come are still the last ones with the next.
LEMMA RecentGoesOn ==
  ASSUME FrameTypes, Recent
  PROVE  \A i \in 0 .. sent : i < Len(Filled) => Filled[Len(Filled) - i] = Whole[(sent + 1) - i]
  <1> SUFFICES ASSUME NEW i \in 0 .. sent, i < Len(Filled)
               PROVE  Filled[Len(Filled) - i] = Whole[(sent + 1) - i]
    OBVIOUS
  <1>1. Len(Whole) \in Nat /\ sent \in 0 .. Len(Whole) - 1 /\ Len(fbuf) \in Nat
    BY WholeFrame, FilledIs DEF FrameTypes
  <1>2. ~(Len(Filled) = 0)
    BY <1>1, SMT
  <1>3. /\ Len(Filled) = Len(fbuf) + 1 /\ Filled[Len(fbuf) + 1] = Whole[sent + 1]
        /\ \A j \in 1 .. Len(fbuf) : Filled[j] = fbuf[j]
    BY <1>2, FilledIs
  <1>4. CASE i = 0
    <2>1. Len(Filled) - 0 = Len(fbuf) + 1 /\ (sent + 1) - 0 = sent + 1
      BY <1>1, <1>3, SMT
    <2> QED
      BY <1>3, <1>4, <2>1
  <1>5. CASE i # 0
    <2>1. /\ i - 1 \in 0 .. sent - 1 /\ i - 1 < Len(fbuf)
          /\ Len(Filled) - i = Len(fbuf) - (i - 1) /\ (sent + 1) - i = sent - (i - 1)
          /\ Len(fbuf) - (i - 1) \in 1 .. Len(fbuf)
      BY <1>1, <1>3, <1>5, SMT
    <2>2. fbuf[Len(fbuf) - (i - 1)] = Whole[sent - (i - 1)]
      BY <2>1 DEF Recent
    <2> QED
      BY <1>3, <2>1, <2>2
  <1> QED
    BY <1>4, <1>5

\* An end that comes into a buffer that is not too short is found.
LEMMA EndIsFound ==
  ASSUME FrameTypes, Recent, sent + 1 = Len(Whole), Len(Filled) >= MinLen
  PROVE  AtEnd
  <1> DEFINE e == Len(Eom[fproto])
  <1>1. /\ Len(Whole) \in Nat /\ e \in Nat /\ e <= Len(Whole) /\ e <= MinLen /\ MinLen \in Nat
        /\ sent \in 0 .. Len(Whole) - 1 /\ Filled \in Seq(Bytes) /\ Len(Filled) \in Nat
        /\ Eom[fproto] \in Seq(Bytes)
        /\ \A i \in 0 .. e - 1 : Whole[Len(Whole) - i] = Eom[fproto][e - i]
    BY WholeFrame, FilledIs DEF FrameTypes
  <1>2. \A i \in 0 .. e - 1 : i \in 0 .. sent /\ i < Len(Filled)
    <2> HIDE DEF e
    <2> QED
      BY <1>1, SMT
  <1>3. e <= Len(Filled)
    <2> HIDE DEF e
    <2> QED
      BY <1>1, SMT
  <1>4. \A i \in 0 .. e - 1 : Filled[Len(Filled) - i] = Whole[Len(Whole) - i]
    BY <1>2, RecentGoesOn
  <1>5. IsSuffix(Eom[fproto], Filled)
    BY <1>1, <1>3, <1>4, SuffixIs
  <1> QED
    BY <1>5 DEF AtEnd

\* The search for the end.
LEMMA CollectStep ==
  ASSUME FrameInv, Collect, PutByte
  PROVE  FrameInv'
  <1> DEFINE b == Filled
             n == Len(fbuf)
             L == Len(Whole)
  <1>1. /\ FrameTypes /\ rcv = "eom" /\ AtEom /\ Recent
        /\ handled' = (AtEnd /\ b = Whole)
        /\ AtEnd => fbuf' = <<>> /\ rcv' = "head"
        /\ ~AtEnd => fbuf' = b /\ rcv' = "eom"
    BY DEF FrameInv, Collect, AtEom, Whole
  <1>2. /\ L \in Nat /\ L >= MinLen /\ L + MinLen <= BufSize /\ MinLen \in Nat /\ BufSize \in Nat
        /\ sent \in 0 .. L - 1 /\ n \in Nat /\ missed \in 0 .. 3 /\ missed <= 2
        /\ b \in Seq(Bytes) /\ Len(b) \in Nat /\ Len(b) < BufSize /\ fproto \in Protos
        /\ MinLen # 0 /\ Len(Pre[fproto]) \in Nat /\ 0 < Len(Pre[fproto])
    <2>1. Len(Eom[fproto]) >= 1 /\ Len(Eom[fproto]) \in Nat /\ fproto \in Protos
      BY <1>1, WholeFrame, SMT DEF FrameTypes
    <2>2. Len(Pre[fproto]) \in Nat /\ 0 < Len(Pre[fproto])
      <3>1. Len(<<"#", "#">>) = 2 /\ Len(<<"AA", "55", "AA", "55">>) = 4
        BY SMT
      <3>2. Len(Pre[fproto]) \in {2, 4}
        BY <2>1, <3>1, HjtFrame, CcFrame DEF Protos
      <3> QED
        BY <3>2, SMT
    <2>3. MinLen # 0
      BY <2>1, WholeFrame, SMT
    <2> QED
      BY <1>1, <2>1, <2>2, <2>3, WholeFrame, FilledIs DEF FrameTypes, AtEom
  <1>3. /\ sent' \in 0 .. L - 1 /\ Whole' = Whole /\ fproto' = fproto
        /\ sent + 1 < L => sent' = sent + 1 /\ (handled' = FALSE => missed' = missed)
        /\ ~(sent + 1 < L) => /\ sent + 1 = L /\ sent' = 0
                              /\ handled' = FALSE /\ missed < 3 => missed' = missed + 1
        /\ handled' = TRUE => missed' = 0
    BY <1>1, ByteCounts
  <1>4. AtEnd => sent + 1 = L
    BY <1>1, EndIsEnd
  <1>5. \A i \in 0 .. sent : i < Len(b) => b[Len(b) - i] = Whole[(sent + 1) - i]
    BY <1>1, RecentGoesOn
  \* A buffer that is in order does not come to its end before the frame does.
  <1>6. missed >= 1 => Len(b) = n + 1 /\ n - sent \in 0 .. MinLen - 1
    <2>1. missed >= 1 => n - sent \in 0 .. MinLen - 1
      BY <1>1 DEF AtEom
    <2>2. missed >= 1 => n + 1 < BufSize
      BY <1>2, <2>1, SMT
    <2> QED
      BY <1>1, <2>1, <2>2, FilledIs
  <1>7. missed = 2 => n = sent /\ \A i \in 1 .. sent + 1 : b[i] = Whole[i]
    <2> SUFFICES ASSUME missed = 2
                 PROVE  n = sent /\ \A i \in 1 .. sent + 1 : b[i] = Whole[i]
      OBVIOUS
    <2>1. n = sent /\ \A i \in 1 .. sent : fbuf[i] = Whole[i]
      BY <1>1 DEF AtEom, InStep
    <2>2. n + 1 < BufSize
      BY <1>2, <2>1, SMT
    <2>3. b[sent + 1] = Whole[sent + 1] /\ \A i \in 1 .. sent : b[i] = Whole[i]
      BY <1>1, <2>1, <2>2, FilledIs
    <2>4. \A i \in 1 .. sent + 1 : i \in 1 .. sent \/ i = sent + 1
      BY <1>2, SMT
    <2> QED
      BY <2>1, <2>3, <2>4
  <1>8. handled' \in BOOLEAN /\ (handled' = TRUE => sent' = 0) /\ (handled' = TRUE => AtEnd)
    <2>1. handled' = TRUE \/ handled' = FALSE
      BY <1>1
    <2>2. handled' = TRUE => AtEnd
      BY <1>1
    <2>3. sent + 1 = L => sent' = 0
      BY <1>2, <1>3, SMT
    <2> QED
      BY <1>4, <2>1, <2>2, <2>3
  \* In the middle of a frame.
  <1>9. CASE sent + 1 < L
    <2>1. ~AtEnd
      BY <1>2, <1>4, <1>9, SMT
    <2>2. handled' = FALSE /\ fbuf' = b /\ rcv' = "eom" /\ sent' = sent + 1 /\ missed' = missed
      BY <1>1, <1>3, <1>9, <2>1
    <2> HIDE DEF b, n, L
    <2>3. FrameTypes'
      BY <1>2, <1>3, <2>2 DEF FrameTypes, L
    <2>4. Recent'
      <3>1. \A i \in 0 .. (sent + 1) - 1 : i \in 0 .. sent
        BY <1>2, SMT
      <3> QED
        BY <1>3, <1>5, <2>2, <3>1 DEF Recent
    <2>5. missed >= 1 => Len(b) - (sent + 1) \in 0 .. MinLen - 1
      BY <1>2, <1>6, SMT
    <2>6. missed = 2 => InStep'
      <3>1. missed = 2 => Len(b) = sent + 1
        BY <1>2, <1>6, <1>7, SMT
      <3> QED
        BY <1>3, <1>7, <2>2, <3>1 DEF InStep
    <2>7. AtEom'
      BY <1>2, <2>2, <2>4, <2>5, <2>6 DEF AtEom
    <2> QED
      BY <2>2, <2>3, <2>7 DEF FrameInv
  \* The end comes, and is found.
  <1>10. CASE ~(sent + 1 < L) /\ Len(b) >= MinLen
    <2>1. AtEnd /\ sent' = 0 /\ sent + 1 = L
      BY <1>1, <1>3, <1>10, EndIsFound
    <2>2. fbuf' = <<>> /\ rcv' = "head"
      BY <1>1, <2>1
    <2>3. missed = 2 => handled' = TRUE
      <3> SUFFICES ASSUME missed = 2 PROVE b = Whole
        BY <1>1, <2>1
      <3>1. Len(b) = L /\ \A i \in 1 .. L : b[i] = Whole[i]
        BY <1>2, <1>6, <1>7, <2>1, SMT
      <3>2. Whole \in Seq(Bytes)
        BY <1>2, WholeFrame
      <3>3. b = [i \in 1 .. L |-> b[i]] /\ Whole = [i \in 1 .. L |-> Whole[i]]
        BY <1>2, <3>1, <3>2
      <3> HIDE DEF b, L
      <3>4. [i \in 1 .. L |-> b[i]] = [i \in 1 .. L |-> Whole[i]]
        BY <3>1
      <3> QED
        BY <3>3, <3>4
    <2>4. missed' \in 0 .. 3 /\ missed' <= 2
      <3>1. CASE handled' = TRUE
        BY <1>3, <3>1, SMT
      <3>2. CASE handled' = FALSE
        <4>1. missed < 3 /\ missed # 2
          BY <1>2, <2>3, <3>2, SMT
        <4>2. missed' = missed + 1
          BY <1>3, <1>10, <3>2, <4>1
        <4> QED
          BY <1>2, <4>1, <4>2, SMT
      <3> QED
        BY <1>8, <3>1, <3>2
    <2>5. <<>> \in Seq(Bytes) /\ Len(<<>>) = 0 /\ 0 < BufSize /\ \A i \in 1 .. 0 : FALSE
      BY <1>2, SMT
    <2>6. InStep' /\ (sent < Len(Pre[fproto]))'
      BY <1>2, <1>3, <2>1, <2>2, <2>5 DEF InStep
    <2> HIDE DEF b, n
    <2>7. FrameTypes'
      BY <1>2, <1>3, <1>8, <2>2, <2>4, <2>5 DEF FrameTypes
    <2> QED
      BY <1>8, <2>2, <2>4, <2>6, <2>7 DEF FrameInv, AtHead
  \* The end comes just behind the beginning of the buffer, and is not.
  <1>11. CASE ~(sent + 1 < L) /\ ~(Len(b) >= MinLen)
    <2>1. sent + 1 = L /\ sent' = 0
      BY <1>3, <1>11
    <2>2. ~AtEnd
      BY <1>11 DEF AtEnd
    <2>3. fbuf' = b /\ rcv' = "eom" /\ handled' = FALSE
      BY <1>1, <2>2
    <2> HIDE DEF b, n, L
    <2>4. missed = 0
      BY <1>2, <1>6, <1>11, <2>1, SMT
    <2>5. missed' = 1
      <3>1. 0 < 3 /\ 0 + 1 = 1
        BY SMT
      <3> QED
        BY <1>3, <1>11, <2>3, <2>4, <3>1
    <2>6. Recent'
      <3>1. \A i \in 0 .. 0 - 1 : FALSE
        BY SMT
      <3> QED
        BY <2>1, <3>1 DEF Recent
    <2>7. Len(b) - 0 \in 0 .. MinLen - 1 /\ 1 \in 0 .. 3 /\ 1 <= 2 /\ 1 # 2
      BY <1>2, <1>11, SMT
    <2>8. AtEom'
      BY <2>1, <2>3, <2>5, <2>6, <2>7 DEF AtEom
    <2>9. FrameTypes'
      BY <1>2, <1>3, <2>3, <2>5, <2>7 DEF FrameTypes, L
    <2> QED
      BY <2>1, <2>3, <2>8, <2>9 DEF FrameInv
  <1> QED
    BY <1>9, <1>10, <1>11

\* The mark of hjt212 is found at once.
LEMMA SeekHjt ==
  ASSUME FrameInv, Seek, PutByte, fproto = "hjt212"
  PROVE  FrameInv'
  <1> DEFINE b == Filled
             n == Len(fbuf)
             L == Len(Whole)
  <1>1. /\ FrameTypes /\ rcv = "head" /\ AtHead /\ handled' = FALSE
        /\ Pre[fproto] = <<"#", "#">>
    BY HjtFrame DEF FrameInv, Seek
  <1>2. /\ Whole = Frame["hjt212"] /\ Whole[1] = "#" /\ Whole[2] = "#" /\ BodyLen \in Nat
        /\ L = BodyLen + 4 /\ L \in Nat /\ MinLen \in Nat /\ BufSize \in Nat /\ MinLen >= 2
        /\ L + MinLen <= BufSize /\ sent \in 0 .. L - 1 /\ missed \in 0 .. 3
        /\ b \in Seq(Bytes) /\ Len(b) < BufSize /\ n \in Nat
    BY <1>1, HjtFrame, FilledIs, FramesAssumption DEF Whole, FrameTypes
  <1>3. /\ fbuf[1] = "#" \/ n = 0
        /\ \/ n = sent /\ sent \in {0, 1} /\ missed <= 2
           \/ n = 1 /\ sent = 0 /\ missed = 0
    <2>1. \/ InStep /\ missed <= 2 /\ sent < 2
          \/ n = 1 /\ fbuf[1] = Whole[1] /\ sent = 0 /\ missed = 0
      <3>1. Len(<<"#", "#">>) = 2 /\ "hjt212" # "cc_bjdc"
        BY SMT
      <3> QED
        BY <1>1, <3>1 DEF AtHead, Early, Stuck, Across
    <2>2. sent < 2 => sent = 0 \/ (sent = 1 /\ 1 \in 1 .. 1)
      BY <1>2, SMT
    <2> QED
      BY <1>2, <2>1, <2>2 DEF InStep
  <1>4. /\ Len(b) = n + 1 /\ b[n + 1] = Whole[sent + 1] /\ \A i \in 1 .. n : b[i] = fbuf[i]
    <2>1. BufSize >= 4
      BY <1>2, SMT
    <2>2. n = 0 \/ n = 1
      BY <1>3
    <2>3. n + 1 < BufSize
      <3> HIDE DEF n
      <3> QED
        BY <1>2, <2>1, <2>2, SMT
    <2> QED
      BY <1>1, <2>3, FilledIs
  <1>5. /\ sent' = sent + 1 /\ missed' = missed /\ Whole' = Whole /\ fproto' = fproto
    <2>1. sent + 1 < L
      BY <1>2, <1>3, SMT
    <2> QED
      BY <1>1, <2>1, ByteCounts
  <1>6. Whole[sent + 1] = "#" /\ sent + 1 \in 0 .. L - 1 /\ sent + 1 \in {1, 2}
    <2>1. sent + 1 = 1 \/ sent + 1 = 2
      BY <1>3, SMT
    <2>2. sent + 1 \in 0 .. L - 1
      BY <1>2, <2>1, SMT
    <2> QED
      BY <1>2, <2>1, <2>2
  <1>7. /\ Len(b) < 2 => fbuf' = b /\ rcv' = "head"
        /\ ~(Len(b) < 2) /\ b = <<"#", "#">> => fbuf' = b /\ rcv' = "eom"
    <2>1. Len(<<"#", "#">>) = 2
      BY SMT
    <2> QED
      BY <1>1, <2>1 DEF Seek
  <1> HIDE DEF b, n, L
  <1>8. CASE n = 0
    <2>1. Len(b) = 1 /\ Len(b) < 2 /\ sent = 0 /\ b[1] = "#" /\ missed <= 2
      BY <1>3, <1>4, <1>6, <1>8, SMT
    <2>2. fbuf' = b /\ rcv' = "head" /\ sent' = 1
      BY <1>5, <1>7, <2>1, SMT
    <2>3. InStep' /\ (sent < Len(Pre[fproto]))'
      <3>1. 1 < Len(<<"#", "#">>) /\ \A i \in 1 .. 1 : i = 1
        BY SMT
      <3> QED
        BY <1>1, <1>2, <1>5, <2>1, <2>2, <3>1 DEF InStep
    <2>4. FrameTypes'
      BY <1>1, <1>2, <1>5, <1>6, <2>1, <2>2 DEF FrameTypes, L
    <2> QED
      BY <1>1, <1>5, <2>1, <2>2, <2>3, <2>4 DEF FrameInv, AtHead
  <1>9. CASE n # 0
    <2>1. n = 1 /\ Len(b) = 2 /\ ~(Len(b) < 2) /\ b[1] = "#" /\ b[2] = "#"
      BY <1>3, <1>4, <1>6, <1>9, SMT
    <2>2. b = <<"#", "#">>
      BY <1>2, <2>1, SMT
    <2>3. fbuf' = b /\ rcv' = "eom"
      BY <1>7, <2>1, <2>2
    <2>4. Recent'
      <3>1. \A i \in 0 .. (sent + 1) - 1 : i < 2 => /\ 2 - i \in {1, 2} /\ (sent + 1) - i \in {1, 2}
        BY <1>6, SMT
      <3> QED
        BY <1>2, <1>5, <2>1, <2>3, <3>1 DEF Recent
    <2>5. missed <= 2 /\ (missed >= 1 => sent = 1)
      BY <1>2, <1>3, <2>1, SMT
    <2>6. missed >= 1 => 2 - (sent + 1) \in 0 .. MinLen - 1
      BY <1>2, <2>5, SMT
    <2>7. missed = 2 => InStep'
      <3>1. missed = 2 => sent + 1 = 2
        BY <2>5, SMT
      <3>2. \A i \in 1 .. 2 : i \in {1, 2}
        BY SMT
      <3> QED
        BY <1>2, <1>5, <2>1, <2>3, <3>1, <3>2 DEF InStep
    <2>8. FrameTypes'
      BY <1>1, <1>2, <1>5, <1>6, <2>1, <2>3 DEF FrameTypes, L
    <2> QED
      BY <1>1, <1>5, <2>1, <2>3, <2>4, <2>5, <2>6, <2>7, <2>8 DEF FrameInv, AtEom
  <1> QED
    BY <1>8, <1>9

\* Of a number and the next one is even.
LEMMA Parity == \A n \in Nat : n % 2 \in {0, 1} /\ ((n + 1) % 2 = 0 <=> n % 2 = 1)
  BY SMT

\* The mark of cc_bjdc is looked for in pairs.
LEMMA SeekCc ==
  ASSUME FrameInv, Seek, PutByte, fproto = "cc_bjdc"
  PROVE  FrameInv'
  <1> DEFINE b == Filled
             n == Len(fbuf)
             L == Len(Whole)
             P == <<"AA", "55", "AA", "55">>
             y == Whole[sent + 1]
  <1>1. /\ FrameTypes /\ rcv = "head" /\ AtHead /\ handled' = FALSE
        /\ Pre[fproto] = P /\ Back[fproto] = 2 /\ Len(P) = 4
        /\ P[1] = "AA" /\ P[2] = "55" /\ P[3] = "AA" /\ P[4] = "55"
    BY CcFrame, SMT DEF FrameInv, Seek
  <1>2. /\ Whole = Frame["cc_bjdc"] /\ BodyLen \in Nat
        /\ Whole[1] = "AA" /\ Whole[2] = "55" /\ Whole[3] = "AA" /\ Whole[4] = "55"
        /\ \A i \in 1 .. L : Whole[i] = "55" => i = 2 \/ i = 4
        /\ L = BodyLen + 8 /\ L \in Nat /\ MinLen \in Nat /\ BufSize \in Nat /\ MinLen >= 4
        /\ L + MinLen <= BufSize /\ sent \in 0 .. L - 1 /\ missed \in 0 .. 3
        /\ b \in Seq(Bytes) /\ Len(b) < BufSize /\ n \in Nat
    BY <1>1, CcFrame, FilledIs, FramesAssumption DEF Whole, FrameTypes
  <1>3. \/ InStep /\ missed <= 2 /\ sent < 4
        \/ n = 1 /\ fbuf[1] = "AA" /\ sent = 0 /\ missed = 0
        \/ /\ sent \in {0, 1} /\ missed <= 1 /\ n = sent + 2
           /\ fbuf[1] = "AA" /\ fbuf[2] = "55" /\ (sent = 1 => fbuf[3] = "AA")
        \/ Stuck
        \/ Across
    BY <1>1, <1>2 DEF AtHead, Early
  <1>4. n \in 0 .. 3
    <2>1. InStep /\ sent < 4 => n \in 0 .. 3
      BY <1>2, SMT DEF InStep
    <2>2. Stuck \/ Across => n \in 0 .. 3
      <3>1. 2 \in 0 .. 3 /\ 3 \in 0 .. 3
        BY SMT
      <3> QED
        BY <3>1 DEF Stuck, Across
    <2>3. sent \in {0, 1} /\ n = sent + 2 => n \in 0 .. 3
      BY SMT
    <2> QED
      BY <1>3, <2>1, <2>2, <2>3, SMT
  <1>5. /\ Len(b) = n + 1 /\ b[n + 1] = y /\ \A i \in 1 .. n : b[i] = fbuf[i]
    <2>1. n + 1 < BufSize
      <3> HIDE DEF n, L
      <3> QED
        BY <1>2, <1>4, SMT
    <2> QED
      BY <1>1, <2>1, FilledIs
  <1>6. /\ Whole' = Whole /\ fproto' = fproto /\ sent' \in 0 .. L - 1
        /\ sent + 1 < L => sent' = sent + 1 /\ missed' = missed
        /\ ~(sent + 1 < L) => /\ sent + 1 = L /\ sent' = 0
                              /\ missed < 3 => missed' = missed + 1
                              /\ missed = 3 => missed' = 3
        /\ y \in Bytes
    BY <1>1, ByteCounts
  <1>7. missed' \in 0 .. 3
    BY <1>2, <1>6, SMT
  <1>8. /\ Len(b) < 4 => fbuf' = b /\ rcv' = "head"
        /\ ~(Len(b) < 4) /\ b = P => fbuf' = b /\ rcv' = "eom"
        /\ ~(Len(b) < 4) /\ b # P => fbuf' = SubSeq(b, 1, 2) /\ rcv' = "head"
    BY <1>1 DEF Seek
  <1> HIDE DEF b, n, L, P, y
  \* What becomes of the buffer.
  <1>9. ASSUME n < 3
        PROVE  /\ FrameTypes' /\ rcv' = "head" /\ Len(fbuf') = n + 1
               /\ fbuf'[n + 1] = y /\ \A i \in 1 .. n : fbuf'[i] = fbuf[i]
    <2>1. fbuf' = b /\ rcv' = "head"
      BY <1>4, <1>5, <1>8, <1>9, SMT
    <2> QED
      BY <1>1, <1>2, <1>5, <1>6, <1>7, <2>1 DEF FrameTypes, L
  <1>10. ASSUME n = 3, b # P
         PROVE  /\ FrameTypes' /\ rcv' = "head" /\ Len(fbuf') = 2
                /\ fbuf'[1] = fbuf[1] /\ fbuf'[2] = fbuf[2]
    <2>1. fbuf' = SubSeq(b, 1, 2) /\ rcv' = "head" /\ Len(b) = 4
      BY <1>5, <1>8, <1>10, SMT
    <2>2. fbuf' \in Seq(Bytes) /\ Len(fbuf') = 2 /\ fbuf'[1] = b[1] /\ fbuf'[2] = b[2]
      BY <1>2, <2>1, SMT
    <2>3. 2 < BufSize /\ 1 \in 1 .. 3 /\ 2 \in 1 .. 3
      BY <1>2, SMT
    <2> QED
      BY <1>1, <1>2, <1>5, <1>6, <1>7, <1>10, <2>1, <2>2, <2>3 DEF FrameTypes, L
  <1>11. ASSUME n = 3, b = P
         PROVE  FrameTypes' /\ rcv' = "eom" /\ Len(fbuf') = 4 /\ fbuf' = P
    <2>1. Len(b) = 4 /\ ~(Len(b) < 4) /\ fbuf' = b /\ rcv' = "eom"
      BY <1>5, <1>8, <1>11, SMT
    <2> QED
      BY <1>1, <1>2, <1>6, <1>7, <1>11, <2>1 DEF FrameTypes, L
  <1>12. n = 3 => (b = P <=> fbuf[1] = "AA" /\ fbuf[2] = "55" /\ fbuf[3] = "AA" /\ y = "55")
    <2> HAVE n = 3
    <2>1. /\ Len(b) = 4 /\ b[1] = fbuf[1] /\ b[2] = fbuf[2] /\ b[3] = fbuf[3] /\ b[4] = y
      BY <1>5, SMT
    <2>2. b = <<b[1], b[2], b[3], b[4]>>
      BY <1>2, <2>1, SMT
    <2> QED
      BY <1>1, <2>1, <2>2 DEF P
  <1>13. L >= 8
    BY <1>2, SMT
  <1>14. CASE InStep /\ missed <= 2 /\ sent < 4
    <2>1. /\ n = sent /\ sent' = sent + 1 /\ missed' = missed /\ sent + 1 \in 1 .. 4
          /\ \A i \in 1 .. n : fbuf[i] = Whole[i]
      BY <1>2, <1>6, <1>13, <1>14, SMT DEF InStep, n
    <2>2. CASE n < 3
      <3>1. InStep'
        <4>1. \A i \in 1 .. sent + 1 : i \in 1 .. n \/ i = n + 1
          BY <1>2, <2>1, SMT
        <4> QED
          BY <1>6, <1>9, <2>1, <2>2, <4>1 DEF InStep, y
      <3>2. (sent < Len(Pre[fproto]))'
        <4>1. n + 1 < 4
          BY <1>4, <2>2, SMT
        <4>2. sent' = n + 1 /\ Pre[fproto'] = P
          BY <1>1, <1>6, <2>1
        <4> QED
          BY <1>1, <4>1, <4>2
      <3> QED
        BY <1>1, <1>9, <1>14, <2>1, <2>2, <3>1, <3>2 DEF FrameInv, AtHead
    <2>3. CASE n = 3
      <3>1. b = P
        <4>1. 1 \in 1 .. 3 /\ 2 \in 1 .. 3 /\ 3 \in 1 .. 3 /\ 3 + 1 = 4
          BY SMT
        <4> QED
          BY <1>2, <1>12, <2>1, <2>3, <4>1 DEF y
      <3>2. sent' = 4
        BY <2>1, <2>3, SMT
      <3>3. \A i \in 1 .. 4 : P[i] = Whole[i]
        <4>1. \A i \in 1 .. 4 : i \in {1, 2, 3, 4}
          BY SMT
        <4> QED
          BY <1>1, <1>2, <4>1
      <3>4. InStep' /\ 4 - 4 \in 0 .. MinLen - 1
        BY <1>2, <1>6, <1>11, <2>3, <3>1, <3>2, <3>3, SMT DEF InStep
      <3>5. Recent'
        <4>1. \A i \in 0 .. 4 - 1 : 4 - i \in 1 .. 4
          BY SMT
        <4> QED
          BY <1>6, <1>11, <2>3, <3>1, <3>2, <3>3, <4>1 DEF Recent
      <3> QED
        BY <1>1, <1>11, <1>14, <2>1, <2>3, <3>1, <3>2, <3>4, <3>5 DEF FrameInv, AtEom
    <2> QED
      BY <1>4, <2>2, <2>3, SMT
  <1>15. CASE n = 1 /\ fbuf[1] = "AA" /\ sent = 0 /\ missed = 0
    <2>1. n < 3 /\ 1 + 1 = 2 /\ 0 + 1 = 1 /\ 1 \in 1 .. 1
      BY <1>15, SMT
    <2>2. Stuck'
      BY <1>2, <1>6, <1>9, <1>15, <2>1 DEF Stuck, y
    <2> QED
      BY <1>1, <1>9, <2>1, <2>2 DEF FrameInv, AtHead
  <1>16. CASE /\ sent \in {0, 1} /\ missed <= 1 /\ n = sent + 2
              /\ fbuf[1] = "AA" /\ fbuf[2] = "55" /\ (sent = 1 => fbuf[3] = "AA")
    <2>1. sent' = sent + 1 /\ missed' = missed
      BY <1>6, <1>13, <1>16, SMT
    <2>2. CASE sent = 0
      <3>1. n = 2 /\ n < 3 /\ 2 + 1 = 3 /\ 0 + 1 = 1 /\ 1 \in 1 .. 2 /\ 2 \in 1 .. 2 /\ 1 + 2 = 3
        BY <1>16, <2>2, SMT
      <3>2. Early'
        BY <1>1, <1>2, <1>6, <1>9, <1>16, <2>1, <2>2, <3>1 DEF Early, y
      <3> QED
        BY <1>1, <1>9, <3>1, <3>2 DEF FrameInv, AtHead
    <2>3. CASE sent = 1
      <3>1. n = 3 /\ sent' = 2 /\ 1 + 1 = 2
        BY <1>16, <2>1, <2>3, SMT
      <3>2. b = P
        BY <1>2, <1>12, <1>16, <2>3, <3>1 DEF y
      <3>3. Recent'
        <4>1. \A i \in 0 .. 2 - 1 : (4 - i = 4 /\ 2 - i = 2) \/ (4 - i = 3 /\ 2 - i = 1)
          BY SMT
        <4> QED
          BY <1>1, <1>2, <1>6, <1>11, <3>1, <3>2, <4>1 DEF Recent
      <3>4. 4 - 2 \in 0 .. MinLen - 1 /\ missed <= 2 /\ missed # 2
        BY <1>2, <1>16, SMT
      <3> QED
        BY <1>1, <1>11, <2>1, <3>1, <3>2, <3>3, <3>4 DEF FrameInv, AtEom
    <2> QED
      BY <1>16, <2>2, <2>3
  <1>17. CASE Stuck
    <2>1. fproto = "cc_bjdc" /\ n \in {2, 3} /\ fbuf[1] = "AA" /\ fbuf[2] = "AA"
      BY <1>17 DEF Stuck, n
    <2>2. CASE n = 2
      <3>1. n < 3 /\ 2 + 1 = 3 /\ 1 \in 1 .. 2 /\ 2 \in 1 .. 2
        BY <2>2, SMT
      <3>2. Stuck'
        BY <1>6, <1>9, <2>1, <2>2, <3>1 DEF Stuck
      <3> QED
        BY <1>1, <1>9, <3>1, <3>2 DEF FrameInv, AtHead
    <2>3. CASE n = 3
      <3>1. b # P
        BY <1>12, <2>1, <2>3
      <3>2. Stuck'
        BY <1>6, <1>10, <2>1, <2>3, <3>1 DEF Stuck
      <3> QED
        BY <1>1, <1>10, <2>3, <3>1, <3>2 DEF FrameInv, AtHead
    <2> QED
      BY <2>1, <2>2, <2>3
  <1>18. CASE Across
    <2>1. /\ n \in {2, 3} /\ fbuf[1] = "AA" /\ fbuf[2] = "55"
          /\ n % 2 # sent % 2 /\ (L % 2 = 1 => missed = 0)
      BY <1>18 DEF Across, n, L
    <2>2. sent \in Nat /\ 2 % 2 = 0 /\ 3 % 2 = 1 /\ 0 % 2 = 0
      BY <1>2, SMT
    <2>3. CASE n = 2
      <3>1. sent % 2 = 1 /\ (sent + 1) % 2 = 0
        BY <2>1, <2>2, <2>3, Parity
      <3>2. n < 3 /\ 2 + 1 = 3 /\ 1 \in 1 .. 2 /\ 2 \in 1 .. 2
        BY <2>3, SMT
      <3>3. sent' % 2 = 0
        BY <1>6, <2>2, <3>1
      <3>4. L % 2 = 1 => missed' = 0
        BY <1>6, <2>1, <3>1
      <3>5. Across'
        <4>1. Len(fbuf') = 3 /\ fbuf'[1] = "AA" /\ fbuf'[2] = "55"
          BY <1>9, <2>1, <2>3, <3>2
        <4>2. 3 % 2 # sent' % 2
          BY <2>2, <3>3
        <4> QED
          BY <1>1, <1>6, <3>4, <4>1, <4>2 DEF Across, L
      <3> QED
        BY <1>1, <1>9, <3>2, <3>5 DEF FrameInv, AtHead
    <2>4. CASE n = 3
      <3>1. sent % 2 = 0 /\ (sent + 1) % 2 = 1
        BY <2>1, <2>2, <2>4, Parity
      <3>2. b # P
        <4>1. y # "55"
          <5>1. sent + 1 \in 1 .. L /\ 4 % 2 = 0
            BY <1>2, SMT
          <5> QED
            BY <1>2, <2>2, <3>1, <5>1 DEF y
        <4> QED
          BY <1>12, <2>4, <4>1
      <3>3. CASE sent + 1 < L
        <4>1. 2 % 2 # sent' % 2 /\ (L % 2 = 1 => missed' = 0)
          <5>1. sent' % 2 = 1 /\ missed' = missed
            BY <1>6, <3>1, <3>3
          <5> QED
            BY <2>1, <2>2, <5>1
        <4>2. Len(fbuf') = 2 /\ fbuf'[1] = "AA" /\ fbuf'[2] = "55"
          BY <1>10, <2>1, <2>4, <3>2
        <4>3. Across'
          BY <1>1, <1>6, <4>1, <4>2 DEF Across, L
        <4> QED
          BY <1>1, <1>10, <2>4, <3>2, <4>3 DEF FrameInv, AtHead
      <3>4. CASE ~(sent + 1 < L)
        <4>1. sent' = 0 /\ missed' = 1
          <5>1. missed = 0 /\ 0 < 3 /\ 0 + 1 = 1
            BY <1>6, <2>1, <3>1, <3>4, SMT
          <5> QED
            BY <1>6, <3>4, <5>1
        <4>2. Early'
          <5>1. 1 <= 1 /\ 0 + 2 = 2
            BY SMT
          <5> QED
            BY <1>1, <1>6, <1>10, <2>1, <2>4, <3>2, <4>1, <5>1 DEF Early
        <4> QED
          BY <1>1, <1>10, <2>4, <3>2, <4>2 DEF FrameInv, AtHead
      <3> QED
        BY <3>3, <3>4
    <2> QED
      BY <2>1, <2>3, <2>4
  <1> QED
    BY <1>3, <1>14, <1>15, <1>16, <1>17, <1>18

\* What a lost connection leaves is what the next one may begin with.
LEMMA LoseStep ==
  ASSUME FrameInv, Lose
  PROVE  FrameInv'
  <1>1. /\ FrameTypes /\ sent' = 0 /\ missed' = 0 /\ handled' = FALSE
        /\ fproto' = fproto /\ fbuf' = fbuf /\ rcv' = rcv /\ Whole' = Whole
    BY DEF FrameInv, Lose, Whole
  <1>2. /\ fproto \in Protos /\ Len(Whole) \in Nat /\ Len(Whole) > 0 /\ sent \in 0 .. Len(Whole) - 1
        /\ Len(fbuf) \in Nat /\ BufSize \in Nat /\ rcv \in {"head", "eom"}
    BY <1>1, WholeFrame, SMT DEF FrameTypes
  <1>3. FrameTypes'
    <2>1. 0 \in 0 .. Len(Whole) - 1 /\ 0 \in 0 .. 3
      BY <1>2, SMT
    <2> QED
      BY <1>1, <2>1 DEF FrameTypes
  <1>4. ASSUME rcv = "eom" PROVE AtEom'
    <2>1. (\A i \in 0 .. 0 - 1 : FALSE) /\ 0 <= 2 /\ ~(0 >= 1) /\ 0 # 2
      BY SMT
    <2> QED
      BY <1>1, <2>1 DEF AtEom, Recent
  <1>5. ASSUME rcv = "head" PROVE AtHead'
    <2>1. AtHead
      BY <1>5 DEF FrameInv
    <2>2. Len(fbuf) = 0 => AtHead'
      <3>1. (\A i \in 1 .. 0 : FALSE) /\ 0 <= 2 /\ 0 < Len(<<"#", "#">>)
            /\ 0 < Len(<<"AA", "55", "AA", "55">>)
        BY SMT
      <3>2. 0 < Len(Pre[fproto])
        BY <1>2, <3>1, HjtFrame, CcFrame DEF Protos
      <3> QED
        BY <1>1, <3>1, <3>2 DEF AtHead, InStep
    <2>3. Len(fbuf) = 1 /\ fbuf[1] = Whole[1] => AtHead'
      BY <1>1 DEF AtHead, Early
    <2>4. CASE fproto = "hjt212"
      <3>1. Pre[fproto] = <<"#", "#">> /\ Len(<<"#", "#">>) = 2 /\ "hjt212" # "cc_bjdc"
        BY <2>4, HjtFrame, SMT
      <3>2. (InStep /\ sent < 2) \/ (Len(fbuf) = 1 /\ fbuf[1] = Whole[1])
        BY <2>1, <2>4, <3>1 DEF AtHead, Early, Stuck, Across
      <3>3. sent < 2 => sent = 0 \/ (sent = 1 /\ 1 \in 1 .. 1)
        BY <1>2, SMT
      <3> QED
        BY <2>2, <2>3, <3>2, <3>3 DEF InStep
    <2>5. CASE fproto = "cc_bjdc"
      <3>1. /\ Whole[1] = "AA" /\ Whole[2] = "55" /\ Whole[3] = "AA" /\ Whole[4] = "55"
            /\ Pre[fproto] = <<"AA", "55", "AA", "55">> /\ Len(<<"AA", "55", "AA", "55">>) = 4
        BY <2>5, CcFrame, SMT DEF Whole
      <3>2. \/ Len(fbuf) = 0
            \/ Len(fbuf) = 1 /\ fbuf[1] = "AA"
            \/ Len(fbuf) = 2 /\ fbuf[1] = "AA" /\ fbuf[2] = "55"
            \/ Len(fbuf) = 3 /\ fbuf[1] = "AA" /\ fbuf[2] = "55"
            \/ Stuck
        <4>1. CASE InStep /\ sent < 4
          <5>1. Len(fbuf) = sent /\ sent \in {0, 1, 2, 3}
            BY <1>2, <4>1, SMT DEF InStep
          <5>2. 1 \in 1 .. 1 /\ 1 \in 1 .. 2 /\ 2 \in 1 .. 2 /\ 1 \in 1 .. 3 /\ 2 \in 1 .. 3
            BY SMT
          <5> QED
            BY <3>1, <4>1, <5>1, <5>2 DEF InStep
        <4>2. CASE Early
          <5>1. 0 + 2 = 2 /\ 1 + 2 = 3
            BY SMT
          <5> QED
            BY <3>1, <4>2, <5>1 DEF Early
        <4>3. CASE Stuck \/ Across
          BY <4>3 DEF Across
        <4> QED
          BY <2>1, <3>1, <4>1, <4>2, <4>3 DEF AtHead
      <3>3. Len(fbuf) = 2 /\ fbuf[1] = "AA" /\ fbuf[2] = "55" => Early'
        <4>1. 0 + 2 = 2 /\ 0 <= 1 /\ 0 # 1
          BY SMT
        <4> QED
          BY <1>1, <2>5, <4>1 DEF Early
      <3>4. Len(fbuf) = 3 /\ fbuf[1] = "AA" /\ fbuf[2] = "55" => Across'
        <4>1. 3 % 2 # 0 % 2
          BY SMT
        <4> QED
          BY <1>1, <2>5, <4>1 DEF Across
      <3>5. Stuck => Stuck'
        BY <1>1 DEF Stuck
      <3> QED
        BY <2>2, <2>3, <3>1, <3>2, <3>3, <3>4, <3>5 DEF AtHead
    <2> QED
      BY <1>2, <2>4, <2>5 DEF Protos
  <1> QED
    BY <1>1, <1>2, <1>3, <1>4, <1>5 DEF FrameInv

LEMMA FrameInit == FInit => FrameInv
  <1> SUFFICES ASSUME FInit
               PROVE  FrameInv
    OBVIOUS
  <1>1. fproto \in Protos /\ fbuf = <<>> /\ rcv = "head" /\ sent = 0 /\ handled = FALSE /\ missed = 0
    BY DEF FInit
  <1>2. /\ <<>> \in Seq(Bytes) /\ Len(<<>>) = 0 /\ (\A i \in 1 .. 0 : FALSE)
        /\ 0 <= 2 /\ 0 \in 0 .. 3
        /\ 0 < Len(<<"#", "#">>) /\ 0 < Len(<<"AA", "55", "AA", "55">>)
    BY SMT
  <1>3. 0 < Len(Pre[fproto])
    BY <1>1, <1>2, HjtFrame, CcFrame DEF Protos
  <1>4. 0 \in 0 .. Len(Whole) - 1 /\ 0 < BufSize
    <2>1. /\ Len(Whole) \in Nat /\ MinLen \in Nat /\ BufSize \in Nat
          /\ Len(Whole) + MinLen <= BufSize /\ Len(Whole) >= Len(Eom[fproto])
          /\ Len(Eom[fproto]) \in Nat \ {0}
      BY <1>1, WholeFrame, SMT
    <2> QED
      BY <2>1, SMT
  <1> QED
    BY <1>1, <1>2, <1>3, <1>4 DEF FrameInv, FrameTypes, AtHead, InStep

LEMMA FrameInvariant == FSpec => []FrameInv
  <1>1. FrameInv /\ UNCHANGED fvars => FrameInv'
    <2> SUFFICES ASSUME FrameInv, UNCHANGED fvars
                 PROVE  FrameInv'
      OBVIOUS
    <2>1. UNCHANGED <<fproto, fbuf, rcv, sent, handled, missed>> /\ Whole' = Whole
      BY DEF fvars, Whole
    <2>2. FrameTypes' /\ (handled => sent = 0)'
      BY <2>1 DEF FrameInv, FrameTypes
    <2>3. (AtHead <=> AtHead') /\ (AtEom <=> AtEom')
      BY <2>1 DEF AtHead, AtEom, InStep, Early, Stuck, Across, Recent
    <2> QED
      BY <2>1, <2>2, <2>3 DEF FrameInv
  <1>2. FrameInv /\ FNext => FrameInv'
    <2>1. FrameInv /\ PutByte => Seek \/ Collect
      BY DEF PutByte
    <2>2. FrameInv => fproto \in {"hjt212", "cc_bjdc"}
      BY DEF FrameInv, FrameTypes, Protos
    <2> QED
      BY <2>1, <2>2, SeekHjt, SeekCc, CollectStep, LoseStep DEF FNext
  <1> QED
    BY <1>1, <1>2, FrameInit, PTL DEF FSpec

\* For any length of a frame, of the least one and of the buffer: a frame is
\* handed on just when it has come, and after a loss of the connection at most
\* two frames are lost, but with a cc_bjdc parser out of step.
THEOREM AlwaysFewLost == FSpec => []FewFramesLost
  <1>1. FrameInv => FewFramesLost
    <2> SUFFICES ASSUME FrameInv
                 PROVE  FewFramesLost
      OBVIOUS
    <2>1. handled => sent = 0
      BY DEF FrameInv
    <2>2. ASSUME missed > 2 PROVE OutOfStep
      <3>1. missed \in 0 .. 3 /\ rcv \in {"head", "eom"} /\ fbuf \in Seq(Bytes)
        BY DEF FrameInv, FrameTypes
      <3>2. ~(missed <= 2) /\ ~(missed <= 1) /\ missed # 0
        BY <2>2, <3>1, SMT
      <3>3. rcv = "head" /\ (Stuck \/ Across)
        BY <3>1, <3>2 DEF FrameInv, AtEom, AtHead, Early
      <3>4. CASE Stuck
        <4>1. fproto = "cc_bjdc" /\ Pre[fproto] = <<"AA", "55", "AA", "55">> /\ Len(fbuf) \in {2, 3}
              /\ fbuf[2] = "AA"
          BY <3>4, CcFrame DEF Stuck
        <4> DEFINE P == <<"AA", "55", "AA", "55">>
        <4>2. SubSeq(fbuf, 1, Len(fbuf))[2] = "AA" /\ SubSeq(P, 1, Len(fbuf))[2] = "55"
          BY <3>1, <4>1, SMT
        <4>3. ~IsPrefix(fbuf, P)
          <5> HIDE DEF P
          <5> QED
            BY <4>2, Zenon DEF IsPrefix
        <4> QED
          BY <3>3, <4>1, <4>3 DEF OutOfStep
      <3>5. CASE Across
        BY <3>3, <3>5 DEF Across, OutOfStep
      <3> QED
        BY <3>3, <3>4, <3>5
    <2> QED
      BY <2>1, <2>2 DEF FewFramesLost
  <1> QED
    BY <1>1, FrameInvariant, PTL
=============================================================================
