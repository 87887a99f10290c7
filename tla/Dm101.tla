------------------------------- MODULE Dm101 -------------------------------
(***************************************************************************)
(* sdccp/dm101: the task that reports to a platform in packets of a head,  *)
(* a payload and a checksum.  The network task puts what arrives into a    *)
(* byte fifo, in pieces of any length, and waits while the fifo is full;   *)
(* the protocol task looks for the beginning of a packet in the fifo and   *)
(* reads one packet in every pass of its loop.  The fifo is not emptied    *)
(* between connections.                                                    *)
(*                                                                         *)
(* The connection is a Link.  Sends are not looked at: none of their       *)
(* results is, in the code.                                                *)
(***************************************************************************)
EXTENDS Integers, Sequences, Link

CONSTANTS FifoSize,     \* DM101_FIFO_SIZE, in the units of Packet
          PayloadLen    \* the payload_length of the platform's packets

\* A packet: the magic and the rest of the head, the payload, the checksum.
HeadLen == 2
Payload == [i \in 1 .. PayloadLen |-> "payload"]
Packet == <<"magic", "head">> \o Payload \o <<"crc">>

\* A payload_length with which the checksum is taken over more than recvbuf.
Beyond == FifoSize + 1

ASSUME FifoAssumption == FifoSize \in Nat /\ FifoSize >= HeadLen
ASSUME PayloadAssumption == PayloadLen \in Nat \ {0}

Byte == {"magic", "head", "payload", "crc"}

\* E_DM101_BEGAIN, E_DM101_REPORT_INFO, E_DM101_SET_TIME, E_DM101_REPORT_DATA
ReportData == 3

VARIABLES
  dpc,        \* where dm101_work_task is
  status,     \* eInitStatus, counted from E_DM101_BEGAIN
  check_ver,  \* the version was not asked for so far
  bytes,      \* s_dm101_fifo[index]
  chunk,      \* what dm101_put_bytes has still to put
  stream,     \* how much of a packet has arrived on this connection
  intact,     \* what read_pkg has read is the beginning of a packet, or all of it
  want,       \* payload_length
  tidy,       \* history: the last piece was a whole packet and found room
  silent,     \* dm101_lastrecv lies 110 seconds or more back
  overdue,       \* what silent was when the task read the clock to compare
  behind      \* dm101_lastrecv was set since the task read the clock

dtaskVars == <<dpc, status, check_ver, intact, want>>
dnetVars  == <<chunk, stream, tidy>>
clockVars == <<silent, overdue, behind>>
dvars     == <<linkVars, dtaskVars, bytes, dnetVars, clockVars>>

DInit ==
  /\ LinkInit
  /\ dpc = "start" /\ status = 0 /\ check_ver = TRUE
  /\ bytes = <<>> /\ chunk = <<>> /\ stream = 0
  /\ intact = FALSE /\ want = 0 /\ tidy = TRUE
  /\ silent = TRUE /\ overdue = FALSE /\ behind = FALSE

-----------------------------------------------------------------------------
(* The network task *)

\* The connection changes only when dm101_put_bytes has returned; a new one
\* begins with a packet.
DLinkStep ==
  /\ chunk = <<>>
  /\ LinkNext
  /\ stream' = IF up' THEN stream ELSE 0
  /\ UNCHANGED <<dtaskVars, bytes, chunk, tidy, clockVars>>

\* Some bytes of the packets the platform sends, up to the length of one.  The
\* network task sets dm101_lastrecv before it puts them.
Arrive ==
  /\ up /\ ~ending /\ chunk = <<>>
  /\ \E n \in 1 .. Len(Packet) :
       /\ chunk' = SubSeq(Packet \o Packet, stream + 1, stream + n)
       /\ stream' = (stream + n) % Len(Packet)
  /\ tidy' = (chunk' = Packet /\ Len(bytes) + Len(Packet) <= FifoSize)
  /\ silent' = FALSE /\ behind' = (dpc = "compare")
  /\ UNCHANGED <<linkVars, dtaskVars, bytes, overdue>>

\* dm101_put_bytes: as much as there is room for, as often as it takes.
Put ==
  /\ chunk # <<>> /\ Len(bytes) < FifoSize
  /\ LET room == FifoSize - Len(bytes)
         n == IF Len(chunk) < room THEN Len(chunk) ELSE room
     IN  /\ bytes' = bytes \o SubSeq(chunk, 1, n)
         /\ chunk' = SubSeq(chunk, n + 1, Len(chunk))
  /\ UNCHANGED <<linkVars, dtaskVars, stream, tidy, clockVars>>

\* 110 seconds go by without a reception.
Elapse ==
  /\ ~silent
  /\ silent' = TRUE
  /\ UNCHANGED <<linkVars, dtaskVars, bytes, dnetVars, overdue, behind>>

-----------------------------------------------------------------------------
(* The protocol task *)

Pull(n) == bytes' = SubSeq(bytes, n + 1, Len(bytes))

\* _START: net_waitconnect.
DStart ==
  /\ dpc = "start" /\ up
  /\ dpc' = "hello"
  /\ UNCHANGED <<linkVars, status, check_ver, intact, want, bytes, dnetVars, clockVars>>

\* Hello as it would be without the last step of the handshake.
HelloTwice ==
  /\ dpc = "hello"
  /\ status' = IF status + 1 < ReportData THEN status + 1 ELSE status
  /\ dpc' = "version"
  /\ UNCHANGED <<linkVars, check_ver, intact, want, bytes, dnetVars, clockVars>>

\* One step of the handshake is sent; whether it arrives is not looked at.
Hello ==
  /\ dpc = "hello"
  /\ status' = IF status < ReportData THEN status + 1 ELSE status
  /\ dpc' = "version"
  /\ UNCHANGED <<linkVars, check_ver, intact, want, bytes, dnetVars, clockVars>>

\* The version is asked for once in the life of the process.
Version ==
  /\ dpc = "version"
  /\ check_ver' = FALSE
  /\ dpc' = "clear"
  /\ UNCHANGED <<linkVars, status, intact, want, bytes, dnetVars, clockVars>>

\* The flag is cleared and the clocks are set.
DClear ==
  /\ dpc = "clear"
  /\ ClearReinit
  /\ silent' = FALSE
  /\ dpc' = "loop"
  /\ UNCHANGED <<status, check_ver, intact, want, bytes, dnetVars, overdue, behind>>

\* One pass of the main loop: the flag and net_isconnect, ...
DLoop ==
  /\ dpc = "loop"
  /\ dpc' = IF reinit \/ ~up THEN "start" ELSE "scan"
  /\ UNCHANGED <<linkVars, status, check_ver, intact, want, bytes, dnetVars, clockVars>>

\* Scan as it would be without the pull of a byte that begins no packet.
ScanStuck ==
  /\ dpc = "scan"
  /\ dpc' = IF Len(bytes) >= HeadLen /\ Head(bytes) = "magic" THEN "head" ELSE "pass"
  /\ UNCHANGED <<linkVars, status, check_ver, intact, want, bytes, dnetVars, clockVars>>

\* ... the search for the beginning of a packet, byte by byte, ...
Scan ==
  /\ dpc = "scan"
  /\ \/ /\ Len(bytes) < HeadLen
        /\ dpc' = "pass"
        /\ UNCHANGED bytes
     \/ /\ Len(bytes) >= HeadLen /\ Head(bytes) = "magic"
        /\ dpc' = "head"
        /\ UNCHANGED bytes
     \/ /\ Len(bytes) >= HeadLen /\ Head(bytes) # "magic"
        /\ Pull(1)
        /\ UNCHANGED dpc
  /\ UNCHANGED <<linkVars, status, check_ver, intact, want, dnetVars, clockVars>>

\* ... read_pkg, which uses a head whose checksum is wrong as it is: its
\* payload_length may be anything, ...
ReadHead ==
  /\ dpc = "head"
  /\ intact' = (SubSeq(bytes, 1, HeadLen) = SubSeq(Packet, 1, HeadLen))
  /\ Pull(HeadLen)
  /\ want' \in IF intact' THEN {PayloadLen} ELSE 0 .. Beyond
  /\ dpc' = IF want' = 0 THEN "handle" ELSE "payload"
  /\ UNCHANGED <<linkVars, status, check_ver, dnetVars, clockVars>>

\* bfifo_pull returns what there is, up to n bytes; it waits a second only
\* when there is nothing.  read_pkg does not look at the number.
ReadUpTo(n, part) ==
  LET k == IF Len(bytes) < n THEN Len(bytes) ELSE n
  IN  intact' = (intact /\ SubSeq(bytes, 1, k) = part) /\ Pull(k)

\* ReadPayload as it would be with the checksum counted as payload.
ReadPayloadMore ==
  /\ dpc = "payload"
  /\ ReadUpTo(want + 1, Payload)
  /\ dpc' = "crc"
  /\ UNCHANGED <<linkVars, status, check_ver, want, dnetVars, clockVars>>

ReadPayload ==
  /\ dpc = "payload"
  /\ ReadUpTo(want, Payload)
  /\ dpc' = "crc"
  /\ UNCHANGED <<linkVars, status, check_ver, want, dnetVars, clockVars>>

ReadCrc ==
  /\ dpc = "crc"
  /\ ReadUpTo(1, <<"crc">>)
  /\ dpc' = "handle"
  /\ UNCHANGED <<linkVars, status, check_ver, want, dnetVars, clockVars>>

\* ... what the packet asks for, unless its checksum is wrong, ...
Handle ==
  /\ dpc = "handle"
  /\ intact' = FALSE /\ want' = 0
  /\ dpc' = "pass"
  /\ UNCHANGED <<linkVars, status, check_ver, bytes, dnetVars, clockVars>>

\* The process begins anew: das_daemon.c starts it when it is gone.
Restart ==
  /\ dpc' = "start" /\ status' = 0 /\ check_ver' = TRUE
  /\ bytes' = <<>> /\ chunk' = <<>> /\ stream' = 0
  /\ intact' = FALSE /\ want' = 0 /\ tidy' = TRUE
  /\ silent' = TRUE /\ overdue' = FALSE /\ behind' = FALSE
  /\ up' = FALSE /\ ending' = FALSE /\ reinit' = FALSE

\* CODE_REMOTE_REBOOT: vDoSystemReset.
RemoteReboot ==
  /\ dpc = "handle" /\ intact
  /\ Restart

\* dm_crc32 goes over payload_length bytes, however many recvbuf has; where
\* they are not there to be read the process is killed.  Otherwise the
\* checksum is wrong (Handle).
Overrun ==
  /\ dpc = "handle" /\ want = Beyond
  /\ Restart

\* ... back to _START for the next step of the handshake, ...
Pass ==
  /\ dpc = "pass"
  /\ dpc' = IF status = ReportData THEN "beat" ELSE "start"
  /\ UNCHANGED <<linkVars, status, check_ver, intact, want, bytes, dnetVars, clockVars>>

\* Beat as it would be if the heartbeat set both times, as the network task does.
BeatBoth ==
  /\ dpc = "beat"
  /\ overdue' = FALSE /\ silent' = FALSE
  /\ dpc' = "compare"
  /\ UNCHANGED <<linkVars, status, check_ver, intact, want, bytes, dnetVars, behind>>

\* ... the heartbeat, when it is due, and the clock, ...
Beat ==
  /\ dpc = "beat"
  /\ overdue' = silent
  /\ dpc' = "compare"
  /\ UNCHANGED <<linkVars, status, check_ver, intact, want, bytes, dnetVars, silent, behind>>

\* ... from which dm101_lastrecv is taken: the difference is unsigned, and
\* huge when dm101_lastrecv was set since, unless within the same tick.
Compare ==
  /\ dpc = "compare"
  /\ IF behind THEN dpc' \in {"drop", "data"}
               ELSE dpc' = IF overdue THEN "drop" ELSE "data"
  /\ overdue' = FALSE /\ behind' = FALSE
  /\ UNCHANGED <<linkVars, status, check_ver, intact, want, bytes, dnetVars, silent>>

\* net_disconnect: the network task is to end the connection, ...
Drop ==
  /\ dpc = "drop"
  /\ dpc' = "data"
  /\ UNCHANGED <<linkVars, status, check_ver, intact, want, bytes, dnetVars, clockVars>>

\* ... and the data whose interval is over.
Data ==
  /\ dpc = "data"
  /\ dpc' = "loop"
  /\ UNCHANGED <<linkVars, status, check_ver, intact, want, bytes, dnetVars, clockVars>>

DTaskStep ==
  \/ DStart \/ Hello \/ Version \/ DClear \/ DLoop \/ Scan \/ ReadHead \/ ReadPayload
  \/ ReadCrc \/ Handle \/ Pass \/ Beat \/ Compare \/ Drop \/ Data

DNext == DLinkStep \/ Arrive \/ Put \/ Elapse \/ DTaskStep \/ RemoteReboot \/ Overrun

DSpec == DInit /\ [][DNext]_dvars

\* Both tasks run whenever they can, and time passes.
DFairSpec == DSpec /\ WF_dvars(DTaskStep) /\ WF_dvars(Put) /\ WF_dvars(Elapse)

-----------------------------------------------------------------------------
(* Properties *)

DTypeOK ==
  /\ LinkTypeOK
  /\ dpc \in {"start", "hello", "version", "clear", "loop", "scan", "head", "payload", "crc",
              "handle", "pass", "beat", "compare", "drop", "data"}
  /\ status \in 0 .. ReportData /\ check_ver \in BOOLEAN
  /\ bytes \in Seq(Byte) /\ Len(bytes) <= FifoSize
  /\ chunk \in Seq(Byte) /\ stream \in 0 .. Len(Packet) - 1
  /\ intact \in BOOLEAN /\ want \in 0 .. PayloadLen \cup 0 .. Beyond /\ tidy \in BOOLEAN
  /\ silent \in BOOLEAN /\ overdue \in BOOLEAN /\ behind \in BOOLEAN

\* The network task, which waits without a limit for room in the fifo, is
\* always let go: the protocol task empties the fifo whatever is in it.
PutReturns == chunk # <<>> ~> chunk = <<>>

\* On every connection that lasts the task comes to its data, through as many
\* steps of the handshake as are left and whatever the platform sends.
ReportsData == up /\ ~ending ~> dpc = "data" \/ ~up \/ ending

\* Pieces of packets, and what a former connection left in the fifo, put the
\* task out of step only for a while: once packets come whole and find room,
\* packets are handled again and again.
Resyncs ==
  <>[](tidy /\ up /\ ~ending) /\ []<>(chunk # <<>>)
    => []<>(dpc = "handle" /\ intact)

\* A platform from which nothing arrives any more is dropped: the task comes
\* to net_disconnect again and again for as long as the connection stays up.
SilentDropped == <>[](up /\ ~ending /\ chunk = <<>>) => []<>(dpc = "drop" \/ chunk # <<>>)
=============================================================================
