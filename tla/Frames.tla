------------------------------- MODULE Frames -------------------------------
(***************************************************************************)
(* HJT212_PutBytes and CC_BJDC_PutBytes: how the frames of a platform are  *)
(* found in what the network task has read.  The two are the same machine  *)
(* with other marks; its place in the buffer and its state are set when    *)
(* the entry is opened, and no reconnect sets them back.                   *)
(*                                                                         *)
(* TCP delivers the bytes of a connection in order, in pieces of any       *)
(* length; as a piece is taken byte by byte, an action is a byte.  The     *)
(* platform sends nothing but whole frames, of which a loss of the         *)
(* connection may cut the last.  The marks do not appear in the body of a  *)
(* frame.  The length and the check of a frame together tell whether the   *)
(* buffer holds a frame as it was sent.                                    *)
(***************************************************************************)
EXTENDS Naturals, SequencesExt

CONSTANTS BodyLen,    \* the bytes of a frame between its marks
          MinLen,     \* the bytes an end is looked for after, 18
          BufSize     \* HJT212_BUF_SIZE, CC_BJDC_BUF_SIZE

Protos == {"hjt212", "cc_bjdc"}

\* HJT212_PRE and HJT212_EOM; CC_BJDC_PRE and CC_BJDC_EOM.
Pre == [hjt212 |-> <<"#", "#">>, cc_bjdc |-> <<"AA", "55", "AA", "55">>]
Eom == [hjt212 |-> <<"cr", "lf">>, cc_bjdc |-> <<"68", "68", "16", "16">>]

\* What nPos is set back to when the bytes read are not the mark.
Back == [hjt212 |-> 1, cc_bjdc |-> 2]

Frame == [p \in Protos |-> Pre[p] \o [i \in 1 .. BodyLen |-> "body"] \o Eom[p]]

\* A frame is as long as MinLen and MinLen as the marks, and the buffer has room
\* for a frame behind what is shorter than MinLen.
ASSUME FramesAssumption ==
  /\ BodyLen \in Nat /\ MinLen \in Nat /\ BufSize \in Nat
  /\ \A p \in Protos : /\ Len(Pre[p]) <= MinLen /\ Len(Eom[p]) <= MinLen
                        /\ Len(Frame[p]) >= MinLen
                        /\ Len(Frame[p]) + MinLen <= BufSize

VARIABLES
  fproto,   \* configuration: the protocol of the connection
  fbuf,     \* s_pCCBuffer up to s_CCBufferPos
  rcv,      \* s_eRcvState: "head" or "eom"
  sent,     \* how many bytes of a frame have come
  handled,  \* the last byte ended a frame that was handed on
  missed    \* history: the frames that came whole and were not handed on, since
            \* the last that was or the last loss of the connection; up to 3

fvars == <<fproto, fbuf, rcv, sent, handled, missed>>

FInit == /\ fproto \in Protos /\ fbuf = <<>> /\ rcv = "head"
         /\ sent = 0 /\ handled = FALSE /\ missed = 0

\* The buffer with the next byte in it; nPos goes round at the end.
Filled ==
  IF Len(fbuf) + 1 = BufSize THEN <<>> ELSE Append(fbuf, Frame[fproto][sent + 1])

\* The mark is looked for: other bytes go, but for the first one or two.
Seek == /\ rcv = "head" /\ handled' = FALSE
        /\ IF Len(Filled) < Len(Pre[fproto]) THEN fbuf' = Filled /\ UNCHANGED rcv
           ELSE IF Filled = Pre[fproto] THEN fbuf' = Filled /\ rcv' = "eom"
           ELSE fbuf' = SubSeq(Filled, 1, Back[fproto]) /\ UNCHANGED rcv

AtEnd == Len(Filled) >= MinLen /\ IsSuffix(Eom[fproto], Filled)

\* Mutant: bytes that fail the check stay in the buffer.
CollectKeeping ==
  /\ rcv = "eom"
  /\ handled' = (AtEnd /\ Filled = Frame[fproto])
  /\ IF handled' THEN fbuf' = <<>> /\ rcv' = "head" ELSE fbuf' = Filled /\ UNCHANGED rcv

\* The end is looked for; what lies before it is handed on if it is a frame,
\* and goes in either case.
Collect ==
  /\ rcv = "eom"
  /\ handled' = (AtEnd /\ Filled = Frame[fproto])
  /\ IF AtEnd THEN fbuf' = <<>> /\ rcv' = "head" ELSE fbuf' = Filled /\ UNCHANGED rcv

\* The next byte of the platform.
PutByte ==
  /\ Seek \/ Collect
  /\ sent' = (sent + 1) % Len(Frame[fproto])
  /\ missed' = IF handled' THEN 0
               ELSE IF sent' = 0 /\ missed < 3 THEN missed + 1 ELSE missed
  /\ UNCHANGED fproto

\* The connection is lost; the next one begins with a frame.
Lose == /\ sent' = 0 /\ missed' = 0 /\ handled' = FALSE
        /\ UNCHANGED <<fproto, fbuf, rcv>>

FNext == PutByte \/ Lose

FSpec == FInit /\ [][FNext]_fvars

(***************************************************************************)
(* Properties.                                                             *)
(***************************************************************************)
\* A cc_bjdc parser that is out of step: what it keeps is not the beginning of
\* the mark, or it compares the mark with bytes that lie across its pairs.
OutOfStep ==
  /\ fproto = "cc_bjdc" /\ rcv = "head"
  /\ ~IsPrefix(fbuf, Pre[fproto]) \/ Len(fbuf) % 2 # sent % 2

\* What former connections left in the buffer costs the next one the frame it
\* runs into, and one more if the end of that one lies across the end of the
\* buffer or just behind its beginning, unless it has put a cc_bjdc parser out
\* of step; and a frame is handed on just when it has come.
FewFramesLost ==
  /\ handled => sent = 0
  /\ missed > 2 => OutOfStep
=============================================================================
