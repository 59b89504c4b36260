------------------------------- MODULE Frames --------------------------------
(***************************************************************************)
(* hft_test/include/protocol.h and the two parsers that use it: messages   *)
(* become frames, a length of HeaderLen bytes and that many of payload,    *)
(* and the receiver cuts them out of whatever pieces recv returns.  A byte *)
(* is the frame it belongs to and its place in it: what a length field     *)
(* reads as when it is not one is a choice.                                *)
(***************************************************************************)
EXTENDS Integers, Sequences

CONSTANTS HeaderLen,   \* sizeof(uint32_t)
          WireLen,     \* sizeof the message the receiver wants
          PayloadLens, \* lengths of payload that are sent
          MaxFrames,   \* bound: messages sent
          MaxPiece     \* bytes one send or recv moves at most

ASSUME FramesAssumption ==
  /\ {HeaderLen, WireLen, MaxFrames, MaxPiece} \subseteq Nat \ {0} /\ PayloadLens \subseteq Nat

VARIABLES
  packed,   \* the messages packed, in order: [len, wanted]
  pending,  \* bytes of the frame being sent that send has not taken
  pipe,     \* bytes in the connection
  buf,      \* the receiver's buffer
  offset,   \* how far its parser has come in it
  parsing,  \* the parser is at work, else recv
  taken     \* the messages its parser handled, in order

frameVars == <<packed, pending, pipe, buf, offset, parsing, taken>>

FramesInit ==
  /\ packed = <<>> /\ pending = <<>> /\ pipe = <<>> /\ buf = <<>> /\ taken = <<>>
  /\ offset = 0 /\ parsing = FALSE

-----------------------------------------------------------------------------
\* pack_with_length: byte 1..HeaderLen is the length, the rest the payload.
Pack(f, len) == [i \in 1..HeaderLen + len |-> [frame |-> f, at |-> i]]

\* magic and msg_type decide whether the receiver wants it.
Send(len, wanted) ==
  /\ pending = <<>> /\ Len(packed) < MaxFrames
  /\ packed' = Append(packed, [len |-> len, wanted |-> wanted])
  /\ pending' = Pack(Len(packed) + 1, len)
  /\ UNCHANGED <<pipe, buf, offset, parsing, taken>>

\* send takes part of what is left; the loop of send_all offers the rest again.
SendPiece(n) ==
  /\ n \in 1..Len(pending)
  /\ pipe' = pipe \o SubSeq(pending, 1, n)
  /\ pending' = SubSeq(pending, n + 1, Len(pending))
  /\ UNCHANGED <<packed, buf, offset, parsing, taken>>

\* recv, and the insertion into the buffer.
RecvPiece(n) ==
  /\ ~parsing /\ n \in 1..Len(pipe)
  /\ buf' = buf \o SubSeq(pipe, 1, n)
  /\ pipe' = SubSeq(pipe, n + 1, Len(pipe))
  /\ parsing' = TRUE /\ offset' = 0
  /\ UNCHANGED <<packed, pending, taken>>

\* The length read at the offset: right only where a frame begins.
LengthAt == IF buf[offset + 1].at = 1 THEN packed[buf[offset + 1].frame].len ELSE 0

\* Fault: a frame is taken when its length has arrived.
FrameHereFault == offset + HeaderLen <= Len(buf)
\* unpack_frame's two tests: the length is there, and then the payload.
FrameHere ==
  /\ offset + HeaderLen <= Len(buf)
  /\ offset + HeaderLen + LengthAt <= Len(buf)

\* A payload too short or with another magic or type is skipped.
Wanted(f) == packed[f].len >= WireLen /\ packed[f].wanted

\* parse_messages, parse_exec_reports: the next frame, and the end of the loop
\* with the erasure of what it used.  The sender goes on meanwhile.
ParseFrame ==
  LET f == buf[offset + 1].frame IN
  /\ parsing /\ FrameHere
  /\ offset' = offset + HeaderLen + LengthAt
  /\ taken' = IF Wanted(f) THEN Append(taken, f) ELSE taken
  /\ UNCHANGED <<packed, pending, pipe, buf, parsing>>

ParseEnds ==
  /\ parsing /\ ~FrameHere
  /\ buf' = SubSeq(buf, offset + 1, Len(buf))
  /\ offset' = 0 /\ parsing' = FALSE
  /\ UNCHANGED <<packed, pending, pipe, taken>>

FramesNext ==
  \/ \E len \in PayloadLens, wanted \in BOOLEAN : Send(len, wanted)
  \/ \E n \in 1..MaxPiece : SendPiece(n) \/ RecvPiece(n)
  \/ ParseFrame \/ ParseEnds

-----------------------------------------------------------------------------
(***************************************************************************)
(* However the bytes are cut up, messages are handled in the order they    *)
(* were sent and none before its last byte has arrived; and when the       *)
(* receiver waits, it has handled every wanted one that has, and what it   *)
(* keeps is less than a frame and begins with the first byte of the next.  *)
(***************************************************************************)
Complete == {f \in 1..Len(packed) : \A i \in 1..Len(pipe \o pending) : (pipe \o pending)[i].frame # f}
FramesIntact ==
  /\ \A i, j \in 1..Len(taken) : i < j => taken[i] < taken[j]
  /\ \A i \in 1..Len(taken) : taken[i] \in Complete /\ Wanted(taken[i])
  /\ ~parsing =>
       /\ \A f \in Complete : Wanted(f) => \E i \in 1..Len(taken) : taken[i] = f
       /\ \A i \in 1..Len(buf) : buf[i].frame \notin Complete
       /\ buf # <<>> => buf[1].at = 1 /\ Len(buf) < HeaderLen + packed[buf[1].frame].len
=============================================================================
