---------------------------- MODULE MessageFramer ----------------------------
(***************************************************************************)
(* The wire format (server/src/MessageFramer.cpp): a little-endian length  *)
(* of HEADER_SIZE bytes, then the payload.  A byte is a number below BYTE; *)
(* the code has HEADER_SIZE = 4, BYTE = 256, MAX_MESSAGE_SIZE = 2^20, and  *)
(* smaller values make every case of it happen in short frames.            *)
(*                                                                         *)
(* readExact is modelled as the two users of it, handleClient and          *)
(* sendAndReceive, call it: read the header, refuse a length above the     *)
(* maximum, read that many bytes more.  Where they are is what they have   *)
(* read of the frame so far.                                               *)
(***************************************************************************)
EXTENDS Integers, Sequences

CONSTANTS HEADER_SIZE, BYTE, MAX_MESSAGE_SIZE

ASSUME ByteAssumption == HEADER_SIZE \in Nat \ {0} /\ BYTE \in Nat \ {0, 1}

\* The shifts by 8, 16 and 24 one after the other: left is v >> 8 * (i - 1), and
\* value is what the bytes from i on stand for.
writeU32LE(v) ==
  LET left[i \in 1..HEADER_SIZE] == IF i = 1 THEN v ELSE left[i - 1] \div BYTE
  IN  [i \in 1..HEADER_SIZE |-> left[i] % BYTE]
readU32LE(p) ==
  LET value[i \in 1..HEADER_SIZE + 1] ==
        IF i > HEADER_SIZE THEN 0 ELSE p[i] + BYTE * value[i + 1]
  IN  value[1]

\* A uint32_t: the lengths a header can carry.
U32 == 0..readU32LE([i \in 1..HEADER_SIZE |-> BYTE - 1])

ASSUME FrameAssumption == MAX_MESSAGE_SIZE \in U32 \ {0}

encode(payload) == writeU32LE(Len(payload)) \o payload

\* What has been read of a frame.
HasHeader(buf) == Len(buf) >= HEADER_SIZE
TooLarge(buf) == HasHeader(buf) /\ readU32LE(buf) > MAX_MESSAGE_SIZE
Missing(buf) ==
  (IF HasHeader(buf) THEN HEADER_SIZE + readU32LE(buf) ELSE HEADER_SIZE) - Len(buf)
Complete(buf) == HasHeader(buf) /\ ~TooLarge(buf) /\ Missing(buf) = 0

NeedMore(buffer) == [result |-> "more", out |-> <<>>, rest |-> buffer]

\* decode takes the first message off the front of a buffer.
decode(buffer) ==
  LET total == HEADER_SIZE + readU32LE(buffer)
  IN  CASE TooLarge(buffer) -> [NeedMore(buffer) EXCEPT !.result = "throw"]
        [] ~TooLarge(buffer) /\ (~HasHeader(buffer) \/ Len(buffer) < total) -> NeedMore(buffer)
        [] OTHER -> [result |-> "message",
                     out |-> SubSeq(buffer, HEADER_SIZE + 1, total),
                     rest |-> SubSeq(buffer, total + 1, Len(buffer))]
=============================================================================
