---------------------------- MODULE MbusDecoder ----------------------------
(***************************************************************************)
(* decode_mbus_frames_in_place: the payloads of consecutive M-Bus long     *)
(* frames (68 L L 68 C A CI STSAP DTSAP data CS 16) are moved to the front *)
(* of the buffer.  One action is one turn of the while loop, or the return.*)
(***************************************************************************)
EXTENDS Spans

Byte == 0 .. 255

VARIABLES
  telegram,        \* ghost: what the caller put into buf
  skip_crc_check,
  buf,
  read_offset,     \* buf.size() - remaining.size()
  write_offset,
  status,          \* "idle", "decoding" or "done"
  result           \* the span the function returned

vars == <<telegram, skip_crc_check, buf, read_offset, write_offset, status,
          result>>

MBUS_START == 104
MBUS_STOP == 22
MBUS_INTRO == 4
MBUS_HEADER == 9
MBUS_FOOTER == 2

-----------------------------------------------------------------------------
(* A frame at the start of r, the part of the buffer not yet read.         *)

(* No frame starts here: the end, or trailing garbage.                     *)
Stops(r) == ~ (Len(r) >= MBUS_INTRO /\ At(r, 0) = MBUS_START)

L(r) == At(r, 1)

FrameSize(r) == MBUS_INTRO + L(r) + MBUS_FOOTER

(* The L bytes from C on, added up in a byte.                              *)
Checksum(r) ==
  LET sum[i \in 0 .. L(r)] ==
        IF i = 0 THEN 0 ELSE (sum[i - 1] + At(r, MBUS_INTRO + i - 1)) % 256
  IN  sum[L(r)]

(* A seeded mistake: the checksum is not compared.                         *)
FrameOkWithoutChecksum(r, skip) ==
  /\ Len(r) >= MBUS_INTRO /\ At(r, 3) = MBUS_START
  /\ At(r, 1) = At(r, 2)
  /\ MBUS_INTRO + L(r) >= MBUS_HEADER
  /\ Len(r) >= FrameSize(r)
  /\ At(r, MBUS_INTRO + L(r) + 1) = MBUS_STOP

FrameOk(r, skip) ==
  /\ Len(r) >= MBUS_INTRO /\ At(r, 3) = MBUS_START
  /\ At(r, 1) = At(r, 2)
  /\ MBUS_INTRO + L(r) >= MBUS_HEADER
  /\ Len(r) >= FrameSize(r)
  /\ At(r, MBUS_INTRO + L(r) + 1) = MBUS_STOP
  /\ skip \/ Checksum(r) = At(r, MBUS_INTRO + L(r))

(* A seeded mistake: the checksum byte is taken for data.                  *)
PayloadWithChecksum(r) ==
  Subspan(r, MBUS_HEADER, MBUS_INTRO + L(r) + 1 - MBUS_HEADER)

Payload(r) ==
  IF MBUS_HEADER < MBUS_INTRO + L(r)
  THEN Subspan(r, MBUS_HEADER, MBUS_INTRO + L(r) - MBUS_HEADER)
  ELSE << >>

-----------------------------------------------------------------------------
Init ==
  /\ telegram = << >> /\ skip_crc_check = FALSE /\ buf = << >>
  /\ read_offset = 0 /\ write_offset = 0
  /\ status = "idle" /\ result = << >>

Call(bytes, skip) ==
  /\ status = "idle"
  /\ telegram' = bytes /\ buf' = bytes
  /\ skip_crc_check' = skip
  /\ read_offset' = 0 /\ write_offset' = 0
  /\ status' = "decoding"
  /\ UNCHANGED result

remaining == From(buf, read_offset)

(* Seeded mistakes: the frame is one byte too long, its payload is written *)
(* behind it, or it is not left behind.                                    *)
TakeFrameTooFar ==
  /\ status = "decoding" /\ ~ Stops(remaining)
  /\ FrameOk(remaining, skip_crc_check)
  /\ \E payload \in {Payload(remaining)} :
       /\ buf' = CopyTo(buf, payload, write_offset)
       /\ write_offset' = write_offset + Len(payload)
  /\ read_offset' = read_offset + FrameSize(remaining) + 1
  /\ UNCHANGED <<telegram, skip_crc_check, status, result>>

TakeFrameBehind ==
  /\ status = "decoding" /\ ~ Stops(remaining)
  /\ FrameOk(remaining, skip_crc_check)
  /\ \E payload \in {Payload(remaining)} :
       /\ buf' = CopyTo(buf, payload, read_offset + FrameSize(remaining))
       /\ write_offset' = write_offset + Len(payload)
  /\ read_offset' = read_offset + FrameSize(remaining)
  /\ UNCHANGED <<telegram, skip_crc_check, status, result>>

TakeFrameAgain ==
  /\ status = "decoding" /\ ~ Stops(remaining)
  /\ FrameOk(remaining, skip_crc_check)
  /\ UNCHANGED vars

TakeFrame ==
  /\ status = "decoding"
  /\ ~ Stops(remaining)
  /\ FrameOk(remaining, skip_crc_check)
  /\ \E payload \in {Payload(remaining)} :
       /\ buf' = CopyTo(buf, payload, write_offset)
       /\ write_offset' = write_offset + Len(payload)
  /\ read_offset' = read_offset + FrameSize(remaining)
  /\ UNCHANGED <<telegram, skip_crc_check, status, result>>

Finish(span) ==
  /\ status' = "done"
  /\ result' = span
  /\ UNCHANGED <<telegram, skip_crc_check, buf, read_offset, write_offset>>

(* A seeded mistake: what was decoded before the bad frame is returned.    *)
RejectPartly ==
  /\ status = "decoding" /\ ~ Stops(remaining)
  /\ ~ FrameOk(remaining, skip_crc_check)
  /\ Finish(Subspan(buf, 0, write_offset))

Reject ==
  /\ status = "decoding"
  /\ ~ Stops(remaining)
  /\ ~ FrameOk(remaining, skip_crc_check)
  /\ Finish(<< >>)

Return ==
  /\ status = "decoding"
  /\ Stops(remaining)
  /\ Finish(Subspan(buf, 0, write_offset))

Decode == TakeFrame \/ Reject \/ Return

Next == Decode \/ \E t \in Seq(Byte), skip \in BOOLEAN : Call(t, skip)

Spec == Init /\ [][Next]_vars /\ WF_vars(Decode)

-----------------------------------------------------------------------------
TypeOK ==
  /\ telegram \in Seq(Byte) /\ buf \in Seq(Byte) /\ Len(buf) = Len(telegram)
  /\ skip_crc_check \in BOOLEAN
  /\ read_offset \in 0 .. Len(buf) /\ write_offset \in 0 .. Len(buf)
  /\ status \in {"idle", "decoding", "done"}
  /\ result \in Seq(Byte)

(* The payload is written where everything has been read, so no byte is    *)
(* overwritten before the loop has seen it.                                *)
InPlaceSafe ==
  /\ write_offset <= read_offset
  /\ From(buf, read_offset) = From(telegram, read_offset)

(* The decoder is a FrameStream without filler: as if it wrote to a buffer *)
(* of its own.                                                             *)
Stream == INSTANCE FrameStream WITH
  Telegrams <- Seq(Byte),
  Filler <- LAMBDA r : FALSE,
  WellFormed <- FrameOk,
  Size <- FrameSize,
  Payload <- LAMBDA r, isFirst : Payload(r),
  lenient <- skip_crc_check,
  at <- read_offset,
  first <- read_offset = 0,
  out <- Subspan(buf, 0, write_offset)

RefinesStream == Stream!Spec

(* A call returns whatever it was given: every turn of the loop either     *)
(* moves on in the buffer or ends it.                                      *)
Terminates == status = "decoding" ~> status = "done"

=============================================================================
