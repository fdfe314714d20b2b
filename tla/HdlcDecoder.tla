---------------------------- MODULE HdlcDecoder ----------------------------
(***************************************************************************)
(* decode_hdlc_frames_in_place: the payloads of the HDLC frames of a       *)
(* telegram are moved to the front of the buffer the telegram is in.  One  *)
(* action is one turn of the function's do-while loop, or its return.      *)
(***************************************************************************)
EXTENDS Spans, Crc16

VARIABLES
  telegram,        \* ghost: what the caller put into buf
  skip_crc_check,
  buf,
  read_offset,
  write_offset,
  is_first,
  status,          \* "idle", "decoding", "returning" (past the loop), "done"
  result           \* the span the function returned

vars == <<telegram, skip_crc_check, buf, read_offset, write_offset, is_first,
          status, result>>

-----------------------------------------------------------------------------
(* A frame at the start of r, the part of the buffer not yet read.         *)

HDLC_FLAG == 126

(* Bit 3 of the frame-type byte: "more frames follow".                     *)
Segmented(r) == (At(r, 1) \div 8) % 2 = 1

(* A seeded mistake: an incomplete frame is taken as far as it goes.       *)
FrameTotalClamped(r) ==
  LET total == (At(r, 1) % 8) * 256 + At(r, 2) + 2
  IN  IF total <= Len(r) THEN total ELSE Len(r)

FrameTotal(r) == (At(r, 1) % 8) * 256 + At(r, 2) + 2

(* What lies between the two flags.                                        *)
Inner(r) == Subspan(r, 1, FrameTotal(r) - 2)

(* The bytes of an address, up to the first one with its low bit set: at   *)
(* most four, and 0 if none of them has it.                                *)
LastAddressByte(p, i) ==
  i <= Len(p) /\ p[i] % 2 = 1 /\ \A j \in 1 .. i - 1 : p[j] % 2 = 0

address_length[p \in Seq(Byte)] ==
  IF \E i \in 1 .. 4 : LastAddressByte(p, i)
  THEN CHOOSE i \in 1 .. 4 : LastAddressByte(p, i)
  ELSE 0

DstLen(inner) == address_length[From(inner, 2)]
SrcLen(inner) == address_length[From(inner, 2 + DstLen(inner))]

(* Where the HCS of a frame starts: after format, addresses and control.   *)
HcsPos[inner \in Seq(Byte)] == 2 + DstLen(inner) + SrcLen(inner) + 1

(* A seeded mistake: the FCS is not checked.                               *)
FrameOkWithoutFcs(r, skip) ==
  /\ Len(r) >= 4 /\ At(r, 0) = HDLC_FLAG
  /\ FrameTotal(r) <= Len(r)
  /\ \E inner \in {Inner(r)} :
       /\ Len(inner) >= 9
       /\ DstLen(inner) # 0 /\ SrcLen(inner) # 0
       /\ HcsPos[inner] + 2 <= Len(inner)
       /\ skip \/ crc16_x25_check(Subspan(inner, 0, HcsPos[inner] + 2))

(* The body of the loop reaches the copy: no early return was taken.       *)
FrameOk(r, skip) ==
  /\ Len(r) >= 4 /\ At(r, 0) = HDLC_FLAG
  /\ FrameTotal(r) <= Len(r)
  /\ \E inner \in {Inner(r)} :
       /\ Len(inner) >= 9
       /\ DstLen(inner) # 0
       /\ SrcLen(inner) # 0
       /\ HcsPos[inner] + 2 <= Len(inner)
       /\ skip \/ crc16_x25_check(Subspan(inner, 0, HcsPos[inner] + 2))
       /\ skip \/ crc16_x25_check(inner)

DataEnd(r) == FrameTotal(r) - 4

(* The LLC header E6 E6 00 or E6 E7 00 in front of the data.               *)
HasLlc(r) ==
  LET inner == Inner(r)
      pos == HcsPos[inner] + 2
  IN  /\ pos + 3 <= DataEnd(r)
      /\ At(inner, pos) = 230
      /\ At(inner, pos + 1) \in {230, 231}
      /\ At(inner, pos + 2) = 0

(* A seeded mistake: an LLC header is cut from every frame.                *)
DataPosAlwaysLlc(r, first) ==
  HcsPos[Inner(r)] + 2 + (IF HasLlc(r) THEN 3 ELSE 0)

(* Where the data of the frame starts, in Inner(r).                        *)
DataPos(r, first) ==
  HcsPos[Inner(r)] + 2 + (IF first /\ HasLlc(r) THEN 3 ELSE 0)

Payload(r, first) ==
  LET pos == DataPos(r, first)
  IN  IF pos < DataEnd(r)
      THEN Subspan(Inner(r), pos, DataEnd(r) - pos)
      ELSE << >>

-----------------------------------------------------------------------------
Init ==
  /\ telegram = << >> /\ skip_crc_check = FALSE /\ buf = << >>
  /\ read_offset = 0 /\ write_offset = 0 /\ is_first = TRUE
  /\ status = "idle" /\ result = << >>

Call(bytes, skip) ==
  /\ status = "idle"
  /\ telegram' = bytes /\ buf' = bytes
  /\ skip_crc_check' = skip
  /\ read_offset' = 0 /\ write_offset' = 0 /\ is_first' = TRUE
  /\ status' = "decoding"
  /\ UNCHANGED result

remaining == From(buf, read_offset)

(* The loop test, after a turn that moved read_offset.                     *)
LoopTest ==
  status' = IF read_offset' < Len(buf) THEN "decoding" ELSE "returning"

(* Seeded mistakes: the short frame is six bytes long, or not skipped.     *)
SkipShortFrameTooFar ==
  /\ status = "decoding" /\ is_mbus_short_frame(remaining)
  /\ read_offset' = read_offset + 6
  /\ LoopTest
  /\ UNCHANGED <<telegram, skip_crc_check, buf, write_offset, is_first, result>>

SkipShortFrameNowhere ==
  /\ status = "decoding" /\ is_mbus_short_frame(remaining)
  /\ UNCHANGED vars

SkipShortFrame ==
  /\ status = "decoding"
  /\ is_mbus_short_frame(remaining)
  /\ read_offset' = read_offset + 5
  /\ LoopTest
  /\ UNCHANGED <<telegram, skip_crc_check, buf, write_offset, is_first, result>>

(* Seeded mistakes: the payload goes behind its frame, or is_first stays.  *)
TakeFrameBehind ==
  /\ status = "decoding" /\ ~ is_mbus_short_frame(remaining)
  /\ FrameOk(remaining, skip_crc_check)
  /\ \E payload \in {Payload(remaining, is_first)} :
       /\ buf' = CopyTo(buf, payload, read_offset + FrameTotal(remaining))
       /\ write_offset' = write_offset + Len(payload)
  /\ read_offset' = read_offset + FrameTotal(remaining)
  /\ is_first' = FALSE
  /\ LoopTest
  /\ UNCHANGED <<telegram, skip_crc_check, result>>

TakeFrameAlwaysFirst ==
  /\ status = "decoding" /\ ~ is_mbus_short_frame(remaining)
  /\ FrameOk(remaining, skip_crc_check)
  /\ \E payload \in {Payload(remaining, is_first)} :
       /\ buf' = CopyTo(buf, payload, write_offset)
       /\ write_offset' = write_offset + Len(payload)
  /\ read_offset' = read_offset + FrameTotal(remaining)
  /\ LoopTest
  /\ UNCHANGED <<telegram, skip_crc_check, is_first, result>>

TakeFrame ==
  /\ status = "decoding"
  /\ ~ is_mbus_short_frame(remaining)
  /\ FrameOk(remaining, skip_crc_check)
  /\ \E payload \in {Payload(remaining, is_first)} :
       /\ buf' = CopyTo(buf, payload, write_offset)
       /\ write_offset' = write_offset + Len(payload)
  /\ read_offset' = read_offset + FrameTotal(remaining)
  /\ is_first' = FALSE
  /\ LoopTest
  /\ UNCHANGED <<telegram, skip_crc_check, result>>

Reject ==
  /\ status = "decoding"
  /\ ~ is_mbus_short_frame(remaining)
  /\ ~ FrameOk(remaining, skip_crc_check)
  /\ status' = "done"
  /\ result' = << >>
  /\ UNCHANGED <<telegram, skip_crc_check, buf, read_offset, write_offset,
                 is_first>>

Return ==
  /\ status = "returning"
  /\ status' = "done"
  /\ result' = Subspan(buf, 0, write_offset)
  /\ UNCHANGED <<telegram, skip_crc_check, buf, read_offset, write_offset,
                 is_first>>

Decode == SkipShortFrame \/ TakeFrame \/ Reject \/ Return

Next == Decode \/ \E t \in Seq(Byte), skip \in BOOLEAN : Call(t, skip)

Spec == Init /\ [][Next]_vars /\ WF_vars(Decode)

-----------------------------------------------------------------------------
TypeOK ==
  /\ telegram \in Seq(Byte) /\ buf \in Seq(Byte) /\ Len(buf) = Len(telegram)
  /\ skip_crc_check \in BOOLEAN /\ is_first \in BOOLEAN
  /\ read_offset \in 0 .. Len(buf) /\ write_offset \in 0 .. Len(buf)
  /\ status \in {"idle", "decoding", "returning", "done"}
  /\ result \in Seq(Byte)

(* "dst <= src always" (line 135): the payload is written where everything *)
(* has been read, so no byte is overwritten before the loop has seen it.   *)
InPlaceSafe ==
  /\ write_offset <= read_offset
  /\ From(buf, read_offset) = From(telegram, read_offset)

(* The decoder is a FrameStream: as if it wrote to a buffer of its own.    *)
Stream == INSTANCE FrameStream WITH
  Telegrams <- Seq(Byte),
  Stops <- LAMBDA r : r = << >>,
  Filler <- is_mbus_short_frame,
  WellFormed <- FrameOk,
  Size <- FrameTotal,
  Payload <- Payload,
  lenient <- skip_crc_check,
  at <- read_offset,
  first <- is_first,
  out <- Subspan(buf, 0, write_offset),
  status <- IF status = "returning" THEN "decoding" ELSE status

RefinesStream == Stream!Spec

(* A call returns whatever it was given: every turn of the loop either     *)
(* moves on in the buffer or ends it.                                      *)
Terminates == status = "decoding" ~> status = "done"

=============================================================================
