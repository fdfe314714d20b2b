----------------------------- MODULE HdlcProofs -----------------------------
(***************************************************************************)
(* For every set of telegrams: the HDLC decoder stays inside its buffer,   *)
(* never overwrites a byte it has not read, and implements FrameStream.    *)
(* And for every set of messages a meter may push: what the decoder makes  *)
(* of them when the line delivers them, loses or repeats a frame, falls    *)
(* silent or flips a bit.                                                  *)
(***************************************************************************)
EXTENDS HdlcPush, SpansProofs

(* The address fields take at most four bytes each.                        *)
LEMMA AddressLengthBound ==
  ASSUME NEW p \in Seq(Byte)
  PROVE  address_length[p] \in 0 .. 4
<1>1. CASE \E i \in 1 .. 4 : LastAddressByte(p, i)
  BY <1>1 DEF address_length
<1>2. CASE ~ \E i \in 1 .. 4 : LastAddressByte(p, i)
  BY <1>2 DEF address_length
<1> QED
  BY <1>1, <1>2

LEMMA ByteBits ==
  ASSUME NEW x \in Byte
  PROVE  x \in Nat /\ x % 8 \in 0 .. 7
  BY DEF Byte

(* A frame the loop takes lies in what remains, and its payload is shorter *)
(* than the frame: the reason why dst <= src always.                       *)
LEMMA FrameFits ==
  ASSUME NEW r \in Seq(Byte), NEW skip \in BOOLEAN, NEW first \in BOOLEAN,
         FrameOk(r, skip)
  PROVE  /\ FrameTotal(r) \in Nat
         /\ 0 < FrameTotal(r) /\ FrameTotal(r) <= Len(r)
         /\ Payload(r, first) \in Seq(Byte)
         /\ Len(Payload(r, first)) <= FrameTotal(r)
<1>1. /\ FrameTotal(r) \in Nat
      /\ 2 <= FrameTotal(r) /\ FrameTotal(r) <= Len(r)
      /\ 4 <= Len(r)
  <2>1. 4 <= Len(r) /\ FrameTotal(r) <= Len(r)
    BY DEF FrameOk
  <2>2. r[2] \in Byte /\ r[3] \in Byte
    BY <2>1
  <2>3. r[2] % 8 \in 0 .. 7 /\ r[3] \in Nat
    BY <2>2, ByteBits
  <2>4. FrameTotal(r) = (r[2] % 8) * 256 + r[3] + 2
    BY DEF FrameTotal, At
  <2> QED
    BY <2>1, <2>2, <2>3, <2>4
<1>2. Inner(r) \in Seq(Byte) /\ Len(Inner(r)) = FrameTotal(r) - 2
  BY <1>1 DEF Inner, Subspan
<1> DEFINE pos == DataPos(r, first)
<1>3. pos \in Nat
  <2>1. From(Inner(r), 2) \in Seq(Byte)
    BY <1>2 DEF From
  <2>2. DstLen(Inner(r)) \in Nat
    BY <2>1, AddressLengthBound DEF DstLen
  <2>3. From(Inner(r), 2 + DstLen(Inner(r))) \in Seq(Byte)
    BY <1>2, <2>2 DEF From
  <2>4. SrcLen(Inner(r)) \in Nat
    BY <2>3, AddressLengthBound DEF SrcLen
  <2>5. HcsPos[Inner(r)] = 2 + DstLen(Inner(r)) + SrcLen(Inner(r)) + 1
    BY <1>2 DEF HcsPos
  <2> QED
    BY <2>2, <2>4, <2>5 DEF DataPos
<1>4. CASE pos < DataEnd(r)
  <2> HIDE DEF pos
  <2>1. DataEnd(r) \in Nat /\ DataEnd(r) = Len(Inner(r)) - 2
    BY <1>1, <1>2, <1>3, <1>4 DEF DataEnd
  <2>2. /\ SubSeq(Inner(r), pos + 1, DataEnd(r)) \in Seq(Byte)
        /\ Len(SubSeq(Inner(r), pos + 1, DataEnd(r))) = DataEnd(r) - pos
    BY <1>2, <1>3, <1>4, <2>1
  <2>3. Payload(r, first) = SubSeq(Inner(r), pos + 1, DataEnd(r))
    BY <1>3, <1>4, <2>1 DEF Payload, Subspan, pos
  <2> QED
    BY <1>1, <1>3, <2>1, <2>2, <2>3 DEF DataEnd
<1>5. CASE ~ (pos < DataEnd(r))
  BY <1>1, <1>5 DEF Payload
<1> QED
  BY <1>1, <1>4, <1>5

-----------------------------------------------------------------------------
(* In the loop there is something to read, unless there never was; past    *)
(* the loop everything has been read.                                      *)
LoopControl ==
  /\ status = "decoding" => read_offset < Len(buf) \/ Len(buf) = 0
  /\ status = "returning" => read_offset = Len(buf)

Inv == TypeOK /\ InPlaceSafe /\ LoopControl

LEMMA InitInv == Init => Inv
<1> SUFFICES ASSUME Init PROVE Inv
  OBVIOUS
<1>1. TypeOK
  <2>1. << >> \in Seq(Byte) /\ Len(<< >>) = 0
    OBVIOUS
  <2>2. telegram = << >> /\ buf = << >> /\ result = << >>
    BY DEF Init
  <2>3. read_offset \in 0 .. Len(buf) /\ write_offset \in 0 .. Len(buf)
    BY <2>1, <2>2 DEF Init
  <2>4. /\ skip_crc_check \in BOOLEAN /\ is_first \in BOOLEAN
        /\ status \in {"idle", "decoding", "returning", "done"}
    BY DEF Init
  <2>5. telegram \in Seq(Byte) /\ buf \in Seq(Byte) /\ result \in Seq(Byte)
    BY <2>1, <2>2
  <2> QED
    BY <2>2, <2>3, <2>4, <2>5 DEF TypeOK
<1>2. InPlaceSafe /\ LoopControl
  BY DEF Init, InPlaceSafe, LoopControl
<1> QED
  BY <1>1, <1>2 DEF Inv

LEMMA RemainingType ==
  ASSUME TypeOK
  PROVE  remaining \in Seq(Byte) /\ Len(remaining) = Len(buf) - read_offset
  BY DEF TypeOK, remaining, From

LEMMA CallInv ==
  ASSUME NEW t \in Seq(Byte), NEW skip \in BOOLEAN, TypeOK, Call(t, skip)
  PROVE  Inv'
  BY DEF Call, Inv, TypeOK, InPlaceSafe, LoopControl

LEMMA SkipShortFrameInv ==
  ASSUME Inv, SkipShortFrame
  PROVE  Inv'
<1>1. read_offset' = read_offset + 5 /\ read_offset' <= Len(buf)
  BY RemainingType DEF Inv, TypeOK, SkipShortFrame, is_mbus_short_frame
<1>2. TypeOK'
  BY <1>1 DEF Inv, TypeOK, SkipShortFrame, LoopTest
<1>3. InPlaceSafe'
  <2>1. From(buf, read_offset + 5) = From(telegram, read_offset + 5)
    BY FromLater DEF Inv, TypeOK, InPlaceSafe
  <2> QED
    BY <1>1, <2>1 DEF Inv, TypeOK, InPlaceSafe, SkipShortFrame
<1>4. LoopControl'
  BY <1>1, <1>2 DEF LoopControl, SkipShortFrame, LoopTest, TypeOK
<1> QED
  BY <1>2, <1>3, <1>4 DEF Inv

(* What the action does to the buffer, for both theorems below.            *)
LEMMA TakeFrameEffect ==
  ASSUME Inv, TakeFrame
  PROVE  LET payload == Payload(remaining, is_first)
         IN  /\ payload \in Seq(Byte)
             /\ buf' = CopyTo(buf, payload, write_offset)
             /\ write_offset' = write_offset + Len(payload)
             /\ write_offset' <= read_offset' /\ read_offset' <= Len(buf)
             /\ read_offset' \in Nat /\ write_offset' \in Nat
             /\ read_offset < read_offset'
             /\ buf' \in Seq(Byte) /\ Len(buf') = Len(buf)
<1> DEFINE payload == Payload(remaining, is_first)
<1>1. /\ remaining \in Seq(Byte) /\ Len(remaining) = Len(buf) - read_offset
      /\ is_first \in BOOLEAN /\ skip_crc_check \in BOOLEAN
      /\ read_offset \in Nat /\ write_offset \in Nat
      /\ write_offset <= read_offset /\ buf \in Seq(Byte)
  BY RemainingType DEF Inv, TypeOK, InPlaceSafe
<1>2. FrameOk(remaining, skip_crc_check)
  BY DEF TakeFrame
<1>3. /\ FrameTotal(remaining) \in Nat /\ 0 < FrameTotal(remaining)
      /\ FrameTotal(remaining) <= Len(remaining)
      /\ payload \in Seq(Byte) /\ Len(payload) <= FrameTotal(remaining)
  BY <1>1, <1>2, FrameFits
<1>4. /\ buf' = CopyTo(buf, payload, write_offset)
      /\ write_offset' = write_offset + Len(payload)
      /\ read_offset' = read_offset + FrameTotal(remaining)
  BY DEF TakeFrame
<1> HIDE DEF payload
<1>5. buf' \in Seq(Byte) /\ Len(buf') = Len(buf)
  BY <1>1, <1>3, <1>4, CopyToType
<1> QED
  BY <1>1, <1>3, <1>4, <1>5 DEF payload

LEMMA TakeFrameInv ==
  ASSUME Inv, TakeFrame
  PROVE  Inv'
<1> DEFINE payload == Payload(remaining, is_first)
<1>1. /\ payload \in Seq(Byte)
      /\ buf' = CopyTo(buf, payload, write_offset)
      /\ write_offset' = write_offset + Len(payload)
      /\ write_offset' <= read_offset' /\ read_offset' <= Len(buf)
      /\ read_offset' \in Nat /\ write_offset' \in Nat
      /\ read_offset < read_offset'
      /\ buf' \in Seq(Byte) /\ Len(buf') = Len(buf)
  BY TakeFrameEffect
<1> HIDE DEF payload
<1>2. TypeOK'
  <2>1. status' \in {"decoding", "returning"}
    BY DEF TakeFrame, LoopTest
  <2>2. is_first' \in BOOLEAN /\ UNCHANGED <<telegram, skip_crc_check, result>>
    BY DEF TakeFrame
  <2> QED
    BY <1>1, <2>1, <2>2 DEF Inv, TypeOK
<1>3. From(buf', read_offset') = From(telegram', read_offset')
  <2>1. From(buf', read_offset') = From(buf, read_offset')
    BY <1>1, CopyToTail DEF Inv, TypeOK
  <2>2. From(buf, read_offset') = From(telegram, read_offset')
    BY <1>1, FromLater DEF Inv, TypeOK, InPlaceSafe
  <2> QED
    BY <2>1, <2>2 DEF TakeFrame
<1>4. InPlaceSafe'
  BY <1>1, <1>3 DEF InPlaceSafe
<1>5. LoopControl'
  BY <1>1 DEF LoopControl, TakeFrame, LoopTest
<1> QED
  BY <1>2, <1>4, <1>5 DEF Inv

LEMMA ReturnsInv ==
  ASSUME Inv, Reject \/ Return
  PROVE  Inv'
<1>1. Subspan(buf, 0, write_offset) \in Seq(Byte)
  BY DEF Inv, TypeOK, Subspan
<1>2. << >> \in Seq(Byte)
  OBVIOUS
<1>3. result' \in Seq(Byte)
  BY <1>1, <1>2 DEF Reject, Return
<1>4. /\ status' = "done"
      /\ UNCHANGED <<telegram, skip_crc_check, buf, read_offset, write_offset,
                     is_first>>
  BY DEF Reject, Return
<1> QED
  BY <1>3, <1>4 DEF Inv, TypeOK, InPlaceSafe, LoopControl

LEMMA NextInv == Inv /\ [Next]_vars => Inv'
<1> SUFFICES ASSUME Inv, [Next]_vars PROVE Inv'
  OBVIOUS
<1>1. CASE SkipShortFrame
  BY <1>1, SkipShortFrameInv
<1>2. CASE TakeFrame
  BY <1>2, TakeFrameInv
<1>3. CASE Reject \/ Return
  BY <1>3, ReturnsInv
<1>4. ASSUME NEW t \in Seq(Byte), NEW skip \in BOOLEAN, Call(t, skip)
      PROVE  Inv'
  BY <1>4, CallInv DEF Inv
<1>5. CASE UNCHANGED vars
  BY <1>5 DEF vars, Inv, TypeOK, InPlaceSafe, LoopControl
<1> QED
  BY <1>1, <1>2, <1>3, <1>4, <1>5 DEF Next, Decode

LEMMA InvAlways == Spec => []Inv
  BY InitInv, NextInv, PTL DEF Spec

(* The offsets stay inside the buffer and the buffer keeps its length,     *)
(* whatever bytes were received: no subspan of the function is out of      *)
(* bounds.                                                                 *)
THEOREM HdlcTypeCorrect == Spec => []TypeOK
<1>1. Inv => TypeOK
  BY DEF Inv
<1> QED
  BY <1>1, InvAlways, PTL

(* "dst <= src always": no byte of a telegram is overwritten before the    *)
(* loop has read it.                                                       *)
THEOREM HdlcInPlaceSafe == Spec => []InPlaceSafe
<1>1. Inv => InPlaceSafe
  BY DEF Inv
<1> QED
  BY <1>1, InvAlways, PTL

(* A turn of the loop, or what follows it.                                 *)
ReadsOn == Len(buf') = Len(buf) /\ read_offset < read_offset'

(* Every turn of the loop reads on in a buffer that does not become longer,*)
(* or is the last one, whatever lengths the frames claim; behind the loop  *)
(* the call returns.  No step of the decoder leaves things as they were.   *)
THEOREM HdlcTurnsReadOn ==
  ASSUME Inv, Decode
  PROVE  \/ status' = "done"
         \/ status = "decoding" /\ (status' = "returning" \/ ReadsOn)
<1>1. CASE SkipShortFrame
  BY <1>1 DEF Inv, TypeOK, SkipShortFrame, ReadsOn
<1>2. CASE TakeFrame
  <2>1. ReadsOn
    BY <1>2, TakeFrameEffect DEF ReadsOn
  <2> QED
    BY <1>2, <2>1 DEF TakeFrame
<1>3. CASE Reject \/ Return
  BY <1>3 DEF Reject, Return
<1> QED
  BY <1>1, <1>2, <1>3 DEF Decode

-----------------------------------------------------------------------------
(* The steps of the decoder under the refinement mapping: what remains of  *)
(* the buffer is what remains of the telegram, and the output so far is    *)
(* the front of the buffer.                                                *)

LEMMA SameRest ==
  ASSUME Inv
  PROVE  Stream!Rest = remaining
  BY DEF Inv, InPlaceSafe, Stream!Rest, Stream!From, From, remaining

LEMMA CallIsStart ==
  ASSUME NEW t \in Seq(Byte), NEW skip \in BOOLEAN, Call(t, skip)
  PROVE  Stream!Start
<1>1. Subspan(t, 0, 0) = << >>
  BY DEF Subspan
<1>2. Subspan(buf, 0, write_offset)' = << >>
  BY <1>1 DEF Call
<1> QED
  BY <1>2 DEF Call, Stream!Start

LEMMA SkipIsPass ==
  ASSUME Inv, SkipShortFrame
  PROVE  Stream!Pass
<1>1. Stream!Rest # << >> /\ is_mbus_short_frame(Stream!Rest)
  BY SameRest, RemainingType
  DEF SkipShortFrame, is_mbus_short_frame, Inv
<1> QED
  BY <1>1 DEF SkipShortFrame, LoopTest, Stream!Pass

LEMMA TakeIsTake ==
  ASSUME Inv, TakeFrame
  PROVE  Stream!Take
<1> DEFINE payload == Payload(remaining, is_first)
<1>1. /\ payload \in Seq(Byte)
      /\ buf' = CopyTo(buf, payload, write_offset)
      /\ write_offset' = write_offset + Len(payload)
      /\ write_offset' <= Len(buf)
  BY TakeFrameEffect DEF Inv, TypeOK
<1>2. buf \in Seq(Byte) /\ write_offset \in Nat
  BY DEF Inv, TypeOK
<1>3. Subspan(buf, 0, write_offset)' = Subspan(buf, 0, write_offset) \o payload
  <2> HIDE DEF payload
  <2> QED
    BY <1>1, <1>2, CopyToFront
<1>4. remaining # << >> /\ FrameOk(remaining, skip_crc_check)
  BY RemainingType DEF TakeFrame, FrameOk, Inv
<1> QED
  BY <1>3, <1>4, SameRest DEF TakeFrame, LoopTest, Stream!Take

LEMMA RejectIsRejectOrFinish ==
  ASSUME Inv, Reject
  PROVE  Stream!Reject \/ Stream!Finish
<1>1. CASE remaining # << >>
  BY <1>1, SameRest DEF Reject, Stream!Reject, Stream!Deliver
<1>2. CASE remaining = << >>
  <2>1. write_offset = 0
    BY <1>2, RemainingType
    DEF Inv, TypeOK, InPlaceSafe, LoopControl, Reject
  <2>2. Subspan(buf, 0, write_offset) = << >>
    BY <2>1 DEF Inv, TypeOK, Subspan
  <2> QED
    BY <1>2, <2>2, SameRest DEF Reject, Stream!Finish, Stream!Deliver
<1> QED
  BY <1>1, <1>2

LEMMA ReturnIsFinish ==
  ASSUME Inv, Return
  PROVE  Stream!Finish
<1>1. remaining = << >>
  BY RemainingType DEF Inv, LoopControl, Return, TypeOK
<1> QED
  BY <1>1, SameRest DEF Return, Stream!Finish, Stream!Deliver

(* A call of the decoder does what a decoder with an output buffer of its  *)
(* own would do, for every telegram: the same payloads in the same order,  *)
(* and all of them or nothing.                                             *)
THEOREM HdlcRefinesStream == Spec => RefinesStream
<1>1. Init => Stream!Init
  BY DEF Init, Stream!Init, Subspan
<1>2. Inv /\ [Next]_vars => [Stream!Next]_Stream!vars
  <2> SUFFICES ASSUME Inv, [Next]_vars PROVE [Stream!Next]_Stream!vars
    OBVIOUS
  <2>1. CASE SkipShortFrame
    BY <2>1, SkipIsPass DEF Stream!Next
  <2>2. CASE TakeFrame
    BY <2>2, TakeIsTake DEF Stream!Next
  <2>3. CASE Reject
    BY <2>3, RejectIsRejectOrFinish DEF Stream!Next
  <2>4. CASE Return
    BY <2>4, ReturnIsFinish DEF Stream!Next
  <2>5. ASSUME NEW t \in Seq(Byte), NEW skip \in BOOLEAN, Call(t, skip)
        PROVE  Stream!Next
    BY <2>5, CallIsStart DEF Stream!Next
  <2>6. CASE UNCHANGED vars
    BY <2>6 DEF vars, Stream!vars
  <2> QED
    BY <2>1, <2>2, <2>3, <2>4, <2>5, <2>6 DEF Next, Decode
<1> QED
  BY <1>1, <1>2, InvAlways, PTL DEF Spec, RefinesStream, Stream!Spec

-----------------------------------------------------------------------------
(* The checksum: what a meter appends passes the check, and one wrong byte *)
(* does not.                                                               *)

(* Facts of the exclusive or: of nibbles and their complements...          *)
LEMMA NibbleType ==
  ASSUME NEW a \in 0 .. 15, NEW b \in 0 .. 15
  PROVE  Xor4[a][b] \in 0 .. 15
  BY DEF Xor4, Bit

(* They are checked case by case.                                          *)
LEMMA NibbleFacts ==
  ASSUME NEW a \in 0 .. 15
  PROVE  /\ Xor4[a][15 - a] = 15
         /\ Xor4[0][a] = a /\ Xor4[a][0] = a
         /\ Xor4[Xor4[a][7]][15 - a] = 8
         /\ Xor4[Xor4[a][8]][15 - a] = 7
<1>1. Xor4[a][15 - a] = 15 /\ Xor4[0][a] = a /\ Xor4[a][0] = a
  <2>1. Xor4[a][15 - a] = 15
    BY DEF Xor4, Bit
  <2>2. Xor4[0][a] = a
    BY DEF Xor4, Bit
  <2>3. Xor4[a][0] = a
    BY DEF Xor4, Bit
  <2> QED
    BY <2>1, <2>2, <2>3
<1>2. /\ Xor4[a][7] = IF a < 8 THEN 7 - a ELSE 23 - a
      /\ Xor4[a][8] = IF a < 8 THEN a + 8 ELSE a - 8
  <2>1. Xor4[a][7] = IF a < 8 THEN 7 - a ELSE 23 - a
    BY DEF Xor4, Bit
  <2>2. Xor4[a][8] = IF a < 8 THEN a + 8 ELSE a - 8
    BY DEF Xor4, Bit
  <2> QED
    BY <2>1, <2>2
<1>3. CASE a < 8
  <2>1. Xor4[7 - a][15 - a] = 8
    BY <1>3 DEF Xor4, Bit
  <2>2. Xor4[a + 8][15 - a] = 7
    BY <1>3 DEF Xor4, Bit
  <2> QED
    BY <1>1, <1>2, <1>3, <2>1, <2>2
<1>4. CASE ~ (a < 8)
  <2>1. Xor4[23 - a][15 - a] = 8
    BY <1>4 DEF Xor4, Bit
  <2>2. Xor4[a - 8][15 - a] = 7
    BY <1>4 DEF Xor4, Bit
  <2> QED
    BY <1>1, <1>2, <1>4, <2>1, <2>2
<1> QED
  BY <1>3, <1>4

(* ... of bytes ...                                                        *)
LEMMA ByteIs ==
  /\ \A b \in Byte : b \in Nat /\ b <= 255
  /\ \A b \in Nat : b <= 255 => b \in Byte
  BY DEF Byte

(* A byte is its two nibbles.                                              *)
LEMMA ByteHalves ==
  ASSUME NEW b \in Byte
  PROVE  /\ b \div 16 \in 0 .. 15 /\ b % 16 \in 0 .. 15
         /\ b = 16 * (b \div 16) + (b % 16)
         /\ (255 - b) \div 16 = 15 - (b \div 16)
         /\ (255 - b) % 16 = 15 - (b % 16)
         /\ 255 - b \in Byte
<1>1. b \in Nat /\ b <= 255
  BY ByteIs
<1>2. b \div 16 \in 0 .. 15 /\ b % 16 \in 0 .. 15
  BY <1>1
<1>3. b = 16 * (b \div 16) + (b % 16)
  BY <1>1
<1>4. (255 - b) \div 16 = 15 - (b \div 16)
  BY <1>1
<1>5. (255 - b) % 16 = 15 - (b % 16)
  BY <1>1
<1>6. 255 - b \in Byte
  BY <1>1, ByteIs
<1> QED
  BY <1>2, <1>3, <1>4, <1>5, <1>6

LEMMA Xor8Type ==
  ASSUME NEW a \in Byte, NEW b \in Byte
  PROVE  Xor8(a, b) \in Byte
<1>1. /\ Xor4[a \div 16][b \div 16] \in 0 .. 15
      /\ Xor4[a % 16][b % 16] \in 0 .. 15
  BY ByteHalves, NibbleType
<1>2. \A x, y \in 0 .. 15 : 16 * x + y \in Nat /\ 16 * x + y <= 255
  OBVIOUS
<1>3. Xor8(a, b) \in Nat /\ Xor8(a, b) <= 255
  BY <1>1, <1>2 DEF Xor8
<1> QED
  BY <1>3, ByteIs

(* The halves of an exclusive or.                                          *)
LEMMA Xor8Halves ==
  ASSUME NEW a \in Byte, NEW b \in Byte
  PROVE  /\ Xor8(a, b) \div 16 = Xor4[a \div 16][b \div 16]
         /\ Xor8(a, b) % 16 = Xor4[a % 16][b % 16]
<1>1. /\ Xor4[a \div 16][b \div 16] \in 0 .. 15
      /\ Xor4[a % 16][b % 16] \in 0 .. 15
  BY ByteHalves, NibbleType
<1>2. \A x, y \in 0 .. 15 : (16 * x + y) \div 16 = x /\ (16 * x + y) % 16 = y
  OBVIOUS
<1> QED
  BY <1>1, <1>2 DEF Xor8

LEMMA Xor8Facts ==
  ASSUME NEW b \in Byte
  PROVE  /\ Xor8(b, 255 - b) = 255
         /\ Xor8(0, b) = b
         /\ Xor8(Xor8(b, 120), 255 - b) = 135
<1> DEFINE h == b \div 16
           l == b % 16
<1>1. /\ h \in 0 .. 15 /\ l \in 0 .. 15 /\ b = 16 * h + l
      /\ (255 - b) \div 16 = 15 - h /\ (255 - b) % 16 = 15 - l
      /\ 255 - b \in Byte
  <2> USE ByteHalves
  <2>1. h \in 0 .. 15 /\ l \in 0 .. 15
    OBVIOUS
  <2>2. b = 16 * h + l /\ 255 - b \in Byte
    OBVIOUS
  <2>3. (255 - b) \div 16 = 15 - h /\ (255 - b) % 16 = 15 - l
    OBVIOUS
  <2> QED
    BY <2>1, <2>2, <2>3
<1> HIDE DEF h, l
<1>2. Xor8(b, 255 - b) = 255
  <2>1. Xor4[h][15 - h] = 15 /\ Xor4[l][15 - l] = 15
    BY <1>1, NibbleFacts
  <2>2. Xor8(b, 255 - b) = 16 * Xor4[h][15 - h] + Xor4[l][15 - l]
    BY <1>1 DEF Xor8, h, l
  <2> QED
    BY <2>1, <2>2
<1>3. Xor8(0, b) = b
  <2>1. Xor4[0][h] = h /\ Xor4[0][l] = l
    BY <1>1, NibbleFacts
  <2>2. 0 \div 16 = 0 /\ 0 % 16 = 0
    OBVIOUS
  <2>3. Xor8(0, b) = 16 * Xor4[0][h] + Xor4[0][l]
    BY <2>2 DEF Xor8, h, l
  <2> QED
    BY <1>1, <2>1, <2>3
<1>4. Xor8(Xor8(b, 120), 255 - b) = 135
  <2>1. 120 \in Byte /\ 120 \div 16 = 7 /\ 120 % 16 = 8
    BY ByteIs
  <2>2. /\ Xor8(b, 120) \div 16 = Xor4[h][7] /\ Xor8(b, 120) % 16 = Xor4[l][8]
    BY <2>1, Xor8Halves DEF h, l
  <2>3. Xor4[Xor4[h][7]][15 - h] = 8 /\ Xor4[Xor4[l][8]][15 - l] = 7
    BY <1>1, NibbleFacts
  <2>4. Xor8(Xor8(b, 120), 255 - b)
          = 16 * Xor4[Xor4[h][7]][15 - h] + Xor4[Xor4[l][8]][15 - l]
    BY <1>1, <2>2 DEF Xor8
  <2> QED
    BY <2>3, <2>4
<1> QED
  BY <1>2, <1>3, <1>4

(* ... and of words.                                                       *)
TopWord == 65535

(* A word is its two bytes.                                                *)
LEMMA WordIs ==
  /\ \A w \in Word16 : w \in Nat /\ w <= 65535
  /\ \A w \in Nat : w <= 65535 => w \in Word16
<1>1. Word16 = 0 .. TopWord
  BY SMT DEF Word16, TopWord
<1>2. TopWord \in Nat /\ \A x \in Nat : x <= 65535 <=> x <= TopWord
  BY DEF TopWord
<1> QED
  BY <1>1, <1>2

LEMMA WordHalves ==
  ASSUME NEW w \in Word16
  PROVE  /\ w \in Nat /\ w \div 256 \in Byte /\ w % 256 \in Byte
         /\ w = 256 * (w \div 256) + (w % 256)
<1>1. w \in Nat /\ w <= 65535
  BY WordIs
<1>2. w \div 256 \in Nat /\ w \div 256 <= 255
  BY <1>1
<1>3. w % 256 \in Nat /\ w % 256 <= 255
  BY <1>1
<1>4. w = 256 * (w \div 256) + (w % 256)
  BY <1>1
<1> QED
  BY <1>1, <1>2, <1>3, <1>4, ByteIs

LEMMA WordOf ==
  ASSUME NEW h \in Byte, NEW l \in Byte
  PROVE  /\ 256 * h + l \in Word16
         /\ (256 * h + l) \div 256 = h /\ (256 * h + l) % 256 = l
<1>1. h \in Nat /\ h <= 255 /\ l \in Nat /\ l <= 255
  BY ByteIs
<1>2. 256 * h + l \in Nat /\ 256 * h + l <= 65535
  BY <1>1
<1>3. (256 * h + l) \div 256 = h
  BY <1>1
<1>4. (256 * h + l) % 256 = l
  BY <1>1
<1> QED
  BY <1>2, <1>3, <1>4, WordIs

LEMMA Xor16Type ==
  ASSUME NEW v \in Word16, NEW w \in Word16
  PROVE  Xor16(v, w) \in Word16
  BY WordHalves, Xor8Type, WordOf DEF Xor16

(* The table holds words, and a turn of the loop makes a word.             *)
LEMMA TableEntries ==
  ASSUME NEW i \in 1 .. 256
  PROVE  CRC16_X25_TABLE[i] \in Word16
<1>1. CRC16_X25_TABLE[i] \in Nat /\ CRC16_X25_TABLE[i] <= 65535
  BY DEF CRC16_X25_TABLE
<1> QED
  BY <1>1, WordIs

LEMMA TableType ==
  ASSUME NEW b \in Byte
  PROVE  CRC16_X25_TABLE[b + 1] \in Word16
<1>1. PICK i \in 1 .. 256 : i = b + 1
  BY ByteIs
<1> QED
  BY <1>1, TableEntries

LEMMA StepType ==
  ASSUME NEW crc \in Word16, NEW b \in Byte
  PROVE  Crc16Step(crc, b) \in Word16
<1>1. crc \div 256 \in Byte /\ crc % 256 \in Byte
  BY WordHalves
<1>2. Xor8(crc % 256, b) \in Byte
  BY <1>1, Xor8Type
<1>3. CRC16_X25_TABLE[Xor8(crc % 256, b) + 1] \in Word16
  BY <1>2, TableType
<1>4. crc \div 256 \in Word16
  BY <1>1, ByteIs, WordIs
<1> QED
  BY <1>3, <1>4, Xor16Type DEF Crc16Step

(* The two check bytes of a register leave the good residue in it.         *)
LEMMA CheckBytesStep ==
  ASSUME NEW crc \in Word16
  PROVE  /\ (65535 - crc) % 256 \in Byte /\ (65535 - crc) \div 256 \in Byte
         /\ Crc16Step(Crc16Step(crc, (65535 - crc) % 256), (65535 - crc) \div 256) = 61624
<1> DEFINE h == crc \div 256
           l == crc % 256
           g == Xor8(h, 120)
           one == Crc16Step(crc, (65535 - crc) % 256)
<1>1. h \in Byte /\ l \in Byte /\ crc = 256 * h + l
  BY WordHalves
<1>2. (65535 - crc) % 256 = 255 - l /\ (65535 - crc) \div 256 = 255 - h
  <2> HIDE DEF h, l
  <2>1. h \in Nat /\ h <= 255 /\ l \in Nat /\ l <= 255
    BY <1>1, ByteIs
  <2>2. 65535 - crc = 256 * (255 - h) + (255 - l)
    BY <1>1, <2>1
  <2>3. 255 - h \in Byte /\ 255 - l \in Byte
    BY <1>1, ByteHalves
  <2> QED
    BY <2>2, <2>3, WordOf
<1> HIDE DEF h, l
<1>3. 255 - l \in Byte /\ 255 - h \in Byte
  BY <1>1, ByteHalves
<1>4. one = 256 * 15 + g /\ g \in Byte
  <2>1. Crc16Step(crc, 255 - l) = Xor16(h, CRC16_X25_TABLE[Xor8(l, 255 - l) + 1])
    BY DEF Crc16Step, h, l
  <2>2. Xor8(l, 255 - l) = 255
    BY <1>1, Xor8Facts
  <2>3. CRC16_X25_TABLE[256] = 3960
    BY DEF CRC16_X25_TABLE
  <2>4. h \div 256 = 0 /\ h % 256 = h /\ 3960 \div 256 = 15 /\ 3960 % 256 = 120
        /\ 255 + 1 = 256
    BY <1>1, ByteIs
  <2>5. Xor16(h, 3960) = 256 * Xor8(0, 15) + g
    BY <2>4 DEF Xor16
  <2>6. 15 \in Byte /\ 120 \in Byte
    BY ByteIs
  <2>7. Xor8(0, 15) = 15 /\ g \in Byte
    BY <1>1, <2>6, Xor8Facts, Xor8Type
  <2> QED
    BY <1>2, <2>1, <2>2, <2>3, <2>4, <2>5, <2>7
<1>5. Crc16Step(one, 255 - h) = 61624
  <2>1. one \div 256 = 15 /\ one % 256 = g
    <3>1. 15 \in Byte
      BY ByteIs
    <3> HIDE DEF one, g
    <3> QED
      BY <1>4, <3>1, WordOf
  <2>2. Crc16Step(one, 255 - h) = Xor16(15, CRC16_X25_TABLE[Xor8(g, 255 - h) + 1])
    <3> HIDE DEF one, g
    <3> QED
      BY <2>1 DEF Crc16Step
  <2>3. Xor8(g, 255 - h) = 135
    BY <1>1, Xor8Facts
  <2>4. CRC16_X25_TABLE[136] = 61623
    BY DEF CRC16_X25_TABLE
  <2>5. Xor16(15, 61623) = 256 * Xor8(0, 240) + Xor8(15, 183)
    <3>1. 15 \div 256 = 0 /\ 15 % 256 = 15 /\ 61623 \div 256 = 240 /\ 61623 % 256 = 183
      OBVIOUS
    <3> QED
      BY <3>1 DEF Xor16
  <2>6. Xor8(0, 240) = 240
    <3>1. 240 \in Byte
      BY ByteIs
    <3> QED
      BY <3>1, Xor8Facts
  <2>7. Xor8(15, 183) = 184
    <3>1. Xor4[0][11] = 11 /\ Xor4[15][7] = 8
      BY DEF Xor4, Bit
    <3>2. 15 \div 16 = 0 /\ 15 % 16 = 15 /\ 183 \div 16 = 11 /\ 183 % 16 = 7
      OBVIOUS
    <3> QED
      BY <3>1, <3>2 DEF Xor8
  <2>8. 135 + 1 = 136 /\ 256 * 240 + 184 = 61624
    OBVIOUS
  <2> QED
    BY <2>2, <2>3, <2>4, <2>5, <2>6, <2>7, <2>8
<1> QED
  BY <1>2, <1>3, <1>5

(* The register before the first byte, after it, and so on.                *)
Registers(f, data, n) ==
  f[0] = CRC16_INIT /\ \A i \in 1 .. n : f[i] = Crc16Step(f[i - 1], data[i])

(* The checksum is the register after the last byte.                       *)
LEMMA CrcUnfold ==
  ASSUME NEW x \in Seq(Byte), NEW n \in Nat, n = Len(x)
  PROVE  \E f \in [0 .. n -> Word16] : Crc16(x) = f[n] /\ Registers(f, x, n)
<1> DEFINE step == [crc \in Word16 |-> [byte \in Byte |-> Crc16Step(crc, byte)]]
           P(f) == f = [i \in 0 .. n |-> IF i = 0 THEN CRC16_INIT ELSE step[f[i - 1]][x[i]]]
           G == [i \in 1 .. n |-> [crc \in Word16 |-> step[crc][x[i]]]]
<1>1. /\ CRC16_INIT \in Word16 /\ \A i \in 1 .. n : x[i] \in Byte
  BY WordIs DEF CRC16_INIT
<1>2. ASSUME NEW crc \in Word16, NEW b \in Byte
      PROVE  step[crc][b] = Crc16Step(crc, b) /\ Crc16Step(crc, b) \in Word16
  BY StepType
<1> HIDE DEF step
<1>3. ASSUME NEW i \in 1 .. n, NEW crc \in Word16
      PROVE  G[i][crc] = Crc16Step(crc, x[i]) /\ G[i][crc] \in Word16
  <2>1. G[i][crc] = step[crc][x[i]]
    OBVIOUS
  <2> HIDE DEF G
  <2> QED
    BY <1>1, <1>2, <2>1
<1>4. G \in [0 + 1 .. n -> [Word16 -> Word16]]
  <2>1. \A i \in 0 + 1 .. n : [crc \in Word16 |-> step[crc][x[i]]] \in [Word16 -> Word16]
    <3> SUFFICES ASSUME NEW i \in 0 + 1 .. n, NEW crc \in Word16
                 PROVE  step[crc][x[i]] \in Word16
      OBVIOUS
    <3>1. i \in 1 .. n
      OBVIOUS
    <3> QED
      BY <1>1, <1>2, <3>1
  <2>2. 0 + 1 .. n = 1 .. n
    OBVIOUS
  <2> QED
    BY <2>1, <2>2
<1> HIDE DEF G
<1>5. PICK g \in [0 .. n -> Word16] : Iterates(g, 0, n, CRC16_INIT, G)
  <2>1. 0 \in Nat /\ 0 <= n
    OBVIOUS
  <2> QED
    BY <1>1, <1>4, <2>1, IterationExists, Zenon
<1>6. g[0] = CRC16_INIT
  BY <1>5 DEF Iterates
<1>7. ASSUME NEW i \in 1 .. n
      PROVE  /\ i \in 0 + 1 .. n /\ i - 1 \in 0 .. n /\ g[i - 1] \in Word16
             /\ g[i] = Crc16Step(g[i - 1], x[i]) /\ g[i] = step[g[i - 1]][x[i]]
  <2>1. i \in 0 + 1 .. n /\ i - 1 \in 0 .. n /\ g[i - 1] \in Word16
    OBVIOUS
  <2>2. g[i] = G[i][g[i - 1]]
    BY <1>5, <2>1 DEF Iterates
  <2> QED
    BY <1>1, <1>2, <1>3, <2>1, <2>2
<1>8. P(g)
  <2>1. ASSUME NEW i \in 0 .. n
        PROVE  g[i] = IF i = 0 THEN CRC16_INIT ELSE step[g[i - 1]][x[i]]
    <3>1. CASE i = 0
      BY <1>6, <3>1
    <3>2. CASE i # 0
      <4>1. i \in 1 .. n
        BY <3>2
      <4> QED
        BY <1>7, <3>2, <4>1
    <3> QED
      BY <3>1, <3>2
  <2> QED
    BY <2>1
<1> DEFINE h == CHOOSE f : P(f)
<1>9. P(h)
  <2> HIDE DEF P
  <2> QED
    BY <1>8
<1>10. Crc16(x) = h[n]
  BY Zenon DEF Crc16, step
<1> HIDE DEF h
<1>11. h[n] = g[n]
  <2> DEFINE T == {i \in 0 .. n : h[i] = g[i]}
  <2>1. 0 \in T
    <3>1. h[0] = CRC16_INIT
      BY <1>9
    <3> QED
      BY <1>6, <3>1
  <2>2. ASSUME NEW i \in 0 + 1 .. n, i - 1 \in T PROVE i \in T
    <3>1. i \in 1 .. n /\ i \in 0 .. n /\ i # 0
      OBVIOUS
    <3>2. h[i] = step[h[i - 1]][x[i]]
      BY <1>9, <3>1
    <3> HIDE DEF P
    <3> QED
      BY <1>7, <2>2, <3>1, <3>2
  <2>3. 0 .. n \subseteq T
    <3> HIDE DEF T
    <3>1. 0 \in Nat
      OBVIOUS
    <3> QED
      BY <2>1, <2>2, <3>1, IntervalInduction
  <2>4. n \in 0 .. n
    OBVIOUS
  <2> QED
    BY <2>3, <2>4
<1>12. Registers(g, x, n)
  BY <1>6, <1>7 DEF Registers
<1> QED
  BY <1>10, <1>11, <1>12

LEMMA CrcType ==
  ASSUME NEW x \in Seq(Byte)
  PROVE  Crc16(x) \in Word16
<1>1. Len(x) \in Nat /\ Len(x) \in 0 .. Len(x)
  OBVIOUS
<1>2. PICK f \in [0 .. Len(x) -> Word16] : Crc16(x) = f[Len(x)]
  BY <1>1, CrcUnfold
<1> QED
  BY <1>1, <1>2

(* The register after one byte more.                                       *)
LEMMA CrcAppend ==
  ASSUME NEW x \in Seq(Byte), NEW b \in Byte
  PROVE  Crc16(Append(x, b)) = Crc16Step(Crc16(x), b)
<1> DEFINE n == Len(x)
           y == Append(x, b)
<1>1. /\ n \in Nat /\ n + 1 \in Nat /\ y \in Seq(Byte) /\ Len(y) = n + 1
      /\ (\A i \in 1 .. n : y[i] = x[i]) /\ y[n + 1] = b
  OBVIOUS
<1> HIDE DEF n, y
<1>2. PICK f \in [0 .. n -> Word16] : Crc16(x) = f[n] /\ Registers(f, x, n)
  BY <1>1, CrcUnfold DEF n
<1>3. PICK g \in [0 .. n + 1 -> Word16] :
        Crc16(y) = g[n + 1] /\ Registers(g, y, n + 1)
  BY <1>1, CrcUnfold
<1>4. f[n] = g[n]
  <2> DEFINE T == {i \in 0 .. n : f[i] = g[i]}
  <2>1. 0 \in T
    BY <1>1, <1>2, <1>3 DEF Registers
  <2>2. ASSUME NEW i \in 0 + 1 .. n, i - 1 \in T PROVE i \in T
    <3>1. i \in 1 .. n /\ i \in 0 .. n /\ i \in 1 .. n + 1
      BY <1>1
    <3> QED
      BY <1>1, <1>2, <1>3, <2>2, <3>1 DEF Registers
  <2>3. 0 .. n \subseteq T
    <3> HIDE DEF T
    <3>1. 0 \in Nat
      OBVIOUS
    <3> QED
      BY <1>1, <2>1, <2>2, <3>1, IntervalInduction
  <2>4. n \in 0 .. n
    BY <1>1
  <2> QED
    BY <2>3, <2>4
<1>5. n + 1 \in 1 .. n + 1 /\ n + 1 - 1 = n
  BY <1>1
<1>6. g[n + 1] = Crc16Step(g[n], b)
  BY <1>1, <1>3, <1>5 DEF Registers
<1> QED
  BY <1>2, <1>3, <1>4, <1>6 DEF y

LEMMA CrcTwoMore ==
  ASSUME NEW x \in Seq(Byte), NEW lo \in Byte, NEW hi \in Byte
  PROVE  Crc16(x \o <<lo, hi>>) = Crc16Step(Crc16Step(Crc16(x), lo), hi)
<1>1. x \o <<lo, hi>> = Append(Append(x, lo), hi) /\ Append(x, lo) \in Seq(Byte)
  OBVIOUS
<1>2. Crc16(Append(x, lo)) = Crc16Step(Crc16(x), lo)
  BY CrcAppend
<1>3. Crc16(Append(Append(x, lo), hi)) = Crc16Step(Crc16(Append(x, lo)), hi)
  BY <1>1, CrcAppend
<1> QED
  BY <1>1, <1>2, <1>3, Zenon

(* Bytes with their two check bytes pass the check.                        *)
LEMMA FcsPasses ==
  ASSUME NEW x \in Seq(Byte)
  PROVE  /\ Fcs(x) \in Seq(Byte) /\ Len(Fcs(x)) = 2
         /\ crc16_x25_check(x \o Fcs(x))
<1> DEFINE lo == (65535 - Crc16(x)) % 256
           hi == (65535 - Crc16(x)) \div 256
<1>1. Crc16(x) \in Word16
  BY CrcType
<1>2. lo \in Byte /\ hi \in Byte /\ Crc16Step(Crc16Step(Crc16(x), lo), hi) = 61624
  BY <1>1, CheckBytesStep
<1>3. Fcs(x) = <<lo, hi>>
  BY SMT DEF Fcs
<1> HIDE DEF lo, hi
<1>4. <<lo, hi>> \in Seq(Byte) /\ Len(<<lo, hi>>) = 2
  BY <1>2
<1>5. Crc16(x \o <<lo, hi>>) = Crc16Step(Crc16Step(Crc16(x), lo), hi)
  BY <1>2, CrcTwoMore
<1>6. crc16_x25_check(x \o <<lo, hi>>)
  BY <1>2, <1>5, SMT DEF crc16_x25_check
<1> QED
  BY <1>3, <1>4, <1>6

(* The entry of the table that has a given high byte: each byte is the     *)
(* high byte of one entry.                                                 *)
EntryOf == <<
    0,  17,  34,  51,  68,  85, 102, 119, 136, 153, 170, 187, 204, 221, 238, 255,
   16,   1,  50,  35,  84,  69, 118, 103, 152, 137, 186, 171, 220, 205, 254, 239,
   49,  32,  19,   2, 117, 100,  87,  70, 185, 168, 155, 138, 253, 236, 223, 206,
   33,  48,   3,  18, 101, 116,  71,  86, 169, 184, 139, 154, 237, 252, 207, 222,
   98, 115,  64,  81,  38,  55,   4,  21, 234, 251, 200, 217, 174, 191, 140, 157,
  114,  99,  80,  65,  54,  39,  20,   5, 250, 235, 216, 201, 190, 175, 156, 141,
   83,  66, 113,  96,  23,   6,  53,  36, 219, 202, 249, 232, 159, 142, 189, 172,
   67,  82,  97, 112,   7,  22,  37,  52, 203, 218, 233, 248, 143, 158, 173, 188,
  196, 213, 230, 247, 128, 145, 162, 179,  76,  93, 110, 127,   8,  25,  42,  59,
  212, 197, 246, 231, 144, 129, 178, 163,  92,  77, 126, 111,  24,   9,  58,  43,
  245, 228, 215, 198, 177, 160, 147, 130, 125, 108,  95,  78,  57,  40,  27,  10,
  229, 244, 199, 214, 161, 176, 131, 146, 109, 124,  79,  94,  41,  56,  11,  26,
  166, 183, 132, 149, 226, 243, 192, 209,  46,  63,  12,  29, 106, 123,  72,  89,
  182, 167, 148, 133, 242, 227, 208, 193,  62,  47,  28,  13, 122, 107,  88,  73,
  151, 134, 181, 164, 211, 194, 241, 224,  31,  14,  61,  44,  91,  74, 121, 104,
  135, 150, 165, 180, 195, 210, 225, 240,  15,  30,  45,  60,  75,  90, 105, 120 >>

LEMMA EntryOfHighByte ==
  ASSUME NEW i \in 1 .. 256
  PROVE  EntryOf[(CRC16_X25_TABLE[i] \div 256) + 1] = i - 1
  BY SMTT(60) DEF EntryOf, CRC16_X25_TABLE

LEMMA HighByteEntry ==
  ASSUME NEW b \in Byte
  PROVE  EntryOf[(CRC16_X25_TABLE[b + 1] \div 256) + 1] = b
<1>1. PICK i \in 1 .. 256 : i = b + 1
  BY ByteIs
<1>2. i - 1 = b
  BY <1>1, ByteIs
<1> QED
  BY <1>1, <1>2, EntryOfHighByte

(* Xor with a nibble, a byte or a word loses nothing.                      *)
LEMMA NibbleBits ==
  ASSUME NEW a \in 0 .. 15, NEW c \in 0 .. 15
  PROVE  /\ Bit(Xor4[a][c], 1) = (Bit(a, 1) + Bit(c, 1)) % 2
         /\ Bit(Xor4[a][c], 2) = (Bit(a, 2) + Bit(c, 2)) % 2
         /\ Bit(Xor4[a][c], 4) = (Bit(a, 4) + Bit(c, 4)) % 2
         /\ Bit(Xor4[a][c], 8) = (Bit(a, 8) + Bit(c, 8)) % 2
<1>1. PICK p, q, r, s \in 0 .. 1 :
        /\ p = (Bit(a, 1) + Bit(c, 1)) % 2 /\ q = (Bit(a, 2) + Bit(c, 2)) % 2
        /\ r = (Bit(a, 4) + Bit(c, 4)) % 2 /\ s = (Bit(a, 8) + Bit(c, 8)) % 2
  BY DEF Bit
<1>2. Xor4[a][c] = p + 2 * q + 4 * r + 8 * s
  BY <1>1 DEF Xor4
<1>3. \A w, x, y, z \in 0 .. 1 :
        LET n == w + 2 * x + 4 * y + 8 * z
        IN  Bit(n, 1) = w /\ Bit(n, 2) = x /\ Bit(n, 4) = y /\ Bit(n, 8) = z
  BY DEF Bit
<1>4. /\ Bit(Xor4[a][c], 1) = p /\ Bit(Xor4[a][c], 2) = q
      /\ Bit(Xor4[a][c], 4) = r /\ Bit(Xor4[a][c], 8) = s
  BY <1>2, <1>3
<1> QED
  BY <1>1, <1>4

(* A nibble is its four bits, and an exclusive or adds them.               *)
LEMMA BitsDetermine ==
  ASSUME NEW a \in 0 .. 15, NEW b \in 0 .. 15,
         Bit(a, 1) = Bit(b, 1), Bit(a, 2) = Bit(b, 2),
         Bit(a, 4) = Bit(b, 4), Bit(a, 8) = Bit(b, 8)
  PROVE  a = b
  BY SMTT(60) DEF Bit

NibbleSum(a, c) ==
  1 * ((Bit(a, 1) + Bit(c, 1)) % 2) + 2 * ((Bit(a, 2) + Bit(c, 2)) % 2)
  + 4 * ((Bit(a, 4) + Bit(c, 4)) % 2) + 8 * ((Bit(a, 8) + Bit(c, 8)) % 2)

LEMMA NibbleIsSum ==
  ASSUME NEW a \in 0 .. 15, NEW c \in 0 .. 15
  PROVE  Xor4[a][c] = NibbleSum(a, c)
<1> DEFINE F == [x \in 0 .. 15 |-> [y \in 0 .. 15 |-> NibbleSum(x, y)]]
<1>1. Xor4 = F
  BY Zenon DEF Xor4, NibbleSum
<1> QED
  BY <1>1

LEMMA NibbleCommutes ==
  ASSUME NEW a \in 0 .. 15, NEW c \in 0 .. 15
  PROVE  Xor4[a][c] = Xor4[c][a]
<1>1. \A p, q \in 0 .. 1 : (p + q) % 2 = (q + p) % 2
  OBVIOUS
<1>2. \A x \in 0 .. 15 : /\ Bit(x, 1) \in 0 .. 1 /\ Bit(x, 2) \in 0 .. 1
                         /\ Bit(x, 4) \in 0 .. 1 /\ Bit(x, 8) \in 0 .. 1
  BY DEF Bit
<1>3. /\ (Bit(a, 1) + Bit(c, 1)) % 2 = (Bit(c, 1) + Bit(a, 1)) % 2
      /\ (Bit(a, 2) + Bit(c, 2)) % 2 = (Bit(c, 2) + Bit(a, 2)) % 2
      /\ (Bit(a, 4) + Bit(c, 4)) % 2 = (Bit(c, 4) + Bit(a, 4)) % 2
      /\ (Bit(a, 8) + Bit(c, 8)) % 2 = (Bit(c, 8) + Bit(a, 8)) % 2
  BY <1>1, <1>2, Zenon
<1>4. NibbleSum(a, c) = NibbleSum(c, a)
  BY <1>3 DEF NibbleSum
<1> QED
  BY <1>4, NibbleIsSum

LEMMA BitCancels ==
  ASSUME NEW a \in 0 .. 15, NEW b \in 0 .. 15, NEW c \in 0 .. 15,
         NEW mask \in {1, 2, 4, 8},
         (Bit(a, mask) + Bit(c, mask)) % 2 = (Bit(b, mask) + Bit(c, mask)) % 2
  PROVE  Bit(a, mask) = Bit(b, mask)
<1>1. \A x \in 0 .. 15 : Bit(x, mask) \in 0 .. 1
  BY DEF Bit
<1>2. \A x, y, z \in 0 .. 1 : (x + z) % 2 = (y + z) % 2 => x = y
  OBVIOUS
<1>3. Bit(a, mask) \in 0 .. 1 /\ Bit(b, mask) \in 0 .. 1 /\ Bit(c, mask) \in 0 .. 1
  BY <1>1, Zenon
<1> QED
  BY <1>2, <1>3, Zenon

LEMMA NibbleInjective ==
  ASSUME NEW a \in 0 .. 15, NEW b \in 0 .. 15, NEW c \in 0 .. 15,
         Xor4[a][c] = Xor4[b][c]
  PROVE  a = b
<1>1. /\ Bit(Xor4[a][c], 1) = (Bit(a, 1) + Bit(c, 1)) % 2
      /\ Bit(Xor4[a][c], 2) = (Bit(a, 2) + Bit(c, 2)) % 2
      /\ Bit(Xor4[a][c], 4) = (Bit(a, 4) + Bit(c, 4)) % 2
      /\ Bit(Xor4[a][c], 8) = (Bit(a, 8) + Bit(c, 8)) % 2
  BY NibbleBits, Zenon
<1>2. /\ Bit(Xor4[b][c], 1) = (Bit(b, 1) + Bit(c, 1)) % 2
      /\ Bit(Xor4[b][c], 2) = (Bit(b, 2) + Bit(c, 2)) % 2
      /\ Bit(Xor4[b][c], 4) = (Bit(b, 4) + Bit(c, 4)) % 2
      /\ Bit(Xor4[b][c], 8) = (Bit(b, 8) + Bit(c, 8)) % 2
  BY NibbleBits, Zenon
<1>3. /\ (Bit(a, 1) + Bit(c, 1)) % 2 = (Bit(b, 1) + Bit(c, 1)) % 2
      /\ (Bit(a, 2) + Bit(c, 2)) % 2 = (Bit(b, 2) + Bit(c, 2)) % 2
      /\ (Bit(a, 4) + Bit(c, 4)) % 2 = (Bit(b, 4) + Bit(c, 4)) % 2
      /\ (Bit(a, 8) + Bit(c, 8)) % 2 = (Bit(b, 8) + Bit(c, 8)) % 2
  BY <1>1, <1>2, Zenon
<1>4. /\ Bit(a, 1) = Bit(b, 1) /\ Bit(a, 2) = Bit(b, 2)
      /\ Bit(a, 4) = Bit(b, 4) /\ Bit(a, 8) = Bit(b, 8)
  <2>1. 1 \in {1, 2, 4, 8} /\ 2 \in {1, 2, 4, 8} /\ 4 \in {1, 2, 4, 8} /\ 8 \in {1, 2, 4, 8}
    OBVIOUS
  <2> QED
    BY <1>3, <2>1, BitCancels, Zenon
<1> QED
  BY <1>4, BitsDetermine, Zenon

LEMMA Xor8Injective ==
  ASSUME NEW a \in Byte, NEW b \in Byte, NEW c \in Byte,
         Xor8(a, c) = Xor8(b, c) \/ Xor8(c, a) = Xor8(c, b)
  PROVE  a = b
<1>1. /\ a \div 16 \in 0 .. 15 /\ a % 16 \in 0 .. 15
      /\ b \div 16 \in 0 .. 15 /\ b % 16 \in 0 .. 15
      /\ c \div 16 \in 0 .. 15 /\ c % 16 \in 0 .. 15
  BY ByteHalves
<1>2. /\ Xor4[a \div 16][c \div 16] = Xor4[b \div 16][c \div 16]
      /\ Xor4[a % 16][c % 16] = Xor4[b % 16][c % 16]
  <2>1. CASE Xor8(a, c) = Xor8(b, c)
    BY <2>1, Xor8Halves
  <2>2. CASE Xor8(c, a) = Xor8(c, b)
    <3>1. /\ Xor4[c \div 16][a \div 16] = Xor4[c \div 16][b \div 16]
          /\ Xor4[c % 16][a % 16] = Xor4[c % 16][b % 16]
      BY <2>2, Xor8Halves
    <3> QED
      BY <1>1, <3>1, NibbleCommutes, Zenon
  <2> QED
    BY <2>1, <2>2
<1>3. a \div 16 = b \div 16 /\ a % 16 = b % 16
  BY <1>1, <1>2, NibbleInjective, Zenon
<1>4. a = 16 * (a \div 16) + (a % 16) /\ b = 16 * (b \div 16) + (b % 16)
  BY ByteHalves
<1> QED
  BY <1>3, <1>4

(* The two bytes of a word.                                                *)
LEMMA WordParts ==
  ASSUME NEW h \in Byte, NEW l \in Byte, NEW k \in Byte, NEW m \in Byte,
         256 * h + l = 256 * k + m
  PROVE  h = k /\ l = m
<1>1. /\ (256 * h + l) \div 256 = h /\ (256 * h + l) % 256 = l
      /\ (256 * k + m) \div 256 = k /\ (256 * k + m) % 256 = m
  BY WordOf
<1> QED
  BY <1>1

(* A turn of the loop loses nothing either: from the register after it and *)
(* the byte, or the register before it, the other is known.                *)
LEMMA StepInjective ==
  ASSUME NEW c \in Word16, NEW d \in Word16, NEW a \in Byte, NEW b \in Byte,
         Crc16Step(c, a) = Crc16Step(d, b)
  PROVE  /\ a = b => c = d
         /\ c = d => a = b
<1> DEFINE i == Xor8(c % 256, a)
           j == Xor8(d % 256, b)
           s == CRC16_X25_TABLE[i + 1]
           t == CRC16_X25_TABLE[j + 1]
           h == c \div 256
           k == d \div 256
<1>1. /\ c % 256 \in Byte /\ d % 256 \in Byte /\ h \in Byte /\ k \in Byte
      /\ c = 256 * h + (c % 256) /\ d = 256 * k + (d % 256)
  BY WordHalves
<1>2. i \in Byte /\ j \in Byte
  BY <1>1, Xor8Type
<1>3. s \in Word16 /\ t \in Word16
  BY <1>2, TableType
<1>4. /\ s \div 256 \in Byte /\ s % 256 \in Byte
      /\ t \div 256 \in Byte /\ t % 256 \in Byte
  BY <1>3, WordHalves
<1>5. Xor16(h, s) = Xor16(k, t)
  BY DEF Crc16Step
<1>6. EntryOf[(s \div 256) + 1] = i /\ EntryOf[(t \div 256) + 1] = j
  BY <1>2, HighByteEntry
<1> HIDE DEF i, j, s, t, h, k
<1>7. /\ Xor16(h, s) = 256 * (s \div 256) + Xor8(h, s % 256)
      /\ Xor16(k, t) = 256 * (t \div 256) + Xor8(k, t % 256)
  <2>1. /\ h \div 256 = 0 /\ h % 256 = h /\ k \div 256 = 0 /\ k % 256 = k
    BY <1>1, ByteIs
  <2>2. /\ Xor8(0, s \div 256) = s \div 256 /\ Xor8(0, t \div 256) = t \div 256
    BY <1>4, Xor8Facts
  <2> QED
    BY <2>1, <2>2 DEF Xor16
<1>8. /\ s \div 256 = t \div 256 /\ Xor8(h, s % 256) = Xor8(k, t % 256)
  <2>1. Xor8(h, s % 256) \in Byte /\ Xor8(k, t % 256) \in Byte
    BY <1>1, <1>4, Xor8Type
  <2>2. 256 * (s \div 256) + Xor8(h, s % 256) = 256 * (t \div 256) + Xor8(k, t % 256)
    BY <1>5, <1>7
  <2> QED
    BY <1>4, <2>1, <2>2, WordParts
<1>9. i = j
  BY <1>6, <1>8
<1>10. h = k
  <2>1. s = t
    BY <1>9 DEF s, t
  <2> QED
    BY <1>1, <1>4, <1>8, <2>1, Xor8Injective
<1>11. ASSUME a = b PROVE c = d
  <2>1. c % 256 = d % 256
    BY <1>1, <1>9, <1>11, Xor8Injective DEF i, j
  <2> QED
    BY <1>1, <1>10, <2>1
<1>12. ASSUME c = d PROVE a = b
  BY <1>1, <1>9, <1>12, Xor8Injective DEF i, j
<1> QED
  BY <1>11, <1>12

(* One byte changed changes the register from there on.                    *)
LEMMA CrcDetects ==
  ASSUME NEW x \in Seq(Byte), NEW y \in Seq(Byte), Len(x) = Len(y),
         NEW k \in 1 .. Len(x), x[k] # y[k],
         \A i \in 1 .. Len(x) : i # k => x[i] = y[i]
  PROVE  Crc16(x) # Crc16(y)
<1> DEFINE n == Len(x)
<1>1. n \in Nat /\ n = Len(x) /\ n = Len(y) /\ k \in 1 .. n
  OBVIOUS
<1>2. /\ \A i \in 1 .. n : x[i] \in Byte /\ y[i] \in Byte
      /\ \A i \in 1 .. n : i # k => x[i] = y[i]
  OBVIOUS
<1> HIDE DEF n
<1>3. PICK f \in [0 .. n -> Word16] : Crc16(x) = f[n] /\ Registers(f, x, n)
  BY <1>1, CrcUnfold
<1>4. PICK g \in [0 .. n -> Word16] : Crc16(y) = g[n] /\ Registers(g, y, n)
  BY <1>1, CrcUnfold
<1>5. ASSUME NEW i \in 1 .. n
      PROVE  /\ f[i] = Crc16Step(f[i - 1], x[i]) /\ g[i] = Crc16Step(g[i - 1], y[i])
             /\ f[i - 1] \in Word16 /\ g[i - 1] \in Word16
             /\ x[i] \in Byte /\ y[i] \in Byte
  <2>1. i - 1 \in 0 .. n
    BY <1>1
  <2> QED
    BY <1>2, <1>3, <1>4, <2>1 DEF Registers
<1>6. f[k - 1] = g[k - 1]
  <2> DEFINE T == {i \in 0 .. k - 1 : f[i] = g[i]}
  <2>1. 0 \in T
    BY <1>1, <1>3, <1>4 DEF Registers
  <2>2. ASSUME NEW i \in 0 + 1 .. k - 1, i - 1 \in T PROVE i \in T
    <3>1. i \in 1 .. n /\ i # k /\ i \in 0 .. k - 1
      BY <1>1
    <3>2. f[i - 1] = g[i - 1] /\ x[i] = y[i]
      BY <1>2, <2>2, <3>1
    <3>3. f[i] = g[i]
      BY <1>5, <3>1, <3>2
    <3> QED
      BY <3>1, <3>3
  <2>3. k - 1 \in Nat /\ 0 \in Nat /\ k - 1 \in 0 .. k - 1
    BY <1>1
  <2>4. 0 .. k - 1 \subseteq T
    <3> HIDE DEF T
    <3> QED
      BY <2>1, <2>2, <2>3, IntervalInduction
  <2> QED
    BY <2>3, <2>4
<1>7. f[k] # g[k]
  <2>1. x[k] # y[k]
    OBVIOUS
  <2> QED
    BY <1>1, <1>5, <1>6, <2>1, StepInjective
<1>8. f[n] # g[n]
  <2> DEFINE T == {i \in k .. n : f[i] # g[i]}
  <2>1. k \in T
    BY <1>1, <1>7
  <2>2. ASSUME NEW i \in k + 1 .. n, i - 1 \in T PROVE i \in T
    <3>1. i \in 1 .. n /\ i # k /\ i \in k .. n
      BY <1>1
    <3>2. f[i - 1] # g[i - 1] /\ x[i] = y[i]
      BY <1>2, <2>2, <3>1
    <3>3. f[i] # g[i]
      BY <1>5, <3>1, <3>2, StepInjective
    <3> QED
      BY <3>1, <3>3
  <2>3. k \in Nat /\ n \in k .. n
    BY <1>1
  <2>4. k .. n \subseteq T
    <3> HIDE DEF T
    <3> QED
      BY <1>1, <2>1, <2>2, <2>3, IntervalInduction
  <2> QED
    BY <2>3, <2>4
<1> QED
  BY <1>3, <1>4, <1>8

-----------------------------------------------------------------------------

(* An address ends where its first byte with the low bit set is, and there *)
(* only; a cut address has no length.                                      *)
LEMMA AddressLengthIs ==
  ASSUME NEW p \in Seq(Byte), NEW a \in Seq(Byte), NEW k \in 1 .. 4,
         LastAddressByte(a, k),
         \A i \in 1 .. Len(p) : i <= Len(a) => p[i] = a[i]
  PROVE  /\ address_length[p] \in {0, k}
         /\ k <= Len(p) => address_length[p] = k
<1>1. /\ k <= Len(a) /\ a[k] % 2 = 1 /\ \A j \in 1 .. k - 1 : a[j] % 2 = 0
  BY DEF LastAddressByte
<1>2. ASSUME NEW i \in 1 .. 4, LastAddressByte(p, i) PROVE i = k
  <2>1. /\ i <= Len(p) /\ p[i] % 2 = 1 /\ \A j \in 1 .. i - 1 : p[j] % 2 = 0
    BY <1>2 DEF LastAddressByte
  <2>2. CASE i < k
    <3>1. i \in 1 .. Len(p) /\ i <= Len(a) /\ i \in 1 .. k - 1
      BY <1>1, <2>1, <2>2
    <3>2. p[i] = a[i] /\ a[i] % 2 = 0
      BY <1>1, <3>1
    <3> QED
      BY <2>1, <3>2
  <2>3. CASE k < i
    <3>1. k \in 1 .. Len(p) /\ k <= Len(a) /\ k \in 1 .. i - 1
      BY <1>1, <2>1, <2>3
    <3>2. p[k] = a[k] /\ p[k] % 2 = 0
      BY <2>1, <3>1
    <3> QED
      BY <1>1, <3>2
  <2> QED
    BY <2>2, <2>3
<1>3. k <= Len(p) => LastAddressByte(p, k)
  <2> SUFFICES ASSUME k <= Len(p) PROVE LastAddressByte(p, k)
    OBVIOUS
  <2>1. \A i \in 1 .. k : i \in 1 .. Len(p) /\ i <= Len(a) /\ p[i] = a[i]
    BY <1>1
  <2>2. p[k] = a[k] /\ \A j \in 1 .. k - 1 : p[j] = a[j]
    BY <2>1
  <2> QED
    BY <1>1, <2>2 DEF LastAddressByte
<1>4. CASE \E i \in 1 .. 4 : LastAddressByte(p, i)
  <2>1. address_length[p] = CHOOSE i \in 1 .. 4 : LastAddressByte(p, i)
    BY <1>4 DEF address_length
  <2>2. address_length[p] \in 1 .. 4 /\ LastAddressByte(p, address_length[p])
    BY <1>4, <2>1
  <2> QED
    BY <1>2, <2>2
<1>5. CASE ~ \E i \in 1 .. 4 : LastAddressByte(p, i)
  <2>1. address_length[p] = 0
    BY <1>5 DEF address_length
  <2> QED
    BY <1>3, <1>5, <2>1
<1> QED
  BY <1>4, <1>5

(* Where the header of a frame ends, if its addresses are all there.       *)
LEMMA HcsPosIs ==
  ASSUME NEW a \in Seq(Byte), GoodAddress(a),
         NEW inner \in Seq(Byte), 2 <= Len(inner),
         \A i \in 1 .. Len(a) : i + 2 <= Len(inner) => inner[i + 2] = a[i]
  PROVE  /\ DstLen(inner) # 0 /\ SrcLen(inner) # 0 => HcsPos[inner] = Len(a) + 3
         /\ Len(a) + 2 <= Len(inner) => DstLen(inner) # 0 /\ SrcLen(inner) # 0
<1>1. PICK dst \in 1 .. 4, src \in 1 .. 4 :
        /\ Len(a) = dst + src
        /\ LastAddressByte(a, dst) /\ LastAddressByte(From(a, dst), src)
  BY DEF GoodAddress
<1> DEFINE p == From(inner, 2)
           q == From(inner, 2 + dst)
           s == From(a, dst)
<1>2. /\ p \in Seq(Byte) /\ Len(p) = Len(inner) - 2
      /\ \A i \in 1 .. Len(p) : p[i] = inner[i + 2]
  <2>1. 2 \in 0 .. Len(inner)
    OBVIOUS
  <2>2. /\ p \in Seq(Byte) /\ Len(p) = Len(inner) - 2
        /\ \A i \in 1 .. Len(inner) - 2 : p[i] = inner[2 + i]
    BY <2>1, FromIs
  <2> HIDE DEF p, q, s
  <2> QED
    BY <2>2
<1>3. /\ DstLen(inner) \in {0, dst}
      /\ dst <= Len(p) => DstLen(inner) = dst
  <2>1. \A i \in 1 .. Len(p) : i <= Len(a) => p[i] = a[i]
    BY <1>2
  <2>2. DstLen(inner) = address_length[p]
    BY DEF DstLen
  <2> HIDE DEF p
  <2> QED
    BY <1>1, <1>2, <2>1, <2>2, AddressLengthIs
<1>4. ASSUME DstLen(inner) = dst
      PROVE  /\ SrcLen(inner) \in {0, src}
             /\ src <= Len(q) => SrcLen(inner) = src
  <2>1. /\ q \in Seq(Byte) /\ \A i \in 1 .. Len(q) : q[i] = inner[i + 2 + dst]
        /\ Len(q) = 0 \/ Len(q) = Len(inner) - 2 - dst
    BY <1>1 DEF From
  <2>2. /\ s \in Seq(Byte) /\ Len(s) = src
        /\ \A i \in 1 .. src : s[i] = a[dst + i]
    BY <1>1 DEF From
  <2>3. \A i \in 1 .. Len(q) : i <= Len(s) => q[i] = s[i]
    <3> SUFFICES ASSUME NEW i \in 1 .. Len(q), i <= Len(s) PROVE q[i] = s[i]
      OBVIOUS
    <3> HIDE DEF q, s
    <3>1. i \in 1 .. src /\ Len(q) = Len(inner) - 2 - dst
      BY <2>1, <2>2
    <3>2. dst + i \in 1 .. Len(a) /\ dst + i + 2 <= Len(inner)
      BY <1>1, <2>1, <3>1
    <3>3. inner[dst + i + 2] = a[dst + i]
      BY <3>2
    <3>4. dst + i + 2 = i + 2 + dst
      BY <1>1, <3>1
    <3> QED
      BY <2>1, <2>2, <3>1, <3>3, <3>4
  <2>4. SrcLen(inner) = address_length[q]
    BY <1>4 DEF SrcLen
  <2> HIDE DEF q, s
  <2>5. LastAddressByte(s, src)
    BY <1>1 DEF s
  <2> QED
    BY <1>1, <2>1, <2>2, <2>3, <2>4, <2>5, AddressLengthIs
<1>5. HcsPos[inner] = 2 + DstLen(inner) + SrcLen(inner) + 1
  BY DEF HcsPos
<1>6. ASSUME DstLen(inner) # 0, SrcLen(inner) # 0 PROVE HcsPos[inner] = Len(a) + 3
  <2>1. DstLen(inner) = dst
    BY <1>3, <1>6
  <2>2. SrcLen(inner) = src
    BY <1>4, <1>6, <2>1
  <2> QED
    BY <1>1, <1>5, <2>1, <2>2
<1>7. ASSUME Len(a) + 2 <= Len(inner) PROVE DstLen(inner) # 0 /\ SrcLen(inner) # 0
  <2>1. dst <= Len(p) /\ src <= Len(q)
    <3>1. Len(q) = Len(inner) - 2 - dst
      BY <1>1, <1>7 DEF From
    <3> HIDE DEF p, q
    <3> QED
      BY <1>1, <1>2, <1>7, <3>1
  <2>2. DstLen(inner) = dst
    BY <1>3, <2>1
  <2>3. SrcLen(inner) = src
    BY <1>4, <2>1, <2>2
  <2> QED
    BY <1>1, <2>2, <2>3
<1> QED
  BY <1>6, <1>7

-----------------------------------------------------------------------------

(* What lies between the flags of a frame that carries d.                  *)
Carried(b, a, d) ==
  /\ Len(b) = Len(a) + Len(d) + 7
  /\ (b[1] % 8) * 256 + b[2] = Len(b)
  /\ \A i \in 1 .. Len(a) : b[i + 2] = a[i]
  /\ crc16_x25_check(SubSeq(b, 1, Len(a) + 5))
  /\ SubSeq(b, Len(a) + 6, Len(b) - 2) = d
  /\ crc16_x25_check(b)

(* A frame and its data.  (The decoder never looks at the closing flag.)   *)
HdlcCoding ==
  {f \in Seq(Byte) \X Seq(Byte) :
     \E a, b \in Seq(Byte), c \in Byte :
       /\ GoodAddress(a) /\ Carried(b, a, f[2])
       /\ f[1] = <<126>> \o (b \o <<c>>)}

(* Two addresses are two to eight bytes.                                   *)
LEMMA AddressLengths ==
  ASSUME NEW a \in Seq(Byte), GoodAddress(a)
  PROVE  Len(a) \in Nat /\ 2 <= Len(a) /\ Len(a) <= 8
  BY DEF GoodAddress

(* A frame body and where its parts lie: header, HCS, data, FCS.           *)
HasParts(b, h, w, d, v) ==
  /\ Len(b) = Len(h) + Len(w) + Len(d) + Len(v)
  /\ \A i \in 1 .. Len(h) : b[i] = h[i]
  /\ SubSeq(b, 1, Len(h) + Len(w)) = h \o w
  /\ SubSeq(b, Len(h) + Len(w) + 1, Len(h) + Len(w) + Len(d)) = d

LEMMA BodyParts ==
  ASSUME NEW S, NEW h \in Seq(S), NEW w \in Seq(S), NEW d \in Seq(S), NEW v \in Seq(S)
  PROVE  /\ ((h \o w) \o d) \o v \in Seq(S)
         /\ HasParts(((h \o w) \o d) \o v, h, w, d, v)
<1> DEFINE p == h \o w
           q == p \o d
           b == q \o v
<1>1. /\ p \in Seq(S) /\ Len(p) = Len(h) + Len(w)
      /\ \A i \in 1 .. Len(h) : p[i] = h[i]
  BY LongConcat, Zenon
<1> HIDE DEF p
<1>2. /\ q \in Seq(S) /\ Len(q) = Len(p) + Len(d)
      /\ \A i \in 1 .. Len(p) : q[i] = p[i]
  BY <1>1, LongConcat, Zenon
<1>3. b = p \o (d \o v) /\ d \o v \in Seq(S)
  <2>1. p \in Seq(S)
    BY <1>1
  <2>2. Associates(p, d, v) /\ d \o v \in Seq(S)
    BY <2>1, Assoc, Zenon
  <2> QED
    BY <2>2, Zenon DEF Associates
<1>4. SubSeq(b, 1, Len(p)) = p /\ SubSeq(b, Len(p) + 1, Len(p) + Len(d)) = d
  <2>1. SubSeq(p \o (d \o v), 1, Len(p)) = p
    BY <1>1, <1>3, FirstPart, Zenon
  <2>2. SubSeq(p \o (d \o v), Len(p) + 1, Len(p) + Len(d)) = d
    BY <1>1, MiddlePart, Zenon
  <2> QED
    BY <1>3, <2>1, <2>2
<1> HIDE DEF q
<1>5. /\ b \in Seq(S) /\ Len(b) = Len(q) + Len(v)
      /\ \A i \in 1 .. Len(q) : b[i] = q[i]
  BY <1>2, LongConcat, Zenon
<1> HIDE DEF b
<1>6. Len(b) = Len(h) + Len(w) + Len(d) + Len(v)
  BY <1>1, <1>2, <1>5
<1>7. \A i \in 1 .. Len(h) : b[i] = h[i]
  <2>1. \A i \in 1 .. Len(h) : i \in 1 .. Len(p) /\ i \in 1 .. Len(q)
    BY <1>1, <1>2
  <2> QED
    BY <1>1, <1>2, <1>5, <2>1, Zenon
<1>8. /\ SubSeq(b, 1, Len(h) + Len(w)) = p
      /\ SubSeq(b, Len(h) + Len(w) + 1, Len(h) + Len(w) + Len(d)) = d
  BY <1>1, <1>4
<1>9. HasParts(b, h, w, d, v)
  BY <1>6, <1>7, <1>8, Zenon DEF HasParts, p
<1> QED
  BY <1>5, <1>9, Zenon DEF p, q, b

(* A body whose header counts it and whose two checksums are right.        *)
LEMMA BodyIsCarried ==
  ASSUME NEW a \in Seq(Byte), GoodAddress(a), NEW d \in Seq(Byte),
         NEW h \in Seq(Byte), NEW w \in Seq(Byte), NEW v \in Seq(Byte), NEW b,
         Len(h) = Len(a) + 3, Len(w) = 2, Len(v) = 2, b = ((h \o w) \o d) \o v,
         \A i \in 1 .. Len(a) : h[i + 2] = a[i],
         (h[1] % 8) * 256 + h[2] = Len(a) + Len(d) + 7,
         crc16_x25_check(h \o w), crc16_x25_check(b)
  PROVE  b \in Seq(Byte) /\ Carried(b, a, d)
<1>1. /\ b \in Seq(Byte) /\ Len(b) = Len(h) + Len(w) + Len(d) + Len(v)
      /\ \A i \in 1 .. Len(h) : b[i] = h[i]
      /\ SubSeq(b, 1, Len(h) + Len(w)) = h \o w
      /\ SubSeq(b, Len(h) + Len(w) + 1, Len(h) + Len(w) + Len(d)) = d
  <2>1. b \in Seq(Byte) /\ HasParts(b, h, w, d, v)
    BY BodyParts
  <2> QED
    BY <2>1, Zenon DEF HasParts
<1> DEFINE p == h \o w
<1>2. SubSeq(b, 1, Len(h) + Len(w)) = p /\ crc16_x25_check(p)
  BY <1>1
<1> HIDE DEF p
<1>3. /\ Len(b) = Len(a) + Len(d) + 7
      /\ Len(h) + Len(w) = Len(a) + 5 /\ Len(h) + Len(w) + 1 = Len(a) + 6
      /\ Len(h) + Len(w) + Len(d) = Len(b) - 2
  BY <1>1
<1>4. b[1] = h[1] /\ b[2] = h[2] /\ \A i \in 1 .. Len(a) : b[i + 2] = a[i]
  <2>1. 1 \in 1 .. Len(h) /\ 2 \in 1 .. Len(h) /\ \A i \in 1 .. Len(a) : i + 2 \in 1 .. Len(h)
    OBVIOUS
  <2> QED
    BY <1>1, <2>1, Zenon
<1>5. SubSeq(b, 1, Len(a) + 5) = p /\ SubSeq(b, Len(a) + 6, Len(b) - 2) = d
  BY <1>1, <1>2, <1>3
<1>6. (b[1] % 8) * 256 + b[2] = Len(b)
  BY <1>3, <1>4
<1> QED
  BY <1>1, <1>2, <1>3, <1>4, <1>5, <1>6, Zenon DEF Carried

(* The header of a frame: format and length, addresses, control.           *)
IsHeader(h, a, f, g) ==
  /\ h \in Seq(Byte) /\ Len(h) = Len(a) + 3
  /\ h[1] = f /\ h[2] = g
  /\ \A i \in 1 .. Len(a) : h[i + 2] = a[i]

LEMMA HeaderParts ==
  ASSUME NEW a \in Seq(Byte), NEW f \in Byte, NEW g \in Byte
  PROVE  IsHeader(<<f, g>> \o a \o <<19>>, a, f, g)
<1> DEFINE S == Byte
<1>1. a \in Seq(S) /\ f \in S /\ g \in S /\ 19 \in S
  BY ByteIs
<1> HIDE DEF S
<1> DEFINE p == <<f, g>> \o a
           h == p \o <<19>>
<1>2. /\ p \in Seq(S) /\ Len(p) = Len(a) + 2 /\ p[1] = f /\ p[2] = g
      /\ \A i \in 1 .. Len(a) : p[i + 2] = a[i]
  BY <1>1
<1> HIDE DEF p
<1>3. h \in Seq(S) /\ Len(h) = Len(p) + 1 /\ \A i \in 1 .. Len(p) : h[i] = p[i]
  BY <1>1, <1>2
<1> HIDE DEF h
<1>4. Len(h) = Len(a) + 3 /\ h[1] = f /\ h[2] = g
  BY <1>1, <1>2, <1>3
<1>5. \A i \in 1 .. Len(a) : h[i + 2] = a[i]
  <2>1. \A i \in 1 .. Len(a) : i + 2 \in 1 .. Len(p)
    BY <1>1, <1>2
  <2> QED
    BY <1>2, <1>3, <2>1, Zenon
<1>6. h \in Seq(Byte)
  BY <1>3 DEF S
<1> QED
  BY <1>4, <1>5, <1>6, Zenon DEF p, h, IsHeader

(* What the length field counts fits its 11 bits (see Fits).               *)
LengthFits(a, d) == Len(a) + Len(d) + 7 < 2048

(* What a meter sends is a frame as the decoder expects it.                *)
LEMMA HdlcFrameIsCoded ==
  ASSUME NEW a \in Seq(Byte), GoodAddress(a), NEW d \in Seq(Byte), NEW more \in BOOLEAN,
         LengthFits(a, d)
  PROVE  /\ HdlcFrame(a, d, more) \in Seq(Byte)
         /\ <<HdlcFrame(a, d, more), d>> \in HdlcCoding
<1> DEFINE n == Len(a) + Len(d) + 7
           f == 160 + (IF more THEN 8 ELSE 0) + n \div 256
           g == n % 256
           h == <<f, g>> \o a \o <<19>>
           w == Fcs(h)
           checked == h \o w \o d
           v == Fcs(checked)
           b == checked \o v
           frame == HdlcFrame(a, d, more)
<1>0. frame = <<126>> \o checked \o v \o <<126>>
  BY DEF HdlcFrame
<1>1. n \in Nat /\ n \div 256 \in 0 .. 7 /\ n % 256 \in Nat /\ n % 256 <= 255
      /\ (n \div 256) * 256 + g = n
  BY DEF LengthFits
<1> HIDE DEF frame, b, v, checked, w, h
<1>2. f \in Byte /\ g \in Byte /\ (f % 8) * 256 + g = n
  <2> HIDE DEF n
  <2>1. f \in Nat /\ f <= 255 /\ f % 8 = n \div 256
    BY <1>1
  <2>2. g \in Nat /\ g <= 255 /\ (n \div 256) * 256 + g = n
    BY <1>1
  <2> HIDE DEF f, g
  <2>3. f \in Byte /\ g \in Byte
    BY <2>1, <2>2, ByteIs, Zenon
  <2> QED
    BY <2>1, <2>2, <2>3
<1>n. n = Len(a) + Len(d) + 7
  OBVIOUS
<1> HIDE DEF n, f, g
<1>3. /\ h \in Seq(Byte) /\ Len(h) = Len(a) + 3
      /\ h[1] = f /\ h[2] = g
      /\ \A i \in 1 .. Len(a) : h[i + 2] = a[i]
  <2>1. IsHeader(h, a, f, g)
    BY <1>2, HeaderParts, Zenon DEF h
  <2> QED
    BY <2>1, Zenon DEF IsHeader
<1>4. w \in Seq(Byte) /\ Len(w) = 2 /\ crc16_x25_check(h \o w)
  BY <1>3, FcsPasses, Zenon DEF w
<1>5. checked \in Seq(Byte)
  BY <1>3, <1>4, Assoc, Zenon DEF checked
<1>6. v \in Seq(Byte) /\ Len(v) = 2 /\ crc16_x25_check(b)
  BY <1>5, FcsPasses, Zenon DEF v, b
<1>7. b \in Seq(Byte) /\ Carried(b, a, d)
  <2>1. b = ((h \o w) \o d) \o v
    BY DEF b, checked
  <2>2. (h[1] % 8) * 256 + h[2] = Len(a) + Len(d) + 7
    BY <1>2, <1>3, <1>n
  <2> QED
    BY <1>3, <1>4, <1>6, <2>1, <2>2, BodyIsCarried, Zenon
<1>8. <<126>> \in Seq(Byte) /\ 126 \in Byte
  <2> DEFINE S == Byte
  <2>1. 126 \in S
    BY ByteIs
  <2> HIDE DEF S
  <2>2. <<126>> \in Seq(S)
    BY <2>1
  <2> QED
    BY <2>1, <2>2 DEF S
<1>9. frame = <<126>> \o (b \o <<126>>) /\ b \o <<126>> \in Seq(Byte)
  <2>1. Associates(<<126>>, checked, v)
    BY <1>5, <1>6, <1>8, Assoc, Zenon
  <2>2. Associates(<<126>>, b, <<126>>) /\ b \o <<126>> \in Seq(Byte)
    <3> DEFINE flag == <<126>>
    <3>1. b \in Seq(Byte) /\ flag \in Seq(Byte)
      BY <1>7, <1>8
    <3> HIDE DEF flag
    <3>2. Associates(flag, b, flag) /\ b \o flag \in Seq(Byte)
      BY <3>1, Assoc, Zenon
    <3> QED
      BY <3>2 DEF flag
  <2>3. (<<126>> \o checked) \o v = <<126>> \o b
    BY <2>1 DEF Associates, b
  <2> QED
    BY <1>0, <2>2, <2>3, Zenon DEF Associates
<1>10. frame \in Seq(Byte)
  BY <1>8, <1>9
<1>11. <<frame, d>> \in HdlcCoding
  <2> DEFINE p == <<frame, d>>
  <2>1. p \in Seq(Byte) \X Seq(Byte) /\ p[1] = frame /\ p[2] = d
    BY <1>10
  <2> HIDE DEF p
  <2>2. p[1] = <<126>> \o (b \o <<126>>) /\ Carried(b, a, p[2])
    BY <1>7, <1>9, <2>1
  <2>3. \E aa \in Seq(Byte), bb \in Seq(Byte), c \in Byte :
          /\ GoodAddress(aa) /\ Carried(bb, aa, p[2]) /\ p[1] = <<126>> \o (bb \o <<c>>)
    BY <1>7, <1>8, <2>2, Zenon
  <2>4. p \in HdlcCoding
    BY <2>1, <2>3, Zenon DEF HdlcCoding
  <2> QED
    BY <2>4 DEF p
<1> QED
  BY <1>10, <1>11 DEF frame

(* Bytes that begin with a flag and a frame body.                          *)
IsFramed(r, b, t) ==
  /\ r \in Seq(Byte) /\ Len(r) = Len(b) + 2 + Len(t)
  /\ r[1] = 126
  /\ \A i \in 1 .. Len(b) : r[i + 1] = b[i]

LEMMA FrameParts ==
  ASSUME NEW b \in Seq(Byte), NEW c \in Byte, NEW t \in Seq(Byte)
  PROVE  IsFramed((<<126>> \o (b \o <<c>>)) \o t, b, t)
<1> DEFINE S == Byte
<1>1. b \in Seq(S) /\ t \in Seq(S) /\ c \in S /\ 126 \in S
  BY ByteIs
<1> HIDE DEF S
<1> DEFINE p == b \o <<c>>
           q == <<126>> \o p
           r == q \o t
<1>2. p \in Seq(S) /\ Len(p) = Len(b) + 1 /\ \A i \in 1 .. Len(b) : p[i] = b[i]
  BY <1>1
<1> HIDE DEF p
<1>3. /\ q \in Seq(S) /\ Len(q) = Len(p) + 1 /\ q[1] = 126
      /\ \A i \in 1 .. Len(p) : q[i + 1] = p[i]
  BY <1>1, <1>2
<1> HIDE DEF q
<1>4. r \in Seq(S) /\ Len(r) = Len(q) + Len(t) /\ \A i \in 1 .. Len(q) : r[i] = q[i]
  <2>1. q \in Seq(S) /\ t \in Seq(S)
    BY <1>1, <1>3
  <2> QED
    BY <2>1, LongConcat, Zenon
<1> HIDE DEF r
<1>5. Len(r) = Len(b) + 2 + Len(t)
  BY <1>1, <1>2, <1>3, <1>4
<1>6. r[1] = 126
  BY <1>2, <1>3, <1>4
<1>7. \A i \in 1 .. Len(b) : r[i + 1] = b[i]
  <2>1. \A i \in 1 .. Len(b) : i \in 1 .. Len(p) /\ i + 1 \in 1 .. Len(q)
    BY <1>1, <1>2, <1>3
  <2> QED
    BY <1>2, <1>3, <1>4, <2>1, Zenon
<1>8. r \in Seq(Byte)
  BY <1>4 DEF S
<1> QED
  BY <1>5, <1>6, <1>7, <1>8 DEF p, q, r, IsFramed

(* The decoder reads such a frame as what it carries.                      *)
LEMMA FramedReads ==
  ASSUME NEW a \in Seq(Byte), GoodAddress(a), NEW b \in Seq(Byte), NEW d \in Seq(Byte),
         Carried(b, a, d), NEW t \in Seq(Byte), NEW r, IsFramed(r, b, t),
         NEW skip \in BOOLEAN, NEW first \in BOOLEAN
  PROVE  /\ ~ is_mbus_short_frame(r)
         /\ FrameOk(r, skip)
         /\ FrameTotal(r) = Len(b) + 2
         /\ Payload(r, first) = IF first THEN WithoutLlc(d) ELSE d
<1>1. /\ r \in Seq(Byte) /\ Len(r) = Len(b) + 2 + Len(t) /\ r[1] = 126
      /\ \A i \in 1 .. Len(b) : r[i + 1] = b[i]
  BY DEF IsFramed
<1>2. /\ Len(b) = Len(a) + Len(d) + 7
      /\ (b[1] % 8) * 256 + b[2] = Len(b)
      /\ \A i \in 1 .. Len(a) : b[i + 2] = a[i]
      /\ SubSeq(b, Len(a) + 6, Len(b) - 2) = d
  BY DEF Carried
<1>3. Len(a) \in Nat /\ 2 <= Len(a)
  BY AddressLengths
<1>4. Len(b) \in Nat /\ 9 <= Len(b) /\ Len(d) \in Nat /\ Len(a) \in Nat /\ Len(t) \in Nat
  <2>1. Len(b) \in Nat /\ Len(d) \in Nat /\ Len(a) \in Nat /\ Len(t) \in Nat
    OBVIOUS
  <2>2. Len(b) = Len(a) + Len(d) + 7
    BY <1>2
  <2>3. 9 <= Len(b)
    BY <1>3, <2>1, <2>2
  <2> QED
    BY <2>1, <2>3
<1>5. ~ is_mbus_short_frame(r)
  BY <1>1 DEF is_mbus_short_frame, At
<1>6. FrameTotal(r) = Len(b) + 2
  <2>1. 1 \in 1 .. Len(b) /\ 2 \in 1 .. Len(b)
    BY <1>4
  <2>2. r[1 + 1] = b[1] /\ r[2 + 1] = b[2]
    BY <1>1, <2>1, Zenon
  <2>3. At(r, 1) = b[1] /\ At(r, 2) = b[2]
    BY <2>2 DEF At
  <2> QED
    BY <1>2, <2>3 DEF FrameTotal
<1>7. Inner(r) = b
  <2> DEFINE p == SubSeq(r, 2, Len(b) + 1)
  <2>1. p \in Seq(Byte) /\ Len(p) = Len(b) /\ \A i \in 1 .. Len(b) : p[i] = r[i + 1]
    BY <1>1, <1>4
  <2>2. Inner(r) = p
    BY <1>4, <1>6 DEF Inner, Subspan
  <2> HIDE DEF p
  <2>3. \A i \in 1 .. Len(b) : p[i] = b[i]
    BY <1>1, <2>1
  <2>4. p = b
    BY <2>1, <2>3, SeqEqual
  <2> QED
    BY <2>2, <2>4
<1>8. DstLen(b) # 0 /\ SrcLen(b) # 0 /\ HcsPos[b] = Len(a) + 3
  <2>1. \A i \in 1 .. Len(a) : i + 2 <= Len(b) => b[i + 2] = a[i]
    BY <1>2
  <2>2. 2 <= Len(b) /\ Len(a) + 2 <= Len(b)
    BY <1>2, <1>4
  <2> QED
    BY <2>1, <2>2, HcsPosIs
<1>9. Subspan(b, 0, HcsPos[b] + 2) = SubSeq(b, 1, Len(a) + 5)
  BY <1>4, <1>8 DEF Subspan
<1>10. FrameOk(r, skip)
  <2>1. Len(r) >= 4 /\ At(r, 0) = HDLC_FLAG /\ FrameTotal(r) <= Len(r)
    BY <1>1, <1>4, <1>6 DEF At, HDLC_FLAG
  <2>2. Len(b) >= 9 /\ HcsPos[b] + 2 <= Len(b)
    BY <1>2, <1>4, <1>8
  <2>3. crc16_x25_check(Subspan(b, 0, HcsPos[b] + 2)) /\ crc16_x25_check(b)
    BY <1>9 DEF Carried
  <2> QED
    BY <1>7, <1>8, <2>1, <2>2, <2>3, Zenon DEF FrameOk
<1>11. DataEnd(r) = Len(a) + Len(d) + 5 /\ Len(b) - 2 = Len(a) + Len(d) + 5
  BY <1>2, <1>4, <1>6 DEF DataEnd
<1>12. d \in Seq(Byte) /\ \A i \in 1 .. Len(d) : d[i] = b[Len(a) + 5 + i]
  <2> DEFINE p == SubSeq(b, Len(a) + 6, Len(b) - 2)
  <2>1. \A i \in 1 .. Len(d) : p[i] = b[Len(a) + 5 + i]
    BY <1>4, <1>11
  <2> HIDE DEF p
  <2> QED
    BY <1>2, <2>1 DEF p
<1>13. HasLlc(r) <=> Len(d) >= 3 /\ d[1] = 230 /\ d[2] \in {230, 231} /\ d[3] = 0
  <2>1. HasLlc(r) <=> /\ Len(a) + 5 + 3 <= Len(a) + Len(d) + 5
                      /\ b[Len(a) + 5 + 1] = 230
                      /\ b[Len(a) + 5 + 2] \in {230, 231}
                      /\ b[Len(a) + 5 + 3] = 0
    <3> DEFINE pos == HcsPos[b] + 2
    <3>1. /\ pos = Len(a) + 5 /\ pos + 3 = Len(a) + 5 + 3
          /\ pos + 1 + 1 = Len(a) + 5 + 2
          /\ pos + 2 + 1 = Len(a) + 5 + 3
      BY <1>4, <1>8
    <3>2. HasLlc(r) <=> /\ pos + 3 <= DataEnd(r)
                        /\ At(b, pos) = 230
                        /\ At(b, pos + 1) \in {230, 231}
                        /\ At(b, pos + 2) = 0
      BY <1>7 DEF HasLlc
    <3> HIDE DEF pos
    <3>3. /\ At(b, pos) = b[Len(a) + 5 + 1] /\ At(b, pos + 1) = b[Len(a) + 5 + 2]
          /\ At(b, pos + 2) = b[Len(a) + 5 + 3]
      BY <3>1 DEF At
    <3> QED
      BY <1>11, <3>1, <3>2, <3>3
  <2>2. CASE Len(d) >= 3
    <3>1. /\ d[1] = b[Len(a) + 5 + 1] /\ d[2] = b[Len(a) + 5 + 2] /\ d[3] = b[Len(a) + 5 + 3]
      BY <1>12, <2>2
    <3> QED
      BY <1>4, <2>1, <2>2, <3>1
  <2>3. CASE ~ (Len(d) >= 3)
    BY <1>4, <2>1, <2>3
  <2> QED
    BY <2>2, <2>3
<1>14. CASE first /\ HasLlc(r)
  <2>1. DataPos(r, first) = Len(a) + 8
    BY <1>4, <1>7, <1>8, <1>14 DEF DataPos
  <2>2. Len(d) >= 3 /\ d[1] = 230 /\ d[2] \in {230, 231} /\ d[3] = 0
    BY <1>13, <1>14
  <2>3. WithoutLlc(d) = SubSeq(d, 4, Len(d))
    <3> DEFINE llc == <<230, d[2], 0>>
    <3>1. llc \in {<<230, 230, 0>>, <<230, 231, 0>>}
      BY <2>2
    <3>2. Len(llc) = 3 /\ Len(llc) <= Len(d)
      BY <2>2
    <3>3. SubSeq(llc, 1, Len(llc)) = SubSeq(d, 1, Len(llc))
      BY <2>2
    <3>4. IsPrefix(llc, d)
      BY <3>2, <3>3 DEF IsPrefix
    <3> QED
      BY <3>1, <3>4, Zenon DEF WithoutLlc
  <2> DEFINE p == Payload(r, first)
             q == SubSeq(d, 4, Len(d))
  <2>4. q \in Seq(Byte) /\ Len(q) = Len(d) - 3 /\ \A i \in 1 .. Len(d) - 3 : q[i] = d[i + 3]
    <3>1. 3 \in 0 .. Len(d) /\ q = From(d, 3)
      BY <2>2 DEF From
    <3> HIDE DEF p, q
    <3>2. q \in Seq(Byte) /\ Len(q) = Len(d) - 3 /\ \A i \in 1 .. Len(d) - 3 : q[i] = d[3 + i]
      BY <3>1, FromIs
    <3> QED
      BY <3>2
  <2>5. p \in Seq(Byte) /\ Len(p) = Len(d) - 3 /\ \A i \in 1 .. Len(d) - 3 : p[i] = b[Len(a) + 8 + i]
    <3>1. CASE Len(d) = 3
      <4>1. p = << >>
        BY <1>4, <1>11, <2>1, <3>1 DEF Payload
      <4> HIDE DEF p, q
      <4> QED
        BY <3>1, <4>1
    <3>2. CASE Len(d) > 3
      <4>1. p = Subspan(b, Len(a) + 8, Len(d) - 3)
        BY <1>4, <1>7, <1>11, <2>1, <3>2 DEF Payload
      <4>2. Len(a) + 8 + (Len(d) - 3) = Len(b) - 2
        BY <1>4, <1>11
      <4>3. p = SubSeq(b, Len(a) + 8 + 1, Len(b) - 2)
        BY <4>1, <4>2 DEF Subspan
      <4> HIDE DEF p, q
      <4> QED
        BY <1>4, <1>11, <3>2, <4>3
    <3> HIDE DEF p, q
    <3>3. Len(d) = 3 \/ Len(d) > 3
      <4>1. Len(d) \in Nat /\ Len(d) >= 3
        BY <2>2
      <4>2. \A n \in Nat : n >= 3 => n = 3 \/ n > 3
        OBVIOUS
      <4> QED
        BY <4>1, <4>2, Zenon
    <3> QED
      BY <3>1, <3>2, <3>3, Zenon
  <2> HIDE DEF p, q
  <2>6. \A i \in 1 .. Len(d) - 3 : p[i] = q[i]
    <3> SUFFICES ASSUME NEW i \in 1 .. Len(d) - 3 PROVE p[i] = q[i]
      OBVIOUS
    <3>1. i + 3 \in 1 .. Len(d) /\ Len(a) + 5 + (i + 3) = Len(a) + 8 + i
      BY <1>4
    <3> QED
      BY <1>12, <2>4, <2>5, <3>1
  <2>7. p = q
    BY <2>4, <2>5, <2>6, SeqEqual
  <2> QED
    BY <1>5, <1>6, <1>10, <1>14, <2>3, <2>7 DEF p, q
<1>15. CASE ~ (first /\ HasLlc(r))
  <2>1. DataPos(r, first) = Len(a) + 5
    BY <1>4, <1>7, <1>8, <1>15 DEF DataPos
  <2>2. Payload(r, first) = d
    <3>1. CASE Len(d) = 0
      <4>1. Payload(r, first) = << >>
        BY <1>4, <1>11, <2>1, <3>1 DEF Payload
      <4> QED
        BY <3>1, <4>1
    <3>2. CASE Len(d) > 0
      <4>1. Payload(r, first) = Subspan(b, Len(a) + 5, Len(d))
        BY <1>4, <1>7, <1>11, <2>1, <3>2 DEF Payload
      <4>2. Len(a) + 5 + Len(d) = Len(b) - 2 /\ Len(a) + 5 + 1 = Len(a) + 6
        BY <1>4, <1>11
      <4> QED
        BY <1>2, <4>1, <4>2 DEF Subspan
    <3> QED
      BY <1>4, <3>1, <3>2
  <2>3. first => WithoutLlc(d) = d
    <3> SUFFICES ASSUME ~ HasLlc(r) PROVE WithoutLlc(d) = d
      BY <1>15
    <3>1. ASSUME NEW llc \in {<<230, 230, 0>>, <<230, 231, 0>>}, IsPrefix(llc, d)
          PROVE  FALSE
      <4>1. Len(llc) = 3 /\ llc[1] = 230 /\ llc[2] \in {230, 231} /\ llc[3] = 0
        OBVIOUS
      <4>2. Len(d) >= 3 /\ SubSeq(llc, 1, 3) = SubSeq(d, 1, 3)
        BY <3>1, <4>1 DEF IsPrefix
      <4>3. d[1] = llc[1] /\ d[2] = llc[2] /\ d[3] = llc[3]
        <5>1. /\ SubSeq(d, 1, 3)[1] = d[1] /\ SubSeq(d, 1, 3)[2] = d[2] /\ SubSeq(d, 1, 3)[3] = d[3]
          BY <4>2
        <5>2. /\ SubSeq(llc, 1, 3)[1] = llc[1] /\ SubSeq(llc, 1, 3)[2] = llc[2]
              /\ SubSeq(llc, 1, 3)[3] = llc[3]
          OBVIOUS
        <5> QED
          BY <4>2, <5>1, <5>2
      <4> QED
        BY <1>13, <4>1, <4>2, <4>3
    <3>2. ~ \E llc \in {<<230, 230, 0>>, <<230, 231, 0>>} : IsPrefix(llc, d)
      BY <3>1, Zenon
    <3> QED
      BY <3>2 DEF WithoutLlc
  <2> QED
    BY <1>5, <1>6, <1>10, <2>2, <2>3
<1> QED
  BY <1>14, <1>15

(* The decoder takes the bytes r for the frame f.                          *)
Reads(r, f, skip, first) ==
  /\ ~ is_mbus_short_frame(r)
  /\ FrameOk(r, skip)
  /\ FrameTotal(r) = Len(f[1])
  /\ Payload(r, first) = IF first THEN WithoutLlc(f[2]) ELSE f[2]

(* A coded frame, taken apart.                                             *)
LEMMA CodedIs ==
  ASSUME NEW f \in HdlcCoding
  PROVE  /\ f \in Seq(Byte) \X Seq(Byte) /\ f[1] \in Seq(Byte) /\ f[2] \in Seq(Byte)
         /\ \E a, b \in Seq(Byte), c \in Byte :
              /\ GoodAddress(a) /\ Carried(b, a, f[2])
              /\ f[1] = <<126>> \o (b \o <<c>>)
<1>1. /\ f \in Seq(Byte) \X Seq(Byte)
      /\ \E a, b \in Seq(Byte), c \in Byte :
              /\ GoodAddress(a) /\ Carried(b, a, f[2])
              /\ f[1] = <<126>> \o (b \o <<c>>)
  BY DEF HdlcCoding
<1> QED
  BY <1>1

(* Whatever follows a frame, the decoder reads the frame.                  *)
LEMMA CodedFrameReads ==
  ASSUME NEW f \in HdlcCoding, NEW t \in Seq(Byte), NEW skip \in BOOLEAN, NEW first \in BOOLEAN
  PROVE  Reads(f[1] \o t, f, skip, first)
<1> DEFINE g == f[1]
           d == f[2]
           r == g \o t
<1>1. PICK a \in Seq(Byte), b \in Seq(Byte), c \in Byte :
        GoodAddress(a) /\ Carried(b, a, d) /\ g = <<126>> \o (b \o <<c>>)
  BY CodedIs, Zenon
<1>2. g \in Seq(Byte) /\ d \in Seq(Byte)
  BY CodedIs
<1> HIDE DEF g, d
<1>3. IsFramed(r, b, t)
  BY <1>1, FrameParts
<1> HIDE DEF r
<1>4. /\ ~ is_mbus_short_frame(r)
      /\ FrameOk(r, skip)
      /\ FrameTotal(r) = Len(b) + 2
      /\ Payload(r, first) = IF first THEN WithoutLlc(d) ELSE d
  <2>1. a \in Seq(Byte) /\ b \in Seq(Byte) /\ GoodAddress(a) /\ Carried(b, a, d)
    BY <1>1
  <2> QED
    BY <1>2, <1>3, <2>1, FramedReads
<1>5. Len(g) = Len(b) + 2
  <2>1. << >> \in Seq(Byte)
    OBVIOUS
  <2> DEFINE q == <<126>> \o (b \o <<c>>)
  <2>2. IsFramed(q \o << >>, b, << >>)
    BY <2>1, <1>1, FrameParts, Zenon
  <2>3. q \o << >> = q
    BY <1>1, <1>2
  <2>4. IsFramed(q, b, << >>)
    BY <2>2, <2>3
  <2>5. Len(q) = Len(b) + 2 + Len(<< >>)
    BY <2>4, Zenon DEF IsFramed
  <2> HIDE DEF q
  <2>6. Len(q) = Len(b) + 2
    BY <2>5
  <2> QED
    BY <1>1, <2>6 DEF q
<1> QED
  BY <1>4, <1>5 DEF Reads, g, d, r

(* A frame that is not all there is neither taken nor passed over.         *)
Refused(r) ==
  /\ ~ is_mbus_short_frame(r)
  /\ \A skip \in BOOLEAN : ~ FrameOk(r, skip)

(* No proper beginning of a frame is taken for one, or for a short frame.  *)
LEMMA CutFrameRefused ==
  ASSUME NEW f \in HdlcCoding, NEW r \in Seq(Byte), NEW u \in Seq(Byte),
         f[1] = r \o u, Len(r) < Len(f[1])
  PROVE  Refused(r)
<1> DEFINE g == f[1]
<1>0. g \in Seq(Byte) /\ << >> \in Seq(Byte)
  BY CodedIs
<1>1. FrameTotal(g) = Len(g)
  <2>1. Reads(g \o << >>, f, TRUE, TRUE)
    BY <1>0, CodedFrameReads
  <2>2. g \o << >> = g
    BY <1>0
  <2> QED
    BY <2>1, <2>2 DEF Reads
<1>2. g[1] = 126 /\ Len(g) > 0
  <2>1. PICK a \in Seq(Byte), b \in Seq(Byte), c \in Byte : g = <<126>> \o (b \o <<c>>)
    BY CodedIs, Zenon
  <2>2. b \in Seq(Byte) /\ c \in Byte
    BY <2>1
  <2> QED
    BY <2>1, <2>2
<1> HIDE DEF g
<1>3. g = r \o u /\ Len(r) < Len(g)
  BY DEF g
<1>4. \A i \in 1 .. Len(r) : r[i] = g[i]
  BY <1>3
<1>5. ~ is_mbus_short_frame(r)
  BY <1>2, <1>4 DEF is_mbus_short_frame, At
<1>6. ASSUME NEW skip \in BOOLEAN, FrameOk(r, skip) PROVE FALSE
  <2>1. Len(r) >= 4 /\ FrameTotal(r) <= Len(r)
    BY <1>6 DEF FrameOk
  <2>2. At(r, 1) = At(g, 1) /\ At(r, 2) = At(g, 2)
    BY <1>4, <2>1 DEF At
  <2>3. FrameTotal(r) = FrameTotal(g)
    BY <2>2 DEF FrameTotal
  <2>4. Len(g) <= Len(r)
    BY <1>1, <2>1, <2>3
  <2> QED
    BY <1>0, <1>3, <2>4
<1> QED
  BY <1>5, <1>6 DEF Refused

LEMMA NothingRefused == Refused(<< >>)
  BY DEF Refused, is_mbus_short_frame, FrameOk

(* The short frames that may come between.                                 *)
ShortCoding == {ShortFrame}

LEMMA ShortFrameIs ==
  /\ ShortFrame \in Seq(Byte) /\ Len(ShortFrame) = 5
  /\ ShortCoding \in SUBSET Seq(Byte) /\ {} \in SUBSET Seq(Byte)
<1> DEFINE S == Byte
<1>1. 16 \in S /\ 64 \in S /\ 1 \in S /\ 65 \in S /\ 22 \in S
  BY ByteIs
<1> HIDE DEF S
<1>2. ShortFrame \in Seq(S)
  BY <1>1 DEF ShortFrame
<1>3. Len(ShortFrame) = 5
  BY DEF ShortFrame
<1> QED
  BY <1>2, <1>3 DEF ShortCoding, S

(* A short frame is skipped when it is complete, and then only.            *)
LEMMA ShortFrameReads ==
  ASSUME NEW t \in Seq(Byte)
  PROVE  is_mbus_short_frame(ShortFrame \o t)
<1> DEFINE r == ShortFrame \o t
<1>1. Len(r) = 5 + Len(t) /\ r[1] = 16 /\ r[2] = 64 /\ r[3] = 1 /\ r[4] = 65 /\ r[5] = 22
  BY DEF ShortFrame
<1> HIDE DEF r
<1>2. is_mbus_short_frame(r)
  BY <1>1 DEF is_mbus_short_frame, At
<1> QED
  BY <1>2 DEF r

LEMMA CutShortFrameRefused ==
  ASSUME NEW r \in Seq(Byte), NEW u \in Seq(Byte), ShortFrame = r \o u, Len(r) < Len(ShortFrame)
  PROVE  Refused(r)
<1>1. Len(r) < 5
  BY ShortFrameIs
<1>2. ~ is_mbus_short_frame(r)
  BY <1>1 DEF is_mbus_short_frame
<1>3. ASSUME NEW skip \in BOOLEAN, FrameOk(r, skip) PROVE FALSE
  <2>1. Len(r) >= 4 /\ r[1] = 126
    BY <1>3 DEF FrameOk, At, HDLC_FLAG
  <2>2. r[1] = ShortFrame[1]
    BY <2>1
  <2> QED
    BY <2>1, <2>2 DEF ShortFrame
<1> QED
  BY <1>2, <1>3 DEF Refused

-----------------------------------------------------------------------------
(* The decoder on a line that carries frames.                              *)

(* What a decoder that has taken the frames of A has put out.              *)
Delivered(A) ==
  IF A = << >> THEN << >> ELSE WithoutLlc(Head(A)) \o FlattenSeq(Tail(A))

LEMMA WithoutLlcType ==
  ASSUME NEW d \in Seq(Byte)
  PROVE  WithoutLlc(d) \in Seq(Byte)
<1>1. SubSeq(d, 4, Len(d)) \in Seq(Byte)
  OBVIOUS
<1> QED
  BY <1>1 DEF WithoutLlc

(* One frame more delivers its data behind what was delivered.             *)
LEMMA DeliveredMore ==
  ASSUME NEW A \in Seq(Seq(Byte)), NEW d \in Seq(Byte)
  PROVE  /\ Append(A, d) \in Seq(Seq(Byte)) /\ Append(A, d) # << >>
         /\ Delivered(Append(A, d)) =
              Delivered(A) \o (IF A = << >> THEN WithoutLlc(d) ELSE d)
<1> DEFINE W == Seq(Byte)
           B == Append(A, d)
<1>1. WithoutLlc(d) \in Seq(Byte)
  BY WithoutLlcType
<1>2. A \in Seq(W) /\ d \in W /\ FlattenSeq(<< >>) = << >>
  BY FlattenEmpty
<1>a. B \in Seq(W) /\ B # << >>
  <2> HIDE DEF W
  <2> QED
    BY <1>2
<1>3. CASE A = << >>
  <2>1. Head(B) = d /\ Tail(B) = << >>
    <3> HIDE DEF W
    <3> QED
      BY <1>2, <1>3
  <2> HIDE DEF B
  <2>2. Delivered(B) = WithoutLlc(d) \o << >>
    BY <1>2, <1>a, <2>1 DEF Delivered
  <2>3. WithoutLlc(d) \o << >> = WithoutLlc(d) /\ << >> \o WithoutLlc(d) = WithoutLlc(d)
    BY <1>1
  <2>4. Delivered(A) = << >>
    BY <1>3 DEF Delivered
  <2> QED
    BY <1>3, <1>a, <2>2, <2>3, <2>4 DEF B
<1>4. CASE A # << >>
  <2> DEFINE T == Tail(A)
             h == Head(A)
  <2>1. Head(B) = h /\ Tail(B) = Append(T, d) /\ T \in Seq(W) /\ h \in W
    <3> HIDE DEF W
    <3> QED
      BY <1>2, <1>4
  <2> HIDE DEF B, T, h
  <2>2. FlattenSeq(Append(T, d)) = FlattenSeq(T) \o d /\ FlattenSeq(T) \in Seq(Byte)
    BY <2>1, FlattenAppend, FlattenType
  <2>3. Delivered(B) = WithoutLlc(h) \o (FlattenSeq(T) \o d)
    BY <1>a, <2>1, <2>2 DEF Delivered
  <2>4. Delivered(A) = WithoutLlc(h) \o FlattenSeq(T)
    BY <1>4 DEF Delivered, T, h
  <2>5. Associates(WithoutLlc(h), FlattenSeq(T), d)
    <3>1. WithoutLlc(h) \in Seq(Byte) /\ FlattenSeq(T) \in Seq(Byte)
      BY <2>1, <2>2, WithoutLlcType
    <3> QED
      BY <3>1, Assoc, Zenon
  <2>6. Delivered(B) = Delivered(A) \o d
    BY <2>3, <2>4, <2>5, Zenon DEF Associates
  <2> QED
    BY <1>4, <1>a, <2>6 DEF B
<1> QED
  BY <1>3, <1>4

(* The line holds D, r of its bytes are still to be read and t will never  *)
(* come; out is what has been delivered of it.                             *)
Bears(b, D) == Carries(Byte, HdlcCoding, ShortCoding, b, D)

(* The line holds D, r of its bytes are still to be read and t will never  *)
(* come; out is what has been delivered of it.                             *)
OnTrack(D, t, r, out, first) ==
  \E A, B \in Seq(Seq(Byte)) :
    /\ D = A \o B
    /\ Bears(r \o t, B)
    /\ out = Delivered(A)
    /\ first <=> A = << >>

LEMMA CodingType == HdlcCoding \in SUBSET (Seq(Byte) \X Seq(Byte))
  BY DEF HdlcCoding

(* What a decoder on track meets: the end, a short frame or a frame.       *)
Ends(D, t, r, out) ==
  /\ Refused(r)
  /\ t = << >> => r = << >> /\ out = Delivered(D)

Passes(D, t, r, out, first) ==
  \E u \in Seq(Byte) : r = ShortFrame \o u /\ OnTrack(D, t, u, out, first)

Taken(D, t, r, out, first) ==
  \E f \in HdlcCoding, u \in Seq(Byte) :
    /\ r = f[1] \o u
    /\ OnTrack(D, t, u, out \o (IF first THEN WithoutLlc(f[2]) ELSE f[2]), FALSE)

LEMMA Track ==
  ASSUME NEW D \in Seq(Seq(Byte)), NEW t \in Seq(Byte), NEW r \in Seq(Byte), NEW out,
         NEW first \in BOOLEAN, OnTrack(D, t, r, out, first)
  PROVE  \/ Ends(D, t, r, out)
         \/ Passes(D, t, r, out, first)
         \/ Taken(D, t, r, out, first)
<1>1. PICK A \in Seq(Seq(Byte)), B \in Seq(Seq(Byte)) :
        D = A \o B /\ Bears(r \o t, B) /\ out = Delivered(A) /\ (first <=> A = << >>)
  BY DEF OnTrack
<1>2. FirstIs(Byte, HdlcCoding, ShortCoding, r \o t, B)
  <2>1. Carries(Byte, HdlcCoding, ShortCoding, r \o t, B)
    BY <1>1 DEF Bears
  <2> QED
    BY <2>1, CodingType, ShortFrameIs, CarriesFirst, Zenon
<1>3. CASE r \o t = << >> /\ B = << >>
  <2>1. r = << >> /\ t = << >>
    BY <1>3
  <2>2. D = A
    BY <1>1, <1>3
  <2> QED
    BY <1>1, <2>1, <2>2, NothingRefused DEF Ends
<1>4. ASSUME NEW c \in Seq(Byte), r \o t = ShortFrame \o c, Bears(c, B)
      PROVE  Ends(D, t, r, out) \/ Passes(D, t, r, out, first)
  <2>0. ShortFrame \in Seq(Byte)
    BY ShortFrameIs
  <2>1. \/ Continues(Byte, r, t, ShortFrame, c)
        \/ Len(r) < Len(ShortFrame) /\ Continues(Byte, ShortFrame, c, r, t)
    BY <1>4, <2>0, Overlaps, Zenon
  <2>2. CASE Continues(Byte, r, t, ShortFrame, c)
    <3>1. PICK u \in Seq(Byte) : r = ShortFrame \o u /\ c = u \o t
      BY <2>2 DEF Continues
    <3>2. OnTrack(D, t, u, out, first)
      <4>1. Bears(u \o t, B)
        BY <1>4, <3>1
      <4> QED
        BY <1>1, <4>1, Zenon DEF OnTrack
    <3> QED
      BY <3>1, <3>2, Zenon DEF Passes
  <2>3. CASE Len(r) < Len(ShortFrame) /\ Continues(Byte, ShortFrame, c, r, t)
    <3>1. PICK u \in Seq(Byte) : ShortFrame = r \o u /\ t = u \o c /\ Len(u) = Len(ShortFrame) - Len(r)
      BY <2>3 DEF Continues
    <3>2. Refused(r)
      BY <2>3, <3>1, CutShortFrameRefused, Zenon
    <3>3. t # << >>
      <4>1. Len(u) > 0
        BY <2>0, <2>3, <3>1
      <4> QED
        BY <3>1, <4>1
    <3> QED
      BY <3>2, <3>3 DEF Ends
  <2> QED
    BY <2>1, <2>2, <2>3
<1>5. ASSUME NEW f \in HdlcCoding, NEW c \in Seq(Byte), NEW E \in Seq(Seq(Byte)),
             r \o t = f[1] \o c, B = <<f[2]>> \o E, Bears(c, E)
      PROVE  Ends(D, t, r, out) \/ Taken(D, t, r, out, first)
  <2>0. PICK g \in Seq(Byte), d \in Seq(Byte) : g = f[1] /\ d = f[2]
    BY CodedIs
  <2>g. g \in Seq(Byte) /\ d \in Seq(Byte) /\ r \o t = g \o c
    BY <1>5, <2>0
  <2>1. \/ Continues(Byte, r, t, g, c)
        \/ Len(r) < Len(g) /\ Continues(Byte, g, c, r, t)
    BY <2>g, Overlaps, Zenon
  <2>2. CASE Continues(Byte, r, t, g, c)
    <3>1. PICK u \in Seq(Byte) : r = g \o u /\ c = u \o t
      BY <2>2 DEF Continues
    <3>2. Bears(u \o t, E)
      BY <1>5, <3>1
    <3>3. Append(A, d) \in Seq(Seq(Byte)) /\ Append(A, d) # << >>
          /\ Delivered(Append(A, d)) = out \o (IF first THEN WithoutLlc(d) ELSE d)
      BY <1>1, <2>g, DeliveredMore
    <3>4. D = Append(A, d) \o E
      <4> DEFINE W == Seq(Byte)
      <4>1. A \in Seq(W) /\ d \in W /\ E \in Seq(W) /\ D = A \o (<<d>> \o E)
        BY <1>1, <1>5, <2>0
      <4> HIDE DEF W
      <4>2. MovesOver(A, d, E)
        BY <4>1, MoveOver, Zenon
      <4> QED
        BY <4>1, <4>2, Zenon DEF MovesOver
    <3>5. OnTrack(D, t, u, out \o (IF first THEN WithoutLlc(d) ELSE d), FALSE)
      BY <3>2, <3>3, <3>4, Zenon DEF OnTrack
    <3> QED
      BY <2>0, <3>1, <3>5, Zenon DEF Taken
  <2>3. CASE Len(r) < Len(g) /\ Continues(Byte, g, c, r, t)
    <3>1. PICK u \in Seq(Byte) : g = r \o u /\ t = u \o c /\ Len(u) = Len(g) - Len(r)
      BY <2>3 DEF Continues
    <3>2. Refused(r)
      BY <2>0, <2>3, <3>1, CutFrameRefused
    <3>3. t # << >>
      <4>1. Len(u) > 0
        BY <2>g, <2>3, <3>1
      <4> QED
        BY <3>1, <4>1
    <3> QED
      BY <3>2, <3>3 DEF Ends
  <2> QED
    BY <2>1, <2>2, <2>3
<1>6. \A x \in ShortCoding : x = ShortFrame
  BY DEF ShortCoding
<1> QED
  <2>1. ASSUME NEW x \in ShortCoding, NEW c \in Seq(Byte), r \o t = x \o c,
               Carries(Byte, HdlcCoding, ShortCoding, c, B)
        PROVE  Ends(D, t, r, out) \/ Passes(D, t, r, out, first)
    BY <1>4, <1>6, <2>1 DEF Bears
  <2>2. ASSUME NEW f \in HdlcCoding, NEW c \in Seq(Byte), NEW E \in Seq(Seq(Byte)),
               r \o t = f[1] \o c, B = <<f[2]>> \o E,
               Carries(Byte, HdlcCoding, ShortCoding, c, E)
        PROVE  Ends(D, t, r, out) \/ Taken(D, t, r, out, first)
    BY <1>5, <2>2 DEF Bears
  <2> QED
    BY <1>2, <1>3, <2>1, <2>2, Zenon DEF FirstIs

(* The decoder on its buffer: what it has written, and what it tracks.     *)
Output == Subspan(buf, 0, write_offset)

Tracks(D, t) == OnTrack(D, t, remaining, Output, is_first)

(* Taking a frame adds its payload to the output.                          *)
LEMMA TakeOutput ==
  ASSUME Inv, TakeFrame
  PROVE  Output' = Output \o Payload(remaining, is_first)
<1> DEFINE payload == Payload(remaining, is_first)
<1>1. /\ payload \in Seq(Byte)
      /\ buf' = CopyTo(buf, payload, write_offset)
      /\ write_offset' = write_offset + Len(payload)
      /\ write_offset' <= Len(buf)
  BY TakeFrameEffect DEF Inv, TypeOK
<1>2. buf \in Seq(Byte) /\ write_offset \in Nat
  BY DEF Inv, TypeOK
<1> HIDE DEF payload
<1>3. Subspan(buf, 0, write_offset)' = Subspan(buf, 0, write_offset) \o payload
  BY <1>1, <1>2, CopyToFront
<1> QED
  BY <1>3 DEF Output, payload

(* Skipping a short frame and taking a frame keep track.                   *)
LEMMA SkipTracks ==
  ASSUME NEW D \in Seq(Seq(Byte)), NEW t \in Seq(Byte), Inv, SkipShortFrame, Tracks(D, t)
  PROVE  Tracks(D, t)'
<1> DEFINE r == remaining
<1>1. r \in Seq(Byte) /\ Len(r) = Len(buf) - read_offset /\ is_first \in BOOLEAN
  BY RemainingType DEF Inv, TypeOK
<1>2. is_mbus_short_frame(r) /\ read_offset' = read_offset + 5 /\ buf' = buf
      /\ Output' = Output /\ is_first' = is_first
  BY DEF SkipShortFrame, Output
<1>3. buf \in Seq(Byte) /\ read_offset \in 0 .. Len(buf)
  BY DEF Inv, TypeOK
<1> HIDE DEF r
<1>4. \/ Ends(D, t, r, Output)
      \/ Passes(D, t, r, Output, is_first)
      \/ Taken(D, t, r, Output, is_first)
  BY <1>1, Track DEF Tracks, r
<1>5. ~ Ends(D, t, r, Output)
  BY <1>2 DEF Ends, Refused
<1>6. ~ Taken(D, t, r, Output, is_first)
  <2> SUFFICES ASSUME NEW f \in HdlcCoding, NEW u \in Seq(Byte), r = f[1] \o u PROVE FALSE
    BY DEF Taken
  <2>1. Reads(f[1] \o u, f, TRUE, TRUE)
    BY CodedFrameReads
  <2> QED
    BY <1>2, <2>1 DEF Reads
<1>7. PICK u \in Seq(Byte) : r = ShortFrame \o u /\ OnTrack(D, t, u, Output, is_first)
  BY <1>4, <1>5, <1>6 DEF Passes
<1>8. remaining' = u
  <2>1. Len(ShortFrame) = 5 /\ ShortFrame \in Seq(Byte)
    BY ShortFrameIs
  <2>2. u \in Seq(Byte)
    BY <1>7
  <2>3. From(ShortFrame \o u, Len(ShortFrame)) = u
    BY <2>1, <2>2, LastPart, Zenon
  <2>4. 5 \in 0 .. Len(buf) - read_offset
    <3>1. Len(r) = 5 + Len(u)
      <4>1. Len(ShortFrame \o u) = Len(ShortFrame) + Len(u)
        BY <2>1, <2>2, LongConcat, Zenon
      <4> QED
        BY <1>7, <2>1, <4>1
    <3> QED
      BY <1>1, <1>3, <2>2, <3>1
  <2>5. From(buf, read_offset + 5) = From(From(buf, read_offset), 5)
    BY <1>3, <2>4, FromFrom, Zenon
  <2>6. From(r, 5) = u
    BY <1>7, <2>1, <2>3
  <2> QED
    BY <1>2, <2>5, <2>6 DEF remaining, r
<1> QED
  BY <1>2, <1>7, <1>8 DEF Tracks

(* What remains behind a frame that was taken.                             *)
LEMMA TakenRemains ==
  ASSUME Inv, TakeFrame, NEW g \in Seq(Byte), NEW u \in Seq(Byte), remaining = g \o u,
         FrameTotal(remaining) = Len(g)
  PROVE  remaining' = u /\ Len(buf') - read_offset' = Len(u)
<1> DEFINE r == remaining
           payload == Payload(r, is_first)
<1>1. r \in Seq(Byte) /\ Len(r) = Len(buf) - read_offset /\ r = g \o u
  BY RemainingType DEF Inv, TypeOK
<1>2. read_offset' = read_offset + Len(g)
  BY DEF TakeFrame
<1>3. buf \in Seq(Byte) /\ read_offset \in 0 .. Len(buf) /\ write_offset \in Nat
  BY DEF Inv, TypeOK
<1>4. /\ payload \in Seq(Byte)
      /\ buf' = CopyTo(buf, payload, write_offset)
      /\ write_offset + Len(payload) <= read_offset' /\ read_offset' \in Nat
  BY TakeFrameEffect
<1> HIDE DEF r, payload
<1>5. From(buf', read_offset') = From(buf, read_offset') /\ Len(buf') = Len(buf)
  BY <1>3, <1>4, CopyToTail, CopyToType
<1>6. From(g \o u, Len(g)) = u
  BY LastPart, Zenon
<1>7. Len(r) = Len(g) + Len(u) /\ Len(g) \in Nat /\ Len(u) \in Nat
  <2>1. Len(g \o u) = Len(g) + Len(u)
    BY LongConcat, Zenon
  <2> QED
    BY <1>1, <2>1
<1>8. Len(g) \in 0 .. Len(buf) - read_offset
  BY <1>1, <1>3, <1>7
<1>9. From(buf, read_offset + Len(g)) = From(From(buf, read_offset), Len(g))
  BY <1>3, <1>8, FromFrom, Zenon
<1>10. From(r, Len(g)) = u
  BY <1>1, <1>6
<1>11. remaining' = u
  BY <1>2, <1>5, <1>9, <1>10 DEF remaining, r
<1>12. Len(buf) \in Nat /\ read_offset \in Nat
  BY <1>3
<1> QED
  BY <1>1, <1>2, <1>5, <1>7, <1>11, <1>12

LEMMA TakeTracks ==
  ASSUME NEW D \in Seq(Seq(Byte)), NEW t \in Seq(Byte), Inv, TakeFrame, Tracks(D, t)
  PROVE  Tracks(D, t)'
<1> DEFINE r == remaining
           payload == Payload(r, is_first)
<1>1. r \in Seq(Byte) /\ Len(r) = Len(buf) - read_offset /\ is_first \in BOOLEAN
      /\ skip_crc_check \in BOOLEAN
  BY RemainingType DEF Inv, TypeOK
<1>2. /\ ~ is_mbus_short_frame(r) /\ FrameOk(r, skip_crc_check)
      /\ read_offset' = read_offset + FrameTotal(r)
      /\ is_first' = FALSE
  BY DEF TakeFrame
<1>5. Output' = Output \o payload
  BY TakeOutput
<1> HIDE DEF r, payload
<1>7. \/ Ends(D, t, r, Output)
      \/ Passes(D, t, r, Output, is_first)
      \/ Taken(D, t, r, Output, is_first)
  BY <1>1, Track DEF Tracks, r
<1>8. ~ Ends(D, t, r, Output)
  BY <1>1, <1>2 DEF Ends, Refused
<1>9. ~ Passes(D, t, r, Output, is_first)
  BY <1>2, ShortFrameReads DEF Passes
<1>10. PICK f \in HdlcCoding, u \in Seq(Byte) :
         /\ r = f[1] \o u
         /\ OnTrack(D, t, u, Output \o (IF is_first THEN WithoutLlc(f[2]) ELSE f[2]), FALSE)
  BY <1>7, <1>8, <1>9 DEF Taken
<1>11. Reads(r, f, skip_crc_check, is_first)
  <2>1. f \in HdlcCoding /\ u \in Seq(Byte)
    BY <1>10
  <2>2. Reads(f[1] \o u, f, skip_crc_check, is_first)
    BY <1>1, <2>1, CodedFrameReads, Zenon
  <2> QED
    BY <1>10, <2>2
<1>12. FrameTotal(r) = Len(f[1])
       /\ payload = IF is_first THEN WithoutLlc(f[2]) ELSE f[2]
  BY <1>11 DEF Reads, payload
<1>13. remaining' = u
  <2>1. f[1] \in Seq(Byte) /\ u \in Seq(Byte) /\ remaining = f[1] \o u
    BY <1>10, CodedIs DEF r
  <2>2. FrameTotal(remaining) = Len(f[1])
    BY <1>12 DEF r
  <2> QED
    BY <2>1, <2>2, TakenRemains, Zenon
<1> QED
  BY <1>2, <1>5, <1>10, <1>12, <1>13 DEF Tracks

(* The loop ends where the data end, or where the line was cut.            *)
LEMMA RejectEnds ==
  ASSUME NEW D \in Seq(Seq(Byte)), Inv, Reject, Tracks(D, << >>)
  PROVE  result' = Delivered(D)
<1> DEFINE r == remaining
<1>1. r \in Seq(Byte) /\ Len(r) = Len(buf) - read_offset /\ is_first \in BOOLEAN
      /\ skip_crc_check \in BOOLEAN /\ << >> \in Seq(Byte)
  BY RemainingType DEF Inv, TypeOK
<1>2. ~ is_mbus_short_frame(r) /\ ~ FrameOk(r, skip_crc_check) /\ result' = << >>
  BY DEF Reject
<1> HIDE DEF r
<1>3. \/ Ends(D, << >>, r, Output)
      \/ Passes(D, << >>, r, Output, is_first)
      \/ Taken(D, << >>, r, Output, is_first)
  BY <1>1, Track DEF Tracks, r
<1>4. ~ Passes(D, << >>, r, Output, is_first)
  BY <1>2, ShortFrameReads DEF Passes
<1>5. ~ Taken(D, << >>, r, Output, is_first)
  <2> SUFFICES ASSUME NEW f \in HdlcCoding, NEW u \in Seq(Byte), r = f[1] \o u PROVE FALSE
    BY DEF Taken
  <2>1. Reads(f[1] \o u, f, skip_crc_check, TRUE)
    BY <1>1, CodedFrameReads
  <2> QED
    BY <1>2, <2>1 DEF Reads
<1>6. r = << >> /\ Output = Delivered(D)
  BY <1>3, <1>4, <1>5 DEF Ends
<1>7. write_offset = 0
  BY <1>1, <1>6 DEF Inv, TypeOK, InPlaceSafe, LoopControl, Reject
<1>8. Output = << >>
  BY <1>7 DEF Inv, TypeOK, Subspan, Output
<1> QED
  BY <1>2, <1>6, <1>8

LEMMA ReturnEnds ==
  ASSUME NEW D \in Seq(Seq(Byte)), NEW t \in Seq(Byte), Inv, Return, Tracks(D, t)
  PROVE  /\ t = << >> => result' = Delivered(D)
         /\ \E A, B \in Seq(Seq(Byte)) : D = A \o B /\ result' = Delivered(A)
<1> DEFINE r == remaining
<1>1. r \in Seq(Byte) /\ Len(r) = Len(buf) - read_offset /\ is_first \in BOOLEAN
      /\ read_offset = Len(buf)
  BY RemainingType DEF Inv, TypeOK, LoopControl, Return
<1>2. r = << >> /\ result' = Output
  BY <1>1 DEF Return, Output
<1> HIDE DEF r
<1>3. \/ Ends(D, t, r, Output)
      \/ Passes(D, t, r, Output, is_first)
      \/ Taken(D, t, r, Output, is_first)
  BY <1>1, Track DEF Tracks, r
<1>4. ~ Passes(D, t, r, Output, is_first)
  <2> SUFFICES ASSUME NEW u \in Seq(Byte), r = ShortFrame \o u PROVE FALSE
    BY DEF Passes
  <2>1. is_mbus_short_frame(r)
    BY ShortFrameReads
  <2> QED
    BY <1>2, <2>1 DEF is_mbus_short_frame
<1>5. ~ Taken(D, t, r, Output, is_first)
  <2> SUFFICES ASSUME NEW f \in HdlcCoding, NEW u \in Seq(Byte), r = f[1] \o u PROVE FALSE
    BY DEF Taken
  <2>1. Reads(f[1] \o u, f, TRUE, TRUE)
    BY <1>1, CodedFrameReads
  <2> QED
    BY <1>2, <2>1 DEF Reads, FrameOk
<1>6. t = << >> => result' = Delivered(D)
  BY <1>2, <1>3, <1>4, <1>5 DEF Ends
<1>7. \E A, B \in Seq(Seq(Byte)) : D = A \o B /\ result' = Delivered(A)
  BY <1>2, Zenon DEF Tracks, OnTrack
<1> QED
  BY <1>6, <1>7

-----------------------------------------------------------------------------

(* The decoder rejects what begins like this.                              *)
Stuck(r) == r # << >> /\ ~ is_mbus_short_frame(r) /\ ~ FrameOk(r, FALSE)

(* A wrong byte between the flags: the HCS does not fit when it changes    *)
(* the length, and the FCS does not fit when it does not.                  *)
LEMMA WrongByteStuck ==
  ASSUME NEW a \in Seq(Byte), GoodAddress(a), NEW b \in Seq(Byte), NEW d \in Seq(Byte),
         Carried(b, a, d), NEW v \in Seq(Byte), Len(v) = Len(b),
         NEW k \in 1 .. Len(b), v[k] # b[k], \A i \in 1 .. Len(b) : i # k => v[i] = b[i],
         NEW t \in Seq(Byte), NEW r, IsFramed(r, v, t)
  PROVE  Stuck(r)
<1>1. /\ r \in Seq(Byte) /\ Len(r) = Len(v) + 2 + Len(t) /\ r[1] = 126
      /\ \A i \in 1 .. Len(v) : r[i + 1] = v[i]
  BY DEF IsFramed
<1>2. /\ Len(b) = Len(a) + Len(d) + 7
      /\ (b[1] % 8) * 256 + b[2] = Len(b)
      /\ \A i \in 1 .. Len(a) : b[i + 2] = a[i]
      /\ crc16_x25_check(SubSeq(b, 1, Len(a) + 5))
      /\ crc16_x25_check(b)
  BY DEF Carried
<1>3. Len(a) \in Nat /\ 2 <= Len(a)
  BY AddressLengths
<1>4. Len(b) \in Nat /\ Len(v) = Len(b) /\ Len(t) \in Nat /\ 9 <= Len(b) /\ Len(a) + 5 <= Len(b)
  <2>1. Len(b) \in Nat /\ Len(d) \in Nat /\ Len(t) \in Nat
    OBVIOUS
  <2> QED
    BY <1>2, <1>3, <2>1
<1>5. r # << >> /\ ~ is_mbus_short_frame(r)
  BY <1>1, <1>4 DEF is_mbus_short_frame, At
<1>6. SUFFICES ASSUME FrameOk(r, FALSE) PROVE FALSE
  BY <1>5 DEF Stuck
<1> DEFINE n == FrameTotal(r) - 2
           p == Inner(r)
<1>7. FrameTotal(r) = (v[1] % 8) * 256 + v[2] + 2
  <2>1. 1 \in 1 .. Len(v) /\ 2 \in 1 .. Len(v)
    BY <1>4
  <2>2. r[1 + 1] = v[1] /\ r[2 + 1] = v[2]
    BY <1>1, <2>1, Zenon
  <2> QED
    BY <2>2 DEF FrameTotal, At
<1>8. v[1] \in Byte /\ v[2] \in Byte
  <2>1. 1 \in 1 .. Len(v) /\ 2 \in 1 .. Len(v)
    BY <1>4
  <2> QED
    BY <2>1
<1>9. n \in Nat /\ n = (v[1] % 8) * 256 + v[2]
  <2>1. v[1] \in Nat /\ v[2] \in Nat
    BY <1>8, ByteIs
  <2> DEFINE m == (v[1] % 8) * 256 + v[2]
  <2>2. m \in Nat
    BY <2>1
  <2>3. FrameTotal(r) = m + 2
    BY <1>7
  <2> HIDE DEF m, p
  <2>4. n = m
    BY <2>2, <2>3
  <2> QED
    BY <2>2, <2>4 DEF m
<1>10. /\ FrameTotal(r) <= Len(r) /\ Len(p) >= 9
       /\ DstLen(p) # 0 /\ SrcLen(p) # 0
       /\ HcsPos[p] + 2 <= Len(p)
       /\ crc16_x25_check(Subspan(p, 0, HcsPos[p] + 2))
       /\ crc16_x25_check(p)
  BY <1>6 DEF FrameOk
<1> HIDE DEF n
<1>11. /\ p \in Seq(Byte) /\ Len(p) = n /\ \A i \in 1 .. n : p[i] = r[i + 1]
  <2>1. FrameTotal(r) = n + 2 /\ n + 2 <= Len(r)
    BY <1>7, <1>9, <1>10
  <2>2. p = SubSeq(r, 2, n + 1)
    BY <1>9, <2>1 DEF Inner, Subspan
  <2> HIDE DEF p
  <2> QED
    <3>1. r \in Seq(Byte) /\ n \in Nat
      BY <1>1, <1>9
    <3>2. IsBehindFirst(Byte, r, n, SubSeq(r, 2, n + 1))
      BY <2>1, <3>1, BehindFirst, Zenon
    <3>3. IsBehindFirst(Byte, r, n, p)
      BY <2>2, <3>2
    <3> QED
      BY <3>3 DEF IsBehindFirst
<1> HIDE DEF p
<1>12. \A i \in 1 .. n : i <= Len(v) => p[i] = v[i]
  <2> SUFFICES ASSUME NEW i \in 1 .. n, i <= Len(v) PROVE p[i] = v[i]
    OBVIOUS
  <2>1. i \in 1 .. Len(v)
    BY <1>4, <1>9
  <2> QED
    BY <1>1, <1>11, <2>1
<1>13. CASE k <= 2
  <2>1. \A i \in 1 .. Len(a) : i + 2 <= Len(p) => p[i + 2] = a[i]
    <3> SUFFICES ASSUME NEW i \in 1 .. Len(a), i + 2 <= Len(p) PROVE p[i + 2] = a[i]
      OBVIOUS
    <3>1. i + 2 \in 1 .. n /\ i + 2 <= Len(v) /\ i + 2 \in 1 .. Len(b) /\ i + 2 # k
      BY <1>2, <1>3, <1>4, <1>11, <1>13
    <3>2. p[i + 2] = v[i + 2] /\ v[i + 2] = b[i + 2] /\ b[i + 2] = a[i]
      BY <1>2, <1>12, <3>1
    <3> QED
      BY <3>2
  <2>2. HcsPos[p] = Len(a) + 3
    <3>1. p \in Seq(Byte) /\ 2 <= Len(p)
      BY <1>10, <1>11
    <3> QED
      BY <1>10, <2>1, <3>1, HcsPosIs
  <2> DEFINE m == Len(a) + 5
             x == SubSeq(p, 1, m)
             y == SubSeq(b, 1, m)
  <2>3. m \in Nat /\ m <= Len(p) /\ m <= Len(b) /\ m \in 0 .. Len(p) /\ m \in 0 .. Len(b) /\ 5 <= m
    BY <1>3, <1>4, <1>10, <2>2
  <2>4. Subspan(p, 0, HcsPos[p] + 2) = x
    BY <1>3, <2>2 DEF Subspan
  <2> HIDE DEF m
  <2>5. x \in Seq(Byte) /\ Len(x) = m /\ \A i \in 1 .. m : x[i] = p[i]
    BY <1>11, <2>3, PrefixesAgree
  <2>6. y \in Seq(Byte) /\ Len(y) = m /\ \A i \in 1 .. m : y[i] = b[i]
    BY <2>3, PrefixesAgree
  <2>7. crc16_x25_check(x) /\ crc16_x25_check(y)
    BY <1>2, <1>10, <2>4 DEF m
  <2> HIDE DEF x, y
  <2>8. \A i \in 1 .. m : i \in 1 .. n /\ i <= Len(v) /\ i \in 1 .. Len(b)
    BY <1>4, <1>11, <2>3
  <2>9. k \in 1 .. m
    BY <1>13, <2>3
  <2>10. x[k] # y[k] /\ \A i \in 1 .. m : i # k => x[i] = y[i]
    <3>1. x[k] = v[k] /\ y[k] = b[k]
      BY <1>12, <2>5, <2>6, <2>8, <2>9
    <3>2. ASSUME NEW i \in 1 .. m, i # k PROVE x[i] = y[i]
      <4>1. i \in 1 .. n /\ i <= Len(v) /\ i \in 1 .. Len(b)
        BY <2>8
      <4>2. x[i] = p[i] /\ p[i] = v[i] /\ v[i] = b[i] /\ y[i] = b[i]
        BY <1>12, <2>5, <2>6, <3>2, <4>1
      <4> QED
        BY <4>2
    <3> QED
      BY <3>1, <3>2
  <2>11. Crc16(x) # Crc16(y)
    BY <2>5, <2>6, <2>9, <2>10, CrcDetects
  <2> QED
    BY <2>7, <2>11, SMT DEF crc16_x25_check
<1>14. CASE 2 < k
  <2>1. v[1] = b[1] /\ v[2] = b[2]
    <3>1. 1 \in 1 .. Len(b) /\ 1 # k /\ 2 \in 1 .. Len(b) /\ 2 # k
      BY <1>4, <1>14
    <3> QED
      BY <3>1
  <2>2. n = Len(b)
    BY <1>2, <1>9, <2>1
  <2>3. p = v
    <3>1. \A i \in 1 .. n : p[i] = v[i]
      BY <1>4, <1>12, <2>2
    <3> QED
      BY <1>4, <1>11, <2>2, <3>1, SeqEqual
  <2>4. Crc16(v) # Crc16(b)
    BY <1>4, CrcDetects
  <2> QED
    BY <1>2, <1>10, <2>3, <2>4, SMT DEF crc16_x25_check
<1>15. k <= 2 \/ 2 < k
  OBVIOUS
<1> QED
  BY <1>13, <1>14, <1>15, Zenon

(* What a flipped bit can make of a byte: another byte, but no flag        *)
(* becomes the start of a short frame.                                     *)
FlipsTo(byte, bit, v) ==
  /\ v \in Byte /\ v # byte
  /\ byte = 126 => v # 16

BitMasks == {1, 2, 4, 8, 16, 32, 64, 128}

LEMMA FlippedByte ==
  ASSUME NEW byte \in Byte, NEW bit \in BitMasks
  PROVE  FlipsTo(byte, bit, Link!FlipBit(byte, bit))
<1> DEFINE v == Link!FlipBit(byte, bit)
<1>1. byte \in Nat /\ byte <= 255
  BY ByteIs
<1>2. /\ v = IF (byte \div bit) % 2 = 1 THEN byte - bit ELSE byte + bit
  BY DEF Link!FlipBit
<1> HIDE DEF v
<1>3. v \in Nat /\ v <= 255 /\ v # byte
  <2>1. CASE bit = 1
    BY <1>1, <1>2, <2>1
  <2>2. CASE bit = 2
    BY <1>1, <1>2, <2>2
  <2>3. CASE bit = 4
    BY <1>1, <1>2, <2>3
  <2>4. CASE bit = 8
    BY <1>1, <1>2, <2>4
  <2>5. CASE bit = 16
    BY <1>1, <1>2, <2>5
  <2>6. CASE bit = 32
    BY <1>1, <1>2, <2>6
  <2>7. CASE bit = 64
    BY <1>1, <1>2, <2>7
  <2>8. CASE bit = 128
    BY <1>1, <1>2, <2>8
  <2> QED
    BY <2>1, <2>2, <2>3, <2>4, <2>5, <2>6, <2>7, <2>8 DEF BitMasks
<1>4. byte = 126 => v # 16
  BY <1>2 DEF BitMasks
<1>5. v \in Byte
  BY <1>3, ByteIs
<1> QED
  BY <1>3, <1>4, <1>5 DEF FlipsTo, v

(* A frame with a wrong byte is noticed, or it is the closing flag that is *)
(* wrong.                                                                  *)
Noticed(f, w) ==
  \/ \E h \in HdlcCoding : h[1] = w /\ h[2] = f[2]
  \/ \A z \in Seq(Byte) : Stuck(w \o z)

LEMMA WrongByteNoticed ==
  ASSUME NEW f \in HdlcCoding, NEW k \in 1 .. Len(f[1]), NEW bit, NEW v,
         FlipsTo(f[1][k], bit, v)
  PROVE  Noticed(f, Replaced(f[1], k, v))
<1> DEFINE g == f[1]
           d == f[2]
           w == Replaced(g, k, v)
           flag == <<126>>
<1>1. PICK a \in Seq(Byte), b \in Seq(Byte), c \in Byte :
        GoodAddress(a) /\ Carried(b, a, d) /\ g = flag \o (b \o <<c>>)
  BY CodedIs, Zenon
<1>2. g \in Seq(Byte) /\ d \in Seq(Byte) /\ k \in 1 .. Len(g)
  BY CodedIs
<1>3. v \in Byte /\ v # g[k] /\ (g[k] = 126 => v # 16)
  BY DEF FlipsTo
<1>4. a \in Seq(Byte) /\ b \in Seq(Byte) /\ c \in Byte /\ <<c>> \in Seq(Byte)
      /\ Len(<<c>>) = 1 /\ <<c>>[1] = c /\ <<v>> \in Seq(Byte)
  BY <1>1, <1>3
<1>5. flag \in Seq(Byte) /\ Len(flag) = 1 /\ flag[1] = 126
  <2> DEFINE S == Byte
  <2>1. 126 \in S
    BY ByteIs
  <2> HIDE DEF S
  <2>2. flag \in Seq(S) /\ Len(flag) = 1 /\ flag[1] = 126
    BY <2>1
  <2> QED
    BY <2>2 DEF S
<1> HIDE DEF g, d, flag
<1> DEFINE p == b \o <<c>>
<1>6. p \in Seq(Byte) /\ Len(p) = Len(b) + 1
  BY <1>4
<1> HIDE DEF p
<1>7. g = flag \o p /\ Len(g) = Len(b) + 2 /\ g[1] = 126
  <2>1. g = flag \o p
    BY <1>1 DEF p
  <2>2. IsConcat(Byte, flag, p, flag \o p)
    BY <1>5, <1>6, ConcatIs, Zenon
  <2>3. IsConcat(Byte, flag, p, g)
    BY <2>1, <2>2, Zenon
  <2>4. /\ Len(g) = Len(flag) + Len(p) /\ \A i \in 1 .. Len(flag) : g[i] = flag[i]
    BY <2>3, Zenon DEF IsConcat
  <2> QED
    BY <1>5, <1>6, <2>1, <2>4
<1>8. IsReplaced(Byte, g, k, v, w)
  BY <1>2, <1>3, ReplaceIs, Zenon
<1>9. w \in Seq(Byte) /\ Len(w) = Len(g) /\ w[k] = v
  BY <1>8, Zenon DEF IsReplaced
<1> HIDE DEF w
<1>10. CASE k = 1
  <2>1. ASSUME NEW z \in Seq(Byte) PROVE Stuck(w \o z)
    <3> DEFINE r == w \o z
    <3>1. r[1] = v /\ Len(r) > 0
      BY <1>7, <1>9, <1>10
    <3> HIDE DEF r
    <3>2. v # 126 /\ v # 16
      BY <1>3, <1>7, <1>10
    <3>3. r # << >>
      BY <3>1
    <3>4. ~ is_mbus_short_frame(r) /\ ~ FrameOk(r, FALSE)
      BY <3>1, <3>2 DEF is_mbus_short_frame, FrameOk, At, HDLC_FLAG
    <3> QED
      BY <3>3, <3>4 DEF r, Stuck
  <2> QED
    BY <2>1, Zenon DEF Noticed, w, g
<1>11. ASSUME 1 < k PROVE w = flag \o Replaced(p, k - 1, v)
  <2>1. k - 1 \in 1 .. Len(p) /\ Len(flag) + (k - 1) = k
    BY <1>2, <1>4, <1>5, <1>6, <1>7, <1>11
  <2>2. ReplacesLast(flag, p, k - 1, v)
    BY <1>3, <1>5, <1>6, <2>1, ReplaceLast
  <2>3. Replaced(flag \o p, Len(flag) + (k - 1), v) = flag \o Replaced(p, k - 1, v)
    BY <2>2, Zenon DEF ReplacesLast
  <2> QED
    BY <1>7, <2>1, <2>3 DEF w
<1>12. CASE 1 < k /\ k <= Len(b) + 1
  <2> DEFINE j == k - 1
             u == Replaced(b, j, v)
  <2>1. j \in 1 .. Len(b) /\ j \in Nat /\ j + 1 = k
    BY <1>2, <1>4, <1>12
  <2>2. IsReplaced(Byte, b, j, v, u)
    BY <1>3, <1>4, <2>1, ReplaceIs
  <2> HIDE DEF u, j
  <2>3. /\ u \in Seq(Byte) /\ Len(u) = Len(b) /\ u[j] = v
        /\ \A i \in 1 .. Len(b) : i # j => u[i] = b[i]
    BY <2>2, Zenon DEF IsReplaced
  <2>4. w = flag \o (u \o <<c>>)
    <3>1. ReplacesFirst(b, <<c>>, j, v)
      BY <1>3, <1>4, <2>1, ReplaceFirst
    <3>2. Replaced(p, j, v) = u \o <<c>>
      BY <3>1, Zenon DEF ReplacesFirst, p, u
    <3> QED
      BY <1>11, <1>12, <3>2 DEF j
  <2>5. b[j] = g[k]
    <3>1. g = flag \o p /\ flag \in Seq(Byte) /\ p \in Seq(Byte) /\ Len(flag) = 1
      BY <1>5, <1>6, <1>7
    <3>2. g[k] = p[j]
      <4>1. IsConcat(Byte, flag, p, flag \o p)
        BY <3>1, ConcatIs, Zenon
      <4>2. IsConcat(Byte, flag, p, g)
        BY <3>1, <4>1
      <4>3. \A i \in 1 .. Len(p) : g[Len(flag) + i] = p[i]
        BY <4>2, Zenon DEF IsConcat
      <4>4. j \in 1 .. Len(p) /\ Len(flag) + j = k
        BY <1>4, <1>6, <2>1, <3>1
      <4> QED
        BY <4>3, <4>4
    <3>3. p[j] = b[j]
      BY <1>4, <2>1 DEF p
    <3> QED
      BY <3>2, <3>3
  <2>6. ASSUME NEW z \in Seq(Byte) PROVE Stuck(w \o z)
    <3>1. IsFramed(w \o z, u, z)
      <4>1. IsFramed((<<126>> \o (u \o <<c>>)) \o z, u, z)
        BY <1>4, <2>3, FrameParts
      <4> QED
        BY <2>4, <4>1 DEF flag
    <3>2. u[j] # b[j]
      BY <1>3, <2>3, <2>5
    <3> HIDE DEF w
    <3>3. Carried(b, a, d) /\ GoodAddress(a)
      BY <1>1
    <3> QED
      BY <1>2, <1>4, <2>1, <2>3, <3>1, <3>2, <3>3, WrongByteStuck
  <2> QED
    BY <2>6, Zenon DEF Noticed, w, g
<1>13. CASE k = Len(b) + 2
  <2>1. w = flag \o (b \o <<v>>)
    <3>1. ReplacesLast(b, <<c>>, 1, v)
      <4>1. 1 \in 1 .. Len(<<c>>)
        BY <1>4
      <4> QED
        BY <1>3, <1>4, <4>1, ReplaceLast
    <3>2. Replaced(<<c>>, 1, v) = <<v>>
      BY DEF Replaced
    <3>3. Replaced(b \o <<c>>, Len(b) + 1, v) = b \o <<v>>
      BY <3>1, <3>2 DEF ReplacesLast
    <3>4. k - 1 = Len(b) + 1 /\ 1 < k
      BY <1>4, <1>13
    <3> QED
      BY <1>11, <3>3, <3>4 DEF p
  <2> DEFINE h == <<w, d>>
  <2>2. h \in Seq(Byte) \X Seq(Byte) /\ h[1] = w /\ h[2] = d
    BY <1>2, <1>9
  <2> HIDE DEF h
  <2>3. GoodAddress(a) /\ Carried(b, a, h[2]) /\ h[1] = <<126>> \o (b \o <<v>>)
    BY <1>1, <2>1, <2>2 DEF flag
  <2>4. h \in HdlcCoding
    <3>1. a \in Seq(Byte) /\ b \in Seq(Byte) /\ v \in Byte
      BY <1>1, <1>3
    <3> QED
      BY <2>2, <2>3, <3>1, Zenon DEF HdlcCoding
  <2> QED
    BY <2>2, <2>4 DEF Noticed, w, g, d
<1>14. k = 1 \/ (1 < k /\ k <= Len(b) + 1) \/ k = Len(b) + 2
  BY <1>2, <1>4, <1>7
<1> QED
  BY <1>10, <1>12, <1>13, <1>14 DEF w, g

(* Where the decoder stops at a frame that is not what was sent.           *)
Doomed(r) ==
  \E x, w \in Seq(Byte), A \in Seq(Seq(Byte)) :
    /\ r = x \o w /\ Carries(Byte, HdlcCoding, {}, x, A)
    /\ \A y \in Seq(Byte) : Stuck(w \o y)

LEMMA WrongByteOnLine ==
  ASSUME NEW b, NEW D, Carries(Byte, HdlcCoding, {}, b, D),
         NEW k \in 1 .. Len(b), NEW bit \in BitMasks, NEW v,
         v = Link!FlipBit(b[k], bit)
  PROVE  LET c == Replaced(b, k, v)
         IN  c \in Seq(Byte) /\ (Carries(Byte, HdlcCoding, {}, c, D) \/ Doomed(c))
<1> DEFINE line == Replaced(b, k, v)
<1>0. {} \in SUBSET Seq(Byte) /\ HdlcCoding \in SUBSET (Seq(Byte) \X Seq(Byte))
  BY CodingType
<1>1. b \in Seq(Byte) /\ D \in Seq(Seq(Byte))
  BY <1>0, CarriesType, Zenon
<1>2. FlipsTo(b[k], bit, v) /\ v \in Byte
  <2>1. b[k] \in Byte
    BY <1>1
  <2>2. FlipsTo(b[k], bit, v)
    BY <2>1, FlippedByte
  <2> QED
    BY <2>2 DEF FlipsTo
<1>3. HasAt(Byte, HdlcCoding, b, D, k)
  BY <1>0, CarriesAt, Zenon
<1>4. PICK x \in Seq(Byte), z \in Seq(Byte), f \in HdlcCoding, A \in Seq(Seq(Byte)), B \in Seq(Seq(Byte)) :
        /\ b = x \o (f[1] \o z) /\ D = A \o (<<f[2]>> \o B)
        /\ Carries(Byte, HdlcCoding, {}, x, A) /\ Carries(Byte, HdlcCoding, {}, z, B)
        /\ Len(x) < k /\ k <= Len(x) + Len(f[1])
  BY <1>3, Zenon DEF HasAt
<1> DEFINE g == f[1]
           d == f[2]
           j == k - Len(x)
           u == Replaced(g, j, v)
<1>5. g \in Seq(Byte) /\ d \in Seq(Byte)
  BY CodedIs
<1>6. j \in 1 .. Len(g) /\ Len(x) + j = k
  <2>1. Len(x) \in Nat /\ Len(g) \in Nat /\ k \in Nat
    BY <1>1, <1>5
  <2> HIDE DEF u
  <2> QED
    BY <1>4, <2>1
<1>a. b = x \o (g \o z) /\ x \in Seq(Byte) /\ z \in Seq(Byte)
  BY <1>4
<1> HIDE DEF g, d, j, u, line
<1>7. b[k] = g[j]
  <2>1. IsConcat(Byte, g, z, g \o z) /\ g \o z \in Seq(Byte)
    BY <1>5, <1>a, ConcatIs, Assoc, Zenon
  <2> DEFINE y == g \o z
  <2>2. y \in Seq(Byte) /\ b = x \o y /\ IsConcat(Byte, g, z, y)
    BY <1>a, <2>1
  <2> HIDE DEF y
  <2>3. IsConcat(Byte, x, y, x \o y)
    BY <1>a, <2>2, ConcatIs, Zenon
  <2>4. IsConcat(Byte, x, y, b)
    BY <2>2, <2>3
  <2>5. \A i \in 1 .. Len(y) : b[Len(x) + i] = y[i]
    BY <2>4, Zenon DEF IsConcat
  <2>6. Len(y) = Len(g) + Len(z) /\ \A i \in 1 .. Len(g) : y[i] = g[i]
    BY <2>2, Zenon DEF IsConcat
  <2>7. j \in 1 .. Len(y) /\ j \in 1 .. Len(g)
    BY <1>5, <1>6, <1>a, <2>6
  <2> QED
    BY <1>6, <2>5, <2>6, <2>7
<1>8. line = x \o (u \o z)
  <2>1. g \o z \in Seq(Byte) /\ Len(g \o z) = Len(g) + Len(z)
    BY <1>5, <1>a, LongConcat, Zenon
  <2>2. j \in 1 .. Len(g \o z)
    BY <1>5, <1>6, <1>a, <2>1
  <2>3. ReplacesLast(x, g \o z, j, v)
    BY <1>2, <1>a, <2>1, <2>2, ReplaceLast, Zenon
  <2>4. ReplacesFirst(g, z, j, v)
    BY <1>2, <1>5, <1>6, <1>a, ReplaceFirst, Zenon
  <2>5. Replaced(x \o (g \o z), Len(x) + j, v) = x \o Replaced(g \o z, j, v)
    BY <2>3, Zenon DEF ReplacesLast
  <2>6. Replaced(g \o z, j, v) = u \o z
    BY <2>4, Zenon DEF ReplacesFirst, u
  <2> QED
    BY <1>6, <1>a, <2>5, <2>6 DEF line
<1>9. u \in Seq(Byte)
  <2>1. IsReplaced(Byte, g, j, v, u)
    BY <1>2, <1>5, <1>6, ReplaceIs, Zenon DEF u
  <2> QED
    BY <2>1 DEF IsReplaced
<1>10. line \in Seq(Byte)
  <2>1. u \o z \in Seq(Byte)
    BY <1>9, <1>a, Assoc, Zenon
  <2>2. x \o (u \o z) \in Seq(Byte)
    BY <1>a, <2>1, LongConcat, Zenon
  <2> QED
    BY <1>8, <2>2
<1>11. Noticed(f, u)
  <2>1. FlipsTo(f[1][j], bit, v) /\ f \in HdlcCoding /\ j \in 1 .. Len(f[1])
    BY <1>2, <1>4, <1>6, <1>7 DEF g
  <2>2. Noticed(f, Replaced(f[1], j, v))
    BY <2>1, WrongByteNoticed, Zenon
  <2> QED
    BY <2>2 DEF g, u
<1>12. CASE \E h \in HdlcCoding : h[1] = u /\ h[2] = d
  <2>1. PICK h \in HdlcCoding : h[1] = u /\ h[2] = d
    BY <1>12
  <2>2. Carries(Byte, HdlcCoding, {}, h[1], <<h[2]>>)
    <3>1. h \in HdlcCoding
      BY <2>1
    <3> QED
      BY <1>0, <3>1, CarriesOne, Zenon
  <2>4. Carries(Byte, HdlcCoding, {}, u, <<d>>)
    BY <2>1, <2>2
  <2>5. Carries(Byte, HdlcCoding, {}, u \o z, <<d>> \o B)
    BY <1>0, <1>4, <2>4, CarriesConcat, Zenon
  <2>6. Carries(Byte, HdlcCoding, {}, x \o (u \o z), A \o (<<d>> \o B))
    <3>1. Carries(Byte, HdlcCoding, {}, x, A)
      BY <1>4
    <3> QED
      BY <1>0, <2>5, <3>1, CarriesConcat, Zenon
  <2>7. D = A \o (<<d>> \o B)
    BY <1>4 DEF d
  <2>8. Carries(Byte, HdlcCoding, {}, line, D)
    BY <1>8, <2>6, <2>7
  <2> QED
    BY <1>10, <2>8 DEF line
<1>13. CASE \A y \in Seq(Byte) : Stuck(u \o y)
  <2>0. u \o z \in Seq(Byte)
    BY <1>9, <1>a, Assoc, Zenon
  <2>1. ASSUME NEW y \in Seq(Byte) PROVE Stuck((u \o z) \o y)
    <3>1. Associates(u, z, y) /\ z \o y \in Seq(Byte)
      BY <1>9, <1>a, Assoc, Zenon
    <3>2. Stuck(u \o (z \o y))
      BY <1>13, <3>1, Zenon
    <3> QED
      BY <3>1, <3>2, Zenon DEF Associates
  <2>2. Doomed(line)
    BY <1>4, <1>8, <1>a, <2>0, <2>1, Zenon DEF Doomed
  <2> QED
    BY <1>10, <2>2 DEF line
<1> QED
  BY <1>11, <1>12, <1>13 DEF Noticed, d

LEMMA DoomedMore ==
  ASSUME NEW r \in Seq(Byte), Doomed(r), NEW c \in Seq(Byte)
  PROVE  Doomed(r \o c)
<1>1. PICK x \in Seq(Byte), w \in Seq(Byte), A \in Seq(Seq(Byte)) :
        /\ r = x \o w /\ Carries(Byte, HdlcCoding, {}, x, A)
        /\ \A y \in Seq(Byte) : Stuck(w \o y)
  BY DEF Doomed
<1>2. x \in Seq(Byte) /\ w \in Seq(Byte)
  BY <1>1
<1>3. Associates(x, w, c) /\ w \o c \in Seq(Byte)
  BY <1>2, Assoc, Zenon
<1>4. ASSUME NEW y \in Seq(Byte) PROVE Stuck((w \o c) \o y)
  <2>1. Associates(w, c, y) /\ c \o y \in Seq(Byte)
    BY <1>2, Assoc, Zenon
  <2>2. Stuck(w \o (c \o y))
    BY <1>1, <2>1, Zenon
  <2> QED
    BY <2>1, <2>2, Zenon DEF Associates
<1>5. r \o c = x \o (w \o c)
  BY <1>1, <1>3, Zenon DEF Associates
<1> QED
  BY <1>1, <1>2, <1>3, <1>4, <1>5, Zenon DEF Doomed

(* Up to there the decoder goes from frame to frame.                       *)
LEMMA DoomedFirst ==
  ASSUME NEW r \in Seq(Byte), Doomed(r)
  PROVE  /\ r # << >>
         /\ \/ Stuck(r)
            \/ \E f \in HdlcCoding, u \in Seq(Byte) : r = f[1] \o u /\ Doomed(u)
<1>0. {} \in SUBSET Seq(Byte) /\ HdlcCoding \in SUBSET (Seq(Byte) \X Seq(Byte))
      /\ << >> \in Seq(Byte)
  BY CodingType
<1>1. PICK x \in Seq(Byte), w \in Seq(Byte), A \in Seq(Seq(Byte)) :
        /\ r = x \o w /\ Carries(Byte, HdlcCoding, {}, x, A)
        /\ \A y \in Seq(Byte) : Stuck(w \o y)
  BY DEF Doomed
<1>2. x \in Seq(Byte) /\ w \in Seq(Byte)
  BY <1>1
<1>3. Stuck(w)
  <2>1. Stuck(w \o << >>)
    BY <1>0, <1>1
  <2>2. w \o << >> = w
    BY <1>2
  <2> QED
    BY <2>1, <2>2
<1>4. r # << >>
  <2>1. w # << >>
    BY <1>3 DEF Stuck
  <2> QED
    BY <1>1, <1>2, <2>1
<1>5. FirstIs(Byte, HdlcCoding, {}, x, A)
  <2>1. Carries(Byte, HdlcCoding, {}, x, A)
    BY <1>1
  <2> QED
    BY <1>0, <2>1, CarriesFirst, Zenon
<1>6. CASE x = << >> /\ A = << >>
  <2>1. r = w
    BY <1>1, <1>2, <1>6
  <2> QED
    BY <1>3, <1>4, <2>1
<1>7. ASSUME NEW f \in HdlcCoding, NEW c \in Seq(Byte), NEW E \in Seq(Seq(Byte)),
             x = f[1] \o c, A = <<f[2]>> \o E, Carries(Byte, HdlcCoding, {}, c, E)
      PROVE  \E u \in Seq(Byte) : r = f[1] \o u /\ Doomed(u)
  <2> DEFINE g == f[1]
  <2>1. g \in Seq(Byte) /\ x = g \o c
    BY <1>7, CodedIs
  <2> HIDE DEF g
  <2>2. Associates(g, c, w) /\ c \o w \in Seq(Byte)
    BY <1>2, <2>1, Assoc, Zenon
  <2>3. r = g \o (c \o w)
    BY <1>1, <2>1, <2>2, Zenon DEF Associates
  <2>4. Doomed(c \o w)
    BY <1>1, <1>2, <1>7, Zenon DEF Doomed
  <2> QED
    BY <2>2, <2>3, <2>4, Zenon DEF g
<1> QED
  BY <1>4, <1>5, <1>6, <1>7, Zenon DEF FirstIs

-----------------------------------------------------------------------------
(* The meter and the line.                                                 *)

(* The first piece of a message with its LLC header.                       *)
WithLlc(p) == <<230, 231, 0>> \o p

(* A frame that the decoder reads as the data d.                           *)
IsCoded(f, d) == f \in Seq(Byte) /\ d \in Seq(Byte) /\ <<f, d>> \in HdlcCoding

LEMMA FrameOfPiece ==
  ASSUME NEW a \in Seq(Byte), GoodAddress(a), NEW p \in Seq(Byte), Fits(a, p),
         NEW more \in BOOLEAN
  PROVE  /\ WithLlc(p) \in Seq(Byte)
         /\ IsCoded(HdlcFrame(a, p, more), p)
         /\ IsCoded(HdlcFrame(a, WithLlc(p), more), WithLlc(p))
<1> DEFINE S == Byte
           l == <<230, 231, 0>>
           h == l \o p
<1>1. 230 \in S /\ 231 \in S /\ 0 \in S
  BY ByteIs
<1>2. l \in Seq(S) /\ Len(l) = 3
  <2> HIDE DEF S
  <2> QED
    BY <1>1
<1> HIDE DEF l
<1>3. h \in Seq(Byte) /\ Len(h) = Len(l) + Len(p)
  BY <1>2, ConcatProperties, Zenon
<1>l. Len(l) = 3
  BY <1>2
<1>h. h = WithLlc(p)
  BY DEF WithLlc, l
<1> HIDE DEF h, S
<1>4. LengthFits(a, p) /\ LengthFits(a, h)
  <2>1. Len(h) = Len(p) + 3
    <3>1. Len(p) \in Nat
      OBVIOUS
    <3> QED
      BY <1>3, <1>l, <3>1
  <2> QED
    BY <2>1 DEF Fits, LengthFits
<1>5. IsCoded(HdlcFrame(a, p, more), p)
  BY <1>4, HdlcFrameIsCoded, Zenon DEF IsCoded
<1>6. IsCoded(HdlcFrame(a, h, more), h)
  BY <1>3, <1>4, HdlcFrameIsCoded, Zenon DEF IsCoded
<1> QED
  BY <1>3, <1>5, <1>6, <1>h

(* A message, its pieces with the LLC header in front, and its frames.     *)
LEMMA MessageType ==
  ASSUME message \in Messages
  PROVE  /\ message.address \in Seq(Byte) /\ GoodAddress(message.address)
         /\ message.pieces \in Seq(Seq(Byte)) /\ message.pieces # << >>
         /\ \A i \in DOMAIN message.pieces : Fits(message.address, message.pieces[i])
  BY PushAssumption DEF IsMessage

LEMMA HeadedIs ==
  ASSUME message \in Messages
  PROVE  /\ Headed \in Seq(Seq(Byte)) /\ Len(Headed) = Len(message.pieces)
         /\ Len(message.pieces) \in Nat /\ 1 <= Len(message.pieces)
         /\ Headed[1] = WithLlc(message.pieces[1])
         /\ \A i \in 1 .. Len(message.pieces) : i # 1 => Headed[i] = message.pieces[i]
<1> DEFINE P == message.pieces
           W == Seq(Byte)
           h == WithLlc(P[1])
<1>1. P \in Seq(W) /\ P # << >> /\ message.address \in Seq(Byte)
      /\ GoodAddress(message.address) /\ 1 \in 1 .. Len(P)
  <2>1. P \in Seq(W) /\ P # << >>
    BY MessageType
  <2>2. 1 \in 1 .. Len(P)
    <3> HIDE DEF W, P
    <3> QED
      BY <2>1
  <2> QED
    BY <2>1, <2>2, MessageType
<1>2. P[1] \in Seq(Byte) /\ Fits(message.address, P[1])
  <2>1. P[1] \in W
    <3> HIDE DEF W
    <3> QED
      BY <1>1
  <2>2. 1 \in DOMAIN P
    <3> HIDE DEF W
    <3> QED
      BY <1>1
  <2> QED
    BY <2>1, <2>2, MessageType
<1>3. h \in W
  BY <1>1, <1>2, FrameOfPiece, Zenon
<1>4. Headed = [P EXCEPT ![1] = h]
  BY DEF Headed, WithLlc
<1> HIDE DEF W, h
<1>5. /\ Headed \in Seq(W) /\ Len(Headed) = Len(P) /\ Headed[1] = h
      /\ \A i \in 1 .. Len(P) : i # 1 => Headed[i] = P[i]
  <2> HIDE DEF P
  <2> QED
    BY <1>1, <1>3, <1>4
<1>6. Len(P) \in Nat /\ 1 <= Len(P)
  BY <1>1
<1> QED
  BY <1>5, <1>6 DEF h, W

LEMMA MessageEncoded ==
  ASSUME message \in Messages
  PROVE  Encodes(Byte, HdlcCoding, HdlcFrames(message), Headed)
<1> DEFINE P == message.pieces
           a == message.address
           F == HdlcFrames(message)
           n == Len(P)
           W == Seq(Byte)
<1>1. /\ Headed \in Seq(Seq(Byte)) /\ Len(Headed) = n /\ n \in Nat /\ 1 <= n
      /\ Headed[1] = WithLlc(P[1])
      /\ \A i \in 1 .. n : i # 1 => Headed[i] = P[i]
  BY HeadedIs
<1>2. /\ a \in Seq(Byte) /\ GoodAddress(a) /\ P \in Seq(Seq(Byte))
      /\ \A i \in DOMAIN P : Fits(a, P[i])
  BY MessageType
<1>3. DOMAIN P = 1 .. n /\ \A i \in 1 .. n : P[i] \in Seq(Byte) /\ Fits(a, P[i])
  <2>1. DOMAIN P = 1 .. n /\ \A i \in 1 .. n : P[i] \in W
    <3>1. P \in Seq(W)
      BY <1>2
    <3> HIDE DEF W
    <3> QED
      BY <3>1
  <2> QED
    BY <1>2, <2>1
<1>4. \A i \in 1 .. n :
        F[i] = HdlcFrame(a, IF i = 1 THEN WithLlc(P[i]) ELSE P[i], i < n)
  BY <1>3 DEF HdlcFrames, WithLlc
<1>5. F = [i \in 1 .. n |-> F[i]]
  BY <1>3 DEF HdlcFrames
<1> HIDE DEF P, a, F, n
<1>6. ASSUME NEW i \in 1 .. n
      PROVE  F[i] \in W /\ <<F[i], Headed[i]>> \in HdlcCoding
  <2>1. P[i] \in Seq(Byte) /\ Fits(a, P[i]) /\ (i < n) \in BOOLEAN
    BY <1>3
  <2> DEFINE m == i < n
             p == P[i]
  <2> HIDE DEF m, p
  <2>m. m \in BOOLEAN /\ p \in Seq(Byte) /\ Fits(a, p)
    BY <2>1 DEF m, p
  <2>c. IsCoded(HdlcFrame(a, p, m), p) /\ IsCoded(HdlcFrame(a, WithLlc(p), m), WithLlc(p))
    BY <1>2, <2>m, FrameOfPiece, Zenon
  <2>2. CASE i = 1
    <3>1. F[i] = HdlcFrame(a, WithLlc(p), m) /\ Headed[i] = WithLlc(p)
      BY <1>1, <1>4, <2>2 DEF m, p
    <3> QED
      BY <2>c, <3>1, Zenon DEF IsCoded, W
  <2>3. CASE i # 1
    <3>1. F[i] = HdlcFrame(a, p, m) /\ Headed[i] = p
      BY <1>1, <1>4, <2>3 DEF m, p
    <3> QED
      BY <2>c, <3>1, Zenon DEF IsCoded, W
  <2> QED
    BY <2>2, <2>3
<1> HIDE DEF W
<1>w. \A i \in 1 .. n : F[i] \in W
  BY <1>6
<1>7. F \in Seq(W) /\ Len(F) = n
  <2>1. n \in Nat
    BY <1>1
  <2> QED
    BY <1>5, <1>w, <2>1
<1>8. F \in Seq(Seq(Byte)) /\ Len(F) = Len(Headed)
  BY <1>1, <1>7 DEF W
<1>9. \A i \in 1 .. Len(Headed) : <<F[i], Headed[i]>> \in HdlcCoding
  BY <1>1, <1>6
<1> QED
  BY <1>1, <1>8, <1>9, Zenon DEF F, Encodes

(* What the line carries before the first short frame, and after.          *)
NoiseSoFar == IF chatter = 0 THEN {} ELSE ShortCoding

OnLine(D, t) ==
  Sending(Byte, HdlcCoding, NoiseSoFar, HdlcFrames(message), Headed, queue, air, t, D)

(* What a push delivers the frames of, all in all.                         *)
Allowed(D) ==
  IF fault \in {"lost", "repeated"}
  THEN \E k \in DOMAIN Headed : D = Disturbed(k)
  ELSE D = Headed

(* The invariant of the link: what is on the line and in the queue, in     *)
(* each way the line may have disturbed the push.                          *)
LinkType ==
  /\ air \in Seq(Byte) /\ chatter \in Nat
  /\ fault \in {"none", "lost", "repeated", "cut", "corrupted", "foreign"}
  /\ fault # "foreign" => message \in Messages
  /\ fault \in {"cut", "corrupted", "foreign"} => queue = << >>

LinkInv ==
  /\ LinkType
  /\ fault \in {"none", "lost", "repeated"} => \E D : Allowed(D) /\ OnLine(D, << >>)
  /\ fault = "cut" => \E t \in Seq(Byte) : OnLine(Headed, t)
  /\ fault = "corrupted" => Bears(air, Headed) \/ Doomed(air)

LEMMA NoiseType ==
  /\ NoiseSoFar \in SUBSET Seq(Byte) /\ ShortCoding \in SUBSET Seq(Byte)
  /\ NoiseSoFar \in SUBSET ShortCoding
<1>1. ShortCoding \in SUBSET Seq(Byte)
  BY ShortFrameIs DEF ShortCoding
<1> QED
  BY <1>1 DEF NoiseSoFar

(* Every step of the meter and the line preserves it.                      *)
LEMMA LinkStarts == PushInit => LinkInv
<1> SUFFICES ASSUME PushInit PROVE LinkInv
  OBVIOUS
<1>1. /\ message \in Messages /\ queue = HdlcFrames(message) /\ air = << >>
      /\ chatter = 0 /\ fault = "none"
  BY DEF PushInit, Link!Init
<1>2. Encodes(Byte, HdlcCoding, HdlcFrames(message), Headed)
  BY <1>1, MessageEncoded
<1>3. OnLine(Headed, << >>)
  BY <1>1, <1>2, SendingStarts, Zenon DEF OnLine
<1>4. Allowed(Headed)
  BY <1>1 DEF Allowed
<1>5. << >> \in Seq(Byte)
  OBVIOUS
<1> QED
  BY <1>1, <1>3, <1>4, <1>5 DEF LinkInv, LinkType

LEMMA TransmitLinkInv ==
  ASSUME LinkInv, Link!Transmit
  PROVE  LinkInv'
<1>1. /\ queue # << >> /\ air' = air \o Head(queue) /\ queue' = Tail(queue)
      /\ message' = message /\ chatter' = chatter /\ fault' = fault
  BY DEF Link!Transmit
<1>2. /\ air \in Seq(Byte) /\ chatter \in Nat /\ message \in Messages
      /\ fault \in {"none", "lost", "repeated"}
  BY <1>1 DEF LinkInv, LinkType
<1>3. PICK D : Allowed(D) /\ OnLine(D, << >>)
  BY <1>2 DEF LinkInv
<1>4. Encodes(Byte, HdlcCoding, HdlcFrames(message), Headed)
  BY <1>2, MessageEncoded
<1>5. /\ Head(queue) \in Seq(Byte)
      /\ Sending(Byte, HdlcCoding, NoiseSoFar, HdlcFrames(message), Headed,
                 Tail(queue), air \o Head(queue), << >>, D)
  <2>1. Sending(Byte, HdlcCoding, NoiseSoFar, HdlcFrames(message), Headed,
                queue, air, << >>, D)
    BY <1>3 DEF OnLine
  <2> QED
    BY <1>1, <1>2, <1>4, <2>1, CodingType, NoiseType, SendingOne, Zenon
<1>6. Headed' = Headed /\ NoiseSoFar' = NoiseSoFar /\ HdlcFrames(message') = HdlcFrames(message)
  BY <1>1 DEF Headed, NoiseSoFar
<1>7. OnLine(D, << >>)'
  BY <1>1, <1>5, <1>6, Zenon DEF OnLine
<1>8. Allowed(D)'
  BY <1>1, <1>3, <1>6 DEF Allowed, Disturbed
<1>9. air' \in Seq(Byte)
  BY <1>1, <1>2, <1>5
<1> QED
  BY <1>1, <1>2, <1>7, <1>8, <1>9 DEF LinkInv, LinkType

LEMMA ChatterLinkInv ==
  ASSUME LinkInv, Link!Chatter
  PROVE  LinkInv'
<1>1. /\ fault \notin {"cut", "foreign"} /\ air' = air \o ShortFrame /\ chatter' = chatter + 1
      /\ message' = message /\ queue' = queue /\ fault' = fault
  BY DEF Link!Chatter
<1>2. /\ air \in Seq(Byte) /\ chatter \in Nat /\ message \in Messages
      /\ fault \in {"none", "lost", "repeated", "corrupted"}
  BY <1>1 DEF LinkInv, LinkType
<1>3. NoiseSoFar' = ShortCoding /\ chatter' \in Nat
  BY <1>1, <1>2 DEF NoiseSoFar
<1>4. Headed' = Headed /\ HdlcFrames(message') = HdlcFrames(message)
  BY <1>1 DEF Headed
<1>5. ShortFrame \in ShortCoding /\ ShortFrame \in Seq(Byte) /\ air' \in Seq(Byte)
  BY <1>1, <1>2, ShortFrameIs DEF ShortCoding
<1>6. LinkType'
  BY <1>1, <1>2, <1>3, <1>5 DEF LinkInv, LinkType
<1>7. CASE fault = "corrupted"
  <2>1. CASE Bears(air, Headed)
    <3>1. Carries(Byte, HdlcCoding, ShortCoding, air \o ShortFrame, Headed)
      BY <1>5, <2>1, CodingType, NoiseType, CarriesNoise, Zenon DEF Bears
    <3>2. Bears(air', Headed')
      BY <1>1, <1>4, <3>1 DEF Bears
    <3> QED
      BY <1>1, <1>6, <1>7, <3>2 DEF LinkInv
  <2>2. CASE Doomed(air)
    <3>1. Doomed(air \o ShortFrame)
      BY <1>2, <1>5, <2>2, DoomedMore, Zenon
    <3>2. Doomed(air')
      BY <1>1, <3>1
    <3> QED
      BY <1>1, <1>6, <1>7, <3>2 DEF LinkInv
  <2> QED
    BY <1>7, <2>1, <2>2 DEF LinkInv
<1>8. CASE fault \in {"none", "lost", "repeated"}
  <2>1. PICK D : Allowed(D) /\ OnLine(D, << >>)
    BY <1>8 DEF LinkInv
  <2>2. Sending(Byte, HdlcCoding, NoiseSoFar, HdlcFrames(message), Headed,
                queue, air, << >>, D)
    BY <2>1 DEF OnLine
  <2>3. Sending(Byte, HdlcCoding, ShortCoding, HdlcFrames(message), Headed,
                queue, air \o ShortFrame, << >>, D)
    BY <1>2, <1>5, <2>2, CodingType, NoiseType, SendingNoise, Zenon
  <2>4. OnLine(D, << >>)'
    BY <1>1, <1>3, <1>4, <2>3, Zenon DEF OnLine
  <2>5. Allowed(D)'
    BY <1>1, <1>4, <2>1 DEF Allowed, Disturbed
  <2> QED
    BY <1>1, <1>6, <1>8, <2>4, <2>5 DEF LinkInv
<1> QED
  BY <1>2, <1>7, <1>8

LEMMA LoseLinkInv ==
  ASSUME LinkInv, Link!Lose
  PROVE  LinkInv'
<1>1. /\ fault = "none" /\ queue # << >> /\ queue' = Tail(queue) /\ fault' = "lost"
      /\ message' = message /\ air' = air /\ chatter' = chatter
  BY DEF Link!Lose
<1>2. air \in Seq(Byte) /\ chatter \in Nat /\ message \in Messages
  BY <1>1 DEF LinkInv, LinkType
<1>3. Sending(Byte, HdlcCoding, NoiseSoFar, HdlcFrames(message), Headed,
              queue, air, << >>, Headed)
  BY <1>1 DEF LinkInv, Allowed, OnLine
<1>4. Encodes(Byte, HdlcCoding, HdlcFrames(message), Headed)
  BY <1>2, MessageEncoded
<1>5. PICK k \in DOMAIN Headed :
        Sending(Byte, HdlcCoding, NoiseSoFar, HdlcFrames(message), Headed,
                Tail(queue), air, << >>, RemoveAt(Headed, k))
  BY <1>1, <1>2, <1>3, <1>4, CodingType, NoiseType, SendingLost, Zenon
<1>6. Headed' = Headed /\ NoiseSoFar' = NoiseSoFar /\ HdlcFrames(message') = HdlcFrames(message)
  BY <1>1 DEF Headed, NoiseSoFar
<1>7. OnLine(RemoveAt(Headed, k), << >>)'
  BY <1>1, <1>5, <1>6, Zenon DEF OnLine
<1>8. Allowed(RemoveAt(Headed, k))'
  <2>1. Disturbed(k)' = RemoveAt(Headed, k)
    BY <1>1, <1>6, Zenon DEF Disturbed
  <2> QED
    BY <1>1, <1>5, <1>6, <2>1 DEF Allowed
<1>9. LinkType'
  BY <1>1, <1>2 DEF LinkType
<1>10. \E D : Allowed(D)' /\ OnLine(D, << >>)'
  BY <1>7, <1>8, Zenon
<1> QED
  BY <1>1, <1>9, <1>10 DEF LinkInv

LEMMA RepeatLinkInv ==
  ASSUME LinkInv, Link!Repeat
  PROVE  LinkInv'
<1>1. /\ fault = "none" /\ queue # << >> /\ air' = air \o Head(queue)
      /\ fault' = "repeated"
      /\ message' = message /\ queue' = queue /\ chatter' = chatter
  BY DEF Link!Repeat
<1>2. air \in Seq(Byte) /\ chatter \in Nat /\ message \in Messages
  BY <1>1 DEF LinkInv, LinkType
<1>3. Sending(Byte, HdlcCoding, NoiseSoFar, HdlcFrames(message), Headed,
              queue, air, << >>, Headed)
  BY <1>1 DEF LinkInv, Allowed, OnLine
<1>4. Encodes(Byte, HdlcCoding, HdlcFrames(message), Headed)
  BY <1>2, MessageEncoded
<1>5. /\ Head(queue) \in Seq(Byte)
      /\ \E k \in DOMAIN Headed :
           Sending(Byte, HdlcCoding, NoiseSoFar, HdlcFrames(message), Headed,
                   queue, air \o Head(queue), << >>, InsertAt(Headed, k, Headed[k]))
  BY <1>1, <1>2, <1>3, <1>4, CodingType, NoiseType, SendingTwice, Zenon
<1>5a. PICK k \in DOMAIN Headed :
        Sending(Byte, HdlcCoding, NoiseSoFar, HdlcFrames(message), Headed,
                queue, air \o Head(queue), << >>, InsertAt(Headed, k, Headed[k]))
  BY <1>5
<1>6. Headed' = Headed /\ NoiseSoFar' = NoiseSoFar /\ HdlcFrames(message') = HdlcFrames(message)
  BY <1>1 DEF Headed, NoiseSoFar
<1>7. OnLine(InsertAt(Headed, k, Headed[k]), << >>)'
  BY <1>1, <1>5a, <1>6, Zenon DEF OnLine
<1>8. Allowed(InsertAt(Headed, k, Headed[k]))'
  <2>1. Disturbed(k)' = InsertAt(Headed, k, Headed[k])
    BY <1>1, <1>6, Zenon DEF Disturbed
  <2> QED
    BY <1>1, <1>5a, <1>6, <2>1 DEF Allowed
<1>9. LinkType'
  BY <1>1, <1>2, <1>5 DEF LinkType
<1>10. \E D : Allowed(D)' /\ OnLine(D, << >>)'
  BY <1>7, <1>8, Zenon
<1> QED
  BY <1>1, <1>9, <1>10 DEF LinkInv

LEMMA CutLinkInv ==
  ASSUME LinkInv, Link!Cut
  PROVE  LinkInv'
<1>1. /\ fault = "none" /\ queue = << >> /\ fault' = "cut"
      /\ \E n \in 0 .. Len(air) - 1 : air' = SubSeq(air, 1, n)
      /\ message' = message /\ queue' = queue /\ chatter' = chatter
  BY DEF Link!Cut
<1>2. air \in Seq(Byte) /\ chatter \in Nat /\ message \in Messages
  BY <1>1 DEF LinkInv, LinkType
<1>3. Sending(Byte, HdlcCoding, NoiseSoFar, HdlcFrames(message), Headed,
              queue, air, << >>, Headed)
  BY <1>1 DEF LinkInv, Allowed, OnLine
<1>4. PICK n \in 0 .. Len(air) : air' = SubSeq(air, 1, n)
  BY <1>1, <1>2
<1>5. /\ SubSeq(air, 1, n) \in Seq(Byte) /\ From(air, n) \in Seq(Byte)
      /\ Sending(Byte, HdlcCoding, NoiseSoFar, HdlcFrames(message), Headed,
                 queue, SubSeq(air, 1, n), From(air, n), Headed)
  BY <1>2, <1>3, SendingCut, Zenon
<1>6. Headed' = Headed /\ NoiseSoFar' = NoiseSoFar /\ HdlcFrames(message') = HdlcFrames(message)
  BY <1>1 DEF Headed, NoiseSoFar
<1>7. Sending(Byte, HdlcCoding, NoiseSoFar', HdlcFrames(message'), Headed',
              queue', air', From(air, n), Headed')
  BY <1>1, <1>4, <1>5, <1>6, Zenon
<1>8. \E t \in Seq(Byte) : OnLine(Headed, t)'
  BY <1>5, <1>7, Zenon DEF OnLine
<1>9. LinkType'
  BY <1>1, <1>2, <1>4, <1>5 DEF LinkType
<1> QED
  BY <1>1, <1>8, <1>9 DEF LinkInv

LEMMA CorruptLinkInv ==
  ASSUME LinkInv, Link!Corrupt
  PROVE  LinkInv'
<1>1. /\ fault = "none" /\ queue = << >> /\ chatter = 0 /\ fault' = "corrupted"
      /\ message' = message /\ queue' = queue /\ chatter' = chatter
  BY DEF Link!Corrupt
<1>2. air \in Seq(Byte) /\ chatter \in Nat /\ message \in Messages
  BY <1>1 DEF LinkInv, LinkType
<1>3. Sending(Byte, HdlcCoding, NoiseSoFar, HdlcFrames(message), Headed,
              queue, air, << >>, Headed)
  BY <1>1 DEF LinkInv, Allowed, OnLine
<1>4. PICK k \in 1 .. Len(air), bit \in BitMasks :
        air' = [air EXCEPT ![k] = Link!FlipBit(air[k], bit)]
  <2>1. DOMAIN air = 1 .. Len(air)
    BY <1>2
  <2> QED
    BY <2>1, Zenon DEF Link!Corrupt, BitMasks
<1>5. NoiseSoFar = {} /\ Encodes(Byte, HdlcCoding, HdlcFrames(message), Headed)
  BY <1>1, <1>2, MessageEncoded DEF NoiseSoFar
<1>6. Carries(Byte, HdlcCoding, {}, air, Headed)
  <2>1. Carries(Byte, HdlcCoding, {}, air \o << >>, Headed)
    BY <1>1, <1>3, <1>5, SendingEnds, Zenon
  <2>2. air \o << >> = air
    BY <1>2
  <2> QED
    BY <2>1, <2>2
<1> DEFINE v == Link!FlipBit(air[k], bit)
<1>7. air' = Replaced(air, k, v)
  BY <1>4 DEF Replaced
<1> HIDE DEF v
<1>8. Replaced(air, k, v) \in Seq(Byte)
      /\ (Carries(Byte, HdlcCoding, {}, Replaced(air, k, v), Headed) \/ Doomed(Replaced(air, k, v)))
  <2>1. k \in 1 .. Len(air) /\ bit \in BitMasks
    BY <1>4
  <2> QED
    BY <1>6, <2>1, WrongByteOnLine, Zenon DEF v
<1>9. Headed' = Headed
  BY <1>1 DEF Headed
<1>10. Carries(Byte, HdlcCoding, {}, air', Headed') => Bears(air', Headed')
  BY CodingType, NoiseType, CarriesMonotone, Zenon DEF Bears
<1>11. air' \in Seq(Byte) /\ (Bears(air', Headed') \/ Doomed(air'))
  BY <1>7, <1>8, <1>9, <1>10
<1>12. LinkType'
  BY <1>1, <1>2, <1>11 DEF LinkType
<1> QED
  BY <1>1, <1>11, <1>12 DEF LinkInv

LEMMA InterfereLinkInv ==
  ASSUME LinkInv, Link!Interfere
  PROVE  LinkInv'
<1>1. air' \in Seq(Byte) /\ queue' = << >> /\ fault' = "foreign" /\ chatter' = chatter
  BY PushAssumption DEF Link!Interfere
<1> QED
  BY <1>1 DEF LinkInv, LinkType

-----------------------------------------------------------------------------
(* The decoder at the end of the line.                                     *)

(* What the decoder is at, or has returned, for each thing the line may    *)
(* have done to the push.                                                  *)
Busy == status \in {"decoding", "returning"}

UndisturbedInv ==
  fault \in {"none", "lost", "repeated"} =>
    /\ Busy => \E D \in Seq(Seq(Byte)) : Allowed(D) /\ Tracks(D, << >>)
    /\ status = "done" => \E D : Allowed(D) /\ result = Delivered(D)

CutInv ==
  fault = "cut" =>
    /\ Busy => \E t \in Seq(Byte) : Tracks(Headed, t)
    /\ status = "done" =>
         result = << >> \/ \E A, B \in Seq(Seq(Byte)) : Headed = A \o B /\ result = Delivered(A)

CorruptedInv ==
  fault = "corrupted" /\ ~ skip_crc_check =>
    /\ Busy => \/ Tracks(Headed, << >>)
               \/ status = "decoding" /\ Doomed(remaining)
    /\ status = "done" => result = << >> \/ result = Delivered(Headed)

PushInv == Inv /\ LinkInv /\ UndisturbedInv /\ CutInv /\ CorruptedInv

(* A call puts the decoder on the track of what is on the line.            *)
LEMMA CallTracks ==
  ASSUME NEW D, NEW t, NEW skip, air \in Seq(Byte), Bears(air \o t, D), Call(air, skip)
  PROVE  D \in Seq(Seq(Byte)) /\ Tracks(D, t)'
<1> DEFINE W == Seq(Byte)
<1>1. D \in Seq(W)
  BY CodingType, NoiseType, CarriesType, Zenon DEF Bears
<1>2. /\ buf' = air /\ read_offset' = 0 /\ write_offset' = 0 /\ is_first' = TRUE
  BY DEF Call
<1>3. remaining' = air
  BY <1>2 DEF remaining, From
<1>4. Output' = << >>
  BY <1>2 DEF Output, Subspan
<1>5. D = << >> \o D /\ << >> \in Seq(W)
  <2> HIDE DEF W
  <2> QED
    BY <1>1
<1>6. Delivered(<< >>) = << >>
  BY DEF Delivered
<1>7. OnTrack(D, t, air, << >>, TRUE)
  BY <1>1, <1>5, <1>6, Zenon DEF OnTrack
<1> QED
  BY <1>1, <1>2, <1>3, <1>4, <1>7 DEF Tracks

LEMMA BearsOnLine ==
  ASSUME LinkInv, queue = << >>, fault # "foreign", NEW D, NEW t, OnLine(D, t)
  PROVE  Bears(air \o t, D)
<1>1. message \in Messages
  BY DEF LinkInv, LinkType
<1>2. Encodes(Byte, HdlcCoding, HdlcFrames(message), Headed)
  BY <1>1, MessageEncoded
<1>3. Carries(Byte, HdlcCoding, NoiseSoFar, air \o t, D)
  <2>1. Sending(Byte, HdlcCoding, NoiseSoFar, HdlcFrames(message), Headed, << >>, air, t, D)
    BY DEF OnLine
  <2> QED
    BY <1>2, <2>1, SendingEnds, Zenon
<1> QED
  BY <1>3, CodingType, NoiseType, CarriesMonotone, Zenon DEF Bears

(* While the decoder runs, the link does nothing.                          *)
LEMMA SameLink ==
  ASSUME LinkInv, UNCHANGED link
  PROVE  LinkInv' /\ Headed' = Headed /\ \A D : Allowed(D)' <=> Allowed(D)
<1>1. /\ message' = message /\ queue' = queue /\ air' = air
      /\ chatter' = chatter /\ fault' = fault
  BY DEF link
<1>2. Headed' = Headed /\ NoiseSoFar' = NoiseSoFar /\ HdlcFrames(message') = HdlcFrames(message)
  BY <1>1 DEF Headed, NoiseSoFar
<1>3. \A D, t : OnLine(D, t)' <=> OnLine(D, t)
  BY <1>1, <1>2, Zenon DEF OnLine
<1>4. \A D : Allowed(D)' <=> Allowed(D)
  BY <1>1, <1>2 DEF Allowed, Disturbed
<1>5. LinkType'
  BY <1>1 DEF LinkInv, LinkType
<1>6. Bears(air', Headed') \/ Doomed(air') <=> Bears(air, Headed) \/ Doomed(air)
  BY <1>1, <1>2
<1>7. (fault \in {"none", "lost", "repeated"} => \E D : Allowed(D) /\ OnLine(D, << >>))'
  BY <1>1, <1>3, <1>4, Zenon DEF LinkInv
<1>8. (fault = "cut" => \E t \in Seq(Byte) : OnLine(Headed, t))'
  <2> SUFFICES ASSUME fault = "cut" PROVE \E t \in Seq(Byte) : OnLine(Headed, t)'
    BY <1>1
  <2>1. PICK t \in Seq(Byte) : OnLine(Headed, t)
    BY DEF LinkInv
  <2>2. OnLine(Headed, t)'
    BY <1>1, <1>2, <2>1, Zenon DEF OnLine
  <2> QED
    BY <2>1, <2>2, Zenon
<1> QED
  BY <1>1, <1>2, <1>4, <1>5, <1>6, <1>7, <1>8 DEF LinkInv

LEMMA ReceivePushInv ==
  ASSUME PushInv, Receive
  PROVE  PushInv'
<1>1. PICK skip \in BOOLEAN : Call(air, skip)
  BY DEF Receive
<1>2. /\ queue = << >> /\ message' = message /\ queue' = queue /\ air' = air
      /\ chatter' = chatter /\ fault' = fault
  BY DEF Receive, Link!Silent, link
<1>3. air \in Seq(Byte) /\ Inv /\ LinkInv
  BY DEF PushInv, LinkInv, LinkType
<1>4. Inv'
  BY <1>1, <1>3, CallInv DEF Inv
<1>5. LinkInv'
  BY <1>3, SameLink DEF Receive
<1>6. Headed' = Headed /\ status' = "decoding" /\ \A D : Allowed(D)' <=> Allowed(D)
  BY <1>1, <1>3, SameLink DEF Call, Receive
<1>7. UndisturbedInv'
  <2> SUFFICES ASSUME fault \in {"none", "lost", "repeated"}
               PROVE  \E D \in Seq(Seq(Byte)) : Allowed(D)' /\ Tracks(D, << >>)'
    BY <1>2, <1>6 DEF UndisturbedInv
  <2>1. PICK D : Allowed(D) /\ OnLine(D, << >>)
    BY <1>3 DEF LinkInv
  <2>2. Bears(air \o << >>, D)
    BY <1>2, <1>3, <2>1, BearsOnLine
  <2>3. D \in Seq(Seq(Byte)) /\ Tracks(D, << >>)'
    BY <1>1, <1>3, <2>2, CallTracks, Zenon
  <2> QED
    BY <1>6, <2>1, <2>3, Zenon
<1>8. CutInv'
  <2> SUFFICES ASSUME fault = "cut"
               PROVE  \E t \in Seq(Byte) : Tracks(Headed, t)'
    BY <1>2, <1>6 DEF CutInv
  <2>1. PICK t \in Seq(Byte) : OnLine(Headed, t)
    BY <1>3 DEF LinkInv
  <2>2. Bears(air \o t, Headed)
    BY <1>2, <1>3, <2>1, BearsOnLine
  <2> DEFINE D == Headed
  <2> HIDE DEF D
  <2>3. Tracks(D, t)'
    <3>1. Bears(air \o t, D)
      BY <2>2 DEF D
    <3>2. D \in Seq(Seq(Byte)) /\ OnTrack(D, t, remaining', Output', is_first')
      BY <1>1, <1>3, <3>1, CallTracks, Zenon DEF Tracks
    <3>3. D' = D
      BY <1>6 DEF D
    <3> QED
      BY <3>2, <3>3 DEF Tracks
  <2> QED
    BY <2>1, <2>3, Zenon DEF D
<1>9. CorruptedInv'
  <2> SUFFICES ASSUME fault = "corrupted"
               PROVE  Tracks(Headed, << >>)' \/ Doomed(remaining)'
    BY <1>2, <1>6 DEF CorruptedInv
  <2>1. CASE Bears(air, Headed)
    <3>1. air \o << >> = air
      BY <1>3
    <3> DEFINE D == Headed
    <3> HIDE DEF D
    <3>2. Bears(air \o << >>, D)
      BY <2>1, <3>1 DEF D
    <3>3. D \in Seq(Seq(Byte)) /\ OnTrack(D, << >>, remaining', Output', is_first')
      BY <1>1, <1>3, <3>2, CallTracks, Zenon DEF Tracks
    <3>4. D' = D
      BY <1>6 DEF D
    <3>5. Tracks(D, << >>)'
      BY <3>3, <3>4 DEF Tracks
    <3> QED
      BY <3>5 DEF D
  <2>2. CASE Doomed(air)
    <3>1. remaining' = air
      BY <1>1, <1>3 DEF Call, remaining, From
    <3> QED
      BY <2>2, <3>1
  <2> QED
    BY <1>3, <2>1, <2>2 DEF LinkInv
<1> QED
  BY <1>4, <1>5, <1>7, <1>8, <1>9 DEF PushInv

LEMMA PushPushInv ==
  ASSUME PushInv, Push
  PROVE  PushInv'
<1>1. status = "idle" /\ Link!Next /\ UNCHANGED vars
  BY DEF Push
<1>2. Inv'
  BY <1>1 DEF PushInv, Inv, TypeOK, InPlaceSafe, LoopControl, vars
<1>3. LinkInv'
  BY <1>1, TransmitLinkInv, ChatterLinkInv, LoseLinkInv, RepeatLinkInv, CorruptLinkInv,
     CutLinkInv, InterfereLinkInv DEF PushInv, Link!Next
<1>4. status' = "idle"
  BY <1>1 DEF vars
<1> QED
  BY <1>2, <1>3, <1>4 DEF PushInv, UndisturbedInv, CutInv, CorruptedInv, Busy

(* A decoder that will meet a wrong byte goes on or returns nothing.       *)
LEMMA DoomedTurn ==
  ASSUME Inv, Doomed(remaining), ~ skip_crc_check, Decode, status = "decoding"
  PROVE  \/ status' = "decoding" /\ Doomed(remaining)'
         \/ status' = "done" /\ result' = << >>
<1> DEFINE r == remaining
<1>1. r \in Seq(Byte) /\ Len(r) = Len(buf) - read_offset /\ skip_crc_check = FALSE
  BY RemainingType DEF Inv, TypeOK
<1>2. \/ Stuck(r)
      \/ \E f \in HdlcCoding, u \in Seq(Byte) : r = f[1] \o u /\ Doomed(u)
  BY <1>1, DoomedFirst
<1>3. CASE Stuck(r)
  <2>1. Reject
    BY <1>1, <1>3 DEF Stuck, Decode, SkipShortFrame, TakeFrame, Return
  <2> QED
    BY <2>1 DEF Reject
<1>4. ASSUME NEW f \in HdlcCoding, NEW u \in Seq(Byte), r = f[1] \o u, Doomed(u)
      PROVE  status' = "decoding" /\ Doomed(remaining)'
  <2> DEFINE g == f[1]
  <2>1. Reads(r, f, skip_crc_check, TRUE)
    <3>1. Reads(f[1] \o u, f, skip_crc_check, TRUE)
      <4>1. skip_crc_check \in BOOLEAN /\ TRUE \in BOOLEAN
        BY <1>1
      <4> QED
        BY <4>1, CodedFrameReads, Zenon
    <3> QED
      BY <1>4, <3>1
  <2>2. TakeFrame
    BY <2>1 DEF Reads, Decode, SkipShortFrame, Reject, Return
  <2>3. g \in Seq(Byte) /\ FrameTotal(remaining) = Len(g) /\ remaining = g \o u
    BY <1>4, <2>1, CodedIs DEF Reads
  <2> HIDE DEF g
  <2>4. remaining' = u /\ Len(buf') - read_offset' = Len(u)
    BY <2>2, <2>3, TakenRemains, Zenon
  <2>5. u # << >>
    BY <1>4, DoomedFirst
  <2>6. read_offset' < Len(buf)
    <3>1. Len(u) > 0
      BY <2>5
    <3>2. read_offset' \in Nat /\ Len(buf') = Len(buf) /\ Len(buf) \in Nat
      <4>1. Inv'
        BY <2>2, TakeFrameInv
      <4>2. telegram' = telegram
        BY <2>2 DEF TakeFrame
      <4> QED
        BY <4>1, <4>2 DEF Inv, TypeOK
    <3> QED
      BY <2>4, <3>1, <3>2
  <2>7. status' = "decoding"
    BY <2>2, <2>6 DEF TakeFrame, LoopTest
  <2> QED
    BY <1>4, <2>4, <2>7
<1> QED
  BY <1>2, <1>3, <1>4

(* A turn of the loop, for the data that the line holds or did hold.       *)
LEMMA TurnTracks ==
  ASSUME NEW D \in Seq(Seq(Byte)), NEW t \in Seq(Byte), Inv, Decode, Tracks(D, t)
  PROVE  /\ status' # "done" => Tracks(D, t)'
         /\ status' = "done" =>
              \/ result' = << >>
              \/ \E A, B \in Seq(Seq(Byte)) : D = A \o B /\ result' = Delivered(A)
         /\ status' = "done" /\ t = << >> => result' = Delivered(D)
<1>1. CASE SkipShortFrame
  <2>1. status' # "done"
    BY <1>1 DEF SkipShortFrame, LoopTest
  <2> QED
    BY <1>1, <2>1, SkipTracks
<1>2. CASE TakeFrame
  <2>1. status' # "done"
    BY <1>2 DEF TakeFrame, LoopTest
  <2> QED
    BY <1>2, <2>1, TakeTracks
<1>3. CASE Reject
  <2>1. t = << >> => result' = Delivered(D)
    BY <1>3, RejectEnds
  <2> QED
    BY <1>3, <2>1 DEF Reject
<1>4. CASE Return
  <2>1. status' = "done"
    BY <1>4 DEF Return
  <2> QED
    BY <1>4, <2>1, ReturnEnds
<1> QED
  BY <1>1, <1>2, <1>3, <1>4 DEF Decode

LEMMA TurnPushInv ==
  ASSUME PushInv, Turn
  PROVE  PushInv'
<1>1. Decode /\ UNCHANGED link
  BY DEF Turn
<1>2. fault' = fault /\ skip_crc_check' = skip_crc_check
  BY <1>1 DEF Decode, SkipShortFrame, TakeFrame, Reject, Return, link
<1>3. Busy /\ (Busy' <=> status' # "done")
  BY <1>1 DEF Decode, SkipShortFrame, TakeFrame, Reject, Return, LoopTest, Busy
<1>4. LinkInv' /\ Headed' = Headed /\ \A D : Allowed(D)' <=> Allowed(D)
  BY <1>1, SameLink DEF PushInv
<1>5. Inv'
  <2>1. [Next]_vars
    BY <1>1 DEF Next
  <2> QED
    BY <2>1, NextInv DEF PushInv
<1>6. UndisturbedInv'
  <2> SUFFICES ASSUME fault \in {"none", "lost", "repeated"}
               PROVE  /\ Busy' => \E D \in Seq(Seq(Byte)) : Allowed(D)' /\ Tracks(D, << >>)'
                      /\ status' = "done" => \E D : Allowed(D)' /\ result' = Delivered(D)
    BY <1>2 DEF UndisturbedInv
  <2>1. PICK D \in Seq(Seq(Byte)) : Allowed(D) /\ Tracks(D, << >>)
    BY <1>3 DEF PushInv, UndisturbedInv
  <2>2. << >> \in Seq(Byte) /\ Inv
    BY DEF PushInv
  <2>3. /\ status' # "done" => Tracks(D, << >>)'
        /\ status' = "done" => result' = Delivered(D)
    BY <1>1, <2>1, <2>2, TurnTracks
  <2> QED
    BY <1>3, <1>4, <2>1, <2>3, Zenon
<1>7. CutInv'
  <2> DEFINE H == Headed
  <2> SUFFICES ASSUME fault = "cut"
               PROVE  /\ Busy' => \E t \in Seq(Byte) : Tracks(H, t)'
                      /\ status' = "done" =>
                           \/ result' = << >>
                           \/ \E A, B \in Seq(Seq(Byte)) : H = A \o B /\ result' = Delivered(A)
    BY <1>2, <1>4 DEF CutInv
  <2>1. PICK t \in Seq(Byte) : Tracks(H, t)
    BY <1>3 DEF PushInv, CutInv
  <2>2. Inv /\ H \in Seq(Seq(Byte))
    BY HeadedIs DEF PushInv, LinkInv, LinkType
  <2>h. H' = H
    BY <1>4
  <2> HIDE DEF H
  <2>3. /\ status' # "done" => OnTrack(H, t, remaining', Output', is_first')
        /\ status' = "done" =>
             \/ result' = << >>
             \/ \E A, B \in Seq(Seq(Byte)) : H = A \o B /\ result' = Delivered(A)
    BY <1>1, <2>1, <2>2, TurnTracks DEF Tracks
  <2>4. status' # "done" => Tracks(H, t)'
    BY <2>h, <2>3 DEF Tracks
  <2> QED
    BY <1>3, <2>1, <2>3, <2>4, Zenon
<1>8. CorruptedInv'
  <2> DEFINE H == Headed
  <2> SUFFICES ASSUME fault = "corrupted", ~ skip_crc_check
               PROVE  /\ Busy' => \/ Tracks(H, << >>)'
                                  \/ status' = "decoding" /\ Doomed(remaining)'
                      /\ status' = "done" => result' = << >> \/ result' = Delivered(H)
    BY <1>2, <1>4 DEF CorruptedInv
  <2>1. \/ Tracks(H, << >>)
        \/ status = "decoding" /\ Doomed(remaining)
    BY <1>3 DEF PushInv, CorruptedInv
  <2>2. Inv /\ H \in Seq(Seq(Byte)) /\ << >> \in Seq(Byte)
    BY HeadedIs DEF PushInv, LinkInv, LinkType
  <2>h. H' = H
    BY <1>4
  <2> HIDE DEF H
  <2>3. CASE Tracks(H, << >>)
    <3>1. /\ status' # "done" => OnTrack(H, << >>, remaining', Output', is_first')
          /\ status' = "done" => result' = Delivered(H)
      BY <1>1, <2>2, <2>3, TurnTracks DEF Tracks
    <3>2. status' # "done" => Tracks(H, << >>)'
      BY <2>h, <3>1 DEF Tracks
    <3> QED
      BY <1>3, <3>1, <3>2, Zenon
  <2>4. CASE status = "decoding" /\ Doomed(remaining)
    <3>1. \/ status' = "decoding" /\ Doomed(remaining)'
          \/ status' = "done" /\ result' = << >>
      BY <1>1, <2>2, <2>4, DoomedTurn
    <3> QED
      BY <1>3, <3>1
  <2> QED
    BY <2>1, <2>3, <2>4
<1> QED
  BY <1>4, <1>5, <1>6, <1>7, <1>8 DEF PushInv

(* The decoder and the link together.                                      *)
LEMMA PushInvAlways == PushSpec => []PushInv
<1>1. PushInit => PushInv
  <2> SUFFICES ASSUME PushInit PROVE PushInv
    OBVIOUS
  <2>1. Init /\ status = "idle"
    BY DEF PushInit, Init
  <2>2. Inv /\ LinkInv
    BY <2>1, InitInv, LinkStarts
  <2> QED
    BY <2>1, <2>2 DEF PushInv, UndisturbedInv, CutInv, CorruptedInv, Busy
<1>2. PushInv /\ [PushNext]_pushVars => PushInv'
  <2> SUFFICES ASSUME PushInv, [PushNext]_pushVars PROVE PushInv'
    OBVIOUS
  <2>1. CASE Push
    BY <2>1, PushPushInv
  <2>2. CASE Receive
    BY <2>2, ReceivePushInv
  <2>3. CASE Turn
    BY <2>3, TurnPushInv
  <2>4. CASE UNCHANGED pushVars
    <3>1. UNCHANGED link /\ UNCHANGED vars
      BY <2>4 DEF pushVars
    <3>2. LinkInv' /\ Headed' = Headed /\ \A D : Allowed(D)' <=> Allowed(D)
      BY <3>1, SameLink DEF PushInv
    <3>3. Inv'
      BY <3>1, NextInv DEF PushInv
    <3>4. /\ status' = status /\ result' = result /\ remaining' = remaining
          /\ skip_crc_check' = skip_crc_check /\ fault' = fault /\ (Busy' <=> Busy)
      BY <3>1 DEF vars, link, remaining, Busy
    <3>5. Output' = Output /\ is_first' = is_first
      BY <3>1 DEF vars, Output
    <3>6. \A D, t : Tracks(D, t)' <=> Tracks(D, t)
      BY <3>4, <3>5 DEF Tracks
    <3>7. UndisturbedInv'
      BY <3>2, <3>4, <3>6, Zenon DEF PushInv, UndisturbedInv
    <3>8. CutInv'
      <4> DEFINE H == Headed
      <4>1. \A t : Tracks(H, t)' <=> Tracks(H, t)
        <5>1. H' = H
          BY <3>2
        <5> HIDE DEF H
        <5> QED
          BY <3>4, <3>5, <5>1 DEF Tracks
      <4>2. H' = H
        BY <3>2
      <4>3. fault = "cut" =>
              /\ Busy => \E t \in Seq(Byte) : Tracks(H, t)
              /\ status = "done" =>
                   result = << >> \/ \E A, B \in Seq(Seq(Byte)) : H = A \o B /\ result = Delivered(A)
        BY DEF PushInv, CutInv
      <4> HIDE DEF H
      <4>4. fault = "cut" =>
              /\ Busy => \E t \in Seq(Byte) : Tracks(H, t)'
              /\ status = "done" =>
                   result = << >> \/ \E A, B \in Seq(Seq(Byte)) : H' = A \o B /\ result = Delivered(A)
        BY <4>1, <4>2, <4>3, Zenon
      <4> QED
        BY <3>4, <4>4 DEF CutInv, H
    <3>9. CorruptedInv'
      <4> DEFINE H == Headed
      <4>1. Tracks(H, << >>)' <=> Tracks(H, << >>)
        <5>1. H' = H
          BY <3>2
        <5> HIDE DEF H
        <5> QED
          BY <3>4, <3>5, <5>1 DEF Tracks
      <4> QED
        BY <3>2, <3>4, <4>1 DEF PushInv, CorruptedInv
    <3> QED
      BY <3>2, <3>3, <3>7, <3>8, <3>9 DEF PushInv
  <2> QED
    BY <2>1, <2>2, <2>3, <2>4 DEF PushNext
<1> QED
  BY <1>1, <1>2, PTL DEF PushSpec

(* Cutting its LLC header off the first piece leaves the piece.            *)
LEMMA LlcCutOff ==
  ASSUME NEW p \in Seq(Byte)
  PROVE  WithoutLlc(WithLlc(p)) = p
<1> DEFINE l == <<230, 231, 0>>
           h == l \o p
           S == Byte
<1>1. l \in Seq(S) /\ Len(l) = 3
  <2>1. 230 \in S /\ 231 \in S /\ 0 \in S
    BY ByteIs
  <2> HIDE DEF S
  <2> QED
    BY <2>1
<1>2. SubSeq(h, 1, Len(l)) = l /\ From(h, Len(l)) = p
  <2> HIDE DEF l
  <2> QED
    BY <1>1, FirstPart, LastPart, Zenon
<1>3. Len(h) >= 3
  <2> HIDE DEF l
  <2>1. Len(l \o p) = Len(l) + Len(p)
    BY <1>1, ConcatProperties, Zenon
  <2>2. Len(p) \in Nat
    OBVIOUS
  <2> QED
    BY <1>1, <2>1, <2>2
<1>4. SubSeq(l, 1, Len(l)) = l
  <2> HIDE DEF l
  <2> QED
    BY <1>1
<1>5. IsPrefix(l, h)
  <2> HIDE DEF l
  <2>1. Len(l) <= Len(h)
    BY <1>1, <1>3
  <2> QED
    BY <1>2, <1>4, <2>1, Zenon DEF IsPrefix
<1>6. WithoutLlc(h) = SubSeq(h, 4, Len(h))
  BY <1>5 DEF WithoutLlc
<1>7. SubSeq(h, 4, Len(h)) = p
  <2> HIDE DEF l, h
  <2> QED
    BY <1>1, <1>2 DEF From
<1> QED
  BY <1>6, <1>7 DEF WithLlc

(* The link joins its pieces as everybody does.                            *)
LEMMA LinkJoins ==
  ASSUME NEW s
  PROVE  Link!FlattenSeq(s) = FlattenSeq(s)
  BY DEF Link!FlattenSeq, FlattenSeq

(* What the first n frames of a message deliver.                           *)
LEMMA BeginningDelivered ==
  ASSUME message \in Messages, NEW n \in 1 .. Len(message.pieces),
         NEW A, A = SubSeq(Headed, 1, n)
  PROVE  Delivered(A) = Link!Beginning(message, n)
<1> DEFINE P == message.pieces
           W == Seq(Byte)
           H == Headed
           B == SubSeq(P, 1, n)
           a == SubSeq(H, 2, n)
           b == SubSeq(P, 2, n)
<1>1. /\ P \in Seq(W) /\ P # << >> /\ H \in Seq(W) /\ Len(H) = Len(P)
      /\ H[1] = WithLlc(P[1])
      /\ \A i \in 1 .. Len(P) : i # 1 => H[i] = P[i]
  BY MessageType, HeadedIs
<1>2. A = SubSeq(H, 1, n) /\ n \in 1 .. Len(P)
  OBVIOUS
<1>3. Link!Beginning(message, n) = FlattenSeq(B)
  BY LinkJoins, Zenon DEF Link!Beginning
<1> HIDE DEF W, P, H
<1>4. n \in 1 .. Len(H) /\ Len(P) \in Nat /\ P[1] \in W
  BY <1>1, <1>2
<1>5. /\ BeginsWith(W, H, n, A, a) /\ Len(a) = n - 1
      /\ \A i \in 1 .. n - 1 : a[i] = H[i + 1]
  BY <1>1, <1>2, <1>4, BeginningParts, Zenon
<1>6. /\ BeginsWith(W, P, n, B, b) /\ Len(b) = n - 1
      /\ \A i \in 1 .. n - 1 : b[i] = P[i + 1]
  BY <1>1, <1>2, BeginningParts, Zenon
<1> HIDE DEF a, b, B
<1>7. a = b
  <2>1. \A i \in 1 .. n - 1 : a[i] = b[i]
    <3> SUFFICES ASSUME NEW i \in 1 .. n - 1 PROVE a[i] = b[i]
      OBVIOUS
    <3>1. i + 1 \in 1 .. Len(P) /\ i + 1 # 1
      BY <1>2, <1>4
    <3> QED
      BY <1>1, <1>5, <1>6, <3>1, Zenon
  <2>2. a \in Seq(W) /\ b \in Seq(W) /\ Len(a) = Len(b) /\ \A i \in 1 .. Len(a) : a[i] = b[i]
    BY <1>5, <1>6, <2>1, Zenon DEF BeginsWith
  <2> QED
    BY <2>2, SeqEqual, Zenon
<1>8. FlattenSeq(B) = P[1] \o FlattenSeq(b)
  <2> DEFINE one == <<P[1]>>
  <2>1. one \in Seq(W)
    BY <1>4
  <2>2. FlattenSeq(one) = P[1]
    BY <1>4, FlattenOne DEF W
  <2>3. B = one \o b /\ b \in Seq(W)
    BY <1>6 DEF BeginsWith
  <2> HIDE DEF one
  <2>4. FlattenSeq(one \o b) = FlattenSeq(one) \o FlattenSeq(b)
    BY <2>1, <2>3, FlattenConcat, Zenon DEF W
  <2> QED
    BY <2>2, <2>3, <2>4
<1>9. Delivered(A) = WithoutLlc(WithLlc(P[1])) \o FlattenSeq(a)
  BY <1>1, <1>5, Zenon DEF Delivered, BeginsWith
<1>10. WithoutLlc(WithLlc(P[1])) = P[1]
  BY <1>4, LlcCutOff DEF W
<1> QED
  BY <1>3, <1>7, <1>8, <1>9, <1>10

LEMMA WholeDelivered ==
  ASSUME message \in Messages
  PROVE  Delivered(Headed) = Link!Whole(message)
<1> DEFINE P == message.pieces
           W == Seq(Byte)
           H == Headed
<1>1. P \in Seq(W) /\ Len(P) \in 1 .. Len(P) /\ H \in Seq(W) /\ Len(H) = Len(P)
  <2>1. Len(P) \in Nat /\ 1 <= Len(P) /\ P \in Seq(W) /\ H \in Seq(W) /\ Len(H) = Len(P)
    BY MessageType, HeadedIs
  <2> HIDE DEF P
  <2> QED
    BY <2>1
<1>2. P = SubSeq(P, 1, Len(P)) /\ H = SubSeq(H, 1, Len(P))
  <2> HIDE DEF W, P, H
  <2> QED
    BY <1>1, SubSeqFull
<1>3. Delivered(H) = Link!Beginning(message, Len(P))
  BY <1>1, <1>2, BeginningDelivered
<1> QED
  BY <1>2, <1>3, Zenon DEF Link!Beginning, Link!Whole

-----------------------------------------------------------------------------
(* Without the line: all frames of a message, in a row.                    *)
LEMMA CodedBegins ==
  ASSUME NEW f, NEW d, IsCoded(f, d)
  PROVE  f \in Seq(Byte) /\ f # << >> /\ f[1] = HDLC_FLAG
<1> DEFINE S == Byte
           e == <<f, d>>
<1>1. f \in Seq(S) /\ e \in HdlcCoding /\ e[1] = f
  BY DEF IsCoded
<1> HIDE DEF e
<1>2. PICK b \in Seq(Byte), c \in Byte : f = <<126>> \o (b \o <<c>>)
  BY <1>1, Zenon DEF HdlcCoding
<1>3. b \in Seq(S) /\ c \in S /\ 126 \in S
  BY ByteIs
<1> HIDE DEF S
<1>4. b \o <<c>> \in Seq(S)
  BY <1>3
<1> QED
  BY <1>1, <1>2, <1>3, <1>4 DEF S, HDLC_FLAG

LEMMA FramesBegin ==
  ASSUME NEW m \in Messages
  PROVE  /\ HdlcFrames(m) \in Seq(Seq(Byte)) /\ HdlcFrames(m) # << >>
         /\ FlattenSeq(HdlcFrames(m)) \in Seq(Byte) /\ FlattenSeq(HdlcFrames(m)) # << >>
         /\ FlattenSeq(HdlcFrames(m))[1] = HDLC_FLAG
<1> DEFINE P == m.pieces
           a == m.address
           F == HdlcFrames(m)
           n == Len(P)
           W == Seq(Byte)
<1>1. IsMessage(m)
  BY PushAssumption, Zenon
<1>2. /\ a \in Seq(Byte) /\ GoodAddress(a) /\ P \in Seq(W) /\ P # << >>
      /\ \A i \in DOMAIN P : Fits(a, P[i])
  BY <1>1, Zenon DEF IsMessage
<1>3. /\ DOMAIN P = 1 .. n /\ n \in Nat /\ 1 <= n
      /\ \A i \in 1 .. n : P[i] \in W /\ Fits(a, P[i])
  <2> HIDE DEF W, P, a
  <2> QED
    BY <1>2
<1>4. F = [i \in 1 .. n |-> HdlcFrame(a, IF i = 1 THEN WithLlc(P[i]) ELSE P[i], i < n)]
  BY <1>3 DEF HdlcFrames, WithLlc
<1> HIDE DEF P, a, F, n
<1>5. ASSUME NEW i \in 1 .. n
      PROVE  F[i] \in W /\ F[i] # << >> /\ F[i][1] = HDLC_FLAG
  <2>1. P[i] \in Seq(Byte) /\ Fits(a, P[i]) /\ (i < n) \in BOOLEAN
    BY <1>3
  <2> DEFINE l == i < n
             p == P[i]
  <2> HIDE DEF l, p
  <2>2. l \in BOOLEAN /\ p \in Seq(Byte) /\ Fits(a, p)
    BY <2>1 DEF l, p
  <2>3. IsCoded(HdlcFrame(a, p, l), p) /\ IsCoded(HdlcFrame(a, WithLlc(p), l), WithLlc(p))
    BY <1>2, <2>2, FrameOfPiece, Zenon
  <2>4. F[i] = HdlcFrame(a, WithLlc(p), l) \/ F[i] = HdlcFrame(a, p, l)
    BY <1>4 DEF l, p
  <2> QED
    BY <2>3, <2>4, CodedBegins, Zenon DEF W
<1>6. F \in Seq(W) /\ F # << >>
  <2>1. F = [i \in 1 .. n |-> F[i]]
    BY <1>4
  <2>2. \A i \in 1 .. n : F[i] \in W
    BY <1>5
  <2> HIDE DEF W
  <2> QED
    BY <1>3, <2>1, <2>2
<1>7. 1 \in 1 .. n
  BY <1>3
<1>8. F[1] # << >> /\ F[1][1] = HDLC_FLAG
  BY <1>5, <1>7
<1>9. F \in Seq(Seq(Byte))
  BY <1>6 DEF W
<1> QED
  BY <1>6, <1>8, <1>9, FlattenBegins, Zenon DEF F

(* A message that arrived whole: the decoder that is called with it is on  *)
(* its track, ...                                                          *)
LEMMA CallWhole ==
  ASSUME message \in Messages, air = FlattenSeq(HdlcFrames(message)),
         NEW skip, Call(air, skip), UNCHANGED message
  PROVE  Tracks(Headed, << >>)'
<1>1. Encodes(Byte, HdlcCoding, HdlcFrames(message), Headed)
  BY MessageEncoded
<1>2. Bears(air, Headed)
  BY <1>1, CodingType, NoiseType, EncodedCarries, Zenon DEF Bears
<1>3. air \in Seq(Byte)
  BY <1>2, CodingType, NoiseType, CarriesType, Zenon DEF Bears
<1>4. air \o << >> = air
  BY <1>3
<1>5. Bears(air \o << >>, Headed)
  BY <1>2, <1>4
<1>6. PICK D : D = Headed
  OBVIOUS
<1>7. Tracks(D, << >>)'
  BY <1>3, <1>5, <1>6, CallTracks, Zenon
<1>8. Headed' = Headed
  BY DEF Headed
<1>9. OnTrack(D, << >>, remaining', Output', is_first')
  BY <1>7 DEF Tracks
<1> QED
  BY <1>6, <1>8, <1>9 DEF Tracks

(* ... and every turn keeps it there, until all of it is returned.         *)
LEMMA TurnWhole ==
  ASSUME message \in Messages, Inv, Tracks(Headed, << >>), Decode, UNCHANGED message
  PROVE  /\ status' # "done" => Tracks(Headed, << >>)'
         /\ status' = "done" => result' = FlattenSeq(message.pieces)
<1>1. Headed' = Headed
  BY DEF Headed
<1>2. PICK D : D = Headed
  OBVIOUS
<1>3. Tracks(D, << >>)
  BY <1>2 DEF Tracks
<1>4. D \in Seq(Seq(Byte)) /\ << >> \in Seq(Byte)
  BY <1>2, HeadedIs
<1>5. /\ status' # "done" => Tracks(D, << >>)'
      /\ status' = "done" => result' = Delivered(D)
  BY <1>3, <1>4, TurnTracks, Zenon
<1>6. Delivered(D) = FlattenSeq(message.pieces)
  BY <1>2, WholeDelivered, LinkJoins, Zenon DEF Link!Whole
<1>7. ASSUME status' # "done" PROVE Tracks(Headed, << >>)'
  <2>1. OnTrack(D, << >>, remaining', Output', is_first')
    BY <1>5, <1>7 DEF Tracks
  <2> QED
    BY <1>1, <1>2, <2>1 DEF Tracks
<1> QED
  BY <1>5, <1>6, <1>7, Zenon

-----------------------------------------------------------------------------

(* Whatever messages a meter pushes, in however many frames and with       *)
(* whatever in the pieces, and wherever short frames come between them:    *)
(* an undisturbed push is delivered as it was sent.                        *)
THEOREM HdlcDeliversWhatWasSent == PushSpec => []DeliversWhatWasSent
<1>1. PushInv => DeliversWhatWasSent
  <2> SUFFICES ASSUME PushInv, status = "done", fault = "none"
               PROVE  result = Link!Whole(message)
    BY DEF DeliversWhatWasSent
  <2>1. PICK D : Allowed(D) /\ result = Delivered(D)
    BY DEF PushInv, UndisturbedInv
  <2>2. D = Headed /\ message \in Messages
    BY <2>1 DEF Allowed, PushInv, LinkInv, LinkType
  <2> QED
    BY <2>1, <2>2, WholeDelivered
<1> QED
  BY <1>1, PushInvAlways, PTL

(* One frame lost or repeated is the only difference there is.             *)
THEOREM HdlcOnlyThatFrameIsDisturbed == PushSpec => []OnlyThatFrameIsDisturbed
<1>1. PushInv => OnlyThatFrameIsDisturbed
  <2> SUFFICES ASSUME PushInv, status = "done", fault \in {"lost", "repeated"}
               PROVE  \E k \in DOMAIN message.pieces :
                        \/ Disturbed(k) = << >> /\ result = << >>
                        \/ /\ Disturbed(k) # << >>
                           /\ result = WithoutLlc(Head(Disturbed(k)))
                                         \o FlattenSeq(Tail(Disturbed(k)))
    BY DEF OnlyThatFrameIsDisturbed
  <2>1. PICK D : Allowed(D) /\ result = Delivered(D)
    BY DEF PushInv, UndisturbedInv
  <2>2. PICK k \in DOMAIN Headed : D = Disturbed(k)
    BY <2>1 DEF Allowed
  <2>3. DOMAIN Headed = DOMAIN message.pieces
    BY DEF Headed
  <2>4. result = Delivered(Disturbed(k))
    BY <2>1, <2>2
  <2>5. \/ Disturbed(k) = << >> /\ result = << >>
        \/ /\ Disturbed(k) # << >>
           /\ result = WithoutLlc(Head(Disturbed(k))) \o FlattenSeq(Tail(Disturbed(k)))
    BY <2>4, Zenon DEF Delivered
  <2> QED
    BY <2>2, <2>3, <2>5, Zenon
<1> QED
  BY <1>1, PushInvAlways, PTL

(* A line that falls silent inside a frame delivers nothing, and one that  *)
(* falls silent between two frames the pieces of the frames before.        *)
THEOREM HdlcCutDeliversWholePieces == PushSpec => []CutDeliversWholePieces
<1>1. PushInv => CutDeliversWholePieces
  <2> SUFFICES ASSUME PushInv, status = "done", fault = "cut", result # << >>
               PROVE  \E n \in 1 .. Len(message.pieces) : result = Link!Beginning(message, n)
    BY DEF CutDeliversWholePieces
  <2> DEFINE H == Headed
             W == Seq(Byte)
             N == Len(message.pieces)
  <2>1. PICK A \in Seq(W), B \in Seq(W) : H = A \o B /\ result = Delivered(A)
    BY DEF PushInv, CutInv
  <2>2. message \in Messages
    BY DEF PushInv, LinkInv, LinkType
  <2>3. H \in Seq(W) /\ Len(H) = N /\ N \in Nat
    BY <2>2, HeadedIs
  <2>4. A # << >>
    BY <2>1 DEF Delivered
  <2> HIDE DEF W, H, N
  <2>5. Len(A) \in 1 .. N
    <3>1. Len(A \o B) = Len(A) + Len(B) /\ Len(A) \in Nat /\ Len(B) \in Nat /\ Len(A) # 0
      BY <2>1, <2>4
    <3> QED
      BY <2>1, <2>3, <3>1
  <2>6. A = SubSeq(H, 1, Len(A))
    <3>1. SubSeq(A \o B, 1, Len(A)) = A
      BY <2>1, FirstPart, Zenon
    <3> QED
      BY <2>1, <3>1
  <2>7. Delivered(A) = Link!Beginning(message, Len(A))
    BY <2>2, <2>5, <2>6, BeginningDelivered DEF N, H
  <2> QED
    BY <2>1, <2>5, <2>7 DEF N
<1> QED
  BY <1>1, PushInvAlways, PTL

(* With checksums checked, one flipped bit on the line makes the decoder   *)
(* return nothing, or it hit a closing flag.                               *)
THEOREM HdlcCorruptionIsNoticed == PushSpec => []CorruptionIsNoticed
<1>1. PushInv => CorruptionIsNoticed
  <2> SUFFICES ASSUME PushInv, status = "done", fault = "corrupted", ~ skip_crc_check
               PROVE  result \in {<< >>, Link!Whole(message)}
    BY DEF CorruptionIsNoticed
  <2>1. result = << >> \/ result = Delivered(Headed)
    BY DEF PushInv, CorruptedInv
  <2>2. message \in Messages
    BY DEF PushInv, LinkInv, LinkType
  <2> QED
    BY <2>1, <2>2, WholeDelivered
<1> QED
  BY <1>1, PushInvAlways, PTL

=============================================================================
