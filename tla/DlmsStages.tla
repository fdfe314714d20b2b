----------------------------- MODULE DlmsStages -----------------------------
(***************************************************************************)
(* The stages of the facade, one by one.  What is proved of the frame      *)
(* decoders and of the APDU handler, each with a meter of its own, is said *)
(* here of them as the facade calls them, one after another and again for  *)
(* every push: three instances of their proof modules say what is on the   *)
(* line for each, and lemmas say that what an instance means by an action  *)
(* or an operator is what the facade means.                                *)
(***************************************************************************)
EXTENDS DlmsPush, SpansProofs

(* Bytes are the same to all of them.                                      *)
Octet == 0 .. 255

-----------------------------------------------------------------------------
(* The line.  What has arrived and what is still to be sent are bytes, and *)
(* all that is sent of the message while nothing has disturbed it.         *)
LineTypes ==
  /\ message \in Messages /\ chatter = 0
  /\ air \in Seq(Octet) /\ queue \in Seq(Seq(Octet))

Undisturbed == air \o FlattenSeq(queue) = FlattenSeq(Frames(message))

LineHolds == LineTypes /\ (fault = "none" => Undisturbed)

(* A push starts.                                                          *)
LEMMA PushStarts ==
  ASSUME NEW m, Frames(m) \in Seq(Seq(Octet))
  PROVE  << >> \o FlattenSeq(Frames(m)) = FlattenSeq(Frames(m))
<1>1. FlattenSeq(Frames(m)) \in Seq(Octet)
  BY FlattenType, Zenon
<1> QED
  BY <1>1

(* The meter sends a frame, or the line does something to it.              *)
LEMMA TransmitHolds ==
  ASSUME LineHolds, Link!Transmit
  PROVE  LineHolds'
<1>1. /\ queue # << >> /\ air' = air \o Head(queue) /\ queue' = Tail(queue)
      /\ message' = message /\ chatter' = chatter /\ fault' = fault
  BY DEF Link!Transmit
<1> DEFINE W == Seq(Octet)
           h == Head(queue)
           t == Tail(queue)
<1>2. message \in Messages /\ chatter = 0 /\ air \in W /\ queue \in Seq(W)
  BY DEF LineHolds, LineTypes
<1>3. h \in W /\ t \in Seq(W) /\ <<h>> \in Seq(W) /\ queue = <<h>> \o t
  <2> HIDE DEF W
  <2> QED
    BY <1>1, <1>2
<1> HIDE DEF h, t
<1>4. FlattenSeq(queue) = h \o FlattenSeq(t) /\ FlattenSeq(t) \in W
  <2>1. FlattenSeq(<<h>> \o t) = FlattenSeq(<<h>>) \o FlattenSeq(t)
    BY <1>3, FlattenConcat, Zenon
  <2>2. FlattenSeq(<<h>>) = h
    BY <1>3, FlattenOne, Zenon
  <2>3. FlattenSeq(t) \in W
    BY <1>3, FlattenType, Zenon
  <2> QED
    BY <1>3, <2>1, <2>2, <2>3, Zenon
<1>5. Associates(air, h, FlattenSeq(t)) /\ air \o h \in W
  BY <1>2, <1>3, <1>4, Assoc, Zenon
<1>6. LineTypes'
  BY <1>1, <1>2, <1>3, <1>5, Zenon DEF LineTypes, h, t
<1>7. Undisturbed => Undisturbed'
  BY <1>1, <1>4, <1>5, Zenon DEF Undisturbed, Associates, h, t
<1> QED
  BY <1>1, <1>6, <1>7, Zenon DEF LineHolds

LEMMA LoseHolds ==
  ASSUME LineHolds, Link!Lose
  PROVE  LineHolds'
<1>1. /\ queue # << >> /\ queue' = Tail(queue) /\ fault' = "lost"
      /\ message' = message /\ air' = air /\ chatter' = chatter
  BY DEF Link!Lose
<1> DEFINE W == Seq(Octet)
<1>2. queue \in Seq(W)
  BY DEF LineHolds, LineTypes
<1>3. Tail(queue) \in Seq(W)
  <2> HIDE DEF W
  <2> QED
    BY <1>1, <1>2
<1>4. LineTypes'
  BY <1>1, <1>3, Zenon DEF LineHolds, LineTypes
<1>5. "lost" # "none"
  OBVIOUS
<1> QED
  BY <1>1, <1>4, <1>5, Zenon DEF LineHolds

LEMMA RepeatHolds ==
  ASSUME LineHolds, Link!Repeat
  PROVE  LineHolds'
<1>1. /\ queue # << >> /\ air' = air \o Head(queue) /\ fault' = "repeated"
      /\ message' = message /\ queue' = queue /\ chatter' = chatter
  BY DEF Link!Repeat
<1> DEFINE W == Seq(Octet)
           h == Head(queue)
<1>2. queue \in Seq(W) /\ air \in W
  BY DEF LineHolds, LineTypes
<1>3. h \in W
  <2> HIDE DEF W
  <2> QED
    BY <1>1, <1>2
<1> HIDE DEF h
<1>4. air \o h \in W
  BY <1>2, <1>3, LongConcat, Zenon
<1>5. LineTypes'
  BY <1>1, <1>4, Zenon DEF LineHolds, LineTypes, h
<1>6. "repeated" # "none"
  OBVIOUS
<1> QED
  BY <1>1, <1>5, <1>6, Zenon DEF LineHolds

LEMMA CutHolds ==
  ASSUME LineHolds, Link!Cut
  PROVE  LineHolds'
<1>1. /\ fault' = "cut" /\ \E n \in 0 .. Len(air) - 1 : air' = SubSeq(air, 1, n)
      /\ message' = message /\ queue' = queue /\ chatter' = chatter
  BY DEF Link!Cut
<1>2. air' \in Seq(Octet)
  <2>1. air \in Seq(Octet)
    BY DEF LineHolds, LineTypes
  <2> QED
    BY <1>1, <2>1
<1>3. LineTypes'
  BY <1>1, <1>2, Zenon DEF LineHolds, LineTypes
<1>4. "cut" # "none"
  OBVIOUS
<1> QED
  BY <1>1, <1>3, <1>4, Zenon DEF LineHolds

LEMMA CorruptHolds ==
  ASSUME LineHolds, Link!Corrupt
  PROVE  LineHolds'
<1> DEFINE Masks == {1, 2, 4, 8, 16, 32, 64, 128}
<1>1. /\ fault' = "corrupted" /\ message' = message /\ queue' = queue /\ chatter' = chatter
      /\ \E k \in DOMAIN air, bit \in Masks : air' = [air EXCEPT ![k] = Link!FlipBit(air[k], bit)]
  BY DEF Link!Corrupt
<1>2. air \in Seq(Octet)
  BY DEF LineHolds, LineTypes
<1>3. PICK k \in DOMAIN air, bit \in Masks : air' = [air EXCEPT ![k] = Link!FlipBit(air[k], bit)]
  BY <1>1
<1> DEFINE v == Link!FlipBit(air[k], bit)
<1>4. v \in Octet
  <2> DEFINE b == air[k]
  <2>1. b \in Nat /\ b <= 255
    <3>1. b \in Octet
      BY <1>2, <1>3
    <3> HIDE DEF b
    <3> QED
      BY <3>1 DEF Octet
  <2>2. v = IF (b \div bit) % 2 = 1 THEN b - bit ELSE b + bit
    BY DEF Link!FlipBit
  <2> HIDE DEF b, v
  <2>3. v \in Nat /\ v <= 255
    <3>1. CASE bit = 1
      BY <2>1, <2>2, <3>1
    <3>2. CASE bit = 2
      BY <2>1, <2>2, <3>2
    <3>3. CASE bit = 4
      BY <2>1, <2>2, <3>3
    <3>4. CASE bit = 8
      BY <2>1, <2>2, <3>4
    <3>5. CASE bit = 16
      BY <2>1, <2>2, <3>5
    <3>6. CASE bit = 32
      BY <2>1, <2>2, <3>6
    <3>7. CASE bit = 64
      BY <2>1, <2>2, <3>7
    <3>8. CASE bit = 128
      BY <2>1, <2>2, <3>8
    <3> QED
      BY <3>1, <3>2, <3>3, <3>4, <3>5, <3>6, <3>7, <3>8
  <2> QED
    BY <2>3 DEF Octet
<1>5. air' \in Seq(Octet)
  <2> HIDE DEF v
  <2>1. air' = [air EXCEPT ![k] = v]
    BY <1>3 DEF v
  <2> QED
    BY <1>2, <1>4, <2>1
<1>6. LineTypes'
  BY <1>1, <1>2, <1>5, Zenon DEF LineHolds, LineTypes
<1>7. "corrupted" # "none"
  OBVIOUS
<1> QED
  BY <1>1, <1>6, <1>7, Zenon DEF LineHolds

(* Nobody else is on the line.                                             *)
LEMMA PushHolds ==
  ASSUME LineHolds, Link!Next
  PROVE  LineHolds'
<1>1. chatter = 0
  BY DEF LineHolds, LineTypes
<1>2. ~ Link!Chatter
  BY <1>1 DEF Link!Chatter
<1>3. ~ Link!Interfere
  BY DEF Link!Interfere
<1> QED
  BY <1>2, <1>3, TransmitHolds, LoseHolds, RepeatHolds, CutHolds, CorruptHolds,
     Zenon DEF Link!Next

(* Nothing moves on the line while the facade works.                       *)
LEMMA LineKept ==
  ASSUME LineHolds, UNCHANGED link
  PROVE  /\ LineHolds' /\ message' = message /\ queue' = queue /\ air' = air
         /\ fault' = fault
<1>1. /\ message' = message /\ queue' = queue /\ air' = air /\ fault' = fault
      /\ chatter' = chatter
  BY DEF link
<1> QED
  BY <1>1, Zenon DEF LineHolds, LineTypes, Undisturbed

(* A short frame in front, and none.                                       *)
LEMMA NoShortFrame ==
  ASSUME NEW b \in Seq(Octet), b[1] # 16
  PROVE  WithoutShortFrame(b) = b
  BY DEF WithoutShortFrame, is_mbus_short_frame, At

LEMMA BehindShortFrame ==
  ASSUME NEW b \in Seq(Octet), NEW s, s = HdlcMeter!ShortFrame
  PROVE  /\ s \in Seq(Octet) /\ s \o b \in Seq(Octet)
         /\ WithoutShortFrame(s \o b) = b
<1>1. s = <<16, 64, 1, 65, 22>>
  BY DEF HdlcMeter!ShortFrame
<1>2. s \in Seq(Octet) /\ Len(s) = 5
  BY <1>1 DEF Octet
<1> DEFINE r == s \o b
<1>3. Len(r) = 5 + Len(b) /\ r[1] = 16 /\ r[2] = 64 /\ r[3] = 1 /\ r[4] = 65 /\ r[5] = 22
  BY <1>1
<1>4. r \in Seq(Octet) /\ From(r, Len(s)) = b
  BY <1>2, LastPart, LongConcat, Zenon
<1> HIDE DEF r
<1>5. is_mbus_short_frame(r)
  <2>1. Len(b) \in Nat
    OBVIOUS
  <2> QED
    BY <1>3, <2>1 DEF is_mbus_short_frame, At
<1>6. WithoutShortFrame(r) = b
  BY <1>2, <1>4, <1>5, Zenon DEF WithoutShortFrame
<1> QED
  BY <1>2, <1>4, <1>6 DEF r

(* Whatever has arrived.                                                   *)
LEMMA PassedOver ==
  ASSUME NEW b \in Seq(Octet)
  PROVE  WithoutShortFrame(b) \in Seq(Octet)
<1>1. From(b, 5) \in Seq(Octet)
  <2>1. CASE Len(b) >= 5
    BY <2>1 DEF From
  <2>2. CASE ~ Len(b) >= 5
    <3>1. From(b, 5) = << >>
      BY <2>2 DEF From
    <3>2. << >> \in Seq(Octet)
      OBVIOUS
    <3> QED
      BY <3>1, <3>2
  <2> QED
    BY <2>1, <2>2
<1> QED
  BY <1>1, Zenon DEF WithoutShortFrame

(* The first byte.                                                         *)
LEMMA FirstByte ==
  ASSUME NEW b
  PROVE  At(b, 0) = b[1]
  BY DEF At

(* A message without the short frame in front.                             *)
Bare(m) ==
  CASE m.framing = "hdlc" -> HdlcMeter!HdlcFrames(m)
    [] m.framing = "mbus" -> MbusMeter!MbusFrames(m)
    [] m.framing = "none" -> m.pieces

Body(m) == FlattenSeq(Bare(m))

(* The facade can tell how it is framed.                                   *)
Tells(m) ==
  /\ Bare(m) \in Seq(Seq(Octet)) /\ Body(m) \in Seq(Octet) /\ Body(m) # << >>
  /\ Body(m)[1] # 16
  /\ Body(m)[1] = 126 <=> m.framing = "hdlc"
  /\ Body(m)[1] = 104 <=> m.framing = "mbus"

(* What is framed is what was wrapped.                                     *)
IsWrapped(m) ==
  /\ m.pieces \in Seq(Seq(Octet)) /\ m.pieces # << >>
  /\ FlattenSeq(m.pieces) \in Seq(Octet) /\ FlattenSeq(m.pieces) # << >>
  /\ FlattenSeq(m.pieces) = FlattenSeq(ApduMeter!Frames(m))

LEMMA PiecesThere ==
  ASSUME NEW m \in Messages
  PROVE  m.pieces \in Seq(Seq(Octet)) /\ m.pieces # << >>
<1>1. HoldsApdu(m)
  BY TelegramAssumption, Zenon
<1> QED
  BY <1>1, Zenon DEF HoldsApdu, Octet

(* The library's cipher gives as many bytes as it is given.                *)
PlainKeepsLength ==
  \A key \in Keys, nonce, cipher \in Seq(Octet) :
    /\ Plain(key, nonce, cipher) \in Seq(Octet)
    /\ Len(Plain(key, nonce, cipher)) = Len(cipher)

-----------------------------------------------------------------------------
(* The HDLC decoder, on a line that holds what was received behind the     *)
(* short frame.  The lemmas named HdlcSame say that the decoder of the     *)
(* facade is the one of HdlcProofs, those named HdlcMeter that the meter   *)
(* is.                                                                     *)
HdlcLine == INSTANCE HdlcProofs WITH
  Messages <- Framed("hdlc"), Foreign <- {}, MaxChatter <- 0, queue <- << >>,
  air <- WithoutShortFrame(air), chatter <- 0, fault <- "none",
  skip_crc_check <- skip_crc_check_,
  buf <- frame_buf, status <- frame_status, result <- decoded

LEMMA HdlcSameCall ==
  ASSUME NEW bytes, NEW skip
  PROVE  HdlcLine!Call(bytes, skip) <=> Hdlc!Call(bytes, skip)
  BY Zenon DEF HdlcLine!Call, Hdlc!Call

LEMMA HdlcSameAt ==
  ASSUME NEW b, NEW i
  PROVE  HdlcLine!At(b, i) = Hdlc!At(b, i)
  BY Zenon DEF HdlcLine!At, Hdlc!At

LEMMA HdlcSameIs_mbus_short_frame ==
  ASSUME NEW data
  PROVE  HdlcLine!is_mbus_short_frame(data) <=> Hdlc!is_mbus_short_frame(data)
  BY HdlcSameAt, Zenon DEF HdlcLine!is_mbus_short_frame, Hdlc!is_mbus_short_frame

LEMMA HdlcSameFrom ==
  ASSUME NEW b, NEW off
  PROVE  HdlcLine!From(b, off) = Hdlc!From(b, off)
  BY Zenon DEF HdlcLine!From, Hdlc!From

LEMMA HdlcSameRemaining == HdlcLine!remaining = Hdlc!remaining
  BY HdlcSameFrom, Zenon DEF HdlcLine!remaining, Hdlc!remaining

LEMMA HdlcSameLoopTest == HdlcLine!LoopTest <=> Hdlc!LoopTest
  BY Zenon DEF HdlcLine!LoopTest, Hdlc!LoopTest

LEMMA HdlcSameSkipShortFrame == HdlcLine!SkipShortFrame <=> Hdlc!SkipShortFrame
  BY HdlcSameIs_mbus_short_frame, HdlcSameRemaining, HdlcSameLoopTest, Zenon DEF
     HdlcLine!SkipShortFrame, Hdlc!SkipShortFrame

LEMMA HdlcSameCopyTo ==
  ASSUME NEW b, NEW s, NEW dst
  PROVE  HdlcLine!CopyTo(b, s, dst) = Hdlc!CopyTo(b, s, dst)
  BY Zenon DEF HdlcLine!CopyTo, Hdlc!CopyTo

LEMMA HdlcSameFrameTotal ==
  ASSUME NEW r
  PROVE  HdlcLine!FrameTotal(r) = Hdlc!FrameTotal(r)
  BY HdlcSameAt, Zenon DEF HdlcLine!FrameTotal, Hdlc!FrameTotal

LEMMA HdlcSameSubspan ==
  ASSUME NEW b, NEW off, NEW n
  PROVE  HdlcLine!Subspan(b, off, n) = Hdlc!Subspan(b, off, n)
  BY Zenon DEF HdlcLine!Subspan, Hdlc!Subspan

LEMMA HdlcSameByte == HdlcLine!Byte = Hdlc!Byte
  BY SMT DEF HdlcLine!Byte, Hdlc!Byte

LEMMA HdlcSameWord16 == HdlcLine!Word16 = Hdlc!Word16
  BY SMT DEF HdlcLine!Word16, Hdlc!Word16

LEMMA HdlcSameCRC16_INIT == HdlcLine!CRC16_INIT = Hdlc!CRC16_INIT
  BY SMT DEF HdlcLine!CRC16_INIT, Hdlc!CRC16_INIT

LEMMA HdlcSameXor4 == HdlcLine!Xor4 = Hdlc!Xor4
  BY Zenon DEF HdlcLine!Xor4, Hdlc!Xor4, HdlcLine!Bit, Hdlc!Bit

LEMMA HdlcSameXor8 ==
  ASSUME NEW a, NEW b
  PROVE  HdlcLine!Xor8(a, b) = Hdlc!Xor8(a, b)
  BY HdlcSameXor4, Zenon DEF HdlcLine!Xor8, Hdlc!Xor8

LEMMA HdlcSameXor16 ==
  ASSUME NEW a, NEW b
  PROVE  HdlcLine!Xor16(a, b) = Hdlc!Xor16(a, b)
  BY HdlcSameXor8, Zenon DEF HdlcLine!Xor16, Hdlc!Xor16

LEMMA HdlcSameCRC16_X25_TABLE == HdlcLine!CRC16_X25_TABLE = Hdlc!CRC16_X25_TABLE
  BY SMT DEF HdlcLine!CRC16_X25_TABLE, Hdlc!CRC16_X25_TABLE

LEMMA HdlcSameCrc16Step ==
  ASSUME NEW crc, NEW byte
  PROVE  HdlcLine!Crc16Step(crc, byte) = Hdlc!Crc16Step(crc, byte)
  BY HdlcSameXor8, HdlcSameXor16, HdlcSameCRC16_X25_TABLE, Zenon DEF
     HdlcLine!Crc16Step, Hdlc!Crc16Step

LEMMA HdlcSameCrc16 ==
  ASSUME NEW data
  PROVE  HdlcLine!Crc16(data) = Hdlc!Crc16(data)
<1> DEFINE Register(turn, init) ==
      LET crc[i \in 0 .. Len(data)] == IF i = 0 THEN init ELSE turn[crc[i - 1]][data[i]]
      IN  crc[Len(data)]
    Steps1 == [crc \in HdlcLine!Word16 |->
                 [byte \in HdlcLine!Byte |-> HdlcLine!Crc16Step(crc, byte)]]
    Steps2 == [crc \in Hdlc!Word16 |-> [byte \in Hdlc!Byte |-> Hdlc!Crc16Step(crc, byte)]]
<1>1. Steps1 = Steps2
  BY HdlcSameWord16, HdlcSameByte, HdlcSameCrc16Step, Zenon
<1>2. HdlcLine!Crc16(data) = Register(Steps1, HdlcLine!CRC16_INIT)
  BY Zenon DEF HdlcLine!Crc16
<1>3. Hdlc!Crc16(data) = Register(Steps2, Hdlc!CRC16_INIT)
  BY Zenon DEF Hdlc!Crc16
<1> HIDE DEF Register, Steps1, Steps2
<1> QED
  BY <1>1, <1>2, <1>3, HdlcSameCRC16_INIT, Zenon

LEMMA HdlcSameCrc16_x25_check ==
  ASSUME NEW data
  PROVE  HdlcLine!crc16_x25_check(data) <=> Hdlc!crc16_x25_check(data)
  BY HdlcSameCrc16, SMT DEF HdlcLine!crc16_x25_check, Hdlc!crc16_x25_check

LEMMA HdlcSameHDLC_FLAG == HdlcLine!HDLC_FLAG = Hdlc!HDLC_FLAG
  BY Zenon DEF HdlcLine!HDLC_FLAG, Hdlc!HDLC_FLAG

LEMMA HdlcSameInner ==
  ASSUME NEW r
  PROVE  HdlcLine!Inner(r) = Hdlc!Inner(r)
  BY HdlcSameFrameTotal, HdlcSameSubspan, Zenon DEF HdlcLine!Inner, Hdlc!Inner

LEMMA HdlcSameAddress_length == HdlcLine!address_length = Hdlc!address_length
  BY HdlcSameByte, Zenon DEF HdlcLine!address_length, Hdlc!address_length,
     HdlcLine!LastAddressByte, Hdlc!LastAddressByte

LEMMA HdlcSameDstLen ==
  ASSUME NEW inner
  PROVE  HdlcLine!DstLen(inner) = Hdlc!DstLen(inner)
  BY HdlcSameFrom, HdlcSameAddress_length, Zenon DEF HdlcLine!DstLen, Hdlc!DstLen

LEMMA HdlcSameSrcLen ==
  ASSUME NEW inner
  PROVE  HdlcLine!SrcLen(inner) = Hdlc!SrcLen(inner)
  BY HdlcSameFrom, HdlcSameAddress_length, HdlcSameDstLen, Zenon DEF HdlcLine!SrcLen,
     Hdlc!SrcLen

LEMMA HdlcSameHcsPos == HdlcLine!HcsPos = Hdlc!HcsPos
  BY HdlcSameFrom, HdlcSameByte, HdlcSameAddress_length, Zenon DEF HdlcLine!HcsPos,
     Hdlc!HcsPos, HdlcLine!DstLen, Hdlc!DstLen, HdlcLine!SrcLen, Hdlc!SrcLen

LEMMA HdlcSameFrameOk ==
  ASSUME NEW r, NEW skip
  PROVE  HdlcLine!FrameOk(r, skip) <=> Hdlc!FrameOk(r, skip)
  BY HdlcSameAt, HdlcSameFrameTotal, HdlcSameSubspan, HdlcSameCrc16_x25_check,
     HdlcSameHDLC_FLAG, HdlcSameInner, HdlcSameDstLen, HdlcSameSrcLen,
     HdlcSameHcsPos, Zenon DEF HdlcLine!FrameOk, Hdlc!FrameOk

LEMMA HdlcSameDataEnd ==
  ASSUME NEW r
  PROVE  HdlcLine!DataEnd(r) = Hdlc!DataEnd(r)
  BY HdlcSameFrameTotal, Zenon DEF HdlcLine!DataEnd, Hdlc!DataEnd

LEMMA HdlcSameHasLlc ==
  ASSUME NEW r
  PROVE  HdlcLine!HasLlc(r) <=> Hdlc!HasLlc(r)
  BY HdlcSameAt, HdlcSameInner, HdlcSameHcsPos, HdlcSameDataEnd, Zenon DEF
     HdlcLine!HasLlc, Hdlc!HasLlc

LEMMA HdlcSameDataPos ==
  ASSUME NEW r, NEW first
  PROVE  HdlcLine!DataPos(r, first) = Hdlc!DataPos(r, first)
  BY HdlcSameInner, HdlcSameHcsPos, HdlcSameHasLlc, Zenon DEF HdlcLine!DataPos,
     Hdlc!DataPos

LEMMA HdlcSamePayload ==
  ASSUME NEW r, NEW first
  PROVE  HdlcLine!Payload(r, first) = Hdlc!Payload(r, first)
  BY HdlcSameSubspan, HdlcSameInner, HdlcSameDataEnd, HdlcSameDataPos, Zenon DEF
     HdlcLine!Payload, Hdlc!Payload

LEMMA HdlcSameTakeFrame == HdlcLine!TakeFrame <=> Hdlc!TakeFrame
  BY HdlcSameIs_mbus_short_frame, HdlcSameRemaining, HdlcSameLoopTest,
     HdlcSameCopyTo, HdlcSameFrameTotal, HdlcSameFrameOk, HdlcSamePayload, Zenon DEF
     HdlcLine!TakeFrame, Hdlc!TakeFrame

LEMMA HdlcSameReject == HdlcLine!Reject <=> Hdlc!Reject
  BY HdlcSameIs_mbus_short_frame, HdlcSameRemaining, HdlcSameFrameOk, Zenon DEF
     HdlcLine!Reject, Hdlc!Reject

LEMMA HdlcSameReturn == HdlcLine!Return <=> Hdlc!Return
  BY HdlcSameSubspan, Zenon DEF HdlcLine!Return, Hdlc!Return

LEMMA HdlcSameDecode == HdlcLine!Decode <=> Hdlc!Decode
  BY HdlcSameSkipShortFrame, HdlcSameTakeFrame, HdlcSameReject, HdlcSameReturn, Zenon
     DEF HdlcLine!Decode, Hdlc!Decode

LEMMA HdlcMeterByte == HdlcLine!Byte = HdlcMeter!Byte
  BY SMT DEF HdlcLine!Byte, HdlcMeter!Byte

LEMMA HdlcMeterWord16 == HdlcLine!Word16 = HdlcMeter!Word16
  BY SMT DEF HdlcLine!Word16, HdlcMeter!Word16

LEMMA HdlcMeterCRC16_INIT == HdlcLine!CRC16_INIT = HdlcMeter!CRC16_INIT
  BY SMT DEF HdlcLine!CRC16_INIT, HdlcMeter!CRC16_INIT

LEMMA HdlcMeterXor4 == HdlcLine!Xor4 = HdlcMeter!Xor4
  BY Zenon DEF HdlcLine!Xor4, HdlcMeter!Xor4, HdlcLine!Bit, HdlcMeter!Bit

LEMMA HdlcMeterXor8 ==
  ASSUME NEW a, NEW b
  PROVE  HdlcLine!Xor8(a, b) = HdlcMeter!Xor8(a, b)
  BY HdlcMeterXor4, Zenon DEF HdlcLine!Xor8, HdlcMeter!Xor8

LEMMA HdlcMeterXor16 ==
  ASSUME NEW a, NEW b
  PROVE  HdlcLine!Xor16(a, b) = HdlcMeter!Xor16(a, b)
  BY HdlcMeterXor8, Zenon DEF HdlcLine!Xor16, HdlcMeter!Xor16

LEMMA HdlcMeterCRC16_X25_TABLE == HdlcLine!CRC16_X25_TABLE = HdlcMeter!CRC16_X25_TABLE
  BY SMT DEF HdlcLine!CRC16_X25_TABLE, HdlcMeter!CRC16_X25_TABLE

LEMMA HdlcMeterCrc16Step ==
  ASSUME NEW crc, NEW byte
  PROVE  HdlcLine!Crc16Step(crc, byte) = HdlcMeter!Crc16Step(crc, byte)
  BY HdlcMeterXor8, HdlcMeterXor16, HdlcMeterCRC16_X25_TABLE, Zenon DEF
     HdlcLine!Crc16Step, HdlcMeter!Crc16Step

LEMMA HdlcMeterCrc16 ==
  ASSUME NEW data
  PROVE  HdlcLine!Crc16(data) = HdlcMeter!Crc16(data)
<1> DEFINE Register(turn, init) ==
      LET crc[i \in 0 .. Len(data)] == IF i = 0 THEN init ELSE turn[crc[i - 1]][data[i]]
      IN  crc[Len(data)]
    Steps1 == [crc \in HdlcLine!Word16 |->
                 [byte \in HdlcLine!Byte |-> HdlcLine!Crc16Step(crc, byte)]]
    Steps2 == [crc \in HdlcMeter!Word16 |-> [byte \in HdlcMeter!Byte |-> HdlcMeter!Crc16Step(crc, byte)]]
<1>1. Steps1 = Steps2
  BY HdlcMeterWord16, HdlcMeterByte, HdlcMeterCrc16Step, Zenon
<1>2. HdlcLine!Crc16(data) = Register(Steps1, HdlcLine!CRC16_INIT)
  BY Zenon DEF HdlcLine!Crc16
<1>3. HdlcMeter!Crc16(data) = Register(Steps2, HdlcMeter!CRC16_INIT)
  BY Zenon DEF HdlcMeter!Crc16
<1> HIDE DEF Register, Steps1, Steps2
<1> QED
  BY <1>1, <1>2, <1>3, HdlcMeterCRC16_INIT, Zenon

LEMMA HdlcMeterFcs ==
  ASSUME NEW data
  PROVE  HdlcLine!Fcs(data) = HdlcMeter!Fcs(data)
  BY HdlcMeterCrc16, SMT DEF HdlcLine!Fcs, HdlcMeter!Fcs

LEMMA HdlcMeterHdlcFrame ==
  ASSUME NEW address, NEW data, NEW more
  PROVE  HdlcLine!HdlcFrame(address, data, more) = HdlcMeter!HdlcFrame(address, data, more)
<1> DEFINE len == Len(address) + Len(data) + 7
           header == <<160 + (IF more THEN 8 ELSE 0) + len \div 256, len % 256>>
                       \o address \o <<19>>
           Checked(fcs) == header \o fcs \o data
           Whole(checked, fcs) == <<126>> \o checked \o fcs \o <<126>>
           h1 == HdlcLine!Fcs(header)
           h2 == HdlcMeter!Fcs(header)
<1>1. HdlcLine!HdlcFrame(address, data, more) = Whole(Checked(h1), HdlcLine!Fcs(Checked(h1)))
  BY Zenon DEF HdlcLine!HdlcFrame
<1>2. HdlcMeter!HdlcFrame(address, data, more) = Whole(Checked(h2), HdlcMeter!Fcs(Checked(h2)))
  BY Zenon DEF HdlcMeter!HdlcFrame
<1> HIDE DEF header, Checked, Whole
<1>3. h1 = h2
  BY HdlcMeterFcs, Zenon
<1>4. HdlcLine!Fcs(Checked(h2)) = HdlcMeter!Fcs(Checked(h2))
  BY HdlcMeterFcs, Zenon
<1> QED
  BY <1>1, <1>2, <1>3, <1>4, Zenon

LEMMA HdlcMeterHdlcFrames ==
  ASSUME NEW m
  PROVE  HdlcLine!HdlcFrames(m) = HdlcMeter!HdlcFrames(m)
  BY HdlcMeterHdlcFrame, Zenon DEF HdlcLine!HdlcFrames, HdlcMeter!HdlcFrames

LEMMA HdlcMeterFrom ==
  ASSUME NEW b, NEW off
  PROVE  HdlcLine!From(b, off) = HdlcMeter!From(b, off)
  BY Zenon DEF HdlcLine!From, HdlcMeter!From

LEMMA HdlcMeterLastAddressByte ==
  ASSUME NEW p, NEW i
  PROVE  HdlcLine!LastAddressByte(p, i) <=> HdlcMeter!LastAddressByte(p, i)
  BY Zenon DEF HdlcLine!LastAddressByte, HdlcMeter!LastAddressByte

LEMMA HdlcMeterGoodAddress ==
  ASSUME NEW a
  PROVE  HdlcLine!GoodAddress(a) <=> HdlcMeter!GoodAddress(a)
  BY HdlcMeterFrom, HdlcMeterLastAddressByte, Zenon DEF HdlcLine!GoodAddress,
     HdlcMeter!GoodAddress

LEMMA HdlcMeterFits ==
  ASSUME NEW address, NEW piece
  PROVE  HdlcLine!Fits(address, piece) <=> HdlcMeter!Fits(address, piece)
  BY SMT DEF HdlcLine!Fits, HdlcMeter!Fits

LEMMA HdlcMeterIsMessage ==
  ASSUME NEW m
  PROVE  HdlcLine!IsMessage(m) <=> HdlcMeter!IsMessage(m)
  BY HdlcMeterByte, HdlcMeterGoodAddress, HdlcMeterFits, Zenon DEF
     HdlcLine!IsMessage, HdlcMeter!IsMessage

LEMMA HdlcMeterShortFrame == HdlcLine!ShortFrame = HdlcMeter!ShortFrame
  BY Zenon DEF HdlcLine!ShortFrame, HdlcMeter!ShortFrame

LEMMA HdlcOctets == HdlcLine!Byte = Octet
  BY Zenon DEF HdlcLine!Byte, Octet

LEMMA HdlcJoins ==
  ASSUME NEW s
  PROVE  HdlcLine!FlattenSeq(s) = FlattenSeq(s)
  BY Zenon DEF HdlcLine!FlattenSeq, FlattenSeq

(* The messages are assumed to be what the proofs assume of them.          *)
LEMMA HdlcAssumed ==
  /\ 0 \in Nat /\ {} \subseteq Seq(HdlcLine!Byte)
  /\ \A m \in Framed("hdlc") : HdlcLine!IsMessage(m)
<1>1. ASSUME NEW m \in Framed("hdlc") PROVE HdlcLine!IsMessage(m)
  <2>1. m \in Messages /\ m.framing = "hdlc"
    BY Zenon DEF Framed
  <2>2. CanBeFramed(m)
    BY <2>1, TelegramAssumption, Zenon
  <2>3. "hdlc" # "mbus" /\ "hdlc" # "none"
    OBVIOUS
  <2>4. HdlcMeter!IsMessage(m)
    BY <2>1, <2>2, <2>3, Zenon DEF CanBeFramed
  <2> QED
    BY <2>4, HdlcMeterIsMessage, Zenon
<1> QED
  BY <1>1

(* The facade can tell that frames are HDLC frames.                        *)
LEMMA HdlcTells ==
  ASSUME NEW m \in Messages, m.framing = "hdlc"
  PROVE  Tells(m) /\ Bare(m) = HdlcLine!HdlcFrames(m)
<1>1. m \in Framed("hdlc")
  BY Zenon DEF Framed
<1>2. Bare(m) = HdlcLine!HdlcFrames(m)
  <2>1. Bare(m) = HdlcMeter!HdlcFrames(m)
    BY DEF Bare
  <2> QED
    BY <2>1, HdlcMeterHdlcFrames, Zenon
<1>3. /\ Bare(m) \in Seq(Seq(Octet))
      /\ Body(m) \in Seq(Octet) /\ Body(m) # << >> /\ Body(m)[1] = HdlcLine!HDLC_FLAG
  <2>1. /\ HdlcLine!HdlcFrames(m) \in Seq(Seq(HdlcLine!Byte))
        /\ HdlcLine!FlattenSeq(HdlcLine!HdlcFrames(m)) \in Seq(HdlcLine!Byte)
        /\ HdlcLine!FlattenSeq(HdlcLine!HdlcFrames(m)) # << >>
        /\ HdlcLine!FlattenSeq(HdlcLine!HdlcFrames(m))[1] = HdlcLine!HDLC_FLAG
    BY <1>1, HdlcLine!FramesBegin, HdlcAssumed, Zenon
  <2> QED
    BY <1>2, <2>1, HdlcOctets, HdlcJoins, Zenon DEF Body
<1>4. HdlcLine!HDLC_FLAG = 126 /\ "hdlc" # "mbus"
  BY DEF HdlcLine!HDLC_FLAG
<1>5. Body(m)[1] = 126
  BY <1>3, <1>4
<1>6. Body(m)[1] # 16 /\ Body(m)[1] # 104
  BY <1>5
<1> QED
  BY <1>2, <1>3, <1>4, <1>5, <1>6, Zenon DEF Tells

(* Nobody disturbs a stage that is not at work.                            *)
LEMMA FramesKept ==
  ASSUME HdlcLine!TypeOK, UNCHANGED framing
  PROVE  HdlcLine!TypeOK'
  BY Zenon DEF HdlcLine!TypeOK, framing

(* A decoder that is called is in its buffer, ...                          *)
LEMMA HdlcCalled ==
  ASSUME HdlcLine!TypeOK, NEW b \in Seq(Octet), Hdlc!Call(b, skip_crc_check_)
  PROVE  HdlcLine!Inv' /\ HdlcLine!TypeOK'
<1>1. HdlcLine!TypeOK /\ skip_crc_check_ \in BOOLEAN
  BY Zenon DEF HdlcLine!TypeOK
<1>2. b \in Seq(HdlcLine!Byte) /\ HdlcLine!Call(b, skip_crc_check_)
  BY HdlcOctets, HdlcSameCall, Zenon
<1>3. HdlcLine!Inv'
  BY <1>1, <1>2, HdlcLine!CallInv, HdlcAssumed, Zenon
<1> QED
  BY <1>3, Zenon DEF HdlcLine!Inv

(* ... and every turn keeps it there.                                      *)
LEMMA HdlcTurned ==
  ASSUME HdlcLine!Inv, Hdlc!Decode
  PROVE  HdlcLine!Inv' /\ HdlcLine!TypeOK'
<1>1. HdlcLine!Decode
  BY HdlcSameDecode, Zenon
<1>2. [HdlcLine!Next]_(HdlcLine!vars)
  BY <1>1, Zenon DEF HdlcLine!Next
<1>3. HdlcLine!Inv'
  BY <1>2, HdlcLine!NextInv, HdlcAssumed, Zenon
<1> QED
  BY <1>3, Zenon DEF HdlcLine!Inv

(* What the decoder is at, of a message that arrived whole.                *)
HdlcOnTrack == HdlcLine!Tracks(HdlcLine!Headed, << >>)

HdlcHolds ==
  stage = "hdlc" =>
    /\ message.framing = "hdlc"
    /\ frame_status # "done" => HdlcOnTrack
    /\ frame_status = "done" => decoded = FlattenSeq(message.pieces)

LEMMA HdlcWhole ==
  ASSUME message \in Messages, message.framing = "hdlc",
         WithoutShortFrame(air) = Body(message),
         Hdlc!Call(Body(message), skip_crc_check_), UNCHANGED message
  PROVE  HdlcOnTrack' /\ frame_status' # "done"
<1>1. message \in Framed("hdlc")
  BY Zenon DEF Framed
<1>2. WithoutShortFrame(air) = HdlcLine!FlattenSeq(HdlcLine!HdlcFrames(message))
  BY HdlcTells, HdlcJoins, Zenon DEF Body
<1>3. HdlcLine!Call(WithoutShortFrame(air), skip_crc_check_)
  BY HdlcSameCall, Zenon
<1>4. HdlcOnTrack'
  BY <1>1, <1>2, <1>3, HdlcLine!CallWhole, HdlcAssumed, Zenon DEF HdlcOnTrack
<1>5. frame_status' = "decoding" /\ "decoding" # "done"
  BY DEF Hdlc!Call
<1> QED
  BY <1>4, <1>5, Zenon

LEMMA HdlcTurn ==
  ASSUME message \in Messages, message.framing = "hdlc", HdlcLine!Inv, HdlcOnTrack,
         Hdlc!Decode, UNCHANGED message
  PROVE  /\ frame_status' # "done" => HdlcOnTrack'
         /\ frame_status' = "done" => decoded' = FlattenSeq(message.pieces)
<1>1. message \in Framed("hdlc")
  BY Zenon DEF Framed
<1>2. HdlcLine!Decode
  BY HdlcSameDecode, Zenon
<1>3. /\ frame_status' # "done" => HdlcOnTrack'
      /\ frame_status' = "done" => decoded' = HdlcLine!FlattenSeq(message.pieces)
  BY <1>1, <1>2, HdlcLine!TurnWhole, HdlcAssumed, Zenon DEF HdlcOnTrack
<1> QED
  BY <1>3, HdlcJoins, Zenon

LEMMA HdlcStands ==
  ASSUME UNCHANGED framing, UNCHANGED message
  PROVE  /\ HdlcLine!Inv => HdlcLine!Inv'
         /\ HdlcOnTrack => HdlcOnTrack'
<1>1. /\ telegram' = telegram /\ skip_crc_check_' = skip_crc_check_ /\ frame_buf' = frame_buf
      /\ read_offset' = read_offset /\ write_offset' = write_offset /\ is_first' = is_first
      /\ frame_status' = frame_status /\ decoded' = decoded
  BY Zenon DEF framing
<1>2. UNCHANGED HdlcLine!vars
  BY <1>1, Zenon DEF HdlcLine!vars
<1>3. HdlcLine!Inv => HdlcLine!Inv'
  BY <1>2, HdlcLine!NextInv, HdlcAssumed, Zenon
<1>4. HdlcOnTrack => HdlcOnTrack'
  BY <1>1, Zenon DEF HdlcOnTrack, HdlcLine!Tracks, HdlcLine!Headed,
     HdlcLine!remaining, HdlcLine!Output
<1> QED
  BY <1>3, <1>4

-----------------------------------------------------------------------------
(* The M-Bus decoder, on the same line and with the same buffer.           *)
MbusLine == INSTANCE MbusProofs WITH
  Messages <- {m.pieces : m \in Framed("mbus")},
  Trailing <- {}, Foreign <- {}, MaxChatter <- 0,
  message <- [pieces |-> message.pieces], queue <- << >>,
  air <- WithoutShortFrame(air), chatter <- 0, fault <- "none",
  skip_crc_check <- skip_crc_check_,
  buf <- frame_buf, status <- frame_status, result <- decoded

LEMMA MbusSameCall ==
  ASSUME NEW bytes, NEW skip
  PROVE  MbusLine!Call(bytes, skip) <=> Mbus!Call(bytes, skip)
  BY Zenon DEF MbusLine!Call, Mbus!Call

LEMMA MbusSameCopyTo ==
  ASSUME NEW b, NEW s, NEW dst
  PROVE  MbusLine!CopyTo(b, s, dst) = Mbus!CopyTo(b, s, dst)
  BY Zenon DEF MbusLine!CopyTo, Mbus!CopyTo

LEMMA MbusSameAt ==
  ASSUME NEW b, NEW i
  PROVE  MbusLine!At(b, i) = Mbus!At(b, i)
  BY Zenon DEF MbusLine!At, Mbus!At

LEMMA MbusSameMBUS_START == MbusLine!MBUS_START = Mbus!MBUS_START
  BY Zenon DEF MbusLine!MBUS_START, Mbus!MBUS_START

LEMMA MbusSameMBUS_INTRO == MbusLine!MBUS_INTRO = Mbus!MBUS_INTRO
  BY Zenon DEF MbusLine!MBUS_INTRO, Mbus!MBUS_INTRO

LEMMA MbusSameStops ==
  ASSUME NEW r
  PROVE  MbusLine!Stops(r) <=> Mbus!Stops(r)
  BY MbusSameAt, MbusSameMBUS_START, MbusSameMBUS_INTRO, Zenon DEF MbusLine!Stops,
     Mbus!Stops

LEMMA MbusSameMBUS_FOOTER == MbusLine!MBUS_FOOTER = Mbus!MBUS_FOOTER
  BY Zenon DEF MbusLine!MBUS_FOOTER, Mbus!MBUS_FOOTER

LEMMA MbusSameL ==
  ASSUME NEW r
  PROVE  MbusLine!L(r) = Mbus!L(r)
  BY MbusSameAt, Zenon DEF MbusLine!L, Mbus!L

LEMMA MbusSameFrameSize ==
  ASSUME NEW r
  PROVE  MbusLine!FrameSize(r) = Mbus!FrameSize(r)
  BY MbusSameMBUS_INTRO, MbusSameMBUS_FOOTER, MbusSameL, Zenon DEF
     MbusLine!FrameSize, Mbus!FrameSize

LEMMA MbusSameMBUS_STOP == MbusLine!MBUS_STOP = Mbus!MBUS_STOP
  BY Zenon DEF MbusLine!MBUS_STOP, Mbus!MBUS_STOP

LEMMA MbusSameMBUS_HEADER == MbusLine!MBUS_HEADER = Mbus!MBUS_HEADER
  BY Zenon DEF MbusLine!MBUS_HEADER, Mbus!MBUS_HEADER

LEMMA MbusSameChecksum ==
  ASSUME NEW r
  PROVE  MbusLine!Checksum(r) = Mbus!Checksum(r)
  BY Zenon DEF MbusLine!Checksum, Mbus!Checksum, MbusLine!At, Mbus!At,
     MbusLine!MBUS_INTRO, Mbus!MBUS_INTRO, MbusLine!L, Mbus!L

LEMMA MbusSameFrameOk ==
  ASSUME NEW r, NEW skip
  PROVE  MbusLine!FrameOk(r, skip) <=> Mbus!FrameOk(r, skip)
  BY MbusSameAt, MbusSameMBUS_START, MbusSameMBUS_INTRO, MbusSameL,
     MbusSameFrameSize, MbusSameMBUS_STOP, MbusSameMBUS_HEADER, MbusSameChecksum,
     Zenon DEF MbusLine!FrameOk, Mbus!FrameOk

LEMMA MbusSameSubspan ==
  ASSUME NEW b, NEW off, NEW n
  PROVE  MbusLine!Subspan(b, off, n) = Mbus!Subspan(b, off, n)
  BY Zenon DEF MbusLine!Subspan, Mbus!Subspan

LEMMA MbusSamePayload ==
  ASSUME NEW r
  PROVE  MbusLine!Payload(r) = Mbus!Payload(r)
  BY MbusSameMBUS_INTRO, MbusSameL, MbusSameMBUS_HEADER, MbusSameSubspan, Zenon DEF
     MbusLine!Payload, Mbus!Payload

LEMMA MbusSameFrom ==
  ASSUME NEW b, NEW off
  PROVE  MbusLine!From(b, off) = Mbus!From(b, off)
  BY Zenon DEF MbusLine!From, Mbus!From

LEMMA MbusSameRemaining == MbusLine!remaining = Mbus!remaining
  BY MbusSameFrom, Zenon DEF MbusLine!remaining, Mbus!remaining

LEMMA MbusSameTakeFrame == MbusLine!TakeFrame <=> Mbus!TakeFrame
  BY MbusSameCopyTo, MbusSameStops, MbusSameFrameSize, MbusSameFrameOk,
     MbusSamePayload, MbusSameRemaining, Zenon DEF MbusLine!TakeFrame, Mbus!TakeFrame

LEMMA MbusSameFinish ==
  ASSUME NEW span
  PROVE  MbusLine!Finish(span) <=> Mbus!Finish(span)
  BY Zenon DEF MbusLine!Finish, Mbus!Finish

LEMMA MbusSameReject == MbusLine!Reject <=> Mbus!Reject
  BY MbusSameStops, MbusSameFrameOk, MbusSameRemaining, MbusSameFinish, Zenon DEF
     MbusLine!Reject, Mbus!Reject

LEMMA MbusSameReturn == MbusLine!Return <=> Mbus!Return
  BY MbusSameStops, MbusSameSubspan, MbusSameRemaining, MbusSameFinish, Zenon DEF
     MbusLine!Return, Mbus!Return

LEMMA MbusSameDecode == MbusLine!Decode <=> Mbus!Decode
  BY MbusSameTakeFrame, MbusSameReject, MbusSameReturn, Zenon DEF MbusLine!Decode,
     Mbus!Decode

LEMMA MbusMeterLongFrame ==
  ASSUME NEW data
  PROVE  MbusLine!LongFrame(data) = MbusMeter!LongFrame(data)
  BY Zenon DEF MbusLine!LongFrame, MbusMeter!LongFrame

LEMMA MbusMeterMbusFrames ==
  ASSUME NEW m
  PROVE  MbusLine!MbusFrames(m) = MbusMeter!MbusFrames(m)
  BY MbusMeterLongFrame, Zenon DEF MbusLine!MbusFrames, MbusMeter!MbusFrames

LEMMA MbusMeterByte == MbusLine!Byte = MbusMeter!Byte
  BY SMT DEF MbusLine!Byte, MbusMeter!Byte

LEMMA MbusMeterIsMessage ==
  ASSUME NEW m
  PROVE  MbusLine!IsMessage(m) <=> MbusMeter!IsMessage(m)
  BY MbusMeterByte, Zenon DEF MbusLine!IsMessage, MbusMeter!IsMessage

LEMMA MbusOctets == MbusLine!Byte = Octet
  BY Zenon DEF MbusLine!Byte, Octet

LEMMA MbusJoins ==
  ASSUME NEW s
  PROVE  MbusLine!FlattenSeq(s) = FlattenSeq(s)
  BY Zenon DEF MbusLine!FlattenSeq, FlattenSeq

LEMMA MbusAssumed ==
  /\ 0 \in Nat /\ {} \subseteq Seq(MbusLine!Byte)
  /\ \A m \in {m.pieces : m \in Framed("mbus")} : MbusLine!IsMessage(m)
<1>1. ASSUME NEW m \in Framed("mbus") PROVE MbusLine!IsMessage(m.pieces)
  <2>1. m \in Messages /\ m.framing = "mbus"
    BY Zenon DEF Framed
  <2>2. CanBeFramed(m)
    BY <2>1, TelegramAssumption, Zenon
  <2>3. "hdlc" # "mbus" /\ "mbus" # "none"
    OBVIOUS
  <2>4. MbusMeter!IsMessage(m.pieces)
    BY <2>1, <2>2, <2>3, Zenon DEF CanBeFramed
  <2> QED
    BY <2>4, MbusMeterIsMessage, Zenon
<1> QED
  BY <1>1

LEMMA MbusTells ==
  ASSUME NEW m \in Messages, m.framing = "mbus"
  PROVE  Tells(m) /\ Bare(m) = MbusLine!MbusFrames([pieces |-> m.pieces])
<1>1. m \in Framed("mbus")
  BY Zenon DEF Framed
<1> DEFINE p == [pieces |-> m.pieces]
<1>2. Bare(m) = MbusLine!MbusFrames(p)
  <2>1. Bare(m) = MbusMeter!MbusFrames(m)
    BY DEF Bare
  <2>2. p.pieces = m.pieces
    OBVIOUS
  <2>3. MbusLine!MbusFrames(p) = MbusLine!MbusFrames(m)
    BY <2>2, Zenon DEF MbusLine!MbusFrames
  <2> QED
    BY <2>1, <2>3, MbusMeterMbusFrames, Zenon
<1>3. /\ Bare(m) \in Seq(Seq(Octet))
      /\ Body(m) \in Seq(Octet) /\ Body(m) # << >> /\ Body(m)[1] = MbusLine!MBUS_START
  <2>1. p \in [pieces : {n.pieces : n \in Framed("mbus")}] /\ p.pieces # << >>
    BY <1>1, PiecesThere
  <2> HIDE DEF p
  <2>2. /\ MbusLine!MbusFrames(p) \in Seq(Seq(MbusLine!Byte))
        /\ MbusLine!FlattenSeq(MbusLine!MbusFrames(p)) \in Seq(MbusLine!Byte)
        /\ MbusLine!FlattenSeq(MbusLine!MbusFrames(p)) # << >>
        /\ MbusLine!FlattenSeq(MbusLine!MbusFrames(p))[1] = MbusLine!MBUS_START
    BY <2>1, MbusLine!FramesBegin, MbusAssumed, Zenon
  <2> QED
    BY <1>2, <2>2, MbusOctets, MbusJoins, Zenon DEF Body
<1>4. MbusLine!MBUS_START = 104 /\ "hdlc" # "mbus"
  BY DEF MbusLine!MBUS_START
<1>5. Body(m)[1] = 104
  BY <1>3, <1>4
<1>6. Body(m)[1] # 16 /\ Body(m)[1] # 126
  BY <1>5
<1> QED
  BY <1>2, <1>3, <1>4, <1>5, <1>6, Zenon DEF Tells

LEMMA MbusMessage ==
  ASSUME message \in Messages, message.framing = "mbus"
  PROVE  /\ [pieces |-> message.pieces] \in [pieces : {m.pieces : m \in Framed("mbus")}]
         /\ [pieces |-> message.pieces].pieces = message.pieces
  BY DEF Framed

(* Between two calls the decoder of M-Bus frames finds what that of HDLC   *)
(* frames left, and the other way round.                                   *)
LEMMA MbusReady ==
  ASSUME HdlcLine!TypeOK, frame_status = "idle"
  PROVE  MbusLine!TypeOK
<1>1. "idle" \in {"idle", "decoding", "done"}
  OBVIOUS
<1> QED
  BY <1>1, HdlcOctets, MbusOctets, Zenon DEF HdlcLine!TypeOK, MbusLine!TypeOK

LEMMA HdlcReady ==
  ASSUME MbusLine!TypeOK, is_first \in BOOLEAN
  PROVE  HdlcLine!TypeOK
<1>1. {"idle", "decoding", "done"} \subseteq {"idle", "decoding", "returning", "done"}
  OBVIOUS
<1> QED
  BY <1>1, HdlcOctets, MbusOctets, Zenon DEF HdlcLine!TypeOK, MbusLine!TypeOK

LEMMA HdlcReadyNext ==
  ASSUME MbusLine!TypeOK', is_first' \in BOOLEAN
  PROVE  HdlcLine!TypeOK'
<1>1. {"idle", "decoding", "done"} \subseteq {"idle", "decoding", "returning", "done"}
  OBVIOUS
<1> QED
  BY <1>1, HdlcOctets, MbusOctets, Zenon DEF HdlcLine!TypeOK, MbusLine!TypeOK

LEMMA MbusCalled ==
  ASSUME HdlcLine!TypeOK, NEW b \in Seq(Octet), Mbus!Call(b, skip_crc_check_), UNCHANGED is_first
  PROVE  MbusLine!Inv' /\ HdlcLine!TypeOK'
<1>1. HdlcLine!TypeOK /\ skip_crc_check_ \in BOOLEAN /\ is_first \in BOOLEAN
  BY Zenon DEF HdlcLine!TypeOK
<1>2. b \in Seq(MbusLine!Byte) /\ MbusLine!Call(b, skip_crc_check_)
  BY MbusOctets, MbusSameCall, Zenon
<1>3. frame_status = "idle"
  BY Zenon DEF Mbus!Call
<1>4. MbusLine!Inv'
  BY <1>1, <1>2, <1>3, MbusReady, MbusLine!CallInv, MbusAssumed, Zenon
<1>5. MbusLine!TypeOK' /\ is_first' \in BOOLEAN
  BY <1>1, <1>4, Zenon DEF MbusLine!Inv
<1> QED
  BY <1>4, <1>5, HdlcReadyNext, Zenon

LEMMA MbusTurned ==
  ASSUME MbusLine!Inv, Mbus!Decode, HdlcLine!TypeOK, UNCHANGED is_first
  PROVE  MbusLine!Inv' /\ HdlcLine!TypeOK'
<1>1. MbusLine!Decode
  BY MbusSameDecode, Zenon
<1>2. [MbusLine!Next]_(MbusLine!vars)
  BY <1>1, Zenon DEF MbusLine!Next
<1>3. MbusLine!Inv'
  BY <1>2, MbusLine!NextInv, MbusAssumed, Zenon
<1>4. MbusLine!TypeOK' /\ is_first' \in BOOLEAN
  BY <1>3, Zenon DEF MbusLine!Inv, HdlcLine!TypeOK
<1> QED
  BY <1>3, <1>4, HdlcReadyNext, Zenon

MbusOnTrack == MbusLine!Tracks(MbusLine!Pieces, << >>)

MbusHolds ==
  stage = "mbus" =>
    /\ message.framing = "mbus"
    /\ frame_status # "done" => MbusOnTrack
    /\ frame_status = "done" => decoded = FlattenSeq(message.pieces)

LEMMA MbusWhole ==
  ASSUME message \in Messages, message.framing = "mbus",
         WithoutShortFrame(air) = Body(message),
         Mbus!Call(Body(message), skip_crc_check_), UNCHANGED message
  PROVE  MbusOnTrack' /\ frame_status' # "done"
<1>1. WithoutShortFrame(air)
        = MbusLine!FlattenSeq(MbusLine!MbusFrames([pieces |-> message.pieces]))
  BY MbusTells, MbusJoins, Zenon DEF Body
<1>2. MbusLine!Call(WithoutShortFrame(air), skip_crc_check_)
  BY MbusSameCall, Zenon
<1>3. UNCHANGED [pieces |-> message.pieces]
  OBVIOUS
<1>4. MbusOnTrack'
  BY <1>1, <1>2, <1>3, MbusMessage, MbusLine!CallWhole, MbusAssumed, Zenon DEF
     MbusOnTrack
<1>5. frame_status' = "decoding" /\ "decoding" # "done"
  BY DEF Mbus!Call
<1> QED
  BY <1>4, <1>5, Zenon

LEMMA MbusTurn ==
  ASSUME message \in Messages, message.framing = "mbus", MbusLine!Inv, MbusOnTrack,
         Mbus!Decode, UNCHANGED message
  PROVE  /\ frame_status' # "done" => MbusOnTrack'
         /\ frame_status' = "done" => decoded' = FlattenSeq(message.pieces)
<1>1. MbusLine!Decode
  BY MbusSameDecode, Zenon
<1>2. UNCHANGED [pieces |-> message.pieces]
  OBVIOUS
<1>3. /\ frame_status' # "done" => MbusOnTrack'
      /\ frame_status' = "done" =>
           decoded' = MbusLine!FlattenSeq([pieces |-> message.pieces].pieces)
  BY <1>1, <1>2, MbusMessage, MbusLine!TurnWhole, MbusAssumed, Zenon DEF MbusOnTrack
<1> QED
  BY <1>3, MbusMessage, MbusJoins, Zenon

LEMMA MbusStands ==
  ASSUME UNCHANGED framing, UNCHANGED message
  PROVE  /\ MbusLine!Inv => MbusLine!Inv'
         /\ MbusOnTrack => MbusOnTrack'
<1>1. /\ telegram' = telegram /\ skip_crc_check_' = skip_crc_check_ /\ frame_buf' = frame_buf
      /\ read_offset' = read_offset /\ write_offset' = write_offset /\ is_first' = is_first
      /\ frame_status' = frame_status /\ decoded' = decoded
  BY Zenon DEF framing
<1>2. UNCHANGED MbusLine!vars
  BY <1>1, Zenon DEF MbusLine!vars
<1>3. MbusLine!Inv => MbusLine!Inv'
  BY <1>2, MbusLine!NextInv, MbusAssumed, Zenon
<1>4. MbusOnTrack => MbusOnTrack'
  BY <1>1, Zenon DEF MbusOnTrack, MbusLine!Tracks, MbusLine!Pieces,
     MbusLine!remaining, MbusLine!Output
<1> QED
  BY <1>3, <1>4

-----------------------------------------------------------------------------
(* The APDU handler, on a line that holds what was wrapped.                *)
ApduLine == INSTANCE ApduProofs WITH
  Foreign <- {}, queue <- << >>,
  air <- FlattenSeq(ApduMeter!Frames(message)), chatter <- 0, fault <- "none",
  buf <- apdu_buf, status <- apdu_status, result <- unwrapped

LEMMA ApduSameCall ==
  ASSUME NEW bytes, NEW key, NEW auth
  PROVE  ApduLine!Call(bytes, key, auth) <=> Apdu!Call(bytes, key, auth)
  BY Zenon DEF ApduLine!Call, Apdu!Call, ApduLine!keys, Apdu!keys, ApduLine!blocks,
     Apdu!blocks

LEMMA ApduSameARRAY == ApduLine!ARRAY = Apdu!ARRAY
  BY Zenon DEF ApduLine!ARRAY, Apdu!ARRAY

LEMMA ApduSameSTRUCTURE == ApduLine!STRUCTURE = Apdu!STRUCTURE
  BY Zenon DEF ApduLine!STRUCTURE, Apdu!STRUCTURE

LEMMA ApduSameContainers == ApduLine!Containers = Apdu!Containers
  BY ApduSameARRAY, ApduSameSTRUCTURE, Zenon DEF ApduLine!Containers, Apdu!Containers

LEMMA ApduSameDATA_NOTIFICATION == ApduLine!DATA_NOTIFICATION = Apdu!DATA_NOTIFICATION
  BY Zenon DEF ApduLine!DATA_NOTIFICATION, Apdu!DATA_NOTIFICATION

LEMMA ApduSameGENERAL_BLOCK_TRANSFER == ApduLine!GENERAL_BLOCK_TRANSFER = Apdu!GENERAL_BLOCK_TRANSFER
  BY Zenon DEF ApduLine!GENERAL_BLOCK_TRANSFER, Apdu!GENERAL_BLOCK_TRANSFER

LEMMA ApduSameGENERAL_GLO_CIPHERING == ApduLine!GENERAL_GLO_CIPHERING = Apdu!GENERAL_GLO_CIPHERING
  BY Zenon DEF ApduLine!GENERAL_GLO_CIPHERING, Apdu!GENERAL_GLO_CIPHERING

LEMMA ApduSameGENERAL_DED_CIPHERING == ApduLine!GENERAL_DED_CIPHERING = Apdu!GENERAL_DED_CIPHERING
  BY Zenon DEF ApduLine!GENERAL_DED_CIPHERING, Apdu!GENERAL_DED_CIPHERING

LEMMA ApduSameCiphering == ApduLine!Ciphering = Apdu!Ciphering
  BY ApduSameGENERAL_GLO_CIPHERING, ApduSameGENERAL_DED_CIPHERING, Zenon DEF
     ApduLine!Ciphering, Apdu!Ciphering

LEMMA ApduSameKnownTags == ApduLine!KnownTags = Apdu!KnownTags
  BY ApduSameContainers, ApduSameDATA_NOTIFICATION, ApduSameGENERAL_BLOCK_TRANSFER,
     ApduSameCiphering, Zenon DEF ApduLine!KnownTags, Apdu!KnownTags

LEMMA ApduSameHasTag ==
  ASSUME NEW b
  PROVE  ApduLine!HasTag(b) <=> Apdu!HasTag(b)
  BY ApduSameKnownTags, Zenon DEF ApduLine!HasTag, Apdu!HasTag

LEMMA ApduSameFinish ==
  ASSUME NEW span
  PROVE  ApduLine!Finish(span) <=> Apdu!Finish(span)
  BY Zenon DEF ApduLine!Finish, Apdu!Finish, ApduLine!keys, Apdu!keys,
     ApduLine!blocks, Apdu!blocks

LEMMA ApduSameNoTag == ApduLine!NoTag <=> Apdu!NoTag
  BY ApduSameHasTag, ApduSameFinish, Zenon DEF ApduLine!NoTag, Apdu!NoTag

LEMMA ApduSameFrom ==
  ASSUME NEW b, NEW off
  PROVE  ApduLine!From(b, off) = Apdu!From(b, off)
  BY Zenon DEF ApduLine!From, Apdu!From

LEMMA ApduSameByte == ApduLine!Byte = Apdu!Byte
  BY SMT DEF ApduLine!Byte, Apdu!Byte

LEMMA ApduSameAt ==
  ASSUME NEW b, NEW i
  PROVE  ApduLine!At(b, i) = Apdu!At(b, i)
  BY Zenon DEF ApduLine!At, Apdu!At

LEMMA ApduSameFirstTag ==
  ASSUME NEW b
  PROVE  ApduLine!FirstTag(b) = Apdu!FirstTag(b)
  BY ApduSameKnownTags, ApduSameAt, Zenon DEF ApduLine!FirstTag, Apdu!FirstTag

LEMMA ApduSameTagged == ApduLine!Tagged = Apdu!Tagged
  BY ApduSameFrom, ApduSameByte, ApduSameFirstTag, Zenon DEF ApduLine!Tagged,
     Apdu!Tagged

LEMMA ApduSameWindow == ApduLine!window = Apdu!window
  BY ApduSameTagged, Zenon DEF ApduLine!window, Apdu!window

LEMMA ApduSameMeets ==
  ASSUME NEW tags
  PROVE  ApduLine!Meets(tags) <=> Apdu!Meets(tags)
  BY ApduSameHasTag, ApduSameAt, ApduSameWindow, Zenon DEF ApduLine!Meets, Apdu!Meets

LEMMA ApduSameRawAxdr == ApduLine!RawAxdr <=> Apdu!RawAxdr
  BY ApduSameContainers, ApduSameFinish, ApduSameWindow, ApduSameMeets, Zenon DEF
     ApduLine!RawAxdr, Apdu!RawAxdr

LEMMA ApduSameOCTET_STRING == ApduLine!OCTET_STRING = Apdu!OCTET_STRING
  BY Zenon DEF ApduLine!OCTET_STRING, Apdu!OCTET_STRING

LEMMA ApduSameHeaderEnd ==
  ASSUME NEW w
  PROVE  ApduLine!HeaderEnd(w) = Apdu!HeaderEnd(w)
  BY ApduSameAt, ApduSameOCTET_STRING, Zenon DEF ApduLine!HeaderEnd, Apdu!HeaderEnd

LEMMA ApduSameNotified ==
  ASSUME NEW w
  PROVE  ApduLine!Notified(w) = Apdu!Notified(w)
  BY ApduSameFrom, ApduSameAt, ApduSameOCTET_STRING, ApduSameHeaderEnd, Zenon DEF
     ApduLine!Notified, Apdu!Notified

LEMMA ApduSameNotification == ApduLine!Notification <=> Apdu!Notification
  BY ApduSameDATA_NOTIFICATION, ApduSameFinish, ApduSameWindow, ApduSameMeets,
     ApduSameNotified, Zenon DEF ApduLine!Notification, Apdu!Notification

LEMMA ApduSameExhausted == ApduLine!Exhausted <=> Apdu!Exhausted
  BY ApduSameFinish, Zenon DEF ApduLine!Exhausted, Apdu!Exhausted

LEMMA ApduSameStartBlocks == ApduLine!StartBlocks <=> Apdu!StartBlocks
  BY ApduSameGENERAL_BLOCK_TRANSFER, ApduSameWindow, ApduSameMeets, Zenon DEF
     ApduLine!StartBlocks, Apdu!StartBlocks, ApduLine!keys, Apdu!keys,
     ApduLine!blocks, Apdu!blocks

LEMMA ApduSameSubspan ==
  ASSUME NEW b, NEW off, NEW n
  PROVE  ApduLine!Subspan(b, off, n) = Apdu!Subspan(b, off, n)
  BY Zenon DEF ApduLine!Subspan, Apdu!Subspan

LEMMA ApduSameCopyTo ==
  ASSUME NEW b, NEW s, NEW dst
  PROVE  ApduLine!CopyTo(b, s, dst) = Apdu!CopyTo(b, s, dst)
  BY Zenon DEF ApduLine!CopyTo, Apdu!CopyTo

LEMMA ApduSameLengthBytes ==
  ASSUME NEW b, NEW p
  PROVE  ApduLine!LengthBytes(b, p) = Apdu!LengthBytes(b, p)
  BY ApduSameAt, Zenon DEF ApduLine!LengthBytes, Apdu!LengthBytes

LEMMA ApduSameBerFits ==
  ASSUME NEW b, NEW p
  PROVE  ApduLine!BerFits(b, p) <=> Apdu!BerFits(b, p)
  BY ApduSameLengthBytes, Zenon DEF ApduLine!BerFits, Apdu!BerFits

LEMMA ApduSameHUGE == ApduLine!HUGE = Apdu!HUGE
  BY SMT DEF ApduLine!HUGE, Apdu!HUGE

LEMMA ApduSameDigit ==
  ASSUME NEW b, NEW p, NEW n, NEW k
  PROVE  ApduLine!Digit(b, p, n, k) = Apdu!Digit(b, p, n, k)
  BY ApduSameAt, Zenon DEF ApduLine!Digit, Apdu!Digit

LEMMA ApduSameBigEndian ==
  ASSUME NEW b, NEW p, NEW n
  PROVE  ApduLine!BigEndian(b, p, n) = Apdu!BigEndian(b, p, n)
  BY ApduSameAt, ApduSameHUGE, ApduSameDigit, SMT DEF ApduLine!BigEndian, Apdu!BigEndian

LEMMA ApduSameBerLength ==
  ASSUME NEW b, NEW p
  PROVE  ApduLine!BerLength(b, p) = Apdu!BerLength(b, p)
  BY ApduSameAt, ApduSameLengthBytes, ApduSameBerFits, ApduSameBigEndian, Zenon DEF
     ApduLine!BerLength, Apdu!BerLength

LEMMA ApduSameBlockLen ==
  ASSUME NEW b, NEW p
  PROVE  ApduLine!BlockLen(b, p) = Apdu!BlockLen(b, p)
  BY ApduSameBerLength, Zenon DEF ApduLine!BlockLen, Apdu!BlockLen

LEMMA ApduSameBerEnd ==
  ASSUME NEW b, NEW p
  PROVE  ApduLine!BerEnd(b, p) = Apdu!BerEnd(b, p)
  BY ApduSameLengthBytes, ApduSameBerFits, Zenon DEF ApduLine!BerEnd, Apdu!BerEnd

LEMMA ApduSameBlockData ==
  ASSUME NEW b, NEW p
  PROVE  ApduLine!BlockData(b, p) = Apdu!BlockData(b, p)
  BY ApduSameBerEnd, Zenon DEF ApduLine!BlockData, Apdu!BlockData

LEMMA ApduSameBlockEnd ==
  ASSUME NEW b, NEW p
  PROVE  ApduLine!BlockEnd(b, p) = Apdu!BlockEnd(b, p)
  BY ApduSameBlockLen, ApduSameBlockData, Zenon DEF ApduLine!BlockEnd, Apdu!BlockEnd

LEMMA ApduSameBlockFits ==
  ASSUME NEW b, NEW p
  PROVE  ApduLine!BlockFits(b, p) <=> Apdu!BlockFits(b, p)
  BY ApduSameBlockEnd, Zenon DEF ApduLine!BlockFits, Apdu!BlockFits

LEMMA ApduSameBit ==
  ASSUME NEW byte, NEW mask
  PROVE  ApduLine!Bit(byte, mask) <=> Apdu!Bit(byte, mask)
  BY Zenon DEF ApduLine!Bit, Apdu!Bit

LEMMA ApduSameIsLast ==
  ASSUME NEW b, NEW p
  PROVE  ApduLine!IsLast(b, p) <=> Apdu!IsLast(b, p)
  BY ApduSameAt, ApduSameBit, Zenon DEF ApduLine!IsLast, Apdu!IsLast

LEMMA ApduSameAtBlock ==
  ASSUME NEW b, NEW p
  PROVE  ApduLine!AtBlock(b, p) <=> Apdu!AtBlock(b, p)
  BY ApduSameGENERAL_BLOCK_TRANSFER, ApduSameAt, Zenon DEF ApduLine!AtBlock,
     Apdu!AtBlock

LEMMA ApduSameMoreBlocks == ApduLine!MoreBlocks <=> Apdu!MoreBlocks
  BY ApduSameAtBlock, Zenon DEF ApduLine!MoreBlocks, Apdu!MoreBlocks

LEMMA ApduSameTakeBlock == ApduLine!TakeBlock <=> Apdu!TakeBlock
  BY ApduSameSubspan, ApduSameCopyTo, ApduSameBlockLen, ApduSameBlockData,
     ApduSameBlockEnd, ApduSameBlockFits, ApduSameIsLast, ApduSameMoreBlocks, Zenon
     DEF ApduLine!TakeBlock, Apdu!TakeBlock, ApduLine!keys, Apdu!keys,
     ApduLine!blocks, Apdu!blocks

LEMMA ApduSameTruncatedBlock == ApduLine!TruncatedBlock <=> Apdu!TruncatedBlock
  BY ApduSameFinish, ApduSameBlockFits, ApduSameMoreBlocks, Zenon DEF
     ApduLine!TruncatedBlock, Apdu!TruncatedBlock

LEMMA ApduSameDescend ==
  ASSUME NEW span
  PROVE  ApduLine!Descend(span) <=> Apdu!Descend(span)
  BY Zenon DEF ApduLine!Descend, Apdu!Descend, ApduLine!keys, Apdu!keys,
     ApduLine!blocks, Apdu!blocks

LEMMA ApduSameReassembled == ApduLine!Reassembled <=> Apdu!Reassembled
  BY ApduSameSubspan, ApduSameMoreBlocks, ApduSameDescend, Zenon DEF
     ApduLine!Reassembled, Apdu!Reassembled, ApduLine!keys, Apdu!keys,
     ApduLine!blocks, Apdu!blocks

LEMMA ApduSameNothingReassembled == ApduLine!NothingReassembled <=> Apdu!NothingReassembled
  BY ApduSameFinish, ApduSameMoreBlocks, Zenon DEF ApduLine!NothingReassembled,
     Apdu!NothingReassembled

LEMMA ApduSameSYSTITLE_LENGTH == ApduLine!SYSTITLE_LENGTH = Apdu!SYSTITLE_LENGTH
  BY Zenon DEF ApduLine!SYSTITLE_LENGTH, Apdu!SYSTITLE_LENGTH

LEMMA ApduSameCipherLen ==
  ASSUME NEW w
  PROVE  ApduLine!CipherLen(w) = Apdu!CipherLen(w)
  BY ApduSameBerLength, ApduSameSYSTITLE_LENGTH, Zenon DEF ApduLine!CipherLen,
     Apdu!CipherLen

LEMMA ApduSameLENGTH_CORRECTION == ApduLine!LENGTH_CORRECTION = Apdu!LENGTH_CORRECTION
  BY Zenon DEF ApduLine!LENGTH_CORRECTION, Apdu!LENGTH_CORRECTION

LEMMA ApduSameSecurityPos ==
  ASSUME NEW w
  PROVE  ApduLine!SecurityPos(w) = Apdu!SecurityPos(w)
  BY ApduSameBerEnd, ApduSameSYSTITLE_LENGTH, Zenon DEF ApduLine!SecurityPos,
     Apdu!SecurityPos

LEMMA ApduSameCipherPos ==
  ASSUME NEW w
  PROVE  ApduLine!CipherPos(w) = Apdu!CipherPos(w)
  BY ApduSameLENGTH_CORRECTION, ApduSameSecurityPos, Zenon DEF ApduLine!CipherPos,
     Apdu!CipherPos

LEMMA ApduSameGCM_TAG_LENGTH == ApduLine!GCM_TAG_LENGTH = Apdu!GCM_TAG_LENGTH
  BY Zenon DEF ApduLine!GCM_TAG_LENGTH, Apdu!GCM_TAG_LENGTH

LEMMA ApduSameHasAuthTag ==
  ASSUME NEW w
  PROVE  ApduLine!HasAuthTag(w) <=> Apdu!HasAuthTag(w)
  BY ApduSameAt, ApduSameBit, ApduSameSecurityPos, Zenon DEF ApduLine!HasAuthTag,
     Apdu!HasAuthTag

LEMMA ApduSameTagLen ==
  ASSUME NEW w
  PROVE  ApduLine!TagLen(w) = Apdu!TagLen(w)
  BY ApduSameGCM_TAG_LENGTH, ApduSameHasAuthTag, Zenon DEF ApduLine!TagLen, Apdu!TagLen

LEMMA ApduSamePayloadLen ==
  ASSUME NEW w
  PROVE  ApduLine!PayloadLen(w) = Apdu!PayloadLen(w)
  BY ApduSameCipherLen, ApduSameLENGTH_CORRECTION, ApduSameTagLen, Zenon DEF
     ApduLine!PayloadLen, Apdu!PayloadLen

LEMMA ApduSameCipherHeaderOk ==
  ASSUME NEW w
  PROVE  ApduLine!CipherHeaderOk(w) <=> Apdu!CipherHeaderOk(w)
  BY ApduSameAt, ApduSameSYSTITLE_LENGTH, ApduSameCipherLen, ApduSameCipherPos,
     ApduSameTagLen, ApduSamePayloadLen, Zenon DEF ApduLine!CipherHeaderOk,
     Apdu!CipherHeaderOk

LEMMA ApduSameCannotDecipher == ApduLine!CannotDecipher <=> Apdu!CannotDecipher
  BY ApduSameCiphering, ApduSameFinish, ApduSameWindow, ApduSameMeets,
     ApduSameCipherHeaderOk, Zenon DEF ApduLine!CannotDecipher, Apdu!CannotDecipher

LEMMA ApduSameNonce ==
  ASSUME NEW w
  PROVE  ApduLine!Nonce(w) = Apdu!Nonce(w)
  BY ApduSameSubspan, ApduSameSYSTITLE_LENGTH, ApduSameSecurityPos, Zenon DEF
     ApduLine!Nonce, Apdu!Nonce

LEMMA ApduSameCipher ==
  ASSUME NEW w
  PROVE  ApduLine!Cipher(w) = Apdu!Cipher(w)
  BY ApduSameSubspan, ApduSameCipherPos, ApduSamePayloadLen, Zenon DEF
     ApduLine!Cipher, Apdu!Cipher

LEMMA ApduSameDeciphered ==
  ASSUME NEW w, NEW key
  PROVE  ApduLine!Deciphered(w, key) = Apdu!Deciphered(w, key)
  BY ApduSameNonce, ApduSameCipher, Zenon DEF ApduLine!Deciphered, Apdu!Deciphered

LEMMA ApduSameGcmTag ==
  ASSUME NEW w
  PROVE  ApduLine!GcmTag(w) = Apdu!GcmTag(w)
  BY ApduSameSubspan, ApduSameCipherPos, ApduSameTagLen, ApduSamePayloadLen, Zenon
     DEF ApduLine!GcmTag, Apdu!GcmTag

LEMMA ApduSameAccepted ==
  ASSUME NEW w, NEW key, NEW auth
  PROVE  ApduLine!Accepted(w, key, auth) <=> Apdu!Accepted(w, key, auth)
  BY ApduSameAt, ApduSameSecurityPos, ApduSameHasAuthTag, ApduSameNonce,
     ApduSameCipher, ApduSameGcmTag, Zenon DEF ApduLine!Accepted, Apdu!Accepted

LEMMA ApduSameDecipher == ApduLine!Decipher <=> Apdu!Decipher
  BY ApduSameCiphering, ApduSameWindow, ApduSameMeets, ApduSameDescend,
     ApduSameCipherHeaderOk, ApduSameDeciphered, ApduSameAccepted, Zenon DEF
     ApduLine!Decipher, Apdu!Decipher, ApduLine!keys, Apdu!keys, ApduLine!blocks,
     Apdu!blocks

LEMMA ApduSameDecipherFails == ApduLine!DecipherFails <=> Apdu!DecipherFails
  BY ApduSameCiphering, ApduSameFirstTag, ApduSameWindow, ApduSameMeets,
     ApduSameCopyTo, ApduSameCipherPos, ApduSamePayloadLen, ApduSameCipherHeaderOk,
     ApduSameCipher, ApduSameDeciphered, ApduSameAccepted, Zenon DEF
     ApduLine!DecipherFails, Apdu!DecipherFails, ApduLine!keys, Apdu!keys,
     ApduLine!blocks, Apdu!blocks

LEMMA ApduSameUnwrap == ApduLine!Unwrap <=> Apdu!Unwrap
  BY ApduSameNoTag, ApduSameRawAxdr, ApduSameNotification, ApduSameExhausted,
     ApduSameStartBlocks, ApduSameTakeBlock, ApduSameTruncatedBlock,
     ApduSameReassembled, ApduSameNothingReassembled, ApduSameCannotDecipher,
     ApduSameDecipher, ApduSameDecipherFails, Zenon DEF ApduLine!Unwrap, Apdu!Unwrap

LEMMA ApduMeterARRAY == ApduLine!ARRAY = ApduMeter!ARRAY
  BY Zenon DEF ApduLine!ARRAY, ApduMeter!ARRAY

LEMMA ApduMeterSTRUCTURE == ApduLine!STRUCTURE = ApduMeter!STRUCTURE
  BY Zenon DEF ApduLine!STRUCTURE, ApduMeter!STRUCTURE

LEMMA ApduMeterContainers == ApduLine!Containers = ApduMeter!Containers
  BY ApduMeterARRAY, ApduMeterSTRUCTURE, Zenon DEF ApduLine!Containers,
     ApduMeter!Containers

LEMMA ApduMeterByte == ApduLine!Byte = ApduMeter!Byte
  BY SMT DEF ApduLine!Byte, ApduMeter!Byte

LEMMA ApduMeterDATA_NOTIFICATION == ApduLine!DATA_NOTIFICATION = ApduMeter!DATA_NOTIFICATION
  BY Zenon DEF ApduLine!DATA_NOTIFICATION, ApduMeter!DATA_NOTIFICATION

LEMMA ApduMeterGENERAL_BLOCK_TRANSFER == ApduLine!GENERAL_BLOCK_TRANSFER = ApduMeter!GENERAL_BLOCK_TRANSFER
  BY Zenon DEF ApduLine!GENERAL_BLOCK_TRANSFER, ApduMeter!GENERAL_BLOCK_TRANSFER

LEMMA ApduMeterGENERAL_GLO_CIPHERING == ApduLine!GENERAL_GLO_CIPHERING = ApduMeter!GENERAL_GLO_CIPHERING
  BY Zenon DEF ApduLine!GENERAL_GLO_CIPHERING, ApduMeter!GENERAL_GLO_CIPHERING

LEMMA ApduMeterGENERAL_DED_CIPHERING == ApduLine!GENERAL_DED_CIPHERING = ApduMeter!GENERAL_DED_CIPHERING
  BY Zenon DEF ApduLine!GENERAL_DED_CIPHERING, ApduMeter!GENERAL_DED_CIPHERING

LEMMA ApduMeterCiphering == ApduLine!Ciphering = ApduMeter!Ciphering
  BY ApduMeterGENERAL_GLO_CIPHERING, ApduMeterGENERAL_DED_CIPHERING, Zenon DEF
     ApduLine!Ciphering, ApduMeter!Ciphering

LEMMA ApduMeterKnownTags == ApduLine!KnownTags = ApduMeter!KnownTags
  BY ApduMeterContainers, ApduMeterDATA_NOTIFICATION,
     ApduMeterGENERAL_BLOCK_TRANSFER, ApduMeterCiphering, Zenon DEF
     ApduLine!KnownTags, ApduMeter!KnownTags

LEMMA ApduMeterIsDateTime ==
  ASSUME NEW t
  PROVE  ApduLine!IsDateTime(t) <=> ApduMeter!IsDateTime(t)
  BY Zenon DEF ApduLine!IsDateTime, ApduMeter!IsDateTime

LEMMA ApduMeterBer ==
  ASSUME NEW n
  PROVE  ApduLine!Ber(n) = ApduMeter!Ber(n)
  BY Zenon DEF ApduLine!Ber, ApduMeter!Ber

LEMMA ApduMeterBlock ==
  ASSUME NEW last, NEW number, NEW data
  PROVE  ApduLine!Block(last, number, data) = ApduMeter!Block(last, number, data)
  BY ApduMeterBer, Zenon DEF ApduLine!Block, ApduMeter!Block

LEMMA ApduMeterBlocks ==
  ASSUME NEW pieces
  PROVE  ApduLine!Blocks(pieces) = ApduMeter!Blocks(pieces)
  BY ApduMeterBlock, Zenon DEF ApduLine!Blocks, ApduMeter!Blocks

LEMMA ApduMeterFlattenSeq ==
  ASSUME NEW s
  PROVE  ApduLine!FlattenSeq(s) = ApduMeter!FlattenSeq(s)
  BY Zenon DEF ApduLine!FlattenSeq, ApduMeter!FlattenSeq

LEMMA ApduMeterRange ==
  ASSUME NEW s
  PROVE  ApduLine!Range(s) = ApduMeter!Range(s)
  BY Zenon DEF ApduLine!Range, ApduMeter!Range

LEMMA ApduMeterTransfer ==
  ASSUME NEW pieces
  PROVE  ApduLine!Transfer(pieces) = ApduMeter!Transfer(pieces)
  BY ApduMeterBlocks, ApduMeterFlattenSeq, Zenon DEF ApduLine!Transfer,
     ApduMeter!Transfer

LEMMA ApduMeterCipheredApdu ==
  ASSUME NEW c
  PROVE  ApduLine!CipheredApdu(c) = ApduMeter!CipheredApdu(c)
  BY ApduMeterBer, Zenon DEF ApduLine!CipheredApdu, ApduMeter!CipheredApdu

LEMMA ApduMeterApdu ==
  ASSUME NEW w
  PROVE  ApduLine!Apdu(w) = ApduMeter!Apdu(w)
  BY ApduMeterTransfer, ApduMeterCipheredApdu, Zenon DEF ApduLine!Apdu, ApduMeter!Apdu

LEMMA ApduMeterDataNotification ==
  ASSUME NEW datetime, NEW data
  PROVE  ApduLine!DataNotification(datetime, data) = ApduMeter!DataNotification(datetime, data)
  BY Zenon DEF ApduLine!DataNotification, ApduMeter!DataNotification

LEMMA ApduMeterInnermost ==
  ASSUME NEW m
  PROVE  ApduLine!Innermost(m) = ApduMeter!Innermost(m)
  BY ApduMeterDataNotification, Zenon DEF ApduLine!Innermost, ApduMeter!Innermost

LEMMA ApduMeterLayer ==
  ASSUME NEW m, NEW i
  PROVE  ApduLine!Layer(m, i) = ApduMeter!Layer(m, i)
  BY ApduMeterApdu, ApduMeterInnermost, Zenon DEF ApduLine!Layer, ApduMeter!Layer

LEMMA ApduMeterHasBer ==
  ASSUME NEW n
  PROVE  ApduLine!HasBer(n) <=> ApduMeter!HasBer(n)
  BY SMT DEF ApduLine!HasBer, ApduMeter!HasBer

LEMMA ApduMeterBlocksHold ==
  ASSUME NEW w, NEW within
  PROVE  ApduLine!BlocksHold(w, within) <=> ApduMeter!BlocksHold(w, within)
  BY ApduMeterByte, ApduMeterHasBer, ApduMeterFlattenSeq, Zenon DEF
     ApduLine!BlocksHold, ApduMeter!BlocksHold

LEMMA ApduMeterBit ==
  ASSUME NEW byte, NEW mask
  PROVE  ApduLine!Bit(byte, mask) <=> ApduMeter!Bit(byte, mask)
  BY Zenon DEF ApduLine!Bit, ApduMeter!Bit

LEMMA ApduMeterCipherHolds ==
  ASSUME NEW w, NEW within, NEW m
  PROVE  ApduLine!CipherHolds(w, within, m) <=> ApduMeter!CipherHolds(w, within, m)
  BY ApduMeterByte, ApduMeterCiphering, ApduMeterHasBer, ApduMeterBit, Zenon DEF
     ApduLine!CipherHolds, ApduMeter!CipherHolds

LEMMA ApduMeterIsMessage ==
  ASSUME NEW m
  PROVE  ApduLine!IsMessage(m) <=> ApduMeter!IsMessage(m)
  BY ApduMeterContainers, ApduMeterByte, ApduMeterKnownTags, ApduMeterIsDateTime,
     ApduMeterLayer,
     ApduMeterBlocksHold, ApduMeterCipherHolds, ApduMeterRange, Zenon
  DEF ApduLine!IsMessage, ApduMeter!IsMessage

LEMMA ApduOctets == ApduLine!Byte = Octet
  BY Zenon DEF ApduLine!Byte, Octet

LEMMA ApduJoins ==
  ASSUME NEW s
  PROVE  ApduLine!FlattenSeq(s) = FlattenSeq(s)
  BY Zenon DEF ApduLine!FlattenSeq, FlattenSeq

LEMMA ApduAssumed ==
  /\ NoKey \notin Keys /\ MAX_ITERATIONS \in Nat
  /\ {} \subseteq Seq(ApduLine!Byte)
  /\ \A m \in Messages : ApduLine!IsMessage(m)
<1>1. ASSUME NEW m \in Messages PROVE ApduLine!IsMessage(m)
  <2>1. HoldsApdu(m)
    BY TelegramAssumption, Zenon
  <2>2. ApduMeter!IsMessage(m)
    BY <2>1, Zenon DEF HoldsApdu
  <2> QED
    BY <2>2, ApduMeterIsMessage, Zenon
<1> QED
  BY <1>1, FacadeAssumption

LEMMA CipherAssumed ==
  PlainKeepsLength => ApduLine!PlainKeepsLength
  BY ApduOctets, Zenon DEF PlainKeepsLength, ApduLine!PlainKeepsLength

LEMMA FramesOfApdu ==
  ASSUME NEW m
  PROVE  ApduLine!Frames(m) = ApduMeter!Frames(m)
  BY ApduMeterBlocks, ApduMeterLayer, Zenon DEF ApduLine!Frames, ApduMeter!Frames

LEMMA Wrapped ==
  ASSUME NEW m \in Messages
  PROVE  IsWrapped(m)
<1>1. HoldsApdu(m)
  BY TelegramAssumption, Zenon
<1>2. /\ m.pieces \in Seq(Seq(Octet)) /\ m.pieces # << >>
      /\ FlattenSeq(m.pieces) = m.lead \o ApduMeter!Layer(m, 1)
  BY <1>1, Zenon DEF HoldsApdu, Octet
<1>3. FlattenSeq(m.pieces) \in Seq(Octet)
  BY <1>2, FlattenType, Zenon
<1>4. /\ ApduLine!FlattenSeq(ApduLine!Frames(m)) = m.lead \o ApduLine!Layer(m, 1)
  BY ApduLine!FramesRead, ApduAssumed, Zenon
<1>5. FlattenSeq(m.pieces) = FlattenSeq(ApduMeter!Frames(m))
  BY <1>2, <1>4, ApduJoins, FramesOfApdu, ApduMeterLayer, Zenon
<1>6. FlattenSeq(m.pieces) # << >>
  <2>1. ApduLine!Carrying(m, 1, FlattenSeq(ApduLine!Frames(m)))
    BY ApduLine!SentCarries, ApduJoins, ApduAssumed, Zenon
  <2>2. ApduLine!HasTag(FlattenSeq(m.pieces))
    BY <1>5, <2>1, FramesOfApdu, Zenon DEF ApduLine!Carrying
  <2>3. PICK i \in 1 .. Len(FlattenSeq(m.pieces)) : TRUE
    BY <2>2, Zenon DEF ApduLine!HasTag
  <2> QED
    BY <2>3
<1> QED
  BY <1>2, <1>3, <1>5, <1>6, Zenon DEF IsWrapped

LEMMA WrappersKept ==
  ASSUME ApduLine!TypeOK, UNCHANGED handler
  PROVE  ApduLine!TypeOK'
<1>1. /\ decryption_key' = decryption_key /\ auth_key' = auth_key /\ layer' = layer
      /\ apdu_buf' = apdu_buf /\ iter' = iter /\ read_pos' = read_pos
      /\ write_pos' = write_pos /\ is_last' = is_last
      /\ library_failed' = library_failed /\ apdu_status' = apdu_status
      /\ unwrapped' = unwrapped
  BY Zenon DEF handler
<1> QED
  BY <1>1, Zenon DEF ApduLine!TypeOK

LEMMA ApduCalled ==
  ASSUME ApduLine!TypeOK, NEW b \in Seq(Octet), Apdu!Call(b, decryption_key, auth_key)
  PROVE  ApduLine!Inv' /\ ApduLine!TypeOK'
<1>1. /\ ApduLine!TypeOK
      /\ decryption_key \in Keys \cup {NoKey} /\ auth_key \in Keys \cup {NoKey}
  BY Zenon DEF ApduLine!TypeOK
<1>2. b \in Seq(ApduLine!Byte) /\ ApduLine!Call(b, decryption_key, auth_key)
  BY ApduOctets, ApduSameCall, Zenon
<1>3. ApduLine!Inv'
  BY <1>1, <1>2, ApduLine!CallInv, ApduAssumed, Zenon
<1> QED
  BY <1>3, Zenon DEF ApduLine!Inv

LEMMA ApduTurned ==
  ASSUME PlainKeepsLength, ApduLine!Inv, Apdu!Unwrap
  PROVE  ApduLine!Inv' /\ ApduLine!TypeOK'
<1>1. ApduLine!Unwrap
  BY ApduSameUnwrap, Zenon
<1>2. [ApduLine!Next]_(ApduLine!vars)
  BY <1>1, Zenon DEF ApduLine!Next
<1>3. ApduLine!Inv'
  BY <1>2, CipherAssumed, ApduLine!NextInv, ApduAssumed, Zenon
<1> QED
  BY <1>3, Zenon DEF ApduLine!Inv

ApduHolds ==
  stage = "apdu" => ApduLine!LayerInv /\ ApduLine!LinkHolds /\ ApduLine!ReceiverHolds

(* The handler is called with all of the message, ...                      *)
LEMMA ApduHeld ==
  ASSUME message \in Messages
  PROVE  ApduLine!LinkHolds
<1> DEFINE given == FlattenSeq(ApduMeter!Frames(message))
<1>1. given \in Seq(Octet)
  BY Wrapped, Zenon DEF IsWrapped
<1>2. given \o ApduLine!FlattenSeq(<< >>) = given
  <2>1. ApduLine!FlattenSeq(<< >>) = << >>
    BY ApduJoins, FlattenEmpty, Zenon
  <2> HIDE DEF given
  <2>2. given \o << >> = given
    BY <1>1
  <2> QED
    BY <2>1, <2>2, Zenon
<1>3. given = ApduLine!FlattenSeq(ApduLine!Frames(message))
  BY ApduJoins, FramesOfApdu, Zenon
<1>4. << >> \in Seq(Seq(Octet))
  OBVIOUS
<1> QED
  BY <1>1, <1>2, <1>3, <1>4, ApduOctets, Zenon DEF ApduLine!LinkHolds

LEMMA ApduStands ==
  ASSUME UNCHANGED message
  PROVE  UNCHANGED ApduLine!link
  BY Zenon DEF ApduLine!link

LEMMA ApduWhole ==
  ASSUME message \in Messages, ApduLine!TypeOK,
         Apdu!Call(FlattenSeq(message.pieces), decryption_key, auth_key), UNCHANGED message
  PROVE  ApduLine!LayerInv' /\ ApduLine!LinkHolds' /\ ApduLine!ReceiverHolds'
<1>1. /\ ApduLine!TypeOK
      /\ decryption_key \in Keys \cup {NoKey} /\ auth_key \in Keys \cup {NoKey}
  BY Zenon DEF ApduLine!TypeOK
<1>2. ApduLine!Call(FlattenSeq(ApduMeter!Frames(message)), decryption_key, auth_key)
  BY ApduSameCall, Wrapped, Zenon DEF IsWrapped
<1> QED
  BY <1>1, <1>2, ApduHeld, ApduStands, ApduLine!CallHolds, ApduAssumed, Zenon

(* ... and every turn takes off what is next.                              *)
LEMMA ApduTurn ==
  ASSUME PlainKeepsLength, ApduLine!LayerInv, ApduLine!LinkHolds, ApduLine!ReceiverHolds,
         Apdu!Unwrap, UNCHANGED message
  PROVE  ApduLine!LayerInv' /\ ApduLine!LinkHolds' /\ ApduLine!ReceiverHolds'
<1>1. ApduLine!Unwrap
  BY ApduSameUnwrap, Zenon
<1> QED
  BY <1>1, ApduStands, CipherAssumed, ApduLine!TurnHolds, ApduAssumed, Zenon

LEMMA HandlerStands ==
  ASSUME UNCHANGED handler, UNCHANGED message
  PROVE  /\ ApduLine!Inv => ApduLine!Inv'
         /\ ApduHolds => (stage' = stage => ApduHolds')
<1>1. UNCHANGED ApduLine!vars
  BY Zenon DEF ApduLine!vars, ApduLine!keys, ApduLine!blocks, handler
<1>2. UNCHANGED ApduLine!pushVars
  BY <1>1, ApduStands, Zenon DEF ApduLine!pushVars
<1>3. ApduLine!LayerInv /\ ApduLine!LinkHolds /\ ApduLine!ReceiverHolds
        => ApduLine!LayerInv' /\ ApduLine!LinkHolds' /\ ApduLine!ReceiverHolds'
  <2>1. ApduLine!LayerInv /\ ApduLine!LinkHolds /\ ApduLine!ReceiverHolds
          <=> ApduLine!PushInv
    BY Zenon DEF ApduLine!PushInv
  <2>2. (ApduLine!LayerInv /\ ApduLine!LinkHolds /\ ApduLine!ReceiverHolds)'
          <=> ApduLine!PushInv'
    BY Zenon DEF ApduLine!PushInv
  <2> QED
    BY <1>2, <2>1, <2>2, ApduLine!StutterPushInv, ApduAssumed, Zenon
<1>4. ApduLine!Inv => ApduLine!Inv'
  BY <1>1, Zenon DEF ApduLine!vars, ApduLine!keys, ApduLine!blocks,
     ApduLine!Inv, ApduLine!TypeOK, ApduLine!InPlaceSafe, ApduLine!TurnSafe
<1>5. ApduHolds => (stage' = stage => ApduHolds')
  BY <1>3, Zenon DEF ApduHolds
<1> QED
  BY <1>4, <1>5

LEMMA RawTells ==
  ASSUME NEW m \in Messages, m.framing = "none"
  PROVE  Tells(m) /\ Bare(m) = m.pieces
<1>1. Bare(m) = m.pieces
  BY DEF Bare
<1>2. Bare(m) \in Seq(Seq(Octet)) /\ Body(m) \in Seq(Octet) /\ Body(m) # << >>
  BY <1>1, Wrapped, Zenon DEF IsWrapped, Body
<1>3. "none" # "hdlc" /\ "none" # "mbus"
  OBVIOUS
<1>4. Head(FlattenSeq(m.pieces)) \notin {16, 104, 126}
  BY <1>3, TelegramAssumption, Zenon DEF CanBeFramed
<1>5. Body(m)[1] = Head(Body(m))
  BY <1>2
<1>6. Body(m)[1] \notin {16, 104, 126}
  BY <1>1, <1>4, <1>5, Zenon DEF Body
<1>7. Body(m)[1] # 16 /\ Body(m)[1] # 104 /\ Body(m)[1] # 126
  BY <1>6
<1> QED
  BY <1>1, <1>2, <1>3, <1>7, Zenon DEF Tells

LEMMA AllTell ==
  ASSUME NEW m \in Messages
  PROVE  Tells(m) /\ m.framing \in {"hdlc", "mbus", "none"}
<1>1. CanBeFramed(m)
  BY TelegramAssumption, Zenon
<1>2. m.framing \in {"hdlc", "mbus", "none"}
  BY <1>1, Zenon DEF CanBeFramed
<1> QED
  BY <1>2, HdlcTells, MbusTells, RawTells

(* What is sent of a message, and what the facade has of it behind the     *)
(* short frame.                                                            *)
LEMMA SentWhole ==
  ASSUME NEW m \in Messages
  PROVE  /\ Frames(m) \in Seq(Seq(Octet))
         /\ WithoutShortFrame(FlattenSeq(Frames(m))) = Body(m)
<1> DEFINE s == HdlcMeter!ShortFrame
           W == Seq(Octet)
<1>1. Bare(m) \in Seq(W) /\ Body(m) \in Seq(Octet) /\ Body(m)[1] # 16
  BY AllTell, Zenon DEF Tells
<1>2. Frames(m) = (IF m.led THEN <<s>> ELSE << >>) \o Bare(m)
  BY Zenon DEF Frames, Bare
<1>3. /\ s \in W /\ s \o Body(m) \in W
      /\ WithoutShortFrame(s \o Body(m)) = Body(m)
  BY <1>1, BehindShortFrame, Zenon
<1> HIDE DEF s, W
<1>4. m.led \in BOOLEAN
  BY TelegramAssumption, Zenon
<1>5. CASE m.led
  <2>1. <<s>> \in Seq(W) /\ <<s>> \o Bare(m) \in Seq(W)
    BY <1>1, <1>3
  <2>2. FlattenSeq(<<s>> \o Bare(m)) = FlattenSeq(<<s>>) \o Body(m)
    BY <1>1, <2>1, FlattenConcat, Zenon DEF W, Body
  <2>3. FlattenSeq(<<s>>) = s
    BY <1>3, FlattenOne, Zenon DEF W
  <2> QED
    BY <1>2, <1>3, <1>5, <2>1, <2>2, <2>3, Zenon DEF W
<1>6. CASE ~ m.led
  <2>1. << >> \o Bare(m) = Bare(m)
    BY <1>1
  <2>2. WithoutShortFrame(Body(m)) = Body(m)
    BY <1>1, NoShortFrame, Zenon
  <2> QED
    BY <1>1, <1>2, <1>6, <2>1, <2>2, Zenon DEF Body, W
<1> QED
  BY <1>4, <1>5, <1>6, Zenon

(* When all is sent, what the facade has behind a short frame is all of    *)
(* the frames.                                                             *)
LEMMA Arrived ==
  ASSUME LineHolds, fault = "none", queue = << >>
  PROVE  WithoutShortFrame(air) = Body(message)
<1>1. message \in Messages /\ air \in Seq(Octet)
  BY DEF LineHolds, LineTypes
<1>2. air \o << >> = FlattenSeq(Frames(message))
  BY FlattenEmpty, Zenon DEF LineHolds, Undisturbed
<1>3. air \o << >> = air
  BY <1>1
<1> QED
  BY <1>1, <1>2, <1>3, SentWhole, Zenon

=============================================================================
