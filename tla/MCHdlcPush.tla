----------------------------- MODULE MCHdlcPush -----------------------------
EXTENDS HdlcPush

(* A message of one frame; one whose second piece looks like an LLC header *)
(* with data; and one with a piece of no bytes and a piece that looks like *)
(* a short frame and a flag.                                               *)
MCMessages == {
  [address |-> <<2, 4, 6, 9, 33>>, pieces |-> << <<15, 1>> >>],
  [address |-> <<3, 33>>, pieces |-> << <<2, 3>>, <<230, 230, 0, 7>> >>],
  [address |-> <<3, 2, 65>>, pieces |-> << <<1>>, << >>, <<16, 64, 1, 65, 22, 126>> >>] }

(* What is no push of this meter: frames with and without LLC header, data *)
(* and segmentation bit, short frames, and each way a frame can be         *)
(* malformed, up to three in a row.                                        *)
Good == HdlcFrame(<<3, 33>>, <<230, 231, 0, 15, 1>>, TRUE)

Parts == {
  Good,
  HdlcFrame(<<2, 4, 6, 9, 33>>, <<230, 230, 7>>, FALSE),
  HdlcFrame(<<3, 33>>, << >>, FALSE),
  ShortFrame,
  <<16, 64, 1, 66, 22>>,                          \* wrong short-frame sum
  SubSeq(Good, 1, 9),                             \* incomplete
  [Good EXCEPT ![6] = 18],                        \* HCS error
  [Good EXCEPT ![12] = 16],                       \* FCS error
  HdlcFrame(<<2, 2, 2, 2, 2, 3>>, <<7>>, FALSE),  \* address without an end
  HdlcFrame(<<3, 2, 4, 6, 8, 9>>, <<7>>, FALSE),  \* the same of the source
  <<126, 160, 8, 3, 33, 19, 0, 0, 0, 126>>,       \* less than nine bytes
  <<0>> }

MCForeign ==
  {<< >>} \cup Parts \cup {p \o q : p, q \in Parts}
  \cup {p \o q \o r : p, q, r \in {Good, ShortFrame, SubSeq(Good, 1, 9)}}

(* All 256 entries of the table are what the polynomial 8408 of X.25       *)
(* (reflected) makes of their index in eight shifts, and two flipped bits  *)
(* in a byte or its checksum do not pass.                                  *)
ShiftBit == [r \in Word16 |->
  IF r % 2 = 1 THEN Xor16(r \div 2, 33800) ELSE r \div 2]

ASSUME TableIsX25 ==
  \A byte \in Byte :
    LET shift[i \in 0 .. 8] == IF i = 0 THEN byte ELSE ShiftBit[shift[i - 1]]
    IN  CRC16_X25_TABLE[byte + 1] = shift[8]

Flip(word, bit) == [word EXCEPT ![bit \div 8 + 1] = Xor8(@, 2^(bit % 8))]

ASSUME TwoFlippedBitsAreNoticed ==
  \A byte \in Byte : \E word \in {<<byte>> \o Fcs(<<byte>>)} :
    \A i, j \in 0 .. 23 : i < j => ~ crc16_x25_check(Flip(Flip(word, i), j))

=============================================================================
