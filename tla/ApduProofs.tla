----------------------------- MODULE ApduProofs -----------------------------
(***************************************************************************)
(* For every APDU, every keys and every cipher that keeps the length of    *)
(* what it works on: the handler stays inside its buffer; the blocks of a  *)
(* transfer are read as they came although they are put together in the    *)
(* buffer they come from; and what the handler gives back is the data in   *)
(* the innermost wrapper, as if each were opened into a buffer of its own. *)
(* And for every push that is not disturbed, however the meter wrapped     *)
(* it: this is what the meter had to say, if the keys are those for it.    *)
(***************************************************************************)
EXTENDS ApduPush, SpansProofs

(* AES-GCM is a stream cipher: as many bytes come out as go in.            *)
PlainKeepsLength ==
  \A key \in Keys, nonce, cipher \in Seq(Byte) :
    /\ Plain(key, nonce, cipher) \in Seq(Byte)
    /\ Len(Plain(key, nonce, cipher)) = Len(cipher)

LEMMA ByteAtIsNat ==
  ASSUME NEW b \in Seq(Byte), NEW i \in Nat, i < Len(b)
  PROVE  At(b, i) \in Byte /\ At(b, i) \in Nat /\ At(b, i) <= 255
<1>1. At(b, i) \in Byte
  BY DEF At
<1>2. \A x \in Byte : x \in Nat /\ x <= 255
  BY DEF Byte
<1> QED
  BY <1>1, <1>2

-----------------------------------------------------------------------------
(* The first known tag exists if there is any.                             *)
LEMMA FirstTagIsKnown ==
  ASSUME NEW b \in Seq(Byte), HasTag(b)
  PROVE  /\ FirstTag(b) \in 0 .. Len(b) - 1
         /\ At(b, FirstTag(b)) \in KnownTags
<1> DEFINE T == {i \in 0 .. Len(b) - 1 : At(b, i) \in KnownTags}
<1>1. T \subseteq Nat /\ T # {}
  <2>1. PICK i \in 1 .. Len(b) : b[i] \in KnownTags
    BY DEF HasTag
  <2>2. At(b, i - 1) = b[i] /\ i - 1 \in 0 .. Len(b) - 1
    BY <2>1 DEF At
  <2>3. i - 1 \in T
    BY <2>1, <2>2
  <2> QED
    BY <2>3
<1>2. PICK x \in T : \A y \in T : ~ (<<y, x>> \in OpToRel(<, Nat))
  <2> HIDE DEF T
  <2> QED
    BY <1>1, NatLessThanWellFounded, WFMin
<1>3. \A y \in T : ~ (y < x)
  BY <1>1, <1>2 DEF OpToRel
<1>4. \A j \in 0 .. x - 1 : At(b, j) \notin KnownTags
  <2> SUFFICES ASSUME NEW j \in 0 .. x - 1, At(b, j) \in KnownTags PROVE FALSE
    OBVIOUS
  <2>1. x \in 0 .. Len(b) - 1
    BY <1>2
  <2>2. j \in 0 .. Len(b) - 1 /\ j < x
    BY <2>1
  <2>3. j \in T
    BY <2>2
  <2> QED
    BY <1>3, <2>2, <2>3
<1>5. \E i \in 0 .. Len(b) - 1 :
        At(b, i) \in KnownTags /\ \A j \in 0 .. i - 1 : At(b, j) \notin KnownTags
  BY <1>2, <1>4
<1> QED
  BY <1>5 DEF FirstTag

(* The window starts with that tag.                                        *)
LEMMA WindowType ==
  ASSUME NEW b \in Seq(Byte), HasTag(b)
  PROVE  /\ Tagged[b] \in Seq(Byte)
         /\ Len(Tagged[b]) = Len(b) - FirstTag(b)
         /\ 1 <= Len(Tagged[b]) /\ Len(Tagged[b]) <= Len(b)
         /\ Tagged[b] = From(b, FirstTag(b))
<1>1. FirstTag(b) \in 0 .. Len(b) - 1
  BY FirstTagIsKnown
<1>2. Tagged[b] = SubSeq(b, FirstTag(b) + 1, Len(b))
  BY DEF Tagged, From
<1> QED
  BY <1>1, <1>2 DEF From

-----------------------------------------------------------------------------
(* A length is a number, and reading it does not move back.                *)
LEMMA LengthBytesType ==
  ASSUME NEW b \in Seq(Byte), NEW p \in Nat
  PROVE  LengthBytes(b, p) \in 0 .. 4
<1>1. CASE p < Len(b)
  BY <1>1, ByteAtIsNat DEF LengthBytes
<1>2. CASE ~ (p < Len(b))
  BY <1>2 DEF LengthBytes
<1> QED
  BY <1>1, <1>2

LEMMA BerEndType ==
  ASSUME NEW b \in Seq(Byte), NEW p \in Nat
  PROVE  BerEnd(b, p) \in Nat /\ p <= BerEnd(b, p)
  BY LengthBytesType DEF BerEnd, BerFits

LEMMA BigEndianType ==
  ASSUME NEW b \in Seq(Byte), NEW p \in Nat, NEW n \in 1 .. 4, p + n <= Len(b)
  PROVE  BigEndian(b, p, n) \in Nat
<1>1. HUGE \in Nat
  BY DEF HUGE
<1>2. ASSUME NEW k \in 0 .. 3 PROVE Digit(b, p, n, k) \in Nat
  <2>1. CASE k < n
    <3>1. p + n - 1 - k \in Nat /\ p + n - 1 - k < Len(b)
      BY <2>1
    <3> QED
      BY <2>1, <3>1, ByteAtIsNat DEF Digit
  <2>2. CASE ~ (k < n)
    BY <2>2 DEF Digit
  <2> QED
    BY <2>1, <2>2
<1>3. /\ Digit(b, p, n, 0) \in Nat /\ Digit(b, p, n, 1) \in Nat
      /\ Digit(b, p, n, 2) \in Nat /\ Digit(b, p, n, 3) \in Nat
  BY <1>2
<1>4. PICK a, c, d, e \in Nat :
        /\ a = Digit(b, p, n, 0) /\ c = Digit(b, p, n, 1)
        /\ d = Digit(b, p, n, 2) /\ e = Digit(b, p, n, 3)
  BY <1>3
<1>5. a + c * 256 + d * 65536 + e * 16777216 \in Nat
  OBVIOUS
<1>6. BigEndian(b, p, n) \in {HUGE, a + c * 256 + d * 65536 + e * 16777216}
  BY <1>4 DEF BigEndian
<1> QED
  BY <1>1, <1>5, <1>6

LEMMA BerLengthType ==
  ASSUME NEW b \in Seq(Byte), NEW p \in Nat
  PROVE  BerLength(b, p) \in Nat
<1> DEFINE n == LengthBytes(b, p)
<1>1. n \in 0 .. 4
  BY LengthBytesType
<1>2. CASE p < Len(b) /\ At(b, p) < 128
  <2>1. At(b, p) \in Nat
    BY <1>2, ByteAtIsNat
  <2>2. ~ (BerFits(b, p) /\ LengthBytes(b, p) > 0)
    BY <1>2, <2>1 DEF LengthBytes
  <2>3. BerLength(b, p) = At(b, p)
    BY SMT, <1>2, <2>2 DEF BerLength
  <2> QED
    BY <2>1, <2>3
<1>3. CASE ~ (p < Len(b) /\ At(b, p) < 128) /\ BerFits(b, p) /\ n > 0
  <2>1. n \in 1 .. 4 /\ p + 1 + n <= Len(b)
    BY <1>1, <1>3 DEF BerFits
  <2>2. BigEndian(b, p + 1, n) \in Nat
    BY <2>1, BigEndianType
  <2>3. BerLength(b, p) = BigEndian(b, p + 1, n)
    BY <1>3 DEF BerLength
  <2> QED
    BY <2>2, <2>3
<1>4. CASE ~ (p < Len(b) /\ At(b, p) < 128) /\ ~ (BerFits(b, p) /\ n > 0)
  BY <1>4 DEF BerLength
<1> QED
  BY <1>2, <1>3, <1>4

(* A block that fits lies in the buffer, its data behind its header.       *)
LEMMA BlockInside ==
  ASSUME NEW b \in Seq(Byte), NEW p \in Nat, BlockFits(b, p)
  PROVE  /\ BlockData(b, p) \in Nat /\ BlockLen(b, p) \in Nat
         /\ p + 6 <= BlockData(b, p)
         /\ BlockEnd(b, p) = BlockData(b, p) + BlockLen(b, p)
         /\ BlockEnd(b, p) <= Len(b)
         /\ LET data == Subspan(b, BlockData(b, p), BlockLen(b, p))
            IN  data \in Seq(Byte) /\ Len(data) = BlockLen(b, p)
<1>1. /\ BlockData(b, p) \in Nat /\ p + 6 <= BlockData(b, p)
      /\ BlockLen(b, p) \in Nat
  <2>1. p + 6 \in Nat
    OBVIOUS
  <2> QED
    BY <2>1, BerEndType, BerLengthType DEF BlockData, BlockLen
<1>2. /\ BlockEnd(b, p) = BlockData(b, p) + BlockLen(b, p)
      /\ BlockEnd(b, p) <= Len(b)
  BY DEF BlockEnd, BlockFits
<1> QED
  BY <1>1, <1>2 DEF Subspan

(* A ciphered APDU that passes the checks of its header lies in the        *)
(* window, and so do the bytes to be deciphered.                           *)
LEMMA CipherInside ==
  ASSUME NEW w \in Seq(Byte), CipherHeaderOk(w)
  PROVE  /\ CipherPos(w) \in Nat /\ PayloadLen(w) \in Nat
         /\ Nonce(w) \in Seq(Byte)
         /\ Cipher(w) \in Seq(Byte) /\ Len(Cipher(w)) = PayloadLen(w)
<1>1. SYSTITLE_LENGTH = 8 /\ LENGTH_CORRECTION = 5 /\ GCM_TAG_LENGTH = 12
  BY DEF SYSTITLE_LENGTH, LENGTH_CORRECTION, GCM_TAG_LENGTH
<1>2. SecurityPos(w) \in Nat /\ 10 <= SecurityPos(w) /\ CipherLen(w) \in Nat
  <2>1. /\ SecurityPos(w) = BerEnd(w, 10)
        /\ CipherLen(w) = BerLength(w, 10)
    BY <1>1 DEF SecurityPos, CipherLen
  <2>2. 10 \in Nat
    OBVIOUS
  <2>3. BerEnd(w, 10) \in Nat /\ 10 <= BerEnd(w, 10)
    BY <2>2, BerEndType
  <2> QED
    BY <2>1, <2>2, <2>3, BerLengthType
<1>3. CipherPos(w) = SecurityPos(w) + 5
  BY <1>1 DEF CipherPos
<1>4. TagLen(w) \in {0, 12}
  BY <1>1 DEF TagLen
<1>5. PayloadLen(w) \in Nat
  BY <1>1, <1>2, <1>4 DEF PayloadLen, CipherHeaderOk
<1>6. CipherPos(w) + PayloadLen(w) <= Len(w)
  BY <1>2, <1>3, <1>4, <1>5 DEF CipherHeaderOk
<1>7. Cipher(w) \in Seq(Byte) /\ Len(Cipher(w)) = PayloadLen(w)
  BY <1>2, <1>3, <1>5, <1>6 DEF Cipher, Subspan
<1>8. Nonce(w) \in Seq(Byte)
  <2>1. /\ Subspan(w, 2, SYSTITLE_LENGTH) = SubSeq(w, 3, 10)
        /\ Subspan(w, SecurityPos(w) + 1, 4)
             = SubSeq(w, SecurityPos(w) + 2, SecurityPos(w) + 5)
    <3>1. /\ 2 + 1 = 3 /\ 2 + 8 = 10
          /\ SecurityPos(w) + 1 + 1 = SecurityPos(w) + 2
          /\ SecurityPos(w) + 1 + 4 = SecurityPos(w) + 5
      BY <1>2
    <3> QED
      BY <1>1, <3>1 DEF Subspan
  <2>2. 10 <= Len(w) /\ SecurityPos(w) + 5 <= Len(w)
    BY <1>2, <1>3, <1>5, <1>6
  <2>3. SubSeq(w, 3, 10) \in Seq(Byte)
    BY <2>2
  <2>4. SubSeq(w, SecurityPos(w) + 2, SecurityPos(w) + 5) \in Seq(Byte)
    BY <1>2, <2>2
  <2>5. \A s, t \in Seq(Byte) : s \o t \in Seq(Byte)
    OBVIOUS
  <2> QED
    BY <2>1, <2>3, <2>4, <2>5 DEF Nonce
<1> QED
  BY <1>2, <1>3, <1>5, <1>7, <1>8

LEMMA NotifiedType ==
  ASSUME NEW w \in Seq(Byte)
  PROVE  Notified(w) \in Seq(Byte)
<1>1. << >> \in Seq(Byte)
  OBVIOUS
<1>2. CASE Len(w) > 5 /\ (At(w, 5) = OCTET_STRING => Len(w) > 6) /\ HeaderEnd(w) < Len(w)
  <2>1. HeaderEnd(w) \in Nat
    <3>1. At(w, 5) \in Nat
      BY <1>2, ByteAtIsNat
    <3>2. At(w, 5) = OCTET_STRING => At(w, 6) \in Nat
      BY <1>2, ByteAtIsNat
    <3> QED
      BY <3>1, <3>2 DEF HeaderEnd
  <2>2. Notified(w) = SubSeq(w, HeaderEnd(w) + 1, Len(w))
    BY <1>2 DEF Notified, From
  <2> QED
    BY <1>2, <2>1, <2>2
<1>3. CASE ~ (Len(w) > 5 /\ (At(w, 5) = OCTET_STRING => Len(w) > 6) /\ HeaderEnd(w) < Len(w))
  <2>1. Notified(w) = << >>
    BY <1>3 DEF Notified
  <2> QED
    BY <1>1, <2>1
<1> QED
  BY <1>2, <1>3

-----------------------------------------------------------------------------
(* At a turn of the loop over wrappers the buffer is the layer that came   *)
(* out of the last one; blocks are met only while wrappers may be opened.  *)
TurnSafe ==
  /\ status = "unwrapping" => buf = layer
  /\ status = "blocks" => iter < MAX_ITERATIONS

Inv == TypeOK /\ InPlaceSafe /\ TurnSafe

LEMMA InitInv == Init => Inv
<1> SUFFICES ASSUME Init PROVE Inv
  OBVIOUS
<1>1. << >> \in Seq(Byte) /\ Len(<< >>) = 0
  OBVIOUS
<1>2. layer = << >> /\ buf = << >> /\ result = << >>
  BY DEF Init
<1>3. layer \in Seq(Byte) /\ buf \in Seq(Byte) /\ result \in Seq(Byte)
      /\ Len(buf) <= Len(layer)
  BY <1>1, <1>2
<1>4. TypeOK
  <2>1. is_last \in BOOLEAN /\ library_failed \in BOOLEAN
    BY DEF Init
  <2>2. iter \in 0 .. MAX_ITERATIONS /\ read_pos \in Nat /\ write_pos \in Nat
    BY ApduAssumption DEF Init
  <2>3. /\ decryption_key \in Keys \cup {NoKey} /\ auth_key \in Keys \cup {NoKey}
        /\ status = "idle"
    BY DEF Init
  <2> QED
    BY <1>3, <2>1, <2>2, <2>3 DEF TypeOK
<1>5. InPlaceSafe /\ TurnSafe
  BY DEF Init, InPlaceSafe, TurnSafe
<1> QED
  BY <1>4, <1>5 DEF Inv

LEMMA CallInv ==
  ASSUME TypeOK, NEW a \in Seq(Byte),
         NEW key \in Keys \cup {NoKey}, NEW auth \in Keys \cup {NoKey},
         Call(a, key, auth)
  PROVE  Inv'
<1>1. TypeOK'
  <2>1. is_last' \in BOOLEAN /\ library_failed' \in BOOLEAN
    BY DEF Call, TypeOK, blocks
  <2>2. iter' \in 0 .. MAX_ITERATIONS
    BY ApduAssumption DEF Call
  <2>3. /\ layer' \in Seq(Byte) /\ buf' \in Seq(Byte) /\ Len(buf') <= Len(layer')
        /\ read_pos' \in Nat /\ write_pos' \in Nat
        /\ decryption_key' \in Keys \cup {NoKey} /\ auth_key' \in Keys \cup {NoKey}
        /\ status' = "unwrapping" /\ result' \in Seq(Byte)
    BY DEF Call, TypeOK, blocks
  <2> QED
    BY <2>1, <2>2, <2>3 DEF TypeOK
<1>2. InPlaceSafe' /\ TurnSafe'
  BY DEF Call, InPlaceSafe, TurnSafe
<1> QED
  BY <1>1, <1>2 DEF Inv

(* A return changes nothing but what is returned.                          *)
LEMMA FinishInv ==
  ASSUME Inv, NEW span \in Seq(Byte), Finish(span)
  PROVE  Inv'
<1>1. TypeOK'
  BY DEF Inv, Finish, TypeOK, keys, blocks
<1>2. InPlaceSafe' /\ TurnSafe'
  BY DEF Finish, InPlaceSafe, TurnSafe
<1> QED
  BY <1>1, <1>2 DEF Inv

LEMMA ReturnsInv ==
  ASSUME Inv,
         NoTag \/ RawAxdr \/ Notification \/ Exhausted \/ TruncatedBlock
           \/ NothingReassembled \/ CannotDecipher
  PROVE  Inv'
<1>1. << >> \in Seq(Byte)
  OBVIOUS
<1>2. HasTag(buf) => window \in Seq(Byte)
  BY WindowType DEF Inv, TypeOK, window
<1>3. CASE NoTag
  BY <1>1, <1>3, FinishInv DEF NoTag
<1>4. CASE RawAxdr
  BY <1>2, <1>4, FinishInv DEF RawAxdr, Meets
<1>5. CASE Notification
  BY <1>2, <1>5, FinishInv, NotifiedType DEF Notification, Meets
<1>6. CASE Exhausted
  BY <1>1, <1>6, FinishInv DEF Exhausted
<1>7. CASE TruncatedBlock
  BY <1>1, <1>7, FinishInv DEF TruncatedBlock
<1>8. CASE NothingReassembled
  BY <1>1, <1>8, FinishInv DEF NothingReassembled
<1>9. CASE CannotDecipher
  BY <1>1, <1>9, FinishInv DEF CannotDecipher
<1> QED
  BY <1>3, <1>4, <1>5, <1>6, <1>7, <1>8, <1>9

(* The next wrapper is looked at in what came out of this one.             *)
LEMMA DescendInv ==
  ASSUME Inv, NEW span \in Seq(Byte), iter < MAX_ITERATIONS,
         Descend(span), UNCHANGED blocks
  PROVE  Inv'
<1>1. TypeOK'
  BY ApduAssumption DEF Inv, Descend, TypeOK, keys, blocks
<1>2. InPlaceSafe' /\ TurnSafe'
  BY DEF Descend, InPlaceSafe, TurnSafe
<1> QED
  BY <1>1, <1>2 DEF Inv

LEMMA ReassembledInv ==
  ASSUME Inv, Reassembled
  PROVE  Inv'
<1>1. Subspan(buf, 0, write_pos) \in Seq(Byte)
  BY DEF Inv, TypeOK, Reassembled, Subspan
<1>2. iter < MAX_ITERATIONS
  BY DEF Inv, TurnSafe, Reassembled
<1> QED
  BY <1>1, <1>2, DescendInv DEF Reassembled

LEMMA StartBlocksInv ==
  ASSUME Inv, StartBlocks
  PROVE  Inv'
<1>1. /\ HasTag(buf) /\ buf = layer /\ buf \in Seq(Byte)
      /\ iter < MAX_ITERATIONS
  BY DEF Inv, TypeOK, TurnSafe, StartBlocks, Meets
<1>2. /\ buf' = Tagged[buf] /\ layer' = layer /\ status' = "blocks"
      /\ read_pos' = 0 /\ write_pos' = 0 /\ is_last' = FALSE
      /\ UNCHANGED <<keys, iter, library_failed, result>>
  BY DEF StartBlocks, window
<1>3. /\ Tagged[buf] \in Seq(Byte) /\ Len(Tagged[buf]) <= Len(buf)
  BY <1>1, WindowType
<1>4. TypeOK'
  <2>1. is_last' \in BOOLEAN /\ library_failed' \in BOOLEAN
    BY <1>2 DEF Inv, TypeOK
  <2>2. /\ buf' \in Seq(Byte) /\ layer' \in Seq(Byte) /\ Len(buf') <= Len(layer')
        /\ read_pos' \in Nat /\ write_pos' \in Nat
        /\ read_pos' <= Len(buf') /\ write_pos' <= Len(buf')
    BY <1>1, <1>2, <1>3
  <2>3. /\ decryption_key' \in Keys \cup {NoKey} /\ auth_key' \in Keys \cup {NoKey}
        /\ iter' \in 0 .. MAX_ITERATIONS /\ result' \in Seq(Byte)
    BY <1>2 DEF Inv, TypeOK, keys
  <2> QED
    BY <1>2, <2>1, <2>2, <2>3 DEF TypeOK
<1>5. InPlaceSafe'
  BY <1>1, <1>2, <1>3 DEF InPlaceSafe
<1>6. TurnSafe'
  BY <1>1, <1>2 DEF TurnSafe
<1> QED
  BY <1>4, <1>5, <1>6 DEF Inv

LEMMA TakeBlockInv ==
  ASSUME Inv, TakeBlock
  PROVE  Inv'
<1> DEFINE data == Subspan(buf, BlockData(buf, read_pos), BlockLen(buf, read_pos))
           whole == Tagged[layer]
<1>1. /\ status = "blocks" /\ BlockFits(buf, read_pos)
      /\ buf' = CopyTo(buf, data, write_pos)
      /\ write_pos' = write_pos + BlockLen(buf, read_pos)
      /\ read_pos' = BlockEnd(buf, read_pos)
      /\ is_last' = IsLast(buf, read_pos)
      /\ UNCHANGED <<keys, layer, iter, library_failed, status, result>>
  BY DEF TakeBlock
<1>2. /\ buf \in Seq(Byte) /\ layer \in Seq(Byte) /\ Len(buf) <= Len(layer)
      /\ read_pos \in Nat /\ write_pos \in Nat
  BY DEF Inv, TypeOK
<1>3. /\ HasTag(layer) /\ Len(buf) = Len(whole) /\ write_pos <= read_pos
      /\ From(buf, read_pos) = From(whole, read_pos)
  BY <1>1 DEF Inv, InPlaceSafe
<1>4. whole \in Seq(Byte)
  BY <1>2, <1>3, WindowType
<1>5. /\ data \in Seq(Byte) /\ Len(data) = BlockLen(buf, read_pos)
      /\ BlockLen(buf, read_pos) \in Nat
      /\ read_pos' \in Nat /\ read_pos <= read_pos' /\ read_pos' <= Len(buf)
      /\ write_pos + BlockLen(buf, read_pos) <= read_pos'
  BY <1>1, <1>2, <1>3, BlockInside
<1> HIDE DEF data, whole
<1>6. buf' \in Seq(Byte) /\ Len(buf') = Len(buf)
  BY <1>1, <1>2, <1>5, CopyToType
<1>7. TypeOK'
  <2>1. is_last' \in BOOLEAN
    BY <1>1 DEF IsLast, Bit
  <2> QED
    BY <1>1, <1>2, <1>5, <1>6, <2>1 DEF Inv, TypeOK, keys
<1>8. InPlaceSafe'
  <2>1. From(buf', read_pos') = From(buf, read_pos')
    BY <1>1, <1>2, <1>5, CopyToTail
  <2>2. From(buf, read_pos') = From(whole, read_pos')
    BY <1>2, <1>3, <1>4, <1>5, FromLater
  <2> QED
    BY <1>1, <1>3, <1>5, <1>6, <2>1, <2>2 DEF InPlaceSafe, whole
<1>9. TurnSafe'
  BY <1>1 DEF Inv, TurnSafe
<1> QED
  BY <1>7, <1>8, <1>9 DEF Inv

LEMMA DecipherInv ==
  ASSUME PlainKeepsLength, Inv, Decipher
  PROVE  Inv'
<1>1. PICK w \in {window} :
        /\ CipherHeaderOk(w)
        /\ \E plain \in {Deciphered(w, decryption_key)} : Descend(plain)
  BY DEF Decipher
<1>2. /\ HasTag(buf) /\ iter < MAX_ITERATIONS /\ decryption_key # NoKey
      /\ UNCHANGED blocks
  BY DEF Decipher, Meets
<1>3. w \in Seq(Byte) /\ decryption_key \in Keys
  BY <1>2, WindowType DEF window, Inv, TypeOK
<1>4. Deciphered(w, decryption_key) \in Seq(Byte)
  BY <1>1, <1>3, CipherInside DEF Deciphered, PlainKeepsLength
<1> QED
  BY <1>1, <1>2, <1>4, DescendInv

(* Whatever a decryption that fails has left, it is in the buffer and is   *)
(* not returned.                                                           *)
LEMMA DecipherFailsInv ==
  ASSUME PlainKeepsLength, Inv, DecipherFails
  PROVE  Inv'
<1>1. PICK w \in {window} :
        /\ CipherHeaderOk(w)
        /\ library_failed' = Accepted(w, decryption_key, auth_key)
        /\ \E left \in {Cipher(w), Deciphered(w, decryption_key),
                        [i \in 1 .. PayloadLen(w) |-> 0]} :
             buf' = CopyTo(buf, left, FirstTag(buf) + CipherPos(w))
  BY DEF DecipherFails
<1>2. /\ HasTag(buf) /\ decryption_key # NoKey
      /\ status' = "done" /\ result' = << >>
      /\ UNCHANGED <<keys, layer, iter, blocks>>
  BY DEF DecipherFails, Meets
<1>3. /\ w \in Seq(Byte) /\ decryption_key \in Keys /\ buf \in Seq(Byte)
      /\ FirstTag(buf) \in Nat
  BY <1>2, WindowType, FirstTagIsKnown DEF window, Inv, TypeOK
<1>4. /\ CipherPos(w) \in Nat /\ PayloadLen(w) \in Nat
      /\ Cipher(w) \in Seq(Byte) /\ Deciphered(w, decryption_key) \in Seq(Byte)
  BY <1>1, <1>3, CipherInside DEF Deciphered, PlainKeepsLength
<1>5. [i \in 1 .. PayloadLen(w) |-> 0] \in Seq(Byte)
  BY <1>4 DEF Byte
<1>6. buf' \in Seq(Byte) /\ Len(buf') = Len(buf)
  <2>1. PICK left \in Seq(Byte) :
          buf' = CopyTo(buf, left, FirstTag(buf) + CipherPos(w))
    BY <1>1, <1>4, <1>5
  <2>2. FirstTag(buf) + CipherPos(w) \in Nat
    BY <1>3, <1>4
  <2> QED
    BY <1>3, <2>1, <2>2, CopyToType
<1>7. library_failed' \in BOOLEAN
  BY <1>1 DEF Accepted
<1>8. TypeOK'
  BY <1>2, <1>6, <1>7 DEF Inv, TypeOK, keys, blocks
<1>9. InPlaceSafe' /\ TurnSafe'
  BY <1>2 DEF InPlaceSafe, TurnSafe
<1> QED
  BY <1>8, <1>9 DEF Inv

LEMMA NextInv ==
  ASSUME PlainKeepsLength, Inv, [Next]_vars
  PROVE  Inv'
<1>1. CASE UNCHANGED vars
  BY <1>1 DEF Inv, TypeOK, InPlaceSafe, TurnSafe, vars, keys, blocks
<1>2. ASSUME NEW a \in Seq(Byte),
             NEW key \in Keys \cup {NoKey}, NEW auth \in Keys \cup {NoKey},
             Call(a, key, auth)
      PROVE  Inv'
  BY <1>2, CallInv DEF Inv
<1>3. CASE Unwrap
  BY <1>3, ReturnsInv, StartBlocksInv, TakeBlockInv, ReassembledInv,
     DecipherInv, DecipherFailsInv DEF Unwrap
<1> QED
  BY <1>1, <1>2, <1>3 DEF Next

(* The handler never leaves its buffer: offsets, lengths and the number of *)
(* wrappers stay in their bounds, whatever lengths the APDU claims.        *)
THEOREM TypeCorrect ==
  ASSUME PlainKeepsLength
  PROVE  Spec => []TypeOK
<1>1. Inv /\ [Next]_vars => Inv'
  BY NextInv
<1>2. Inv => TypeOK
  BY DEF Inv
<1> QED
  BY InitInv, <1>1, <1>2, PTL DEF Spec

(* Blocks are put together in the buffer they are read from, and each of   *)
(* them is read as it came, whatever number and sizes they have.           *)
THEOREM ReassemblyInPlace ==
  ASSUME PlainKeepsLength
  PROVE  Spec => []InPlaceSafe
<1>1. Inv /\ [Next]_vars => Inv'
  BY NextInv
<1>2. Inv => InPlaceSafe
  BY DEF Inv
<1> QED
  BY InitInv, <1>1, <1>2, PTL DEF Spec

(* Another wrapper, the blocks of this one, or another block.              *)
GoesOn ==
  \/ iter' = iter + 1
  \/ iter' = iter /\ status = "unwrapping" /\ status' = "blocks"
  \/ /\ iter' = iter /\ status = "blocks" /\ status' = "blocks"
     /\ Len(buf') = Len(buf) /\ read_pos < read_pos'

(* Every turn of the two loops opens another wrapper, of which there may be*)
(* MAX_ITERATIONS, comes to its blocks or reads on in them, or else the    *)
(* call returns.  A block that claims no bytes, or a wrapper with another  *)
(* one of the same size in it, do not keep the loops going.                *)
THEOREM TurnsGoOn ==
  ASSUME PlainKeepsLength, Inv, Unwrap
  PROVE  status' = "done" \/ GoesOn
<1>1. CASE \/ NoTag \/ RawAxdr \/ Notification \/ Exhausted \/ TruncatedBlock
           \/ NothingReassembled \/ CannotDecipher
  BY <1>1 DEF NoTag, RawAxdr, Notification, Exhausted, TruncatedBlock,
     NothingReassembled, CannotDecipher, Finish
<1>2. CASE StartBlocks
  BY <1>2 DEF StartBlocks, Meets, GoesOn
<1>3. CASE TakeBlock
  <2>1. /\ status = "blocks" /\ BlockFits(buf, read_pos) /\ status' = status
        /\ read_pos' = BlockEnd(buf, read_pos)
        /\ iter' = iter /\ layer' = layer
    BY <1>3 DEF TakeBlock
  <2>2. buf \in Seq(Byte) /\ read_pos \in Nat
    BY DEF Inv, TypeOK
  <2>3. read_pos < read_pos'
    BY <2>1, <2>2, BlockInside
  <2>4. Len(buf') = Len(buf)
    <3>1. Inv'
      BY <1>3, TakeBlockInv
    <3> QED
      BY <2>1, <3>1 DEF Inv, InPlaceSafe
  <2> QED
    BY <2>1, <2>3, <2>4 DEF GoesOn
<1>4. CASE Reassembled \/ Decipher
  BY <1>4 DEF Reassembled, Decipher, Descend, GoesOn
<1>5. CASE DecipherFails
  BY <1>5 DEF DecipherFails
<1> QED
  BY <1>1, <1>2, <1>3, <1>4, <1>5 DEF Unwrap

-----------------------------------------------------------------------------
(* One turn of the recursion over the blocks of w. *)
RestFrom(f, w, p) ==
  IF ~ AtBlock(w, p) THEN {<< >>}
  ELSE IF ~ BlockFits(w, p) THEN {}
  ELSE {Subspan(w, BlockData(w, p), BlockLen(w, p)) \o more :
          more \in IF IsLast(w, p) THEN {<< >>} ELSE f[BlockEnd(w, p)]}

(* It depends on what is behind the block.                                 *)
LEMMA RestFromLater ==
  ASSUME NEW w \in Seq(Byte), NEW p \in 0 .. Len(w), NEW f, NEW g,
         \A q \in p + 1 .. Len(w) : f[q] = g[q]
  PROVE  RestFrom(f, w, p) = RestFrom(g, w, p)
<1>1. CASE BlockFits(w, p)
  <2>1. BlockEnd(w, p) \in p + 1 .. Len(w)
    BY <1>1, BlockInside
  <2>2. f[BlockEnd(w, p)] = g[BlockEnd(w, p)]
    BY <2>1
  <2> QED
    BY <2>2, Zenon DEF RestFrom
<1>2. CASE ~ BlockFits(w, p)
  BY <1>2, Zenon DEF RestFrom
<1> QED
  BY <1>1, <1>2

(* The recursion is well founded: what it defines, from the end of w on.   *)
LEMMA RestExists ==
  ASSUME NEW w \in Seq(Byte)
  PROVE  \E f : f = [p \in 0 .. Len(w) |-> RestFrom(f, w, p)]
<1> DEFINE n == Len(w)
           Q(f, k) == f = [p \in n - k .. n |-> RestFrom(f, w, p)]
           S == {k \in 0 .. n : \E f : Q(f, k)}
<1>1. n \in Nat
  OBVIOUS
<1>2. 0 \in S
  <2> DEFINE g == [p \in n - 0 .. n |-> RestFrom(<< >>, w, p)]
  <2>1. ASSUME NEW p \in n - 0 .. n PROVE g[p] = RestFrom(g, w, p)
    <3>1. g[p] = RestFrom(<< >>, w, p)
      OBVIOUS
    <3>2. p \in 0 .. Len(w) /\ \A q \in p + 1 .. Len(w) : g[q] = << >>[q]
      BY <1>1
    <3> HIDE DEF g
    <3> QED
      BY <3>1, <3>2, RestFromLater
  <2>2. g = [p \in n - 0 .. n |-> g[p]]
    OBVIOUS
  <2> HIDE DEF g
  <2>3. Q(g, 0)
    BY <2>1, <2>2
  <2> QED
    BY <1>1, <2>3
<1>3. ASSUME NEW k \in 0 + 1 .. n, k - 1 \in S PROVE k \in S
  <2>1. PICK f : Q(f, k - 1)
    BY <1>3
  <2> DEFINE g == [p \in n - k .. n |-> IF p = n - k THEN RestFrom(f, w, p) ELSE f[p]]
  <2>2. \A q \in n - k + 1 .. n : g[q] = f[q]
    BY <1>1
  <2>3. ASSUME NEW p \in n - k .. n PROVE g[p] = RestFrom(f, w, p)
    <3>1. CASE p = n - k
      BY <3>1
    <3>2. CASE p # n - k
      <4>1. p \in n - (k - 1) .. n
        BY <1>1, <3>2
      <4>2. f[p] = RestFrom(f, w, p)
        BY <2>1, <4>1
      <4> QED
        BY <3>2, <4>2
    <3> QED
      BY <3>1, <3>2
  <2>4. g = [p \in n - k .. n |-> g[p]]
    OBVIOUS
  <2> HIDE DEF g
  <2>5. ASSUME NEW p \in n - k .. n PROVE g[p] = RestFrom(g, w, p)
    <3>1. p \in 0 .. Len(w) /\ \A q \in p + 1 .. Len(w) : f[q] = g[q]
      BY <1>1, <2>2
    <3>2. RestFrom(f, w, p) = RestFrom(g, w, p)
      BY <3>1, RestFromLater
    <3> QED
      BY <2>3, <3>2
  <2>6. Q(g, k)
    BY <2>4, <2>5
  <2>7. k \in 0 .. n
    BY <1>1
  <2> HIDE DEF Q
  <2> QED
    BY <2>6, <2>7
<1>4. 0 .. n \subseteq S /\ n \in 0 .. n /\ n - n = 0
  <2> HIDE DEF S
  <2>1. 0 .. n \subseteq S
    BY <1>1, <1>2, <1>3, IntervalInduction
  <2> QED
    BY <1>1, <2>1
<1>5. PICK f : Q(f, n)
  <2> HIDE DEF Q
  <2> QED
    BY <1>4
<1> QED
  BY <1>4, <1>5

(* So every place of w satisfies its equation.                             *)
LEMMA RestUnfold ==
  ASSUME NEW w \in Seq(Byte), NEW p \in 0 .. Len(w)
  PROVE  Rest(w)[p] = RestFrom(Rest(w), w, p)
<1> DEFINE P(f) == f = [q \in 0 .. Len(w) |-> RestFrom(f, w, q)]
<1>1. \E f : P(f)
  BY RestExists
<1>2. Rest(w) = CHOOSE f : P(f)
  BY Zenon DEF Rest, RestFrom
<1> HIDE DEF P
<1>3. P(Rest(w))
  BY <1>1, <1>2, Zenon
<1> QED
  BY <1>3 DEF P

-----------------------------------------------------------------------------
(* What blocks hold is a sequence of bytes.                                *)
LEMMA RestType ==
  ASSUME NEW w \in Seq(Byte), NEW p \in 0 .. Len(w)
  PROVE  Rest(w)[p] \subseteq Seq(Byte)
<1> DEFINE n == Len(w)
           T == {k \in 0 .. n : \A q \in n - k .. n : Rest(w)[q] \subseteq Seq(Byte)}
<1>1. n \in Nat /\ << >> \in Seq(Byte)
  OBVIOUS
<1>2. ASSUME NEW q \in 0 .. n, \A k \in q + 1 .. n : Rest(w)[k] \subseteq Seq(Byte)
      PROVE  Rest(w)[q] \subseteq Seq(Byte)
  <2>1. Rest(w)[q] = RestFrom(Rest(w), w, q)
    BY RestUnfold
  <2>2. CASE BlockFits(w, q)
    <3> DEFINE data == Subspan(w, BlockData(w, q), BlockLen(w, q))
               rest == IF IsLast(w, q) THEN {<< >>} ELSE Rest(w)[BlockEnd(w, q)]
    <3>1. data \in Seq(Byte) /\ BlockEnd(w, q) \in q + 1 .. n
      BY <2>2, BlockInside
    <3>2. rest \subseteq Seq(Byte)
      BY <1>1, <1>2, <3>1
    <3>3. RestFrom(Rest(w), w, q) \in {{<< >>}, {data \o more : more \in rest}}
      BY <2>2 DEF RestFrom
    <3> HIDE DEF data, rest
    <3>4. {data \o more : more \in rest} \subseteq Seq(Byte)
      BY <3>1, <3>2, ConcatProperties
    <3> QED
      BY <1>1, <2>1, <3>3, <3>4
  <2>3. CASE ~ BlockFits(w, q)
    BY <1>1, <2>1, <2>3 DEF RestFrom
  <2> QED
    BY <2>2, <2>3
<1>3. 0 \in T
  <2>1. Rest(w)[n] \subseteq Seq(Byte)
    BY <1>1, <1>2
  <2> QED
    BY <1>1, <2>1
<1>4. ASSUME NEW k \in 0 + 1 .. n, k - 1 \in T PROVE k \in T
  <2>a. n - (k - 1) = n - k + 1
    BY <1>1
  <2>b. \A q \in n - (k - 1) .. n : Rest(w)[q] \subseteq Seq(Byte)
    BY <1>4, Zenon
  <2>1. \A q \in n - k + 1 .. n : Rest(w)[q] \subseteq Seq(Byte)
    BY <2>a, <2>b, Zenon
  <2>2. Rest(w)[n - k] \subseteq Seq(Byte)
    BY <1>1, <1>2, <2>1
  <2> QED
    BY <1>1, <2>1, <2>2
<1>5. n \in T
  <2> HIDE DEF T
  <2>1. 0 .. n \subseteq T
    BY <1>1, <1>3, <1>4, IntervalInduction
  <2> QED
    BY <1>1, <2>1
<1> QED
  BY <1>1, <1>5

(* Buffers that agree from p on have the same bytes and lengths there.     *)
LEMMA SameByte ==
  ASSUME NEW b \in Seq(Byte), NEW w \in Seq(Byte), Len(b) = Len(w),
         NEW p \in Nat, From(b, p) = From(w, p), NEW i \in Nat, p <= i, i < Len(b)
  PROVE  At(b, i) = At(w, i)
<1>1. i - p + 1 \in 1 .. Len(b) - (p + 1) + 1 /\ p + 1 + (i - p + 1) - 1 = i + 1
  OBVIOUS
<1>2. From(b, p)[i - p + 1] = b[i + 1] /\ From(w, p)[i - p + 1] = w[i + 1]
  BY <1>1 DEF From
<1> QED
  BY <1>2 DEF At

LEMMA SameLength ==
  ASSUME NEW b \in Seq(Byte), NEW w \in Seq(Byte), Len(b) = Len(w),
         NEW p \in Nat, From(b, p) = From(w, p), NEW q \in Nat, p <= q
  PROVE  /\ BerEnd(b, q) = BerEnd(w, q)
         /\ BerLength(b, q) = BerLength(w, q)
<1>1. q < Len(b) => At(b, q) = At(w, q)
  BY SameByte
<1>2. LengthBytes(b, q) = LengthBytes(w, q)
  BY <1>1 DEF LengthBytes
<1>3. BerFits(b, q) <=> BerFits(w, q)
  BY <1>2 DEF BerFits
<1>4. BerEnd(b, q) = BerEnd(w, q)
  BY <1>2, <1>3 DEF BerEnd
<1> DEFINE n == LengthBytes(b, q)
<1>5. ASSUME BerFits(b, q), n > 0
      PROVE  BigEndian(b, q + 1, n) = BigEndian(w, q + 1, n)
  <2>1. n \in 1 .. 4 /\ q + 1 + n <= Len(b)
    BY <1>5, LengthBytesType DEF BerFits
  <2> HIDE DEF n
  <2>2. At(b, q + 1) = At(w, q + 1)
    BY <2>1, SameByte
  <2>3. ASSUME NEW k \in 0 .. 3 PROVE Digit(b, q + 1, n, k) = Digit(w, q + 1, n, k)
    <3>1. CASE k < n
      <4>1. q + 1 + n - 1 - k \in Nat /\ p <= q + 1 + n - 1 - k /\ q + 1 + n - 1 - k < Len(b)
        BY <2>1, <3>1
      <4> QED
        BY <3>1, <4>1, SameByte DEF Digit
    <3>2. CASE ~ (k < n)
      BY <3>2 DEF Digit
    <3> QED
      BY <3>1, <3>2
  <2>4. /\ Digit(b, q + 1, n, 0) = Digit(w, q + 1, n, 0)
        /\ Digit(b, q + 1, n, 1) = Digit(w, q + 1, n, 1)
        /\ Digit(b, q + 1, n, 2) = Digit(w, q + 1, n, 2)
        /\ Digit(b, q + 1, n, 3) = Digit(w, q + 1, n, 3)
    BY <2>3
  <2> QED
    BY <2>2, <2>4, SMT DEF BigEndian
<1>6. BerLength(b, q) = BerLength(w, q)
  <2> HIDE DEF n
  <2>1. CASE q < Len(b) /\ At(b, q) < 128
    <3>1. BerLength(b, q) = At(b, q)
      <4>1. LengthBytes(b, q) = 0
        BY <2>1, ByteAtIsNat DEF LengthBytes
      <4> QED
        BY <2>1, <4>1 DEF BerLength
    <3>2. BerLength(w, q) = At(w, q)
      <4>1. LengthBytes(w, q) = 0 /\ q < Len(w) /\ At(w, q) < 128
        BY <1>1, <2>1, ByteAtIsNat DEF LengthBytes
      <4> QED
        BY <4>1 DEF BerLength
    <3> QED
      BY <1>1, <2>1, <3>1, <3>2
  <2>2. CASE ~ (q < Len(b) /\ At(b, q) < 128) /\ BerFits(b, q) /\ n > 0
    <3>1. ~ (q < Len(w) /\ At(w, q) < 128)
      BY <1>1, <2>2
    <3>2. BerLength(b, q) = BigEndian(b, q + 1, n)
      BY <2>2 DEF BerLength, n
    <3>3. BerLength(w, q) = BigEndian(w, q + 1, n)
      BY <1>2, <1>3, <2>2, <3>1 DEF BerLength, n
    <3> QED
      BY <1>5, <2>2, <3>2, <3>3
  <2>3. CASE ~ (q < Len(b) /\ At(b, q) < 128) /\ ~ (BerFits(b, q) /\ n > 0)
    <3>1. ~ (q < Len(w) /\ At(w, q) < 128)
      BY <1>1, <2>3
    <3>2. BerLength(b, q) = 0
      BY <2>3 DEF BerLength, n
    <3>3. BerLength(w, q) = 0
      BY <1>2, <1>3, <2>3, <3>1 DEF BerLength, n
    <3> QED
      BY <3>2, <3>3
  <2> QED
    BY <2>1, <2>2, <2>3
<1> QED
  BY <1>4, <1>6

(* A block that is still in the buffer as it came is the same block.       *)
LEMMA SameBlock ==
  ASSUME NEW b \in Seq(Byte), NEW w \in Seq(Byte), Len(b) = Len(w),
         NEW p \in Nat, From(b, p) = From(w, p)
  PROVE  /\ AtBlock(b, p) <=> AtBlock(w, p)
         /\ BlockFits(b, p) <=> BlockFits(w, p)
         /\ BlockFits(b, p) =>
              /\ BlockLen(b, p) = BlockLen(w, p)
              /\ BlockEnd(b, p) = BlockEnd(w, p)
              /\ IsLast(b, p) = IsLast(w, p)
              /\ Subspan(b, BlockData(b, p), BlockLen(b, p))
                   = Subspan(w, BlockData(w, p), BlockLen(w, p))
<1>1. AtBlock(b, p) <=> AtBlock(w, p)
  BY SameByte DEF AtBlock
<1>2. BlockData(b, p) = BlockData(w, p) /\ BlockLen(b, p) = BlockLen(w, p)
  <2>1. p + 6 \in Nat /\ p <= p + 6
    OBVIOUS
  <2> QED
    BY <2>1, SameLength DEF BlockData, BlockLen
<1>3. BlockEnd(b, p) = BlockEnd(w, p) /\ (BlockFits(b, p) <=> BlockFits(w, p))
  BY <1>2 DEF BlockEnd, BlockFits
<1>4. ASSUME BlockFits(b, p)
      PROVE  /\ IsLast(b, p) = IsLast(w, p)
             /\ Subspan(b, BlockData(b, p), BlockLen(b, p))
                  = Subspan(w, BlockData(w, p), BlockLen(w, p))
  <2> DEFINE d == BlockData(b, p)
             n == BlockLen(b, p)
  <2>1. /\ d \in Nat /\ n \in Nat /\ p + 6 <= d /\ d + n <= Len(b)
    BY <1>4, BlockInside
  <2>2. At(b, p + 1) = At(w, p + 1)
    BY <2>1, SameByte
  <2> HIDE DEF d, n
  <2>3. Subspan(b, d, n) = Subspan(w, d, n)
    <3>1. /\ Subspan(b, d, n) \in Seq(Byte) /\ Len(Subspan(b, d, n)) = n
          /\ Subspan(w, d, n) \in Seq(Byte) /\ Len(Subspan(w, d, n)) = n
      BY <2>1 DEF Subspan
    <3>2. ASSUME NEW i \in 1 .. n PROVE Subspan(b, d, n)[i] = Subspan(w, d, n)[i]
      <4>1. d + i - 1 \in Nat /\ p <= d + i - 1 /\ d + i - 1 < Len(b) /\ d + i - 1 + 1 = d + i
        BY <2>1
      <4>2. At(b, d + i - 1) = At(w, d + i - 1)
        BY <4>1, SameByte
      <4>3. b[d + i] = w[d + i]
        BY <4>1, <4>2 DEF At
      <4>4. Subspan(b, d, n)[i] = b[d + i] /\ Subspan(w, d, n)[i] = w[d + i]
        BY <2>1 DEF Subspan
      <4> QED
        BY <4>3, <4>4
    <3> QED
      BY <3>1, <3>2, SeqEqual
  <2> QED
    BY <1>2, <2>2, <2>3 DEF IsLast, d, n
<1> QED
  BY <1>1, <1>2, <1>3, <1>4

-----------------------------------------------------------------------------
(* The blocks taken so far are at the front of the buffer, and the blocks  *)
(* that a transfer holds are these and what is behind read_pos.            *)
BlocksSoFar ==
  status = "blocks" =>
    Rest(Tagged[layer])[0] =
      {Subspan(buf, 0, write_pos) \o more :
         more \in IF is_last THEN {<< >>} ELSE Rest(Tagged[layer])[read_pos]}

(* The data of a transfer is what its blocks hold, in the order they came: *)
(* with the invariant of the buffer, all that a turn of the handler rests  *)
(* on.                                                                     *)
LayerInv ==
  /\ Inv
  /\ BlocksSoFar
  /\ status = "idle" => iter = 0
  /\ status = "blocks" => At(Tagged[layer], 0) = GENERAL_BLOCK_TRANSFER

(* Blocks may be joined from the front or from the back.                   *)
LEMMA JoinEach ==
  ASSUME NEW front \in Seq(Byte), NEW data \in Seq(Byte), NEW M \in SUBSET Seq(Byte)
  PROVE  {front \o rest : rest \in {data \o more : more \in M}}
           = {(front \o data) \o more : more \in M}
<1> DEFINE L == {front \o rest : rest \in {data \o more : more \in M}}
           R == {(front \o data) \o more : more \in M}
<1>1. \A more \in M : front \o (data \o more) = (front \o data) \o more
  BY ConcatAssociative
<1>2. ASSUME NEW x \in L PROVE x \in R
  <2>1. PICK more \in M : x = front \o (data \o more)
    BY Zenon
  <2> QED
    BY <1>1, <2>1, Zenon
<1>3. ASSUME NEW x \in R PROVE x \in L
  <2>1. PICK more \in M : x = (front \o data) \o more
    BY Zenon
  <2>2. x = front \o (data \o more)
    BY <1>1, <2>1, Zenon
  <2> QED
    BY <2>2, Zenon
<1> QED
  <2> HIDE DEF L, R
  <2>1. L = R
    BY <1>2, <1>3
  <2> QED
    BY <2>1 DEF L, R

(* At first no block is taken; and a turn of the loop takes one.           *)
LEMMA StartBlocksSoFar ==
  ASSUME LayerInv, StartBlocks
  PROVE  BlocksSoFar'
<1> DEFINE w == Tagged[layer]
<1>1. /\ HasTag(buf) /\ buf = layer /\ layer \in Seq(Byte)
  BY DEF LayerInv, Inv, TypeOK, TurnSafe, StartBlocks, Meets
<1>2. /\ buf' = w /\ layer' = layer
      /\ read_pos' = 0 /\ write_pos' = 0 /\ is_last' = FALSE
  BY <1>1 DEF StartBlocks, window
<1>3. w \in Seq(Byte)
  BY <1>1, WindowType
<1> HIDE DEF w
<1>4. Subspan(w, 0, 0) = << >>
  BY <1>3 DEF Subspan
<1>5. 0 \in 0 .. Len(w)
  BY <1>3
<1>6. Rest(w)[0] \subseteq Seq(Byte)
  BY <1>3, <1>5, RestType
<1>7. {<< >> \o more : more \in Rest(w)[0]} = Rest(w)[0]
  <2>1. \A more \in Rest(w)[0] : << >> \o more = more
    BY <1>6, ConcatEmptySeq
  <2> QED
    BY <2>1
<1> QED
  BY <1>2, <1>4, <1>7, Zenon DEF BlocksSoFar, w

LEMMA TakeBlockSoFar ==
  ASSUME LayerInv, TakeBlock
  PROVE  BlocksSoFar'
<1> DEFINE data == Subspan(buf, BlockData(buf, read_pos), BlockLen(buf, read_pos))
           w == Tagged[layer]
           front == Subspan(buf, 0, write_pos)
           M == IF is_last' THEN {<< >>} ELSE Rest(w)[read_pos']
<1>1. /\ status = "blocks" /\ BlockFits(buf, read_pos)
      /\ ~ is_last /\ AtBlock(buf, read_pos)
      /\ buf' = CopyTo(buf, data, write_pos)
      /\ write_pos' = write_pos + BlockLen(buf, read_pos)
      /\ read_pos' = BlockEnd(buf, read_pos)
      /\ is_last' = IsLast(buf, read_pos)
      /\ layer' = layer
  BY DEF TakeBlock, MoreBlocks
<1>2. /\ buf \in Seq(Byte) /\ layer \in Seq(Byte)
      /\ read_pos \in Nat /\ write_pos \in Nat /\ read_pos <= Len(buf)
  BY <1>1 DEF LayerInv, Inv, TypeOK
<1>3. /\ HasTag(layer) /\ Len(buf) = Len(w) /\ write_pos <= read_pos
      /\ From(buf, read_pos) = From(w, read_pos)
  BY <1>1 DEF LayerInv, Inv, InPlaceSafe
<1>4. w \in Seq(Byte)
  BY <1>2, <1>3, WindowType
<1>5. /\ data \in Seq(Byte) /\ Len(data) = BlockLen(buf, read_pos)
      /\ BlockLen(buf, read_pos) \in Nat
      /\ read_pos' \in Nat /\ read_pos' <= Len(buf)
      /\ write_pos + BlockLen(buf, read_pos) <= Len(buf)
  BY <1>1, <1>2, <1>3, BlockInside
<1> HIDE DEF w
<1>6. /\ AtBlock(w, read_pos) /\ BlockFits(w, read_pos)
      /\ BlockEnd(w, read_pos) = read_pos' /\ (IsLast(w, read_pos) <=> is_last')
      /\ Subspan(w, BlockData(w, read_pos), BlockLen(w, read_pos)) = data
  BY <1>1, <1>2, <1>3, <1>4, SameBlock
<1>7. Rest(w)[read_pos] = {data \o more : more \in M}
  <2>1. read_pos \in 0 .. Len(w)
    BY <1>2, <1>3
  <2>2. Rest(w)[read_pos] = RestFrom(Rest(w), w, read_pos)
    BY <1>4, <2>1, RestUnfold
  <2> HIDE DEF data
  <2> QED
    BY <1>6, <2>2, Zenon DEF RestFrom
<1>8. front \in Seq(Byte) /\ Subspan(buf', 0, write_pos') = front \o data
  <2> HIDE DEF data
  <2>1. Subspan(CopyTo(buf, data, write_pos), 0, write_pos + Len(data))
          = Subspan(buf, 0, write_pos) \o data
    BY <1>2, <1>5, CopyToFront
  <2>2. buf' = CopyTo(buf, data, write_pos) /\ write_pos' = write_pos + Len(data)
    BY <1>1, <1>5
  <2>3. front \in Seq(Byte)
    BY <1>2, <1>5 DEF Subspan
  <2> QED
    BY <2>1, <2>2, <2>3, Zenon
<1>9. M \in SUBSET Seq(Byte)
  <2>1. read_pos' \in 0 .. Len(w)
    BY <1>3, <1>5
  <2>2. Rest(w)[read_pos'] \subseteq Seq(Byte) /\ << >> \in Seq(Byte)
    BY <1>4, <2>1, RestType
  <2> QED
    BY <2>2
<1>10. Rest(w)[0] = {front \o rest : rest \in Rest(w)[read_pos]}
  BY <1>1, Zenon DEF LayerInv, BlocksSoFar, w
<1>11. Rest(w)[0] = {Subspan(buf', 0, write_pos') \o more : more \in M}
  <2> HIDE DEF data, front, M
  <2>1. {front \o rest : rest \in {data \o more : more \in M}}
          = {(front \o data) \o more : more \in M}
    BY <1>5, <1>8, <1>9, JoinEach
  <2> QED
    BY <1>7, <1>8, <1>10, <2>1, Zenon
<1> QED
  BY <1>1, <1>11, Zenon DEF BlocksSoFar, w

(* Every step keeps the invariant of the layers.                           *)
LEMMA LayerNext ==
  ASSUME PlainKeepsLength, LayerInv, [Next]_vars
  PROVE  LayerInv'
<1>1. Inv'
  BY NextInv DEF LayerInv
<1>2. BlocksSoFar'
  <2>1. CASE UNCHANGED vars
    BY <2>1 DEF LayerInv, BlocksSoFar, vars, blocks
  <2>2. CASE StartBlocks
    BY <2>2, StartBlocksSoFar
  <2>3. CASE TakeBlock
    BY <2>3, TakeBlockSoFar
  <2>4. ASSUME status' # "blocks" PROVE BlocksSoFar'
    BY <2>4 DEF BlocksSoFar
  <2>5. CASE ~ StartBlocks /\ ~ TakeBlock /\ Next
    BY <2>4, <2>5 DEF Next, Unwrap, Call, NoTag, RawAxdr, Notification, Exhausted,
       TruncatedBlock, Reassembled, NothingReassembled, CannotDecipher, Decipher,
       DecipherFails, Finish, Descend
  <2> QED
    BY <2>1, <2>2, <2>3, <2>5
<1>3. status' = "idle" => iter' = 0
  <2>1. CASE UNCHANGED vars
    BY <2>1 DEF LayerInv, vars
  <2>2. CASE Next
    BY <2>2 DEF LayerInv, Next, Unwrap, Call, NoTag, RawAxdr, Notification, Exhausted,
       StartBlocks, TakeBlock, TruncatedBlock, Reassembled, NothingReassembled,
       CannotDecipher, Decipher, DecipherFails, Finish, Descend
  <2> QED
    BY <2>1, <2>2
<1>4. status' = "blocks" => At(Tagged[layer'], 0) = GENERAL_BLOCK_TRANSFER
  <2>1. CASE UNCHANGED vars
    BY <2>1 DEF LayerInv, vars
  <2>2. CASE StartBlocks
    BY <2>2 DEF LayerInv, Inv, TurnSafe, StartBlocks, Meets, window
  <2>3. CASE TakeBlock
    BY <2>3 DEF LayerInv, TakeBlock
  <2>4. CASE ~ StartBlocks /\ ~ TakeBlock /\ Next
    BY <2>4 DEF Next, Unwrap, Call, NoTag, RawAxdr, Notification, Exhausted,
       TruncatedBlock, Reassembled, NothingReassembled, CannotDecipher, Decipher,
       DecipherFails, Finish, Descend
  <2> QED
    BY <2>1, <2>2, <2>3, <2>4
<1> QED
  BY <1>1, <1>2, <1>3, <1>4 DEF LayerInv

-----------------------------------------------------------------------------
(* The handler starts as the layers do, and is called as they are.         *)
LEMMA InitLayers ==
  ASSUME Init
  PROVE  Layers!Init
  BY DEF Init, Layers!Init, keys

LEMMA CallLayers ==
  ASSUME LayerInv, NEW a \in Seq(Byte),
         NEW key \in Keys \cup {NoKey}, NEW auth \in Keys \cup {NoKey},
         Call(a, key, auth)
  PROVE  Layers!Call
<1>1. status = "idle" /\ iter = 0
  BY DEF LayerInv, Call
<1>2. /\ keys' = <<key, auth>> /\ layer' = a /\ iter' = iter
      /\ status' = "unwrapping" /\ result' = result
  BY <1>1 DEF Call, keys
<1> QED
  BY <1>1, <1>2, Zenon DEF Layers!Call

(* What a turn knows of the layer it works on.                             *)
LEMMA TurnLayer ==
  ASSUME LayerInv, status = "unwrapping"
  PROVE  /\ buf = layer /\ window = Tagged[layer] /\ layer \in Seq(Byte)
         /\ HasTag(buf) <=> HasTag(layer)
  BY DEF LayerInv, Inv, TypeOK, TurnSafe, window

(* The actions that return, and those that open a wrapper or refuse to.    *)
LEMMA DeliverLayers ==
  ASSUME LayerInv, NoTag \/ RawAxdr \/ Notification
  PROVE  Layers!Deliver
<1>1. /\ status = "unwrapping" /\ iter < MAX_ITERATIONS /\ status' = "done"
      /\ UNCHANGED <<keys, layer, iter>>
  BY DEF NoTag, RawAxdr, Notification, Meets, Finish
<1>2. buf = layer /\ window = Tagged[layer]
  BY <1>1, TurnLayer
<1>3. IsFinal(layer) /\ result' = Data(layer)
  <2>1. CASE NoTag
    BY <1>2, <2>1 DEF NoTag, IsFinal, Data, Finish
  <2>2. CASE RawAxdr
    BY <1>2, <2>2 DEF RawAxdr, Meets, IsFinal, Data, Finish
  <2>3. CASE Notification
    <3>1. DATA_NOTIFICATION \notin Containers
      BY DEF DATA_NOTIFICATION, Containers, ARRAY, STRUCTURE
    <3> QED
      BY <1>2, <2>3, <3>1 DEF Notification, Meets, IsFinal, Data, Finish
  <2> QED
    BY <2>1, <2>2, <2>3
<1> QED
  BY <1>1, <1>3, Zenon DEF Layers!Deliver, Layers!Finish

LEMMA ExhaustedLayers ==
  ASSUME LayerInv, Exhausted
  PROVE  Layers!GiveUp
<1>1. /\ status = "unwrapping" /\ iter = MAX_ITERATIONS /\ status' = "done"
      /\ result' = << >> /\ UNCHANGED <<keys, layer, iter>>
  BY DEF Exhausted, Finish
<1> QED
  BY <1>1, Zenon DEF Layers!GiveUp, Layers!Finish

(* A wrapper is none of the things that end the search.                    *)
LEMMA WrapperIsNotFinal ==
  ASSUME NEW bytes, HasTag(bytes),
         At(Tagged[bytes], 0) \in Ciphering \cup {GENERAL_BLOCK_TRANSFER}
  PROVE  /\ ~ IsFinal(bytes)
         /\ At(Tagged[bytes], 0) \in Ciphering =>
              At(Tagged[bytes], 0) # GENERAL_BLOCK_TRANSFER
  BY DEF IsFinal, Ciphering, GENERAL_BLOCK_TRANSFER, GENERAL_GLO_CIPHERING,
     GENERAL_DED_CIPHERING, Containers, ARRAY, STRUCTURE, DATA_NOTIFICATION

LEMMA CipherRefusedLayers ==
  ASSUME LayerInv, CannotDecipher \/ DecipherFails
  PROVE  Layers!Refuse
<1>1. /\ status = "unwrapping" /\ iter < MAX_ITERATIONS /\ status' = "done"
      /\ HasTag(buf) /\ At(window, 0) \in Ciphering
      /\ result' = << >> /\ UNCHANGED <<keys, layer, iter>>
  BY DEF CannotDecipher, DecipherFails, Meets, Finish
<1>2. ~ IsFinal(layer) /\ Fallible(layer)
  BY <1>1, TurnLayer, WrapperIsNotFinal DEF Fallible
<1> QED
  BY <1>1, <1>2, Zenon DEF Layers!Refuse, Layers!Finish

LEMMA DecipherLayers ==
  ASSUME LayerInv, Decipher
  PROVE  Layers!Open
<1> DEFINE w == Tagged[layer]
<1>1. /\ status = "unwrapping" /\ iter < MAX_ITERATIONS
      /\ HasTag(buf) /\ At(window, 0) \in Ciphering /\ decryption_key # NoKey
      /\ CipherHeaderOk(window) /\ Accepted(window, decryption_key, auth_key)
      /\ layer' = Deciphered(window, decryption_key) /\ iter' = iter + 1
      /\ status' = "unwrapping" /\ UNCHANGED <<keys, result>>
  BY DEF Decipher, Meets, Descend
<1>2. ~ IsFinal(layer) /\ At(w, 0) # GENERAL_BLOCK_TRANSFER
  BY <1>1, TurnLayer, WrapperIsNotFinal
<1>3. window = w
  BY <1>1, TurnLayer
<1>4. keys[1] = decryption_key /\ keys[2] = auth_key
  BY DEF keys
<1>5. layer' \in Inside(layer, keys)
  BY <1>1, <1>2, <1>3, <1>4, Zenon DEF Inside
<1> QED
  BY <1>1, <1>2, <1>5, Zenon DEF Layers!Open

-----------------------------------------------------------------------------
(* The end of the loop over blocks is decided by what the transfer holds.  *)
LEMMA BlocksLayer ==
  ASSUME LayerInv, status = "blocks"
  PROVE  /\ ~ IsFinal(layer)
         /\ Inside(layer, keys) = Joined(Tagged[layer])
         /\ Subspan(buf, 0, write_pos) \in Seq(Byte)
         /\ Len(Subspan(buf, 0, write_pos)) = write_pos
         /\ iter < MAX_ITERATIONS
<1>1. HasTag(layer) /\ At(Tagged[layer], 0) = GENERAL_BLOCK_TRANSFER
  BY DEF LayerInv, Inv, InPlaceSafe
<1>2. ~ IsFinal(layer)
  BY <1>1, WrapperIsNotFinal
<1>3. Inside(layer, keys) = Joined(Tagged[layer])
  BY <1>1, Zenon DEF Inside
<1>4. buf \in Seq(Byte) /\ write_pos \in Nat /\ write_pos <= Len(buf)
  BY DEF LayerInv, Inv, TypeOK
<1>5. iter < MAX_ITERATIONS
  BY DEF LayerInv, Inv, TurnSafe
<1> QED
  BY <1>2, <1>3, <1>4, <1>5 DEF Subspan

(* When no block is left the transfer holds what has been put together.    *)
LEMMA AllBlocksTaken ==
  ASSUME LayerInv, status = "blocks", ~ MoreBlocks
  PROVE  Rest(Tagged[layer])[0] = {Subspan(buf, 0, write_pos)}
<1> DEFINE w == Tagged[layer]
           front == Subspan(buf, 0, write_pos)
<1>1. /\ buf \in Seq(Byte) /\ layer \in Seq(Byte)
      /\ read_pos \in Nat /\ read_pos <= Len(buf)
      /\ HasTag(layer) /\ Len(buf) = Len(w)
      /\ From(buf, read_pos) = From(w, read_pos)
  BY DEF LayerInv, Inv, TypeOK, InPlaceSafe
<1>2. w \in Seq(Byte)
  BY <1>1, WindowType
<1> HIDE DEF w
<1>3. ~ is_last => Rest(w)[read_pos] = {<< >>}
  <2> SUFFICES ASSUME ~ is_last PROVE Rest(w)[read_pos] = {<< >>}
    OBVIOUS
  <2>1. ~ AtBlock(w, read_pos)
    BY <1>1, <1>2, SameBlock DEF MoreBlocks
  <2>2. read_pos \in 0 .. Len(w)
    BY <1>1
  <2>3. Rest(w)[read_pos] = RestFrom(Rest(w), w, read_pos)
    BY <1>2, <2>2, RestUnfold
  <2> QED
    BY <2>1, <2>3, Zenon DEF RestFrom
<1>4. Rest(w)[0] = {front \o more : more \in {<< >>}}
  <2>1. (IF is_last THEN {<< >>} ELSE Rest(w)[read_pos]) = {<< >>}
    BY <1>3
  <2> QED
    BY <2>1, Zenon DEF LayerInv, BlocksSoFar, w
<1>5. front \in Seq(Byte)
  BY BlocksLayer
<1>6. front \o << >> = front
  <2> HIDE DEF front
  <2> QED
    BY <1>5, ConcatEmptySeq
<1>7. Rest(w)[0] = {front}
  BY <1>4, <1>6
<1> QED
  BY <1>7 DEF w

(* A transfer that is read to its end is opened, any other is refused.     *)
LEMMA ReassembledLayers ==
  ASSUME LayerInv, Reassembled
  PROVE  Layers!Open
<1>1. /\ status = "blocks" /\ ~ MoreBlocks /\ write_pos > 0
      /\ layer' = Subspan(buf, 0, write_pos) /\ iter' = iter + 1
      /\ status' = "unwrapping" /\ UNCHANGED <<keys, result>>
  BY DEF Reassembled, Descend
<1>2. layer' \in Joined(Tagged[layer])
  <2>1. Len(layer') # 0
    BY <1>1, BlocksLayer DEF LayerInv, Inv, TypeOK
  <2>2. layer' # << >>
    BY <2>1
  <2>3. Rest(Tagged[layer])[0] = {layer'}
    BY <1>1, AllBlocksTaken
  <2> QED
    BY <2>2, <2>3 DEF Joined
<1>3. layer' \in Inside(layer, keys) /\ ~ IsFinal(layer) /\ iter < MAX_ITERATIONS
  BY <1>1, <1>2, BlocksLayer
<1> QED
  BY <1>1, <1>3, Zenon DEF Layers!Open

LEMMA BlocksRefusedLayers ==
  ASSUME LayerInv, TruncatedBlock \/ NothingReassembled
  PROVE  Layers!Refuse
<1>1. /\ status = "blocks" /\ status' = "done" /\ result' = << >>
      /\ UNCHANGED <<keys, layer, iter>>
  BY DEF TruncatedBlock, NothingReassembled, Finish
<1>2. Joined(Tagged[layer]) = {}
  <2>1. CASE TruncatedBlock
    <3> DEFINE w == Tagged[layer]
    <3>1. /\ buf \in Seq(Byte) /\ layer \in Seq(Byte)
          /\ read_pos \in Nat /\ read_pos <= Len(buf)
          /\ HasTag(layer) /\ Len(buf) = Len(w)
          /\ From(buf, read_pos) = From(w, read_pos)
      BY <1>1 DEF LayerInv, Inv, TypeOK, InPlaceSafe
    <3>2. w \in Seq(Byte)
      BY <3>1, WindowType
    <3> HIDE DEF w
    <3>3. ~ is_last /\ AtBlock(w, read_pos) /\ ~ BlockFits(w, read_pos)
      BY <2>1, <3>1, <3>2, SameBlock DEF TruncatedBlock, MoreBlocks
    <3>4. read_pos \in 0 .. Len(w)
      BY <3>1
    <3>5. Rest(w)[read_pos] = RestFrom(Rest(w), w, read_pos)
      BY <3>2, <3>4, RestUnfold
    <3>6. Rest(w)[read_pos] = {}
      BY <3>3, <3>5, Zenon DEF RestFrom
    <3>7. Rest(w)[0] = {Subspan(buf, 0, write_pos) \o more : more \in Rest(w)[read_pos]}
      BY <1>1, <3>3, Zenon DEF LayerInv, BlocksSoFar, w
    <3>8. Rest(w)[0] = {}
      BY <3>6, <3>7
    <3> QED
      BY <3>8 DEF Joined, w
  <2>2. CASE NothingReassembled
    <3>1. write_pos = 0 /\ ~ MoreBlocks
      BY <2>2 DEF NothingReassembled
    <3>2. /\ Subspan(buf, 0, write_pos) \in Seq(Byte)
          /\ Len(Subspan(buf, 0, write_pos)) = 0
      BY <1>1, <3>1, BlocksLayer
    <3>3. Subspan(buf, 0, write_pos) = << >>
      BY <3>2, EmptySeq
    <3>4. Rest(Tagged[layer])[0] = {<< >>}
      BY <1>1, <3>1, <3>3, AllBlocksTaken
    <3> QED
      BY <3>4 DEF Joined
  <2> QED
    BY <2>1, <2>2
<1>3. Inside(layer, keys) = {} /\ ~ IsFinal(layer) /\ iter < MAX_ITERATIONS
  BY <1>1, <1>2, BlocksLayer
<1> QED
  BY <1>1, <1>3, Zenon DEF Layers!Refuse, Layers!Finish

(* Inside the loop over blocks nothing is opened.                          *)
LEMMA BlockStutters ==
  ASSUME LayerInv, StartBlocks \/ TakeBlock
  PROVE  UNCHANGED Layers!vars
<1>1. /\ status \in {"unwrapping", "blocks"} /\ status' = "blocks"
      /\ UNCHANGED <<keys, layer, iter, result>>
  BY DEF StartBlocks, TakeBlock, Meets
<1> QED
  BY <1>1 DEF Layers!vars

(* Every step of the handler opens one wrapper, ends the search, or leaves *)
(* the layers as they are.                                                 *)
LEMMA NextLayers ==
  ASSUME LayerInv, [Next]_vars
  PROVE  [Layers!Next]_(Layers!vars)
<1>1. CASE UNCHANGED vars
  BY <1>1 DEF vars, Layers!vars, keys
<1>2. ASSUME NEW a \in Seq(Byte),
             NEW key \in Keys \cup {NoKey}, NEW auth \in Keys \cup {NoKey},
             Call(a, key, auth)
      PROVE  Layers!Next
  BY <1>2, CallLayers DEF Layers!Next
<1>3. CASE NoTag \/ RawAxdr \/ Notification
  BY <1>3, DeliverLayers DEF Layers!Next, Layers!Unwrap
<1>4. CASE Exhausted
  BY <1>4, ExhaustedLayers DEF Layers!Next, Layers!Unwrap
<1>5. CASE CannotDecipher \/ DecipherFails
  BY <1>5, CipherRefusedLayers DEF Layers!Next, Layers!Unwrap
<1>6. CASE Decipher
  BY <1>6, DecipherLayers DEF Layers!Next, Layers!Unwrap
<1>7. CASE Reassembled
  BY <1>7, ReassembledLayers DEF Layers!Next, Layers!Unwrap
<1>8. CASE TruncatedBlock \/ NothingReassembled
  BY <1>8, BlocksRefusedLayers DEF Layers!Next, Layers!Unwrap
<1>9. CASE StartBlocks \/ TakeBlock
  BY <1>9, BlockStutters
<1> QED
  BY <1>1, <1>2, <1>3, <1>4, <1>5, <1>6, <1>7, <1>8, <1>9 DEF Next, Unwrap

(* The invariant holds at first.                                           *)
LEMMA InitLayerInv == Init => LayerInv
  BY InitInv DEF LayerInv, Init, BlocksSoFar

(* Whatever APDU it is given, the handler opens one wrapper after another  *)
(* as if each were opened into a buffer of its own, and gives back the     *)
(* data in the innermost one or nothing.                                   *)
THEOREM ImplementsLayers ==
  ASSUME PlainKeepsLength
  PROVE  Spec => RefinesLayers
<1>1. LayerInv /\ [Next]_vars => LayerInv'
  BY LayerNext
<1>2. LayerInv /\ [Next]_vars => [Layers!Next]_(Layers!vars)
  BY NextLayers
<1>3. Init => Layers!Init
  BY InitLayers
<1> QED
  BY InitLayerInv, <1>1, <1>2, <1>3, PTL DEF Spec, RefinesLayers, Layers!Spec

-----------------------------------------------------------------------------
(* The bytes s stand in b, behind the first p.                             *)
Stands(b, p, s) ==
  /\ b \in Seq(Byte) /\ s \in Seq(Byte) /\ p \in Nat /\ p + Len(s) <= Len(b)
  /\ \A i \in 1 .. Len(s) : b[p + i] = s[i]

(* They do at the beginning of themselves, and where they are one of the   *)
(* parts of what stands there.                                             *)
LEMMA StandsWhole ==
  ASSUME NEW s \in Seq(Byte)
  PROVE  Stands(s, 0, s)
BY DEF Stands

(* Where two parts stand one after the other, each of them stands.         *)
LEMMA StandsParts ==
  ASSUME NEW b, NEW p, NEW s \in Seq(Byte), NEW t \in Seq(Byte), Stands(b, p, s \o t)
  PROVE  /\ Stands(b, p, s) /\ Stands(b, p + Len(s), t)
         /\ p + Len(s) + Len(t) <= Len(b)
<1> DEFINE r == s \o t
<1>1. IsConcat(Byte, s, t, r)
  BY ConcatIs, Zenon
<1>2. Stands(b, p, r)
  OBVIOUS
<1> HIDE DEF r
<1>3. Len(s) \in Nat /\ Len(t) \in Nat
  OBVIOUS
<1>4. /\ b \in Seq(Byte) /\ p \in Nat /\ p + Len(r) <= Len(b)
      /\ \A i \in 1 .. Len(r) : b[p + i] = r[i]
  BY <1>2 DEF Stands
<1>5. /\ Len(r) = Len(s) + Len(t)
      /\ \A i \in 1 .. Len(s) : r[i] = s[i]
      /\ \A i \in 1 .. Len(t) : r[Len(s) + i] = t[i]
  BY <1>1 DEF IsConcat
<1>6. Stands(b, p, s)
  BY <1>3, <1>4, <1>5 DEF Stands
<1>7. Stands(b, p + Len(s), t)
  <2>1. ASSUME NEW i \in 1 .. Len(t) PROVE b[(p + Len(s)) + i] = t[i]
    <3>1. Len(s) + i \in 1 .. Len(r) /\ p + (Len(s) + i) = (p + Len(s)) + i
      BY <1>3, <1>4, <1>5
    <3> QED
      BY <1>4, <1>5, <3>1
  <2> QED
    BY <1>3, <1>4, <1>5, <2>1 DEF Stands
<1> QED
  BY <1>3, <1>4, <1>5, <1>6, <1>7

(* What stands there is what a span of that length holds.                  *)
LEMMA StandsSpan ==
  ASSUME NEW b, NEW p, NEW s, Stands(b, p, s), NEW n, n = Len(s)
  PROVE  Subspan(b, p, n) = s
<1>1. /\ b \in Seq(Byte) /\ s \in Seq(Byte) /\ p \in Nat /\ n \in Nat /\ p + n <= Len(b)
      /\ \A i \in 1 .. n : b[p + i] = s[i]
  BY DEF Stands
<1> DEFINE r == SubSeq(b, p + 1, p + n)
<1>2. r \in Seq(Byte) /\ Len(r) = n /\ \A i \in 1 .. n : r[i] = b[p + i]
  BY <1>1
<1> HIDE DEF r
<1>3. \A i \in 1 .. n : r[i] = s[i]
  BY <1>1, <1>2
<1>4. r = s
  BY <1>1, <1>2, <1>3, SeqEqual, Zenon
<1> QED
  BY <1>4 DEF r, Subspan

(* The bytes there, counted as the code counts them.                       *)
LEMMA StandsAt ==
  ASSUME NEW b, NEW p, NEW s, Stands(b, p, s), NEW i \in Nat, i < Len(s)
  PROVE  At(b, p + i) = s[i + 1] /\ p + i < Len(b)
<1>1. /\ s \in Seq(Byte) /\ p \in Nat /\ p + Len(s) <= Len(b) /\ Len(b) \in Nat
      /\ \A j \in 1 .. Len(s) : b[p + j] = s[j]
  BY DEF Stands
<1>2. i + 1 \in 1 .. Len(s) /\ (p + i) + 1 = p + (i + 1) /\ p + i < Len(b)
  BY <1>1
<1>3. b[p + (i + 1)] = s[i + 1]
  BY <1>1, <1>2
<1> QED
  BY <1>2, <1>3 DEF At

-----------------------------------------------------------------------------
(* A length in its shortest form is read as that length.                   *)
LEMMA BerType ==
  ASSUME NEW n \in Nat, HasBer(n)
  PROVE  /\ Ber(n) \in Seq(Byte)
         /\ Len(Ber(n)) = IF n < 128 THEN 1 ELSE IF n < 256 THEN 2 ELSE 3
<1> DEFINE S == Byte
<1>0. n < 65536
  BY DEF HasBer
<1>1. n < 256 => n \in S
  BY DEF Byte
<1>2. 129 \in S /\ 130 \in S /\ n \div 256 \in S /\ n % 256 \in S
  BY <1>0 DEF Byte
<1> HIDE DEF S
<1>3. Ber(n) \in Seq(S)
  BY <1>1, <1>2 DEF Ber
<1>4. Len(Ber(n)) = IF n < 128 THEN 1 ELSE IF n < 256 THEN 2 ELSE 3
  BY DEF Ber
<1> QED
  BY <1>3, <1>4 DEF S

ReadsLength(b, p, n) == BerLength(b, p) = n /\ BerEnd(b, p) = p + Len(Ber(n))

(* Wherever it stands, and whatever follows.                               *)
LEMMA BerRead ==
  ASSUME NEW b, NEW p, NEW n \in Nat, HasBer(n), Stands(b, p, Ber(n))
  PROVE  ReadsLength(b, p, n)
<1>1. /\ p \in Nat /\ p + Len(Ber(n)) <= Len(b) /\ b \in Seq(Byte) /\ Len(b) \in Nat
      /\ Len(Ber(n)) = IF n < 128 THEN 1 ELSE IF n < 256 THEN 2 ELSE 3
  BY BerType DEF Stands
<1>2. CASE n < 128
  <2>1. At(b, p + 0) = Ber(n)[0 + 1] /\ p + 0 < Len(b)
    BY <1>1, <1>2, StandsAt
  <2>2. At(b, p) = n
    BY <1>1, <1>2, <2>1 DEF Ber
  <2>3. LengthBytes(b, p) = 0
    BY <1>2, <2>2 DEF LengthBytes
  <2>4. BerEnd(b, p) = p + 1
    BY <1>1, <2>1, <2>3, <1>2 DEF BerEnd, BerFits
  <2>5. BerLength(b, p) = n
    BY <1>1, <1>2, <2>1, <2>2, <2>3 DEF BerLength
  <2> QED
    BY <1>1, <1>2, <2>4, <2>5 DEF ReadsLength
<1>3. CASE 128 <= n /\ n < 256
  <2>1. /\ At(b, p + 0) = Ber(n)[0 + 1] /\ p + 0 < Len(b)
        /\ At(b, p + 1) = Ber(n)[1 + 1] /\ p + 1 < Len(b)
    BY <1>1, <1>3, StandsAt
  <2>2. At(b, p) = 129 /\ At(b, p + 1) = n /\ p < Len(b)
    BY <1>1, <1>3, <2>1 DEF Ber
  <2>3. LengthBytes(b, p) = 1 /\ BerFits(b, p)
    BY <1>1, <2>1, <2>2 DEF LengthBytes, BerFits
  <2>4. BerEnd(b, p) = p + 2
    BY <1>1, <2>2, <2>3 DEF BerEnd
  <2>5. BerLength(b, p) = BigEndian(b, p + 1, 1)
    BY <2>2, <2>3 DEF BerLength
  <2>6. BigEndian(b, p + 1, 1) = n
    <3>1. /\ Digit(b, p + 1, 1, 0) = n /\ Digit(b, p + 1, 1, 1) = 0
          /\ Digit(b, p + 1, 1, 2) = 0 /\ Digit(b, p + 1, 1, 3) = 0
      BY <1>1, <2>2 DEF Digit
    <3> QED
      BY <3>1 DEF BigEndian
  <2> QED
    BY <1>1, <1>3, <2>4, <2>5, <2>6 DEF ReadsLength
<1>4. CASE 256 <= n
  <2>1. /\ At(b, p + 0) = Ber(n)[0 + 1] /\ p + 0 < Len(b)
        /\ At(b, p + 1) = Ber(n)[1 + 1] /\ p + 1 < Len(b)
        /\ At(b, p + 2) = Ber(n)[2 + 1] /\ p + 2 < Len(b)
    BY <1>1, <1>4, StandsAt
  <2>2. At(b, p) = 130 /\ At(b, p + 1) = n \div 256 /\ At(b, p + 2) = n % 256 /\ p < Len(b)
    BY <1>1, <1>4, <2>1 DEF Ber
  <2>3. LengthBytes(b, p) = 2 /\ BerFits(b, p)
    BY <1>1, <2>1, <2>2 DEF LengthBytes, BerFits
  <2>4. BerEnd(b, p) = p + 3
    BY <1>1, <2>2, <2>3 DEF BerEnd
  <2>5. BerLength(b, p) = BigEndian(b, p + 1, 2)
    BY <2>2, <2>3 DEF BerLength
  <2>6. BigEndian(b, p + 1, 2) = n
    <3>1. /\ Digit(b, p + 1, 2, 0) = n % 256 /\ Digit(b, p + 1, 2, 1) = n \div 256
          /\ Digit(b, p + 1, 2, 2) = 0 /\ Digit(b, p + 1, 2, 3) = 0
      <4>1. (p + 1) + 2 - 1 - 0 = p + 2 /\ (p + 1) + 2 - 1 - 1 = p + 1
        BY <1>1
      <4> QED
        BY <4>1, <2>2 DEF Digit
    <3>2. (n % 256) + (n \div 256) * 256 = n
      OBVIOUS
    <3> QED
      BY <3>1, <3>2 DEF BigEndian
  <2> QED
    BY <1>1, <1>4, <2>4, <2>5, <2>6 DEF ReadsLength
<1> QED
  BY <1>2, <1>3, <1>4

-----------------------------------------------------------------------------
(* A block at p with these data, that ends at end.                         *)
IsBlock(b, p, last, data, end) ==
  /\ AtBlock(b, p) /\ BlockFits(b, p) /\ BlockEnd(b, p) = end
  /\ IsLast(b, p) <=> last
  /\ Subspan(b, BlockData(b, p), BlockLen(b, p)) = data

BlockHeader(last, number) ==
  <<224, IF last THEN 192 ELSE 64, (number \div 256) % 256, number % 256, 0, 0>>

(* What the handler reads of a header: the tag, and whether it is the last *)
(* one.                                                                    *)
LEMMA BlockHeaderType ==
  ASSUME NEW last \in BOOLEAN, NEW number \in Nat
  PROVE  /\ BlockHeader(last, number) \in Seq(Byte) /\ Len(BlockHeader(last, number)) = 6
         /\ BlockHeader(last, number)[1] = 224
         /\ BlockHeader(last, number)[2] = IF last THEN 192 ELSE 64
<1> DEFINE S == Byte
<1>1. 224 \in S /\ 192 \in S /\ 64 \in S /\ 0 \in S
  BY DEF Byte
<1>2. (number \div 256) % 256 \in S /\ number % 256 \in S
  <2>1. number \div 256 \in Nat
    OBVIOUS
  <2> QED
    BY <2>1 DEF Byte
<1> HIDE DEF S
<1>3. BlockHeader(last, number) \in Seq(S)
  BY <1>1, <1>2 DEF BlockHeader
<1>4. /\ Len(BlockHeader(last, number)) = 6
      /\ BlockHeader(last, number)[1] = 224
      /\ BlockHeader(last, number)[2] = IF last THEN 192 ELSE 64
  BY DEF BlockHeader
<1> QED
  BY <1>3, <1>4 DEF S

HasHeader(last, number, data) ==
  Block(last, number, data) = (BlockHeader(last, number) \o Ber(Len(data))) \o data

(* A block is its header, the length of its data, and the data.            *)
LEMMA BlockType ==
  ASSUME NEW last \in BOOLEAN, NEW number \in Nat, NEW data \in Seq(Byte), HasBer(Len(data))
  PROVE  Block(last, number, data) \in Seq(Byte) /\ HasHeader(last, number, data)
<1>1. HasHeader(last, number, data)
  BY DEF HasHeader, Block, BlockHeader
<1> DEFINE h == BlockHeader(last, number)
           l == Ber(Len(data))
<1>2. h \in Seq(Byte) /\ l \in Seq(Byte)
  BY BlockHeaderType, BerType
<1> HIDE DEF h, l
<1>3. (h \o l) \o data \in Seq(Byte)
  BY <1>2
<1> QED
  BY <1>1, <1>3 DEF h, l, HasHeader

(* Wherever a block stands, the handler reads that block there.            *)
LEMMA BlockStands ==
  ASSUME NEW last \in BOOLEAN, NEW number \in Nat, NEW data \in Seq(Byte), HasBer(Len(data)),
         NEW b, NEW p, Stands(b, p, Block(last, number, data))
  PROVE  IsBlock(b, p, last, data, p + Len(Block(last, number, data)))
<1> DEFINE h == BlockHeader(last, number)
           n == Len(data)
           l == Ber(n)
           hl == h \o l
           all == hl \o data
<1>1. Stands(b, p, all) /\ Len(Block(last, number, data)) = Len(all)
  <2>1. HasHeader(last, number, data)
    BY BlockType
  <2>2. Block(last, number, data) = all
    BY <2>1, Zenon DEF HasHeader
  <2> QED
    BY <2>2, Zenon
<1>2. /\ h \in Seq(Byte) /\ Len(h) = 6 /\ h[1] = 224 /\ h[2] = IF last THEN 192 ELSE 64
      /\ l \in Seq(Byte) /\ n \in Nat /\ HasBer(n)
  BY BlockHeaderType, BerType
<1> HIDE DEF h, n, l
<1>3. hl \in Seq(Byte) /\ Len(hl) = 6 + Len(l) /\ Len(l) \in Nat
  <2>1. IsConcat(Byte, h, l, hl)
    BY <1>2, ConcatIs, Zenon
  <2> HIDE DEF hl
  <2> QED
    BY <1>2, <2>1 DEF IsConcat
<1>4. Len(all) = (6 + Len(l)) + n
  <2> HIDE DEF hl
  <2>1. Len(all) = Len(hl) + Len(data)
    BY <1>3, LongConcat
  <2> QED
    BY <2>1, <1>3 DEF n
<1> HIDE DEF all
<1>5. Stands(b, p, hl) /\ Stands(b, p + Len(hl), data)
  <2> HIDE DEF hl
  <2> QED
    BY <1>1, <1>3, StandsParts DEF all
<1>6. Stands(b, p, h) /\ Stands(b, p + Len(h), l)
  <2>1. h \in Seq(Byte) /\ l \in Seq(Byte) /\ Stands(b, p, h \o l)
    BY <1>2, <1>5
  <2> QED
    BY <2>1, StandsParts, Zenon
<1> HIDE DEF hl
<1>7. Stands(b, p + 6, l) /\ Stands(b, (p + 6) + Len(l), data)
  <2>1. p \in Nat /\ p + (6 + Len(l)) = (p + 6) + Len(l)
    BY <1>3, <1>6 DEF Stands
  <2> QED
    BY <1>2, <1>3, <1>5, <1>6, <2>1
<1>8. BerLength(b, p + 6) = n /\ BerEnd(b, p + 6) = (p + 6) + Len(l)
  <2>1. ReadsLength(b, p + 6, n)
    BY <1>2, <1>7, BerRead DEF l
  <2> QED
    BY <2>1 DEF ReadsLength, l
<1>9. /\ b \in Seq(Byte) /\ Len(b) \in Nat /\ p \in Nat /\ ((p + 6) + Len(l)) + n <= Len(b)
  BY <1>7, <1>2 DEF Stands, n
<1>10. BlockLen(b, p) = n /\ BlockData(b, p) = (p + 6) + Len(l)
  BY <1>8 DEF BlockLen, BlockData
<1>11. BlockFits(b, p) /\ BlockEnd(b, p) = p + Len(all)
  <2>1. BlockEnd(b, p) = ((p + 6) + Len(l)) + n
    BY <1>10, Zenon DEF BlockEnd
  <2>2. n \in Nat /\ Len(l) \in Nat
    BY <1>2, <1>3
  <2>3. p + 6 <= Len(b) /\ ((p + 6) + Len(l)) + n = p + Len(all)
    BY <1>4, <1>9, <2>2
  <2> QED
    BY <1>9, <2>1, <2>3, Zenon DEF BlockFits
<1>12. Subspan(b, BlockData(b, p), BlockLen(b, p)) = data
  BY <1>7, <1>10, StandsSpan DEF n
<1>13. At(b, p) = 224 /\ p < Len(b) /\ At(b, p + 1) = IF last THEN 192 ELSE 64
  <2>a. 0 < Len(h) /\ 1 < Len(h) /\ 0 \in Nat /\ 1 \in Nat
    BY <1>2
  <2>b. Stands(b, p, h)
    BY <1>6
  <2>1. At(b, p + 0) = h[0 + 1] /\ p + 0 < Len(b) /\ At(b, p + 1) = h[1 + 1]
    BY <2>a, <2>b, StandsAt, Zenon
  <2>2. At(b, p) = h[1] /\ At(b, p + 1) = h[2] /\ p < Len(b)
    BY <1>9, <2>1
  <2> QED
    BY <1>2, <2>2, Zenon
<1>14. AtBlock(b, p)
  BY <1>13 DEF AtBlock, GENERAL_BLOCK_TRANSFER
<1>15. IsLast(b, p) <=> last
  BY <1>13 DEF IsLast, Bit
<1> QED
  BY <1>1, <1>11, <1>12, <1>14, <1>15 DEF IsBlock

-----------------------------------------------------------------------------
(* Pieces that blocks can hold.                                            *)
ArePieces(P) == P \in Seq(Seq(Byte)) /\ \A i \in DOMAIN P : HasBer(Len(P[i]))

(* The blocks of the pieces, numbered from one; the last is marked.        *)
LEMMA BlocksType ==
  ASSUME NEW P, ArePieces(P)
  PROVE  /\ Blocks(P) \in Seq(Seq(Byte)) /\ Len(Blocks(P)) = Len(P)
         /\ \A i \in 1 .. Len(P) : Blocks(P)[i] = Block(i = Len(P), i, P[i])
<1> DEFINE W == Seq(Byte)
           n == Len(P)
<1>1. P \in Seq(W) /\ n \in Nat /\ DOMAIN P = 1 .. n
  BY DEF ArePieces
<1>2. ASSUME NEW i \in 1 .. n PROVE Block(i = n, i, P[i]) \in W
  <2>1. P[i] \in Seq(Byte) /\ HasBer(Len(P[i])) /\ i \in Nat
    BY <1>1, <1>2 DEF ArePieces
  <2> QED
    BY <2>1, BlockType, Zenon
<1> DEFINE f == [i \in 1 .. n |-> Block(i = n, i, P[i])]
<1>3. Blocks(P) = f
  BY <1>1 DEF Blocks
<1> HIDE DEF W
<1>4. f \in [1 .. n -> W]
  BY <1>2
<1>6. \A i \in 1 .. n : f[i] = Block(i = n, i, P[i])
  OBVIOUS
<1> HIDE DEF f, n
<1>5. f \in Seq(W) /\ Len(f) = n
  BY <1>1, <1>4
<1> QED
  BY <1>3, <1>5, <1>6 DEF W, n

(* Where blocks stand the first of them is one, and the others are behind. *)
Follows(w, p, P, j) == Stands(w, p, FlattenSeq(From(Blocks(P), j)))

LEMMA FirstBlock ==
  ASSUME NEW P, ArePieces(P), NEW j \in Nat, j < Len(P), NEW w, NEW p, Follows(w, p, P, j)
  PROVE  \E end \in 0 .. Len(w) :
           IsBlock(w, p, j + 1 = Len(P), P[j + 1], end) /\ Follows(w, end, P, j + 1)
<1> DEFINE W == Seq(Byte)
           B == Blocks(P)
           n == Len(P)
           g == B[j + 1]
           r == From(B, j + 1)
<1>1. /\ B \in Seq(W) /\ Len(B) = n /\ n \in Nat /\ j + 1 \in 1 .. n
      /\ g = Block(j + 1 = n, j + 1, P[j + 1])
      /\ P[j + 1] \in Seq(Byte) /\ HasBer(Len(P[j + 1]))
  BY BlocksType DEF ArePieces
<1> HIDE DEF W, B
<1>2. LeavesMore(B, j)
  <2>1. j \in 0 .. Len(B) /\ j + 1 \in 0 .. Len(B) /\ j # Len(B)
    BY <1>1
  <2>2. From(B, j) # << >>
    BY <1>1, <2>1, NothingLeft
  <2> QED
    BY <1>1, <2>1, <2>2, LeaveMore
<1>3. From(B, j) = <<g>> \o r
  BY <1>2 DEF LeavesMore
<1>4. g \in W /\ <<g>> \in Seq(W) /\ r \in Seq(W)
  <2>1. g \in W
    BY <1>1
  <2>2. <<g>> \in Seq(W)
    BY <2>1
  <2>3. r \in Seq(W)
    <3>1. j + 1 \in 0 .. Len(B)
      BY <1>1
    <3> QED
      BY <1>1, <3>1, FromIs
  <2> QED
    BY <2>1, <2>2, <2>3
<1> HIDE DEF r, g
<1>5. FlattenSeq(<<g>> \o r) = g \o FlattenSeq(r) /\ FlattenSeq(r) \in Seq(Byte)
  <2>1. FlattenSeq(<<g>> \o r) = FlattenSeq(<<g>>) \o FlattenSeq(r)
    BY <1>4, FlattenConcat, Zenon DEF W
  <2>2. FlattenSeq(<<g>>) = g
    BY <1>4, FlattenOne, Zenon DEF W
  <2>3. FlattenSeq(r) \in Seq(Byte)
    BY <1>4, FlattenType, Zenon DEF W
  <2> QED
    BY <2>1, <2>2, <2>3
<1>6. Stands(w, p, g \o FlattenSeq(r))
  BY <1>3, <1>5 DEF Follows, B
<1>7. /\ Stands(w, p, g) /\ Stands(w, p + Len(g), FlattenSeq(r))
      /\ p + Len(g) + Len(FlattenSeq(r)) <= Len(w)
  BY <1>4, <1>5, <1>6, StandsParts, Zenon DEF W
<1>8. IsBlock(w, p, j + 1 = n, P[j + 1], p + Len(g))
  <2>1. Stands(w, p, Block(j + 1 = n, j + 1, P[j + 1]))
    BY <1>1, <1>7
  <2>2. (j + 1 = n) \in BOOLEAN /\ j + 1 \in Nat
    OBVIOUS
  <2>3. IsBlock(w, p, j + 1 = n, P[j + 1], p + Len(Block(j + 1 = n, j + 1, P[j + 1])))
    BY <1>1, <2>1, <2>2, BlockStands, Zenon
  <2> QED
    BY <1>1, <2>3
<1>9. Follows(w, p + Len(g), P, j + 1)
  BY <1>7 DEF Follows, r, B
<1>10. p + Len(g) \in 0 .. Len(w)
  <2>1. p \in Nat /\ w \in Seq(Byte) /\ g \in Seq(Byte)
    BY <1>4, <1>7 DEF Stands, W
  <2>2. Len(g) \in Nat /\ Len(FlattenSeq(r)) \in Nat /\ Len(w) \in Nat
    BY <2>1, <1>5
  <2> QED
    BY <1>7, <2>1, <2>2
<1> QED
  BY <1>8, <1>9, <1>10

(* What is left of the bytes from q on holds just s.                       *)
Gives(w, q, s) == Rest(w)[q] = {s}

(* The last block ends it, and any other goes before what is behind it.    *)
LEMMA LastGives ==
  ASSUME NEW w \in Seq(Byte), NEW q \in 0 .. Len(w), NEW end, NEW data,
         IsBlock(w, q, TRUE, data, end)
  PROVE  Gives(w, q, data \o << >>)
<1>1. Rest(w)[q] = RestFrom(Rest(w), w, q)
  BY RestUnfold
<1>2. RestFrom(Rest(w), w, q) = {data \o more : more \in {<< >>}}
  BY DEF RestFrom, IsBlock
<1> QED
  BY <1>1, <1>2 DEF Gives

LEMMA EarlierGives ==
  ASSUME NEW w \in Seq(Byte), NEW q \in 0 .. Len(w), NEW end, NEW data,
         IsBlock(w, q, FALSE, data, end), NEW rest, Gives(w, end, rest)
  PROVE  Gives(w, q, data \o rest)
<1>1. Rest(w)[q] = RestFrom(Rest(w), w, q)
  BY RestUnfold
<1>2. RestFrom(Rest(w), w, q) = {data \o more : more \in {rest}}
  BY DEF RestFrom, IsBlock, Gives
<1> QED
  BY <1>1, <1>2 DEF Gives

(* What is left of the blocks holds what is left of the pieces.            *)
LEMMA BlocksRest ==
  ASSUME NEW P, ArePieces(P), P # << >>, NEW w \in Seq(Byte), NEW p \in 0 .. Len(w),
         Follows(w, p, P, 0)
  PROVE  Rest(w)[p] = {FlattenSeq(P)}
<1> DEFINE n == Len(P)
           W == Seq(Byte)
           left(j) == FlattenSeq(From(P, j))
           T == {k \in 0 .. n - 1 : \A q \in 0 .. Len(w) :
                   Follows(w, q, P, n - 1 - k) => Gives(w, q, left(n - 1 - k))}
<1>1. P \in Seq(W) /\ n \in Nat /\ 1 <= n
  BY DEF ArePieces
<1>2. ASSUME NEW j \in 0 .. n - 1
      PROVE  left(j) = P[j + 1] \o left(j + 1) /\ P[j + 1] \in W /\ left(j + 1) \in W
  <2> HIDE DEF W
  <2>1. j \in 0 .. Len(P) /\ j + 1 \in 0 .. Len(P) /\ j # Len(P)
    BY <1>1
  <2>2. From(P, j) # << >>
    BY <1>1, <2>1, NothingLeft
  <2>3. From(P, j) = <<P[j + 1]>> \o From(P, j + 1)
    BY <1>1, <2>1, <2>2, LeaveMore DEF LeavesMore
  <2>4. P[j + 1] \in W /\ <<P[j + 1]>> \in Seq(W) /\ From(P, j + 1) \in Seq(W)
    <3>1. P[j + 1] \in W
      BY <1>1, <2>1
    <3>2. <<P[j + 1]>> \in Seq(W)
      BY <3>1
    <3>3. From(P, j + 1) \in Seq(W)
      BY <1>1, <2>1, FromIs
    <3> QED
      BY <3>1, <3>2, <3>3
  <2>5. FlattenSeq(<<P[j + 1]>> \o From(P, j + 1))
          = FlattenSeq(<<P[j + 1]>>) \o FlattenSeq(From(P, j + 1))
    BY <2>4, FlattenConcat, Zenon DEF W
  <2>6. FlattenSeq(<<P[j + 1]>>) = P[j + 1] /\ FlattenSeq(From(P, j + 1)) \in W
    BY <2>4, FlattenOne, FlattenType, Zenon DEF W
  <2> QED
    BY <2>3, <2>4, <2>5, <2>6
<1> HIDE DEF left
<1>4. 0 \in T
  <2>1. SUFFICES ASSUME NEW q \in 0 .. Len(w), Follows(w, q, P, n - 1)
                 PROVE  Gives(w, q, left(n - 1))
    BY <1>1
  <2>2. n - 1 \in Nat /\ n - 1 < n /\ n - 1 \in 0 .. n - 1 /\ (n - 1) + 1 = n
    BY <1>1
  <2>3. PICK end \in 0 .. Len(w) :
          IsBlock(w, q, (n - 1) + 1 = n, P[(n - 1) + 1], end)
    BY <2>1, <2>2, FirstBlock
  <2>a. IsBlock(w, q, TRUE, P[(n - 1) + 1], end)
    BY <2>2, <2>3 DEF IsBlock
  <2>4. Gives(w, q, P[(n - 1) + 1] \o << >>)
    BY <2>1, <2>a, LastGives, Zenon
  <2>5. left((n - 1) + 1) = << >>
    <3>1. From(P, n) = << >>
      BY <1>1, NothingLeft
    <3> QED
      BY <3>1, <2>2, FlattenEmpty DEF left
  <2> QED
    BY <1>2, <2>2, <2>4, <2>5
<1>5. ASSUME NEW k \in 1 .. n - 1, k - 1 \in T PROVE k \in T
  <2>1. /\ n - 1 - k \in 0 .. n - 1 /\ n - 1 - (k - 1) = (n - 1 - k) + 1
        /\ (n - 1 - k) + 1 # n /\ n - 1 - k \in Nat /\ n - 1 - k < n
    BY <1>1, <1>5
  <2> DEFINE j == n - 1 - k
  <2>2. \A q \in 0 .. Len(w) : Follows(w, q, P, j + 1) => Gives(w, q, left(j + 1))
    BY <1>5, <2>1
  <2> HIDE DEF j
  <2>3. SUFFICES ASSUME NEW q \in 0 .. Len(w), Follows(w, q, P, j)
                 PROVE  Gives(w, q, left(j))
    BY <1>5 DEF j
  <2>4. j \in Nat /\ j < n /\ j \in 0 .. n - 1 /\ j + 1 # n
    BY <2>1 DEF j
  <2>5. PICK end \in 0 .. Len(w) :
          IsBlock(w, q, j + 1 = n, P[j + 1], end) /\ Follows(w, end, P, j + 1)
    BY <2>3, <2>4, FirstBlock
  <2>6. Gives(w, end, left(j + 1))
    BY <2>2, <2>5
  <2>a. IsBlock(w, q, FALSE, P[j + 1], end)
    BY <2>4, <2>5 DEF IsBlock
  <2>7. Gives(w, q, P[j + 1] \o left(j + 1))
    BY <2>3, <2>6, <2>a, EarlierGives, Zenon
  <2> QED
    BY <1>2, <2>4, <2>7
<1>6. n - 1 \in T
  <2> HIDE DEF T
  <2>1. 0 .. n - 1 \subseteq T
    <3>1. n - 1 \in Nat /\ 0 \in Nat /\ \A i \in 0 + 1 .. n - 1 : i - 1 \in T => i \in T
      BY <1>1, <1>5
    <3> QED
      BY <1>4, <3>1, IntervalInduction
  <2>2. n - 1 \in 0 .. n - 1
    BY <1>1
  <2> QED
    BY <2>1, <2>2
<1>7. Gives(w, p, left(0))
  <2>1. (n - 1) - (n - 1) = 0
    BY <1>1
  <2> QED
    BY <1>6, <2>1
<1>8. From(P, 0) = P
  BY <1>1 DEF From
<1> QED
  BY <1>7, <1>8 DEF left, Gives

-----------------------------------------------------------------------------
(* The parts of a ciphered APDU, with a tag of twelve bytes or none.       *)
CipherParts(c) ==
  /\ c.tag \in Ciphering /\ c.control \in Byte
  /\ c.title \in Seq(Byte) /\ Len(c.title) = 8
  /\ c.counter \in Seq(Byte) /\ Len(c.counter) = 4
  /\ c.sealed \in Seq(Byte) /\ c.gcm_tag \in Seq(Byte)
  /\ Len(c.gcm_tag) = IF Bit(c.control, 16) THEN 12 ELSE 0
  /\ HasBer(5 + Len(c.sealed) + Len(c.gcm_tag))

(* x stands at p of w and n bytes behind it, and then comes y.             *)
Chain(w, x, n, y) ==
  /\ x \in Seq(Byte) /\ Len(x) = n
  /\ Stands(w, 0, x) /\ Stands(w, n, y)

(* Concatenations are taken apart from behind.                             *)
LEMMA ChainLink ==
  ASSUME NEW w, NEW x \in Seq(Byte), NEW y \in Seq(Byte), Stands(w, 0, x \o y)
  PROVE  Chain(w, x, Len(x), y)
<1>1. Stands(w, 0, x) /\ Stands(w, 0 + Len(x), y)
  BY StandsParts, Zenon
<1>2. 0 + Len(x) = Len(x)
  OBVIOUS
<1> QED
  BY <1>1, <1>2 DEF Chain

(* Where the parts stand.                                                  *)
CipherLayout(w, c, l) ==
  /\ Stands(w, 0, <<c.tag, 8>>) /\ Stands(w, 2, c.title)
  /\ Stands(w, 10, l) /\ Stands(w, 10 + Len(l), <<c.control>>)
  /\ Stands(w, 11 + Len(l), c.counter) /\ Stands(w, 15 + Len(l), c.sealed)
  /\ Stands(w, 15 + Len(l) + Len(c.sealed), c.gcm_tag)

IsCipheredOf(w, c, l) ==
  w = (((((<<c.tag, 8>> \o c.title) \o l) \o <<c.control>>) \o c.counter) \o c.sealed) \o c.gcm_tag

(* In a ciphered APDU the parts stand one behind the other.                *)
LEMMA CipherStands ==
  ASSUME NEW c, CipherParts(c), NEW l \in Seq(Byte), NEW w, IsCipheredOf(w, c, l)
  PROVE  w \in Seq(Byte) /\ CipherLayout(w, c, l)
<1> DEFINE S == Byte
           c0 == <<c.tag, 8>>
           k == <<c.control>>
           c1 == c0 \o c.title
           c2 == c1 \o l
           c3 == c2 \o k
           c4 == c3 \o c.counter
           c5 == c4 \o c.sealed
           c6 == c5 \o c.gcm_tag
<1>1. c0 \in Seq(S) /\ Len(c0) = 2 /\ k \in Seq(S) /\ Len(k) = 1
  <2>1. c.tag \in S /\ 8 \in S /\ c.control \in S
    BY DEF CipherParts, Ciphering, GENERAL_GLO_CIPHERING, GENERAL_DED_CIPHERING, Byte
  <2> HIDE DEF S
  <2> QED
    BY <2>1
<1>2. /\ c.title \in Seq(S) /\ Len(c.title) = 8 /\ c.counter \in Seq(S) /\ Len(c.counter) = 4
      /\ c.sealed \in Seq(S) /\ c.gcm_tag \in Seq(S) /\ l \in Seq(S)
  BY DEF CipherParts
<1> HIDE DEF S, c0, k
<1>3. IsConcat(S, c0, c.title, c1)
  BY <1>1, <1>2, ConcatIs, Zenon
<1> HIDE DEF c1
<1>4. c1 \in Seq(S) /\ Len(c1) = 10
  BY <1>1, <1>2, <1>3 DEF IsConcat
<1>5. IsConcat(S, c1, l, c2)
  BY <1>2, <1>4, ConcatIs, Zenon
<1> HIDE DEF c2
<1>6. c2 \in Seq(S) /\ Len(c2) = 10 + Len(l)
  BY <1>2, <1>4, <1>5 DEF IsConcat
<1>7. IsConcat(S, c2, k, c3)
  BY <1>1, <1>6, ConcatIs, Zenon
<1> HIDE DEF c3
<1>8. c3 \in Seq(S) /\ Len(c3) = 11 + Len(l)
  <2>1. Len(c3) = Len(c2) + Len(k) /\ Len(l) \in Nat
    BY <1>2, <1>7 DEF IsConcat
  <2> QED
    BY <1>1, <1>6, <1>7, <2>1 DEF IsConcat
<1>9. IsConcat(S, c3, c.counter, c4)
  BY <1>2, <1>8, ConcatIs, Zenon
<1> HIDE DEF c4
<1>10. c4 \in Seq(S) /\ Len(c4) = 15 + Len(l)
  <2>1. Len(c4) = Len(c3) + Len(c.counter) /\ Len(l) \in Nat
    BY <1>2, <1>9 DEF IsConcat
  <2> QED
    BY <1>2, <1>8, <1>9, <2>1 DEF IsConcat
<1>11. IsConcat(S, c4, c.sealed, c5)
  BY <1>2, <1>10, ConcatIs, Zenon
<1> HIDE DEF c5
<1>12. c5 \in Seq(S) /\ Len(c5) = 15 + Len(l) + Len(c.sealed)
  <2>1. Len(c5) = Len(c4) + Len(c.sealed) /\ c5 \in Seq(S)
    BY <1>11 DEF IsConcat
  <2> QED
    BY <1>10, <2>1
<1>13. IsConcat(S, c5, c.gcm_tag, c6)
  BY <1>2, <1>12, ConcatIs, Zenon
<1> HIDE DEF c6
<1>14. c6 \in Seq(S)
  BY <1>13 DEF IsConcat
<1>15. w = c6
  BY DEF IsCipheredOf, c0, k, c1, c2, c3, c4, c5, c6
<1>16. Stands(w, 0, c6)
  BY <1>14, <1>15, StandsWhole DEF S
<1>17. Chain(w, c5, Len(c5), c.gcm_tag)
  BY <1>2, <1>12, <1>16, ChainLink, Zenon DEF c6, S
<1>18. Chain(w, c4, Len(c4), c.sealed)
  BY <1>2, <1>10, <1>17, ChainLink, Zenon DEF c5, S, Chain
<1>19. Chain(w, c3, Len(c3), c.counter)
  BY <1>2, <1>8, <1>18, ChainLink, Zenon DEF c4, S, Chain
<1>20. Chain(w, c2, Len(c2), k)
  BY <1>1, <1>6, <1>19, ChainLink, Zenon DEF c3, S, Chain
<1>21. Chain(w, c1, Len(c1), l)
  BY <1>2, <1>4, <1>20, ChainLink, Zenon DEF c2, S, Chain
<1>22. Chain(w, c0, Len(c0), c.title)
  BY <1>1, <1>2, <1>21, ChainLink, Zenon DEF c1, S, Chain
<1>23. /\ Stands(w, 0, c0) /\ Stands(w, 2, c.title) /\ Stands(w, 10, l)
       /\ Stands(w, 10 + Len(l), k) /\ Stands(w, 11 + Len(l), c.counter)
       /\ Stands(w, 15 + Len(l), c.sealed)
       /\ Stands(w, 15 + Len(l) + Len(c.sealed), c.gcm_tag)
  BY <1>1, <1>4, <1>6, <1>8, <1>10, <1>12, <1>17, <1>18, <1>19, <1>20, <1>21, <1>22, Zenon
     DEF Chain
<1> QED
  BY <1>14, <1>15, <1>23, Zenon DEF CipherLayout, S, c0, k

-----------------------------------------------------------------------------
(* What the handler reads of a ciphered APDU.                              *)
CipherRead(w, c) ==
  /\ w \in Seq(Byte) /\ w # << >> /\ At(w, 0) = c.tag
  /\ CipherHeaderOk(w)
  /\ Nonce(w) = c.title \o c.counter /\ Cipher(w) = c.sealed
  /\ At(w, SecurityPos(w)) = c.control
  /\ HasAuthTag(w) <=> Bit(c.control, 16)
  /\ GcmTag(w) = c.gcm_tag

(* The fields of its header are found, whatever form its length takes, and *)
(* with them the nonce, the bytes to be deciphered and the tag.            *)
LEMMA CipheredIsRead ==
  ASSUME NEW c, CipherParts(c), NEW w, w = CipheredApdu(c)
  PROVE  CipherRead(w, c)
<1> DEFINE n == 5 + Len(c.sealed) + Len(c.gcm_tag)
           l == Ber(n)
           s == Len(c.sealed)
           g == Len(c.gcm_tag)
<1>1. /\ c.sealed \in Seq(Byte) /\ c.gcm_tag \in Seq(Byte) /\ HasBer(n)
      /\ g = (IF Bit(c.control, 16) THEN 12 ELSE 0)
  BY Zenon DEF CipherParts
<1>a. s \in Nat /\ g \in Nat /\ n = 5 + s + g
  BY <1>1
<1> HIDE DEF s, g, n
<1>b. n \in Nat
  BY <1>a
<1>2. l \in Seq(Byte)
  BY <1>1, <1>b, BerType
<1>c. Len(l) \in Nat
  BY <1>2
<1>3. IsCipheredOf(w, c, l)
  BY Zenon DEF CipheredApdu, IsCipheredOf, n
<1> HIDE DEF l
<1>4. w \in Seq(Byte) /\ CipherLayout(w, c, l)
  BY <1>2, <1>3, CipherStands
<1>5. /\ Stands(w, 0, <<c.tag, 8>>) /\ Stands(w, 2, c.title)
      /\ Stands(w, 10, l) /\ Stands(w, 10 + Len(l), <<c.control>>)
      /\ Stands(w, 11 + Len(l), c.counter) /\ Stands(w, 15 + Len(l), c.sealed)
      /\ Stands(w, 15 + Len(l) + s, c.gcm_tag)
  BY <1>4, Zenon DEF CipherLayout, s
<1>6. BerLength(w, 10) = n /\ BerEnd(w, 10) = 10 + Len(l)
  <2>1. ReadsLength(w, 10, n)
    BY <1>1, <1>b, <1>5, BerRead, Zenon DEF l
  <2> QED
    BY <2>1 DEF ReadsLength, l
<1>7. /\ CipherLen(w) = n /\ SecurityPos(w) = 10 + Len(l) /\ CipherPos(w) = 15 + Len(l)
  BY <1>c, <1>6 DEF CipherLen, SecurityPos, CipherPos, SYSTITLE_LENGTH, LENGTH_CORRECTION
<1>8. At(w, 0) = c.tag /\ At(w, 1) = 8 /\ w # << >>
  <2> DEFINE c0 == <<c.tag, 8>>
  <2>1. Len(c0) = 2 /\ c0[1] = c.tag /\ c0[2] = 8
    OBVIOUS
  <2>2. Stands(w, 0, c0)
    BY <1>5
  <2> HIDE DEF c0
  <2>3. 0 < Len(c0) /\ 1 < Len(c0)
    BY <2>1
  <2>4. /\ At(w, 0 + 0) = c0[0 + 1] /\ 0 + 0 < Len(w)
        /\ At(w, 0 + 1) = c0[1 + 1]
    BY <2>2, <2>3, StandsAt
  <2>5. 0 < Len(w) /\ w \in Seq(Byte)
    BY <1>4, <2>4
  <2> QED
    BY <2>1, <2>4, <2>5
<1>9. At(w, SecurityPos(w)) = c.control
  <2> DEFINE k == <<c.control>>
  <2>1. Len(k) = 1 /\ k[1] = c.control
    OBVIOUS
  <2>2. Stands(w, 10 + Len(l), k)
    BY <1>5
  <2> HIDE DEF k
  <2>3. At(w, (10 + Len(l)) + 0) = k[0 + 1]
    BY <2>1, <2>2, StandsAt
  <2> QED
    BY <1>c, <1>7, <2>1, <2>3
<1>10. HasAuthTag(w) <=> Bit(c.control, 16)
  BY <1>9 DEF HasAuthTag
<1>11. TagLen(w) = g
  BY <1>1, <1>10, Zenon DEF TagLen, GCM_TAG_LENGTH
<1>12. PayloadLen(w) = s
  BY <1>a, <1>7, <1>11 DEF PayloadLen, LENGTH_CORRECTION
<1>13. Len(w) \in Nat /\ 15 + Len(l) + s + g <= Len(w)
  <2>1. w \in Seq(Byte) /\ 15 + Len(l) + s + g <= Len(w)
    BY <1>5 DEF Stands, g
  <2> QED
    BY <2>1
<1>d. n # 0 /\ 15 + Len(l) <= Len(w) /\ Len(w) >= 2 + 8
  BY <1>a, <1>c, <1>13
<1>14. CipherHeaderOk(w)
  BY <1>a, <1>7, <1>8, <1>11, <1>12, <1>13, <1>d DEF CipherHeaderOk, SYSTITLE_LENGTH
<1>15. Cipher(w) = c.sealed
  BY <1>5, <1>7, <1>12, StandsSpan DEF Cipher, s
<1>16. GcmTag(w) = c.gcm_tag
  BY <1>5, <1>7, <1>11, <1>12, StandsSpan DEF GcmTag, g
<1>17. Nonce(w) = c.title \o c.counter
  <2>1. 8 = Len(c.title) /\ 4 = Len(c.counter)
    BY Zenon DEF CipherParts
  <2>2. Subspan(w, 2, Len(c.title)) = c.title
    BY <1>5, StandsSpan
  <2>3. Subspan(w, 11 + Len(l), Len(c.counter)) = c.counter
    BY <1>5, StandsSpan
  <2>4. SecurityPos(w) + 1 = 11 + Len(l)
    BY <1>c, <1>7
  <2> QED
    BY <2>1, <2>2, <2>3, <2>4, Zenon DEF Nonce, SYSTITLE_LENGTH
<1> QED
  BY <1>4, <1>8, <1>9, <1>10, <1>14, <1>15, <1>16, <1>17 DEF CipherRead

-----------------------------------------------------------------------------
(* A notification is taken for the data in it, whatever its date-time.     *)
IsNotification(w, t, d) == w = (<<15, 0, 0, 3, 232>> \o t) \o d

LEMMA NotificationRead ==
  ASSUME NEW t \in Seq(Byte), IsDateTime(t), NEW d \in Seq(Byte), d # << >>,
         NEW w, w = DataNotification(t, d)
  PROVE  /\ w \in Seq(Byte) /\ w # << >> /\ At(w, 0) = DATA_NOTIFICATION
         /\ Notified(w) = d
<1> DEFINE S == Byte
           h == <<15, 0, 0, 3, 232>>
           ht == h \o t
           all == ht \o d
<1>1. h \in Seq(S) /\ Len(h) = 5 /\ h[1] = 15
  <2>1. 15 \in S /\ 0 \in S /\ 3 \in S /\ 232 \in S
    BY DEF Byte
  <2> HIDE DEF S
  <2> QED
    BY <2>1
<1>2. w = all
  BY Zenon DEF DataNotification
<1> HIDE DEF h
<1>3. t \in Seq(S) /\ d \in Seq(S) /\ Len(t) \in Nat /\ Len(d) \in Nat /\ t # << >>
  BY DEF IsDateTime
<1> HIDE DEF S
<1>a. 1 <= Len(t) /\ 1 <= Len(d)
  BY <1>3
<1>4. IsConcat(S, h, t, ht)
  BY <1>1, <1>3, ConcatIs, Zenon
<1> HIDE DEF ht
<1>5. ht \in Seq(S) /\ Len(ht) = 5 + Len(t)
  BY <1>1, <1>3, <1>4 DEF IsConcat
<1>6. IsConcat(S, ht, d, all)
  BY <1>3, <1>5, ConcatIs, Zenon
<1>b. From(all, Len(ht)) = d
  BY <1>3, <1>5, LastPart, Zenon
<1> HIDE DEF all
<1>7. all \in Seq(S) /\ Len(all) = (5 + Len(t)) + Len(d)
  BY <1>3, <1>5, <1>6 DEF IsConcat
<1>8. Stands(w, 0, ht)
  <2>1. Stands(w, 0, all)
    BY <1>2, <1>7, StandsWhole DEF S
  <2> QED
    BY <1>3, <1>5, <2>1, StandsParts, Zenon DEF all, S
<1>9. Stands(w, 0, h) /\ Stands(w, 5, t)
  <2>1. Chain(w, h, Len(h), t)
    BY <1>1, <1>3, <1>8, ChainLink, Zenon DEF ht, S
  <2> QED
    BY <1>1, <2>1 DEF Chain
<1>10. At(w, 0) = 15
  <2>1. At(w, 0 + 0) = h[0 + 1]
    BY <1>1, <1>9, StandsAt
  <2> QED
    BY <1>1, <2>1
<1>11. At(w, 5) = t[1] /\ t[1] \in S
  <2>1. At(w, 5 + 0) = t[0 + 1]
    BY <1>3, <1>a, <1>9, StandsAt
  <2> QED
    BY <1>3, <1>a, <2>1
<1>12. t[1] = 9 => At(w, 6) = t[2] /\ 2 <= Len(t) /\ Len(t) = 2 + t[2] /\ t[2] \in S
  <2>1. SUFFICES ASSUME t[1] = 9
                 PROVE  At(w, 6) = t[2] /\ 2 <= Len(t) /\ Len(t) = 2 + t[2] /\ t[2] \in S
    OBVIOUS
  <2>2. 2 <= Len(t) /\ Len(t) = 2 + t[2]
    BY <1>3, <2>1 DEF IsDateTime
  <2>3. At(w, 5 + 1) = t[1 + 1]
    BY <1>3, <2>2, <1>9, StandsAt
  <2> QED
    BY <1>3, <2>2, <2>3
<1>13. t[1] # 9 => Len(t) = 1 + t[1]
  BY <1>3 DEF IsDateTime
<1>14. t[1] \in Nat /\ (t[1] = 9 => t[2] \in Nat)
  <2>1. \A x \in S : x \in Nat
    BY DEF S, Byte
  <2> QED
    BY <1>11, <1>12, <2>1
<1>15. HeaderEnd(w) = 5 + Len(t)
  BY <1>3, <1>11, <1>12, <1>13, <1>14 DEF HeaderEnd, OCTET_STRING
<1>16. Len(w) > 5 /\ (At(w, 5) = 9 => Len(w) > 6) /\ HeaderEnd(w) < Len(w)
  BY <1>2, <1>3, <1>a, <1>7, <1>11, <1>12, <1>15
<1>17. Notified(w) = d
  BY <1>2, <1>5, <1>b, <1>15, <1>16, Zenon DEF Notified, OCTET_STRING
<1>18. w \in Seq(Byte) /\ w # << >>
  BY <1>2, <1>7, <1>16 DEF S
<1> QED
  BY <1>10, <1>17, <1>18 DEF DATA_NOTIFICATION

-----------------------------------------------------------------------------
(* What is looked at starts where known tags start.                        *)
LEMMA TaggedBehind ==
  ASSUME NEW lead \in Seq(Byte), \A i \in DOMAIN lead : lead[i] \notin KnownTags,
         NEW w \in Seq(Byte), w # << >>, At(w, 0) \in KnownTags
  PROVE  /\ lead \o w \in Seq(Byte) /\ HasTag(lead \o w)
         /\ Tagged[lead \o w] = w
<1> DEFINE b == lead \o w
           n == Len(lead)
<1>1. IsConcat(Byte, lead, w, b)
  BY ConcatIs, Zenon
<1>2. From(b, n) = w
  BY LastPart, Zenon
<1>3. n \in Nat /\ Len(w) \in Nat /\ 1 <= Len(w) /\ DOMAIN lead = 1 .. n
  OBVIOUS
<1> HIDE DEF b
<1>4. /\ b \in Seq(Byte) /\ Len(b) = n + Len(w)
      /\ \A i \in 1 .. n : b[i] = lead[i]
      /\ \A i \in 1 .. Len(w) : b[n + i] = w[i]
  BY <1>1 DEF IsConcat
<1> HIDE DEF n
<1>5. b[n + 1] = At(w, 0) /\ n + 1 \in 1 .. Len(b)
  <2>a. 1 \in 1 .. Len(w)
    BY <1>3
  <2>1. b[n + 1] = w[1]
    BY <1>4, <2>a
  <2>2. n + 1 \in 1 .. Len(b)
    BY <1>3, <1>4
  <2> QED
    BY <2>1, <2>2 DEF At
<1>6. HasTag(b)
  BY <1>5 DEF HasTag
<1>7. \A j \in 0 .. n - 1 : At(b, j) \notin KnownTags
  <2>1. ASSUME NEW j \in 0 .. n - 1 PROVE At(b, j) \notin KnownTags
    <3>1. j + 1 \in 1 .. n
      BY <1>3
    <3>2. b[j + 1] = lead[j + 1] /\ lead[j + 1] \notin KnownTags
      BY <1>3, <1>4, <3>1
    <3> QED
      BY <3>2 DEF At
  <2> QED
    BY <2>1
<1>8. At(b, n) \in KnownTags /\ n \in 0 .. Len(b) - 1
  BY <1>3, <1>4, <1>5 DEF At
<1>9. FirstTag(b) = n
  <2> DEFINE f == FirstTag(b)
             First(i) == At(b, i) \in KnownTags /\ \A j \in 0 .. i - 1 : At(b, j) \notin KnownTags
  <2>1. First(n)
    BY <1>7, <1>8
  <2>2. f = CHOOSE i \in 0 .. Len(b) - 1 : First(i)
    BY Zenon DEF FirstTag
  <2>3. f \in 0 .. Len(b) - 1 /\ First(f)
    <3> HIDE DEF First
    <3> QED
      BY <1>8, <2>1, <2>2, Zenon
  <2> HIDE DEF f
  <2>4. ~ n < f
    BY <1>3, <1>4, <1>8, <2>3
  <2>5. ~ f < n
    BY <1>3, <1>7, <2>3
  <2>6. f = n
    BY <1>3, <1>4, <2>3, <2>4, <2>5
  <2> QED
    BY <2>6 DEF f
<1>10. Tagged[b] = w
  BY <1>2, <1>4, <1>6, <1>9, WindowType, Zenon DEF n
<1> QED
  BY <1>4, <1>6, <1>10 DEF b

-----------------------------------------------------------------------------
(* A transfer is read as the pieces in its blocks, put together.           *)
LEMMA TransferRead ==
  ASSUME NEW P, ArePieces(P), P # << >>, NEW w, w = Transfer(P)
  PROVE  /\ w \in Seq(Byte) /\ w # << >> /\ At(w, 0) = GENERAL_BLOCK_TRANSFER
         /\ Rest(w)[0] = {FlattenSeq(P)}
<1> DEFINE B == Blocks(P)
<1>1. B \in Seq(Seq(Byte)) /\ w = FlattenSeq(B)
  BY BlocksType DEF Transfer
<1>2. P \in Seq(Seq(Byte)) /\ 0 < Len(P)
  BY DEF ArePieces
<1>3. From(B, 0) = B
  BY <1>1 DEF From
<1> HIDE DEF B
<1>4. w \in Seq(Byte)
  BY <1>1, FlattenType, Zenon
<1>5. Stands(w, 0, FlattenSeq(From(B, 0)))
  BY <1>1, <1>3, <1>4, StandsWhole
<1>6. Follows(w, 0, P, 0)
  BY <1>5 DEF Follows, B
<1>7. PICK end \in 0 .. Len(w) : IsBlock(w, 0, 0 + 1 = Len(P), P[0 + 1], end)
  <2>1. 0 \in Nat
    OBVIOUS
  <2> QED
    BY <1>2, <1>6, <2>1, FirstBlock
<1>8. AtBlock(w, 0)
  BY <1>7, Zenon DEF IsBlock
<1>9. w # << >> /\ At(w, 0) = GENERAL_BLOCK_TRANSFER
  BY <1>8 DEF AtBlock
<1>10. Rest(w)[0] = {FlattenSeq(P)}
  <2>1. 0 \in 0 .. Len(w)
    BY <1>4
  <2> QED
    BY <1>4, <1>6, <2>1, BlocksRest, Zenon
<1> QED
  BY <1>4, <1>9, <1>10

-----------------------------------------------------------------------------
(* The wrappers of a message are counted from one, and are of two forms.   *)
Wraps(m, i) ==
  \/ m.wrappers[i].form = "blocks" /\ BlocksHold(m.wrappers[i], Layer(m, i + 1))
  \/ m.wrappers[i].form = "ciphered" /\ CipherHolds(m.wrappers[i], Layer(m, i + 1), m)

(* What is assumed of messages, part by part.                              *)
LEMMA MessageParts ==
  ASSUME NEW m \in Messages
  PROVE  /\ Len(m.wrappers) \in Nat /\ DOMAIN m.wrappers = 1 .. Len(m.wrappers)
         /\ Len(m.wrappers) < MAX_ITERATIONS
         /\ \A i \in 1 .. Len(m.wrappers) : Wraps(m, i)
         /\ m.lead \in Seq(Byte) /\ \A i \in DOMAIN m.lead : m.lead[i] \notin KnownTags
         /\ m.data \in Seq(Byte) /\ m.data # << >> /\ m.datetime \in Seq(Byte)
         /\ m.datetime = << >> => Head(m.data) \in Containers
         /\ m.datetime # << >> => IsDateTime(m.datetime)
         /\ NoKey \notin m.keys => \E i \in 1 .. Len(m.wrappers) : m.wrappers[i].form = "ciphered"
<1>1. m.wrappers \in Seq(Range(m.wrappers))
  BY PushAssumption, Zenon DEF IsMessage
<1>2. Len(m.wrappers) \in Nat /\ DOMAIN m.wrappers = 1 .. Len(m.wrappers)
  BY <1>1
<1>3. \A i \in DOMAIN m.wrappers : Wraps(m, i)
  BY PushAssumption, Zenon DEF Wraps, IsMessage
<1>4. NoKey \notin m.keys => \E i \in DOMAIN m.wrappers : m.wrappers[i].form = "ciphered"
  BY PushAssumption, Zenon DEF IsMessage
<1>5. /\ m.lead \in Seq(Byte) /\ \A i \in DOMAIN m.lead : m.lead[i] \notin KnownTags
      /\ m.data \in Seq(Byte) /\ m.data # << >> /\ m.datetime \in Seq(Byte)
      /\ m.datetime = << >> => Head(m.data) \in Containers
      /\ m.datetime # << >> => IsDateTime(m.datetime)
      /\ Len(m.wrappers) < MAX_ITERATIONS
  BY PushAssumption, Zenon DEF IsMessage
<1> QED
  BY <1>2, <1>3, <1>4, <1>5, Zenon

(* A layer of a message: the handler sees it where it stands.              *)
Visible(w) == w \in Seq(Byte) /\ w # << >> /\ At(w, 0) \in KnownTags

(* What is in all the wrappers starts with a known tag, and gives the      *)
(* data.                                                                   *)
LEMMA InnermostRead ==
  ASSUME NEW m \in Messages, NEW w, w = Innermost(m)
  PROVE  /\ Visible(w)
         /\ At(w, 0) \in Containers => w = m.data
         /\ At(w, 0) \notin Containers => At(w, 0) = DATA_NOTIFICATION /\ Notified(w) = m.data
<1>1. CASE m.datetime = << >>
  <2>1. w = m.data
    BY <1>1 DEF Innermost
  <2>2. w \in Seq(Byte) /\ w # << >> /\ Head(w) \in Containers
    BY <1>1, <2>1, MessageParts
  <2>3. At(w, 0) \in Containers
    BY <2>2 DEF At
  <2>4. Visible(w)
    BY <2>2, <2>3 DEF Visible, KnownTags
  <2> QED
    BY <2>1, <2>3, <2>4
<1>2. CASE m.datetime # << >>
  <2>1. w = DataNotification(m.datetime, m.data)
    BY <1>2 DEF Innermost
  <2>2. /\ m.datetime \in Seq(Byte) /\ IsDateTime(m.datetime)
        /\ m.data \in Seq(Byte) /\ m.data # << >>
    BY <1>2, MessageParts
  <2>3. /\ w \in Seq(Byte) /\ w # << >> /\ At(w, 0) = DATA_NOTIFICATION
        /\ Notified(w) = m.data
    BY <2>1, <2>2, NotificationRead
  <2>4. Visible(w)
    BY <2>3 DEF Visible, KnownTags
  <2>5. At(w, 0) \notin Containers
    BY <2>3 DEF DATA_NOTIFICATION, Containers, ARRAY, STRUCTURE, COMPACT_ARRAY
  <2> QED
    BY <2>3, <2>4, <2>5
<1> QED
  BY <1>1, <1>2

(* What a wrapper looks like to the handler, and what it takes out of it.  *)
Wrapping(w, wrapper, m) ==
  /\ Visible(w)
  /\ At(w, 0) \in Ciphering \cup {GENERAL_BLOCK_TRANSFER}
  /\ At(w, 0) \in Ciphering <=> wrapper.form = "ciphered"

Yields(w, within, m) ==
  /\ At(w, 0) = GENERAL_BLOCK_TRANSFER => Rest(w)[0] = {within}
  /\ At(w, 0) \in Ciphering =>
       /\ CipherHeaderOk(w)
       /\ \A key \in m.keys :
            /\ key # NoKey
            /\ Deciphered(w, key) = within
            /\ Accepted(w, key, NoKey) /\ Accepted(w, key, m.auth)

(* From each wrapper comes what the meter put into it, with any of the     *)
(* keys and with or without the authentication key.                        *)
LEMMA WrapperRead ==
  ASSUME NEW m \in Messages, NEW i \in 1 .. Len(m.wrappers), NEW w, w = Layer(m, i)
  PROVE  Wrapping(w, m.wrappers[i], m) /\ Yields(w, Layer(m, i + 1), m)
<1> DEFINE c == m.wrappers[i]
           within == Layer(m, i + 1)
<1>1. w = Apdu(c)
  BY MessageParts DEF Layer
<1>2. \/ c.form = "blocks" /\ BlocksHold(c, within)
      \/ c.form = "ciphered" /\ CipherHolds(c, within, m)
  BY MessageParts, Zenon DEF Wraps
<1>3. "blocks" # "ciphered"
  OBVIOUS
<1>4. GENERAL_BLOCK_TRANSFER \notin Ciphering
  BY DEF GENERAL_BLOCK_TRANSFER, Ciphering, GENERAL_DED_CIPHERING, GENERAL_GLO_CIPHERING
<1>5. CASE c.form = "blocks" /\ BlocksHold(c, within)
  <2>1. w = Transfer(c.pieces)
    BY <1>1, <1>5, Zenon DEF Apdu
  <2>2. ArePieces(c.pieces) /\ c.pieces # << >> /\ FlattenSeq(c.pieces) = within
    BY <1>5, Zenon DEF BlocksHold, ArePieces
  <2> HIDE DEF c, within
  <2>3. /\ w \in Seq(Byte) /\ w # << >> /\ At(w, 0) = GENERAL_BLOCK_TRANSFER
        /\ Rest(w)[0] = {within}
    BY <2>1, <2>2, TransferRead, Zenon
  <2>4. Wrapping(w, c, m)
    BY <1>3, <1>4, <1>5, <2>3, Zenon DEF Wrapping, Visible, KnownTags
  <2>5. Yields(w, within, m)
    BY <1>4, <2>3, Zenon DEF Yields
  <2> QED
    BY <2>4, <2>5 DEF c, within
<1>6. CASE c.form = "ciphered" /\ CipherHolds(c, within, m)
  <2>1. w = CipheredApdu(c)
    BY <1>1, <1>3, <1>6, Zenon DEF Apdu
  <2>2. /\ CipherParts(c)
        /\ \A key \in m.keys :
             /\ key # NoKey
             /\ Plain(key, c.title \o c.counter, c.sealed) = within
             /\ Bit(c.control, 16) =>
                  Authentic(key, c.title \o c.counter, c.sealed, <<c.control, m.auth>>, c.gcm_tag)
    BY <1>6, Zenon DEF CipherHolds, CipherParts
  <2> HIDE DEF c, within
  <2>3. CipherRead(w, c)
    BY <2>1, <2>2, CipheredIsRead, Zenon
  <2>4. At(w, 0) \in Ciphering /\ Visible(w)
    BY <2>2, <2>3, Zenon DEF CipherRead, CipherParts, Visible, KnownTags
  <2>5. Wrapping(w, c, m)
    BY <1>6, <2>4, Zenon DEF Wrapping
  <2>6. ASSUME NEW key \in m.keys
        PROVE  /\ key # NoKey /\ Deciphered(w, key) = within
               /\ Accepted(w, key, NoKey) /\ Accepted(w, key, m.auth)
    <3>1. key # NoKey /\ Deciphered(w, key) = within
      BY <2>2, <2>3, Zenon DEF CipherRead, Deciphered
    <3>2. Accepted(w, key, NoKey)
      BY Zenon DEF Accepted
    <3>3. Accepted(w, key, m.auth)
      BY <2>2, <2>3, Zenon DEF CipherRead, Accepted
    <3> QED
      BY <3>1, <3>2, <3>3
  <2>7. Yields(w, within, m)
    BY <1>4, <2>3, <2>4, <2>6, Zenon DEF Yields, CipherRead
  <2> QED
    BY <2>5, <2>7 DEF c, within
<1> QED
  BY <1>2, <1>5, <1>6

(* The layers, from the outermost to what is in all of them.               *)
LEMMA LayerVisible ==
  ASSUME NEW m \in Messages, NEW i \in 1 .. Len(m.wrappers) + 1
  PROVE  Visible(Layer(m, i))
<1>1. CASE i \in 1 .. Len(m.wrappers)
  BY <1>1, WrapperRead DEF Wrapping
<1>2. CASE i = Len(m.wrappers) + 1
  <2>1. i \notin DOMAIN m.wrappers
    BY <1>2, MessageParts
  <2>2. Layer(m, i) = Innermost(m)
    BY <2>1 DEF Layer
  <2> QED
    BY <2>2, InnermostRead
<1> QED
  BY <1>1, <1>2, MessageParts

-----------------------------------------------------------------------------
(* A message is sent as what a receiver has to take apart, in one frame or *)
(* in some.                                                                *)
LEMMA FramesRead ==
  ASSUME NEW m \in Messages
  PROVE  /\ Frames(m) \in Seq(Seq(Byte))
         /\ FlattenSeq(Frames(m)) = m.lead \o Layer(m, 1)
<1> DEFINE whole == m.lead \o Layer(m, 1)
           n == Len(m.wrappers)
<1>1. Layer(m, 1) \in Seq(Byte) /\ m.lead \in Seq(Byte)
  <2>1. n \in Nat
    BY MessageParts
  <2>2. 1 \in 1 .. n + 1
    BY <2>1
  <2> HIDE DEF n
  <2>3. Visible(Layer(m, 1))
    BY <2>2, LayerVisible DEF n
  <2> QED
    BY <2>3, MessageParts DEF Visible
<1>2. whole \in Seq(Byte)
  BY <1>1
<1>3. CASE m.lead = << >> /\ m.wrappers # << >> /\ m.wrappers[1].form = "blocks"
  <2> DEFINE P == m.wrappers[1].pieces
  <2>1. 1 \in 1 .. n /\ DOMAIN m.wrappers = 1 .. n
    <3>1. n \in Nat /\ DOMAIN m.wrappers = 1 .. n /\ m.wrappers \in Seq(Range(m.wrappers))
      BY MessageParts, PushAssumption DEF IsMessage
    <3> QED
      BY <1>3, <3>1
  <2>2. BlocksHold(m.wrappers[1], Layer(m, 1 + 1))
    <3>1. Wraps(m, 1)
      BY <2>1, MessageParts, Zenon
    <3>2. "blocks" # "ciphered"
      OBVIOUS
    <3> QED
      BY <1>3, <3>1, <3>2, Zenon DEF Wraps
  <2>3. ArePieces(P)
    BY <2>2, Zenon DEF BlocksHold, ArePieces
  <2>4. Frames(m) = Blocks(P)
    BY <1>3, Zenon DEF Frames
  <2>5. Layer(m, 1) = Transfer(P)
    BY <1>3, <2>1, Zenon DEF Layer, Apdu
  <2>6. Blocks(P) \in Seq(Seq(Byte)) /\ FlattenSeq(Blocks(P)) = Layer(m, 1)
    BY <2>3, <2>5, BlocksType, Zenon DEF Transfer
  <2>7. m.lead \o Layer(m, 1) = Layer(m, 1)
    <3> DEFINE l == Layer(m, 1)
    <3>1. l \in Seq(Byte)
      BY <1>1
    <3> HIDE DEF l
    <3>2. << >> \o l = l
      BY <3>1
    <3> QED
      BY <1>3, <3>2 DEF l
  <2> QED
    BY <2>4, <2>6, <2>7, Zenon
<1>4. CASE ~ (m.lead = << >> /\ m.wrappers # << >> /\ m.wrappers[1].form = "blocks")
  <2>1. Frames(m) = <<whole>>
    BY <1>4, Zenon DEF Frames
  <2>2. FlattenSeq(<<whole>>) = whole
    BY <1>2, FlattenOne, Zenon
  <2>3. <<whole>> \in Seq(Seq(Byte))
    <3> DEFINE W == Seq(Byte)
    <3>1. whole \in W
      BY <1>2
    <3> HIDE DEF W, whole
    <3>2. <<whole>> \in Seq(W)
      BY <3>1
    <3> QED
      BY <3>2 DEF W
  <2> QED
    BY <2>1, <2>2, <2>3, Zenon
<1> QED
  BY <1>3, <1>4

-----------------------------------------------------------------------------
(* Bytes in which a layer of the message is what the handler looks at.     *)
Carrying(m, i, bytes) ==
  bytes \in Seq(Byte) /\ HasTag(bytes) /\ Tagged[bytes] = Layer(m, i)

(* A layer carries itself.                                                 *)
LEMMA LayerCarries ==
  ASSUME NEW m \in Messages, NEW i \in 1 .. Len(m.wrappers) + 1
  PROVE  Carrying(m, i, Layer(m, i))
<1> DEFINE w == Layer(m, i)
           lead == << >>
<1>1. w \in Seq(Byte) /\ w # << >> /\ At(w, 0) \in KnownTags
  BY LayerVisible DEF Visible
<1>2. lead \in Seq(Byte) /\ \A j \in DOMAIN lead : lead[j] \notin KnownTags
  OBVIOUS
<1>3. lead \o w = w
  <2> HIDE DEF w
  <2> QED
    BY <1>1
<1> HIDE DEF w, lead
<1>4. /\ lead \o w \in Seq(Byte) /\ HasTag(lead \o w)
      /\ Tagged[lead \o w] = w
  BY <1>1, <1>2, TaggedBehind, Zenon
<1> QED
  BY <1>3, <1>4, Zenon DEF Carrying, w

(* What is sent carries the outermost layer, behind the bytes in front.    *)
LEMMA SentCarries ==
  ASSUME NEW m \in Messages
  PROVE  Carrying(m, 1, FlattenSeq(Frames(m)))
<1> DEFINE w == Layer(m, 1)
           lead == m.lead
<1>1. lead \in Seq(Byte) /\ \A j \in DOMAIN lead : lead[j] \notin KnownTags
  BY MessageParts
<1>2. w \in Seq(Byte) /\ w # << >> /\ At(w, 0) \in KnownTags
  <2>1. Len(m.wrappers) \in Nat
    BY MessageParts
  <2>2. 1 \in 1 .. Len(m.wrappers) + 1
    BY <2>1
  <2> QED
    BY <2>2, LayerVisible DEF Visible
<1>3. FlattenSeq(Frames(m)) = lead \o w
  BY FramesRead
<1> HIDE DEF w, lead
<1>4. /\ lead \o w \in Seq(Byte) /\ HasTag(lead \o w)
      /\ Tagged[lead \o w] = w
  BY <1>1, <1>2, TaggedBehind, Zenon
<1> QED
  BY <1>3, <1>4, Zenon DEF Carrying, w

-----------------------------------------------------------------------------
(* What has arrived and what is still to be sent are the message.          *)
LinkHolds ==
  /\ message \in Messages /\ chatter = 0
  /\ queue \in Seq(Seq(Byte)) /\ air \in Seq(Byte)
  /\ air \o FlattenSeq(queue) = FlattenSeq(Frames(message))

(* Nothing has arrived and all is still to be sent.                        *)
LEMMA LinkStarts ==
  ASSUME Link!Init
  PROVE  LinkHolds /\ fault = "none"
<1>1. /\ message \in Messages /\ queue = Frames(message) /\ air = << >>
      /\ chatter = 0 /\ fault = "none"
  BY DEF Link!Init
<1>2. queue \in Seq(Seq(Byte))
  BY <1>1, FramesRead
<1>3. FlattenSeq(queue) \in Seq(Byte)
  BY <1>2, FlattenType, Zenon
<1>4. air \in Seq(Byte)
  BY <1>1
<1>5. air \o FlattenSeq(queue) = FlattenSeq(queue)
  <2> DEFINE w == FlattenSeq(queue)
  <2>1. w \in Seq(Byte)
    BY <1>3
  <2> HIDE DEF w
  <2>2. << >> \o w = w
    BY <2>1
  <2> QED
    BY <1>1, <2>2 DEF w
<1> QED
  BY <1>1, <1>2, <1>4, <1>5 DEF LinkHolds

(* The line either disturbs the push, or brings its next frame.            *)
Moves(x, y, z) == (x \o y) \o z = x \o (y \o z)

LEMMA LinkStep ==
  ASSUME fault = "none" => LinkHolds, Link!Next, fault' = "none"
  PROVE  fault = "none" /\ LinkHolds'
<1>1. Link!Transmit /\ fault = "none"
  <2>1. fault = "none" => chatter = 0
    BY DEF LinkHolds
  <2>2. ~ Link!Chatter \/ fault # "none"
    BY <2>1 DEF Link!Chatter
  <2>3. ~ Link!Lose /\ ~ Link!Repeat /\ ~ Link!Corrupt /\ ~ Link!Cut /\ ~ Link!Interfere
    BY DEF Link!Lose, Link!Repeat, Link!Corrupt, Link!Cut, Link!Interfere
  <2>4. fault' = fault
    BY <2>3 DEF Link!Next, Link!Transmit, Link!Chatter
  <2> QED
    BY <2>2, <2>3, <2>4 DEF Link!Next
<1>2. /\ queue # << >> /\ air' = air \o Head(queue) /\ queue' = Tail(queue)
      /\ message' = message /\ chatter' = chatter
  BY <1>1 DEF Link!Transmit
<1>3. /\ message \in Messages /\ chatter = 0
      /\ queue \in Seq(Seq(Byte)) /\ air \in Seq(Byte)
      /\ air \o FlattenSeq(queue) = FlattenSeq(Frames(message))
  BY <1>1 DEF LinkHolds
<1> DEFINE W == Seq(Byte)
           h == Head(queue)
           t == Tail(queue)
<1>4. h \in W /\ t \in Seq(W) /\ <<h>> \in Seq(W) /\ queue = <<h>> \o t
  <2>1. queue \in Seq(W)
    BY <1>3
  <2> HIDE DEF W
  <2> QED
    BY <1>2, <2>1
<1> HIDE DEF h, t
<1>5. FlattenSeq(queue) = h \o FlattenSeq(t) /\ FlattenSeq(t) \in W
  <2>1. FlattenSeq(<<h>> \o t) = FlattenSeq(<<h>>) \o FlattenSeq(t)
    BY <1>4, FlattenConcat, Zenon
  <2>2. FlattenSeq(<<h>>) = h
    BY <1>4, FlattenOne, Zenon
  <2>3. FlattenSeq(t) \in W
    BY <1>4, FlattenType, Zenon
  <2> QED
    BY <1>4, <2>1, <2>2, <2>3, Zenon
<1>6. Associates(air, h, FlattenSeq(t)) /\ air \o h \in W
  BY <1>3, <1>4, <1>5, Assoc, Zenon
<1>7. air' \in Seq(Byte) /\ queue' \in Seq(Seq(Byte))
  BY <1>2, <1>4, <1>6 DEF h, t
<1>8. air' \o FlattenSeq(queue') = FlattenSeq(Frames(message))
  BY <1>2, <1>3, <1>5, <1>6, Zenon DEF Associates, h, t
<1> QED
  BY <1>1, <1>2, <1>3, <1>7, <1>8, Zenon DEF LinkHolds

(* When all is sent, the message has arrived.                              *)
LEMMA LinkEnds ==
  ASSUME LinkHolds, queue = << >>
  PROVE  air = FlattenSeq(Frames(message))
<1>1. air \in Seq(Byte) /\ air \o FlattenSeq(queue) = FlattenSeq(Frames(message))
  BY DEF LinkHolds
<1>2. FlattenSeq(queue) = << >>
  BY FlattenEmpty
<1>3. air \o << >> = air
  BY <1>1
<1> QED
  BY <1>1, <1>2, <1>3, Zenon

-----------------------------------------------------------------------------
(* The keys with which the handler gives the data, or nothing.             *)
Keyless == decryption_key = NoKey /\ NoKey \notin message.keys
Suited == Opens \/ Keyless

(* Of the wrappers of the message, iter have been taken off; without a key *)
(* these were transfers.                                                   *)
Unopened ==
  /\ iter + 1 \in 1 .. Len(message.wrappers) + 1
  /\ Carrying(message, iter + 1, layer)
  /\ Keyless => \A j \in 1 .. iter : message.wrappers[j].form # "ciphered"

Given ==
  ~ library_failed =>
    /\ Opens => result = message.data
    /\ Keyless => result = << >>

ReceiverHolds ==
  Suited =>
    /\ status \in {"unwrapping", "blocks"} => Unopened
    /\ status = "done" => Given

PushInv ==
  fault = "none" =>
    /\ LayerInv /\ LinkHolds /\ ReceiverHolds
    /\ status # "idle" => queue = << >>

(* A key that opens the message is a key; none is needed only if there is  *)
(* nothing to open.                                                        *)
LEMMA SuitedKeys ==
  ASSUME LinkHolds, Suited
  PROVE  /\ Opens /\ Keyless => FALSE
         /\ Keyless => \E j \in 1 .. Len(message.wrappers) : message.wrappers[j].form = "ciphered"
<1>1. message \in Messages
  BY DEF LinkHolds
<1> QED
  BY <1>1, MessageParts, Zenon DEF Opens, Keyless

(* What a turn meets: a wrapper, or what was in all of them.               *)
MeetsWrapper(w, i) ==
  /\ i \in 1 .. Len(message.wrappers)
  /\ Wrapping(w, message.wrappers[i], message) /\ Yields(w, Layer(message, i + 1), message)

MeetsData(w, i) ==
  /\ i = Len(message.wrappers) + 1
  /\ At(w, 0) \in Containers => w = message.data
  /\ At(w, 0) \notin Containers => At(w, 0) = DATA_NOTIFICATION /\ Notified(w) = message.data

(* It is one or the other, by the number of wrappers taken off.            *)
LEMMA TurnMeets ==
  ASSUME LinkHolds, Unopened
  PROVE  MeetsWrapper(Tagged[layer], iter + 1) \/ MeetsData(Tagged[layer], iter + 1)
<1> DEFINE w == Tagged[layer]
           n == Len(message.wrappers)
           i == iter + 1
<1>1. /\ message \in Messages /\ i \in 1 .. n + 1 /\ w = Layer(message, i)
  BY DEF LinkHolds, Unopened, Carrying
<1>2. n \in Nat /\ DOMAIN message.wrappers = 1 .. n
  BY <1>1, MessageParts
<1> HIDE DEF w, i
<1>3. CASE i \in 1 .. n
  <2>1. Wrapping(w, message.wrappers[i], message) /\ Yields(w, Layer(message, i + 1), message)
    BY <1>1, <1>3, WrapperRead
  <2> QED
    BY <1>3, <2>1 DEF MeetsWrapper, w, i
<1>4. CASE i = n + 1
  <2>1. i \notin DOMAIN message.wrappers
    BY <1>2, <1>4
  <2>2. w = Innermost(message)
    BY <1>1, <2>1 DEF Layer
  <2>3. /\ At(w, 0) \in Containers => w = message.data
        /\ At(w, 0) \notin Containers =>
             At(w, 0) = DATA_NOTIFICATION /\ Notified(w) = message.data
    BY <1>1, <2>2, InnermostRead
  <2> QED
    BY <1>4, <2>3 DEF MeetsData, w, i
<1> HIDE DEF n
<1>5. i \in 1 .. n \/ i = n + 1
  BY <1>1, <1>2
<1> QED
  BY <1>3, <1>4, <1>5

(* The tags of wrappers and of what is in them are different.              *)
LEMMA TagsDiffer ==
  ASSUME NEW w
  PROVE  /\ At(w, 0) \in Ciphering \cup {GENERAL_BLOCK_TRANSFER} =>
              At(w, 0) \notin Containers /\ At(w, 0) # DATA_NOTIFICATION
         /\ At(w, 0) \in Ciphering => At(w, 0) # GENERAL_BLOCK_TRANSFER
BY DEF GENERAL_BLOCK_TRANSFER, Ciphering, GENERAL_DED_CIPHERING, GENERAL_GLO_CIPHERING,
       DATA_NOTIFICATION, Containers, ARRAY, STRUCTURE, COMPACT_ARRAY

(* The tag tells which.                                                    *)
LEMMA MetWrapper ==
  ASSUME LinkHolds, Unopened, NEW w, w = Tagged[layer],
         At(w, 0) \in Ciphering \cup {GENERAL_BLOCK_TRANSFER}
  PROVE  MeetsWrapper(w, iter + 1)
<1>1. MeetsWrapper(w, iter + 1) \/ MeetsData(w, iter + 1)
  BY TurnMeets
<1> QED
  BY <1>1, TagsDiffer, Zenon DEF MeetsData

LEMMA MetData ==
  ASSUME LinkHolds, Unopened, NEW w, w = Tagged[layer],
         At(w, 0) \in Containers \cup {DATA_NOTIFICATION}
  PROVE  MeetsData(w, iter + 1)
<1>1. MeetsWrapper(w, iter + 1) \/ MeetsData(w, iter + 1)
  BY TurnMeets
<1> QED
  BY <1>1, TagsDiffer, Zenon DEF MeetsWrapper, Wrapping

-----------------------------------------------------------------------------
(* What a turn starts from.                                                *)
Turning ==
  /\ fault = "none" /\ LayerInv /\ LinkHolds /\ Suited
  /\ status \in {"unwrapping", "blocks"} /\ Unopened
  /\ UNCHANGED link /\ UNCHANGED keys

Turned ==
  /\ status' \in {"unwrapping", "blocks"} => Unopened'
  /\ status' = "done" => Given'

(* Keys and message stay, and with them what the keys are good for.        *)
LEMMA SameKeys ==
  ASSUME UNCHANGED link, UNCHANGED keys
  PROVE  /\ message' = message
         /\ Opens' <=> Opens
         /\ Keyless' <=> Keyless
BY DEF link, keys, Opens, Keyless

(* The data are reached when every wrapper is off: with the key for it.    *)
LEMMA DeliverTurn ==
  ASSUME Turning, NoTag \/ RawAxdr \/ Notification
  PROVE  Turned
<1>1. /\ message' = message /\ (Opens' <=> Opens) /\ (Keyless' <=> Keyless)
  BY SameKeys DEF Turning
<1>2. status = "unwrapping" /\ status' = "done"
  BY DEF NoTag, RawAxdr, Notification, Meets, Finish
<1>3. buf = layer /\ window = Tagged[layer] /\ HasTag(buf)
  <2>1. HasTag(layer)
    BY DEF Turning, Unopened, Carrying
  <2> QED
    BY <1>2, <2>1, TurnLayer DEF Turning
<1> DEFINE w == Tagged[layer]
<1>4. At(w, 0) \in Containers \cup {DATA_NOTIFICATION}
  BY <1>3 DEF NoTag, RawAxdr, Notification, Meets
<1>5. /\ At(w, 0) \in Containers => result' = w
      /\ At(w, 0) \notin Containers => result' = Notified(w)
  <2>1. CASE RawAxdr
    BY <1>3, <2>1 DEF RawAxdr, Meets, Finish
  <2>2. CASE Notification
    <3>1. At(w, 0) = DATA_NOTIFICATION /\ result' = Notified(w)
      BY <1>3, <2>2 DEF Notification, Meets, Finish
    <3>2. At(w, 0) \notin Containers
      BY <3>1 DEF DATA_NOTIFICATION, Containers, ARRAY, STRUCTURE, COMPACT_ARRAY
    <3> QED
      BY <3>1, <3>2
  <2>3. CASE NoTag
    BY <1>3, <2>3 DEF NoTag
  <2> QED
    BY <2>1, <2>2, <2>3
<1> HIDE DEF w
<1>6. MeetsData(w, iter + 1)
  BY <1>4, MetData DEF w, Turning
<1>7. result' = message.data
  BY <1>5, <1>6, Zenon DEF MeetsData
<1>8. ~ Keyless
  <2> SUFFICES ASSUME Keyless PROVE FALSE
    OBVIOUS
  <2>1. PICK j \in 1 .. Len(message.wrappers) : message.wrappers[j].form = "ciphered"
    BY SuitedKeys DEF Turning
  <2>2. iter + 1 = Len(message.wrappers) + 1 /\ iter \in Nat /\ Len(message.wrappers) \in Nat
    <3>1. iter \in Nat
      BY DEF Turning, LayerInv, Inv, TypeOK
    <3>2. Len(message.wrappers) \in Nat
      BY MessageParts DEF Turning, LinkHolds
    <3> QED
      BY <1>6, <3>1, <3>2 DEF MeetsData
  <2>3. j \in 1 .. iter
    BY <2>1, <2>2
  <2> QED
    BY <2>1, <2>3 DEF Turning, Unopened
<1> QED
  BY <1>1, <1>2, <1>7, <1>8, Zenon DEF Turned, Given

(* There are fewer wrappers than turns.                                    *)
LEMMA ExhaustedTurn ==
  ASSUME Turning, Exhausted
  PROVE  FALSE
<1>1. iter = MAX_ITERATIONS /\ iter \in Nat
  BY DEF Exhausted, Turning, LayerInv, Inv, TypeOK
<1>2. Len(message.wrappers) \in Nat /\ Len(message.wrappers) < MAX_ITERATIONS
  BY MessageParts DEF Turning, LinkHolds
<1>3. iter + 1 \in 1 .. Len(message.wrappers) + 1
  BY DEF Turning, Unopened
<1> QED
  BY <1>1, <1>2, <1>3

(* A ciphered APDU: with the key it is one that can be opened.             *)
LEMMA CipherMet ==
  ASSUME Turning, Meets(Ciphering)
  PROVE  /\ window = Tagged[layer] /\ MeetsWrapper(window, iter + 1)
         /\ message.wrappers[iter + 1].form = "ciphered"
         /\ Opens => /\ decryption_key # NoKey /\ CipherHeaderOk(window)
                     /\ Deciphered(window, decryption_key) = Layer(message, (iter + 1) + 1)
                     /\ Accepted(window, decryption_key, auth_key)
<1>1. window = Tagged[layer]
  BY TurnLayer DEF Meets, Turning
<1>2. At(window, 0) \in Ciphering
  BY DEF Meets
<1> HIDE DEF window
<1>3. MeetsWrapper(window, iter + 1)
  BY <1>1, <1>2, MetWrapper DEF Turning
<1>4. message.wrappers[iter + 1].form = "ciphered"
  BY <1>2, <1>3, Zenon DEF MeetsWrapper, Wrapping
<1>5. ASSUME Opens
      PROVE  /\ decryption_key # NoKey /\ CipherHeaderOk(window)
             /\ Deciphered(window, decryption_key) = Layer(message, (iter + 1) + 1)
             /\ Accepted(window, decryption_key, auth_key)
  <2>1. decryption_key \in message.keys /\ (auth_key = NoKey \/ auth_key = message.auth)
    BY <1>5 DEF Opens
  <2> QED
    BY <1>2, <1>3, <2>1, Zenon DEF MeetsWrapper, Yields
<1> QED
  BY <1>1, <1>3, <1>4, <1>5

(* So the handler refuses only without the key.                            *)
LEMMA CannotDecipherTurn ==
  ASSUME Turning, CannotDecipher
  PROVE  Turned
<1>1. /\ message' = message /\ (Opens' <=> Opens) /\ (Keyless' <=> Keyless)
  BY SameKeys DEF Turning
<1>2. Meets(Ciphering) /\ status' = "done" /\ result' = << >>
  BY DEF CannotDecipher, Finish
<1>3. decryption_key = NoKey \/ ~ CipherHeaderOk(window)
  BY DEF CannotDecipher
<1>4. ~ Opens
  BY <1>2, <1>3, CipherMet, Zenon
<1> QED
  BY <1>1, <1>2, <1>4, Zenon DEF Turned, Given

(* With the key the tag fits: only the library can have failed.            *)
LEMMA DecipherFailsTurn ==
  ASSUME Turning, DecipherFails
  PROVE  Turned
<1>1. /\ message' = message /\ (Opens' <=> Opens) /\ (Keyless' <=> Keyless)
  BY SameKeys DEF Turning
<1>2. Meets(Ciphering) /\ status' = "done" /\ result' = << >>
  BY DEF DecipherFails
<1>3. library_failed' = Accepted(window, decryption_key, auth_key)
  BY DEF DecipherFails
<1>4. Opens => library_failed'
  BY <1>2, <1>3, CipherMet, Zenon
<1> QED
  BY <1>1, <1>2, <1>4, Zenon DEF Turned, Given

(* One wrapper less.                                                       *)
LEMMA OneLess ==
  ASSUME Turning, MeetsWrapper(Tagged[layer], iter + 1),
         iter' = iter + 1, layer' = Layer(message, (iter + 1) + 1), status' = "unwrapping",
         Keyless => message.wrappers[iter + 1].form # "ciphered"
  PROVE  Turned
<1>1. /\ message' = message /\ (Opens' <=> Opens) /\ (Keyless' <=> Keyless)
  BY SameKeys DEF Turning
<1> DEFINE n == Len(message.wrappers)
<1>2. message \in Messages /\ n \in Nat /\ iter \in Nat /\ iter + 1 \in 1 .. n
  BY MessageParts DEF Turning, LinkHolds, LayerInv, Inv, TypeOK, MeetsWrapper
<1>3. (iter + 1) + 1 \in 1 .. n + 1
  BY <1>2
<1>4. Carrying(message, (iter + 1) + 1, layer')
  BY <1>2, <1>3, LayerCarries
<1>5. Keyless => \A j \in 1 .. iter + 1 : message.wrappers[j].form # "ciphered"
  <2> SUFFICES ASSUME Keyless, NEW j \in 1 .. iter + 1
               PROVE  message.wrappers[j].form # "ciphered"
    OBVIOUS
  <2>1. \A k \in 1 .. iter : message.wrappers[k].form # "ciphered"
    BY DEF Turning, Unopened
  <2>2. j \in 1 .. iter \/ j = iter + 1
    BY <1>2
  <2> QED
    BY <2>1, <2>2
<1>6. Unopened'
  BY <1>1, <1>3, <1>4, <1>5, Zenon DEF Unopened
<1> QED
  BY <1>6 DEF Turned

(* The bytes that come out are the next layer.                             *)
LEMMA DecipherTurn ==
  ASSUME Turning, Decipher
  PROVE  Turned
<1>1. Meets(Ciphering) /\ decryption_key # NoKey
  BY DEF Decipher
<1>2. Opens /\ ~ Keyless
  BY <1>1 DEF Turning, Suited, Keyless
<1>3. /\ layer' = Deciphered(window, decryption_key)
      /\ iter' = iter + 1 /\ status' = "unwrapping"
  BY DEF Decipher, Descend
<1>4. /\ MeetsWrapper(Tagged[layer], iter + 1)
      /\ Deciphered(window, decryption_key) = Layer(message, (iter + 1) + 1)
  BY <1>1, <1>2, CipherMet, Zenon
<1> QED
  BY <1>2, <1>3, <1>4, OneLess, Zenon

(* Inside the loop over blocks nothing is taken off.                       *)
LEMMA BlockTurn ==
  ASSUME Turning, StartBlocks \/ TakeBlock
  PROVE  Turned
<1>1. /\ message' = message /\ (Opens' <=> Opens) /\ (Keyless' <=> Keyless)
  BY SameKeys DEF Turning
<1>2. iter' = iter /\ layer' = layer /\ status' = "blocks"
  BY DEF StartBlocks, TakeBlock, Turning
<1>3. Unopened'
  BY <1>1, <1>2, Zenon DEF Turning, Unopened
<1> QED
  BY <1>2, <1>3 DEF Turned

(* What the blocks of this transfer hold is the next layer.                *)
LEMMA TransferMet ==
  ASSUME Turning, status = "blocks"
  PROVE  /\ MeetsWrapper(Tagged[layer], iter + 1)
         /\ message.wrappers[iter + 1].form # "ciphered"
         /\ Rest(Tagged[layer])[0] = {Layer(message, (iter + 1) + 1)}
         /\ Layer(message, (iter + 1) + 1) # << >>
<1> DEFINE w == Tagged[layer]
<1>1. At(w, 0) = GENERAL_BLOCK_TRANSFER
  BY DEF Turning, LayerInv
<1>2. MeetsWrapper(w, iter + 1)
  BY <1>1, MetWrapper DEF Turning
<1> HIDE DEF w
<1>3. At(w, 0) \notin Ciphering
  BY <1>1, TagsDiffer
<1>4. message.wrappers[iter + 1].form # "ciphered"
  BY <1>2, <1>3, Zenon DEF MeetsWrapper, Wrapping
<1>5. Rest(w)[0] = {Layer(message, (iter + 1) + 1)}
  BY <1>1, <1>2, Zenon DEF MeetsWrapper, Yields
<1>6. Layer(message, (iter + 1) + 1) # << >>
  <2>1. message \in Messages /\ Len(message.wrappers) \in Nat
        /\ iter + 1 \in 1 .. Len(message.wrappers)
    BY <1>2, MessageParts DEF MeetsWrapper, Turning, LinkHolds
  <2>2. (iter + 1) + 1 \in 1 .. Len(message.wrappers) + 1
    BY <2>1
  <2> QED
    BY <2>1, <2>2, LayerVisible DEF Visible
<1> QED
  BY <1>2, <1>4, <1>5, <1>6 DEF w

(* When no block is left, it is the bytes put together.                    *)
LEMMA ReassembledTurn ==
  ASSUME Turning, Reassembled
  PROVE  Turned
<1>1. /\ status = "blocks" /\ ~ MoreBlocks
      /\ layer' = Subspan(buf, 0, write_pos) /\ iter' = iter + 1 /\ status' = "unwrapping"
  BY DEF Reassembled, Descend
<1>2. Rest(Tagged[layer])[0] = {Subspan(buf, 0, write_pos)}
  BY <1>1, AllBlocksTaken DEF Turning
<1>3. layer' = Layer(message, (iter + 1) + 1)
  <2> DEFINE x == Subspan(buf, 0, write_pos)
             y == Layer(message, (iter + 1) + 1)
  <2>1. Rest(Tagged[layer])[0] = {x} /\ Rest(Tagged[layer])[0] = {y}
    BY <1>1, <1>2, TransferMet
  <2> HIDE DEF x, y
  <2>2. x = y
    BY <2>1
  <2> QED
    BY <1>1, <2>2 DEF x, y
<1> QED
  BY <1>1, <1>3, TransferMet, OneLess, Zenon

(* A transfer that was sent whole is not refused.                          *)
LEMMA RefusedTurn ==
  ASSUME Turning, TruncatedBlock \/ NothingReassembled
  PROVE  FALSE
<1>1. status = "blocks"
  BY DEF TruncatedBlock, NothingReassembled
<1>2. Inside(layer, keys) = {} \/ Fallible(layer)
  BY BlocksRefusedLayers, Zenon DEF Layers!Refuse, Turning
<1>3. Joined(Tagged[layer]) = {} \/ Fallible(layer)
  BY <1>1, <1>2, BlocksLayer DEF Turning
<1>4. ~ Fallible(layer)
  <2>1. At(Tagged[layer], 0) = GENERAL_BLOCK_TRANSFER
    BY <1>1 DEF Turning, LayerInv
  <2> QED
    BY <2>1, TagsDiffer DEF Fallible
<1> DEFINE y == Layer(message, (iter + 1) + 1)
<1>5. Rest(Tagged[layer])[0] = {y} /\ y # << >>
  BY <1>1, TransferMet
<1> HIDE DEF y
<1>6. y \in Joined(Tagged[layer])
  BY <1>5 DEF Joined
<1> QED
  BY <1>3, <1>4, <1>6

(* So every turn does what it should.                                      *)
LEMMA UnwrapTurn ==
  ASSUME Turning, Unwrap
  PROVE  Turned
BY DeliverTurn, ExhaustedTurn, CannotDecipherTurn, DecipherFailsTurn, DecipherTurn,
   BlockTurn, ReassembledTurn, RefusedTurn DEF Unwrap

-----------------------------------------------------------------------------
(* Every turn keeps what holds of a message that arrived whole.            *)
LEMMA TurnHolds ==
  ASSUME PlainKeepsLength, fault = "none", LayerInv, LinkHolds, ReceiverHolds,
         Unwrap, UNCHANGED link
  PROVE  LayerInv' /\ LinkHolds' /\ ReceiverHolds'
<1>1. /\ message' = message /\ queue' = queue /\ air' = air
      /\ chatter' = chatter /\ fault' = fault
  BY DEF link
<1>2. LayerInv'
  BY LayerNext DEF Next
<1>3. LinkHolds'
  BY <1>1 DEF LinkHolds
<1>4. status \in {"unwrapping", "blocks"} /\ UNCHANGED keys
  BY DEF Unwrap, NoTag, RawAxdr, Notification, Exhausted, StartBlocks, TakeBlock,
     TruncatedBlock, Reassembled, NothingReassembled, CannotDecipher, Decipher,
     DecipherFails, Meets, Finish, Descend
<1>5. ReceiverHolds'
  <2>1. Suited' <=> Suited
    BY <1>4, SameKeys DEF Suited
  <2>2. SUFFICES ASSUME Suited
                 PROVE  /\ status' \in {"unwrapping", "blocks"} => Unopened'
                        /\ status' = "done" => Given'
    BY <2>1 DEF ReceiverHolds
  <2>3. Unopened
    BY <1>4, <2>2 DEF ReceiverHolds
  <2>4. Turning
    BY <1>4, <2>2, <2>3 DEF Turning
  <2> QED
    BY <2>4, UnwrapTurn DEF Turned
<1> QED
  BY <1>2, <1>3, <1>5

(* The handler is given what has arrived.                                  *)
LEMMA CallHolds ==
  ASSUME TypeOK, LinkHolds, queue = << >>, UNCHANGED link,
         NEW key \in Keys \cup {NoKey}, NEW auth \in Keys \cup {NoKey}, Call(air, key, auth)
  PROVE  LayerInv' /\ LinkHolds' /\ ReceiverHolds'
<1>1. /\ message' = message /\ queue' = queue /\ air' = air
      /\ chatter' = chatter /\ fault' = fault
  BY DEF link
<1>2. status' = "unwrapping" /\ iter' = 0 /\ layer' = air
  BY DEF Call
<1>3. LayerInv'
  <2>1. air \in Seq(Byte)
    BY DEF LinkHolds
  <2>2. Inv'
    BY <2>1, CallInv
  <2> QED
    BY <1>2, <2>2 DEF LayerInv, BlocksSoFar
<1>4. LinkHolds'
  BY <1>1 DEF LinkHolds
<1>5. Unopened'
  <2>1. message \in Messages /\ air = FlattenSeq(Frames(message))
    BY LinkEnds DEF LinkHolds
  <2>2. Carrying(message, 1, air)
    BY <2>1, SentCarries
  <2>3. Len(message.wrappers) \in Nat
    BY <2>1, MessageParts
  <2>4. 0 + 1 = 1 /\ 1 \in 1 .. Len(message.wrappers) + 1 /\ 1 .. 0 = {}
    BY <2>3
  <2> QED
    BY <1>1, <1>2, <2>2, <2>4 DEF Unopened
<1>6. ReceiverHolds'
  BY <1>2, <1>5 DEF ReceiverHolds
<1> QED
  BY <1>3, <1>4, <1>6

(* So every turn keeps the invariant, ...                                  *)
LEMMA TurnPushInv ==
  ASSUME PlainKeepsLength, PushInv, Turn
  PROVE  PushInv'
<1>1. Unwrap /\ UNCHANGED link
  BY DEF Turn
<1>2. queue' = queue /\ fault' = fault
  BY <1>1 DEF link
<1> SUFFICES ASSUME fault = "none"
             PROVE  /\ LayerInv' /\ LinkHolds' /\ ReceiverHolds'
                    /\ status' # "idle" => queue' = << >>
  BY <1>2, Zenon DEF PushInv
<1>3. /\ LayerInv /\ LinkHolds /\ ReceiverHolds
      /\ status # "idle" => queue = << >>
  BY Zenon DEF PushInv
<1>4. LayerInv' /\ LinkHolds' /\ ReceiverHolds'
  BY <1>1, <1>3, TurnHolds
<1>5. status # "idle"
  BY <1>1 DEF Unwrap, NoTag, RawAxdr, Notification, Exhausted, StartBlocks, TakeBlock,
     TruncatedBlock, Reassembled, NothingReassembled, CannotDecipher, Decipher,
     DecipherFails, Meets
<1> QED
  BY <1>2, <1>3, <1>4, <1>5

(* ... and so does the call.                                               *)
LEMMA ReceivePushInv ==
  ASSUME PushInv, Receive
  PROVE  PushInv'
<1>1. PICK key \in Keys \cup {NoKey}, auth \in Keys \cup {NoKey} : Call(air, key, auth)
  BY DEF Receive
<1>2. queue = << >> /\ UNCHANGED link
  BY DEF Receive, Link!Silent
<1>3. queue' = queue /\ fault' = fault
  BY <1>2 DEF link
<1> SUFFICES ASSUME fault = "none"
             PROVE  /\ LayerInv' /\ LinkHolds' /\ ReceiverHolds'
                    /\ status' # "idle" => queue' = << >>
  BY <1>3, Zenon DEF PushInv
<1>4. TypeOK /\ LinkHolds
  BY Zenon DEF PushInv, LayerInv, Inv
<1> QED
  BY <1>1, <1>2, <1>3, <1>4, CallHolds

(* While the line works nothing is received.                               *)
LEMMA PushPushInv ==
  ASSUME PushInv, Push
  PROVE  PushInv'
<1>1. status = "idle" /\ Link!Next /\ UNCHANGED vars
  BY DEF Push
<1>2. SUFFICES ASSUME fault' = "none"
               PROVE  /\ LayerInv' /\ LinkHolds' /\ ReceiverHolds'
                      /\ status' # "idle" => queue' = << >>
  BY Zenon DEF PushInv
<1>3. fault = "none" /\ LinkHolds'
  <2>1. fault = "none" => LinkHolds
    BY Zenon DEF PushInv
  <2> QED
    BY <1>1, <1>2, <2>1, LinkStep
<1>4. LayerInv
  BY <1>3, Zenon DEF PushInv
<1>5. LayerInv'
  BY <1>1, <1>4 DEF vars, keys, blocks, LayerInv, Inv, TypeOK, InPlaceSafe, TurnSafe,
     BlocksSoFar
<1>6. status' = "idle"
  BY <1>1 DEF vars
<1>7. ReceiverHolds'
  BY <1>6 DEF ReceiverHolds
<1> QED
  BY <1>3, <1>5, <1>6, <1>7

(* Nothing changes when nothing happens.                                   *)
LEMMA StutterPushInv ==
  ASSUME PushInv, UNCHANGED pushVars
  PROVE  PushInv'
BY DEF PushInv, pushVars, vars, link, keys, blocks, LayerInv, Inv, TypeOK, InPlaceSafe,
   TurnSafe, BlocksSoFar, LinkHolds, ReceiverHolds, Suited, Opens, Keyless, Unopened, Given

(* And at first the invariant holds.                                       *)
LEMMA InitPushInv == PushInit => PushInv
<1> SUFFICES ASSUME PushInit PROVE PushInv
  OBVIOUS
<1>1. LayerInv
  BY InitLayerInv DEF PushInit
<1>2. LinkHolds /\ fault = "none"
  BY LinkStarts DEF PushInit
<1>3. status = "idle"
  BY DEF PushInit, Init
<1> QED
  BY <1>1, <1>2, <1>3 DEF PushInv, ReceiverHolds

(* Whatever data are pushed, in whatever wrappers up to the limit, behind  *)
(* whatever bytes, in blocks of any sizes and with any date-time: if the   *)
(* push was not disturbed the handler gives these data when its keys are   *)
(* those that open it, and nothing when a key that is needed is not set.   *)
THEOREM ApduDeliversWhatWasSent ==
  ASSUME PlainKeepsLength
  PROVE  PushSpec => []DeliversWhatWasSent
<1>1. PushInv /\ [PushNext]_pushVars => PushInv'
  BY TurnPushInv, ReceivePushInv, PushPushInv, StutterPushInv DEF PushNext
<1>2. PushInv => DeliversWhatWasSent
  <2> SUFFICES ASSUME PushInv, status = "done", fault = "none", ~ library_failed
               PROVE  /\ Opens => result = message.data
                      /\ decryption_key = NoKey /\ NoKey \notin message.keys => result = << >>
    BY DEF DeliversWhatWasSent
  <2>1. ReceiverHolds
    BY Zenon DEF PushInv
  <2>2. Suited => Given
    BY <2>1 DEF ReceiverHolds
  <2> QED
    BY <2>2 DEF Suited, Given, Keyless
<1> QED
  BY InitPushInv, <1>1, <1>2, PTL DEF PushSpec

=============================================================================
