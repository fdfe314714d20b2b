---------------------------- MODULE ApduHandler ----------------------------
(***************************************************************************)
(* parse_apdu_in_place: the wrappers around A-XDR data are taken off one   *)
(* after another, in the buffer they came in.  One action is one turn of   *)
(* the loop over wrappers, or one turn of the loop over the blocks of a    *)
(* general block transfer.                                                 *)
(***************************************************************************)
EXTENDS Spans, DlmsTypes

Byte == 0 .. 255

CONSTANTS
  Keys, NoKey,              \* the keys of the decryptor, or none
  MAX_ITERATIONS,
  Plain(_, _, _),           \* the library's cipher: key, nonce, bytes
  Authentic(_, _, _, _, _)  \* its tag: key, nonce, bytes, other data, tag

ASSUME ApduAssumption ==
  /\ NoKey \notin Keys
  /\ MAX_ITERATIONS \in Nat

VARIABLES
  decryption_key, auth_key,   \* of the decryptor; NoKey if there is none
  layer,       \* ghost: the bytes at the beginning of a turn of the loop
  buf,         \* the span looked at
  iter,        \* wrappers taken off
  read_pos, write_pos, is_last,   \* of the loop over blocks
  library_failed,   \* ghost: the cipher library refused to work
  status,      \* "idle", "unwrapping", "blocks" or "done"
  result       \* the span the function returned

keys == <<decryption_key, auth_key>>
blocks == <<read_pos, write_pos, is_last>>
vars == <<keys, layer, buf, iter, blocks, library_failed, status, result>>

DATA_NOTIFICATION == 15
GENERAL_GLO_CIPHERING == 219
GENERAL_DED_CIPHERING == 223
GENERAL_BLOCK_TRANSFER == 224

SYSTITLE_LENGTH == 8
GCM_TAG_LENGTH == 12
LENGTH_CORRECTION == 5      \* the security control byte and the frame counter

Ciphering == {GENERAL_GLO_CIPHERING, GENERAL_DED_CIPHERING}
KnownTags == Containers \cup Ciphering \cup {DATA_NOTIFICATION, GENERAL_BLOCK_TRANSFER}

Bit(byte, mask) == (byte \div mask) % 2 = 1

-----------------------------------------------------------------------------
(* A BER length at p of b and where the reading of it stops.  One that is  *)
(* malformed, or that does not fit, is zero.  (HUGE stands for all lengths *)
(* beyond any buffer; sizes are wider than the 32 bits of a length.)       *)
HUGE == 536870912

LengthBytes(b, p) ==
  IF p < Len(b) /\ At(b, p) - 128 \in 1 .. 4 THEN At(b, p) - 128 ELSE 0

BerFits(b, p) == p + 1 + LengthBytes(b, p) <= Len(b)

BerEnd(b, p) ==
  IF p >= Len(b) THEN p
  ELSE IF BerFits(b, p) THEN p + 1 + LengthBytes(b, p) ELSE Len(b)

Digit(b, p, n, k) == IF k < n THEN At(b, p + n - 1 - k) ELSE 0

BigEndian(b, p, n) ==
  IF n = 4 /\ At(b, p) >= 32 THEN HUGE
  ELSE Digit(b, p, n, 0) + Digit(b, p, n, 1) * 256
       + Digit(b, p, n, 2) * 65536 + Digit(b, p, n, 3) * 16777216

BerLength(b, p) ==
  CASE p < Len(b) /\ At(b, p) < 128 -> At(b, p)
    [] BerFits(b, p) /\ LengthBytes(b, p) > 0 -> BigEndian(b, p + 1, LengthBytes(b, p))
    [] OTHER -> 0

(* The bytes from the first known tag on.                                  *)
HasTag(b) == \E i \in 1 .. Len(b) : b[i] \in KnownTags

FirstTag(b) ==
  CHOOSE i \in 0 .. Len(b) - 1 :
    At(b, i) \in KnownTags /\ \A j \in 0 .. i - 1 : At(b, j) \notin KnownTags

Tagged[b \in Seq(Byte)] == From(b, FirstTag(b))

-----------------------------------------------------------------------------
(* DATA-NOTIFICATION at the start of w: a tag, a long invoke id, and a     *)
(* date-time that is absent, an octet string, or a bare length with data.  *)
(* (A seeded mistake first: the bare length is not known.)                 *)
HeaderEndTagged(w) == IF At(w, 5) = OCTET_STRING THEN 7 + At(w, 6) ELSE 6

HeaderEnd(w) ==
  IF At(w, 5) = OCTET_STRING THEN 7 + At(w, 6)
  ELSE 6 + At(w, 5)

Notified(w) ==
  IF /\ Len(w) > 5 /\ (At(w, 5) = OCTET_STRING => Len(w) > 6)
     /\ HeaderEnd(w) < Len(w)
  THEN From(w, HeaderEnd(w)) ELSE << >>

-----------------------------------------------------------------------------
(* A block at p of b: E0, control, number, number acknowledged, length.    *)
AtBlock(b, p) == p < Len(b) /\ At(b, p) = GENERAL_BLOCK_TRANSFER

BlockLen(b, p) == BerLength(b, p + 6)
BlockData(b, p) == BerEnd(b, p + 6)
BlockEnd(b, p) == BlockData(b, p) + BlockLen(b, p)

BlockFits(b, p) == p + 6 <= Len(b) /\ BlockEnd(b, p) <= Len(b)

IsLast(b, p) == Bit(At(b, p + 1), 128)

-----------------------------------------------------------------------------
(* A ciphered APDU at the start of w: tag, system title, length, security  *)
(* control byte, frame counter, the bytes, and perhaps a tag.              *)
CipherLen(w) == BerLength(w, 2 + SYSTITLE_LENGTH)
SecurityPos(w) == BerEnd(w, 2 + SYSTITLE_LENGTH)
CipherPos(w) == SecurityPos(w) + LENGTH_CORRECTION

HasAuthTag(w) == Bit(At(w, SecurityPos(w)), 16)
TagLen(w) == IF HasAuthTag(w) THEN GCM_TAG_LENGTH ELSE 0
PayloadLen(w) == CipherLen(w) - LENGTH_CORRECTION - TagLen(w)

CipherHeaderOk(w) ==
  /\ Len(w) >= 2 + SYSTITLE_LENGTH /\ At(w, 1) = SYSTITLE_LENGTH
  /\ CipherLen(w) # 0
  /\ CipherPos(w) <= Len(w)
  /\ PayloadLen(w) >= 0
  /\ CipherPos(w) + PayloadLen(w) + TagLen(w) <= Len(w)

Nonce(w) == Subspan(w, 2, SYSTITLE_LENGTH) \o Subspan(w, SecurityPos(w) + 1, 4)
Cipher(w) == Subspan(w, CipherPos(w), PayloadLen(w))
GcmTag(w) == Subspan(w, CipherPos(w) + PayloadLen(w), TagLen(w))

Deciphered(w, key) == Plain(key, Nonce(w), Cipher(w))

(* A seeded mistake: the tag is not verified.                              *)
AcceptedUnverified(w, key, auth) == TRUE

(* The tag is verified only if there is one and a key for it: the other    *)
(* data is the security control byte and that key.                         *)
Accepted(w, key, auth) ==
  HasAuthTag(w) /\ auth # NoKey =>
    Authentic(key, Nonce(w), Cipher(w), <<At(w, SecurityPos(w)), auth>>, GcmTag(w))

-----------------------------------------------------------------------------
Init ==
  /\ decryption_key = NoKey /\ auth_key = NoKey
  /\ layer = << >> /\ buf = << >>
  /\ iter = 0 /\ read_pos = 0 /\ write_pos = 0 /\ is_last = FALSE
  /\ library_failed = FALSE
  /\ status = "idle" /\ result = << >>

Call(bytes, key, auth) ==
  /\ status = "idle"
  /\ decryption_key' = key /\ auth_key' = auth
  /\ layer' = bytes /\ buf' = bytes
  /\ iter' = 0 /\ library_failed' = FALSE
  /\ status' = "unwrapping"
  /\ UNCHANGED <<blocks, result>>

window == Tagged[buf]

Finish(span) ==
  /\ status' = "done"
  /\ result' = span
  /\ UNCHANGED <<keys, layer, buf, iter, blocks, library_failed>>

Descend(span) ==
  /\ layer' = span /\ buf' = span
  /\ iter' = iter + 1
  /\ status' = "unwrapping"
  /\ UNCHANGED <<keys, library_failed, result>>

(* A seeded mistake: one turn too many.                                    *)
MeetsOnceMore(tags) ==
  /\ status = "unwrapping" /\ iter <= MAX_ITERATIONS
  /\ HasTag(buf)
  /\ At(window, 0) \in tags

Meets(tags) ==
  /\ status = "unwrapping" /\ iter < MAX_ITERATIONS
  /\ HasTag(buf)
  /\ At(window, 0) \in tags

NoTag ==
  /\ status = "unwrapping" /\ iter < MAX_ITERATIONS
  /\ ~ HasTag(buf)
  /\ Finish(<< >>)

RawAxdr ==
  /\ Meets(Containers)
  /\ Finish(window)

Notification ==
  /\ Meets({DATA_NOTIFICATION})
  /\ Finish(Notified(window))

Exhausted ==
  /\ status = "unwrapping" /\ iter = MAX_ITERATIONS
  /\ Finish(<< >>)

StartBlocks ==
  /\ Meets({GENERAL_BLOCK_TRANSFER})
  /\ buf' = window
  /\ read_pos' = 0 /\ write_pos' = 0 /\ is_last' = FALSE
  /\ status' = "blocks"
  /\ UNCHANGED <<keys, layer, iter, library_failed, result>>

(* A seeded mistake: blocks are read on after the last one.                *)
MoreBlocksAnyhow == AtBlock(buf, read_pos)

MoreBlocks == ~ is_last /\ AtBlock(buf, read_pos)

(* A seeded mistake: a block is written behind itself.                     *)
TakeBlockBehind ==
  /\ status = "blocks" /\ MoreBlocks
  /\ BlockFits(buf, read_pos)
  /\ buf' = CopyTo(buf, Subspan(buf, BlockData(buf, read_pos), BlockLen(buf, read_pos)),
                   BlockEnd(buf, read_pos))
  /\ write_pos' = write_pos + BlockLen(buf, read_pos)
  /\ read_pos' = BlockEnd(buf, read_pos)
  /\ is_last' = IsLast(buf, read_pos)
  /\ UNCHANGED <<keys, layer, iter, library_failed, status, result>>

TakeBlock ==
  /\ status = "blocks" /\ MoreBlocks
  /\ BlockFits(buf, read_pos)
  /\ buf' = CopyTo(buf, Subspan(buf, BlockData(buf, read_pos), BlockLen(buf, read_pos)),
                   write_pos)
  /\ write_pos' = write_pos + BlockLen(buf, read_pos)
  /\ read_pos' = BlockEnd(buf, read_pos)
  /\ is_last' = IsLast(buf, read_pos)
  /\ UNCHANGED <<keys, layer, iter, library_failed, status, result>>

(* A seeded mistake: a truncated block is tried again.                     *)
TruncatedBlockRetried ==
  /\ status = "blocks" /\ MoreBlocks
  /\ ~ BlockFits(buf, read_pos)
  /\ UNCHANGED vars

TruncatedBlock ==
  /\ status = "blocks" /\ MoreBlocks
  /\ ~ BlockFits(buf, read_pos)
  /\ Finish(<< >>)

Reassembled ==
  /\ status = "blocks" /\ ~ MoreBlocks
  /\ write_pos > 0
  /\ Descend(Subspan(buf, 0, write_pos))
  /\ UNCHANGED blocks

NothingReassembled ==
  /\ status = "blocks" /\ ~ MoreBlocks
  /\ write_pos = 0
  /\ Finish(<< >>)

CannotDecipher ==
  /\ Meets(Ciphering)
  /\ decryption_key = NoKey \/ \E w \in {window} : ~ CipherHeaderOk(w)
  /\ Finish(<< >>)

Decipher ==
  /\ Meets(Ciphering)
  /\ decryption_key # NoKey
  /\ \E w \in {window} :
       /\ CipherHeaderOk(w)
       /\ Accepted(w, decryption_key, auth_key)
       /\ \E plain \in {Deciphered(w, decryption_key)} : Descend(plain)
  /\ UNCHANGED blocks

(* The tag does not fit, or the library fails: by then it may have written *)
(* the plain bytes, or zeros, over the buffer.                             *)
DecipherFails ==
  /\ Meets(Ciphering)
  /\ decryption_key # NoKey
  /\ \E w \in {window} :
       /\ CipherHeaderOk(w)
       /\ library_failed' = Accepted(w, decryption_key, auth_key)
       /\ \E left \in {Cipher(w), Deciphered(w, decryption_key),
                       [i \in 1 .. PayloadLen(w) |-> 0]} :
            buf' = CopyTo(buf, left, FirstTag(buf) + CipherPos(w))
  /\ status' = "done"
  /\ result' = << >>
  /\ UNCHANGED <<keys, layer, iter, blocks>>

Unwrap ==
  \/ NoTag \/ RawAxdr \/ Notification \/ Exhausted
  \/ StartBlocks \/ TakeBlock \/ TruncatedBlock
  \/ Reassembled \/ NothingReassembled
  \/ CannotDecipher \/ Decipher \/ DecipherFails

Next ==
  \/ \E a \in Seq(Byte), key, auth \in Keys \cup {NoKey} : Call(a, key, auth)
  \/ Unwrap

Spec == Init /\ [][Next]_vars /\ WF_vars(Unwrap)

-----------------------------------------------------------------------------
TypeOK ==
  /\ decryption_key \in Keys \cup {NoKey} /\ auth_key \in Keys \cup {NoKey}
  /\ layer \in Seq(Byte) /\ buf \in Seq(Byte) /\ Len(buf) <= Len(layer)
  /\ iter \in 0 .. MAX_ITERATIONS
  /\ read_pos \in Nat /\ write_pos \in Nat /\ is_last \in BOOLEAN
  /\ status = "blocks" => read_pos <= Len(buf) /\ write_pos <= Len(buf)
  /\ library_failed \in BOOLEAN
  /\ status \in {"idle", "unwrapping", "blocks", "done"}
  /\ result \in Seq(Byte)

(* Blocks are moved to the front of the buffer they are read from, and the *)
(* bytes of later blocks, their headers included, are there as they came   *)
(* when the loop gets to them (apdu_handler.cpp:117).                      *)
InPlaceSafe ==
  status = "blocks" =>
    /\ HasTag(layer) /\ Len(buf) = Len(Tagged[layer])
    /\ write_pos <= read_pos
    /\ From(buf, read_pos) = From(Tagged[layer], read_pos)

(* What a wrapper holds, told from bytes that do not change.               *)
Rest(w) ==
  LET rest[p \in 0 .. Len(w)] ==
        IF ~ AtBlock(w, p) THEN {<< >>}
        ELSE IF ~ BlockFits(w, p) THEN {}
        ELSE {Subspan(w, BlockData(w, p), BlockLen(w, p)) \o more :
                more \in IF IsLast(w, p) THEN {<< >>} ELSE rest[BlockEnd(w, p)]}
  IN  rest

Joined(w) == Rest(w)[0] \ {<< >>}

Inside(bytes, keyring) ==
  LET w == Tagged[bytes]
  IN  IF At(w, 0) = GENERAL_BLOCK_TRANSFER THEN Joined(w)
      ELSE {Deciphered(w, key) :
              key \in {k \in {keyring[1]} \ {NoKey} :
                         CipherHeaderOk(w) /\ Accepted(w, k, keyring[2])}}

IsFinal(bytes) ==
  ~ HasTag(bytes) \/ At(Tagged[bytes], 0) \in Containers \cup {DATA_NOTIFICATION}

Data(bytes) ==
  IF ~ HasTag(bytes) THEN << >>
  ELSE IF At(Tagged[bytes], 0) \in Containers THEN Tagged[bytes]
  ELSE Notified(Tagged[bytes])

Fallible(bytes) == At(Tagged[bytes], 0) \in Ciphering

(* The handler opens one wrapper after another, as if each were opened     *)
(* into a buffer of its own: what it gives back is the data in the         *)
(* innermost one, or nothing.                                              *)
Layers == INSTANCE ApduLayers WITH
  Apdus <- Seq(Byte),
  keyring <- keys, depth <- iter,
  status <- IF status = "blocks" THEN "unwrapping" ELSE status

RefinesLayers == Layers!Spec

(* Whatever is handed to it, the handler returns: every turn of its loops  *)
(* uses up bytes or one of the turns allowed (apdu_handler.cpp:42, 100).   *)
Terminates == status \in {"unwrapping", "blocks"} ~> status = "done"

=============================================================================
