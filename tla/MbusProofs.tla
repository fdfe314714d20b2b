----------------------------- MODULE MbusProofs -----------------------------
(***************************************************************************)
(* For every set of telegrams: the M-Bus decoder stays inside its buffer,  *)
(* never overwrites a byte it has not read, and implements FrameStream.    *)
(* And for every set of messages a meter may push: what the decoder makes  *)
(* of them when the line delivers them, loses or repeats a frame, falls    *)
(* silent or flips a bit.                                                  *)
(***************************************************************************)
EXTENDS MbusPush, SpansProofs

LEMMA ByteIsNat ==
  ASSUME NEW x \in Byte
  PROVE  x \in Nat
  BY DEF Byte

(* A frame the loop takes lies in what remains, and its payload is shorter *)
(* than the frame.                                                         *)
LEMMA FrameFits ==
  ASSUME NEW r \in Seq(Byte), NEW skip \in BOOLEAN, FrameOk(r, skip)
  PROVE  /\ FrameSize(r) \in Nat
         /\ 0 < FrameSize(r) /\ FrameSize(r) <= Len(r)
         /\ Payload(r) \in Seq(Byte)
         /\ Len(Payload(r)) <= FrameSize(r)
<1>1. MBUS_INTRO = 4 /\ MBUS_HEADER = 9 /\ MBUS_FOOTER = 2
  BY DEF MBUS_INTRO, MBUS_HEADER, MBUS_FOOTER
<1>2. 4 <= Len(r) /\ FrameSize(r) <= Len(r)
  BY <1>1 DEF FrameOk
<1>3. L(r) \in Nat
  <2>1. r[2] \in Byte
    BY <1>2
  <2> QED
    BY <2>1, ByteIsNat DEF L, At
<1>4. FrameSize(r) = L(r) + 6
  BY <1>1, <1>3 DEF FrameSize
<1>5. CASE 9 < 4 + L(r)
  <2>1. Payload(r) = SubSeq(r, 10, 4 + L(r))
    BY <1>1, <1>3, <1>5 DEF Payload, Subspan
  <2>2. /\ SubSeq(r, 10, 4 + L(r)) \in Seq(Byte)
        /\ Len(SubSeq(r, 10, 4 + L(r))) = L(r) - 5
    BY <1>2, <1>3, <1>4, <1>5
  <2> QED
    BY <1>2, <1>3, <1>4, <2>1, <2>2
<1>6. CASE ~ (9 < 4 + L(r))
  <2>1. Payload(r) = << >>
    BY <1>1, <1>6 DEF Payload
  <2> QED
    BY <1>2, <1>3, <1>4, <2>1
<1> QED
  BY <1>5, <1>6

-----------------------------------------------------------------------------
Inv == TypeOK /\ InPlaceSafe

LEMMA InitInv == Init => Inv
<1> SUFFICES ASSUME Init PROVE Inv
  OBVIOUS
<1>1. << >> \in Seq(Byte) /\ Len(<< >>) = 0
  OBVIOUS
<1>2. telegram = << >> /\ buf = << >> /\ result = << >>
  BY DEF Init
<1>3. telegram \in Seq(Byte) /\ buf \in Seq(Byte) /\ result \in Seq(Byte)
  BY <1>1, <1>2
<1>4. read_offset \in 0 .. Len(buf) /\ write_offset \in 0 .. Len(buf)
  BY <1>1, <1>2 DEF Init
<1>5. TypeOK
  BY <1>2, <1>3, <1>4 DEF Init, TypeOK
<1>6. InPlaceSafe
  BY DEF Init, InPlaceSafe
<1> QED
  BY <1>5, <1>6 DEF Inv

LEMMA RemainingType ==
  ASSUME TypeOK
  PROVE  remaining \in Seq(Byte) /\ Len(remaining) = Len(buf) - read_offset
  BY DEF TypeOK, remaining, From

LEMMA CallInv ==
  ASSUME NEW t \in Seq(Byte), NEW skip \in BOOLEAN, TypeOK, Call(t, skip)
  PROVE  Inv'
  BY DEF Call, Inv, TypeOK, InPlaceSafe

LEMMA TakeFrameEffect ==
  ASSUME Inv, TakeFrame
  PROVE  LET payload == Payload(remaining)
         IN  /\ payload \in Seq(Byte)
             /\ buf' = CopyTo(buf, payload, write_offset)
             /\ write_offset' = write_offset + Len(payload)
             /\ write_offset' <= read_offset' /\ read_offset' <= Len(buf)
             /\ read_offset' \in Nat /\ write_offset' \in Nat
             /\ read_offset < read_offset'
             /\ buf' \in Seq(Byte) /\ Len(buf') = Len(buf)
<1> DEFINE payload == Payload(remaining)
<1>1. /\ remaining \in Seq(Byte) /\ Len(remaining) = Len(buf) - read_offset
      /\ skip_crc_check \in BOOLEAN
      /\ read_offset \in Nat /\ write_offset \in Nat
      /\ write_offset <= read_offset /\ buf \in Seq(Byte)
  BY RemainingType DEF Inv, TypeOK, InPlaceSafe
<1>2. FrameOk(remaining, skip_crc_check)
  BY DEF TakeFrame
<1>3. /\ FrameSize(remaining) \in Nat /\ 0 < FrameSize(remaining)
      /\ FrameSize(remaining) <= Len(remaining)
      /\ payload \in Seq(Byte) /\ Len(payload) <= FrameSize(remaining)
  BY <1>1, <1>2, FrameFits
<1>4. /\ buf' = CopyTo(buf, payload, write_offset)
      /\ write_offset' = write_offset + Len(payload)
      /\ read_offset' = read_offset + FrameSize(remaining)
  BY DEF TakeFrame
<1> HIDE DEF payload
<1>5. buf' \in Seq(Byte) /\ Len(buf') = Len(buf)
  BY <1>1, <1>3, <1>4, CopyToType
<1> QED
  BY <1>1, <1>3, <1>4, <1>5 DEF payload

LEMMA TakeFrameInv ==
  ASSUME Inv, TakeFrame
  PROVE  Inv'
<1> DEFINE payload == Payload(remaining)
<1>1. /\ payload \in Seq(Byte)
      /\ buf' = CopyTo(buf, payload, write_offset)
      /\ write_offset' = write_offset + Len(payload)
      /\ write_offset' <= read_offset' /\ read_offset' <= Len(buf)
      /\ read_offset' \in Nat /\ write_offset' \in Nat
      /\ read_offset < read_offset'
      /\ buf' \in Seq(Byte) /\ Len(buf') = Len(buf)
  BY TakeFrameEffect
<1> HIDE DEF payload
<1>2. UNCHANGED <<telegram, skip_crc_check, status, result>>
  BY DEF TakeFrame
<1>3. TypeOK'
  BY <1>1, <1>2 DEF Inv, TypeOK
<1>4. From(buf', read_offset') = From(telegram', read_offset')
  <2>1. From(buf', read_offset') = From(buf, read_offset')
    BY <1>1, CopyToTail DEF Inv, TypeOK
  <2>2. From(buf, read_offset') = From(telegram, read_offset')
    BY <1>1, FromLater DEF Inv, TypeOK, InPlaceSafe
  <2> QED
    BY <1>2, <2>1, <2>2
<1> QED
  BY <1>1, <1>3, <1>4 DEF Inv, InPlaceSafe

LEMMA ReturnsInv ==
  ASSUME Inv, Reject \/ Return
  PROVE  Inv'
<1>1. Subspan(buf, 0, write_offset) \in Seq(Byte) /\ << >> \in Seq(Byte)
  BY DEF Inv, TypeOK, Subspan
<1>2. result' \in Seq(Byte)
  BY <1>1 DEF Reject, Return, Finish
<1>3. /\ status' = "done"
      /\ UNCHANGED <<telegram, skip_crc_check, buf, read_offset, write_offset>>
  BY DEF Reject, Return, Finish
<1> QED
  BY <1>2, <1>3 DEF Inv, TypeOK, InPlaceSafe

LEMMA NextInv == Inv /\ [Next]_vars => Inv'
<1> SUFFICES ASSUME Inv, [Next]_vars PROVE Inv'
  OBVIOUS
<1>1. CASE TakeFrame
  BY <1>1, TakeFrameInv
<1>2. CASE Reject \/ Return
  BY <1>2, ReturnsInv
<1>3. ASSUME NEW t \in Seq(Byte), NEW skip \in BOOLEAN, Call(t, skip)
      PROVE  Inv'
  BY <1>3, CallInv DEF Inv
<1>4. CASE UNCHANGED vars
  BY <1>4 DEF vars, Inv, TypeOK, InPlaceSafe
<1> QED
  BY <1>1, <1>2, <1>3, <1>4 DEF Next, Decode

LEMMA InvAlways == Spec => []Inv
  BY InitInv, NextInv, PTL DEF Spec

(* The offsets stay inside the buffer and the buffer keeps its length,     *)
(* whatever bytes were received.                                           *)
THEOREM MbusTypeCorrect == Spec => []TypeOK
<1>1. Inv => TypeOK
  BY DEF Inv
<1> QED
  BY <1>1, InvAlways, PTL

(* No byte of a telegram is overwritten before the loop has read it.       *)
THEOREM MbusInPlaceSafe == Spec => []InPlaceSafe
<1>1. Inv => InPlaceSafe
  BY DEF Inv
<1> QED
  BY <1>1, InvAlways, PTL

(* A turn of the loop that is not the last one.                            *)
ReadsOn == Len(buf') = Len(buf) /\ read_offset < read_offset'

(* Every turn of the loop reads on in a buffer that does not become longer,*)
(* or the call returns, whatever lengths the frames claim.                 *)
THEOREM MbusTurnsReadOn ==
  ASSUME Inv, Decode
  PROVE  status' = "done" \/ ReadsOn
<1>1. CASE TakeFrame
  BY <1>1, TakeFrameEffect DEF ReadsOn
<1>2. CASE Reject \/ Return
  BY <1>2 DEF Reject, Return, Finish
<1> QED
  BY <1>1, <1>2 DEF Decode

-----------------------------------------------------------------------------
LEMMA SameRest ==
  ASSUME Inv
  PROVE  Stream!Rest = remaining
  BY DEF Inv, InPlaceSafe, Stream!Rest, Stream!From, From, remaining

LEMMA CallIsStart ==
  ASSUME NEW t \in Seq(Byte), NEW skip \in BOOLEAN, Call(t, skip)
  PROVE  Stream!Start
<1>1. Subspan(t, 0, 0) = << >>
  BY DEF Subspan
<1>2. Subspan(buf, 0, write_offset)' = << >>
  BY <1>1 DEF Call
<1> QED
  BY <1>2 DEF Call, Stream!Start

LEMMA TakeIsTake ==
  ASSUME Inv, TakeFrame
  PROVE  Stream!Take
<1> DEFINE payload == Payload(remaining)
<1>1. /\ payload \in Seq(Byte)
      /\ buf' = CopyTo(buf, payload, write_offset)
      /\ write_offset' = write_offset + Len(payload)
      /\ write_offset' <= Len(buf)
      /\ read_offset < read_offset' /\ read_offset' \in Nat
  BY TakeFrameEffect DEF Inv, TypeOK
<1>2. buf \in Seq(Byte) /\ write_offset \in Nat /\ read_offset \in Nat
  BY DEF Inv, TypeOK
<1>3. Subspan(buf, 0, write_offset)' = Subspan(buf, 0, write_offset) \o payload
  <2> HIDE DEF payload
  <2> QED
    BY <1>1, <1>2, CopyToFront
<1>4. (read_offset = 0)' = FALSE
  BY <1>1, <1>2
<1>5. FrameOk(remaining, skip_crc_check) /\ ~ Stops(remaining)
  BY DEF TakeFrame
<1> QED
  BY <1>3, <1>4, <1>5, SameRest DEF TakeFrame, Stream!Take

(* A call of the decoder does what a decoder with an output buffer of its  *)
(* own would do, for every telegram: the same payloads in the same order,  *)
(* and all of them or nothing.                                             *)
THEOREM MbusRefinesStream == Spec => RefinesStream
<1>1. Init => Stream!Init
  BY DEF Init, Stream!Init, Subspan
<1>2. Inv /\ [Next]_vars => [Stream!Next]_Stream!vars
  <2> SUFFICES ASSUME Inv, [Next]_vars PROVE [Stream!Next]_Stream!vars
    OBVIOUS
  <2>1. CASE TakeFrame
    BY <2>1, TakeIsTake DEF Stream!Next
  <2>2. CASE Reject
    BY <2>2, SameRest DEF Reject, Finish, Stream!Reject, Stream!Deliver,
                          Stream!Next
  <2>3. CASE Return
    BY <2>3, SameRest DEF Return, Finish, Stream!Finish, Stream!Deliver,
                          Stream!Next
  <2>4. ASSUME NEW t \in Seq(Byte), NEW skip \in BOOLEAN, Call(t, skip)
        PROVE  Stream!Next
    BY <2>4, CallIsStart DEF Stream!Next
  <2>5. CASE UNCHANGED vars
    BY <2>5 DEF vars, Stream!vars
  <2> QED
    BY <2>1, <2>2, <2>3, <2>4, <2>5 DEF Next, Decode
<1> QED
  BY <1>1, <1>2, InvAlways, PTL DEF Spec, RefinesStream, Stream!Spec

-----------------------------------------------------------------------------
(* The checksum: the sum of the bytes from C to the end of the data, in a  *)
(* byte.                                                                   *)

(* The bytes of g behind the first off, added up in a byte.                *)
RunningSum(f, g, off, n) ==
  f[0] = 0 /\ \A i \in 1 .. n : f[i] = (f[i - 1] + g[off + i]) % 256

(* The n bytes behind the first off of g and the first off2 of h are the   *)
(* same.                                                                   *)
AgreeFor(g, off, h, off2, n) == \A i \in 1 .. n : g[off + i] = h[off2 + i]

(* A byte, without the literal interval the provers would expand.          *)
LEMMA ByteIs == Byte = {x \in Nat : x <= 255}
  BY DEF Byte

(* Sums in a byte are bytes.                                               *)
LEMMA ByteSum ==
  ASSUME NEW x \in Byte, NEW y \in Byte
  PROVE  (x + y) % 256 \in Byte
  BY DEF Byte

(* Adding in a byte loses nothing: a sum and one summand determine the     *)
(* other.                                                                  *)
LEMMA SumDetermines ==
  ASSUME NEW x \in Byte, NEW y \in Byte, NEW a \in Byte, NEW b \in Byte,
         (x + a) % 256 = (y + b) % 256
  PROVE  (x = y => a = b) /\ (a = b => x = y)
<1>1. ASSUME NEW s \in Nat, s <= 510
      PROVE  s % 256 = IF s <= 255 THEN s ELSE s - 256
  BY <1>1
<1>2. /\ x + a \in Nat /\ x + a <= 510 /\ y + b \in Nat /\ y + b <= 510
      /\ x \in Nat /\ y \in Nat /\ a \in Nat /\ b \in Nat
      /\ x <= 255 /\ y <= 255 /\ a <= 255 /\ b <= 255
  BY DEF Byte
<1>3. /\ (x + a) % 256 = IF x + a <= 255 THEN x + a ELSE x + a - 256
      /\ (y + b) % 256 = IF y + b <= 255 THEN y + b ELSE y + b - 256
  BY <1>1, <1>2
<1> QED
  BY <1>2, <1>3

(* There is such a sum.                                                    *)
LEMMA SumExists ==
  ASSUME NEW n \in Nat, NEW g, NEW off \in Nat, \A i \in 1 .. n : g[off + i] \in Byte
  PROVE  \E f \in [0 .. n -> Byte] : RunningSum(f, g, off, n)
<1> DEFINE add == [x \in Byte |-> [y \in Byte |-> (x + y) % 256]]
           G == [i \in 1 .. n |-> [x \in Byte |-> add[x][g[off + i]]]]
<1>1. ASSUME NEW x \in Byte, NEW y \in Byte
      PROVE  add[x][y] = (x + y) % 256 /\ add[x][y] \in Byte
  BY ByteSum
<1> HIDE DEF add
<1>2. ASSUME NEW i \in 1 .. n, NEW x \in Byte
      PROVE  G[i][x] = (x + g[off + i]) % 256
  <2>1. G[i][x] = add[x][g[off + i]]
    OBVIOUS
  <2> HIDE DEF G
  <2> QED
    BY <1>1, <2>1
<1>3. G \in [0 + 1 .. n -> [Byte -> Byte]]
  <2>1. \A i \in 0 + 1 .. n : [x \in Byte |-> add[x][g[off + i]]] \in [Byte -> Byte]
    <3> SUFFICES ASSUME NEW i \in 0 + 1 .. n, NEW x \in Byte
                 PROVE  add[x][g[off + i]] \in Byte
      OBVIOUS
    <3>1. i \in 1 .. n
      OBVIOUS
    <3> QED
      BY <1>1, <3>1
  <2>2. 0 + 1 .. n = 1 .. n
    OBVIOUS
  <2> QED
    BY <2>1, <2>2
<1> HIDE DEF G
<1>4. PICK f \in [0 .. n -> Byte] : Iterates(f, 0, n, 0, G)
  <2>1. 0 \in Nat /\ 0 <= n /\ 0 \in Byte
    BY ByteIs
  <2> QED
    BY <1>3, <2>1, IterationExists, Zenon
<1>5. ASSUME NEW i \in 1 .. n
      PROVE  f[i] = (f[i - 1] + g[off + i]) % 256
  <2>1. i \in 0 + 1 .. n /\ i - 1 \in 0 .. n
    OBVIOUS
  <2>2. f[i] = G[i][f[i - 1]]
    BY <1>4, <2>1 DEF Iterates
  <2>3. f[i - 1] \in Byte
    BY <2>1
  <2> QED
    BY <1>2, <2>2, <2>3
<1>6. f[0] = 0
  BY <1>4 DEF Iterates
<1>7. RunningSum(f, g, off, n)
  BY <1>5, <1>6 DEF RunningSum
<1> QED
  BY <1>7

(* Of the same bytes there is one sum.                                     *)
LEMMA SumSame ==
  ASSUME NEW n \in Nat, NEW f, NEW g, NEW off \in Nat, RunningSum(f, g, off, n),
         NEW f2, NEW g2, NEW off2 \in Nat, RunningSum(f2, g2, off2, n),
         AgreeFor(g, off, g2, off2, n)
  PROVE  f[n] = f2[n]
<1> DEFINE T == {i \in 0 .. n : f[i] = f2[i]}
<1>1. 0 \in T
  BY DEF RunningSum
<1>2. ASSUME NEW i \in 0 + 1 .. n, i - 1 \in T PROVE i \in T
  <2>1. i \in 1 .. n /\ i \in 0 .. n
    OBVIOUS
  <2>2. f[i - 1] = f2[i - 1] /\ g[off + i] = g2[off2 + i]
    BY <1>2, <2>1 DEF AgreeFor
  <2>3. f[i] = (f[i - 1] + g[off + i]) % 256 /\ f2[i] = (f2[i - 1] + g2[off2 + i]) % 256
    BY <2>1 DEF RunningSum
  <2> QED
    BY <2>1, <2>2, <2>3
<1>3. 0 .. n \subseteq T
  <2> HIDE DEF T
  <2>1. 0 \in Nat
    OBVIOUS
  <2> QED
    BY <1>1, <1>2, <2>1, IntervalInduction
<1>4. n \in 0 .. n
  OBVIOUS
<1> QED
  BY <1>3, <1>4

(* The n bytes behind the first off of g and h differ at k and nowhere     *)
(* else.                                                                   *)
DifferAt(g, h, off, n, k) ==
  /\ g[off + k] # h[off + k]
  /\ \A i \in 1 .. n : g[off + i] \in Byte /\ h[off + i] \in Byte
  /\ \A i \in 1 .. n : i # k => g[off + i] = h[off + i]

(* Bytes that differ in one place have different sums.                     *)
LEMMA SumDiffers ==
  ASSUME NEW n \in Nat, NEW g, NEW h, NEW off \in Nat,
         NEW e \in [0 .. n -> Byte], RunningSum(e, g, off, n),
         NEW f \in [0 .. n -> Byte], RunningSum(f, h, off, n),
         NEW k \in 1 .. n, DifferAt(g, h, off, n, k)
  PROVE  e[n] # f[n]
<1>0. /\ g[off + k] # h[off + k]
      /\ \A i \in 1 .. n : g[off + i] \in Byte /\ h[off + i] \in Byte
      /\ \A i \in 1 .. n : i # k => g[off + i] = h[off + i]
  BY DEF DifferAt
<1>1. k \in Nat /\ 1 <= k /\ k <= n /\ k - 1 \in Nat
  OBVIOUS
<1>2. e[k - 1] = f[k - 1]
  <2>1. RunningSum(e, g, off, k - 1) /\ RunningSum(f, h, off, k - 1)
    BY <1>1 DEF RunningSum
  <2>2. \A i \in 1 .. k - 1 : g[off + i] = h[off + i]
    BY <1>0, <1>1
  <2> DEFINE j == k - 1
  <2>3. j \in Nat /\ off \in Nat /\ RunningSum(e, g, off, j) /\ RunningSum(f, h, off, j)
        /\ AgreeFor(g, off, h, off, j)
    BY <1>1, <2>1, <2>2 DEF AgreeFor
  <2> HIDE DEF j
  <2>4. e[j] = f[j]
    <3>1. ASSUME NEW a, NEW b, RunningSum(a, g, off, j), RunningSum(b, h, off, j)
          PROVE  a[j] = b[j]
      BY <2>3, <3>1, SumSame
    <3> QED
      BY <2>3, <3>1
  <2> QED
    BY <2>4 DEF j
<1>3. ASSUME NEW x \in Byte, NEW y \in Byte, NEW a \in Byte, NEW b \in Byte,
             (x + a) % 256 = (y + b) % 256
      PROVE  (x = y => a = b) /\ (a = b => x = y)
  BY <1>3, SumDetermines
<1>4. ASSUME NEW i \in 1 .. n
      PROVE  /\ e[i] = (e[i - 1] + g[off + i]) % 256 /\ f[i] = (f[i - 1] + h[off + i]) % 256
             /\ e[i - 1] \in Byte /\ f[i - 1] \in Byte /\ e[i] \in Byte /\ f[i] \in Byte
             /\ g[off + i] \in Byte /\ h[off + i] \in Byte
  <2>1. i - 1 \in 0 .. n /\ i \in 0 .. n
    OBVIOUS
  <2>2. e[i] = (e[i - 1] + g[off + i]) % 256 /\ f[i] = (f[i - 1] + h[off + i]) % 256
    BY DEF RunningSum
  <2> QED
    BY <1>0, <2>1, <2>2
<1>5. e[k] # f[k]
  BY <1>0, <1>2, <1>3, <1>4
<1> DEFINE T == {i \in k .. n : e[i] # f[i]}
<1>6. k \in T
  BY <1>1, <1>5
<1>7. ASSUME NEW i \in k + 1 .. n, i - 1 \in T PROVE i \in T
  <2>1. i \in 1 .. n /\ i # k /\ i \in k .. n
    BY <1>1
  <2>2. e[i - 1] # f[i - 1] /\ g[off + i] = h[off + i]
    BY <1>0, <1>7, <2>1
  <2>3. /\ e[i] = (e[i - 1] + g[off + i]) % 256 /\ f[i] = (f[i - 1] + h[off + i]) % 256
        /\ e[i - 1] \in Byte /\ f[i - 1] \in Byte
        /\ g[off + i] \in Byte /\ h[off + i] \in Byte
    BY <1>4, <2>1
  <2>4. e[i] # f[i]
    BY <1>3, <2>2, <2>3
  <2> QED
    BY <2>1, <2>4
<1>8. k .. n \subseteq T
  <2> HIDE DEF T
  <2> QED
    BY <1>1, <1>6, <1>7, IntervalInduction
<1>9. n \in k .. n
  BY <1>1
<1> QED
  BY <1>8, <1>9

(* The receiver's sum and the meter's are such sums.                       *)
LEMMA ChecksumUnfold ==
  ASSUME NEW r, NEW n \in Nat, L(r) = n, \A i \in 1 .. n : r[4 + i] \in Byte
  PROVE  \E f \in [0 .. n -> Byte] : RunningSum(f, r, 4, n) /\ Checksum(r) = f[n]
<1> DEFINE P(f) == f = [i \in 0 .. L(r) |->
                          IF i = 0 THEN 0 ELSE (f[i - 1] + At(r, MBUS_INTRO + i - 1)) % 256]
           h == CHOOSE f : P(f)
<1>1. PICK g \in [0 .. n -> Byte] : RunningSum(g, r, 4, n)
  BY SumExists
<1>2. \A i \in 1 .. n : At(r, MBUS_INTRO + i - 1) = r[4 + i]
  BY DEF At, MBUS_INTRO
<1>3. P(g)
  <2>1. ASSUME NEW i \in 0 .. n
        PROVE  g[i] = IF i = 0 THEN 0 ELSE (g[i - 1] + At(r, MBUS_INTRO + i - 1)) % 256
    <3>1. CASE i = 0
      BY <1>1, <3>1 DEF RunningSum
    <3>2. CASE i # 0
      <4>1. i \in 1 .. n
        BY <3>2
      <4> QED
        BY <1>1, <1>2, <3>2, <4>1 DEF RunningSum
    <3> QED
      BY <3>1, <3>2
  <2> QED
    BY <2>1
<1>4. P(h)
  <2> HIDE DEF P
  <2> QED
    BY <1>3
<1>5. Checksum(r) = h[n]
  BY Zenon DEF Checksum
<1> HIDE DEF h
<1>6. RunningSum(h, r, 4, n)
  <2>1. \A i \in 1 .. n : i \in 0 .. n /\ i # 0
    OBVIOUS
  <2>2. \A i \in 1 .. n : h[i] = (h[i - 1] + At(r, MBUS_INTRO + i - 1)) % 256
    BY <1>4, <2>1
  <2>3. h[0] = 0
    BY <1>4
  <2> HIDE DEF P
  <2> QED
    BY <1>2, <2>2, <2>3 DEF RunningSum
<1>7. g[n] = h[n]
  <2> HIDE DEF P
  <2> QED
    BY <1>1, <1>6, SumSame DEF AgreeFor
<1> QED
  BY <1>1, <1>5, <1>7

-----------------------------------------------------------------------------
(* Frames: what a meter sends, what the decoder takes and where it ends.   *)

(* The bytes g are a long frame with the data d.                           *)
LongFits(d) == Len(d) + 5 <= 255

(* What `LongFrame' builds, field by field: start bytes, the length twice, *)
(* the data, the checksum and the stop byte.                               *)
IsLong(g, d) ==
  LET n == Len(d) + 5
  IN  /\ g \in Seq(Byte) /\ d \in Seq(Byte) /\ Len(g) = n + 6 /\ LongFits(d)
      /\ g[1] = MBUS_START /\ g[2] = n /\ g[3] = n /\ g[4] = MBUS_START
      /\ \A i \in 1 .. Len(d) : g[9 + i] = d[i]
      /\ \E f \in [0 .. n -> Byte] : RunningSum(f, g, 4, n) /\ g[n + 5] = f[n]
      /\ g[n + 6] = MBUS_STOP

(* What a meter sends is one.                                              *)
LEMMA LongFrameIs ==
  ASSUME NEW d \in Seq(Byte), LongFits(d)
  PROVE  IsLong(LongFrame(d), d)
<1> DEFINE S == Byte
           c == <<83, 255, 0, 1, 103>>
           b == c \o d
           n == Len(b)
           P(f) == f = [i \in 0 .. n |-> IF i = 0 THEN 0 ELSE (f[i - 1] + b[i]) % 256]
           h == CHOOSE f : P(f)
           s == h[n]
           p == <<104, n, n, 104>>
           q == <<s, 22>>
           g == (p \o b) \o q
<1>1. LongFrame(d) = g
  BY Zenon DEF LongFrame
<1> HIDE DEF h
<1>2. c \in Seq(S) /\ Len(c) = 5
  <2>1. 83 \in S /\ 255 \in S /\ 0 \in S /\ 1 \in S /\ 103 \in S
    BY ByteIs
  <2> HIDE DEF S
  <2> QED
    BY <2>1
<1> HIDE DEF c
<1>3. IsConcat(Byte, c, d, b)
  BY <1>2, ConcatIs, Zenon
<1> HIDE DEF b
<1>4. n = Len(d) + 5 /\ n \in Nat /\ Len(d) \in Nat /\ b \in Seq(Byte) /\ n \in Byte
  <2>1. Len(d) \in Nat
    OBVIOUS
  <2>2. b \in Seq(Byte) /\ n = Len(c) + Len(d)
    BY <1>3 DEF IsConcat
  <2> HIDE DEF n
  <2> QED
    BY <1>2, <2>1, <2>2, ByteIs DEF LongFits
<1>5. \A i \in 1 .. Len(d) : b[5 + i] = d[i]
  BY <1>2, <1>3 DEF IsConcat
<1>b. \A i \in 1 .. n : b[i] \in Byte
  BY <1>4
<1> HIDE DEF n
<1>6. PICK f \in [0 .. n -> Byte] : RunningSum(f, b, 0, n)
  <2>1. \A i \in 1 .. n : b[0 + i] \in Byte
    BY <1>b
  <2>2. 0 \in Nat
    OBVIOUS
  <2> QED
    BY <1>4, <2>1, <2>2, SumExists
<1>7. P(f)
  <2>1. ASSUME NEW i \in 0 .. n
        PROVE  f[i] = IF i = 0 THEN 0 ELSE (f[i - 1] + b[i]) % 256
    <3>1. CASE i = 0
      BY <1>6, <3>1 DEF RunningSum
    <3>2. CASE i # 0
      <4>1. i \in 1 .. n /\ 0 + i = i
        BY <3>2
      <4> QED
        BY <1>6, <3>2, <4>1 DEF RunningSum
    <3> QED
      BY <3>1, <3>2
  <2> QED
    BY <2>1
<1>8. P(h)
  <2> HIDE DEF P
  <2> QED
    BY <1>7 DEF h
<1>9. RunningSum(h, b, 0, n)
  <2>1. \A i \in 1 .. n : i \in 0 .. n /\ i # 0 /\ 0 + i = i
    OBVIOUS
  <2>2. \A i \in 1 .. n : h[i] = (h[i - 1] + b[0 + i]) % 256
    BY <1>8, <2>1
  <2>3. h[0] = 0
    BY <1>4, <1>8
  <2> HIDE DEF P
  <2> QED
    BY <2>2, <2>3 DEF RunningSum
<1>10. s = f[n]
  <2> HIDE DEF P
  <2>1. AgreeFor(b, 0, b, 0, n) /\ 0 \in Nat
    BY DEF AgreeFor
  <2> QED
    BY <1>4, <1>6, <1>9, <2>1, SumSame
<1> HIDE DEF P
<1>11. s \in Byte
  <2>1. n \in 0 .. n
    BY <1>4
  <2> QED
    BY <1>6, <1>10, <2>1
<1> HIDE DEF s
<1>12. /\ p \in Seq(S) /\ Len(p) = 4 /\ p[1] = 104 /\ p[2] = n /\ p[3] = n /\ p[4] = 104
       /\ q \in Seq(S) /\ Len(q) = 2 /\ q[1] = s /\ q[2] = 22
  <2>1. 104 \in S /\ n \in S /\ s \in S /\ 22 \in S
    BY <1>4, <1>11, ByteIs
  <2> HIDE DEF S
  <2> QED
    BY <2>1
<1> HIDE DEF p, q
<1>13. IsConcat(Byte, p, b, p \o b) /\ p \o b \in Seq(Byte)
  BY <1>4, <1>12, ConcatIs, Assoc, Zenon
<1>14. IsConcat(Byte, p \o b, q, g)
  BY <1>12, <1>13, ConcatIs, Zenon
<1> DEFINE e == p \o b
<1>15. IsConcat(Byte, p, b, e) /\ IsConcat(Byte, e, q, g)
  BY <1>13, <1>14
<1> HIDE DEF e, g
<1>16. /\ Len(e) = 4 + n /\ (\A i \in 1 .. 4 : e[i] = p[i]) /\ \A i \in 1 .. n : e[4 + i] = b[i]
  BY <1>12, <1>15 DEF IsConcat, n
<1>17. /\ g \in Seq(Byte) /\ Len(g) = n + 6 /\ (\A i \in 1 .. n + 4 : g[i] = e[i])
       /\ \A i \in 1 .. 2 : g[n + 4 + i] = q[i]
  BY <1>4, <1>12, <1>15, <1>16 DEF IsConcat
<1>18. g[1] = 104 /\ g[2] = n /\ g[3] = n /\ g[4] = 104
  <2>1. 1 \in 1 .. n + 4 /\ 2 \in 1 .. n + 4 /\ 3 \in 1 .. n + 4 /\ 4 \in 1 .. n + 4
    BY <1>4
  <2> QED
    BY <1>12, <1>16, <1>17, <2>1
<1>19. g[n + 5] = s /\ g[n + 6] = 22
  <2>1. n + 4 + 1 = n + 5 /\ n + 4 + 2 = n + 6
    BY <1>4
  <2> QED
    BY <1>12, <1>17, <2>1
<1>20. \A i \in 1 .. n : g[4 + i] = b[i]
  <2> SUFFICES ASSUME NEW i \in 1 .. n PROVE g[4 + i] = b[i]
    OBVIOUS
  <2>1. 4 + i \in 1 .. n + 4
    BY <1>4
  <2> QED
    BY <1>16, <1>17, <2>1
<1>21. \A i \in 1 .. Len(d) : g[9 + i] = d[i]
  <2> SUFFICES ASSUME NEW i \in 1 .. Len(d) PROVE g[9 + i] = d[i]
    OBVIOUS
  <2>1. 5 + i \in 1 .. n /\ 9 + i = 4 + (5 + i)
    BY <1>4
  <2> QED
    BY <1>5, <1>20, <2>1
<1>22. RunningSum(f, g, 4, n)
  <2>1. \A i \in 1 .. n : 0 + i = i
    OBVIOUS
  <2> QED
    BY <1>6, <1>20, <2>1 DEF RunningSum
<1>23. n = Len(d) + 5
  BY <1>4
<1>24. IsLong(g, d)
  BY <1>10, <1>17, <1>18, <1>19, <1>21, <1>22, <1>23 DEF IsLong, MBUS_START, MBUS_STOP
<1> QED
  BY <1>1, <1>24 DEF g, e

(* A frame with n bytes in its length field, taken apart.                  *)
Fields(g, d, n) ==
  /\ g \in Seq(Byte) /\ d \in Seq(Byte)
  /\ n \in Nat /\ 5 <= n /\ Len(d) \in Nat /\ Len(g) = n + 6
  /\ g[1] = MBUS_START /\ g[2] = n /\ g[3] = n /\ g[4] = MBUS_START
  /\ \A i \in 1 .. Len(d) : g[9 + i] = d[i]
  /\ \A i \in 1 .. Len(g) : g[i] \in Byte
  /\ \E f \in [0 .. n -> Byte] : RunningSum(f, g, 4, n) /\ g[n + 5] = f[n]
  /\ g[n + 6] = MBUS_STOP

LEMMA LongParts ==
  ASSUME NEW g, NEW d, IsLong(g, d)
  PROVE  Fields(g, d, Len(d) + 5)
<1>1. g \in Seq(Byte) /\ d \in Seq(Byte)
  BY DEF IsLong
<1>2. Len(d) \in Nat /\ \A i \in 1 .. Len(g) : g[i] \in Byte
  BY <1>1
<1> QED
  BY <1>1, <1>2 DEF IsLong, Fields

(* The decoder takes the bytes r for the frame g with the data d.          *)
Reads(r, g, d, skip) ==
  ~ Stops(r) /\ FrameOk(r, skip) /\ FrameSize(r) = Len(g) /\ Payload(r) = d

(* Whatever follows a frame, the decoder takes that frame.                 *)
LEMMA LongReads ==
  ASSUME NEW g, NEW d, IsLong(g, d), NEW u \in Seq(Byte), NEW skip \in BOOLEAN
  PROVE  Reads(g \o u, g, d, skip)
<1> DEFINE n == Len(d) + 5
           r == g \o u
<1>1. /\ g \in Seq(Byte) /\ d \in Seq(Byte)
      /\ n \in Nat /\ 5 <= n /\ Len(d) \in Nat /\ Len(g) = n + 6
      /\ g[1] = MBUS_START /\ g[2] = n /\ g[3] = n /\ g[4] = MBUS_START
      /\ \A i \in 1 .. Len(d) : g[9 + i] = d[i]
      /\ \A i \in 1 .. Len(g) : g[i] \in Byte
      /\ \E f \in [0 .. n -> Byte] : RunningSum(f, g, 4, n) /\ g[n + 5] = f[n]
      /\ g[n + 6] = MBUS_STOP
  <2>1. Fields(g, d, n)
    BY LongParts, Zenon
  <2> QED
    BY <2>1, Zenon DEF Fields
<1>2. IsConcat(Byte, g, u, r)
  BY <1>1, ConcatIs, Zenon
<1>d. n = Len(d) + 5
  OBVIOUS
<1> HIDE DEF r, n
<1>3. r \in Seq(Byte) /\ n + 6 <= Len(r) /\ \A i \in 1 .. n + 6 : r[i] = g[i]
  <2>1. Len(u) \in Nat
    OBVIOUS
  <2> QED
    BY <1>1, <1>2, <2>1 DEF IsConcat
<1>4. At(r, 0) = MBUS_START /\ At(r, 1) = n /\ At(r, 2) = n /\ At(r, 3) = MBUS_START
  <2>1. 1 \in 1 .. n + 6 /\ 2 \in 1 .. n + 6 /\ 3 \in 1 .. n + 6 /\ 4 \in 1 .. n + 6
    BY <1>1
  <2> QED
    BY <1>1, <1>3, <2>1 DEF At
<1>5. L(r) = n
  BY <1>4 DEF L
<1>6. MBUS_INTRO = 4 /\ MBUS_HEADER = 9 /\ MBUS_FOOTER = 2
  BY DEF MBUS_INTRO, MBUS_HEADER, MBUS_FOOTER
<1>7. At(r, MBUS_INTRO + L(r)) = g[n + 5] /\ At(r, MBUS_INTRO + L(r) + 1) = MBUS_STOP
  <2>1. n + 5 \in 1 .. n + 6 /\ n + 6 \in 1 .. n + 6
    BY <1>1
  <2>2. MBUS_INTRO + L(r) + 1 = n + 5 /\ MBUS_INTRO + L(r) + 1 + 1 = n + 6
    BY <1>1, <1>5, <1>6
  <2> QED
    BY <1>1, <1>3, <2>1, <2>2 DEF At
<1>8. Checksum(r) = g[n + 5]
  <2>1. PICK f \in [0 .. n -> Byte] : RunningSum(f, g, 4, n) /\ g[n + 5] = f[n]
    BY <1>1
  <2>2. \A i \in 1 .. n : 4 + i \in 1 .. n + 6
    BY <1>1
  <2>3. \A i \in 1 .. n : r[4 + i] = g[4 + i] /\ r[4 + i] \in Byte
    BY <1>1, <1>3, <2>2
  <2>4. PICK e \in [0 .. n -> Byte] : RunningSum(e, r, 4, n) /\ Checksum(r) = e[n]
    BY <1>1, <1>5, <2>3, ChecksumUnfold
  <2>5. AgreeFor(r, 4, g, 4, n) /\ 4 \in Nat
    BY <2>3 DEF AgreeFor
  <2>6. e[n] = f[n]
    <3>1. ASSUME NEW a, NEW b, RunningSum(a, r, 4, n), RunningSum(b, g, 4, n)
          PROVE  a[n] = b[n]
      BY <1>1, <2>5, <3>1, SumSame
    <3> QED
      BY <2>1, <2>4, <3>1
  <2> QED
    BY <2>1, <2>4, <2>6
<1>9. ~ Stops(r) /\ FrameSize(r) = Len(g)
  BY <1>1, <1>3, <1>4, <1>5, <1>6 DEF Stops, FrameSize
<1>10. FrameOk(r, skip)
  BY <1>1, <1>3, <1>4, <1>5, <1>6, <1>7, <1>8, <1>9 DEF FrameOk
<1>11. Payload(r) = d
  <2>1. CASE Len(d) = 0
    <3>1. d = << >>
      BY <1>1, <2>1
    <3>2. Payload(r) = << >>
      BY <1>1, <1>d, <1>5, <1>6, <2>1 DEF Payload
    <3> QED
      BY <3>1, <3>2
  <2>2. CASE Len(d) # 0
    <3> DEFINE t == SubSeq(r, 10, n + 4)
    <3>1. Payload(r) = t
      <4>1. MBUS_HEADER < MBUS_INTRO + L(r) /\ 9 + (MBUS_INTRO + L(r) - MBUS_HEADER) = n + 4
            /\ MBUS_HEADER + 1 = 10
        BY <1>1, <1>d, <1>5, <1>6, <2>2
      <4> QED
        BY <1>6, <4>1 DEF Payload, Subspan
    <3>2. t \in Seq(Byte) /\ Len(t) = Len(d) /\ \A i \in 1 .. Len(d) : t[i] = r[9 + i]
      BY <1>1, <1>d, <1>3
    <3>3. \A i \in 1 .. Len(d) : t[i] = d[i]
      <4> HIDE DEF t
      <4> SUFFICES ASSUME NEW i \in 1 .. Len(d) PROVE t[i] = d[i]
        OBVIOUS
      <4>1. 9 + i \in 1 .. n + 6
        BY <1>1, <1>d
      <4> QED
        BY <1>1, <1>3, <3>2, <4>1
    <3>4. t = d
      <4> HIDE DEF t
      <4> QED
        BY <1>1, <3>2, <3>3, SeqEqual, Zenon
    <3> QED
      BY <3>1, <3>4
  <2> QED
    BY <2>1, <2>2
<1> QED
  BY <1>9, <1>10, <1>11 DEF Reads, r

(* The decoder ends at bytes like these.                                   *)
Dead(r, skip) == Stops(r) \/ ~ FrameOk(r, skip)

(* No proper beginning of a frame is taken for one.                        *)
LEMMA CutLongDead ==
  ASSUME NEW g, NEW d, IsLong(g, d), NEW r \in Seq(Byte), NEW u \in Seq(Byte),
         g = r \o u, Len(r) < Len(g), NEW skip \in BOOLEAN
  PROVE  Dead(r, skip)
<1> DEFINE n == Len(d) + 5
<1>1. Len(d) \in Nat /\ n \in Nat /\ Len(g) = n + 6 /\ g[2] = n
  <2>1. d \in Seq(Byte) /\ Len(g) = n + 6 /\ g[2] = n
    BY Zenon DEF IsLong
  <2> QED
    BY <2>1
<1> HIDE DEF n
<1>2. \A i \in 1 .. Len(r) : r[i] = g[i]
  OBVIOUS
<1>3. SUFFICES ASSUME Len(r) >= 4, FrameOk(r, skip) PROVE FALSE
  BY DEF Dead, Stops, MBUS_INTRO
<1>4. L(r) = n
  BY <1>1, <1>2, <1>3 DEF L, At
<1>5. Len(r) >= n + 6
  BY <1>1, <1>3, <1>4 DEF FrameOk, FrameSize, MBUS_INTRO, MBUS_FOOTER
<1>6. Len(r) \in Nat
  OBVIOUS
<1> QED
  BY <1>1, <1>5, <1>6

(* Nor a frame with one wrong byte, when checksums are checked.            *)
LEMMA WrongLongDead ==
  ASSUME NEW g, NEW d, IsLong(g, d), NEW k \in 1 .. Len(g), NEW v \in Byte, v # g[k],
         NEW y \in Seq(Byte)
  PROVE  Replaced(g, k, v) \in Seq(Byte) /\ Dead(Replaced(g, k, v) \o y, FALSE)
<1> DEFINE n == Len(d) + 5
           w == Replaced(g, k, v)
           r == w \o y
<1>1. /\ g \in Seq(Byte)
      /\ n \in Nat /\ 5 <= n /\ Len(g) = n + 6
      /\ g[1] = MBUS_START /\ g[2] = n /\ g[3] = n /\ g[4] = MBUS_START
      /\ \A i \in 1 .. Len(g) : g[i] \in Byte
      /\ \E f \in [0 .. n -> Byte] : RunningSum(f, g, 4, n) /\ g[n + 5] = f[n]
      /\ g[n + 6] = MBUS_STOP
  <2>1. Fields(g, d, n)
    BY LongParts, Zenon
  <2> QED
    BY <2>1, Zenon DEF Fields
<1>2. IsReplaced(Byte, g, k, v, w)
  BY <1>1, ReplaceIs, Zenon
<1> HIDE DEF w
<1>3. IsConcat(Byte, w, y, r)
  BY <1>2, ConcatIs, Zenon DEF IsReplaced
<1> HIDE DEF r, n
<1>4. /\ r \in Seq(Byte) /\ n + 6 <= Len(r) /\ r[k] = v /\ k \in 1 .. n + 6
      /\ \A i \in 1 .. n + 6 : r[i] \in Byte /\ (i # k => r[i] = g[i])
  <2>1. w \in Seq(Byte) /\ Len(w) = n + 6 /\ w[k] = v /\ \A i \in 1 .. n + 6 : i # k => w[i] = g[i]
    BY <1>1, <1>2 DEF IsReplaced
  <2>2. r \in Seq(Byte) /\ Len(r) = n + 6 + Len(y) /\ \A i \in 1 .. n + 6 : r[i] = w[i]
    BY <2>1, <1>3 DEF IsConcat
  <2>3. Len(y) \in Nat /\ k \in 1 .. n + 6
    BY <1>1
  <2> QED
    BY <1>1, <2>1, <2>2, <2>3
<1>5. MBUS_INTRO = 4 /\ MBUS_HEADER = 9 /\ MBUS_FOOTER = 2
  BY DEF MBUS_INTRO, MBUS_HEADER, MBUS_FOOTER
<1>6. Dead(r, FALSE)
  <2> SUFFICES ASSUME ~ Stops(r), FrameOk(r, FALSE) PROVE FALSE
    BY DEF Dead
  <2>0. 1 \in 1 .. n + 6 /\ 2 \in 1 .. n + 6 /\ 3 \in 1 .. n + 6 /\ 4 \in 1 .. n + 6
    BY <1>1
  <2>1. k # 1
    BY <1>1, <1>4 DEF Stops, At
  <2>2. k # 4
    BY <1>1, <1>4 DEF FrameOk, At
  <2>3. r[2] = r[3] /\ L(r) = r[2]
    BY DEF FrameOk, At, L
  <2>4. k # 2 /\ k # 3
    BY <1>1, <1>4, <2>0, <2>3
  <2>5. L(r) = n
    BY <1>1, <1>4, <2>0, <2>3, <2>4
  <2>6. r[n + 6] = MBUS_STOP /\ Checksum(r) = r[n + 5]
    <3>1. MBUS_INTRO + L(r) + 1 = n + 5 /\ MBUS_INTRO + L(r) + 1 + 1 = n + 6
      BY <1>1, <1>5, <2>5
    <3>2. At(r, MBUS_INTRO + L(r) + 1) = MBUS_STOP /\ Checksum(r) = At(r, MBUS_INTRO + L(r))
      BY DEF FrameOk
    <3> QED
      BY <3>1, <3>2 DEF At
  <2>7. k # n + 6
    BY <1>1, <1>4, <2>6
  <2>8. PICK f \in [0 .. n -> Byte] : RunningSum(f, g, 4, n) /\ g[n + 5] = f[n]
    BY <1>1
  <2>9. \A i \in 1 .. n : 4 + i \in 1 .. n + 6 /\ 4 + i # n + 5
    BY <1>1
  <2>10. \A i \in 1 .. n : r[4 + i] \in Byte /\ g[4 + i] \in Byte
    BY <1>1, <1>4, <2>9
  <2>11. PICK e \in [0 .. n -> Byte] : RunningSum(e, r, 4, n) /\ Checksum(r) = e[n]
    BY <1>1, <2>5, <2>10, ChecksumUnfold
  <2>12. CASE k = n + 5
    <3>1. \A i \in 1 .. n : r[4 + i] = g[4 + i]
      BY <1>4, <2>9, <2>12
    <3>2. AgreeFor(r, 4, g, 4, n) /\ 4 \in Nat
      BY <3>1 DEF AgreeFor
    <3>3. e[n] = f[n]
      <4>1. ASSUME NEW a, NEW b, RunningSum(a, r, 4, n), RunningSum(b, g, 4, n)
            PROVE  a[n] = b[n]
        BY <1>1, <3>2, <4>1, SumSame
      <4> QED
        BY <2>8, <2>11, <4>1
    <3> QED
      BY <1>4, <2>6, <2>8, <2>11, <2>12, <3>3
  <2>13. CASE k # n + 5
    <3> DEFINE j == k - 4
    <3>1. j \in 1 .. n /\ k = 4 + j
      BY <1>1, <1>4, <2>1, <2>2, <2>4, <2>7, <2>13
    <3> HIDE DEF j
    <3>2. g[4 + j] # r[4 + j]
      BY <1>4, <3>1
    <3>3. \A i \in 1 .. n : i # j => r[4 + i] = g[4 + i]
      BY <1>4, <2>9, <3>1
    <3>4. e[n] # f[n]
      <4>1. 4 \in Nat /\ n \in Nat /\ j \in 1 .. n
        BY <1>1, <3>1
      <4>2. DifferAt(g, r, 4, n, j)
        BY <2>10, <3>2, <3>3 DEF DifferAt
      <4>3. ASSUME NEW a \in [0 .. n -> Byte], NEW b \in [0 .. n -> Byte],
                   RunningSum(a, g, 4, n), RunningSum(b, r, 4, n)
            PROVE  a[n] # b[n]
        BY <4>1, <4>2, <4>3, SumDiffers, Zenon
      <4> QED
        BY <2>8, <2>11, <4>3
    <3>5. r[n + 5] = g[n + 5]
      <4>1. n + 5 \in 1 .. n + 6
        BY <1>1
      <4> QED
        BY <1>4, <2>13, <4>1
    <3> QED
      BY <2>6, <2>8, <2>11, <3>4, <3>5
  <2> QED
    BY <2>12, <2>13
<1>7. w \in Seq(Byte)
  BY <1>2 DEF IsReplaced
<1> QED
  BY <1>6, <1>7 DEF r, w

-----------------------------------------------------------------------------
(* Lines: whole frames, and what may come behind them.                     *)

(* The frames that carry data for the M-Bus decoder.                       *)
MbusCoding == {f \in Seq(Byte) \X Seq(Byte) : IsLong(f[1], f[2])}

(* Its frames and their data are bytes; no bytes are skipped between.      *)
LEMMA CodingType ==
  /\ MbusCoding \in SUBSET (Seq(Byte) \X Seq(Byte)) /\ {} \in SUBSET Seq(Byte)
  BY DEF MbusCoding

(* A frame of it, taken apart.                                             *)
LEMMA CodedIs ==
  ASSUME NEW f \in MbusCoding
  PROVE  f[1] \in Seq(Byte) /\ f[2] \in Seq(Byte) /\ IsLong(f[1], f[2])
  BY DEF MbusCoding

(* The bytes r hold the data D in whole frames, and behind them w.         *)
Holds(r, D, w) ==
  /\ r \in Seq(Byte) /\ w \in Seq(Byte)
  /\ \E x \in Seq(Byte) : r = x \o w /\ Carries(Byte, MbusCoding, {}, x, D)

(* What the decoder ends at, with checks or without.                       *)
IsCut(w) == \A skip \in BOOLEAN : Dead(w, skip)

(* What it ends at with checks, whatever follows.                          *)
IsWrong(w) == \A y \in Seq(Byte) : Dead(w \o y, FALSE)

(* The line holds a beginning of D in frames, and behind them the decoder  *)
(* ends: because the line was cut, or because of the wrong byte.           *)
CutHeld(r, D) ==
  \E A, B \in Seq(Seq(Byte)), w \in Seq(Byte) : D = A \o B /\ Holds(r, A, w) /\ IsCut(w)

WrongHeld(r, D) ==
  \E A, B \in Seq(Seq(Byte)), w \in Seq(Byte) : D = A \o B /\ Holds(r, A, w) /\ IsWrong(w)

(* More behind the frames.                                                 *)
LEMMA HoldsMore ==
  ASSUME NEW r, NEW D, NEW w, Holds(r, D, w), NEW y \in Seq(Byte)
  PROVE  Holds(r \o y, D, w \o y)
<1>1. PICK x \in Seq(Byte) : r = x \o w /\ Carries(Byte, MbusCoding, {}, x, D)
  BY DEF Holds
<1>2. r \in Seq(Byte) /\ w \in Seq(Byte) /\ x \in Seq(Byte)
  BY DEF Holds
<1>3. Associates(x, w, y) /\ w \o y \in Seq(Byte)
  BY <1>2, Assoc, Zenon
<1>4. r \o y \in Seq(Byte)
  BY <1>2, Assoc, Zenon
<1>5. r \o y = x \o (w \o y)
  BY <1>1, <1>3, Zenon DEF Associates
<1> QED
  BY <1>1, <1>3, <1>4, <1>5, Zenon DEF Holds

(* Of what a line held whose end never comes, the receiver meets the first *)
(* frames and then the end.                                                *)
LEMMA CutHolds ==
  ASSUME NEW b, NEW D, Carries(Byte, MbusCoding, {}, b, D), NEW n \in 0 .. Len(b)
  PROVE  CutHeld(SubSeq(b, 1, n), D)
<1>1. SubSeq(b, 1, n) \in Seq(Byte) /\ HoldsCut(Byte, MbusCoding, SubSeq(b, 1, n), D)
  BY CodingType, CarriesCut, Zenon
<1>2. PICK x \in Seq(Byte), w \in Seq(Byte), A \in Seq(Seq(Byte)), B \in Seq(Seq(Byte)) :
        /\ SubSeq(b, 1, n) = x \o w /\ D = A \o B /\ Carries(Byte, MbusCoding, {}, x, A)
        /\ \/ w = << >>
           \/ \E f \in MbusCoding, u \in Seq(Byte) : f[1] = w \o u /\ Len(w) < Len(f[1])
  BY <1>1, Zenon DEF HoldsCut
<1>3. Holds(SubSeq(b, 1, n), A, w)
  BY <1>1, <1>2, Zenon DEF Holds
<1>4. ASSUME NEW skip \in BOOLEAN PROVE Dead(w, skip)
  <2>1. CASE w = << >>
    BY <2>1 DEF Dead, Stops, MBUS_INTRO
  <2>2. ASSUME NEW f \in MbusCoding, NEW u \in Seq(Byte), f[1] = w \o u, Len(w) < Len(f[1])
        PROVE  Dead(w, skip)
    <3> DEFINE g == f[1]
               d == f[2]
    <3>1. IsLong(g, d) /\ g = w \o u /\ Len(w) < Len(g) /\ w \in Seq(Byte)
      BY <1>2, <2>2, CodedIs
    <3> HIDE DEF g, d
    <3> QED
      BY <3>1, CutLongDead, Zenon
  <2> QED
    BY <1>2, <2>1, <2>2
<1> QED
  BY <1>2, <1>3, <1>4, Zenon DEF CutHeld, IsCut

(* The same when one byte is wrong and checksums are checked.              *)
LEMMA WrongHolds ==
  ASSUME NEW b, NEW D, Carries(Byte, MbusCoding, {}, b, D), NEW k \in 1 .. Len(b),
         NEW v \in Byte, v # b[k]
  PROVE  WrongHeld(Replaced(b, k, v), D)
<1> DEFINE line == Replaced(b, k, v)
           W == Seq(Byte)
<1>1. line \in Seq(Byte) /\ HoldsWrong(Byte, MbusCoding, line, D, v)
  BY CodingType, CarriesWrong, Zenon
<1> HIDE DEF line
<1>2. PICK x \in Seq(Byte), z \in Seq(Byte), f \in MbusCoding,
           A \in Seq(Seq(Byte)), B \in Seq(Seq(Byte)) :
        \E j \in 1 .. Len(f[1]) :
          /\ line = x \o (Replaced(f[1], j, v) \o z) /\ D = A \o (<<f[2]>> \o B)
          /\ Carries(Byte, MbusCoding, {}, x, A) /\ v # f[1][j]
  BY <1>1, Zenon DEF HoldsWrong
<1> DEFINE g == f[1]
           d == f[2]
           E == <<d>> \o B
<1>g. IsLong(g, d) /\ d \in W /\ x \in Seq(Byte) /\ z \in Seq(Byte)
      /\ A \in Seq(W) /\ B \in Seq(W)
  BY <1>2, CodedIs
<1>3. PICK j \in 1 .. Len(g) :
        /\ line = x \o (Replaced(g, j, v) \o z) /\ D = A \o E
        /\ Carries(Byte, MbusCoding, {}, x, A) /\ v # g[j]
  BY <1>2
<1> HIDE DEF g, d
<1>4. E \in Seq(W)
  <2> HIDE DEF W
  <2> QED
    BY <1>g
<1> HIDE DEF E
<1> DEFINE u == Replaced(g, j, v)
           w == u \o z
<1>5. ASSUME NEW y \in Seq(Byte) PROVE u \in Seq(Byte) /\ Dead(u \o y, FALSE)
  BY <1>3, <1>g, WrongLongDead, Zenon
<1>6. u \in Seq(Byte)
  <2>1. << >> \in Seq(Byte)
    OBVIOUS
  <2> QED
    BY <1>5, <2>1
<1>l. line = x \o (u \o z)
  BY <1>3
<1> HIDE DEF u
<1>7. w \in Seq(Byte)
  BY <1>6, <1>g, Assoc, Zenon
<1>8. ASSUME NEW y \in Seq(Byte) PROVE Dead(w \o y, FALSE)
  <2>1. Associates(u, z, y) /\ z \o y \in Seq(Byte)
    BY <1>6, <1>g, Assoc, Zenon
  <2>2. Dead(u \o (z \o y), FALSE)
    BY <1>5, <2>1, Zenon
  <2> QED
    BY <2>1, <2>2, Zenon DEF Associates
<1>9. Holds(line, A, w)
  <2>1. line = x \o w /\ line \in Seq(Byte)
    BY <1>1, <1>l
  <2> HIDE DEF w
  <2> QED
    BY <1>3, <1>7, <1>g, <2>1, Zenon DEF Holds
<1>10. D = A \o E
  BY <1>3
<1> HIDE DEF w
<1> QED
  BY <1>4, <1>7, <1>8, <1>9, <1>10, <1>g, Zenon DEF line, W, WrongHeld, IsWrong

-----------------------------------------------------------------------------
(* The meter and the line (PushLink).                                      *)

(* A flipped bit makes another byte.                                       *)
BitMasks == {1, 2, 4, 8, 16, 32, 64, 128}

LEMMA FlippedByte ==
  ASSUME NEW byte \in Byte, NEW bit \in BitMasks
  PROVE  Link!FlipBit(byte, bit) \in Byte /\ Link!FlipBit(byte, bit) # byte
<1> DEFINE v == Link!FlipBit(byte, bit)
<1>1. byte \in Nat /\ byte <= 255
  BY ByteIs
<1>2. /\ v = IF (byte \div bit) % 2 = 1 THEN byte - bit ELSE byte + bit
  BY DEF Link!FlipBit
<1> HIDE DEF v
<1>3. v \in Nat /\ v <= 255 /\ v # byte
  <2>1. CASE bit = 1
    BY <1>1, <1>2, <2>1
  <2>2. CASE bit = 2
    BY <1>1, <1>2, <2>2
  <2>3. CASE bit = 4
    BY <1>1, <1>2, <2>3
  <2>4. CASE bit = 8
    BY <1>1, <1>2, <2>4
  <2>5. CASE bit = 16
    BY <1>1, <1>2, <2>5
  <2>6. CASE bit = 32
    BY <1>1, <1>2, <2>6
  <2>7. CASE bit = 64
    BY <1>1, <1>2, <2>7
  <2>8. CASE bit = 128
    BY <1>1, <1>2, <2>8
  <2> QED
    BY <2>1, <2>2, <2>3, <2>4, <2>5, <2>6, <2>7, <2>8 DEF BitMasks
<1>4. v \in Byte
  BY <1>3, ByteIs
<1> QED
  BY <1>3, <1>4 DEF v

-----------------------------------------------------------------------------

(* The messages of a meter, and the frames it sends them in.               *)
Pieces == message.pieces

(* Every piece of a message is the data of the frame with its number (the  *)
(* assumption PushAssumption: the data fit a frame).                       *)
LEMMA MessageEncoded ==
  ASSUME message \in [pieces : Messages]
  PROVE  Encodes(Byte, MbusCoding, MbusFrames(message), Pieces)
<1> DEFINE P == message.pieces
           F == MbusFrames(message)
           n == Len(P)
           W == Seq(Byte)
<1>1. P \in Messages
  OBVIOUS
<1>2. P \in Seq(W) /\ \A i \in DOMAIN P : LongFits(P[i])
  BY <1>1, PushAssumption DEF LongFits, IsMessage
<1>3. F = [i \in DOMAIN P |-> LongFrame(P[i])]
  BY DEF MbusFrames
<1> HIDE DEF W, P, F
<1>4. DOMAIN P = 1 .. n /\ n \in Nat /\ \A i \in 1 .. n : P[i] \in W
  BY <1>2
<1> HIDE DEF n
<1>5. ASSUME NEW i \in 1 .. n
      PROVE  F[i] \in W /\ <<F[i], P[i]>> \in MbusCoding
  <2>1. P[i] \in Seq(Byte) /\ LongFits(P[i]) /\ F[i] = LongFrame(P[i])
    BY <1>2, <1>3, <1>4 DEF W
  <2>2. IsLong(F[i], P[i])
    BY <2>1, LongFrameIs
  <2>3. F[i] \in Seq(Byte)
    BY <2>2 DEF IsLong
  <2> DEFINE f == <<F[i], P[i]>>
  <2>4. f \in Seq(Byte) \X Seq(Byte) /\ f[1] = F[i] /\ f[2] = P[i]
    BY <2>1, <2>3
  <2> HIDE DEF f
  <2>5. f \in MbusCoding
    BY <2>2, <2>4 DEF MbusCoding
  <2> QED
    BY <2>3, <2>5 DEF f, W
<1>6. F \in Seq(W) /\ Len(F) = n
  <2>1. F = [i \in 1 .. n |-> F[i]]
    BY <1>3, <1>4
  <2>2. \A i \in 1 .. n : F[i] \in W
    BY <1>5
  <2> QED
    BY <1>4, <2>1, <2>2
<1>7. Len(P) = n
  BY DEF n
<1>8. P \in Seq(Seq(Byte)) /\ F \in Seq(Seq(Byte))
  BY <1>2, <1>6 DEF W
<1>9. \A i \in 1 .. Len(P) : <<F[i], P[i]>> \in MbusCoding
  BY <1>5, <1>7
<1>10. Len(F) = Len(P)
  BY <1>6, <1>7
<1>11. Encodes(Byte, MbusCoding, F, P)
  BY <1>8, <1>9, <1>10, Zenon DEF Encodes
<1> QED
  BY <1>11 DEF F, P, Pieces

(* What a push delivers the frames of, all in all.                         *)
Allowed(D) ==
  IF fault \in {"lost", "repeated"}
  THEN \E k \in DOMAIN Pieces : D = Disturbed(k)
  ELSE D = Pieces

(* What there may be behind the last frame.                                *)
Quiet(z) ==
  /\ z \in Seq(Byte) /\ Stops(z)
  /\ chatter = 0 => z = << >>
  /\ MaxChatter <= 1 \/ z = << >> \/ Head(z) # MBUS_START

(* The frames b are on the line, and when the queue is sent D will be.     *)
Sends(b, D) ==
  Sending(Byte, MbusCoding, {}, MbusFrames(message), Pieces, queue, b, << >>, D)

(* The line holds frames and then something quiet.                         *)
OnLine(D) ==
  \E b, z \in Seq(Byte) : air = b \o z /\ Sends(b, D) /\ Quiet(z)

(* The link's variables, and when each fault may be.                       *)
LinkType ==
  /\ air \in Seq(Byte) /\ chatter \in Nat /\ chatter <= MaxChatter
  /\ fault \in {"none", "lost", "repeated", "cut", "corrupted", "foreign"}
  /\ fault # "foreign" => message \in [pieces : Messages]
  /\ fault \in {"cut", "corrupted", "foreign"} => queue = << >>
  /\ queue # << >> => chatter = 0

(* A beginning of the message, and behind it what the decoder ends at.     *)
Begins(D) == D \in Seq(Seq(Byte)) /\ \E B \in Seq(Seq(Byte)) : Pieces = D \o B

(* The invariant of the link: what is on the line for each thing that may  *)
(* have happened to it.                                                    *)
LinkInv ==
  /\ LinkType
  /\ fault \in {"none", "lost", "repeated"} => \E D : Allowed(D) /\ OnLine(D)
  /\ fault = "cut" => \E D, w : Begins(D) /\ Holds(air, D, w) /\ IsCut(w)
  /\ fault = "corrupted" => \E D, w : Begins(D) /\ Holds(air, D, w) /\ IsWrong(w)

(* An empty rest ends the loop.                                            *)
LEMMA NothingStops == Stops(<< >>) /\ << >> \in Seq(Byte)
  BY DEF Stops, MBUS_INTRO

(* Every step of the meter and the line preserves it.                      *)
LEMMA LinkStarts == PushInit => LinkInv
<1> SUFFICES ASSUME PushInit PROVE LinkInv
  OBVIOUS
<1>1. /\ message \in [pieces : Messages] /\ queue = MbusFrames(message) /\ air = << >>
      /\ chatter = 0 /\ fault = "none"
  BY DEF PushInit, Link!Init
<1>2. Encodes(Byte, MbusCoding, MbusFrames(message), Pieces)
  BY <1>1, MessageEncoded
<1>3. Sends(<< >>, Pieces)
  BY <1>1, <1>2, SendingStarts, Zenon DEF Sends
<1>4. Quiet(<< >>)
  BY NothingStops DEF Quiet
<1>5. OnLine(Pieces)
  <2>1. << >> \o << >> = << >>
    OBVIOUS
  <2> QED
    BY <1>1, <1>3, <1>4, <2>1, NothingStops, Zenon DEF OnLine
<1>6. Allowed(Pieces)
  BY <1>1 DEF Allowed
<1>7. LinkType
  BY <1>1, NothingStops, PushAssumption DEF LinkType
<1> QED
  BY <1>1, <1>5, <1>6, <1>7 DEF LinkInv

(* While there is something to send, the line holds frames and no more.    *)
LEMMA OnlyFrames ==
  ASSUME LinkType, chatter = 0, NEW D, OnLine(D)
  PROVE  Sends(air, D)
<1>1. PICK b \in Seq(Byte), z \in Seq(Byte) : air = b \o z /\ Sends(b, D) /\ Quiet(z)
  BY DEF OnLine
<1>2. z = << >>
  BY <1>1 DEF Quiet
<1>3. air = b
  BY <1>1, <1>2
<1> QED
  BY <1>1, <1>3

(* The meter sends the next frame: the line holds one more, the queue one  *)
(* less, and all in all the same will be sent.                             *)
LEMMA TransmitLinkInv ==
  ASSUME LinkInv, Link!Transmit
  PROVE  LinkInv'
<1>1. /\ queue # << >> /\ air' = air \o Head(queue) /\ queue' = Tail(queue)
      /\ message' = message /\ chatter' = chatter /\ fault' = fault
  BY DEF Link!Transmit
<1>2. /\ air \in Seq(Byte) /\ chatter = 0 /\ message \in [pieces : Messages]
      /\ fault \in {"none", "lost", "repeated"} /\ LinkType
  BY <1>1 DEF LinkInv, LinkType
<1>3. PICK D : Allowed(D) /\ OnLine(D)
  BY <1>2 DEF LinkInv
<1>4. Encodes(Byte, MbusCoding, MbusFrames(message), Pieces)
  BY <1>2, MessageEncoded
<1>5. /\ Head(queue) \in Seq(Byte)
      /\ Sending(Byte, MbusCoding, {}, MbusFrames(message), Pieces,
                 Tail(queue), air \o Head(queue), << >>, D)
  <2>1. Sending(Byte, MbusCoding, {}, MbusFrames(message), Pieces,
                queue, air, << >>, D)
    BY <1>2, <1>3, OnlyFrames DEF Sends
  <2> QED
    BY <1>1, <1>2, <1>4, <2>1, CodingType, SendingOne, Zenon
<1>6. Pieces' = Pieces /\ MbusFrames(message') = MbusFrames(message)
  BY <1>1 DEF Pieces
<1>7. air' \in Seq(Byte)
  BY <1>1, <1>2, <1>5
<1>8. OnLine(D)'
  <2>1. PICK b \in Seq(Byte) : b = air'
    BY <1>7
  <2>2. Sends(b, D)'
    BY <1>1, <1>5, <1>6, <2>1, Zenon DEF Sends
  <2>3. b \o << >> = b /\ Quiet(<< >>)'
    BY NothingStops DEF Quiet
  <2> QED
    BY <2>1, <2>2, <2>3, NothingStops, Zenon DEF OnLine
<1>9. Allowed(D)'
  BY <1>1, <1>3, <1>6 DEF Allowed, Disturbed
<1>10. LinkType'
  BY <1>1, <1>2, <1>7 DEF LinkType
<1> QED
  BY <1>1, <1>2, <1>8, <1>9, <1>10 DEF LinkInv

(* What the decoder stops at it still stops at when more comes, unless it  *)
(* begins like a frame.                                                    *)
LEMMA StopsOnly ==
  ASSUME NEW z \in Seq(Byte), Stops(z), NEW t \in Seq(Byte), Stops(t),
         z = << >> \/ (z # << >> /\ Head(z) # MBUS_START)
  PROVE  Stops(z \o t)
<1>1. CASE z = << >>
  BY <1>1
<1>2. CASE z # << >> /\ Head(z) # MBUS_START
  <2>1. (z \o t)[1] = Head(z)
    BY <1>2
  <2> QED
    BY <1>2, <2>1 DEF Stops, At
<1> QED
  BY <1>1, <1>2

(* What comes behind the last frame does not look like one either.         *)
LEMMA QuietMore ==
  ASSUME LinkType, chatter < MaxChatter, NEW z, Quiet(z), NEW t \in Trailing
  PROVE  /\ t \in Seq(Byte) /\ z \o t \in Seq(Byte) /\ Stops(z \o t)
         /\ MaxChatter <= 1 \/ z \o t = << >> \/ Head(z \o t) # MBUS_START
<1>1. /\ t \in Seq(Byte) /\ Stops(t) /\ MaxChatter \in Nat
      /\ MaxChatter <= 1 \/ t = << >> \/ Head(t) # MBUS_START
  BY PushAssumption
<1>2. z \in Seq(Byte) /\ Stops(z) /\ chatter \in Nat
  BY DEF Quiet, LinkType
<1>3. z \o t \in Seq(Byte)
  BY <1>1, <1>2
<1>4. CASE MaxChatter <= 1
  <2>1. z = << >>
    BY <1>1, <1>2, <1>4 DEF Quiet
  <2> QED
    BY <1>1, <1>3, <1>4, <2>1
<1>5. CASE ~ (MaxChatter <= 1)
  <2>1. z = << >> \/ (z # << >> /\ Head(z) # MBUS_START)
    BY <1>5 DEF Quiet
  <2>2. Stops(z \o t)
    BY <1>1, <1>2, <2>1, StopsOnly
  <2>3. CASE z = << >>
    BY <1>1, <1>3, <1>5, <2>2, <2>3
  <2>4. CASE z # << >> /\ Head(z) # MBUS_START
    <3>1. Head(z \o t) = Head(z)
      BY <1>1, <1>2, <2>4
    <3> QED
      BY <1>1, <1>3, <2>2, <2>4, <3>1
  <2> QED
    BY <2>1, <2>3, <2>4
<1> QED
  BY <1>4, <1>5

(* Bytes behind the last frame are quiet.                                  *)
LEMMA ChatterLinkInv ==
  ASSUME LinkInv, Link!Chatter
  PROVE  LinkInv'
<1>1. /\ fault \notin {"cut", "foreign"} /\ chatter' = chatter + 1 /\ chatter < MaxChatter
      /\ message' = message /\ queue' = queue /\ fault' = fault
      /\ \E t \in IF queue = << >> THEN Trailing ELSE {} : air' = air \o t
  BY DEF Link!Chatter
<1>2. queue = << >>
  BY <1>1
<1>3. PICK t \in Trailing : air' = air \o t
  BY <1>1, <1>2
<1>4. /\ air \in Seq(Byte) /\ chatter \in Nat /\ message \in [pieces : Messages]
      /\ fault \in {"none", "lost", "repeated", "corrupted"} /\ LinkType
      /\ MaxChatter \in Nat
  BY <1>1, PushAssumption DEF LinkInv, LinkType
<1>5. t \in Seq(Byte) /\ air' \in Seq(Byte)
  <2>1. t \in Seq(Byte)
    BY PushAssumption
  <2> QED
    BY <1>3, <1>4, <2>1
<1>6. Pieces' = Pieces /\ MbusFrames(message') = MbusFrames(message)
  BY <1>1 DEF Pieces
<1>7. LinkType'
  BY <1>1, <1>2, <1>4, <1>5 DEF LinkType
<1>8. CASE fault = "corrupted"
  <2>1. PICK D, w : Begins(D) /\ Holds(air, D, w) /\ IsWrong(w)
    BY <1>8 DEF LinkInv
  <2>2. Holds(air \o t, D, w \o t)
    BY <1>5, <2>1, HoldsMore, Zenon
  <2>3. PICK v \in Seq(Byte) : v = w \o t
    BY <2>2 DEF Holds
  <2>4. Holds(air', D, v)
    BY <1>3, <2>2, <2>3
  <2>5. IsWrong(v)
    <3> SUFFICES ASSUME NEW y \in Seq(Byte) PROVE Dead((w \o t) \o y, FALSE)
      BY <2>3 DEF IsWrong
    <3>0. w \in Seq(Byte)
      BY <2>1 DEF Holds
    <3>1. Associates(w, t, y) /\ t \o y \in Seq(Byte)
      BY <1>5, <3>0, Assoc, Zenon
    <3>2. Dead(w \o (t \o y), FALSE)
      BY <2>1, <3>1, Zenon DEF IsWrong
    <3> QED
      BY <3>1, <3>2, Zenon DEF Associates
  <2>6. Begins(D)'
    BY <1>6, <2>1 DEF Begins
  <2>7. (\E E, x : Begins(E) /\ Holds(air, E, x) /\ IsWrong(x))'
    BY <2>4, <2>5, <2>6, Zenon
  <2> QED
    BY <1>1, <1>7, <1>8, <2>7 DEF LinkInv
<1>9. CASE fault \in {"none", "lost", "repeated"}
  <2>1. PICK D : Allowed(D) /\ OnLine(D)
    BY <1>9 DEF LinkInv
  <2>2. PICK b \in Seq(Byte), z \in Seq(Byte) : air = b \o z /\ Sends(b, D) /\ Quiet(z)
    BY <2>1 DEF OnLine
  <2>3. /\ z \o t \in Seq(Byte) /\ Stops(z \o t)
        /\ MaxChatter <= 1 \/ z \o t = << >> \/ Head(z \o t) # MBUS_START
    BY <1>1, <1>4, <2>2, QuietMore
  <2>4. PICK c \in Seq(Byte) : c = z \o t
    BY <2>3
  <2>5. Quiet(c)'
    <3>1. chatter' # 0
      BY <1>1, <1>4
    <3> QED
      BY <2>3, <2>4, <3>1 DEF Quiet
  <2>6. Sends(b, D)'
    BY <1>1, <1>6, <2>2, Zenon DEF Sends
  <2>7. air' = b \o c
    <3>1. Associates(b, z, t)
      BY <1>5, <2>2, Assoc, Zenon
    <3> QED
      BY <1>3, <2>2, <2>4, <3>1, Zenon DEF Associates
  <2>8. OnLine(D)'
    BY <2>2, <2>5, <2>6, <2>7, Zenon DEF OnLine
  <2>9. Allowed(D)'
    BY <1>1, <1>6, <2>1 DEF Allowed, Disturbed
  <2> QED
    BY <1>1, <1>7, <1>9, <2>8, <2>9 DEF LinkInv
<1> QED
  BY <1>4, <1>8, <1>9

(* A frame is lost before it is sent: its piece is missing, the rest as    *)
(* before.                                                                 *)
LEMMA LoseLinkInv ==
  ASSUME LinkInv, Link!Lose
  PROVE  LinkInv'
<1>1. /\ fault = "none" /\ queue # << >> /\ queue' = Tail(queue) /\ fault' = "lost"
      /\ message' = message /\ air' = air /\ chatter' = chatter
  BY DEF Link!Lose
<1>2. /\ air \in Seq(Byte) /\ chatter = 0 /\ message \in [pieces : Messages] /\ LinkType
  BY <1>1 DEF LinkInv, LinkType
<1>3. Sending(Byte, MbusCoding, {}, MbusFrames(message), Pieces,
              queue, air, << >>, Pieces)
  BY <1>1, <1>2, OnlyFrames DEF LinkInv, Allowed, Sends
<1>4. Encodes(Byte, MbusCoding, MbusFrames(message), Pieces)
  BY <1>2, MessageEncoded
<1>5. PICK k \in DOMAIN Pieces :
        Sending(Byte, MbusCoding, {}, MbusFrames(message), Pieces,
                Tail(queue), air, << >>, RemoveAt(Pieces, k))
  BY <1>1, <1>2, <1>3, <1>4, CodingType, SendingLost, Zenon
<1>6. Pieces' = Pieces /\ MbusFrames(message') = MbusFrames(message)
  BY <1>1 DEF Pieces
<1>7. PICK D : D = RemoveAt(Pieces, k)
  OBVIOUS
<1>8. OnLine(D)'
  <2>1. PICK b \in Seq(Byte) : b = air
    BY <1>2
  <2>2. Sends(b, D)'
    BY <1>1, <1>5, <1>6, <1>7, <2>1, Zenon DEF Sends
  <2>3. b \o << >> = b /\ Quiet(<< >>)'
    BY NothingStops DEF Quiet
  <2> QED
    BY <1>1, <2>1, <2>2, <2>3, NothingStops, Zenon DEF OnLine
<1>9. Allowed(D)'
  <2>1. Disturbed(k)' = RemoveAt(Pieces, k)
    BY <1>1, Zenon DEF Disturbed, Pieces
  <2> QED
    BY <1>1, <1>5, <1>6, <1>7, <2>1 DEF Allowed
<1>10. LinkType'
  BY <1>1, <1>2 DEF LinkType
<1> QED
  BY <1>1, <1>8, <1>9, <1>10 DEF LinkInv

(* A frame is sent twice: its piece comes twice.                           *)
LEMMA RepeatLinkInv ==
  ASSUME LinkInv, Link!Repeat
  PROVE  LinkInv'
<1>1. /\ fault = "none" /\ queue # << >> /\ air' = air \o Head(queue)
      /\ fault' = "repeated"
      /\ message' = message /\ queue' = queue /\ chatter' = chatter
  BY DEF Link!Repeat
<1>2. /\ air \in Seq(Byte) /\ chatter = 0 /\ message \in [pieces : Messages] /\ LinkType
  BY <1>1 DEF LinkInv, LinkType
<1>3. Sending(Byte, MbusCoding, {}, MbusFrames(message), Pieces,
              queue, air, << >>, Pieces)
  BY <1>1, <1>2, OnlyFrames DEF LinkInv, Allowed, Sends
<1>4. Encodes(Byte, MbusCoding, MbusFrames(message), Pieces)
  BY <1>2, MessageEncoded
<1>5. /\ Head(queue) \in Seq(Byte)
      /\ \E k \in DOMAIN Pieces :
           Sending(Byte, MbusCoding, {}, MbusFrames(message), Pieces,
                   queue, air \o Head(queue), << >>, InsertAt(Pieces, k, Pieces[k]))
  BY <1>1, <1>2, <1>3, <1>4, CodingType, SendingTwice, Zenon
<1>5a. PICK k \in DOMAIN Pieces :
         Sending(Byte, MbusCoding, {}, MbusFrames(message), Pieces,
                 queue, air \o Head(queue), << >>, InsertAt(Pieces, k, Pieces[k]))
  BY <1>5
<1>6. Pieces' = Pieces /\ MbusFrames(message') = MbusFrames(message)
  BY <1>1 DEF Pieces
<1>a. air' \in Seq(Byte)
  BY <1>1, <1>2, <1>5
<1>7. PICK D : D = InsertAt(Pieces, k, Pieces[k])
  OBVIOUS
<1>8. OnLine(D)'
  <2>1. PICK b \in Seq(Byte) : b = air'
    BY <1>a
  <2>2. Sends(b, D)'
    BY <1>1, <1>5a, <1>6, <1>7, <2>1, Zenon DEF Sends
  <2>3. b \o << >> = b /\ Quiet(<< >>)'
    BY NothingStops DEF Quiet
  <2> QED
    BY <1>1, <2>1, <2>2, <2>3, NothingStops, Zenon DEF OnLine
<1>9. Allowed(D)'
  <2>1. Disturbed(k)' = InsertAt(Pieces, k, Pieces[k])
    BY <1>1, Zenon DEF Disturbed, Pieces
  <2> QED
    BY <1>1, <1>5a, <1>6, <1>7, <2>1 DEF Allowed
<1>10. LinkType'
  BY <1>1, <1>2, <1>a DEF LinkType
<1> QED
  BY <1>1, <1>8, <1>9, <1>10 DEF LinkInv

(* All that was sent, when the queue is empty.                             *)
LEMMA AllSent ==
  ASSUME queue = << >>, message \in [pieces : Messages], NEW b \in Seq(Byte), NEW D, Sends(b, D)
  PROVE  Carries(Byte, MbusCoding, {}, b, D)
<1>1. Encodes(Byte, MbusCoding, MbusFrames(message), Pieces)
  BY MessageEncoded
<1>2. Sending(Byte, MbusCoding, {}, MbusFrames(message), Pieces, << >>, b, << >>, D)
  BY DEF Sends
<1>3. Carries(Byte, MbusCoding, {}, b \o << >>, D)
  BY <1>1, <1>2, SendingEnds, Zenon
<1>4. b \o << >> = b
  OBVIOUS
<1> QED
  BY <1>3, <1>4

(* The pieces of a message are sequences of bytes.                         *)
LEMMA PiecesType ==
  ASSUME message \in [pieces : Messages]
  PROVE  Pieces \in Seq(Seq(Byte))
  BY PushAssumption DEF Pieces, IsMessage

(* All pieces are a beginning of the pieces.                               *)
LEMMA WholeBegins ==
  ASSUME message \in [pieces : Messages]
  PROVE  Begins(Pieces)
<1> DEFINE W == Seq(Byte)
<1>1. Pieces \in Seq(W)
  BY PiecesType
<1> HIDE DEF W
<1>2. Pieces = Pieces \o << >> /\ << >> \in Seq(W)
  BY <1>1
<1> QED
  BY <1>1, <1>2, Zenon DEF Begins, W

(* The line falls silent: a beginning of what was sent has arrived.        *)
LEMMA CutLinkInv ==
  ASSUME LinkInv, Link!Cut
  PROVE  LinkInv'
<1>1. /\ fault = "none" /\ queue = << >> /\ fault' = "cut"
      /\ \E n \in 0 .. Len(air) - 1 : air' = SubSeq(air, 1, n)
      /\ message' = message /\ queue' = queue /\ chatter' = chatter
  BY DEF Link!Cut
<1>2. air \in Seq(Byte) /\ message \in [pieces : Messages] /\ LinkType /\ OnLine(Pieces)
  BY <1>1 DEF LinkInv, LinkType, Allowed
<1>3. PICK n \in 0 .. Len(air) : air' = SubSeq(air, 1, n)
  BY <1>1, <1>2
<1>4. PICK b \in Seq(Byte), z \in Seq(Byte) : air = b \o z /\ Sends(b, Pieces) /\ Quiet(z)
  BY <1>2 DEF OnLine
<1>5. Carries(Byte, MbusCoding, {}, b, Pieces)
  BY <1>1, <1>2, <1>4, AllSent
<1>6. b \in Seq(Byte) /\ z \in Seq(Byte) /\ n \in Nat /\ Len(b) \in Nat /\ Len(z) \in Nat
  BY <1>2
<1>7. n <= Len(b) + Len(z)
  <2>1. Len(b \o z) = Len(b) + Len(z)
    BY <1>6, LongConcat, Zenon
  <2> QED
    BY <1>2, <1>4, <2>1
<1>8. \E D, w : Begins(D) /\ Holds(air', D, w) /\ IsCut(w)
  <2>1. CASE n <= Len(b)
    <3>1. n \in 0 .. Len(b)
      BY <1>6, <2>1
    <3>a. CutHeld(SubSeq(b, 1, n), Pieces)
      BY <1>5, <3>1, CutHolds, Zenon
    <3>2. PICK A \in Seq(Seq(Byte)), B \in Seq(Seq(Byte)), w \in Seq(Byte) :
            Pieces = A \o B /\ Holds(SubSeq(b, 1, n), A, w) /\ IsCut(w)
      BY <3>a, Zenon DEF CutHeld
    <3>3. CutFirst(b, z, n)
      BY <1>6, <3>1, CutConcat
    <3>4. air' = SubSeq(b, 1, n)
      BY <1>3, <1>4, <3>3 DEF CutFirst
    <3>5. Begins(A)
      BY <3>2, Zenon DEF Begins
    <3> QED
      BY <3>2, <3>4, <3>5, Zenon
  <2>2. CASE ~ (n <= Len(b))
    <3> DEFINE m == n - Len(b)
               w == SubSeq(z, 1, m)
    <3>1. m \in 0 .. Len(z) /\ Len(b) + m = n
      BY <1>6, <1>7, <2>2
    <3> HIDE DEF m
    <3>2. CutSecond(b, z, m)
      BY <1>6, <3>1, CutConcat
    <3>3. /\ w \in Seq(Byte) /\ Len(w) = m /\ \A i \in 1 .. m : w[i] = z[i]
      BY <1>6, <3>1, PrefixesAgree, Zenon
    <3> HIDE DEF w
    <3>4. air' = b \o w
      BY <1>3, <1>4, <3>1, <3>2 DEF CutSecond, w
    <3>5. b \o w \in Seq(Byte)
      BY <1>6, <3>3, LongConcat, Zenon
    <3>6. Holds(air', Pieces, w)
      BY <1>5, <1>6, <3>3, <3>4, <3>5, Zenon DEF Holds
    <3>7. IsCut(w)
      <4>1. Stops(z)
        BY <1>4 DEF Quiet
      <4>2. Stops(w)
        BY <1>6, <3>1, <3>3, <4>1 DEF Stops, At, MBUS_INTRO
      <4> QED
        BY <4>2 DEF IsCut, Dead
    <3> QED
      BY <1>2, <3>6, <3>7, WholeBegins
  <2> QED
    BY <2>1, <2>2
<1>9. Pieces' = Pieces
  BY <1>1 DEF Pieces
<1>10. (\E D, w : Begins(D) /\ Holds(air, D, w) /\ IsCut(w))'
  BY <1>8, <1>9 DEF Begins
<1>11. LinkType'
  <2>1. air' \in Seq(Byte)
    BY <1>2, <1>3, PrefixesAgree
  <2> QED
    BY <1>1, <1>2, <2>1 DEF LinkType
<1> QED
  BY <1>1, <1>10, <1>11 DEF LinkInv

(* A bit flips: what comes before that frame is as it was sent.            *)
LEMMA CorruptLinkInv ==
  ASSUME LinkInv, Link!Corrupt
  PROVE  LinkInv'
<1>1. /\ fault = "none" /\ queue = << >> /\ chatter = 0 /\ fault' = "corrupted"
      /\ message' = message /\ queue' = queue /\ chatter' = chatter
  BY DEF Link!Corrupt
<1>2. air \in Seq(Byte) /\ message \in [pieces : Messages] /\ LinkType /\ OnLine(Pieces)
  BY <1>1 DEF LinkInv, LinkType, Allowed
<1>3. Carries(Byte, MbusCoding, {}, air, Pieces)
  <2>1. Sends(air, Pieces)
    BY <1>1, <1>2, OnlyFrames
  <2> QED
    BY <1>1, <1>2, <2>1, AllSent
<1>4. PICK k \in 1 .. Len(air), bit \in BitMasks :
        air' = [air EXCEPT ![k] = Link!FlipBit(air[k], bit)]
  <2>1. DOMAIN air = 1 .. Len(air)
    BY <1>2
  <2> QED
    BY <2>1, Zenon DEF Link!Corrupt, BitMasks
<1> DEFINE v == Link!FlipBit(air[k], bit)
<1>5. air' = Replaced(air, k, v)
  BY <1>4 DEF Replaced
<1>6. v \in Byte /\ v # air[k]
  <2>1. air[k] \in Byte
    BY <1>2
  <2> QED
    BY <2>1, FlippedByte
<1> HIDE DEF v
<1>a. WrongHeld(Replaced(air, k, v), Pieces)
  <2>1. k \in 1 .. Len(air)
    BY <1>4
  <2> QED
    BY <1>3, <1>6, <2>1, WrongHolds, Zenon
<1>7. PICK A \in Seq(Seq(Byte)), B \in Seq(Seq(Byte)), w \in Seq(Byte) :
        Pieces = A \o B /\ Holds(Replaced(air, k, v), A, w) /\ IsWrong(w)
  BY <1>a, Zenon DEF WrongHeld
<1>8. Begins(A) /\ Holds(air', A, w) /\ IsWrong(w)
  BY <1>5, <1>7, Zenon DEF Begins
<1>9. Pieces' = Pieces
  BY <1>1 DEF Pieces
<1>10. (\E D, x : Begins(D) /\ Holds(air, D, x) /\ IsWrong(x))'
  BY <1>8, <1>9 DEF Begins
<1>11. LinkType'
  <2>1. air' \in Seq(Byte)
    BY <1>8 DEF Holds
  <2> QED
    BY <1>1, <1>2, <2>1 DEF LinkType
<1> QED
  BY <1>1, <1>10, <1>11 DEF LinkInv

(* Of foreign bytes nothing is claimed.                                    *)
LEMMA InterfereLinkInv ==
  ASSUME LinkInv, Link!Interfere
  PROVE  LinkInv'
<1>1. air' \in Seq(Byte) /\ queue' = << >> /\ fault' = "foreign" /\ chatter' = chatter
  BY PushAssumption DEF Link!Interfere
<1> QED
  BY <1>1 DEF LinkInv, LinkType

(* While the decoder runs, the link does nothing.                          *)
LEMMA SameLink ==
  ASSUME LinkInv, UNCHANGED link
  PROVE  LinkInv' /\ Pieces' = Pieces /\ \A D : (Allowed(D)' <=> Allowed(D))
                                            /\ (Begins(D)' <=> Begins(D))
<1>1. /\ message' = message /\ queue' = queue /\ air' = air
      /\ chatter' = chatter /\ fault' = fault
  BY DEF link
<1>2. Pieces' = Pieces /\ MbusFrames(message') = MbusFrames(message)
  BY <1>1 DEF Pieces
<1>3. \A b, D : Sends(b, D)' <=> Sends(b, D)
  BY <1>1, <1>2, Zenon DEF Sends
<1>4. \A z : Quiet(z)' <=> Quiet(z)
  BY <1>1 DEF Quiet
<1>5. \A D : (Allowed(D)' <=> Allowed(D)) /\ (Begins(D)' <=> Begins(D))
  BY <1>1, <1>2 DEF Allowed, Disturbed, Begins
<1>6. \A D : OnLine(D)' <=> OnLine(D)
  BY <1>1, <1>3, <1>4, Zenon DEF OnLine
<1>7. LinkType'
  BY <1>1 DEF LinkInv, LinkType
<1>8. (fault \in {"none", "lost", "repeated"} => \E D : Allowed(D) /\ OnLine(D))'
  BY <1>1, <1>5, <1>6, Zenon DEF LinkInv
<1>9. (fault = "cut" => \E D, w : Begins(D) /\ Holds(air, D, w) /\ IsCut(w))'
  BY <1>1, <1>5, Zenon DEF LinkInv
<1>10. (fault = "corrupted" => \E D, w : Begins(D) /\ Holds(air, D, w) /\ IsWrong(w))'
  BY <1>1, <1>5, Zenon DEF LinkInv
<1> QED
  BY <1>2, <1>5, <1>7, <1>8, <1>9, <1>10 DEF LinkInv

-----------------------------------------------------------------------------
(* The decoder on what the line has delivered.                             *)

(* Of the data D, which r and what came before it hold, out is what has    *)
(* been delivered; behind them comes w.                                    *)
OnTrack(D, w, r, out) ==
  \E A, B \in Seq(Seq(Byte)) : D = A \o B /\ out = FlattenSeq(A) /\ Holds(r, B, w)

(* What a decoder on track meets: w, or a frame.                           *)
Ends(D, w, r, out) == r = w /\ out = FlattenSeq(D)

Taken(D, w, r, out) ==
  \E f \in MbusCoding, u \in Seq(Byte) :
    r = f[1] \o u /\ OnTrack(D, w, u, out \o f[2])

(* Behind the frames comes w; as long as frames are left, a frame comes    *)
(* first.                                                                  *)
LEMMA Track ==
  ASSUME NEW D, NEW w, NEW r, NEW out, OnTrack(D, w, r, out)
  PROVE  Ends(D, w, r, out) \/ Taken(D, w, r, out)
<1> DEFINE W == Seq(Byte)
<1>1. PICK A \in Seq(W), B \in Seq(W) : D = A \o B /\ out = FlattenSeq(A) /\ Holds(r, B, w)
  BY DEF OnTrack
<1>2. PICK x \in Seq(Byte) : r = x \o w /\ Carries(Byte, MbusCoding, {}, x, B)
  BY <1>1 DEF Holds
<1>3. w \in Seq(Byte) /\ x \in Seq(Byte) /\ A \in Seq(W) /\ B \in Seq(W)
  BY <1>1 DEF Holds
<1>4. FirstIs(Byte, MbusCoding, {}, x, B)
  BY <1>2, CodingType, CarriesFirst, Zenon
<1>5. CASE x = << >> /\ B = << >>
  <2>1. r = w
    BY <1>2, <1>3, <1>5
  <2>2. D = A
    <3> HIDE DEF W
    <3> QED
      BY <1>1, <1>3, <1>5
  <2> QED
    BY <1>1, <2>1, <2>2 DEF Ends
<1>6. ASSUME NEW f \in MbusCoding, NEW c \in Seq(Byte), NEW E \in Seq(Seq(Byte)),
             x = f[1] \o c, B = <<f[2]>> \o E, Carries(Byte, MbusCoding, {}, c, E)
      PROVE  Taken(D, w, r, out)
  <2> DEFINE g == f[1]
             d == f[2]
  <2>1. g \in Seq(Byte) /\ d \in W /\ E \in Seq(W) /\ x = g \o c /\ B = <<d>> \o E
    BY <1>6, CodedIs
  <2> HIDE DEF g, d
  <2>2. Associates(g, c, w) /\ c \o w \in Seq(Byte)
    BY <1>3, <2>1, Assoc, Zenon
  <2>3. r = g \o (c \o w)
    BY <1>2, <2>1, <2>2, Zenon DEF Associates
  <2>4. Holds(c \o w, E, w)
    BY <1>3, <1>6, <2>2, Zenon DEF Holds
  <2>5. Append(A, d) \in Seq(W)
    <3> HIDE DEF W
    <3> QED
      BY <1>3, <2>1
  <2>6. FlattenSeq(Append(A, d)) = out \o d
    <3>1. FlattenSeq(Append(A, d)) = FlattenSeq(A) \o d
      BY <1>3, <2>1, FlattenAppend, Zenon
    <3> QED
      BY <1>1, <3>1
  <2>7. D = Append(A, d) \o E
    <3> HIDE DEF W
    <3>1. MovesOver(A, d, E)
      BY <1>3, <2>1, MoveOver, Zenon
    <3> QED
      BY <1>1, <2>1, <3>1, Zenon DEF MovesOver
  <2>8. OnTrack(D, w, c \o w, out \o d)
    BY <2>1, <2>4, <2>5, <2>6, <2>7, Zenon DEF OnTrack
  <2> QED
    BY <2>2, <2>3, <2>8, Zenon DEF Taken, g, d
<1> QED
  BY <1>4, <1>5, <1>6, Zenon DEF FirstIs

(* The decoder on its buffer: what it has written, and what it tracks.     *)
Output == Subspan(buf, 0, write_offset)

Tracks(D, w) == OnTrack(D, w, remaining, Output)

(* Taking a frame appends its payload to what is written.                  *)
LEMMA TakeOutput ==
  ASSUME Inv, TakeFrame
  PROVE  Output' = Output \o Payload(remaining)
<1> DEFINE payload == Payload(remaining)
<1>1. /\ payload \in Seq(Byte)
      /\ buf' = CopyTo(buf, payload, write_offset)
      /\ write_offset' = write_offset + Len(payload)
      /\ write_offset' <= Len(buf)
  BY TakeFrameEffect DEF Inv, TypeOK
<1>2. buf \in Seq(Byte) /\ write_offset \in Nat
  BY DEF Inv, TypeOK
<1> HIDE DEF payload
<1>3. Subspan(buf, 0, write_offset)' = Subspan(buf, 0, write_offset) \o payload
  BY <1>1, <1>2, CopyToFront
<1> QED
  BY <1>3 DEF Output, payload

(* What remains behind a frame that was taken.                             *)
LEMMA TakenRemains ==
  ASSUME Inv, TakeFrame, NEW g \in Seq(Byte), NEW u \in Seq(Byte), remaining = g \o u,
         FrameSize(remaining) = Len(g)
  PROVE  remaining' = u
<1> DEFINE r == remaining
           payload == Payload(r)
<1>1. r \in Seq(Byte) /\ Len(r) = Len(buf) - read_offset /\ r = g \o u
  BY RemainingType DEF Inv, TypeOK
<1>2. read_offset' = read_offset + Len(g)
  BY DEF TakeFrame
<1>3. buf \in Seq(Byte) /\ read_offset \in 0 .. Len(buf) /\ write_offset \in Nat
  BY DEF Inv, TypeOK
<1>4. /\ payload \in Seq(Byte)
      /\ buf' = CopyTo(buf, payload, write_offset)
      /\ write_offset + Len(payload) <= read_offset' /\ read_offset' \in Nat
  <2>1. /\ payload \in Seq(Byte)
        /\ buf' = CopyTo(buf, payload, write_offset)
        /\ write_offset' = write_offset + Len(payload)
        /\ write_offset' <= read_offset' /\ read_offset' \in Nat
    BY TakeFrameEffect
  <2> HIDE DEF payload
  <2> QED
    BY <2>1
<1> HIDE DEF r, payload
<1>5. From(buf', read_offset') = From(buf, read_offset') /\ Len(buf') = Len(buf)
  BY <1>3, <1>4, CopyToTail, CopyToType
<1>6. From(g \o u, Len(g)) = u
  BY LastPart, Zenon
<1>7. Len(r) = Len(g) + Len(u) /\ Len(g) \in Nat /\ Len(u) \in Nat
  <2>1. Len(g \o u) = Len(g) + Len(u)
    BY LongConcat, Zenon
  <2> QED
    BY <1>1, <2>1
<1>8. Len(g) \in 0 .. Len(buf) - read_offset
  BY <1>1, <1>3, <1>7
<1>9. From(buf, read_offset + Len(g)) = From(From(buf, read_offset), Len(g))
  BY <1>3, <1>8, FromFrom, Zenon
<1>10. From(r, Len(g)) = u
  BY <1>1, <1>6
<1> QED
  BY <1>2, <1>5, <1>9, <1>10 DEF remaining, r

(* A frame on the line is read as that frame.                              *)
LEMMA FrameOnTrack ==
  ASSUME NEW f \in MbusCoding, NEW u \in Seq(Byte), NEW skip \in BOOLEAN,
         NEW r, r = f[1] \o u
  PROVE  Reads(r, f[1], f[2], skip)
<1>1. IsLong(f[1], f[2])
  BY CodedIs
<1>2. Reads(f[1] \o u, f[1], f[2], skip)
  BY <1>1, LongReads, Zenon
<1> QED
  BY <1>2

(* Taking a frame keeps the decoder on track.                              *)
LEMMA TakeTracks ==
  ASSUME NEW D, NEW w, Inv, TakeFrame, Tracks(D, w), Dead(w, skip_crc_check)
  PROVE  Tracks(D, w)'
<1> DEFINE r == remaining
           out == Output
<1>1. skip_crc_check \in BOOLEAN
  BY DEF Inv, TypeOK
<1>2. ~ Stops(r) /\ FrameOk(r, skip_crc_check)
  BY DEF TakeFrame
<1>3. Ends(D, w, r, out) \/ Taken(D, w, r, out)
  BY Track, Zenon DEF Tracks
<1>4. ~ Ends(D, w, r, out)
  BY <1>2 DEF Ends, Dead
<1> HIDE DEF r, out
<1>5. PICK f \in MbusCoding, u \in Seq(Byte) :
        r = f[1] \o u /\ OnTrack(D, w, u, out \o f[2])
  BY <1>3, <1>4 DEF Taken
<1>6. Reads(r, f[1], f[2], skip_crc_check)
  BY <1>1, <1>5, FrameOnTrack
<1>7. remaining' = u
  <2>1. f[1] \in Seq(Byte) /\ u \in Seq(Byte) /\ remaining = f[1] \o u
        /\ FrameSize(remaining) = Len(f[1])
    BY <1>5, <1>6, CodedIs DEF r, Reads
  <2> QED
    BY <2>1, TakenRemains, Zenon
<1>8. Output' = out \o f[2]
  BY <1>6, TakeOutput DEF Reads, r, out
<1> QED
  BY <1>5, <1>7, <1>8 DEF Tracks

(* The loop ends at w: with all of the data, or with nothing.              *)
LEMMA EndTracks ==
  ASSUME NEW D, NEW w, Inv, Reject \/ Return, Tracks(D, w)
  PROVE  result' = FlattenSeq(D) \/ (~ Stops(w) /\ result' = << >>)
<1> DEFINE r == remaining
           out == Output
<1>1. skip_crc_check \in BOOLEAN
  BY DEF Inv, TypeOK
<1>2. Stops(r) \/ ~ FrameOk(r, skip_crc_check)
  BY DEF Reject, Return
<1>3. Ends(D, w, r, out) \/ Taken(D, w, r, out)
  BY Track, Zenon DEF Tracks
<1>4. ~ Taken(D, w, r, out)
  <2> HIDE DEF r, out
  <2> SUFFICES ASSUME NEW f \in MbusCoding, NEW u \in Seq(Byte), r = f[1] \o u PROVE FALSE
    BY DEF Taken
  <2>1. Reads(r, f[1], f[2], skip_crc_check)
    BY <1>1, FrameOnTrack
  <2> QED
    BY <1>2, <2>1 DEF Reads
<1>5. r = w /\ out = FlattenSeq(D)
  BY <1>3, <1>4 DEF Ends
<1> QED
  BY <1>5 DEF Reject, Return, Finish, Output

(* A call puts the decoder on the track of what is on the line.            *)
LEMMA CallTracks ==
  ASSUME NEW D \in Seq(Seq(Byte)), NEW w, NEW skip, Holds(air, D, w), Call(air, skip)
  PROVE  Tracks(D, w)'
<1> DEFINE W == Seq(Byte)
<1>1. /\ buf' = air /\ read_offset' = 0 /\ write_offset' = 0
  BY DEF Call
<1>2. air \in Seq(Byte)
  BY DEF Holds
<1>3. remaining' = air
  BY <1>1, <1>2 DEF remaining, From
<1>4. Output' = << >>
  BY <1>1 DEF Output, Subspan
<1>5. D = << >> \o D /\ << >> \in Seq(W)
  <2>1. D \in Seq(W)
    OBVIOUS
  <2> HIDE DEF W
  <2> QED
    BY <2>1
<1>6. OnTrack(D, w, air, << >>)
  BY <1>5, FlattenEmpty, Zenon DEF OnTrack
<1> QED
  BY <1>3, <1>4, <1>6 DEF Tracks

-----------------------------------------------------------------------------

(* What the decoder should meet, for each thing the line may have done to  *)
(* the push, and what it is at or has returned.                            *)
Expected(D, w) ==
  /\ D \in Seq(Seq(Byte)) /\ w \in Seq(Byte) /\ Dead(w, skip_crc_check)
  /\ \/ fault \in {"none", "lost", "repeated"} /\ Allowed(D) /\ Stops(w)
     \/ fault \in {"cut", "corrupted"} /\ Begins(D)

(* Nothing is claimed of foreign bytes, nor of a flipped bit that no       *)
(* checksum is there to notice.                                            *)
Accounted == fault # "foreign" /\ ~ (fault = "corrupted" /\ skip_crc_check)

(* The decoder at work is on the track of what it should meet; when it is  *)
(* done it has returned all of that data or, where it had to give up,      *)
(* nothing.                                                                *)
ReceiverInv ==
  Accounted =>
    /\ status = "decoding" => \E D, w : Expected(D, w) /\ Tracks(D, w)
    /\ status = "done" =>
         \E D, w : /\ Expected(D, w)
                   /\ result = FlattenSeq(D) \/ (~ Stops(w) /\ result = << >>)

PushInv == Inv /\ LinkInv /\ ReceiverInv

(* What will have been delivered is a sequence of pieces.                  *)
LEMMA AllowedType ==
  ASSUME message \in [pieces : Messages], queue = << >>, NEW b \in Seq(Byte), NEW D,
         Sends(b, D)
  PROVE  D \in Seq(Seq(Byte))
<1>1. Carries(Byte, MbusCoding, {}, b, D)
  BY AllSent
<1> QED
  BY <1>1, CodingType, CarriesType, Zenon

(* The receive loop hands over what is on the line.                        *)
LEMMA ReceivePushInv ==
  ASSUME PushInv, Receive
  PROVE  PushInv'
<1>1. PICK skip \in BOOLEAN : Call(air, skip)
  BY DEF Receive
<1>2. /\ queue = << >> /\ fault' = fault /\ skip_crc_check' = skip /\ status' = "decoding"
  BY <1>1 DEF Receive, Link!Silent, link, Call
<1>3. air \in Seq(Byte) /\ Inv /\ LinkInv /\ LinkType
  BY DEF PushInv, LinkInv, LinkType
<1>4. Inv'
  BY <1>1, <1>3, CallInv DEF Inv
<1>5. LinkInv' /\ \A D : (Allowed(D)' <=> Allowed(D)) /\ (Begins(D)' <=> Begins(D))
  BY <1>3, SameLink DEF Receive
<1>6. ReceiverInv'
  <2> SUFFICES ASSUME fault # "foreign", ~ (fault = "corrupted" /\ skip)
               PROVE  \E D, w : Expected(D, w)' /\ Tracks(D, w)'
    BY <1>2 DEF ReceiverInv, Accounted
  <2>1. CASE fault \in {"none", "lost", "repeated"}
    <3>1. PICK D : Allowed(D) /\ OnLine(D)
      BY <1>3, <2>1 DEF LinkInv
    <3>2. PICK b \in Seq(Byte), z \in Seq(Byte) : air = b \o z /\ Sends(b, D) /\ Quiet(z)
      BY <3>1 DEF OnLine
    <3>3. message \in [pieces : Messages]
      BY <1>3, <2>1 DEF LinkType
    <3>4. Carries(Byte, MbusCoding, {}, b, D) /\ D \in Seq(Seq(Byte))
      BY <1>2, <3>2, <3>3, AllSent, AllowedType
    <3>5. Holds(air, D, z)
      BY <1>3, <3>2, <3>4, Zenon DEF Holds
    <3>6. Tracks(D, z)'
      BY <1>1, <3>4, <3>5, CallTracks, Zenon
    <3>7. Expected(D, z)'
      BY <1>2, <1>5, <2>1, <3>1, <3>2, <3>4 DEF Expected, Quiet, Dead
    <3> QED
      BY <3>6, <3>7, Zenon
  <2>2. CASE fault = "cut"
    <3>1. PICK D, w : Begins(D) /\ Holds(air, D, w) /\ IsCut(w)
      BY <1>3, <2>2 DEF LinkInv
    <3>2. D \in Seq(Seq(Byte)) /\ w \in Seq(Byte)
      BY <3>1 DEF Begins, Holds
    <3>3. Tracks(D, w)'
      BY <1>1, <3>1, <3>2, CallTracks, Zenon
    <3>4. Expected(D, w)'
      BY <1>2, <1>5, <2>2, <3>1, <3>2 DEF Expected, IsCut
    <3> QED
      BY <3>3, <3>4, Zenon
  <2>3. CASE fault = "corrupted"
    <3>1. PICK D, w : Begins(D) /\ Holds(air, D, w) /\ IsWrong(w)
      BY <1>3, <2>3 DEF LinkInv
    <3>2. D \in Seq(Seq(Byte)) /\ w \in Seq(Byte)
      BY <3>1 DEF Begins, Holds
    <3>3. Tracks(D, w)'
      BY <1>1, <3>1, <3>2, CallTracks, Zenon
    <3>4. Dead(w, FALSE)
      <4>1. Dead(w \o << >>, FALSE)
        BY <3>1, NothingStops, Zenon DEF IsWrong
      <4>2. w \o << >> = w
        BY <3>2
      <4> QED
        BY <4>1, <4>2
    <3>5. Expected(D, w)'
      BY <1>2, <1>5, <2>3, <3>1, <3>2, <3>4 DEF Expected
    <3> QED
      BY <3>3, <3>5, Zenon
  <2> QED
    BY <1>3, <2>1, <2>2, <2>3 DEF LinkType
<1> QED
  BY <1>4, <1>5, <1>6 DEF PushInv

(* The steps of the meter and the line.                                    *)
LEMMA PushPushInv ==
  ASSUME PushInv, Push
  PROVE  PushInv'
<1>1. status = "idle" /\ Link!Next /\ UNCHANGED vars
  BY DEF Push
<1>2. Inv'
  BY <1>1, NextInv DEF PushInv
<1>3. LinkInv'
  BY <1>1, TransmitLinkInv, ChatterLinkInv, LoseLinkInv, RepeatLinkInv, CorruptLinkInv,
     CutLinkInv, InterfereLinkInv DEF PushInv, Link!Next
<1>4. status' = "idle"
  BY <1>1 DEF vars
<1> QED
  BY <1>2, <1>3, <1>4 DEF PushInv, ReceiverInv

(* The link stands still and so does the mode: the same is expected.       *)
LEMMA SameExpected ==
  ASSUME LinkInv, UNCHANGED link, skip_crc_check' = skip_crc_check
  PROVE  /\ LinkInv' /\ (Accounted' <=> Accounted)
         /\ \A D, w : Expected(D, w)' <=> Expected(D, w)
<1>1. LinkInv' /\ \A D : (Allowed(D)' <=> Allowed(D)) /\ (Begins(D)' <=> Begins(D))
  BY SameLink
<1>2. fault' = fault
  BY DEF link
<1> QED
  BY <1>1, <1>2 DEF Accounted, Expected

(* The steps of the decoder.                                               *)
LEMMA TurnPushInv ==
  ASSUME PushInv, Turn
  PROVE  PushInv'
<1>1. Decode /\ UNCHANGED link /\ Inv /\ LinkInv /\ ReceiverInv
  BY DEF Turn, PushInv
<1>2. skip_crc_check' = skip_crc_check /\ status = "decoding"
  BY <1>1 DEF Decode, TakeFrame, Reject, Return, Finish
<1>3. LinkInv' /\ (Accounted' <=> Accounted) /\ \A D, w : Expected(D, w)' <=> Expected(D, w)
  BY <1>1, <1>2, SameExpected
<1>4. Inv'
  <2>1. [Next]_vars
    BY <1>1 DEF Next
  <2> QED
    BY <1>1, <2>1, NextInv
<1>5. ReceiverInv'
  <2> SUFFICES ASSUME Accounted
               PROVE  /\ status' = "decoding" => \E D, w : Expected(D, w)' /\ Tracks(D, w)'
                      /\ status' = "done" =>
                           \E D, w : /\ Expected(D, w)'
                                     /\ \/ result' = FlattenSeq(D)
                                        \/ ~ Stops(w) /\ result' = << >>
    BY <1>3 DEF ReceiverInv
  <2>1. PICK D, w : Expected(D, w) /\ Tracks(D, w)
    BY <1>1, <1>2 DEF ReceiverInv
  <2>2. Expected(D, w)'
    BY <1>3, <2>1
  <2>3. Dead(w, skip_crc_check)
    BY <2>1 DEF Expected
  <2>4. CASE TakeFrame
    <3>1. Tracks(D, w)'
      BY <1>1, <2>1, <2>3, <2>4, TakeTracks, Zenon
    <3>2. status' = "decoding"
      BY <2>4 DEF TakeFrame
    <3> QED
      BY <2>2, <3>1, <3>2, Zenon
  <2>5. CASE Reject \/ Return
    <3>1. result' = FlattenSeq(D) \/ (~ Stops(w) /\ result' = << >>)
      BY <1>1, <2>1, <2>5, EndTracks, Zenon
    <3>2. status' = "done"
      BY <2>5 DEF Reject, Return, Finish
    <3> QED
      BY <2>2, <3>1, <3>2, Zenon
  <2> QED
    BY <1>1, <2>4, <2>5 DEF Decode
<1> QED
  BY <1>3, <1>4, <1>5 DEF PushInv

(* The decoder and the link together.                                      *)
LEMMA PushInvAlways == PushSpec => []PushInv
<1>1. PushInit => PushInv
  <2> SUFFICES ASSUME PushInit PROVE PushInv
    OBVIOUS
  <2>1. Init /\ status = "idle"
    BY DEF PushInit, Init
  <2>2. Inv /\ LinkInv
    BY <2>1, InitInv, LinkStarts
  <2> QED
    BY <2>1, <2>2 DEF PushInv, ReceiverInv
<1>2. PushInv /\ [PushNext]_pushVars => PushInv'
  <2> SUFFICES ASSUME PushInv, [PushNext]_pushVars PROVE PushInv'
    OBVIOUS
  <2>1. CASE Push
    BY <2>1, PushPushInv
  <2>2. CASE Receive
    BY <2>2, ReceivePushInv
  <2>3. CASE Turn
    BY <2>3, TurnPushInv
  <2>4. CASE UNCHANGED pushVars
    <3>1. UNCHANGED link /\ UNCHANGED vars
      BY <2>4 DEF pushVars
    <3>2. /\ status' = status /\ result' = result /\ remaining' = remaining
          /\ skip_crc_check' = skip_crc_check /\ Output' = Output
      BY <3>1 DEF vars, remaining, Output
    <3>3. LinkInv' /\ (Accounted' <=> Accounted) /\ \A D, w : Expected(D, w)' <=> Expected(D, w)
      BY <3>1, <3>2, SameExpected DEF PushInv
    <3>4. Inv'
      BY <3>1, NextInv DEF PushInv
    <3>5. \A D, w : Tracks(D, w)' <=> Tracks(D, w)
      BY <3>2 DEF Tracks
    <3>6. ReceiverInv'
      BY <3>2, <3>3, <3>5, Zenon DEF PushInv, ReceiverInv
    <3> QED
      BY <3>3, <3>4, <3>6 DEF PushInv
  <2> QED
    BY <2>1, <2>2, <2>3, <2>4 DEF PushNext
<1> QED
  BY <1>1, <1>2, PTL DEF PushSpec

(* The link joins its pieces as everybody does.                            *)
LEMMA LinkJoins ==
  ASSUME NEW s
  PROVE  Link!FlattenSeq(s) = FlattenSeq(s)
  BY DEF Link!FlattenSeq, FlattenSeq

-----------------------------------------------------------------------------
(* Without the line: all frames of a message, in a row.                    *)
LEMMA FramesBegin ==
  ASSUME NEW m \in [pieces : Messages], m.pieces # << >>
  PROVE  /\ MbusFrames(m) \in Seq(Seq(Byte)) /\ MbusFrames(m) # << >>
         /\ FlattenSeq(MbusFrames(m)) \in Seq(Byte) /\ FlattenSeq(MbusFrames(m)) # << >>
         /\ FlattenSeq(MbusFrames(m))[1] = MBUS_START
<1> DEFINE P == m.pieces
           F == MbusFrames(m)
           n == Len(P)
           W == Seq(Byte)
<1>1. P \in Messages
  OBVIOUS
<1>2. P \in Seq(W) /\ \A i \in DOMAIN P : LongFits(P[i])
  BY <1>1, PushAssumption DEF LongFits, IsMessage
<1>3. F = [i \in DOMAIN P |-> LongFrame(P[i])]
  BY DEF MbusFrames
<1> HIDE DEF W, P, F
<1>4. DOMAIN P = 1 .. n /\ n \in Nat /\ (\A i \in 1 .. n : P[i] \in W) /\ 1 <= n
  BY <1>2 DEF P
<1> HIDE DEF n
<1>5. ASSUME NEW i \in 1 .. n
      PROVE  F[i] \in W /\ F[i] # << >> /\ F[i][1] = MBUS_START
  <2>1. P[i] \in Seq(Byte) /\ LongFits(P[i]) /\ F[i] = LongFrame(P[i])
    BY <1>2, <1>3, <1>4 DEF W
  <2>2. IsLong(F[i], P[i])
    BY <2>1, LongFrameIs
  <2>3. F[i] \in Seq(Byte) /\ F[i][1] = MBUS_START /\ Len(F[i]) = (Len(P[i]) + 5) + 6
        /\ Len(P[i]) \in Nat
    BY <2>1, <2>2 DEF IsLong
  <2> QED
    BY <2>3 DEF W
<1>6. F \in Seq(W) /\ F # << >>
  <2>1. F = [i \in 1 .. n |-> F[i]]
    BY <1>3, <1>4
  <2>2. \A i \in 1 .. n : F[i] \in W
    BY <1>5
  <2> QED
    BY <1>4, <2>1, <2>2
<1>7. 1 \in 1 .. n
  BY <1>4
<1>8. F[1] # << >> /\ F[1][1] = MBUS_START
  BY <1>5, <1>7
<1>9. F \in Seq(Seq(Byte))
  BY <1>6 DEF W
<1> QED
  BY <1>6, <1>8, <1>9, FlattenBegins, Zenon DEF F

(* A message that arrived whole, and nothing behind it: the decoder that   *)
(* is called with it is on its track, ...                                  *)
LEMMA CallWhole ==
  ASSUME message \in [pieces : Messages], air = FlattenSeq(MbusFrames(message)),
         NEW skip, Call(air, skip), UNCHANGED message
  PROVE  Tracks(Pieces, << >>)'
<1>1. Encodes(Byte, MbusCoding, MbusFrames(message), Pieces)
  BY MessageEncoded
<1>2. Carries(Byte, MbusCoding, {}, air, Pieces)
  BY <1>1, CodingType, EncodedCarries, Zenon
<1>3. air \in Seq(Byte) /\ Pieces \in Seq(Seq(Byte))
  BY <1>2, CodingType, CarriesType, Zenon
<1>4. << >> \in Seq(Byte) /\ air = air \o << >>
  BY <1>3
<1>5. Holds(air, Pieces, << >>)
  BY <1>2, <1>3, <1>4, Zenon DEF Holds
<1>6. PICK D : D = Pieces
  OBVIOUS
<1>7. Tracks(D, << >>)'
  BY <1>3, <1>5, <1>6, CallTracks, Zenon
<1>8. D' = D /\ Pieces' = Pieces
  BY DEF Pieces
<1>9. OnTrack(D, << >>, remaining', Output')
  BY <1>7 DEF Tracks
<1> QED
  BY <1>6, <1>8, <1>9 DEF Tracks

(* ... and every turn keeps it there, until all of it is returned.         *)
LEMMA TurnWhole ==
  ASSUME message \in [pieces : Messages], Inv, Tracks(Pieces, << >>), Decode,
         UNCHANGED message
  PROVE  /\ status' # "done" => Tracks(Pieces, << >>)'
         /\ status' = "done" => result' = FlattenSeq(message.pieces)
<1>1. Pieces' = Pieces /\ Pieces = message.pieces
  BY DEF Pieces
<1>2. PICK D : D = Pieces
  OBVIOUS
<1>3. Tracks(D, << >>)
  BY <1>2 DEF Tracks
<1>4. CASE TakeFrame
  <2>1. skip_crc_check \in BOOLEAN
    BY DEF Inv, TypeOK
  <2>2. Dead(<< >>, skip_crc_check)
    BY <2>1, NothingStops, Zenon DEF Dead
  <2>3. Tracks(D, << >>)'
    BY <1>3, <1>4, <2>2, TakeTracks, Zenon
  <2>4. OnTrack(D, << >>, remaining', Output')
    BY <2>3 DEF Tracks
  <2>5. status' # "done"
    BY <1>4 DEF TakeFrame
  <2> QED
    BY <1>1, <1>2, <2>4, <2>5 DEF Tracks
<1>5. CASE Reject \/ Return
  <2>1. result' = FlattenSeq(D)
    BY <1>3, <1>5, NothingStops, EndTracks, Zenon
  <2>2. status' = "done"
    BY <1>5 DEF Reject, Return, Finish
  <2> QED
    BY <1>1, <1>2, <2>1, <2>2
<1> QED
  BY <1>4, <1>5, Zenon DEF Decode

-----------------------------------------------------------------------------

(* Whatever messages a meter pushes, in however many frames and with       *)
(* whatever in the pieces: an undisturbed push is delivered as it was      *)
(* sent, and what comes behind the last frame does not matter as long as   *)
(* it does not begin like a frame.                                         *)
THEOREM MbusDeliversWhatWasSent == PushSpec => []DeliversWhatWasSent
<1>1. PushInv => DeliversWhatWasSent
  <2> SUFFICES ASSUME PushInv, status = "done", fault = "none"
               PROVE  result = Link!Whole(message)
    BY DEF DeliversWhatWasSent
  <2>1. PICK D, w : /\ Expected(D, w)
                    /\ result = FlattenSeq(D) \/ (~ Stops(w) /\ result = << >>)
    BY DEF PushInv, ReceiverInv, Accounted
  <2>2. D = Pieces /\ result = FlattenSeq(D)
    BY <2>1 DEF Expected, Allowed
  <2> QED
    BY <2>2, LinkJoins DEF Link!Whole, Pieces
<1> QED
  BY <1>1, PushInvAlways, PTL

(* One frame lost or repeated is the only difference there is.             *)
THEOREM MbusOnlyThatFrameIsDisturbed == PushSpec => []OnlyThatFrameIsDisturbed
<1>1. PushInv => OnlyThatFrameIsDisturbed
  <2> SUFFICES ASSUME PushInv, status = "done", fault \in {"lost", "repeated"}
               PROVE  \E k \in DOMAIN message.pieces : result = FlattenSeq(Disturbed(k))
    BY DEF OnlyThatFrameIsDisturbed
  <2>1. PICK D, w : /\ Expected(D, w)
                    /\ result = FlattenSeq(D) \/ (~ Stops(w) /\ result = << >>)
    BY DEF PushInv, ReceiverInv, Accounted
  <2>2. Allowed(D) /\ result = FlattenSeq(D)
    BY <2>1 DEF Expected
  <2>3. PICK k \in DOMAIN Pieces : D = Disturbed(k)
    BY <2>2 DEF Allowed
  <2> QED
    BY <2>2, <2>3 DEF Pieces
<1> QED
  BY <1>1, PushInvAlways, PTL

(* A line that falls silent, or one flipped bit when checksums are         *)
(* checked, leaves whole pieces from the beginning of the message, or      *)
(* nothing.                                                                *)
THEOREM MbusDeliversWholePieces == PushSpec => []DeliversWholePieces
<1>1. PushInv => DeliversWholePieces
  <2> SUFFICES ASSUME PushInv, status = "done",
                      fault = "cut" \/ (fault = "corrupted" /\ ~ skip_crc_check)
               PROVE  \E n \in 0 .. Len(message.pieces) : result = Link!Beginning(message, n)
    BY DEF DeliversWholePieces
  <2> DEFINE W == Seq(Byte)
             P == Pieces
             N == Len(message.pieces)
  <2>1. PICK D, w : /\ Expected(D, w)
                    /\ result = FlattenSeq(D) \/ (~ Stops(w) /\ result = << >>)
    BY DEF PushInv, ReceiverInv, Accounted
  <2>2. PICK B \in Seq(W) : P = D \o B
    BY <2>1 DEF Expected, Begins
  <2>3. D \in Seq(W) /\ N = Len(P)
    BY <2>1 DEF Expected, Pieces
  <2>4. \A n : Link!Beginning(message, n) = FlattenSeq(SubSeq(P, 1, n))
    BY LinkJoins, Zenon DEF Link!Beginning, Pieces
  <2> HIDE DEF W, P, N
  <2>5. Len(D) \in 0 .. N /\ 0 \in 0 .. N
    <3>1. Len(D \o B) = Len(D) + Len(B) /\ Len(D) \in Nat /\ Len(B) \in Nat
      BY <2>2, <2>3
    <3> QED
      BY <2>2, <2>3, <3>1
  <2>6. SubSeq(P, 1, Len(D)) = D
    <3>1. SubSeq(D \o B, 1, Len(D)) = D
      BY <2>2, <2>3, FirstPart, Zenon
    <3> QED
      BY <2>2, <3>1
  <2>7. SubSeq(P, 1, 0) = << >>
    BY <2>2, <2>3
  <2>8. result = Link!Beginning(message, Len(D)) \/ result = Link!Beginning(message, 0)
    BY <2>1, <2>4, <2>6, <2>7, FlattenEmpty
  <2> QED
    BY <2>5, <2>8 DEF N
<1> QED
  BY <1>1, PushInvAlways, PTL
=============================================================================
