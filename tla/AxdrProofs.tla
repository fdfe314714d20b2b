----------------------------- MODULE AxdrProofs -----------------------------
(***************************************************************************)
(* For every telegram and every table of patterns: the parser reads nothing*)
(* outside its buffer, recurses no deeper than the telegram is long, and   *)
(* delivers no byte twice.                                                 *)
(***************************************************************************)
EXTENDS AxdrParser, SequenceTheorems, TLAPS

-----------------------------------------------------------------------------
(* Reading.                                                                *)

LEMMA ByteIsNat == ASSUME NEW b \in Byte PROVE b \in Nat /\ b <= 255
  BY DEF Byte

LEMMA ByteIsUnsigned16 == ASSUME NEW b \in Byte PROVE b \in Unsigned16
  BY DEF Byte, Unsigned16

LEMMA ByteAtType ==
  ASSUME buffer \in Seq(Byte), NEW p \in Nat
  PROVE  /\ ByteAt(p) \in Byte /\ ByteAt(p) \in Nat /\ ByteAt(p) <= 255
         /\ ByteAt(p) # 255 => p < Len(buffer)
<1>1. CASE p < Len(buffer)
  <2>1. ByteAt(p) = buffer[p + 1] /\ p + 1 \in 1 .. Len(buffer)
    BY <1>1 DEF ByteAt
  <2>2. ByteAt(p) \in Byte
    BY <2>1
  <2> QED
    BY <1>1, <2>2, ByteIsNat
<1>2. CASE ~ (p < Len(buffer))
  <2>1. ByteAt(p) = 255
    BY <1>2 DEF ByteAt
  <2>2. 255 \in Byte
    BY DEF Byte
  <2> QED
    BY <2>1, <2>2
<1> QED
  BY <1>1, <1>2

LEMMA PastType ==
  ASSUME buffer \in Seq(Byte), NEW p \in Nat, NEW n \in Nat
  PROVE  /\ Past(p, n) \in Nat /\ Past(p, n) <= Len(buffer)
         /\ p <= Len(buffer) => p <= Past(p, n)
  BY DEF Past, Has

LEMMA BytesAtType ==
  ASSUME buffer \in Seq(Byte), NEW p \in Nat, NEW n \in Nat, Has(p, n)
  PROVE  BytesAt(p, n) \in Seq(Byte)
  BY DEF BytesAt, Has

LEMMA LengthBytesType ==
  ASSUME buffer \in Seq(Byte), NEW p \in Nat
  PROVE  LengthBytes(p) \in Nat
<1>1. ByteAt(p) \in Nat
  BY ByteAtType
<1> QED
  BY <1>1 DEF LengthBytes

(* Whatever is shifted into the register stays in it.                      *)
LEMMA ShiftedType ==
  ASSUME NEW length \in Nat, NEW byte \in Nat
  PROVE  Shifted(length, byte) \in Nat
<1>1. 256 * length + byte \in Nat /\ WORD \in Nat \ {0}
  BY AxdrAssumption
<1> QED
  BY <1>1 DEF Shifted

LEMMA BerLengthType ==
  ASSUME buffer \in Seq(Byte), NEW p \in Nat
  PROVE  BerLength(p) \in Nat
<1>1. \A k \in Nat : FromLast(p, k) \in Nat
  <2> TAKE k \in Nat
  <2>1. CASE k < LengthBytes(p)
    <3>1. LengthBytes(p) \in Nat
      BY LengthBytesType
    <3>2. p + LengthBytes(p) - k \in Nat
      BY <2>1, <3>1
    <3> QED
      BY <2>1, <3>2, ByteAtType DEF FromLast
  <2>2. CASE ~ (k < LengthBytes(p))
    BY <2>2 DEF FromLast
  <2> QED
    BY <2>1, <2>2
<1>2. /\ FromLast(p, 0) \in Nat /\ FromLast(p, 1) \in Nat
      /\ FromLast(p, 2) \in Nat /\ FromLast(p, 3) \in Nat
  BY <1>1
<1>3. Shifted(FromLast(p, 3), FromLast(p, 2)) \in Nat
  BY <1>2, ShiftedType
<1>4. Shifted(Shifted(FromLast(p, 3), FromLast(p, 2)), FromLast(p, 1)) \in Nat
  BY <1>2, <1>3, ShiftedType
<1>5. Shifted(Shifted(Shifted(FromLast(p, 3), FromLast(p, 2)), FromLast(p, 1)),
              FromLast(p, 0)) \in Nat
  BY <1>2, <1>4, ShiftedType
<1> QED
  BY <1>5, ByteAtType DEF BerLength

LEMMA FixedSizeType ==
  ASSUME NEW type, FixedSize(type)
  PROVE  get_data_type_size(type) \in Nat
  BY DEF FixedSize, get_data_type_size, NONE, DLMS_BOOLEAN, INT8, UINT8, ENUM,
     INT16, UINT16, INT32, UINT32, FLOAT32, INT64, UINT64, FLOAT64, DATETIME,
     DATE, TIME

LEMMA DataType ==
  ASSUME buffer \in Seq(Byte), NEW type \in Byte, NEW p \in Nat
  PROVE  /\ DataAt(type, p) \in Nat /\ p <= DataAt(type, p)
         /\ DataLen(type, p) \in Nat
<1>1. DataAt(type, p) \in Nat /\ p <= DataAt(type, p)
  <2>1. LengthBytes(p) \in Nat
    BY LengthBytesType
  <2> QED
    BY <2>1 DEF DataAt
<1>2. DataLen(type, p) \in Nat
  <2>1. CASE FixedSize(type)
    BY <2>1, FixedSizeType DEF DataLen
  <2>2. CASE ~ FixedSize(type)
    <3>1. BerLength(p) + 7 \in Nat /\ WORD \in Nat \ {0}
      BY BerLengthType, AxdrAssumption
    <3>2. (BerLength(p) + 7) % WORD \in Nat
      BY <3>1
    <3>3. ((BerLength(p) + 7) % WORD) \div 8 \in Nat
      BY <3>2
    <3> QED
      BY <2>2, <3>3, BerLengthType DEF DataLen
  <2> QED
    BY <2>1, <2>2
<1> QED
  BY <1>1, <1>2

(* Data that is complete lies in the buffer, behind where it was looked    *)
(* for.                                                                    *)
LEMMA CompleteInside ==
  ASSUME buffer \in Seq(Byte), NEW type \in Byte, NEW p \in Nat, Complete(type, p)
  PROVE  /\ DataEnd(type, p) \in Nat /\ p <= DataEnd(type, p)
         /\ DataEnd(type, p) <= Len(buffer)
<1>1. /\ DataAt(type, p) \in Nat /\ p <= DataAt(type, p)
      /\ DataLen(type, p) \in Nat
  BY DataType
<1>2. DataAt(type, p) + DataLen(type, p) <= Len(buffer)
  BY DEF Complete, Has
<1> QED
  BY <1>1, <1>2 DEF DataEnd

LEMMA GivenUpInside ==
  ASSUME buffer \in Seq(Byte), NEW type \in Byte, NEW p \in Nat, p <= Len(buffer)
  PROVE  /\ GivenUpAt(type, p) \in Nat /\ p <= GivenUpAt(type, p)
         /\ GivenUpAt(type, p) <= Len(buffer)
<1>1. CASE FixedSize(type)
  BY <1>1 DEF GivenUpAt
<1>2. CASE ~ FixedSize(type) /\ ByteAt(p) = 255
  BY <1>2, PastType DEF GivenUpAt
<1>3. CASE ~ FixedSize(type) /\ ByteAt(p) # 255
  <2>1. p + 1 \in Nat /\ p + 1 <= Len(buffer)
    BY <1>3, ByteAtType
  <2>2. GivenUpAt(type, p) = Past(p + 1, LengthBytes(p))
    BY <1>3 DEF GivenUpAt
  <2>3. LengthBytes(p) \in Nat
    BY LengthBytesType
  <2>4. /\ Past(p + 1, LengthBytes(p)) \in Nat
        /\ Past(p + 1, LengthBytes(p)) <= Len(buffer)
        /\ p + 1 <= Past(p + 1, LengthBytes(p))
    BY <2>1, <2>3, PastType
  <2> QED
    BY <2>2, <2>4
<1> QED
  BY <1>1, <1>2, <1>3

-----------------------------------------------------------------------------
(* Captures.                                                               *)

LEMMA NoCaptureType ==
  NoCapture \in Capture /\ NoCapture.at = 0 /\ NoCapture.len = 0
<1>1. EmptyObis \in Seq(Byte) /\ 0 \in Byte
  BY DEF EmptyObis, Byte
<1>2. 0 \in Unsigned16 /\ 0 \in Signed8
  BY DEF Unsigned16, Signed8
<1> QED
  BY <1>1, <1>2 DEF NoCapture, Capture, NONE

LEMMA ValuedType ==
  ASSUME NEW c \in Capture, NEW type \in Byte, NEW at \in Nat, NEW len \in Nat
  PROVE  /\ Valued(c, type, at, len) \in Capture
         /\ Valued(c, type, at, len).at = at /\ Valued(c, type, at, len).len = len
  BY DEF Valued, Capture

(* A value that is captured at p lies in the buffer, behind its tag.       *)
LEMMA CapturedInside ==
  ASSUME buffer \in Seq(Byte), NEW p \in Nat, CanCapture(p), NEW c \in Capture
  PROVE  /\ Captured(c, p) \in Capture
         /\ p < Captured(c, p).at
         /\ Captured(c, p).at + Captured(c, p).len = CaptureEnd(p)
         /\ CaptureEnd(p) \in Nat /\ p < CaptureEnd(p) /\ CaptureEnd(p) <= Len(buffer)
<1>1. ByteAt(p) \in Byte /\ p + 1 \in Nat /\ Complete(ByteAt(p), p + 1)
  BY ByteAtType DEF CanCapture
<1>2. /\ DataAt(ByteAt(p), p + 1) \in Nat /\ p + 1 <= DataAt(ByteAt(p), p + 1)
      /\ DataLen(ByteAt(p), p + 1) \in Nat
  BY <1>1, DataType
<1>3. CapturedType(p) \in Byte
  BY <1>1 DEF CapturedType, DATETIME, Byte
<1> DEFINE at == DataAt(ByteAt(p), p + 1)
           len == DataLen(ByteAt(p), p + 1)
<1>4. Captured(c, p) \in Capture /\ Captured(c, p).at = at /\ Captured(c, p).len = len
  <2>1. at \in Nat /\ len \in Nat
    BY <1>2
  <2>2. Captured(c, p) = Valued(c, CapturedType(p), at, len)
    BY DEF Captured
  <2> HIDE DEF at, len
  <2>3. /\ Valued(c, CapturedType(p), at, len) \in Capture
        /\ Valued(c, CapturedType(p), at, len).at = at
        /\ Valued(c, CapturedType(p), at, len).len = len
    BY <1>3, <2>1, ValuedType
  <2> QED
    BY <2>2, <2>3
<1>5. /\ CaptureEnd(p) \in Nat /\ p + 1 <= CaptureEnd(p)
      /\ CaptureEnd(p) <= Len(buffer)
  BY <1>1, CompleteInside DEF CaptureEnd
<1> QED
  BY <1>2, <1>4, <1>5 DEF CaptureEnd, DataEnd

-----------------------------------------------------------------------------
(* The invariant.                                                          *)

(* Where the walk is: the match being tried began where saved says, and    *)
(* every open container has a tag and a count in front of that.            *)
Walking ==
  /\ patterns \in Tables /\ pattern \in 1 .. Len(patterns) + 1
  /\ buffer \in Seq(Byte) /\ pos \in Nat /\ saved \in Nat
  /\ saved <= pos /\ pos <= Len(buffer)
  /\ stack \in Seq([type : Containers, count : Byte, consumed : Byte])
  /\ 2 * Len(stack) <= saved
  /\ status \in {"idle", "parsing", "done"}
  /\ step \in Nat \ {0} /\ level \in Byte /\ consumed \in Nat
  /\ declared \in -1 .. 255 /\ sent \in Nat

(* A value of a capture lies between two positions, unless it is empty.    *)
Within(c, from, to) == c.len > 0 => from <= c.at /\ c.at + c.len <= to

InOrder(captures, from, to) ==
  /\ \A i \in DOMAIN captures : Within(captures[i], from, to)
  /\ \A i, j \in DOMAIN captures : i < j => Precedes(captures[i], captures[j])

AllInBuffer(captures) == \A i \in DOMAIN captures : InBuffer(captures[i])

(* What was captured of the element that is being matched lies behind its  *)
(* beginning, and what was delivered in front of it.                       *)
CapFits ==
  /\ cap \in Capture /\ InBuffer(cap)
  /\ ~ SelfDescribing => Within(cap, saved, pos)

HeldFits ==
  /\ held \in Seq(Capture) /\ AllInBuffer(held)
  /\ ~ SelfDescribing => InOrder(held, saved, pos)

DeliveredFits ==
  /\ delivered \in Seq(Capture) /\ AllInBuffer(delivered)
  /\ ~ SelfDescribing => InOrder(delivered, 0, saved)

(* Before the call nothing is left of anything.                            *)
Idle ==
  status = "idle" =>
    /\ saved = 0 /\ cap = NoCapture /\ held = << >> /\ declared = -1

(* There are descriptors for all values of the structure being described,  *)
(* and the pattern it is matched with is nothing else.                     *)
DescribesValues ==
  declared # -1 =>
    /\ stack # << >> /\ Values <= declared
    /\ pattern \in DOMAIN patterns
    /\ step = 1 /\ Len(PatternSteps) = 1 /\ PatternSteps[1].type = "SELF_DESC"

Inv ==
  Walking /\ CapFits /\ HeldFits /\ DeliveredFits /\ Idle /\ DescribesValues

LEMMA Types ==
  ASSUME Walking
  PROVE  /\ buffer \in Seq(Byte) /\ Len(buffer) \in Nat
         /\ pos \in Nat /\ saved \in Nat /\ saved <= pos /\ pos <= Len(buffer)
         /\ stack \in Seq([type : Containers, count : Byte, consumed : Byte])
         /\ Len(stack) \in Nat /\ 2 * Len(stack) <= saved
  BY DEF Walking

(* A table of patterns is what the assumption says.                        *)
LEMMA PatternTypes ==
  ASSUME Walking
  PROVE  /\ Len(patterns) \in Nat /\ pattern \in Nat
         /\ \A i \in DOMAIN patterns :
              /\ patterns[i].steps \in Seq([type : STRING, param : Byte])
              /\ patterns[i].default_obis \in Seq(Byte)
              /\ patterns[i].fields \in Seq([obis : Seq(Byte), prefix : Seq(Byte)])
<1>1. patterns \in Seq([steps : Seq([type : STRING, param : Byte]),
                        default_obis : Seq(Byte),
                        fields : Seq([obis : Seq(Byte), prefix : Seq(Byte)])])
  BY AxdrAssumption DEF Walking
<1>2. Len(patterns) \in Nat /\ pattern \in Nat
  BY <1>1 DEF Walking
<1>3. \A i \in DOMAIN patterns :
        patterns[i] \in [steps : Seq([type : STRING, param : Byte]),
                         default_obis : Seq(Byte),
                         fields : Seq([obis : Seq(Byte), prefix : Seq(Byte)])]
  <2>1. DOMAIN patterns = 1 .. Len(patterns)
    BY <1>1
  <2> QED
    BY <1>1, <2>1, ElementOfSeq
<1> QED
  BY <1>2, <1>3

(* The container at the top of the stack.                                  *)
LEMMA TopType ==
  ASSUME Walking, stack # << >>
  PROVE  /\ Len(stack) \in 1 .. Len(stack)
         /\ Top \in [type : Containers, count : Byte, consumed : Byte]
         /\ Top.count \in Nat /\ Top.count <= 255 /\ Top.consumed \in Nat
<1>1. stack \in Seq([type : Containers, count : Byte, consumed : Byte])
  BY Types
<1>2. Len(stack) \in 1 .. Len(stack)
  BY <1>1
<1>3. stack[Len(stack)] \in [type : Containers, count : Byte, consumed : Byte]
  BY <1>1, <1>2, ElementOfSeq
<1>4. stack[Len(stack)].count \in Byte /\ stack[Len(stack)].consumed \in Byte
  BY <1>3
<1> QED
  BY <1>2, <1>3, <1>4, ByteIsNat DEF Top

LEMMA MatchingTypes ==
  ASSUME Walking, Matching
  PROVE  /\ status = "parsing" /\ stack # << >>
         /\ pattern \in DOMAIN patterns /\ pattern + 1 \in 1 .. Len(patterns) + 1
         /\ Top.consumed < Top.count /\ Values \in Nat
<1>1. pattern \in Nat /\ 1 <= pattern /\ pattern <= Len(patterns) /\ Len(patterns) \in Nat
  BY PatternTypes DEF Walking, Matching
<1>2. stack # << >> /\ Top.consumed < Top.count
  BY DEF Matching, InContainer
<1>3. Top.count \in Nat /\ Top.consumed \in Nat
  BY <1>2, TopType
<1>4. DOMAIN patterns = 1 .. Len(patterns)
  BY AxdrAssumption DEF Walking
<1> QED
  BY <1>1, <1>2, <1>3, <1>4 DEF Matching, InContainer, Values

LEMMA EmptyFits ==
  /\ << >> \in Seq(Capture) /\ AllInBuffer(<< >>)
  /\ \A from, to \in Nat : InOrder(<< >>, from, to)
  BY DEF AllInBuffer, InOrder

LEMMA NoCaptureFits ==
  ASSUME buffer \in Seq(Byte)
  PROVE  /\ NoCapture \in Capture /\ InBuffer(NoCapture)
         /\ \A from, to \in Nat : Within(NoCapture, from, to)
  BY NoCaptureType DEF InBuffer, Within

LEMMA InitInv == Init => Inv
<1> SUFFICES ASSUME Init PROVE Inv
  OBVIOUS
<1>1. << >> \in Seq(Byte) /\ Len(<< >>) = 0
      /\ << >> \in Seq([type : Containers, count : Byte, consumed : Byte])
  OBVIOUS
<1>2. /\ patterns \in Tables /\ buffer = << >> /\ pos = 0 /\ stack = << >>
      /\ status = "idle" /\ delivered = << >> /\ pattern = 1 /\ saved = 0
      /\ step = 1 /\ level = 0 /\ consumed = 0 /\ cap = NoCapture
      /\ declared = -1 /\ held = << >> /\ sent = 0
  BY DEF Init
<1>3. Walking
  <2>1. pattern \in 1 .. Len(patterns) + 1
    <3>1. Len(patterns) \in Nat
      BY <1>2, AxdrAssumption
    <3> QED
      BY <1>2, <3>1
  <2>2. 0 \in Byte
    BY DEF Byte
  <2> QED
    BY <1>1, <1>2, <2>1, <2>2 DEF Walking
<1>4. CapFits
  BY <1>1, <1>2, NoCaptureFits DEF CapFits
<1>5. HeldFits /\ DeliveredFits
  BY <1>2, EmptyFits DEF HeldFits, DeliveredFits
<1>6. Idle /\ DescribesValues
  BY <1>2 DEF Idle, DescribesValues
<1> QED
  BY <1>3, <1>4, <1>5, <1>6 DEF Inv

-----------------------------------------------------------------------------
(* Delivering.                                                             *)

LEMMA ObjectKeeps ==
  ASSUME Walking, pattern \in DOMAIN patterns, NEW c \in Capture
  PROVE  /\ Object(c) \in Capture
         /\ Object(c).at = c.at /\ Object(c).len = c.len
<1>1. patterns[pattern].default_obis \in Seq(Byte)
  BY PatternTypes
<1>2. CASE c.obis = EmptyObis
  <2>1. Object(c) = [c EXCEPT !.obis = patterns[pattern].default_obis]
    BY <1>2 DEF Object
  <2> QED
    BY <1>1, <2>1 DEF Capture
<1>3. CASE c.obis # EmptyObis
  BY <1>3 DEF Object
<1> QED
  BY <1>2, <1>3

(* Captures that lie in the buffer and behind what was delivered before are*)
(* delivered so that all of it is in order.                                *)
LEMMA Delivers ==
  ASSUME Walking, DeliveredFits, pattern \in DOMAIN patterns,
         NEW captures \in Seq(Capture), AllInBuffer(captures),
         NEW p \in Nat, saved <= p,
         ~ SelfDescribing => InOrder(captures, saved, p),
         Emit(captures), buffer' = buffer, patterns' = patterns,
         saved' = p \/ (SelfDescribing /\ saved' \in Nat)
  PROVE  DeliveredFits'
<1> DEFINE objects == [i \in DOMAIN captures |-> Object(captures[i])]
<1>1. /\ \A i \in DOMAIN captures : captures[i] \in Capture
      /\ DOMAIN captures = 1 .. Len(captures) /\ Len(captures) \in Nat
  BY ElementOfSeq
<1>2. \A i \in DOMAIN captures :
        /\ objects[i] \in Capture
        /\ objects[i].at = captures[i].at /\ objects[i].len = captures[i].len
  BY <1>1, ObjectKeeps
<1>3. objects \in Seq(Capture) /\ Len(objects) = Len(captures)
  <2>1. objects \in [1 .. Len(captures) -> Capture]
    BY <1>1, <1>2
  <2> HIDE DEF objects
  <2> QED
    BY <1>1, <2>1, SeqDef
<1>4. delivered' = delivered \o objects
  BY DEF Emit
<1> HIDE DEF objects
<1>5. delivered \in Seq(Capture) /\ Len(delivered) \in Nat
  BY DEF DeliveredFits
<1>6. delivered' \in Seq(Capture)
  BY <1>3, <1>4, <1>5
<1>7. /\ Len(delivered') = Len(delivered) + Len(captures)
      /\ DOMAIN delivered' = 1 .. Len(delivered')
      /\ \A i \in 1 .. Len(delivered) : delivered'[i] = delivered[i]
      /\ \A i \in DOMAIN delivered' : i > Len(delivered) =>
           /\ i - Len(delivered) \in DOMAIN captures
           /\ delivered'[i] = objects[i - Len(delivered)]
  <2>1. /\ Len(delivered \o objects) = Len(delivered) + Len(objects)
        /\ \A i \in 1 .. Len(delivered) + Len(objects) :
             (delivered \o objects)[i] =
               IF i <= Len(delivered) THEN delivered[i] ELSE objects[i - Len(delivered)]
    BY <1>3, <1>5, ConcatProperties
  <2>2. DOMAIN delivered' = 1 .. Len(delivered')
    BY <1>6
  <2> QED
    BY <1>1, <1>3, <1>4, <1>5, <2>1, <2>2
<1>8. AllInBuffer(delivered)'
  <2> SUFFICES ASSUME NEW i \in DOMAIN delivered'
               PROVE  delivered'[i].at + delivered'[i].len <= Len(buffer)
    BY DEF AllInBuffer, InBuffer
  <2>1. CASE i \in 1 .. Len(delivered)
    BY <2>1, <1>5, <1>7 DEF DeliveredFits, AllInBuffer, InBuffer
  <2>2. CASE i > Len(delivered)
    BY <2>2, <1>2, <1>7 DEF AllInBuffer, InBuffer
  <2> QED
    BY <2>1, <2>2, <1>5, <1>7
<1>9. ASSUME ~ SelfDescribing
      PROVE  InOrder(delivered, 0, saved)'
  <2>1. InOrder(delivered, 0, saved) /\ InOrder(captures, saved, p) /\ saved' = p
    BY <1>9 DEF DeliveredFits
  <2>2. saved \in Nat
    BY Types
  <2>3. DOMAIN delivered = 1 .. Len(delivered)
    BY <1>5
  <2>4. \A i \in DOMAIN delivered :
          delivered[i].at \in Nat /\ delivered[i].len \in Nat
    <3>1. \A i \in DOMAIN delivered : delivered[i] \in Capture
      BY <1>5, ElementOfSeq
    <3> QED
      BY <3>1 DEF Capture
  <2>5. \A i \in DOMAIN captures :
          captures[i].at \in Nat /\ captures[i].len \in Nat
    BY <1>1 DEF Capture
  <2>6. ASSUME NEW i \in DOMAIN delivered' PROVE Within(delivered'[i], 0, p)
    <3>1. CASE i \in 1 .. Len(delivered)
      BY <3>1, <2>1, <2>2, <2>3, <2>4, <1>7 DEF InOrder, Within
    <3>2. CASE i > Len(delivered)
      BY <3>2, <2>1, <2>2, <2>5, <1>2, <1>7 DEF InOrder, Within
    <3> QED
      BY <3>1, <3>2, <1>5, <1>7
  <2>7. ASSUME NEW i \in DOMAIN delivered', NEW j \in DOMAIN delivered', i < j
        PROVE  Precedes(delivered'[i], delivered'[j])
    <3>1. CASE j \in 1 .. Len(delivered)
      BY <3>1, <2>1, <2>3, <2>7, <1>7 DEF InOrder
    <3>2. CASE i \in 1 .. Len(delivered) /\ j > Len(delivered)
      <4>1. Within(delivered'[i], 0, saved)
        BY <3>2, <2>1, <2>3, <1>7 DEF InOrder
      <4>2. Within(delivered'[j], saved, p)
        BY <3>2, <2>1, <1>2, <1>7 DEF InOrder, Within
      <4>3. /\ delivered'[i].at \in Nat /\ delivered'[i].len \in Nat
            /\ delivered'[j].at \in Nat /\ delivered'[j].len \in Nat
        BY <3>2, <2>3, <2>4, <2>5, <1>2, <1>7
      <4> QED
        BY <4>1, <4>2, <4>3, <2>2 DEF Within, Precedes
    <3>3. CASE i > Len(delivered)
      <4>1. j > Len(delivered) /\ i - Len(delivered) < j - Len(delivered)
        BY <3>3, <2>7, <1>5, <1>7
      <4>2. Precedes(captures[i - Len(delivered)], captures[j - Len(delivered)])
        BY <3>3, <4>1, <2>1, <1>7 DEF InOrder
      <4> QED
        BY <3>3, <4>1, <4>2, <1>2, <1>7 DEF Precedes
    <3> QED
      BY <3>1, <3>2, <3>3, <2>7, <1>5, <1>7
  <2> QED
    BY <2>1, <2>6, <2>7 DEF InOrder
<1>10. SelfDescribing' <=> SelfDescribing
  BY DEF SelfDescribing
<1> QED
  BY <1>6, <1>8, <1>9, <1>10 DEF DeliveredFits

-----------------------------------------------------------------------------
(* The steps all actions are made of.                                      *)

LEMMA DeliveredLater ==
  ASSUME Walking, DeliveredFits, delivered' = delivered, buffer' = buffer,
         patterns' = patterns, saved' \in Nat, saved <= saved'
  PROVE  DeliveredFits'
<1>1. delivered' \in Seq(Capture) /\ AllInBuffer(delivered)'
  BY DEF DeliveredFits, AllInBuffer, InBuffer
<1>2. ASSUME ~ SelfDescribing PROVE InOrder(delivered, 0, saved)'
  <2>1. InOrder(delivered, 0, saved)
    BY <1>2 DEF DeliveredFits
  <2>2. ASSUME NEW i \in DOMAIN delivered PROVE Within(delivered[i], 0, saved')
    <3>1. Within(delivered[i], 0, saved)
      BY <2>1 DEF InOrder
    <3>2. delivered[i] \in Capture
      BY ElementOfSeq DEF DeliveredFits
    <3>3. delivered[i].at \in Nat /\ delivered[i].len \in Nat /\ saved \in Nat
      BY <3>2, Types DEF Capture
    <3> QED
      BY <3>1, <3>3 DEF Within
  <2> QED
    BY <2>1, <2>2 DEF InOrder
<1>3. SelfDescribing' <=> SelfDescribing
  BY DEF SelfDescribing
<1> QED
  BY <1>1, <1>2, <1>3 DEF DeliveredFits

(* A match begins at saved', with nothing captured.                        *)
LEMMA NewTryInv ==
  ASSUME Inv, NewTry, buffer' = buffer, patterns' = patterns,
         pattern' \in 1 .. Len(patterns) + 1,
         saved' \in Nat, pos' \in Nat, saved' <= pos', pos' <= Len(buffer),
         stack' \in Seq([type : Containers, count : Byte, consumed : Byte]),
         2 * Len(stack') <= saved', status' = "parsing", DeliveredFits'
  PROVE  Inv'
<1>1. Walking'
  <2>1. 0 \in Byte /\ buffer \in Seq(Byte) /\ patterns \in Tables
    BY DEF Byte, Inv, Walking
  <2>2. /\ step' \in Nat \ {0} /\ level' \in Byte /\ consumed' \in Nat
        /\ declared' \in -1 .. 255 /\ sent' \in Nat
    BY <2>1 DEF NewTry
  <2> QED
    BY <2>1, <2>2 DEF Walking
<1>2. CapFits'
  <2>1. cap' = NoCapture /\ buffer' \in Seq(Byte)
    BY DEF NewTry, Inv, Walking
  <2>2. NoCapture \in Capture /\ NoCapture.at = 0 /\ NoCapture.len = 0
    BY NoCaptureType
  <2> QED
    BY <2>1, <2>2 DEF CapFits, InBuffer, Within
<1>3. HeldFits'
  <2>1. held' = << >>
    BY DEF NewTry
  <2> QED
    BY <2>1 DEF HeldFits, AllInBuffer, InOrder
<1>4. Idle' /\ DescribesValues'
  BY DEF NewTry, Idle, DescribesValues
<1> QED
  BY <1>1, <1>2, <1>3, <1>4 DEF Inv

LEMMA NextPatternInv ==
  ASSUME Inv, Matching, NextPattern
  PROVE  Inv'
<1>1. Walking /\ DeliveredFits
  BY DEF Inv
<1>2. /\ NewTry /\ pos' = saved /\ pattern' = pattern + 1
      /\ UNCHANGED <<patterns, buffer, stack, status, saved, delivered>>
  BY DEF NextPattern
<1>3. /\ saved \in Nat /\ saved <= Len(buffer) /\ 2 * Len(stack) <= saved
      /\ stack \in Seq([type : Containers, count : Byte, consumed : Byte])
  BY <1>1, Types
<1>4. status = "parsing" /\ pattern + 1 \in 1 .. Len(patterns) + 1
  BY <1>1, MatchingTypes
<1>5. DeliveredFits'
  BY <1>1, <1>2, <1>3, DeliveredLater
<1> QED
  BY <1>2, <1>3, <1>4, <1>5, NewTryInv

LEMMA RemainderIsByte == ASSUME NEW n \in Nat PROVE n % 256 \in Byte
  BY DEF Byte

(* Another element of one of the open containers is done.                  *)
LEMMA ConsumedType ==
  ASSUME NEW s \in Seq([type : Containers, count : Byte, consumed : Byte]),
         NEW n \in 1 .. Len(s), NEW b \in Byte
  PROVE  /\ [s EXCEPT ![n].consumed = b]
              \in Seq([type : Containers, count : Byte, consumed : Byte])
         /\ Len([s EXCEPT ![n].consumed = b]) = Len(s)
<1> DEFINE e == [s[n] EXCEPT !.consumed = b]
<1>1. s[n] \in [type : Containers, count : Byte, consumed : Byte]
  BY ElementOfSeq
<1>2. e \in [type : Containers, count : Byte, consumed : Byte]
  BY <1>1
<1>3. [s EXCEPT ![n].consumed = b] = [s EXCEPT ![n] = e]
  OBVIOUS
<1> HIDE DEF e
<1>4. /\ [s EXCEPT ![n] = e] \in Seq([type : Containers, count : Byte, consumed : Byte])
      /\ Len([s EXCEPT ![n] = e]) = Len(s)
  BY <1>2, ExceptSeq
<1> QED
  BY <1>3, <1>4

LEMMA ElementsDoneInv ==
  ASSUME Inv, InContainer, NEW n \in Nat, NEW p \in Nat, saved <= p,
         p <= Len(buffer), ElementsDone(n, p), buffer' = buffer,
         patterns' = patterns, status' = status, DeliveredFits'
  PROVE  Inv'
<1>1. Walking /\ stack # << >> /\ status = "parsing"
  BY DEF Inv, InContainer
<1>2. /\ stack' = [stack EXCEPT ![Len(stack)].consumed = (@ + n) % 256]
      /\ pos' = p /\ saved' = p /\ pattern' = 1 /\ NewTry
  BY DEF ElementsDone, NextElement
<1>3. /\ stack \in Seq([type : Containers, count : Byte, consumed : Byte])
      /\ 2 * Len(stack) <= saved /\ Len(stack) \in Nat /\ saved \in Nat
  BY <1>1, Types
<1>4. Len(stack) \in 1 .. Len(stack) /\ Top.consumed \in Nat
  BY <1>1, TopType
<1>5. (Top.consumed + n) % 256 \in Byte
  BY <1>4, RemainderIsByte
<1>6. /\ stack' \in Seq([type : Containers, count : Byte, consumed : Byte])
      /\ Len(stack') = Len(stack)
  <2> DEFINE b == (Top.consumed + n) % 256
  <2>1. stack' = [stack EXCEPT ![Len(stack)].consumed = b]
    BY <1>2 DEF Top
  <2>2. b \in Byte
    BY <1>5
  <2> HIDE DEF b
  <2>3. /\ [stack EXCEPT ![Len(stack)].consumed = b]
             \in Seq([type : Containers, count : Byte, consumed : Byte])
        /\ Len([stack EXCEPT ![Len(stack)].consumed = b]) = Len(stack)
    BY <1>3, <1>4, <2>2, ConsumedType
  <2> QED
    BY <2>1, <2>3
<1>7. 2 * Len(stack') <= p
  BY <1>3, <1>6
<1>8. pattern' \in 1 .. Len(patterns) + 1
  BY <1>1, <1>2, PatternTypes
<1> QED
  BY <1>1, <1>2, <1>6, <1>7, <1>8, NewTryInv

(* A container begins at p, with its tag and its count in the buffer.      *)
LEMMA OpenInv ==
  ASSUME Inv, status = "parsing", ByteAt(pos) \in Containers, Opens(pos), Open(pos),
         buffer' = buffer, patterns' = patterns, status' = status,
         delivered' = delivered
  PROVE  Inv'
<1>1. Walking /\ DeliveredFits
  BY DEF Inv
<1>2. /\ buffer \in Seq(Byte) /\ pos \in Nat /\ saved \in Nat /\ saved <= pos
      /\ stack \in Seq([type : Containers, count : Byte, consumed : Byte])
      /\ Len(stack) \in Nat /\ 2 * Len(stack) <= saved
  BY <1>1, Types
<1>3. ByteAt(pos + 1) \in Byte /\ pos + 1 < Len(buffer)
  BY <1>2, ByteAtType DEF Opens
<1>4. pos + 2 \in Nat /\ pos + 2 <= Len(buffer) /\ saved <= pos + 2
  BY <1>2, <1>3
<1>5. /\ stack' = Append(stack, [type |-> ByteAt(pos), count |-> ByteAt(pos + 1),
                                 consumed |-> 0])
      /\ pos' = pos + 2 /\ saved' = pos + 2 /\ pattern' = 1 /\ NewTry
  BY DEF Open, NextElement
<1>6. [type |-> ByteAt(pos), count |-> ByteAt(pos + 1), consumed |-> 0]
        \in [type : Containers, count : Byte, consumed : Byte]
  <2>1. 0 \in Byte
    BY DEF Byte
  <2> QED
    BY <1>3, <2>1
<1>7. /\ stack' \in Seq([type : Containers, count : Byte, consumed : Byte])
      /\ Len(stack') = Len(stack) + 1
  BY <1>2, <1>5, <1>6, AppendProperties
<1>8. 2 * Len(stack') <= pos + 2
  BY <1>2, <1>7
<1>9. DeliveredFits'
  BY <1>1, <1>4, <1>5, DeliveredLater
<1>10. pattern' \in 1 .. Len(patterns) + 1
  BY <1>1, <1>5, PatternTypes
<1> QED
  BY <1>4, <1>5, <1>7, <1>8, <1>9, <1>10, NewTryInv

(* What was captured stays where it is when the parser moves on.           *)
LEMMA CapturesStay ==
  ASSUME Inv, UNCHANGED <<patterns, buffer, saved>>,
         pos' \in Nat, pos <= pos'
  PROVE  /\ cap' = cap => CapFits'
         /\ held' = held => HeldFits'
<1>1. saved \in Nat /\ pos \in Nat
  BY Types DEF Inv
<1>2. SelfDescribing' <=> SelfDescribing
  BY DEF SelfDescribing
<1>3. ASSUME NEW c \in Capture, Within(c, saved, pos)
      PROVE  Within(c, saved', pos')
  <2>1. c.at \in Nat /\ c.len \in Nat
    BY DEF Capture
  <2> QED
    BY <1>1, <1>3, <2>1 DEF Within
<1>4. ASSUME cap' = cap PROVE CapFits'
  BY <1>2, <1>3, <1>4 DEF Inv, CapFits, InBuffer
<1>5. ASSUME held' = held PROVE HeldFits'
  <2>1. held \in Seq(Capture) /\ AllInBuffer(held)'
    BY <1>5 DEF Inv, HeldFits, AllInBuffer, InBuffer
  <2>2. \A i \in DOMAIN held : held[i] \in Capture
    BY <2>1, ElementOfSeq
  <2>3. ASSUME ~ SelfDescribing PROVE InOrder(held, saved, pos)'
    BY <1>3, <1>5, <2>2, <2>3 DEF Inv, HeldFits, InOrder
  <2> QED
    BY <1>2, <1>5, <2>1, <2>3 DEF HeldFits
<1> QED
  BY <1>4, <1>5

(* parse returns, with pos_ where it has come to.                          *)
LEMMA FinishInv ==
  ASSUME Inv, NEW p \in Nat, pos <= p, p <= Len(buffer), Finish(p),
         UNCHANGED <<patterns, buffer, delivered>>
  PROVE  Inv'
<1>1. /\ Walking /\ DeliveredFits /\ DescribesValues
      /\ saved \in Nat /\ pos \in Nat /\ saved <= pos
  BY Types DEF Inv
<1>2. status' = "done" /\ pos' = p /\ UNCHANGED <<stack, match>>
  BY DEF Finish
<1>3. saved <= p
  BY <1>1
<1>4. Walking'
  BY <1>1, <1>2, <1>3 DEF Walking, match
<1>5. CapFits' /\ HeldFits'
  BY <1>2, CapturesStay DEF match
<1>6. DeliveredFits'
  BY <1>1, <1>2, DeliveredLater DEF match
<1>7. Idle'
  BY <1>2 DEF Idle
<1>8. DescribesValues'
  BY <1>1, <1>2 DEF DescribesValues, match, Values, Top, PatternSteps
<1> QED
  BY <1>4, <1>5, <1>6, <1>7, <1>8 DEF Inv

(* A step of a pattern that is not self-describing is done up to p.        *)
LEMMA NothingDeclared ==
  ASSUME Inv, NEW type, At(type), type # "SELF_DESC"
  PROVE  declared = -1
  BY DEF Inv, DescribesValues, At

LEMMA StepDoneInv ==
  ASSUME Inv, NEW type, At(type), type # "SELF_DESC",
         NEW p \in Nat, pos <= p, p <= Len(buffer),
         NEW c \in Capture, InBuffer(c), ~ SelfDescribing => Within(c, saved, p),
         NEW counts \in BOOLEAN, StepDone(p, c, counts)
  PROVE  Inv'
<1>1. /\ Walking /\ DeliveredFits /\ declared = -1
      /\ saved \in Nat /\ pos \in Nat /\ saved <= pos /\ status = "parsing"
  BY Types, NothingDeclared DEF Inv, At, Matching, InContainer
<1>2. /\ pos' = p /\ cap' = c /\ step' = step + 1
      /\ consumed' = IF counts /\ level = 0 THEN consumed + 1 ELSE consumed
      /\ UNCHANGED <<patterns, buffer, stack, status, pattern, saved, level,
                     declared, held, sent, delivered>>
  BY DEF StepDone
<1>3. saved <= p
  BY <1>1
<1>4. Walking'
  <2>1. step' \in Nat \ {0} /\ consumed' \in Nat
    BY <1>1, <1>2 DEF Walking
  <2> QED
    BY <1>1, <1>2, <1>3, <2>1 DEF Walking
<1>5. CapFits'
  BY <1>2 DEF CapFits, InBuffer, SelfDescribing, Within
<1>6. HeldFits'
  BY <1>2, CapturesStay
<1>7. DeliveredFits'
  BY <1>1, <1>2, DeliveredLater
<1>8. Idle' /\ DescribesValues'
  BY <1>1, <1>2 DEF Idle, DescribesValues
<1> QED
  BY <1>4, <1>5, <1>6, <1>7, <1>8 DEF Inv

(* The same of a step that does not capture a value.                       *)
LEMMA StepKeepsValue ==
  ASSUME Inv, NEW type, At(type), type # "SELF_DESC",
         NEW p \in Nat, pos <= p, p <= Len(buffer),
         NEW c \in Capture, c.at = cap.at, c.len = cap.len,
         NEW counts \in BOOLEAN, StepDone(p, c, counts)
  PROVE  Inv'
<1>1. InBuffer(c)
  BY DEF Inv, CapFits, InBuffer
<1>2. ~ SelfDescribing => Within(c, saved, p)
  <2>1. cap.at \in Nat /\ cap.len \in Nat /\ pos \in Nat /\ saved \in Nat
    BY Types DEF Inv, CapFits, Capture
  <2>2. ~ SelfDescribing => Within(cap, saved, pos)
    BY DEF Inv, CapFits
  <2> QED
    BY <2>1, <2>2 DEF Within
<1> QED
  BY <1>1, <1>2, StepDoneInv

-----------------------------------------------------------------------------
(* The steps of a pattern.                                                 *)

LEMMA Here ==
  ASSUME Inv
  PROVE  /\ Walking /\ buffer \in Seq(Byte) /\ Len(buffer) \in Nat
         /\ pos \in Nat /\ saved \in Nat /\ saved <= pos /\ pos <= Len(buffer)
         /\ pos + 1 \in Nat /\ pos + 2 \in Nat
         /\ cap \in Capture
  BY Types DEF Inv, CapFits

LEMMA OfPattern == ASSUME NEW type, At(type) PROVE Matching
  BY DEF At

LEMMA ExpectToBeFirstInv ==
  ASSUME Inv, ExpectToBeFirst
  PROVE  Inv'
<1>1. At("EXPECT_TO_BE_FIRST") /\ (StepDone(pos, cap, FALSE) \/ NextPattern)
  BY DEF ExpectToBeFirst
<1>2. CASE StepDone(pos, cap, FALSE)
  <2>1. pos \in Nat /\ pos <= pos /\ pos <= Len(buffer) /\ cap \in Capture
    BY Here
  <2> QED
    BY <1>1, <1>2, <2>1, StepKeepsValue
<1>3. CASE NextPattern
  BY <1>1, <1>3, OfPattern, NextPatternInv
<1> QED
  BY <1>1, <1>2, <1>3

LEMMA ExpectToBeLastInv ==
  ASSUME Inv, ExpectToBeLast
  PROVE  Inv'
<1>1. At("EXPECT_TO_BE_LAST") /\ (StepDone(pos, cap, FALSE) \/ NextPattern)
  BY DEF ExpectToBeLast
<1>2. CASE StepDone(pos, cap, FALSE)
  <2>1. pos \in Nat /\ pos <= pos /\ pos <= Len(buffer) /\ cap \in Capture
    BY Here
  <2> QED
    BY <1>1, <1>2, <2>1, StepKeepsValue
<1>3. CASE NextPattern
  BY <1>1, <1>3, OfPattern, NextPatternInv
<1> QED
  BY <1>1, <1>2, <1>3

(* Bytes that are only looked at: at the end of the buffer pos_ stays.     *)
LEMMA PassingInv ==
  ASSUME Inv, NEW type, At(type), type # "SELF_DESC", NEW n \in Nat,
         NEW c \in Capture, c.at = cap.at, c.len = cap.len,
         NEW counts \in BOOLEAN, StepDone(Past(pos, n), c, counts)
  PROVE  Inv'
<1>1. Past(pos, n) \in Nat /\ pos <= Past(pos, n) /\ Past(pos, n) <= Len(buffer)
  BY Here, PastType
<1> QED
  BY <1>1, StepKeepsValue

LEMMA ExpectTypeExactInv ==
  ASSUME Inv, ExpectTypeExact
  PROVE  Inv'
<1>1. At("EXPECT_TYPE_EXACT") /\ (StepDone(Past(pos, 1), cap, TRUE) \/ NextPattern)
  BY DEF ExpectTypeExact
<1>2. CASE StepDone(Past(pos, 1), cap, TRUE)
  BY <1>1, <1>2, Here, PassingInv
<1>3. CASE NextPattern
  BY <1>1, <1>3, OfPattern, NextPatternInv
<1> QED
  BY <1>1, <1>2, <1>3

LEMMA ExpectTypeUI8Inv ==
  ASSUME Inv, ExpectTypeUI8
  PROVE  Inv'
<1>1. /\ At("EXPECT_TYPE_U_I_8")
      /\ \/ ByteAt(pos) \in {INT8, UINT8} /\ StepDone(pos + 1, cap, TRUE)
         \/ NextPattern
  BY DEF ExpectTypeUI8
<1>2. CASE ByteAt(pos) \in {INT8, UINT8} /\ StepDone(pos + 1, cap, TRUE)
  <2>1. pos < Len(buffer)
    <3>1. ByteAt(pos) # 255
      BY <1>2 DEF INT8, UINT8
    <3> QED
      BY <3>1, Here, ByteAtType
  <2>2. /\ pos + 1 \in Nat /\ pos <= pos + 1 /\ pos + 1 <= Len(buffer)
        /\ cap \in Capture
    BY <2>1, Here
  <2> QED
    BY <1>1, <1>2, <2>2, StepKeepsValue
<1>3. CASE NextPattern
  BY <1>1, <1>3, OfPattern, NextPatternInv
<1> QED
  BY <1>1, <1>2, <1>3

LEMMA ExpectClassIdUntaggedInv ==
  ASSUME Inv, ExpectClassIdUntagged
  PROVE  Inv'
<1> DEFINE c == [cap EXCEPT !.class_id = ByteAt(pos + 1)]
<1>1. /\ At("EXPECT_CLASS_ID_UNTAGGED")
      /\ \/ Has(pos, 2) /\ StepDone(pos + 2, c, FALSE)
         \/ NextPattern
  BY DEF ExpectClassIdUntagged
<1>2. CASE Has(pos, 2) /\ StepDone(pos + 2, c, FALSE)
  <2>1. pos + 2 \in Nat /\ pos <= pos + 2 /\ pos + 2 <= Len(buffer)
    BY <1>2, Here DEF Has
  <2>2. c \in Capture /\ c.at = cap.at /\ c.len = cap.len
    <3>1. ByteAt(pos + 1) \in Unsigned16
      <4>1. ByteAt(pos + 1) \in Byte
        BY Here, ByteAtType
      <4> QED
        BY <4>1, ByteIsUnsigned16
    <3> QED
      BY <3>1, Here DEF Capture
  <2> HIDE DEF c
  <2> QED
    BY <1>1, <1>2, <2>1, <2>2, StepKeepsValue
<1>3. CASE NextPattern
  BY <1>1, <1>3, OfPattern, NextPatternInv
<1> QED
  BY <1>1, <1>2, <1>3

LEMMA ExpectObis6Inv ==
  ASSUME Inv, NEW type \in {"EXPECT_OBIS6_TAGGED", "EXPECT_OBIS6_TAGGED_WRONG",
                            "EXPECT_OBIS6_UNTAGGED"},
         ExpectObis6(type)
  PROVE  Inv'
<1> DEFINE tag == ObisTag(type)
           c == [cap EXCEPT !.obis = BytesAt(pos + Len(tag), 6)]
           counts == tag # << >>
<1>1. /\ At(type)
      /\ \/ /\ Has(pos, Len(tag) + 6)
            /\ StepDone(pos + Len(tag) + 6, c, counts)
         \/ NextPattern
  BY DEF ExpectObis6
<1>2. CASE Has(pos, Len(tag) + 6) /\ StepDone(pos + Len(tag) + 6, c, counts)
  <2>1. Len(tag) \in Nat /\ counts \in BOOLEAN
    BY DEF ObisTag
  <2>2. c \in Capture /\ c.at = cap.at /\ c.len = cap.len
    <3>1. Has(pos + Len(tag), 6) /\ pos + Len(tag) \in Nat
      BY <1>2, <2>1, Here DEF Has
    <3>2. BytesAt(pos + Len(tag), 6) \in Seq(Byte)
      BY <3>1, Here, BytesAtType
    <3> QED
      BY <3>2, Here DEF Capture
  <2>3. /\ pos + Len(tag) + 6 \in Nat /\ pos <= pos + Len(tag) + 6
        /\ pos + Len(tag) + 6 <= Len(buffer)
    BY <1>2, <2>1, Here DEF Has
  <2>4. type # "SELF_DESC"
    OBVIOUS
  <2> HIDE DEF c, tag, counts
  <2> QED
    BY <1>1, <1>2, <2>1, <2>2, <2>3, <2>4, StepKeepsValue
<1>3. CASE NextPattern
  BY <1>1, <1>3, OfPattern, NextPatternInv
<1> QED
  BY <1>1, <1>2, <1>3

LEMMA ExpectAttr8UntaggedInv ==
  ASSUME Inv, ExpectAttr8Untagged
  PROVE  Inv'
<1>1. /\ At("EXPECT_ATTR8_UNTAGGED")
      /\ StepDone(Past(pos, 1), cap, FALSE) \/ NextPattern
  BY DEF ExpectAttr8Untagged
<1>2. CASE StepDone(Past(pos, 1), cap, FALSE)
  BY <1>1, <1>2, Here, PassingInv
<1>3. CASE NextPattern
  BY <1>1, <1>3, OfPattern, NextPatternInv
<1> QED
  BY <1>1, <1>2, <1>3

(* A value that ends at the position the step moves to.                    *)
LEMMA StepTakesValue ==
  ASSUME Inv, NEW type, At(type), type # "SELF_DESC",
         NEW c \in Capture, NEW p \in Nat, pos < c.at, c.at + c.len = p,
         p <= Len(buffer), NEW counts \in BOOLEAN, StepDone(p, c, counts)
  PROVE  Inv'
<1>1. c.at \in Nat /\ c.len \in Nat
  BY DEF Capture
<1>2. pos <= p
  BY <1>1, Here
<1>3. InBuffer(c)
  BY DEF InBuffer
<1>4. Within(c, saved, p)
  BY <1>1, Here DEF Within
<1> QED
  BY <1>2, <1>3, <1>4, StepDoneInv

LEMMA ExpectValueGenericInv ==
  ASSUME Inv, ExpectValueGeneric
  PROVE  Inv'
<1>1. /\ At("EXPECT_VALUE_GENERIC")
      /\ \/ /\ CanCapture(pos)
            /\ StepDone(CaptureEnd(pos), Captured(cap, pos), TRUE)
         \/ NextPattern
  BY DEF ExpectValueGeneric
<1>2. CASE /\ CanCapture(pos)
           /\ StepDone(CaptureEnd(pos), Captured(cap, pos), TRUE)
  <2>1. /\ Captured(cap, pos) \in Capture
        /\ pos < Captured(cap, pos).at
        /\ Captured(cap, pos).at + Captured(cap, pos).len = CaptureEnd(pos)
        /\ CaptureEnd(pos) \in Nat /\ CaptureEnd(pos) <= Len(buffer)
    BY <1>2, Here, CapturedInside
  <2> QED
    BY <1>1, <1>2, <2>1, StepTakesValue
<1>3. CASE NextPattern
  BY <1>1, <1>3, OfPattern, NextPatternInv
<1> QED
  BY <1>1, <1>2, <1>3

LEMMA ExpectValueDateTimeInv ==
  ASSUME Inv, ExpectValueDateTime
  PROVE  Inv'
<1> DEFINE start == IF ByteAt(pos) = DATETIME THEN pos + 1 ELSE pos + 2
           c == Valued(cap, DATETIME, start, 12)
<1>1. /\ At("EXPECT_VALUE_DATE_TIME")
      /\ \/ Has(start, 12) /\ StepDone(start + 12, c, TRUE)
         \/ NextPattern
  BY DEF ExpectValueDateTime
<1>2. CASE Has(start, 12) /\ StepDone(start + 12, c, TRUE)
  <2>1. start \in Nat /\ pos < start
    BY Here
  <2>2. DATETIME \in Byte
    BY DEF DATETIME, Byte
  <2>3. start + 12 \in Nat /\ start + 12 <= Len(buffer)
    BY <1>2, <2>1 DEF Has
  <2> HIDE DEF start
  <2>4. c \in Capture /\ c.at = start /\ c.len = 12
    <3>1. cap \in Capture /\ 12 \in Nat
      BY Here
    <3> QED
      BY <2>1, <2>2, <3>1, ValuedType
  <2> HIDE DEF c
  <2> QED
    BY <1>1, <1>2, <2>1, <2>3, <2>4, StepTakesValue
<1>3. CASE NextPattern
  BY <1>1, <1>3, OfPattern, NextPatternInv
<1> QED
  BY <1>1, <1>2, <1>3

LEMMA ExpectValueOctetStringInv ==
  ASSUME Inv, ExpectValueOctetString
  PROVE  Inv'
<1> DEFINE len == ByteAt(pos + 1)
           at == pos + 2
           c == Valued(cap, ByteAt(pos), at, len)
<1>1. /\ At("EXPECT_VALUE_OCTET_STRING")
      /\ \/ Has(at, len) /\ StepDone(at + len, c, TRUE)
         \/ NextPattern
  BY DEF ExpectValueOctetString
<1>2. CASE Has(at, len) /\ StepDone(at + len, c, TRUE)
  <2>1. ByteAt(pos) \in Byte /\ len \in Nat
    BY Here, ByteAtType
  <2>2. at \in Nat /\ pos < at /\ cap \in Capture /\ pos \in Nat
    BY Here
  <2> HIDE DEF at, len
  <2>3. c \in Capture /\ c.at = at /\ c.len = len
    BY <2>1, <2>2, ValuedType
  <2> HIDE DEF c
  <2>4. /\ at + len \in Nat /\ at + len <= Len(buffer)
        /\ pos < c.at /\ c.at + c.len = at + len
    BY <1>2, <2>1, <2>2, <2>3 DEF Has
  <2> QED
    BY <1>1, <1>2, <2>3, <2>4, StepTakesValue
<1>3. CASE NextPattern
  BY <1>1, <1>3, OfPattern, NextPatternInv
<1> QED
  BY <1>1, <1>2, <1>3

LEMMA ExpectStructureNInv ==
  ASSUME Inv, ExpectStructureN
  PROVE  Inv'
<1>1. /\ At("EXPECT_STRUCTURE_N")
      /\ StepDone(Past(pos, 2), cap, TRUE) \/ NextPattern
  BY DEF ExpectStructureN
<1>2. CASE StepDone(Past(pos, 2), cap, TRUE)
  BY <1>1, <1>2, Here, PassingInv
<1>3. CASE NextPattern
  BY <1>1, <1>3, OfPattern, NextPatternInv
<1> QED
  BY <1>1, <1>2, <1>3

LEMMA ExpectScalerTaggedInv ==
  ASSUME Inv, ExpectScalerTagged
  PROVE  Inv'
<1> DEFINE c == [cap EXCEPT !.scaler = SignedByte(ByteAt(pos + 1)),
                            !.has_scaler_unit = TRUE]
<1>1. /\ At("EXPECT_SCALER_TAGGED")
      /\ StepDone(Past(pos, 2), c, TRUE) \/ NextPattern
  BY DEF ExpectScalerTagged
<1>2. CASE StepDone(Past(pos, 2), c, TRUE)
  <2>1. ByteAt(pos + 1) \in Nat /\ ByteAt(pos + 1) <= 255
    BY Here, ByteAtType
  <2>2. SignedByte(ByteAt(pos + 1)) \in Signed8
    BY <2>1 DEF SignedByte, Signed8
  <2>3. c \in Capture /\ c.at = cap.at /\ c.len = cap.len
    BY <2>2, Here DEF Capture
  <2> HIDE DEF c
  <2> QED
    BY <1>1, <1>2, <2>3, PassingInv
<1>3. CASE NextPattern
  BY <1>1, <1>3, OfPattern, NextPatternInv
<1> QED
  BY <1>1, <1>2, <1>3

LEMMA ExpectUnitEnumTaggedInv ==
  ASSUME Inv, ExpectUnitEnumTagged
  PROVE  Inv'
<1> DEFINE c == [cap EXCEPT !.unit_enum = ByteAt(pos + 1),
                            !.has_scaler_unit = TRUE]
<1>1. /\ At("EXPECT_UNIT_ENUM_TAGGED")
      /\ StepDone(Past(pos, 2), c, TRUE) \/ NextPattern
  BY DEF ExpectUnitEnumTagged
<1>2. CASE StepDone(Past(pos, 2), c, TRUE)
  <2>1. ByteAt(pos + 1) \in Byte
    BY Here, ByteAtType
  <2>2. c \in Capture /\ c.at = cap.at /\ c.len = cap.len
    BY <2>1, Here DEF Capture
  <2> HIDE DEF c
  <2> QED
    BY <1>1, <1>2, <2>2, PassingInv
<1>3. CASE NextPattern
  BY <1>1, <1>3, OfPattern, NextPatternInv
<1> QED
  BY <1>1, <1>2, <1>3

LEMMA GoingDownOrUpInv ==
  ASSUME Inv, GoingDownOrUp
  PROVE  Inv'
<1>1. /\ level' = (level + IF PatternSteps[step].type = "GOING_DOWN" THEN 1 ELSE 255) % 256
      /\ step' = step + 1
      /\ UNCHANGED <<patterns, buffer, pos, stack, status, pattern, saved, consumed,
                     cap, declared, held, sent, delivered>>
  BY DEF GoingDownOrUp
<1>2. status = "parsing" /\ declared = -1
  <2>1. At("GOING_DOWN") \/ At("GOING_UP")
    BY DEF GoingDownOrUp
  <2>2. status = "parsing"
    BY <2>1 DEF At, Matching, InContainer
  <2> QED
    BY <2>1, <2>2, NothingDeclared
<1>3. Walking /\ DeliveredFits
  BY DEF Inv
<1>4. level' \in Byte
  <2>1. level \in Nat
    BY <1>3, ByteIsNat DEF Walking
  <2>2. level + (IF PatternSteps[step].type = "GOING_DOWN" THEN 1 ELSE 255) \in Nat
    BY <2>1
  <2> QED
    BY <1>1, <2>2, RemainderIsByte
<1>5. Walking'
  BY <1>1, <1>3, <1>4 DEF Walking
<1>6. CapFits' /\ HeldFits'
  BY <1>1, Here, CapturesStay
<1>7. DeliveredFits'
  BY <1>1, <1>3, Here, DeliveredLater
<1>8. Idle' /\ DescribesValues'
  BY <1>1, <1>2 DEF Idle, DescribesValues
<1> QED
  BY <1>5, <1>6, <1>7, <1>8 DEF Inv

LEMMA OneFits ==
  ASSUME NEW c \in Capture, InBuffer(c)
  PROVE  /\ <<c>> \in Seq(Capture) /\ AllInBuffer(<<c>>)
         /\ \A from, to : Within(c, from, to) => InOrder(<<c>>, from, to)
<1>1. <<c>> \in Seq(Capture) /\ DOMAIN <<c>> = {1} /\ <<c>>[1] = c
  OBVIOUS
<1> QED
  BY <1>1 DEF AllInBuffer, InOrder

LEMMA PatternMatchedInv ==
  ASSUME Inv, PatternMatched
  PROVE  Inv'
<1> DEFINE c == [cap EXCEPT !.elem_idx = saved]
           n == IF consumed = 0 THEN 1 ELSE consumed
<1>1. /\ Matching /\ Emit(<<c>>) /\ ElementsDone(n, pos)
      /\ buffer' = buffer /\ patterns' = patterns /\ status' = status
  BY DEF PatternMatched
<1>2. Walking /\ DeliveredFits /\ n \in Nat
  BY DEF Inv, Walking
<1>3. /\ saved \in Nat /\ pos \in Nat /\ saved <= pos /\ pos <= Len(buffer)
      /\ cap \in Capture
  BY Here
<1>4. c \in Capture /\ c.at = cap.at /\ c.len = cap.len
  BY <1>3 DEF Capture
<1>5. InBuffer(c) /\ (~ SelfDescribing => Within(c, saved, pos))
  BY <1>4 DEF Inv, CapFits, InBuffer, Within
<1> HIDE DEF c, n
<1>6. /\ <<c>> \in Seq(Capture) /\ AllInBuffer(<<c>>)
      /\ ~ SelfDescribing => InOrder(<<c>>, saved, pos)
  BY <1>4, <1>5, OneFits
<1>7. saved' = pos /\ pattern \in DOMAIN patterns
  BY <1>1, <1>2, MatchingTypes DEF ElementsDone, NextElement
<1>8. DeliveredFits'
  BY <1>1, <1>2, <1>3, <1>6, <1>7, Delivers
<1> QED
  BY <1>1, <1>2, <1>3, <1>8, ElementsDoneInv DEF Matching

-----------------------------------------------------------------------------
(* Self-describing structures.                                             *)

LEMMA ByteMayBeDeclared == ASSUME NEW b \in Byte PROVE b \in -1 .. 255
  BY DEF Byte

LEMMA SelfDescHeaderInv ==
  ASSUME Inv, SelfDescHeader
  PROVE  Inv'
<1>1. At("SELF_DESC") /\ Matching
  BY DEF SelfDescHeader, At
<1>2. CASE /\ step = 1 /\ Len(PatternSteps) = 1
           /\ ByteAt(pos + 1) # 255 /\ Values <= ByteAt(pos + 1)
           /\ declared' = ByteAt(pos + 1) /\ pos' = pos + 2
           /\ UNCHANGED <<patterns, buffer, stack, status, pattern, saved, step,
                          level, consumed, cap, held, sent, delivered>>
  <2>1. Walking /\ DeliveredFits
    BY DEF Inv
  <2>2. ByteAt(pos + 1) \in Nat /\ ByteAt(pos + 1) <= 255 /\ pos + 1 < Len(buffer)
    BY <1>2, Here, ByteAtType
  <2>3. pos' \in Nat /\ pos <= pos' /\ pos' <= Len(buffer) /\ saved <= pos'
    BY <1>2, <2>2, Here
  <2>4. declared' \in -1 .. 255
    <3>1. declared' \in Byte
      BY <1>2, Here, ByteAtType
    <3> QED
      BY <3>1, ByteMayBeDeclared
  <2>5. Walking'
    BY <1>2, <2>1, <2>3, <2>4 DEF Walking
  <2>6. CapFits' /\ HeldFits'
    BY <1>2, <2>3, CapturesStay
  <2>7. DeliveredFits'
    BY <1>2, <2>1, Here, DeliveredLater
  <2>8. Idle' /\ DescribesValues'
    <3>1. status = "parsing" /\ stack # << >> /\ pattern \in DOMAIN patterns
      BY <1>1, <2>1, MatchingTypes
    <3>2. PatternSteps[1].type = "SELF_DESC"
      BY <1>1, <1>2 DEF At
    <3> QED
      BY <1>2, <3>1, <3>2 DEF Idle, DescribesValues, Values, Top, PatternSteps
  <2> QED
    BY <2>5, <2>6, <2>7, <2>8 DEF Inv
<1>3. CASE NextPattern
  BY <1>1, <1>3, NextPatternInv
<1> QED
  BY <1>2, <1>3 DEF SelfDescHeader

(* What is captured next lies behind what is held.                         *)
LEMMA HeldGrows ==
  ASSUME Walking, HeldFits, NEW c \in Capture, InBuffer(c), NEW p \in Nat,
         pos <= p, Within(c, pos, p),
         held' = Append(held, c), pos' = p, UNCHANGED <<patterns, buffer, saved>>
  PROVE  HeldFits'
<1>1. held \in Seq(Capture) /\ Len(held) \in Nat /\ DOMAIN held = 1 .. Len(held)
  BY DEF HeldFits
<1>2. /\ held' \in Seq(Capture) /\ DOMAIN held' = 1 .. Len(held) + 1
      /\ held'[Len(held) + 1] = c
      /\ \A i \in 1 .. Len(held) : held'[i] = held[i]
  <2>1. held' \in Seq(Capture) /\ Len(held') = Len(held) + 1
    BY <1>1, AppendProperties
  <2> QED
    BY <1>1, <2>1, AppendProperties
<1>3. AllInBuffer(held)'
  <2> SUFFICES ASSUME NEW i \in 1 .. Len(held) + 1
               PROVE  held'[i].at + held'[i].len <= Len(buffer)
    BY <1>2 DEF AllInBuffer, InBuffer
  <2>1. CASE i \in 1 .. Len(held)
    BY <2>1, <1>1, <1>2 DEF HeldFits, AllInBuffer, InBuffer
  <2>2. CASE i = Len(held) + 1
    BY <2>2, <1>2 DEF InBuffer
  <2> QED
    BY <1>1, <2>1, <2>2
<1>4. ASSUME ~ SelfDescribing PROVE InOrder(held, saved, pos)'
  <2>1. InOrder(held, saved, pos)
    BY <1>4 DEF HeldFits
  <2>2. saved \in Nat /\ pos \in Nat /\ saved <= pos
    BY Types
  <2>3. \A i \in 1 .. Len(held) : held[i].at \in Nat /\ held[i].len \in Nat
    <3>1. \A i \in 1 .. Len(held) : held[i] \in Capture
      BY <1>1, ElementOfSeq
    <3> QED
      BY <3>1 DEF Capture
  <2>4. c.at \in Nat /\ c.len \in Nat
    BY DEF Capture
  <2>5. ASSUME NEW i \in 1 .. Len(held) + 1 PROVE Within(held'[i], saved, p)
    <3>1. CASE i \in 1 .. Len(held)
      <4>1. Within(held[i], saved, pos)
        BY <3>1, <1>1, <2>1 DEF InOrder
      <4> QED
        BY <3>1, <4>1, <1>2, <2>2, <2>3 DEF Within
    <3>2. CASE i = Len(held) + 1
      BY <3>2, <1>2, <2>2, <2>4 DEF Within
    <3> QED
      BY <1>1, <3>1, <3>2
  <2>6. ASSUME NEW i \in 1 .. Len(held) + 1, NEW j \in 1 .. Len(held) + 1, i < j
        PROVE  Precedes(held'[i], held'[j])
    <3>1. i \in 1 .. Len(held)
      BY <1>1, <2>6
    <3>2. CASE j \in 1 .. Len(held)
      BY <3>1, <3>2, <2>6, <1>1, <1>2, <2>1 DEF InOrder
    <3>3. CASE j = Len(held) + 1
      <4>1. Within(held[i], saved, pos)
        BY <3>1, <1>1, <2>1 DEF InOrder
      <4>2. held'[i] = held[i] /\ held'[j] = c
        BY <3>1, <3>3, <1>2
      <4>3. held[i].at \in Nat /\ held[i].len \in Nat
        BY <3>1, <2>3
      <4> QED
        BY <4>1, <4>2, <4>3, <2>2, <2>4 DEF Within, Precedes
    <3> QED
      BY <1>1, <3>2, <3>3
  <2> QED
    BY <1>2, <2>5, <2>6 DEF InOrder
<1>5. SelfDescribing' <=> SelfDescribing
  BY DEF SelfDescribing
<1> QED
  BY <1>2, <1>3, <1>4, <1>5 DEF HeldFits

LEMMA TwoBytes ==
  ASSUME NEW high \in Byte, NEW low \in Byte
  PROVE  256 * high + low \in Unsigned16
  BY DEF Byte, Unsigned16

LEMMA SelfDescDescriptorInv ==
  ASSUME Inv, SelfDescDescriptor
  PROVE  Inv'
<1> DEFINE c == [NoCapture EXCEPT
                   !.class_id = 256 * ByteAt(pos + 3) + ByteAt(pos + 4),
                   !.obis = BytesAt(pos + 7, 6)]
<1>1. At("SELF_DESC") /\ Matching
  BY DEF SelfDescDescriptor, At
<1>2. CASE /\ DescriptorAt(pos) /\ held' = Append(held, c) /\ pos' = pos + 18
           /\ UNCHANGED <<patterns, buffer, stack, status, pattern, saved, step,
                          level, consumed, cap, declared, sent, delivered>>
  <2>1. Walking /\ DeliveredFits /\ HeldFits /\ DescribesValues
    BY DEF Inv
  <2>2. /\ pos \in Nat /\ pos + 18 \in Nat /\ pos + 18 <= Len(buffer)
        /\ saved <= pos + 18 /\ pos <= pos + 18
        /\ pos + 3 \in Nat /\ pos + 4 \in Nat /\ pos + 7 \in Nat
    <3>1. pos + 18 <= Len(buffer)
      BY <1>2 DEF DescriptorAt, Has
    <3>2. pos \in Nat /\ saved \in Nat /\ saved <= pos
      BY Here
    <3> QED
      BY <3>1, <3>2
  <2>3. c \in Capture /\ c.at = 0 /\ c.len = 0
    <3>1. ByteAt(pos + 3) \in Byte /\ ByteAt(pos + 4) \in Byte
      BY <2>2, Here, ByteAtType
    <3>2. 256 * ByteAt(pos + 3) + ByteAt(pos + 4) \in Unsigned16
      BY <3>1, TwoBytes
    <3>3. BytesAt(pos + 7, 6) \in Seq(Byte)
      <4>1. Has(pos + 7, 6)
        BY <2>2, Here DEF Has
      <4> QED
        BY <4>1, <2>2, Here, BytesAtType
    <3> QED
      BY <3>2, <3>3, NoCaptureType DEF Capture
  <2> HIDE DEF c
  <2>4. InBuffer(c) /\ Within(c, pos, pos + 18)
    BY <2>3, Here DEF InBuffer, Within
  <2>5. HeldFits'
    BY <1>2, <2>1, <2>2, <2>3, <2>4, HeldGrows
  <2>6. Walking'
    BY <1>2, <2>1, <2>2 DEF Walking
  <2>7. CapFits'
    BY <1>2, <2>2, CapturesStay
  <2>8. DeliveredFits'
    BY <1>2, <2>1, Here, DeliveredLater
  <2>9. Idle' /\ DescribesValues'
    <3>1. status = "parsing"
      BY <1>1 DEF Matching, InContainer
    <3> QED
      BY <1>2, <2>1, <3>1 DEF Idle, DescribesValues, Values, Top, PatternSteps
  <2> QED
    BY <2>5, <2>6, <2>7, <2>8, <2>9 DEF Inv
<1>3. CASE NextPattern
  BY <1>1, <1>3, NextPatternInv
<1> QED
  BY <1>2, <1>3 DEF SelfDescDescriptor

LEMMA SelfDescMisalignedInv ==
  ASSUME Inv, SelfDescMisaligned
  PROVE  Inv'
  BY NextPatternInv DEF SelfDescMisaligned, Described, At

(* Only with a self-describing pattern the parser comes to descriptors.    *)
LEMMA DescribedType ==
  ASSUME Inv, Described
  PROVE  /\ Matching /\ declared # -1 /\ Values <= declared
         /\ declared = Len(held) /\ SelfDescribing
<1>1. held \in Seq(Capture) /\ declared = Len(held)
  BY DEF Inv, HeldFits, Described
<1>2. declared # -1
  BY <1>1
<1> QED
  BY <1>1, <1>2 DEF Inv, DescribesValues, Described, At, SelfDescribing, PatternSteps

LEMMA SelfDescValueInv ==
  ASSUME Inv, SelfDescValue
  PROVE  Inv'
<1> DEFINE d == held[declared - Values + sent + 1]
           c == [Captured(d, pos) EXCEPT !.elem_idx = pos]
<1>1. Described /\ sent < Values /\ Matching
  BY DescribedType DEF SelfDescValue
<1>2. CASE /\ CanCapture(pos) /\ Emit(<<c>>) /\ pos' = CaptureEnd(pos)
           /\ sent' = sent + 1
           /\ UNCHANGED <<patterns, buffer, stack, status, pattern, saved, step,
                          level, consumed, cap, declared, held>>
  <2>1. Walking /\ DeliveredFits /\ HeldFits /\ DescribesValues
    BY DEF Inv
  <2>2. d \in Capture
    <3>1. held \in Seq(Capture) /\ declared = Len(held) /\ Values <= declared
      BY <1>1, <2>1, DescribedType DEF HeldFits
    <3>2. Values \in Nat /\ sent \in Nat
      BY <1>1, <2>1, MatchingTypes DEF Walking
    <3>3. declared - Values + sent + 1 \in 1 .. Len(held)
      BY <1>1, <3>1, <3>2
    <3> QED
      BY <3>1, <3>3, ElementOfSeq
  <2> HIDE DEF d
  <2>3. /\ Captured(d, pos) \in Capture /\ pos < Captured(d, pos).at
        /\ Captured(d, pos).at + Captured(d, pos).len = CaptureEnd(pos)
        /\ CaptureEnd(pos) \in Nat /\ pos < CaptureEnd(pos)
        /\ CaptureEnd(pos) <= Len(buffer)
    BY <1>2, <2>2, Here, CapturedInside
  <2>4. c \in Capture /\ c.at = Captured(d, pos).at /\ c.len = Captured(d, pos).len
    BY <2>3, Here DEF Capture
  <2> HIDE DEF c
  <2>5. InBuffer(c)
    BY <2>3, <2>4 DEF InBuffer
  <2>6. <<c>> \in Seq(Capture) /\ AllInBuffer(<<c>>)
    BY <2>4, <2>5, OneFits
  <2>7. SelfDescribing /\ pattern \in DOMAIN patterns /\ status = "parsing"
    BY <1>1, <2>1, DescribedType, MatchingTypes
  <2>8. DeliveredFits'
    <3>1. saved \in Nat /\ saved <= saved /\ saved' = saved
      BY <1>2, Here
    <3> QED
      BY <1>2, <2>1, <2>6, <2>7, <3>1, Delivers
  <2>9. pos \in Nat /\ pos <= CaptureEnd(pos) /\ saved <= CaptureEnd(pos)
    BY <2>3, Here
  <2>10. Walking'
    BY <1>2, <2>1, <2>3, <2>9 DEF Walking
  <2>11. CapFits' /\ HeldFits'
    BY <1>2, <2>3, <2>9, CapturesStay
  <2>12. Idle' /\ DescribesValues'
    BY <1>2, <2>1, <2>7 DEF Idle, DescribesValues, Values, Top, PatternSteps
  <2> QED
    BY <2>8, <2>10, <2>11, <2>12 DEF Inv
<1>3. CASE NextPattern
  BY <1>1, <1>3, NextPatternInv
<1> QED
  BY <1>2, <1>3 DEF SelfDescValue

(* All elements of the innermost container are done.                       *)
LEMMA WholeStructureInv ==
  ASSUME Inv, Matching, ElementsDone(Top.count, pos), buffer' = buffer,
         patterns' = patterns, status' = status, DeliveredFits'
  PROVE  Inv'
<1>1. Top.count \in Nat
  BY TopType DEF Inv, Matching, InContainer
<1>2. pos \in Nat /\ saved <= pos /\ pos <= Len(buffer)
  BY Here
<1> QED
  BY <1>1, <1>2, ElementsDoneInv DEF Matching

LEMMA SelfDescMatchedInv ==
  ASSUME Inv, SelfDescMatched
  PROVE  Inv'
<1>1. /\ Matching /\ ElementsDone(Top.count, pos)
      /\ UNCHANGED <<patterns, buffer, status, delivered>>
  BY DEF SelfDescMatched, Described, At
<1>2. saved' = pos /\ pos \in Nat /\ saved <= pos
  BY <1>1, Here DEF ElementsDone, NextElement
<1>3. DeliveredFits'
  BY <1>1, <1>2, DeliveredLater DEF Inv
<1> QED
  BY <1>1, <1>3, WholeStructureInv

-----------------------------------------------------------------------------
(* Flat positional structures.                                             *)

LEMMA FlatMisfitInv ==
  ASSUME Inv, FlatMisfit
  PROVE  Inv'
  BY NextPatternInv DEF FlatMisfit, At

LEMMA FlatFieldInv ==
  ASSUME Inv, FlatField
  PROVE  Inv'
<1> DEFINE field == Fields[Len(held) + 1]
           base == [NoCapture EXCEPT !.elem_idx = pos, !.obis = field.obis]
           c == Captured(base, pos)
<1>1. At("FLAT_POSITIONAL") /\ Matching /\ Len(held) < Len(Fields)
  BY DEF FlatField, At
<1>2. CASE /\ CanCapture(pos) /\ held' = Append(held, c) /\ pos' = CaptureEnd(pos)
           /\ UNCHANGED <<patterns, buffer, stack, status, pattern, saved,
                          step, level, consumed, cap, declared, sent, delivered>>
  <2>1. Walking /\ DeliveredFits /\ HeldFits
    BY DEF Inv
  <2>2. pattern \in DOMAIN patterns /\ status = "parsing"
    BY <1>1, <2>1, MatchingTypes
  <2>3. base \in Capture
    <3>1. Fields \in Seq([obis : Seq(Byte), prefix : Seq(Byte)])
      BY <2>1, <2>2, PatternTypes DEF Fields
    <3>2. Len(held) + 1 \in 1 .. Len(Fields)
      BY <1>1, <2>1, <3>1 DEF HeldFits
    <3>3. field \in [obis : Seq(Byte), prefix : Seq(Byte)]
      BY <3>1, <3>2, ElementOfSeq
    <3>4. field.obis \in Seq(Byte)
      BY <3>3
    <3> HIDE DEF field
    <3> QED
      BY <3>4, Here, NoCaptureType DEF Capture
  <2> HIDE DEF base
  <2>4. /\ c \in Capture /\ pos < c.at /\ c.at + c.len = CaptureEnd(pos)
        /\ CaptureEnd(pos) \in Nat /\ pos < CaptureEnd(pos)
        /\ CaptureEnd(pos) <= Len(buffer)
    BY <1>2, <2>3, Here, CapturedInside
  <2> HIDE DEF c
  <2>5. pos \in Nat /\ pos <= CaptureEnd(pos) /\ saved <= CaptureEnd(pos)
    BY <2>4, Here
  <2>6. InBuffer(c) /\ Within(c, pos, CaptureEnd(pos))
    <3>1. c.at \in Nat /\ c.len \in Nat
      BY <2>4 DEF Capture
    <3> QED
      BY <2>4, <2>5, <3>1 DEF InBuffer, Within
  <2>7. HeldFits'
    BY <1>2, <2>1, <2>4, <2>5, <2>6, HeldGrows
  <2>8. Walking'
    BY <1>2, <2>1, <2>4, <2>5 DEF Walking
  <2>9. CapFits'
    BY <1>2, <2>4, <2>5, CapturesStay
  <2>10. DeliveredFits'
    BY <1>2, <2>1, Here, DeliveredLater
  <2>11. Idle' /\ DescribesValues'
    <3>1. declared = -1
      BY <1>1, NothingDeclared
    <3> QED
      BY <1>2, <2>2, <3>1 DEF Idle, DescribesValues
  <2> QED
    BY <2>7, <2>8, <2>9, <2>10, <2>11 DEF Inv
<1>3. CASE NextPattern
  BY <1>1, <1>3, NextPatternInv
<1> QED
  BY <1>2, <1>3 DEF FlatField

LEMMA FlatMatchedInv ==
  ASSUME Inv, FlatMatched
  PROVE  Inv'
<1>1. /\ Matching /\ Emit(held) /\ ElementsDone(Top.count, pos)
      /\ UNCHANGED <<patterns, buffer, status>>
  BY DEF FlatMatched, At
<1>2. Walking /\ DeliveredFits /\ HeldFits
  BY DEF Inv
<1>3. saved' = pos /\ pos \in Nat /\ saved <= pos
  BY <1>1, Here DEF ElementsDone, NextElement
<1>4. pattern \in DOMAIN patterns
  BY <1>1, <1>2, MatchingTypes
<1>5. /\ held \in Seq(Capture) /\ AllInBuffer(held)
      /\ ~ SelfDescribing => InOrder(held, saved, pos)
  BY <1>2 DEF HeldFits
<1>6. DeliveredFits'
  BY <1>1, <1>2, <1>3, <1>4, <1>5, Delivers
<1> QED
  BY <1>1, <1>6, WholeStructureInv

-----------------------------------------------------------------------------
(* The walk.                                                               *)

LEMMA ElementMissingInv ==
  ASSUME Inv, ElementMissing
  PROVE  Inv'
<1>1. Finish(pos) /\ UNCHANGED <<patterns, buffer, delivered>>
  BY DEF ElementMissing
<1>2. pos \in Nat /\ pos <= pos /\ pos <= Len(buffer)
  BY Here
<1> QED
  BY <1>1, <1>2, FinishInv

LEMMA ReturnInv ==
  ASSUME Inv, Return
  PROVE  Inv'
<1>1. Finish(pos) /\ UNCHANGED <<patterns, buffer, delivered>>
  BY DEF Return
<1>2. pos \in Nat /\ pos <= pos /\ pos <= Len(buffer)
  BY Here
<1> QED
  BY <1>1, <1>2, FinishInv

(* A container without a count ends the call.                              *)
LEMMA EnterInv ==
  ASSUME Inv, status = "parsing", ByteAt(pos) \in Containers,
         IF Opens(pos) THEN Open(pos) /\ UNCHANGED status ELSE Finish(Past(pos, 2)),
         UNCHANGED <<patterns, buffer, delivered>>
  PROVE  Inv'
<1>1. CASE Opens(pos)
  BY <1>1, OpenInv
<1>2. CASE ~ Opens(pos)
  <2>1. Past(pos, 2) \in Nat /\ pos <= Past(pos, 2) /\ Past(pos, 2) <= Len(buffer)
    BY Here, PastType
  <2> QED
    BY <1>2, <2>1, FinishInv
<1> QED
  BY <1>1, <1>2

LEMMA EnterElementInv ==
  ASSUME Inv, EnterElement
  PROVE  Inv'
  BY EnterInv DEF EnterElement, NoMatch, InContainer

LEMMA EnterTopLevelInv ==
  ASSUME Inv, EnterTopLevel
  PROVE  Inv'
  BY EnterInv DEF EnterTopLevel, AtTopLevel

LEMMA SkipElementInv ==
  ASSUME Inv, SkipElement
  PROVE  Inv'
<1> DEFINE type == ByteAt(pos)
           end == DataEnd(type, pos + 1)
           given == GivenUpAt(type, pos + 1)
<1>1. /\ InContainer /\ pos < Len(buffer)
      /\ UNCHANGED <<patterns, buffer, delivered>>
  BY DEF SkipElement, NoMatch
<1>2. type \in Byte /\ pos + 1 \in Nat /\ pos + 1 <= Len(buffer)
  BY <1>1, Here, ByteAtType
<1>3. CASE Complete(type, pos + 1) /\ ElementsDone(1, end) /\ UNCHANGED status
  <2>1. end \in Nat /\ pos + 1 <= end /\ end <= Len(buffer)
    BY <1>2, <1>3, Here, CompleteInside
  <2> HIDE DEF end
  <2>2. saved' = end
    BY <1>3 DEF ElementsDone, NextElement
  <2>3. saved <= end
    BY <2>1, Here
  <2>4. DeliveredFits'
    BY <1>1, <2>1, <2>2, <2>3, DeliveredLater DEF Inv
  <2> QED
    BY <1>1, <1>3, <2>1, <2>3, <2>4, ElementsDoneInv
<1>4. CASE Finish(given)
  <2>1. given \in Nat /\ pos + 1 <= given /\ given <= Len(buffer)
    BY <1>2, Here, GivenUpInside
  <2> HIDE DEF given
  <2>2. pos <= given
    BY <2>1, Here
  <2> QED
    BY <1>1, <1>4, <2>1, <2>2, FinishInv
<1> QED
  BY <1>3, <1>4 DEF SkipElement

(* The containers around the innermost one.                                *)
LEMMA OuterType ==
  ASSUME stack \in Seq([type : Containers, count : Byte, consumed : Byte]),
         stack # << >>,
         NEW outer, outer = SubSeq(stack, 1, Len(stack) - 1)
  PROVE  /\ outer \in Seq([type : Containers, count : Byte, consumed : Byte])
         /\ Len(outer) = Len(stack) - 1
<1>1. \A i \in 1 .. Len(stack) - 1 :
        stack[i] \in [type : Containers, count : Byte, consumed : Byte]
  <2>1. \A i \in 1 .. Len(stack) - 1 : i \in 1 .. Len(stack)
    OBVIOUS
  <2> QED
    BY <2>1, ElementOfSeq
<1>2. Len(stack) - 1 \in Int /\ 1 \in Int
  OBVIOUS
<1>3. /\ outer \in Seq([type : Containers, count : Byte, consumed : Byte])
      /\ Len(outer) = IF 1 <= Len(stack) - 1 THEN Len(stack) - 1 - 1 + 1 ELSE 0
  BY <1>1, <1>2, SubSeqProperties
<1>4. Len(stack) \in Nat /\ Len(stack) # 0
  OBVIOUS
<1> DEFINE n == Len(stack)
<1>5. n \in Nat /\ n # 0
  BY <1>4
<1>6. Len(outer) = IF 1 <= n - 1 THEN n - 1 - 1 + 1 ELSE 0
  BY <1>3
<1> HIDE DEF n
<1>7. Len(outer) = n - 1
  BY <1>5, <1>6
<1> QED
  BY <1>3, <1>7 DEF n

(* The stack when the innermost container is closed.                       *)
LEMMA ClosedStack ==
  ASSUME Inv, CloseContainer
  PROVE  /\ stack' \in Seq([type : Containers, count : Byte, consumed : Byte])
         /\ Len(stack') = Len(stack) - 1
<1> DEFINE outer == SubSeq(stack, 1, Len(stack) - 1)
<1>1. stack' = IF outer = << >> THEN outer
               ELSE [outer EXCEPT ![Len(outer)].consumed = (@ + 1) % 256]
  BY DEF CloseContainer
<1>2. /\ outer \in Seq([type : Containers, count : Byte, consumed : Byte])
      /\ Len(outer) = Len(stack) - 1
  <2>1. /\ stack \in Seq([type : Containers, count : Byte, consumed : Byte])
        /\ stack # << >>
    BY Types DEF Inv, CloseContainer
  <2> QED
    BY <2>1, OuterType
<1> HIDE DEF outer
<1>3. CASE outer = << >>
  BY <1>1, <1>2, <1>3
<1>4. CASE outer # << >>
  <2> DEFINE b == (outer[Len(outer)].consumed + 1) % 256
  <2>1. Len(outer) \in 1 .. Len(outer)
    BY <1>2, <1>4
  <2>2. b \in Byte
    <3>1. outer[Len(outer)] \in [type : Containers, count : Byte, consumed : Byte]
      BY <1>2, <2>1, ElementOfSeq
    <3>2. outer[Len(outer)].consumed \in Nat
      BY <3>1, ByteIsNat
    <3>3. outer[Len(outer)].consumed + 1 \in Nat
      BY <3>2
    <3> QED
      BY <3>3, RemainderIsByte
  <2>3. stack' = [outer EXCEPT ![Len(outer)].consumed = b]
    BY <1>1, <1>4
  <2> HIDE DEF b
  <2>4. /\ [outer EXCEPT ![Len(outer)].consumed = b]
             \in Seq([type : Containers, count : Byte, consumed : Byte])
        /\ Len([outer EXCEPT ![Len(outer)].consumed = b]) = Len(outer)
    BY <1>2, <2>1, <2>2, ConsumedType
  <2> QED
    BY <1>2, <2>3, <2>4
<1> QED
  BY <1>3, <1>4

LEMMA CloseContainerInv ==
  ASSUME Inv, CloseContainer
  PROVE  Inv'
<1>1. /\ NextElement(pos) /\ UNCHANGED <<patterns, buffer, status, delivered>>
      /\ status = "parsing" /\ stack # << >>
  BY DEF CloseContainer
<1>2. /\ Walking /\ DeliveredFits
      /\ stack \in Seq([type : Containers, count : Byte, consumed : Byte])
      /\ Len(stack) \in Nat /\ 2 * Len(stack) <= saved
  BY Types DEF Inv
<1>3. /\ pos \in Nat /\ saved \in Nat /\ saved <= pos /\ pos <= Len(buffer)
  BY Here
<1>4. /\ stack' \in Seq([type : Containers, count : Byte, consumed : Byte])
      /\ Len(stack') = Len(stack) - 1
  BY ClosedStack
<1>5. NewTry /\ pos' = pos /\ saved' = pos /\ pattern' = 1
  BY <1>1 DEF NextElement
<1>6. 2 * Len(stack') <= pos
  BY <1>2, <1>3, <1>4
<1>7. DeliveredFits'
  BY <1>1, <1>2, <1>3, <1>5, DeliveredLater
<1>8. pattern' \in 1 .. Len(patterns) + 1
  BY <1>2, <1>5, PatternTypes
<1> QED
  BY <1>1, <1>3, <1>4, <1>5, <1>6, <1>7, <1>8, NewTryInv

LEMMA ParseInv ==
  ASSUME Inv, NEW bytes \in Telegrams, Parse(bytes)
  PROVE  Inv'
<1>1. /\ Walking /\ CapFits /\ HeldFits /\ DeliveredFits /\ status = "idle"
      /\ saved = 0 /\ cap = NoCapture /\ held = << >> /\ declared = -1
  BY DEF Inv, Idle, Parse
<1>2. CASE Begin(bytes)
  <2>1. /\ buffer' = bytes /\ pos' = 0 /\ stack' = << >> /\ delivered' = << >>
        /\ status' = "parsing" /\ UNCHANGED <<patterns, match>>
    BY <1>2 DEF Begin
  <2>2. bytes \in Seq(Byte) /\ 0 <= Len(bytes)
    BY AxdrAssumption
  <2>3. Walking'
    <3>1. << >> \in Seq([type : Containers, count : Byte, consumed : Byte])
          /\ 2 * Len(<< >>) <= 0
      OBVIOUS
    <3> QED
      BY <1>1, <2>1, <2>2, <3>1 DEF Walking, match
  <2>4. CapFits'
    <3>1. cap' = NoCapture /\ buffer' \in Seq(Byte)
      BY <1>1, <2>1, <2>2 DEF match
    <3> QED
      BY <3>1, NoCaptureType DEF CapFits, InBuffer, Within
  <2>5. HeldFits' /\ DeliveredFits'
    <3>1. held' = << >> /\ delivered' = << >>
      BY <1>1, <2>1 DEF match
    <3> QED
      BY <3>1 DEF HeldFits, DeliveredFits, AllInBuffer, InOrder
  <2>6. Idle' /\ DescribesValues'
    BY <1>1, <2>1 DEF Idle, DescribesValues, match
  <2> QED
    BY <2>3, <2>4, <2>5, <2>6 DEF Inv
<1>3. CASE /\ status' = "done"
           /\ UNCHANGED <<patterns, buffer, pos, stack, match, delivered>>
  <2>1. Walking'
    BY <1>1, <1>3 DEF Walking, match
  <2>2. CapFits' /\ HeldFits'
    BY <1>3, Here, CapturesStay DEF match
  <2>3. DeliveredFits'
    BY <1>1, <1>3, Here, DeliveredLater DEF match
  <2>4. Idle' /\ DescribesValues'
    BY <1>1, <1>3 DEF Idle, DescribesValues, match
  <2> QED
    BY <2>1, <2>2, <2>3, <2>4 DEF Inv
<1> QED
  BY <1>2, <1>3 DEF Parse

LEMMA StutterInv == ASSUME Inv, UNCHANGED vars PROVE Inv'
<1>1. UNCHANGED <<patterns, buffer, pos, stack, status, match, delivered>>
  BY DEF vars
<1>2. Walking /\ DeliveredFits /\ Idle /\ DescribesValues
  BY DEF Inv
<1>3. Walking'
  BY <1>1, <1>2 DEF Walking, match
<1>4. CapFits' /\ HeldFits'
  BY <1>1, Here, CapturesStay DEF match
<1>5. DeliveredFits'
  BY <1>1, <1>2, Here, DeliveredLater DEF match
<1>6. Idle'
  BY <1>1, <1>2 DEF Idle, match
<1>7. DescribesValues'
  BY <1>1, <1>2 DEF DescribesValues, match, Values, Top, PatternSteps
<1> QED
  BY <1>3, <1>4, <1>5, <1>6, <1>7 DEF Inv

LEMMA NextInv ==
  ASSUME Inv, [Next]_vars
  PROVE  Inv'
<1>1. CASE MatchStep
  BY <1>1, ExpectToBeFirstInv, ExpectToBeLastInv, ExpectTypeExactInv,
     ExpectTypeUI8Inv, ExpectClassIdUntaggedInv, ExpectAttr8UntaggedInv,
     ExpectObis6Inv, ExpectValueGenericInv, ExpectValueDateTimeInv,
     ExpectValueOctetStringInv, ExpectStructureNInv, ExpectScalerTaggedInv,
     ExpectUnitEnumTaggedInv, GoingDownOrUpInv, PatternMatchedInv,
     SelfDescHeaderInv, SelfDescDescriptorInv, SelfDescMisalignedInv,
     SelfDescValueInv, SelfDescMatchedInv, FlatMisfitInv, FlatFieldInv,
     FlatMatchedInv
     DEF MatchStep
<1>2. CASE Walk
  BY <1>2, ElementMissingInv, EnterElementInv, SkipElementInv, CloseContainerInv,
     EnterTopLevelInv, ReturnInv
     DEF Walk
<1>3. CASE \E bytes \in Telegrams : Parse(bytes)
  BY <1>3, ParseInv
<1>4. CASE UNCHANGED vars
  BY <1>4, StutterInv
<1> QED
  BY <1>1, <1>2, <1>3, <1>4 DEF Next, Advance

(* The invariant holds in every state a call of parse goes through.        *)
THEOREM AxdrInvariant == Spec => []Inv
<1>1. Init => Inv
  BY InitInv
<1>2. Inv /\ [Next]_vars => Inv'
  BY NextInv
<1> QED
  BY <1>1, <1>2, PTL DEF Spec

-----------------------------------------------------------------------------
(* What follows from it.                                                   *)

LEMMA InvGivesTypes ==
  ASSUME Inv
  PROVE  TypeOK
  BY DEF Inv, Walking, CapFits, HeldFits, DeliveredFits, TypeOK

LEMMA InvGivesBounds ==
  ASSUME Inv
  PROVE  StaysInBuffer /\ DepthIsBounded
  BY DEF Inv, Walking, CapFits, HeldFits, DeliveredFits, AllInBuffer,
     StaysInBuffer, DepthIsBounded

LEMMA InvGivesOnce ==
  ASSUME Inv
  PROVE  DeliversEachByteOnce
  BY DEF Inv, DeliveredFits, InOrder, DeliversEachByteOnce

(* The registers of the parser never hold anything but what their C++ types*)
(* can: counts of elements stay bytes, scalers are signed, and pos_ never  *)
(* is negative.                                                            *)
THEOREM AxdrTypeCorrect == Spec => []TypeOK
<1>1. Inv => TypeOK
  BY InvGivesTypes
<1> QED
  BY <1>1, AxdrInvariant, PTL

(* Whatever lengths a telegram claims, nothing outside the buffer is       *)
(* referred to: neither by pos_ nor by any capture, delivered or only held.*)
THEOREM AxdrStaysInside == Spec => []StaysInBuffer
<1>1. Inv => StaysInBuffer
  BY InvGivesBounds
<1> QED
  BY <1>1, AxdrInvariant, PTL

(* parse_sequence_ recurses at most once for every two bytes it has read,  *)
(* however containers are nested.                                          *)
THEOREM AxdrDepthBounded == Spec => []DepthIsBounded
<1>1. Inv => DepthIsBounded
  BY InvGivesBounds
<1> QED
  BY <1>1, AxdrInvariant, PTL

(* Without a self-describing pattern no byte of the telegram is delivered  *)
(* in two values, and values are delivered in the order of their bytes,    *)
(* whatever patterns were tried in vain before.                            *)
THEOREM AxdrDeliversOnce == Spec => []DeliversEachByteOnce
<1>1. Inv => DeliversEachByteOnce
  BY InvGivesOnce
<1> QED
  BY <1>1, AxdrInvariant, PTL

-----------------------------------------------------------------------------
(* What is left to do: bytes in front of which no element begins yet, open *)
(* containers, elements of the innermost one, patterns to try, steps of the*)
(* pattern that is tried, and bytes that this pattern has not read.        *)
Unread == Len(buffer) - saved

ToCome ==
  IF stack # << >> /\ Top.consumed < Top.count THEN Top.count - Top.consumed ELSE 0

ToTry == Len(patterns) + 1 - pattern

ToMatch ==
  IF pattern <= Len(patterns) /\ step <= Len(PatternSteps)
  THEN Len(PatternSteps) + 1 - step ELSE 0

Ahead == Len(buffer) - pos

(* One of them becomes less, and none of those in front of it more.        *)
ComesNearer ==
  \/ Unread' < Unread
  \/ /\ Unread' = Unread
     /\ \/ Len(stack') < Len(stack)
        \/ /\ Len(stack') = Len(stack)
           /\ \/ ToCome' < ToCome
              \/ /\ ToCome' = ToCome
                 /\ \/ ToTry' < ToTry
                    \/ /\ ToTry' = ToTry
                       /\ \/ ToMatch' < ToMatch
                          \/ ToMatch' = ToMatch /\ Ahead' < Ahead

(* A pattern that counts elements has read some of them, and so has the    *)
(* description of a structure.  (Elements are counted in a byte: a match   *)
(* that makes the count wrap to zero has read at least one byte.)          *)
HasRead ==
  /\ consumed > 0 \/ declared # -1 => saved < pos
  /\ status = "idle" => consumed = 0

Forward == HasRead' /\ (status' = "done" \/ ComesNearer)

(* The counts are numbers, so they cannot become less for ever.            *)
CountsDown ==
  /\ Unread \in Nat /\ Len(stack) \in Nat /\ ToCome \in Nat /\ ToTry \in Nat
  /\ ToMatch \in Nat /\ Ahead \in Nat

LEMMA PatternStepsType ==
  ASSUME Walking, pattern <= Len(patterns)
  PROVE  Len(PatternSteps) \in Nat
<1>1. pattern \in DOMAIN patterns
  <2>1. DOMAIN patterns = 1 .. Len(patterns)
    BY AxdrAssumption DEF Walking
  <2> QED
    BY <2>1, PatternTypes DEF Walking
<1>2. patterns[pattern].steps \in Seq([type : STRING, param : Byte])
  BY <1>1, PatternTypes
<1> QED
  BY <1>2 DEF PatternSteps

LEMMA Counts ==
  ASSUME Inv
  PROVE  CountsDown
<1>1. Walking
  BY DEF Inv
<1>2. Unread \in Nat /\ Ahead \in Nat
  BY Here DEF Unread, Ahead
<1>3. Len(stack) \in Nat
  BY <1>1, Types
<1>4. ToCome \in Nat
  <2>1. CASE stack # << >> /\ Top.consumed < Top.count
    BY <1>1, <2>1, TopType DEF ToCome
  <2>2. CASE ~ (stack # << >> /\ Top.consumed < Top.count)
    BY <2>2 DEF ToCome
  <2> QED
    BY <2>1, <2>2
<1>5. ToTry \in Nat
  <2>1. Len(patterns) \in Nat /\ pattern \in 1 .. Len(patterns) + 1
    BY <1>1, PatternTypes DEF Walking
  <2> QED
    BY <2>1 DEF ToTry
<1>6. ToMatch \in Nat
  <2>1. CASE pattern <= Len(patterns) /\ step <= Len(PatternSteps)
    <3>1. Len(PatternSteps) \in Nat /\ step \in Nat
      BY <1>1, <2>1, PatternStepsType DEF Walking
    <3> QED
      BY <2>1, <3>1 DEF ToMatch
  <2>2. CASE ~ (pattern <= Len(patterns) /\ step <= Len(PatternSteps))
    BY <2>2 DEF ToMatch
  <2> QED
    BY <2>1, <2>2
<1> QED
  BY <1>2, <1>3, <1>4, <1>5, <1>6 DEF CountsDown

(* The next step of the pattern is another one.                            *)
LEMMA NextStepCounts ==
  ASSUME Inv, Matching, step <= Len(PatternSteps), step' = step + 1,
         UNCHANGED <<patterns, pattern>>
  PROVE  ToMatch' < ToMatch
<1>1. pattern <= Len(patterns)
  BY DEF Matching
<1>2. step \in Nat /\ Len(PatternSteps) \in Nat
  BY <1>1, Here, PatternStepsType DEF Walking
<1>3. PatternSteps' = PatternSteps
  BY DEF PatternSteps
<1>4. ToMatch = Len(PatternSteps) + 1 - step
  BY <1>1 DEF ToMatch
<1>5. ToMatch' = IF step + 1 <= Len(PatternSteps)
                 THEN Len(PatternSteps) + 1 - (step + 1) ELSE 0
  BY <1>1, <1>3 DEF ToMatch
<1> QED
  BY <1>2, <1>4, <1>5

(* A step of the pattern is done, up to p.                                 *)
LEMMA StepForward ==
  ASSUME Inv, HasRead, NEW type, At(type), NEW p \in Nat, pos <= p,
         p <= Len(buffer), NEW c, NEW counts \in BOOLEAN, counts => pos < p,
         StepDone(p, c, counts)
  PROVE  Forward
<1>1. /\ pos' = p /\ step' = step + 1
      /\ consumed' = IF counts /\ level = 0 THEN consumed + 1 ELSE consumed
      /\ UNCHANGED <<patterns, buffer, stack, status, pattern, saved, declared>>
  BY DEF StepDone
<1>2. /\ Matching /\ step <= Len(PatternSteps) /\ pattern <= Len(patterns)
      /\ status = "parsing"
  BY DEF At, Matching, InContainer
<1>3. pos \in Nat /\ saved \in Nat /\ saved <= pos /\ Walking
  BY Here
<1>4. consumed \in Nat /\ step \in Nat /\ Len(PatternSteps) \in Nat
  BY <1>2, <1>3, PatternStepsType DEF Walking
<1>5. HasRead'
  <2>1. ASSUME consumed' > 0 \/ declared' # -1 PROVE saved < p
    BY <1>1, <1>3, <1>4, <2>1 DEF HasRead
  <2> QED
    BY <1>1, <1>2, <2>1 DEF HasRead
<1>6. /\ Unread' = Unread /\ Len(stack') = Len(stack) /\ ToCome' = ToCome
      /\ ToTry' = ToTry
  BY <1>1 DEF Unread, ToCome, Top, ToTry
<1>7. ToMatch' < ToMatch
  BY <1>1, <1>2, NextStepCounts
<1> QED
  BY <1>5, <1>6, <1>7 DEF Forward, ComesNearer

(* The next pattern is tried.                                              *)
LEMMA TryForward ==
  ASSUME Inv, Matching, NextPattern
  PROVE  Forward
<1>1. /\ pos' = saved /\ pattern' = pattern + 1 /\ consumed' = 0 /\ declared' = -1
      /\ UNCHANGED <<patterns, buffer, stack, status, saved>>
  BY DEF NextPattern, NewTry
<1>2. HasRead'
  BY <1>1 DEF HasRead
<1>3. Unread' = Unread /\ Len(stack') = Len(stack) /\ ToCome' = ToCome
  BY <1>1 DEF Unread, ToCome, Top
<1>4. ToTry' < ToTry
  <2>1. Len(patterns) \in Nat /\ pattern \in Nat
    BY PatternTypes DEF Inv
  <2> QED
    BY <1>1, <2>1 DEF ToTry
<1> QED
  BY <1>2, <1>3, <1>4 DEF Forward, ComesNearer

(* The next element begins behind the last one.                            *)
LEMMA ReadForward ==
  ASSUME Inv, NEW p \in Nat, saved < p, NextElement(p), buffer' = buffer
  PROVE  Forward
<1>1. saved' = p /\ consumed' = 0 /\ declared' = -1
  BY DEF NextElement, NewTry
<1>2. HasRead'
  BY <1>1 DEF HasRead
<1>3. Unread' < Unread
  BY <1>1, Here DEF Unread
<1> QED
  BY <1>2, <1>3 DEF Forward, ComesNearer

(* Elements are done: bytes were read, or the count does not wrap.         *)
LEMMA ElementForward ==
  ASSUME Inv, InContainer, NEW n \in Nat, NEW p \in Nat, saved <= p,
         ElementsDone(n, p), UNCHANGED <<buffer, patterns, status>>,
         saved < p \/ (n > 0 /\ Top.consumed + n <= 255)
  PROVE  Forward
<1>1. /\ stack' = [stack EXCEPT ![Len(stack)].consumed = (@ + n) % 256]
      /\ NextElement(p)
  BY DEF ElementsDone
<1>2. CASE saved < p
  BY <1>1, <1>2, ReadForward
<1>3. CASE p = saved /\ n > 0 /\ Top.consumed + n <= 255
  <2>1. saved' = p /\ consumed' = 0 /\ declared' = -1
    BY <1>1 DEF NextElement, NewTry
  <2>2. HasRead' /\ Unread' = Unread
    BY <1>3, <2>1 DEF HasRead, Unread
  <2>3. /\ stack # << >> /\ Top.consumed < Top.count
        /\ stack \in Seq([type : Containers, count : Byte, consumed : Byte])
    BY Types DEF InContainer, Inv
  <2>4. /\ Len(stack) \in 1 .. Len(stack) /\ Top.consumed \in Nat /\ Top.count \in Nat
        /\ Top \in [type : Containers, count : Byte, consumed : Byte]
    BY <2>3, TopType DEF Inv
  <2>5. (Top.consumed + n) % 256 = Top.consumed + n
    BY <1>3, <2>4
  <2> DEFINE b == Top.consumed + n
  <2>6. b \in Byte
    <3>1. b \in Nat /\ b <= 255
      BY <1>3, <2>4
    <3> HIDE DEF b
    <3> QED
      BY <3>1 DEF Byte
  <2>7. stack' = [stack EXCEPT ![Len(stack)].consumed = b]
    BY <1>1, <2>5 DEF Top
  <2>8. Top.consumed < b
    BY <1>3, <2>4
  <2> HIDE DEF b
  <2>9. Len(stack') = Len(stack)
    BY <2>3, <2>4, <2>6, <2>7, ConsumedType
  <2>10. stack' # << >> /\ Top' = [Top EXCEPT !.consumed = b]
    BY <2>3, <2>4, <2>7, <2>9 DEF Top
  <2>11. Top'.consumed = b /\ Top'.count = Top.count
    BY <2>4, <2>10
  <2>12. ToCome = Top.count - Top.consumed
    BY <2>3 DEF ToCome
  <2>13. ToCome' = IF b < Top.count THEN Top.count - b ELSE 0
    BY <2>10, <2>11 DEF ToCome
  <2>14. b \in Nat
    BY <2>6, ByteIsNat
  <2>15. ToCome' < ToCome
    BY <2>3, <2>4, <2>8, <2>12, <2>13, <2>14
  <2> QED
    BY <2>2, <2>9, <2>15 DEF Forward, ComesNearer
<1> QED
  BY <1>2, <1>3, Here

(* The call returns.                                                       *)
LEMMA FinishForward ==
  ASSUME Inv, HasRead, NEW p \in Nat, pos <= p, Finish(p)
  PROVE  Forward
<1>1. status' = "done" /\ pos' = p /\ UNCHANGED match
  BY DEF Finish
<1>2. saved' = saved /\ consumed' = consumed /\ declared' = declared
  BY <1>1 DEF match
<1>3. HasRead'
  BY <1>1, <1>2, Here DEF HasRead
<1> QED
  BY <1>1, <1>3 DEF Forward


(* The same pattern reads on.                                              *)
LEMMA OnwardForward ==
  ASSUME Inv, Matching, NEW p \in Nat, pos < p, pos' = p,
         UNCHANGED <<patterns, buffer, stack, status, pattern, saved, step>>,
         consumed' = consumed
  PROVE  Forward
<1>1. saved < p /\ pos \in Nat /\ Len(buffer) \in Nat
  BY Here
<1>2. status' = "parsing"
  BY DEF Matching, InContainer
<1>3. HasRead'
  BY <1>1, <1>2 DEF HasRead
<1>4. /\ Unread' = Unread /\ Len(stack') = Len(stack) /\ ToCome' = ToCome
      /\ ToTry' = ToTry /\ ToMatch' = ToMatch
  BY DEF Unread, ToCome, Top, ToTry, ToMatch, PatternSteps
<1>5. Ahead' < Ahead
  BY <1>1 DEF Ahead
<1> QED
  BY <1>3, <1>4, <1>5 DEF Forward, ComesNearer

(* A tag of the enumeration is not what is read at the end of the buffer.  *)
LEMMA TagAhead ==
  ASSUME Inv, ByteAt(pos) # 255, NEW n \in Nat \ {0}
  PROVE  Past(pos, n) \in Nat /\ pos < Past(pos, n) /\ Past(pos, n) <= Len(buffer)
<1>1. pos < Len(buffer)
  BY Here, ByteAtType
<1> QED
  BY <1>1, Here DEF Past, Has

(* A step that passes over bytes and does not count.                       *)
LEMMA PassingForward ==
  ASSUME Inv, HasRead, NEW type, At(type), NEW n \in Nat, NEW c,
         StepDone(Past(pos, n), c, FALSE)
  PROVE  Forward
<1>1. Past(pos, n) \in Nat /\ pos <= Past(pos, n) /\ Past(pos, n) <= Len(buffer)
  BY Here, PastType
<1> QED
  BY <1>1, StepForward

(* A step that passes over bytes of which the first is a tag.              *)
LEMMA CountingForward ==
  ASSUME Inv, HasRead, NEW type, At(type), NEW n \in Nat \ {0}, NEW c,
         ByteAt(pos) # 255, StepDone(Past(pos, n), c, TRUE)
  PROVE  Forward
<1>1. /\ Past(pos, n) \in Nat /\ pos < Past(pos, n)
      /\ Past(pos, n) <= Len(buffer)
  BY TagAhead
<1>2. pos <= Past(pos, n)
  BY <1>1, Here
<1> QED
  BY <1>1, <1>2, StepForward

LEMMA ExpectToBeFirstForward ==
  ASSUME Inv, HasRead, ExpectToBeFirst
  PROVE  Forward
<1>1. /\ At("EXPECT_TO_BE_FIRST")
      /\ \/ StepDone(pos, cap, FALSE)
         \/ NextPattern
  BY DEF ExpectToBeFirst
<1>2. CASE StepDone(pos, cap, FALSE)
  <2>1. pos \in Nat /\ pos <= pos /\ pos <= Len(buffer)
    BY Here
  <2> QED
    BY <1>1, <1>2, <2>1, StepForward
<1>3. CASE NextPattern
  BY <1>1, <1>3, OfPattern, TryForward
<1> QED
  BY <1>1, <1>2, <1>3

LEMMA ExpectToBeLastForward ==
  ASSUME Inv, HasRead, ExpectToBeLast
  PROVE  Forward
<1>1. /\ At("EXPECT_TO_BE_LAST")
      /\ \/ StepDone(pos, cap, FALSE)
         \/ NextPattern
  BY DEF ExpectToBeLast
<1>2. CASE StepDone(pos, cap, FALSE)
  <2>1. pos \in Nat /\ pos <= pos /\ pos <= Len(buffer)
    BY Here
  <2> QED
    BY <1>1, <1>2, <2>1, StepForward
<1>3. CASE NextPattern
  BY <1>1, <1>3, OfPattern, TryForward
<1> QED
  BY <1>1, <1>2, <1>3

LEMMA ExpectTypeExactForward ==
  ASSUME Inv, HasRead, ExpectTypeExact
  PROVE  Forward
<1>1. At("EXPECT_TYPE_EXACT") /\ Matching
  BY OfPattern DEF ExpectTypeExact
<1>2. CASE /\ ByteAt(pos) = PatternSteps[step].param
           /\ StepDone(Past(pos, 1), cap, TRUE)
  <2>1. pattern \in DOMAIN patterns /\ patterns \in Tables
    BY <1>1, MatchingTypes DEF Inv, Walking
  <2>2. PatternSteps = patterns[pattern].steps
    BY DEF PatternSteps
  <2>3. step \in DOMAIN PatternSteps
    <3>1. PatternSteps \in Seq([type : STRING, param : Byte])
      BY <2>1, <2>2, PatternTypes DEF Inv
    <3>2. step \in Nat \ {0} /\ step <= Len(PatternSteps)
      BY <1>1 DEF Inv, Walking, At
    <3> QED
      BY <3>1, <3>2
  <2>4. PatternSteps[step].type = "EXPECT_TYPE_EXACT"
    BY <1>1 DEF At
  <2>5. PatternSteps[step].param # 255
    BY <2>1, <2>2, <2>3, <2>4, TagAssumption
  <2>6. ByteAt(pos) # 255 /\ 1 \in Nat \ {0}
    BY <1>2, <2>5
  <2> QED
    BY <1>1, <1>2, <2>6, CountingForward
<1>3. CASE NextPattern
  BY <1>1, <1>3, TryForward
<1> QED
  BY <1>2, <1>3 DEF ExpectTypeExact

LEMMA ExpectTypeUI8Forward ==
  ASSUME Inv, HasRead, ExpectTypeUI8
  PROVE  Forward
<1>1. /\ At("EXPECT_TYPE_U_I_8")
      /\ \/ ByteAt(pos) \in {INT8, UINT8} /\ StepDone(pos + 1, cap, TRUE)
         \/ NextPattern
  BY DEF ExpectTypeUI8
<1>2. CASE ByteAt(pos) \in {INT8, UINT8} /\ StepDone(pos + 1, cap, TRUE)
  <2>1. ByteAt(pos) # 255
    BY <1>2 DEF INT8, UINT8
  <2>2. pos < Len(buffer)
    BY <2>1, Here, ByteAtType
  <2>3. pos + 1 \in Nat /\ pos <= pos + 1 /\ pos < pos + 1 /\ pos + 1 <= Len(buffer)
    BY <2>2, Here
  <2> QED
    BY <1>1, <1>2, <2>3, StepForward
<1>3. CASE NextPattern
  BY <1>1, <1>3, OfPattern, TryForward
<1> QED
  BY <1>1, <1>2, <1>3

LEMMA ExpectClassIdUntaggedForward ==
  ASSUME Inv, HasRead, ExpectClassIdUntagged
  PROVE  Forward
<1> DEFINE c == [cap EXCEPT !.class_id = ByteAt(pos + 1)]
<1>1. /\ At("EXPECT_CLASS_ID_UNTAGGED")
      /\ \/ Has(pos, 2) /\ StepDone(pos + 2, c, FALSE)
         \/ NextPattern
  BY DEF ExpectClassIdUntagged
<1>2. CASE Has(pos, 2) /\ StepDone(pos + 2, c, FALSE)
  <2>1. pos + 2 \in Nat /\ pos <= pos + 2 /\ pos + 2 <= Len(buffer)
    BY <1>2, Here DEF Has
  <2> HIDE DEF c
  <2> QED
    BY <1>1, <1>2, <2>1, StepForward
<1>3. CASE NextPattern
  BY <1>1, <1>3, OfPattern, TryForward
<1> QED
  BY <1>1, <1>2, <1>3

LEMMA ExpectObis6Forward ==
  ASSUME Inv, HasRead,
         NEW type \in {"EXPECT_OBIS6_TAGGED", "EXPECT_OBIS6_TAGGED_WRONG",
                       "EXPECT_OBIS6_UNTAGGED"},
         ExpectObis6(type)
  PROVE  Forward
<1> DEFINE tag == ObisTag(type)
           c == [cap EXCEPT !.obis = BytesAt(pos + Len(tag), 6)]
           counts == tag # << >>
           end == pos + Len(tag) + 6
<1>1. /\ At(type)
      /\ \/ Has(pos, Len(tag) + 6) /\ StepDone(end, c, counts)
         \/ NextPattern
  BY DEF ExpectObis6
<1>2. CASE Has(pos, Len(tag) + 6) /\ StepDone(end, c, counts)
  <2>1. Len(tag) \in Nat /\ counts \in BOOLEAN
    BY DEF ObisTag
  <2>2. end \in Nat /\ pos <= end /\ pos < end /\ end <= Len(buffer)
    BY <1>2, <2>1, Here DEF Has
  <2> HIDE DEF c, tag, counts, end
  <2> QED
    BY <1>1, <1>2, <2>1, <2>2, StepForward
<1>3. CASE NextPattern
  BY <1>1, <1>3, OfPattern, TryForward
<1> QED
  BY <1>1, <1>2, <1>3

LEMMA ExpectAttr8UntaggedForward ==
  ASSUME Inv, HasRead, ExpectAttr8Untagged
  PROVE  Forward
<1>1. /\ At("EXPECT_ATTR8_UNTAGGED")
      /\ \/ StepDone(Past(pos, 1), cap, FALSE)
         \/ NextPattern
  BY DEF ExpectAttr8Untagged
<1>2. CASE StepDone(Past(pos, 1), cap, FALSE)
  BY <1>1, <1>2, PassingForward
<1>3. CASE NextPattern
  BY <1>1, <1>3, OfPattern, TryForward
<1> QED
  BY <1>1, <1>2, <1>3

LEMMA ExpectValueGenericForward ==
  ASSUME Inv, HasRead, ExpectValueGeneric
  PROVE  Forward
<1>1. /\ At("EXPECT_VALUE_GENERIC")
      /\ \/ CanCapture(pos) /\ StepDone(CaptureEnd(pos), Captured(cap, pos), TRUE)
         \/ NextPattern
  BY DEF ExpectValueGeneric
<1>2. CASE CanCapture(pos) /\ StepDone(CaptureEnd(pos), Captured(cap, pos), TRUE)
  <2>1. /\ CaptureEnd(pos) \in Nat /\ pos < CaptureEnd(pos)
        /\ CaptureEnd(pos) <= Len(buffer)
    BY <1>2, Here, CapturedInside
  <2>2. pos <= CaptureEnd(pos)
    BY <2>1, Here
  <2> QED
    BY <1>1, <1>2, <2>1, <2>2, StepForward
<1>3. CASE NextPattern
  BY <1>1, <1>3, OfPattern, TryForward
<1> QED
  BY <1>1, <1>2, <1>3

LEMMA ExpectValueDateTimeForward ==
  ASSUME Inv, HasRead, ExpectValueDateTime
  PROVE  Forward
<1> DEFINE start == IF ByteAt(pos) = DATETIME THEN pos + 1 ELSE pos + 2
           c == Valued(cap, DATETIME, start, 12)
<1>1. /\ At("EXPECT_VALUE_DATE_TIME")
      /\ \/ Has(start, 12) /\ StepDone(start + 12, c, TRUE)
         \/ NextPattern
  BY DEF ExpectValueDateTime
<1>2. CASE Has(start, 12) /\ StepDone(start + 12, c, TRUE)
  <2>1. start \in Nat /\ pos < start
    BY Here
  <2>2. /\ start + 12 \in Nat /\ start + 12 <= Len(buffer)
        /\ pos < start + 12 /\ pos <= start + 12
    BY <1>2, <2>1, Here DEF Has
  <2> HIDE DEF start, c
  <2> QED
    BY <1>1, <1>2, <2>2, StepForward
<1>3. CASE NextPattern
  BY <1>1, <1>3, OfPattern, TryForward
<1> QED
  BY <1>1, <1>2, <1>3

LEMMA ExpectValueOctetStringForward ==
  ASSUME Inv, HasRead, ExpectValueOctetString
  PROVE  Forward
<1> DEFINE len == ByteAt(pos + 1)
           at == pos + 2
           c == Valued(cap, ByteAt(pos), at, len)
<1>1. /\ At("EXPECT_VALUE_OCTET_STRING")
      /\ \/ Has(at, len) /\ StepDone(at + len, c, TRUE)
         \/ NextPattern
  BY DEF ExpectValueOctetString
<1>2. CASE Has(at, len) /\ StepDone(at + len, c, TRUE)
  <2>1. at \in Nat /\ pos < at /\ len \in Nat /\ pos \in Nat
    BY Here, ByteAtType
  <2> HIDE DEF at, len, c
  <2>2. /\ at + len \in Nat /\ at + len <= Len(buffer)
        /\ pos < at + len /\ pos <= at + len
    BY <1>2, <2>1 DEF Has
  <2> QED
    BY <1>1, <1>2, <2>2, StepForward
<1>3. CASE NextPattern
  BY <1>1, <1>3, OfPattern, TryForward
<1> QED
  BY <1>1, <1>2, <1>3

LEMMA ExpectStructureNForward ==
  ASSUME Inv, HasRead, ExpectStructureN
  PROVE  Forward
<1>1. /\ At("EXPECT_STRUCTURE_N")
      /\ \/ ByteAt(pos) = STRUCTURE /\ StepDone(Past(pos, 2), cap, TRUE)
         \/ NextPattern
  BY DEF ExpectStructureN
<1>2. CASE ByteAt(pos) = STRUCTURE /\ StepDone(Past(pos, 2), cap, TRUE)
  <2>1. ByteAt(pos) # 255 /\ 2 \in Nat \ {0}
    BY <1>2 DEF STRUCTURE
  <2> QED
    BY <1>1, <1>2, <2>1, CountingForward
<1>3. CASE NextPattern
  BY <1>1, <1>3, OfPattern, TryForward
<1> QED
  BY <1>1, <1>2, <1>3

LEMMA ExpectScalerTaggedForward ==
  ASSUME Inv, HasRead, ExpectScalerTagged
  PROVE  Forward
<1> DEFINE c == [cap EXCEPT !.scaler = SignedByte(ByteAt(pos + 1)),
                            !.has_scaler_unit = TRUE]
<1>1. /\ At("EXPECT_SCALER_TAGGED")
      /\ \/ ByteAt(pos) = INT8 /\ StepDone(Past(pos, 2), c, TRUE)
         \/ NextPattern
  BY DEF ExpectScalerTagged
<1>2. CASE ByteAt(pos) = INT8 /\ StepDone(Past(pos, 2), c, TRUE)
  <2>1. ByteAt(pos) # 255 /\ 2 \in Nat \ {0}
    BY <1>2 DEF INT8
  <2> HIDE DEF c
  <2> QED
    BY <1>1, <1>2, <2>1, CountingForward
<1>3. CASE NextPattern
  BY <1>1, <1>3, OfPattern, TryForward
<1> QED
  BY <1>1, <1>2, <1>3

LEMMA ExpectUnitEnumTaggedForward ==
  ASSUME Inv, HasRead, ExpectUnitEnumTagged
  PROVE  Forward
<1> DEFINE c == [cap EXCEPT !.unit_enum = ByteAt(pos + 1),
                            !.has_scaler_unit = TRUE]
<1>1. /\ At("EXPECT_UNIT_ENUM_TAGGED")
      /\ \/ ByteAt(pos) = ENUM /\ StepDone(Past(pos, 2), c, TRUE)
         \/ NextPattern
  BY DEF ExpectUnitEnumTagged
<1>2. CASE ByteAt(pos) = ENUM /\ StepDone(Past(pos, 2), c, TRUE)
  <2>1. ByteAt(pos) # 255 /\ 2 \in Nat \ {0}
    BY <1>2 DEF ENUM
  <2> HIDE DEF c
  <2> QED
    BY <1>1, <1>2, <2>1, CountingForward
<1>3. CASE NextPattern
  BY <1>1, <1>3, OfPattern, TryForward
<1> QED
  BY <1>1, <1>2, <1>3

LEMMA GoingDownOrUpForward ==
  ASSUME Inv, HasRead, GoingDownOrUp
  PROVE  Forward
<1>1. /\ step' = step + 1
      /\ UNCHANGED <<patterns, buffer, pos, stack, status, pattern, saved, consumed,
                     cap, declared, held, sent, delivered>>
  BY DEF GoingDownOrUp
<1>2. /\ Matching /\ step <= Len(PatternSteps) /\ pattern <= Len(patterns)
      /\ status = "parsing"
  BY DEF GoingDownOrUp, At, Matching, InContainer
<1>3. HasRead'
  BY <1>1, <1>2 DEF HasRead
<1>4. /\ Unread' = Unread /\ Len(stack') = Len(stack) /\ ToCome' = ToCome
      /\ ToTry' = ToTry
  BY <1>1 DEF Unread, ToCome, Top, ToTry
<1>5. ToMatch' < ToMatch
  BY <1>1, <1>2, NextStepCounts
<1> QED
  BY <1>3, <1>4, <1>5 DEF Forward, ComesNearer

LEMMA PatternMatchedForward ==
  ASSUME Inv, HasRead, PatternMatched
  PROVE  Forward
<1> DEFINE n == IF consumed = 0 THEN 1 ELSE consumed
<1>1. /\ Matching /\ InContainer /\ ElementsDone(n, pos)
      /\ UNCHANGED <<buffer, patterns, status>>
  BY DEF PatternMatched, Matching
<1>2. pos \in Nat /\ saved <= pos /\ saved \in Nat /\ consumed \in Nat /\ n \in Nat
  BY Here DEF Walking
<1>3. saved < pos \/ (n > 0 /\ Top.consumed + n <= 255)
  <2>1. CASE consumed = 0
    <3>1. /\ Top.consumed \in Nat /\ Top.count \in Nat /\ Top.count <= 255
          /\ Top.consumed < Top.count
      BY <1>1, TopType DEF Inv, InContainer
    <3> QED
      BY <2>1, <3>1
  <2>2. CASE consumed # 0
    BY <1>2, <2>2 DEF HasRead
  <2> QED
    BY <2>1, <2>2
<1> HIDE DEF n
<1> QED
  BY <1>1, <1>2, <1>3, ElementForward

LEMMA SelfDescHeaderForward ==
  ASSUME Inv, SelfDescHeader
  PROVE  Forward
<1>1. Matching
  BY OfPattern DEF SelfDescHeader
<1>2. CASE /\ pos' = pos + 2
           /\ UNCHANGED <<patterns, buffer, stack, status, pattern, saved, step,
                          level, consumed, cap, held, sent, delivered>>
  <2>1. pos + 2 \in Nat /\ pos < pos + 2
    BY Here
  <2> QED
    BY <1>1, <1>2, <2>1, OnwardForward
<1>3. CASE NextPattern
  BY <1>1, <1>3, TryForward
<1> QED
  BY <1>2, <1>3 DEF SelfDescHeader

LEMMA SelfDescDescriptorForward ==
  ASSUME Inv, SelfDescDescriptor
  PROVE  Forward
<1>1. Matching
  BY OfPattern DEF SelfDescDescriptor
<1>2. CASE /\ pos' = pos + 18
           /\ UNCHANGED <<patterns, buffer, stack, status, pattern, saved, step,
                          level, consumed, cap, declared, sent, delivered>>
  <2>1. pos + 18 \in Nat /\ pos < pos + 18
    BY Here
  <2> QED
    BY <1>1, <1>2, <2>1, OnwardForward
<1>3. CASE NextPattern
  BY <1>1, <1>3, TryForward
<1> QED
  BY <1>2, <1>3 DEF SelfDescDescriptor

LEMMA SelfDescMisalignedForward ==
  ASSUME Inv, SelfDescMisaligned
  PROVE  Forward
  BY TryForward DEF SelfDescMisaligned, Described, At

LEMMA SelfDescValueForward ==
  ASSUME Inv, SelfDescValue
  PROVE  Forward
<1>1. Matching
  BY DescribedType DEF SelfDescValue
<1>2. CASE /\ CanCapture(pos) /\ pos' = CaptureEnd(pos)
           /\ UNCHANGED <<patterns, buffer, stack, status, pattern, saved, step,
                          level, consumed, cap, declared, held>>
  <2>1. CaptureEnd(pos) \in Nat /\ pos < CaptureEnd(pos)
    BY <1>2, Here, CapturedInside
  <2> QED
    BY <1>1, <1>2, <2>1, OnwardForward
<1>3. CASE NextPattern
  BY <1>1, <1>3, TryForward
<1> QED
  BY <1>2, <1>3 DEF SelfDescValue

LEMMA SelfDescMatchedForward ==
  ASSUME Inv, HasRead, SelfDescMatched
  PROVE  Forward
<1>1. /\ InContainer /\ ElementsDone(Top.count, pos) /\ declared # -1
      /\ UNCHANGED <<buffer, patterns, status>>
  BY DescribedType DEF SelfDescMatched, Matching
<1>2. saved < pos /\ saved <= pos /\ pos \in Nat
  BY <1>1, Here DEF HasRead
<1>3. Top.count \in Nat
  BY <1>1, TopType DEF Inv, InContainer
<1> QED
  BY <1>1, <1>2, <1>3, ElementForward

LEMMA FlatMisfitForward ==
  ASSUME Inv, FlatMisfit
  PROVE  Forward
  BY TryForward DEF FlatMisfit, At

LEMMA FlatFieldForward ==
  ASSUME Inv, FlatField
  PROVE  Forward
<1>1. Matching
  BY OfPattern DEF FlatField
<1>2. CASE /\ CanCapture(pos) /\ pos' = CaptureEnd(pos)
           /\ UNCHANGED <<patterns, buffer, stack, status, pattern, saved,
                          step, level, consumed, cap, declared, sent, delivered>>
  <2>1. CaptureEnd(pos) \in Nat /\ pos < CaptureEnd(pos)
    BY <1>2, Here, CapturedInside
  <2> QED
    BY <1>1, <1>2, <2>1, OnwardForward
<1>3. CASE NextPattern
  BY <1>1, <1>3, TryForward
<1> QED
  BY <1>2, <1>3 DEF FlatField

LEMMA FlatMatchedForward ==
  ASSUME Inv, FlatMatched
  PROVE  Forward
<1>1. /\ InContainer /\ ElementsDone(Top.count, pos) /\ Top.consumed = 0
      /\ UNCHANGED <<buffer, patterns, status>>
  BY DEF FlatMatched, FlatApplies, At, Matching
<1>2. saved <= pos /\ pos \in Nat
  BY Here
<1>3. Top.count \in Nat /\ Top.count > 0 /\ Top.consumed + Top.count <= 255
  BY <1>1, TopType DEF Inv, InContainer
<1> QED
  BY <1>1, <1>2, <1>3, ElementForward

LEMMA EnterForward ==
  ASSUME Inv, HasRead, buffer' = buffer,
         IF Opens(pos) THEN Open(pos) /\ UNCHANGED status ELSE Finish(Past(pos, 2))
  PROVE  Forward
<1>1. CASE Open(pos)
  <2>1. pos + 2 \in Nat /\ saved < pos + 2 /\ NextElement(pos + 2)
    BY <1>1, Here DEF Open
  <2> QED
    BY <2>1, ReadForward
<1>2. CASE Finish(Past(pos, 2))
  <2>1. Past(pos, 2) \in Nat /\ pos <= Past(pos, 2)
    BY Here, PastType
  <2> QED
    BY <1>2, <2>1, FinishForward
<1> QED
  BY <1>1, <1>2

LEMMA SkipElementForward ==
  ASSUME Inv, HasRead, SkipElement
  PROVE  Forward
<1> DEFINE type == ByteAt(pos)
           end == DataEnd(type, pos + 1)
           given == GivenUpAt(type, pos + 1)
<1>1. InContainer /\ pos < Len(buffer) /\ UNCHANGED <<patterns, buffer>>
  BY DEF SkipElement, NoMatch
<1>2. type \in Byte /\ pos + 1 \in Nat /\ pos + 1 <= Len(buffer)
  BY <1>1, Here, ByteAtType
<1>3. CASE Complete(type, pos + 1) /\ ElementsDone(1, end) /\ UNCHANGED status
  <2>1. end \in Nat /\ pos + 1 <= end
    BY <1>2, <1>3, Here, CompleteInside
  <2> HIDE DEF end
  <2>2. saved <= end /\ saved < end
    BY <2>1, Here
  <2> QED
    BY <1>1, <1>3, <2>1, <2>2, ElementForward
<1>4. CASE Finish(given)
  <2>1. given \in Nat /\ pos + 1 <= given
    BY <1>2, Here, GivenUpInside
  <2> HIDE DEF given
  <2>2. pos <= given
    BY <2>1, Here
  <2> QED
    BY <1>4, <2>1, <2>2, FinishForward
<1> QED
  BY <1>3, <1>4 DEF SkipElement

(* A container is closed behind what was read, or one less is open.        *)
LEMMA CloseContainerForward ==
  ASSUME Inv, CloseContainer
  PROVE  Forward
<1>1. NextElement(pos) /\ status' = status /\ buffer' = buffer /\ status = "parsing"
  BY DEF CloseContainer
<1>2. pos \in Nat /\ saved \in Nat /\ saved <= pos
  BY Here
<1>3. CASE saved < pos
  BY <1>1, <1>2, <1>3, ReadForward
<1>4. CASE saved = pos
  <2>1. saved' = saved /\ consumed' = 0 /\ declared' = -1
    BY <1>1, <1>4 DEF NextElement, NewTry
  <2>2. HasRead' /\ Unread' = Unread
    BY <1>1, <2>1 DEF HasRead, Unread
  <2>3. Len(stack') < Len(stack)
    <3>1. Len(stack) \in Nat /\ Len(stack') = Len(stack) - 1
      BY Types, ClosedStack DEF Inv
    <3> QED
      BY <3>1
  <2> QED
    BY <2>2, <2>3 DEF Forward, ComesNearer
<1> QED
  BY <1>2, <1>3, <1>4

LEMMA AdvanceForward ==
  ASSUME Inv, HasRead, Advance
  PROVE  Forward
<1>1. CASE MatchStep
  BY <1>1, ExpectToBeFirstForward, ExpectToBeLastForward, ExpectTypeExactForward,
     ExpectTypeUI8Forward, ExpectClassIdUntaggedForward,
     ExpectAttr8UntaggedForward, ExpectObis6Forward, ExpectValueGenericForward,
     ExpectValueDateTimeForward, ExpectValueOctetStringForward,
     ExpectStructureNForward, ExpectScalerTaggedForward,
     ExpectUnitEnumTaggedForward, GoingDownOrUpForward, PatternMatchedForward,
     SelfDescHeaderForward, SelfDescDescriptorForward, SelfDescMisalignedForward,
     SelfDescValueForward, SelfDescMatchedForward, FlatMisfitForward,
     FlatFieldForward, FlatMatchedForward
     DEF MatchStep
<1>2. CASE ElementMissing \/ Return
  <2>1. Finish(pos) /\ pos \in Nat /\ pos <= pos
    BY <1>2, Here DEF ElementMissing, Return
  <2> QED
    BY <2>1, FinishForward
<1>3. CASE EnterElement \/ EnterTopLevel
  BY <1>3, EnterForward DEF EnterElement, EnterTopLevel
<1>4. CASE SkipElement
  BY <1>4, SkipElementForward
<1>5. CASE CloseContainer
  BY <1>5, CloseContainerForward
<1> QED
  BY <1>1, <1>2, <1>3, <1>4, <1>5 DEF Advance, Walk

(* Before the call nothing has been read.                                  *)
LEMMA ParseHasRead ==
  ASSUME Inv, HasRead, NEW bytes, Parse(bytes)
  PROVE  HasRead'
<1>1. status = "idle" /\ consumed = 0 /\ declared = -1
  BY DEF Parse, HasRead, Inv, Idle
<1>2. consumed' = consumed /\ declared' = declared
  BY DEF Parse, Begin, match
<1> QED
  BY <1>1, <1>2 DEF HasRead

LEMMA NextHasRead ==
  ASSUME Inv, HasRead, [Next]_vars
  PROVE  HasRead'
<1>1. CASE Advance
  BY <1>1, AdvanceForward DEF Forward
<1>2. CASE \E bytes \in Telegrams : Parse(bytes)
  BY <1>2, ParseHasRead
<1>3. CASE UNCHANGED vars
  BY <1>3 DEF vars, match, HasRead
<1> QED
  BY <1>1, <1>2, <1>3 DEF Next

(* What ComesNearer compares are numbers, in every state of a call.        *)
THEOREM AxdrCountsDown == Spec => [](Inv /\ HasRead /\ CountsDown)
<1>1. Init => HasRead
  BY DEF Init, HasRead
<1>2. Inv /\ HasRead /\ [Next]_vars => HasRead'
  BY NextHasRead
<1>3. Inv => CountsDown
  BY Counts
<1> QED
  BY <1>1, <1>2, <1>3, AxdrInvariant, PTL DEF Spec

(* However a telegram claims to be nested and whatever patterns there are, *)
(* every step that is not the last one reads on, or leaves fewer containers*)
(* open, fewer elements to come, fewer patterns to try or less of one to   *)
(* match, so a call has only so many steps.  An element that takes no bytes*)
(* and is not counted, or whose count comes round, would keep it going.    *)
THEOREM AxdrComesToAnEnd ==
  ASSUME Inv, HasRead, Advance
  PROVE  status' = "done" \/ ComesNearer
  BY AdvanceForward DEF Forward

=============================================================================
