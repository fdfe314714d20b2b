----------------------------- MODULE AxdrParser -----------------------------
(***************************************************************************)
(* AxdrParser::parse: the walk through nested containers, and the matching *)
(* of patterns at each element of one.  One action is one step of a        *)
(* pattern, one element skipped, or one container opened or closed; the    *)
(* C++ call stack of parse_sequence_ is the variable stack.                *)
(*                                                                         *)
(* size_t is taken as wide enough for a position plus a 32-bit length.     *)
(***************************************************************************)
EXTENDS DlmsTypes

CONSTANTS
  Telegrams,               \* what parse may be called with
  Tables,                  \* the pattern tables there may be
  WORD,                    \* 2^32: lengths are computed modulo this
  MAX_SELF_DESC_OBJECTS    \* 64 descriptors

Byte == 0 .. 255

ASSUME AxdrAssumption ==
  /\ Telegrams \subseteq Seq(Byte)
  /\ WORD \in Nat \ {0}
  /\ MAX_SELF_DESC_OBJECTS \in Nat
  /\ \A table \in Tables : table \in Seq(
       [steps : Seq([type : STRING, param : Byte]),
        default_obis : Seq(Byte),
        fields : Seq([obis : Seq(Byte), prefix : Seq(Byte)])])

(* No pattern expects a tag that looks like the end of the buffer: the one *)
(* tag that the DSL has such a step for is UINT16.                         *)
ASSUME TagAssumption ==
  \A table \in Tables : \A i \in DOMAIN table : \A k \in DOMAIN table[i].steps :
    table[i].steps[k].type = "EXPECT_TYPE_EXACT" => table[i].steps[k].param # 255

VARIABLES
  patterns,     \* patterns_, in the order in which they are tried
  buffer, pos,
  stack,        \* activations of parse_sequence_, the innermost last
  status,       \* "idle", "parsing" or "done"
  pattern,      \* try_match_patterns_: the pattern being tried,
  saved,        \*   saved_position
  step,         \* match_pattern_: the step it has come to,
  level,        \*   level, consumed and
  consumed,
  cap,          \*   what was captured
  declared,     \* parse_self_describing_: array_elements, -1 if not yet read,
  held,         \*   the descriptors (parse_flat_positional_: the captures)
  sent,         \*   and how many values were emitted
  delivered     \* the captures the callback was called with

match == <<pattern, saved, step, level, consumed, cap, declared, held, sent>>
vars == <<patterns, buffer, pos, stack, status, match, delivered>>

-----------------------------------------------------------------------------
(* Reading.  At the end of the buffer read_byte_ returns FF and stays.     *)

ByteAt(p) == IF p < Len(buffer) THEN buffer[p + 1] ELSE 255
Has(p, n) == p + n <= Len(buffer)
Past(p, n) == IF Has(p, n) THEN p + n ELSE Len(buffer)
BytesAt(p, n) == SubSeq(buffer, p + 1, p + n)

(* A BER length at p.  In a register of 32 bits its first bytes are shifted*)
(* out by the last four.                                                   *)
LengthBytes(p) == IF ByteAt(p) > 127 THEN ByteAt(p) - 128 ELSE 0

LengthRead(p) == ByteAt(p) # 255 /\ Has(p + 1, LengthBytes(p))

Shifted(length, byte) == (256 * length + byte) % WORD

FromLast(p, k) ==
  IF k < LengthBytes(p) THEN ByteAt(p + LengthBytes(p) - k) ELSE 0

BerLength(p) ==
  IF ByteAt(p) > 127
  THEN Shifted(Shifted(Shifted(FromLast(p, 3), FromLast(p, 2)), FromLast(p, 1)),
               FromLast(p, 0))
  ELSE ByteAt(p)

(* The data of a type whose tag is in front of p: where it starts and how  *)
(* many bytes it has.                                                      *)
DataAt(type, p) ==
  IF FixedSize(type) THEN p ELSE p + 1 + LengthBytes(p)

DataLen(type, p) ==
  IF FixedSize(type) THEN get_data_type_size(type)
  ELSE IF type = BIT_STRING THEN ((BerLength(p) + 7) % WORD) \div 8
  ELSE BerLength(p)

(* A seeded mistake: only lengths are looked at, not sizes that are fixed. *)
CompleteIfFixed(type, p) ==
  FixedSize(type) \/ (LengthRead(p) /\ Has(DataAt(type, p), DataLen(type, p)))

Complete(type, p) ==
  /\ FixedSize(type) \/ LengthRead(p)
  /\ Has(DataAt(type, p), DataLen(type, p))

DataEnd(type, p) == DataAt(type, p) + DataLen(type, p)

(* Where skip_data_ leaves pos_ when the data is not complete.             *)
GivenUpAt(type, p) ==
  IF FixedSize(type) THEN p
  ELSE IF ByteAt(p) = 255 THEN Past(p, 1)
  ELSE Past(p + 1, LengthBytes(p))

-----------------------------------------------------------------------------
(* Captures.  A value is known by the bytes of the buffer it refers to.    *)

EmptyObis == <<0, 0, 0, 0, 0, 0>>

NoCapture ==
  [elem_idx |-> 0, class_id |-> 0, obis |-> EmptyObis, value_type |-> NONE,
   at |-> 0, len |-> 0, has_scaler_unit |-> FALSE, scaler |-> 0, unit_enum |-> 0]

Valued(c, type, at, len) ==
  [c EXCEPT !.value_type = type, !.at = at, !.len = len]

(* capture_generic_value_ at p, for a tag it takes with complete data.     *)
CanCapture(p) ==
  is_value_data_type(ByteAt(p)) /\ Complete(ByteAt(p), p + 1)

CapturedType(p) ==
  LET type == ByteAt(p)
  IN  IF /\ type = OCTET_STRING /\ DataLen(type, p + 1) = 12
         /\ test_if_date_time_12b(BytesAt(DataAt(type, p + 1), 12))
      THEN DATETIME ELSE type

Captured(c, p) ==
  Valued(c, CapturedType(p), DataAt(ByteAt(p), p + 1), DataLen(ByteAt(p), p + 1))

CaptureEnd(p) == DataEnd(ByteAt(p), p + 1)

(* emit_object_.                                                           *)
Object(c) ==
  IF c.obis = EmptyObis
  THEN [c EXCEPT !.obis = patterns[pattern].default_obis] ELSE c

Emit(captures) ==
  delivered' = delivered \o [i \in DOMAIN captures |-> Object(captures[i])]

-----------------------------------------------------------------------------
(* Control.                                                                *)

Top == stack[Len(stack)]

NewTry ==
  /\ step' = 1 /\ level' = 0 /\ consumed' = 0 /\ cap' = NoCapture
  /\ declared' = -1 /\ held' = << >> /\ sent' = 0

(* The patterns are to be tried at p.                                      *)
NextElement(p) ==
  /\ pos' = p /\ saved' = p
  /\ pattern' = 1
  /\ NewTry

(* n elements of the innermost container are done, up to p.                *)
ElementsDone(n, p) ==
  /\ stack' = [stack EXCEPT ![Len(stack)].consumed = (@ + n) % 256]
  /\ NextElement(p)

(* A container with its tag at p; its element count is next.               *)
Opens(p) == ByteAt(p + 1) # 255

(* A seeded mistake: the element count is looked at but not passed.        *)
OpenAtCount(p) ==
  /\ stack' = Append(stack, [type |-> ByteAt(p), count |-> ByteAt(p + 1),
                             consumed |-> 0])
  /\ NextElement(p + 1)

Open(p) ==
  /\ stack' = Append(stack, [type |-> ByteAt(p), count |-> ByteAt(p + 1),
                             consumed |-> 0])
  /\ NextElement(p + 2)

(* Every parse_sequence_ returns false, and parse returns.                 *)
Finish(p) ==
  /\ status' = "done"
  /\ pos' = p
  /\ UNCHANGED <<stack, match>>

Init ==
  /\ patterns \in Tables
  /\ buffer = << >> /\ pos = 0 /\ stack = << >> /\ status = "idle"
  /\ delivered = << >>
  /\ pattern = 1 /\ saved = 0
  /\ step = 1 /\ level = 0 /\ consumed = 0 /\ cap = NoCapture
  /\ declared = -1 /\ held = << >> /\ sent = 0

(* A call with something to read: nothing is left of an earlier one.       *)
Begin(bytes) ==
  /\ buffer' = bytes /\ pos' = 0
  /\ stack' = << >> /\ delivered' = << >>
  /\ status' = "parsing"
  /\ UNCHANGED <<patterns, match>>

Parse(bytes) ==
  /\ status = "idle"
  /\ \/ bytes # << >> /\ Begin(bytes)
     \/ /\ bytes = << >>
        /\ status' = "done"
        /\ UNCHANGED <<patterns, buffer, pos, stack, match, delivered>>

-----------------------------------------------------------------------------
(* Matching one pattern, step by step.                                     *)

InContainer == status = "parsing" /\ stack # << >> /\ Top.consumed < Top.count

Matching == InContainer /\ pattern <= Len(patterns)

PatternSteps == patterns[pattern].steps

At(type) == Matching /\ step <= Len(PatternSteps) /\ PatternSteps[step].type = type

(* A seeded mistake: pos_ is not put back.                                 *)
NextPatternFromHere ==
  /\ pattern' = pattern + 1
  /\ NewTry
  /\ UNCHANGED <<patterns, buffer, pos, stack, status, saved, delivered>>

(* match_pattern_ returned false: pos_ is put back.                        *)
NextPattern ==
  /\ pos' = saved
  /\ pattern' = pattern + 1
  /\ NewTry
  /\ UNCHANGED <<patterns, buffer, stack, status, saved, delivered>>

(* The step is done, and was an element of the container if it counts.     *)
StepDone(p, c, counts) ==
  /\ pos' = p
  /\ cap' = c
  /\ step' = step + 1
  /\ consumed' = IF counts /\ level = 0 THEN consumed + 1 ELSE consumed
  /\ UNCHANGED <<patterns, buffer, stack, status, pattern, saved, level,
                 declared, held, sent, delivered>>

ExpectToBeFirst ==
  /\ At("EXPECT_TO_BE_FIRST")
  /\ IF Top.consumed = 0 THEN StepDone(pos, cap, FALSE) ELSE NextPattern

ExpectToBeLast ==
  /\ At("EXPECT_TO_BE_LAST")
  /\ IF Top.consumed = Top.count - 1 THEN StepDone(pos, cap, FALSE) ELSE NextPattern

ExpectTypeExact ==
  /\ At("EXPECT_TYPE_EXACT")
  /\ IF ByteAt(pos) = PatternSteps[step].param
     THEN StepDone(Past(pos, 1), cap, TRUE) ELSE NextPattern

ExpectTypeUI8 ==
  /\ At("EXPECT_TYPE_U_I_8")
  /\ IF ByteAt(pos) \in {INT8, UINT8}
     THEN StepDone(pos + 1, cap, TRUE) ELSE NextPattern

ExpectClassIdUntagged ==
  /\ At("EXPECT_CLASS_ID_UNTAGGED")
  /\ IF Has(pos, 2) /\ ByteAt(pos) = 0
     THEN StepDone(pos + 2, [cap EXCEPT !.class_id = ByteAt(pos + 1)], FALSE)
     ELSE NextPattern

(* EXPECT_OBIS6_TAGGED, _TAGGED_WRONG and _UNTAGGED: the tag in front.     *)
ObisTag(type) ==
  CASE type = "EXPECT_OBIS6_TAGGED" -> <<OCTET_STRING, 6>>
    [] type = "EXPECT_OBIS6_TAGGED_WRONG" -> <<6, OCTET_STRING>>
    [] type = "EXPECT_OBIS6_UNTAGGED" -> << >>

ExpectObis6(type) ==
  LET tag == ObisTag(type)
      p == pos + Len(tag)
  IN  /\ At(type)
      /\ IF Has(pos, Len(tag) + 6) /\ BytesAt(pos, Len(tag)) = tag
         THEN StepDone(p + 6, [cap EXCEPT !.obis = BytesAt(p, 6)], tag # << >>)
         ELSE NextPattern

(* At the end of the buffer the byte read is FF, which is not zero.        *)
ExpectAttr8Untagged ==
  /\ At("EXPECT_ATTR8_UNTAGGED")
  /\ IF ByteAt(pos) # 0
     THEN StepDone(Past(pos, 1), cap, FALSE) ELSE NextPattern

ExpectValueGeneric ==
  /\ At("EXPECT_VALUE_GENERIC")
  /\ IF CanCapture(pos)
     THEN StepDone(CaptureEnd(pos), Captured(cap, pos), TRUE) ELSE NextPattern

ExpectValueDateTime ==
  LET start == IF ByteAt(pos) = DATETIME THEN pos + 1 ELSE pos + 2
  IN  /\ At("EXPECT_VALUE_DATE_TIME")
      /\ IF /\ \/ ByteAt(pos) = DATETIME
               \/ ByteAt(pos) = OCTET_STRING /\ ByteAt(pos + 1) = 12
            /\ Has(start, 12)
         THEN StepDone(start + 12, Valued(cap, DATETIME, start, 12), TRUE)
         ELSE NextPattern

ExpectValueOctetString ==
  LET len == ByteAt(pos + 1)
  IN  /\ At("EXPECT_VALUE_OCTET_STRING")
      /\ IF /\ ByteAt(pos) \in {OCTET_STRING, DLMS_STRING, STRING_UTF8}
            /\ len # 255 /\ Has(pos + 2, len)
         THEN StepDone(pos + 2 + len, Valued(cap, ByteAt(pos), pos + 2, len), TRUE)
         ELSE NextPattern

ExpectStructureN ==
  /\ At("EXPECT_STRUCTURE_N")
  /\ IF ByteAt(pos) = STRUCTURE /\ ByteAt(pos + 1) = PatternSteps[step].param
     THEN StepDone(Past(pos, 2), cap, TRUE) ELSE NextPattern

(* A seeded mistake: the scaler is taken for a number without a sign.      *)
SignedByteUnsigned(b) == b

(* Behind a tag at the end of the buffer the byte read is FF: scaler -1.   *)
SignedByte(b) == IF b > 127 THEN b - 256 ELSE b

ExpectScalerTagged ==
  /\ At("EXPECT_SCALER_TAGGED")
  /\ IF ByteAt(pos) = INT8
     THEN StepDone(Past(pos, 2),
                   [cap EXCEPT !.scaler = SignedByte(ByteAt(pos + 1)),
                               !.has_scaler_unit = TRUE], TRUE)
     ELSE NextPattern

ExpectUnitEnumTagged ==
  /\ At("EXPECT_UNIT_ENUM_TAGGED")
  /\ IF ByteAt(pos) = ENUM
     THEN StepDone(Past(pos, 2),
                   [cap EXCEPT !.unit_enum = ByteAt(pos + 1),
                               !.has_scaler_unit = TRUE], TRUE)
     ELSE NextPattern

GoingDownOrUp ==
  /\ At("GOING_DOWN") \/ At("GOING_UP")
  /\ level' = (level + IF PatternSteps[step].type = "GOING_DOWN" THEN 1 ELSE 255) % 256
  /\ step' = step + 1
  /\ UNCHANGED <<patterns, buffer, pos, stack, status, pattern, saved, consumed,
                 cap, declared, held, sent, delivered>>

(* Seeded mistakes: pos_ is put back, or one element is counted.           *)
PatternMatchedRewound ==
  /\ Matching /\ step > Len(PatternSteps)
  /\ Emit(<< [cap EXCEPT !.elem_idx = saved] >>)
  /\ ElementsDone(IF consumed = 0 THEN 1 ELSE consumed, saved)
  /\ UNCHANGED <<patterns, buffer, status>>

PatternMatchedOnce ==
  /\ Matching /\ step > Len(PatternSteps)
  /\ Emit(<< [cap EXCEPT !.elem_idx = saved] >>)
  /\ ElementsDone(1, pos)
  /\ UNCHANGED <<patterns, buffer, status>>

(* All steps are done: the capture is delivered.                           *)
PatternMatched ==
  /\ Matching /\ step > Len(PatternSteps)
  /\ Emit(<< [cap EXCEPT !.elem_idx = saved] >>)
  /\ ElementsDone(IF consumed = 0 THEN 1 ELSE consumed, pos)
  /\ UNCHANGED <<patterns, buffer, status>>

-----------------------------------------------------------------------------
(* SelfDesc: a structure of an array of descriptors and their values.      *)

IC_PUSH_SETUP == 40

Values == Top.count - 1

SelfDescHeader ==
  /\ At("SELF_DESC") /\ declared = -1
  /\ IF /\ step = 1 /\ Len(PatternSteps) = 1
        /\ Top.type = STRUCTURE /\ Top.consumed = 0
        /\ ByteAt(pos) = ARRAY /\ ByteAt(pos + 1) # 255
        /\ Values <= ByteAt(pos + 1)
        /\ ByteAt(pos + 1) <= MAX_SELF_DESC_OBJECTS
     THEN /\ declared' = ByteAt(pos + 1)
          /\ pos' = pos + 2
          /\ UNCHANGED <<patterns, buffer, stack, status, pattern, saved, step,
                         level, consumed, cap, held, sent, delivered>>
     ELSE NextPattern

(* 02 04 | 12 class | 09 06 obis | 0F or 11 attribute | 12 data index      *)
DescriptorAt(p) ==
  /\ Has(p, 18)
  /\ BytesAt(p, 3) = <<STRUCTURE, 4, UINT16>>
  /\ BytesAt(p + 5, 2) = <<OCTET_STRING, 6>>
  /\ ByteAt(p + 13) \in {INT8, UINT8}
  /\ ByteAt(p + 14) # 0
  /\ ByteAt(p + 15) = UINT16

SelfDescDescriptor ==
  /\ At("SELF_DESC") /\ Len(held) < declared
  /\ IF DescriptorAt(pos)
     THEN /\ held' = Append(held, [NoCapture EXCEPT
                        !.class_id = 256 * ByteAt(pos + 3) + ByteAt(pos + 4),
                        !.obis = BytesAt(pos + 7, 6)])
          /\ pos' = pos + 18
          /\ UNCHANGED <<patterns, buffer, stack, status, pattern, saved, step,
                         level, consumed, cap, declared, sent, delivered>>
     ELSE NextPattern

(* Descriptors in excess of the values lead, and are of the push setup.    *)
Described ==
  /\ At("SELF_DESC") /\ declared = Len(held)

Aligned ==
  \A i \in 1 .. declared - Values : held[i].class_id = IC_PUSH_SETUP

SelfDescMisaligned == Described /\ ~ Aligned /\ NextPattern

SelfDescValue ==
  /\ Described /\ Aligned /\ sent < Values
  /\ IF CanCapture(pos)
     THEN /\ LET c == held[declared - Values + sent + 1]
             IN  Emit(<< [Captured(c, pos) EXCEPT !.elem_idx = pos] >>)
          /\ pos' = CaptureEnd(pos)
          /\ sent' = sent + 1
          /\ UNCHANGED <<patterns, buffer, stack, status, pattern, saved, step,
                         level, consumed, cap, declared, held>>
     ELSE NextPattern

SelfDescMatched ==
  /\ Described /\ Aligned /\ sent = Values
  /\ ElementsDone(Top.count, pos)
  /\ UNCHANGED <<patterns, buffer, status, delivered>>

-----------------------------------------------------------------------------
(* A flat positional pattern: all of a structure, known by position.       *)

Fields == patterns[pattern].fields

HasPrefix(c, prefix) ==
  c.len >= Len(prefix) /\ BytesAt(c.at, Len(prefix)) = prefix

FlatApplies ==
  Top.type = STRUCTURE /\ Top.consumed = 0 /\ Top.count = Len(Fields)

FlatMisfit == At("FLAT_POSITIONAL") /\ ~ FlatApplies /\ NextPattern

FlatField ==
  /\ At("FLAT_POSITIONAL") /\ FlatApplies /\ Len(held) < Len(Fields)
  /\ LET field == Fields[Len(held) + 1]
         c == Captured([NoCapture EXCEPT !.elem_idx = pos, !.obis = field.obis], pos)
     IN  IF CanCapture(pos) /\ HasPrefix(c, field.prefix)
         THEN /\ held' = Append(held, c)
              /\ pos' = CaptureEnd(pos)
              /\ UNCHANGED <<patterns, buffer, stack, status, pattern, saved,
                             step, level, consumed, cap, declared, sent,
                             delivered>>
         ELSE NextPattern

FlatMatched ==
  /\ At("FLAT_POSITIONAL") /\ FlatApplies /\ Len(held) = Len(Fields)
  /\ Emit(held)
  /\ ElementsDone(Top.count, pos)
  /\ UNCHANGED <<patterns, buffer, status>>

-----------------------------------------------------------------------------
(* No pattern matches the element at pos: it is entered or skipped.  The   *)
(* tag has been read, so there always is progress.                         *)
NoMatch == InContainer /\ pattern > Len(patterns)

ElementMissing ==
  /\ NoMatch /\ pos >= Len(buffer)
  /\ Finish(pos)
  /\ UNCHANGED <<patterns, buffer, delivered>>

EnterElement ==
  /\ NoMatch /\ ByteAt(pos) \in Containers
  /\ IF Opens(pos) THEN Open(pos) /\ UNCHANGED status ELSE Finish(Past(pos, 2))
  /\ UNCHANGED <<patterns, buffer, delivered>>

SkipElement ==
  LET type == ByteAt(pos)
  IN  /\ NoMatch /\ pos < Len(buffer) /\ type \notin Containers
      /\ IF Complete(type, pos + 1)
         THEN ElementsDone(1, DataEnd(type, pos + 1)) /\ UNCHANGED status
         ELSE Finish(GivenUpAt(type, pos + 1))
      /\ UNCHANGED <<patterns, buffer, delivered>>

(* parse_sequence_ returns true.                                           *)
CloseContainer ==
  /\ status = "parsing" /\ stack # << >> /\ Top.consumed >= Top.count
  /\ LET outer == SubSeq(stack, 1, Len(stack) - 1)
     IN  stack' = IF outer = << >> THEN outer
                  ELSE [outer EXCEPT ![Len(outer)].consumed = (@ + 1) % 256]
  /\ NextElement(pos)
  /\ UNCHANGED <<patterns, buffer, status, delivered>>

(* The loop of parse.                                                      *)
AtTopLevel == status = "parsing" /\ stack = << >>

EnterTopLevel ==
  /\ AtTopLevel /\ ByteAt(pos) \in Containers
  /\ IF Opens(pos) THEN Open(pos) /\ UNCHANGED status ELSE Finish(Past(pos, 2))
  /\ UNCHANGED <<patterns, buffer, delivered>>

(* A seeded mistake: the loop goes on.                                     *)
ReturnNever ==
  /\ AtTopLevel /\ ByteAt(pos) \notin Containers
  /\ UNCHANGED vars

(* At the end of the buffer, or in front of what is not a container.       *)
Return ==
  /\ AtTopLevel /\ ByteAt(pos) \notin Containers
  /\ Finish(pos)
  /\ UNCHANGED <<patterns, buffer, delivered>>

MatchStep ==
  \/ ExpectToBeFirst \/ ExpectToBeLast \/ ExpectTypeExact \/ ExpectTypeUI8
  \/ ExpectClassIdUntagged \/ ExpectAttr8Untagged
  \/ ExpectObis6("EXPECT_OBIS6_TAGGED")
  \/ ExpectObis6("EXPECT_OBIS6_TAGGED_WRONG")
  \/ ExpectObis6("EXPECT_OBIS6_UNTAGGED")
  \/ ExpectValueGeneric \/ ExpectValueDateTime \/ ExpectValueOctetString
  \/ ExpectStructureN \/ ExpectScalerTagged \/ ExpectUnitEnumTagged
  \/ GoingDownOrUp \/ PatternMatched
  \/ SelfDescHeader \/ SelfDescDescriptor \/ SelfDescMisaligned
  \/ SelfDescValue \/ SelfDescMatched
  \/ FlatMisfit \/ FlatField \/ FlatMatched

Walk ==
  \/ ElementMissing \/ EnterElement \/ SkipElement \/ CloseContainer
  \/ EnterTopLevel \/ Return

Advance == MatchStep \/ Walk

Next == Advance \/ \E bytes \in Telegrams : Parse(bytes)

Spec == Init /\ [][Next]_vars /\ WF_vars(Advance)

-----------------------------------------------------------------------------
Unsigned16 == {n \in Nat : n < 65536}
Signed8 == -128 .. 127

Capture ==
  [elem_idx : Nat, class_id : Unsigned16, obis : Seq(Byte), value_type : Byte,
   at : Nat, len : Nat, has_scaler_unit : BOOLEAN, scaler : Signed8,
   unit_enum : Byte]

TypeOK ==
  /\ patterns \in Tables
  /\ buffer \in Seq(Byte) /\ pos \in Nat /\ saved \in Nat
  /\ stack \in Seq([type : Containers, count : Byte, consumed : Byte])
  /\ status \in {"idle", "parsing", "done"}
  /\ pattern \in 1 .. Len(patterns) + 1
  /\ step \in Nat \ {0} /\ level \in Byte /\ consumed \in Nat
  /\ declared \in -1 .. 255 /\ sent \in Nat
  /\ cap \in Capture /\ held \in Seq(Capture) /\ delivered \in Seq(Capture)

(* No read goes past the end of the buffer, and no capture refers to bytes *)
(* that are not in it, whatever lengths the telegram claims.               *)
InBuffer(c) == c.at + c.len <= Len(buffer)

StaysInBuffer ==
  /\ saved <= pos /\ pos <= Len(buffer)
  /\ InBuffer(cap)
  /\ \A i \in DOMAIN held : InBuffer(held[i])
  /\ \A i \in DOMAIN delivered : InBuffer(delivered[i])

(* parse_sequence_ recurses at most once for every two bytes: a telegram   *)
(* bounds the C++ stack it takes.                                          *)
DepthIsBounded == 2 * Len(stack) <= saved

(* Unless a self-describing pattern is registered, no byte is part of two  *)
(* values that are delivered, and values come in the order of the telegram:*)
(* what failed matches and passed-over elements read is not seen again.    *)
SelfDescribing ==
  \E i \in DOMAIN patterns :
    /\ Len(patterns[i].steps) = 1
    /\ patterns[i].steps[1].type = "SELF_DESC"

Precedes(c, d) == c.len > 0 /\ d.len > 0 => c.at + c.len <= d.at

DeliversEachByteOnce ==
  ~ SelfDescribing =>
    \A i, j \in DOMAIN delivered : i < j => Precedes(delivered[i], delivered[j])

(* "Fires cooked_cb and/or raw_cb for each pattern match"                  *)
(* (axdr_parser.h:123): when a pattern turns out not to match, the callback*)
(* has not been called for it.                                             *)
OnlyMatchesAreDelivered == [][pattern' = pattern + 1 => sent = 0]_vars

(* A call returns whatever it was given: elements and patterns run out.    *)
Terminates == status = "parsing" ~> status = "done"

=============================================================================
