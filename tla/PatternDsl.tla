----------------------------- MODULE PatternDsl -----------------------------
(***************************************************************************)
(* What register_pattern_dsl_ makes of a pattern's text: the steps the     *)
(* parser goes through.  The text is taken as it is after splitting: a     *)
(* sequence of tokens, each a word or a group S(...) of words.             *)
(***************************************************************************)
EXTENDS DlmsTypes, SequencesExt

CONSTANTS
  MAX_TOKENS,       \* 64 tokens of a pattern,
  MAX_INNER,        \* 16 words of a group, and
  MAX_STEPS         \* 32 steps are kept; what is beyond is dropped

Word(w) == [group |-> FALSE, words |-> <<w>>]
S(words) == [group |-> TRUE, words |-> words]

DslStep(type) == [type |-> type, param |-> 0]
StepOf(type, param) == [type |-> type, param |-> param]

FirstOf(s, n) == SubSeq(s, 1, IF Len(s) <= n THEN Len(s) ELSE n)

-----------------------------------------------------------------------------
TagWithUnit ==
  << StepOf("EXPECT_STRUCTURE_N", 2), DslStep("GOING_DOWN"),
     DslStep("EXPECT_SCALER_TAGGED"), DslStep("EXPECT_UNIT_ENUM_TAGGED"),
     DslStep("GOING_UP") >>

(* process_simple_token; a word it does not know adds no step.             *)
process_simple_token(w) ==
  CASE w = "SelfDesc" -> << DslStep("SELF_DESC") >>
    [] w = "F" -> << DslStep("EXPECT_TO_BE_FIRST") >>
    [] w = "L" -> << DslStep("EXPECT_TO_BE_LAST") >>
    [] w = "C" -> << DslStep("EXPECT_CLASS_ID_UNTAGGED") >>
    [] w = "TC" -> << StepOf("EXPECT_TYPE_EXACT", UINT16),
                      DslStep("EXPECT_CLASS_ID_UNTAGGED") >>
    [] w = "O" -> << DslStep("EXPECT_OBIS6_UNTAGGED") >>
    [] w = "TO" -> << DslStep("EXPECT_OBIS6_TAGGED") >>
    [] w = "TOW" -> << DslStep("EXPECT_OBIS6_TAGGED_WRONG") >>
    [] w = "A" -> << DslStep("EXPECT_ATTR8_UNTAGGED") >>
    [] w = "TA" -> << DslStep("EXPECT_TYPE_U_I_8"),
                      DslStep("EXPECT_ATTR8_UNTAGGED") >>
    [] w = "TS" -> << DslStep("EXPECT_SCALER_TAGGED") >>
    [] w = "TU" -> << DslStep("EXPECT_UNIT_ENUM_TAGGED") >>
    [] w \in {"V", "TV"} -> << DslStep("EXPECT_VALUE_GENERIC") >>
    [] w = "TDTM" -> << DslStep("EXPECT_VALUE_DATE_TIME") >>
    [] w = "TSTR" -> << DslStep("EXPECT_VALUE_OCTET_STRING") >>
    [] w = "TSU" -> TagWithUnit
    [] w = "ADV" -> << DslStep("EXPECT_TO_BE_FIRST"),
                       DslStep("EXPECT_CLASS_ID_UNTAGGED"),
                       DslStep("EXPECT_OBIS6_UNTAGGED"),
                       DslStep("EXPECT_ATTR8_UNTAGGED"),
                       DslStep("EXPECT_VALUE_GENERIC") >>
    [] w = "DN" -> << DslStep("GOING_DOWN") >>
    [] w = "UP" -> << DslStep("GOING_UP") >>
    [] OTHER -> << >>

Expand(words) ==
  FlattenSeq([i \in DOMAIN words |-> process_simple_token(words[i])])

(* A group is a structure of as many elements as it has words.             *)
GroupSteps(words) ==
  IF words = << >> THEN << >>
  ELSE << StepOf("EXPECT_STRUCTURE_N", Len(words)), DslStep("GOING_DOWN") >>
         \o Expand(words) \o << DslStep("GOING_UP") >>

TokenSteps(token) ==
  IF token.group THEN GroupSteps(FirstOf(token.words, MAX_INNER))
  ELSE Expand(token.words)

Steps(dsl) ==
  LET kept == FirstOf(dsl, MAX_TOKENS)
  IN  FirstOf(FlattenSeq([i \in DOMAIN kept |-> TokenSteps(kept[i])]), MAX_STEPS)

-----------------------------------------------------------------------------
(* The patterns load_default_patterns registers, in their order.           *)
DefaultDsl == <<
  << Word("SelfDesc") >>,
  << Word("TC"), Word("TO"), Word("TS"), Word("TV") >>,
  << Word("TO"), Word("TV"), Word("TSU") >>,
  << Word("TV"), Word("TC"), Word("TSU"), Word("TO") >>,
  << Word("ADV") >>,
  << S(<<"TO", "TV", "TSU">>) >>,
  << S(<<"TO", "TV">>) >>,
  << Word("TO"), Word("TV") >>,
  << Word("F"), S(<<"TO", "TDTM">>) >>,
  << Word("TOW"), Word("TV"), Word("TSU") >> >>

=============================================================================
