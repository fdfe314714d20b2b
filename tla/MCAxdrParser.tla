---------------------------- MODULE MCAxdrParser ----------------------------
(***************************************************************************)
(* Telegrams and pattern tables for the A-XDR parser: well-formed ones,    *)
(* each of their prefixes, and some that claim what they do not hold.      *)
(***************************************************************************)
EXTENDS AxdrParser, PatternDsl, FiniteSetsExt

Unset == <<0, 0, 0, 0, 0, 0>>
Meter == <<0, 0, 96, 1, 0, 255>>
Obis == <<1, 0, 1, 8, 0, 255>>

Pattern(dsl, obis) == [steps |-> Steps(dsl), default_obis |-> obis, fields |-> << >>]

(* The table load_default_patterns makes, and tables an application might. *)
DefaultTable == [i \in DOMAIN DefaultDsl |-> Pattern(DefaultDsl[i], Unset)]

(* The registry sorts them; every token of the DSL is in one of these.     *)
CustomTable ==
  << Pattern(<<Word("C"), Word("O"), Word("A"), Word("V"), Word("TS"), Word("TU")>>, Unset),
     Pattern(<<Word("TA"), Word("TV")>>, Unset),
     Pattern(<<Word("F"), Word("TDTM")>>, Meter),
     Pattern(<<Word("L"), Word("TSTR")>>, Meter),
     Pattern(<<S(<<"TSTR", "TSU">>), Word("TSU"), Word("what")>>, Unset),
     Pattern(<<Word("SelfDesc"), Word("TV")>>, Unset),
     Pattern(<<Word("UP"), Word("TO"), Word("DN"), Word("TV")>>, Unset) >>

Flat(fields) ==
  [steps |-> << DslStep("FLAT_POSITIONAL") >>, default_obis |-> Unset, fields |-> fields]

FlatTable ==
  << Flat(<< [obis |-> Meter, prefix |-> <<1, 2>>], [obis |-> Obis, prefix |-> << >>] >>),
     Pattern(<<Word("TV")>>, Obis) >>

(* A pattern that reads nothing matches everywhere.                        *)
EmptyTable == << Pattern(<<Word("F")>>, Obis) >>

MCTables ==
  {DefaultTable, Tail(DefaultTable), CustomTable, FlatTable, EmptyTable, << >>}

-----------------------------------------------------------------------------
(* Elements: a few bytes each, as they stand behind one another.           *)
Date == <<7, 230, 11, 12, 6, 16, 54, 0, 0, 255, 196, 0>>

Elements ==
  { <<UINT8, 5>>, <<UINT16, 0, 3>>, <<INT8, 255>>, <<NONE>>,
    <<OCTET_STRING, 6>> \o Obis,               \* an OBIS code
    <<6, OCTET_STRING>> \o Obis,               \* tag and length swapped
    <<OCTET_STRING, 2, 1, 2>>,                 \* a prefix of two bytes
    <<DLMS_STRING, 129, 2, 1, 3>>,             \* a length of the long form,
    <<OCTET_STRING, 131, 1, 0, 2, 1, 3>>,      \*   beyond the register,
    <<OCTET_STRING, 128>>,                     \*   of no bytes at all,
    <<OCTET_STRING, 255>>,                     \*   none,
    <<DLMS_STRING, 200, 1, 2>>,                \*   of bytes that are not there
    <<BIT_STRING, 12, 255, 240>>,              \* twelve bits
    <<BIT_STRING, 130, 255, 255>>,             \* as many bits as wrap around
    <<OCTET_STRING, 12>> \o Date,
    <<DATETIME>> \o Date,
    <<7, 1, 9>>,                               \* not a tag of the enumeration
    <<COMPACT_ARRAY, 1, 9>>,
    <<255>>,
    <<STRUCTURE, 0>>, <<ARRAY, 255>>, <<ARRAY, 1>>,
    <<STRUCTURE, 2, INT8, 255, ENUM, 30>>,     \* scaler and unit
    <<STRUCTURE, 2, UINT8, 5, ENUM, 30>> }

Pairs == {<<STRUCTURE, 2>> \o x \o y : x, y \in Elements}

(* An object of each layout the tables above know, and what looks like one.*)
Object3 == <<OCTET_STRING, 6>> \o Obis \o <<UINT16, 0, 9>>
             \o <<STRUCTURE, 2, INT8, 255, ENUM, 30>>
Untagged == <<0, 3>> \o Obis \o <<2, UINT16, 0, 9, INT8, 255, ENUM, 30>>
InGroup == <<STRUCTURE, 2, OCTET_STRING, 2, 1, 2, STRUCTURE, 2, INT8, 255, ENUM, 30,
             STRUCTURE, 2, INT8, 1, ENUM, 27>>

Nests ==
  { <<STRUCTURE, 4, ENUM, 1>> \o Object3,
    <<ARRAY, 1, STRUCTURE, 6>> \o Untagged,
    <<STRUCTURE, 1, ARRAY, 2>> \o InGroup \o <<UINT8, 5>>,
    <<STRUCTURE, 2, UINT8, 0, INT8, 2>> }

Describes(class, obis, attribute) ==
  <<STRUCTURE, 4, UINT16, 0, class, OCTET_STRING, 6>> \o obis
    \o <<INT8, attribute, UINT16, 0, 0>>

(* Descriptors and values: as many, more, led by a push setup or not.      *)
Selves ==
  { <<STRUCTURE, 3, ARRAY, 2>> \o Describes(3, Obis, 2) \o Describes(1, Meter, 2)
      \o <<UINT8, 5, UINT16, 0, 9>>,
    <<STRUCTURE, 2, ARRAY, 2>> \o Describes(40, Meter, 2) \o Describes(3, Obis, 2)
      \o <<UINT8, 5>>,
    <<STRUCTURE, 2, ARRAY, 2>> \o Describes(3, Obis, 2) \o Describes(1, Meter, 2)
      \o <<UINT8, 5>>,
    <<STRUCTURE, 2, ARRAY, 1>> \o Describes(3, Obis, 0) \o <<UINT8, 5>>,
    <<STRUCTURE, 1, ARRAY, 0>> }

Whole == Pairs \cup Nests \cup Selves

PrefixesOf(s) == {SubSeq(s, 1, n) : n \in 0 .. Len(s)}

MCTelegrams ==
  Whole
  \cup {x \o y : x, y \in Nests}                      \* one behind the other
  \cup UNION {PrefixesOf(x) : x \in Nests \cup Selves} \* cut

=============================================================================
