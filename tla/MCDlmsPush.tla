----------------------------- MODULE MCDlmsPush -----------------------------
EXTENDS DlmsPush, GcmStandIn, MeterLayouts, PatternDsl

MCKeys == {1, 2}

MCPatterns ==
  [i \in DOMAIN DefaultDsl |->
     [steps |-> Steps(DefaultDsl[i]), default_obis |-> <<0, 0, 0, 0, 0, 0>>,
      fields |-> << >>]]

Energy == [obis |-> <<1, 0, 1, 8, 0, 255>>, class |-> 3, scaler |-> -1, unit |-> 30,
           value |-> Value(UINT32, << >>, <<0, 0, 7, 164>>)]
Power == [obis |-> <<1, 0, 1, 7, 0, 255>>, class |-> 3, scaler |-> 0, unit |-> 27,
          value |-> Value(UINT16, << >>, <<0, 9>>)]
(* A text whose bytes look like a container.                               *)
Serial == [obis |-> <<0, 0, 96, 1, 0, 255>>, class |-> 1, scaler |-> 0, unit |-> 0,
           value |-> Value(OCTET_STRING, <<4>>, <<2, 1, 17, 5>>)]

Status == Filler(Value(ENUM, << >>, <<1>>))
Absent == Filler(Value(NONE, << >>, << >>))

Short == Container(STRUCTURE, <<ObisValueUnit(Power), ObisValue(Serial)>>)
Longer == Container(STRUCTURE, <<Status, Container(ARRAY,
            <<Container(STRUCTURE, <<ObisValueUnit(Energy)>>),
              Container(STRUCTURE, <<ObisValueUnit(Power)>>),
              Container(STRUCTURE, <<ObisValue(Serial)>>)>>)>>)

Single == Container(STRUCTURE, <<ObisValue(Power)>>)

(* Two containers, one behind the other.                                   *)
Both == [Short EXCEPT !.bytes = Short.bytes \o Longer.bytes,
                      !.reports = Short.reports \o Longer.reports]

Thirds(s) == <<SubSeq(s, 1, 30), SubSeq(s, 31, 40), SubSeq(s, 41, Len(s))>>

Cut(pieces) == [form |-> "blocks", pieces |-> pieces]
Seal(tag, key, auth, data) == [form |-> "ciphered"] @@ SealedApdu(tag, key, auth, data)

Dated(item) == DataNotification(<<12>> \o SomeTime, item.bytes)
SealOf(item) == Seal(219, 1, 2, Dated(item))
Transferred(s) == Transfer(Thirds(s))

(* What is sent of an item: plain or sealed, with the bytes in pieces.     *)
Sending(item, datetime, lead, wrappers, pieces, frames, faults) ==
  LET sealed == \E i \in DOMAIN wrappers : wrappers[i].form = "ciphered"
  IN  [data |-> item.bytes, datetime |-> datetime, lead |-> lead, wrappers |-> wrappers,
       keys |-> IF sealed THEN {1} ELSE MCKeys \cup {0}, auth |-> IF sealed THEN 2 ELSE 0,
       pieces |-> pieces, framing |-> frames, address |-> <<3, 33>>, led |-> FALSE,
       read |-> Len(item.bytes), reports |-> item.reports, tagged |-> TRUE,
       described |-> FALSE, faults |-> faults \cup {"none"},
       unchecked |-> "corrupted" \notin faults]

Led(m) == [m EXCEPT !.led = TRUE]

Noted(item, wrappers, pieces, frames, faults) ==
  Sending(item, <<12>> \o SomeTime, << >>, wrappers, pieces, frames, faults)

Plainly(item, frames, faults) ==
  Noted(item, << >>, Thirds(Dated(item)), frames, faults)

UnderSeal(item, frames, faults) ==
  Noted(item, <<SealOf(item)>>, Thirds(CipheredApdu(SealOf(item))), frames, faults)

InBlocks(item, frames) ==
  LET sealed == CipheredApdu(SealOf(item))
  IN  Noted(item, <<Cut(Thirds(sealed)), SealOf(item)>>, Thirds(Transferred(sealed)),
            frames, {})

Bare(item) == Sending(item, << >>, << >>, << >>, <<item.bytes>>, "none", {})

(* Every wrapping and framing, on a quiet line.                            *)
Quiet(item) == {
  Plainly(item, "hdlc", {}), Led(Plainly(item, "hdlc", {})), Led(Plainly(item, "mbus", {})),
  UnderSeal(item, "hdlc", {}), InBlocks(item, "mbus"), InBlocks(item, "none"),
  Bare(item),
  Sending(item, << >>, <<230, 230, 0>>, << >>, <<<<230, 230, 0>> \o item.bytes>>, "none", {}),
  Led(Noted(item, <<Cut(Thirds(Dated(item)))>>, <<Transferred(Dated(item))>>, "none", {})) }

(* Some of them, on a line that disturbs; also without a date-time, and in *)
(* frames that end inside values.  (Of flipped bits that no checksum is     *)
(* looked at for only that the telegram is parsed to an end.)              *)
Undated(item) == DataNotification(<<0>>, item.bytes)

Apart(s) == <<SubSeq(s, 1, 18), SubSeq(s, 19, 37), SubSeq(s, 38, Len(s))>>

Undatedly(item, pieces, frames, faults) ==
  Sending(item, <<0>>, << >>, << >>, pieces, frames, faults)

Falling == {"cut"}
Disturbing == {"cut", "corrupted"}

Disturbed(item, frames) == {
  Plainly(item, frames, Disturbing),
  UnderSeal(item, frames, Disturbing),
  Undatedly(item, Apart(Undated(item)), frames, Disturbing),
  Led(Undatedly(item, Apart(Undated(item)), frames, Disturbing)) }

CutOff(item) == {
  Noted(item, << >>, <<Dated(item)>>, "none", Falling),
  Undatedly(item, <<Undated(item)>>, "none", Falling),
  Led(Undatedly(item, <<Undated(item)>>, "none", Falling)) }

(* Objects in every layout the built-in patterns are for, mixed, nested    *)
(* and self-describing.  (Of a label the bytes look like an OBIS code.)    *)
Label == [obis |-> <<0, 0, 96, 1, 0, 255>>, class |-> 1, scaler |-> 0, unit |-> 0,
          value |-> Value(OCTET_STRING, <<6>>, <<9, 6, 1, 2, 2, 2>>)]
Clock == [obis |-> <<0, 0, 1, 0, 0, 255>>, class |-> 8, scaler |-> 0, unit |-> 0,
          value |-> Value(OCTET_STRING, <<12>>, SomeTime)]

Scaled == {Energy, Power}
Objects == {Energy, Power, Label, Clock}

(* One object in each layout that can be mixed with the others.            *)
Groups ==
  {ObisValueUnit(o) : o \in Scaled} \cup {ObisValue(o) : o \in Objects}
  \cup {Container(STRUCTURE, <<ObisValueUnit(o)>>) : o \in Scaled}
  \cup {Container(STRUCTURE, <<ObisValue(o)>>) : o \in Objects}
  \cup {Container(STRUCTURE, <<ClassObisScalerValue(o)>>) : o \in Scaled}
  \cup {Container(STRUCTURE, <<SwappedObisValueUnit(o)>>) : o \in Scaled}
  \cup {Container(STRUCTURE, <<ValueClassUnitObis(o)>>) : o \in Scaled}

Mixed == {Container(STRUCTURE, <<x, y>>) : x \in Groups \cup {Status},
                                           y \in Groups \cup {Status, Absent}}

Nested == {Container(tag, <<Status, Container(ARRAY, <<x>>), y>>) :
             tag \in Containers, x \in Groups,
             y \in {ObisValue(Label), ObisValueUnit(Energy)}}

Selves == {SelfDescribed(s, setup) : s \in {<<x, y>> : x, y \in Objects}, setup \in BOOLEAN}

Untagged ==
  {Container(STRUCTURE,
     <<Status, Container(ARRAY, << Container(STRUCTURE, <<UntaggedValue(x)>>),
                                   Container(STRUCTURE, <<UntaggedValue(y)>>) >>)>>) :
     x, y \in Objects}


Laid ==
  {Bare(item) : item \in Mixed \cup Nested}
  \cup {[Bare(item) EXCEPT !.described = TRUE] : item \in Selves}
  \cup {[Bare(item) EXCEPT !.tagged = FALSE] : item \in Untagged}

(* Every layout, in a telegram that is cut: before and behind an object of *)
(* another.  (Of a self-describing one only that it is parsed to an end.)  *)
CutInLayout ==
  {[Bare(item) EXCEPT !.faults = {"none", "cut"}] :
     item \in {Container(STRUCTURE, <<x, ObisValueUnit(Energy)>>) : x \in Groups}
           \cup {Container(STRUCTURE, <<ObisValue(Label), x>>) : x \in Groups}}
  \cup {[Bare(item) EXCEPT !.faults = {"none", "cut"}, !.tagged = FALSE] :
          item \in {u \in Untagged : Len(u.bytes) < 40}}
  \cup {[Bare(SelfDescribed(<<Energy, Power>>, TRUE))
           EXCEPT !.faults = {"none", "cut"}, !.described = TRUE]}

(* Three plain telegrams, one of them followed by a null, for two pushes.  *)
Ended(item) == [item EXCEPT !.bytes = @ \o <<0>>]

MCSeries == {
  [Bare(Short) EXCEPT !.faults = {"none", "cut"}],
  Plainly(Both, "mbus", {"lost"}),
  [Noted(Ended(Short), << >>, <<Dated(Ended(Short))>>, "none", {"cut"})
    EXCEPT !.read = Len(Short.bytes)] }

MCMessages ==
  UNION {Quiet(item) : item \in {Short, Longer, Both}}
  \cup UNION {Disturbed(Short, frames) : frames \in {"hdlc", "mbus"}}
  \cup {Undatedly(Longer, Apart(Undated(Longer)), "hdlc", Disturbing),
         [Bare(Single) EXCEPT !.faults = {"none", "corrupted"}],
         [Undatedly(Single, <<Undated(Single)>>, "mbus", Disturbing)
           EXCEPT !.unchecked = TRUE]}
  \cup UNION {CutOff(item) : item \in {Short, Longer, Both}}
  \cup Laid \cup CutInLayout \cup MCSeries

=============================================================================
