---------------------------- MODULE MeterLayouts ----------------------------
(***************************************************************************)
(* How meters lay out what they push: outside the library, taken from the  *)
(* recorded telegrams in tests/dumps.  An item is a part of a container:   *)
(* how many of its elements it is, their bytes, and the objects it reports.*)
(***************************************************************************)
EXTENDS DlmsTypes, SequencesExt

(* An object of a meter: an OBIS code, a class, a value (its tag, what     *)
(* follows the tag, and how many of those bytes are its length), a scaler  *)
(* and a unit.                                                             *)
Value(tag, header, data) == [tag |-> tag, header |-> header, data |-> data]

Encoded(value) == <<value.tag>> \o value.header \o value.data

Class(o) == <<o.class \div 256, o.class % 256>>
TaggedClass(o) == <<UINT16>> \o Class(o)
TaggedObis(o) == <<OCTET_STRING, 6>> \o o.obis
SwappedObis(o) == <<6, OCTET_STRING>> \o o.obis
Scaler(o) == <<INT8, o.scaler % 256>>
ScalerUnit(o) == <<STRUCTURE, 2>> \o Scaler(o) \o <<ENUM, o.unit>>

(* What is reported of an object; a value may turn out to be a date-time.  *)
Report(o, class, scaled, unit) ==
  [obis |-> o.obis, class_id |-> IF class THEN o.class ELSE 0,
   value |-> o.value.data, has_scaler_unit |-> scaled,
   scaler |-> IF scaled THEN o.scaler ELSE 0, unit_enum |-> IF unit THEN o.unit ELSE 0]

Item(elements, bytes, reports) ==
  [elements |-> elements, bytes |-> bytes, reports |-> reports]

Filler(value) == Item(1, Encoded(value), << >>)

-----------------------------------------------------------------------------
ClassObisScalerValue(o) ==
  Item(4, TaggedClass(o) \o TaggedObis(o) \o Scaler(o) \o Encoded(o.value),
       <<Report(o, TRUE, TRUE, FALSE)>>)

ObisValueUnit(o) ==
  Item(3, TaggedObis(o) \o Encoded(o.value) \o ScalerUnit(o),
       <<Report(o, FALSE, TRUE, TRUE)>>)

ValueClassUnitObis(o) ==
  Item(4, Encoded(o.value) \o TaggedClass(o) \o ScalerUnit(o) \o TaggedObis(o),
       <<Report(o, TRUE, TRUE, TRUE)>>)

SwappedObisValueUnit(o) ==
  Item(3, SwappedObis(o) \o Encoded(o.value) \o ScalerUnit(o),
       <<Report(o, FALSE, TRUE, TRUE)>>)

ObisValue(o) ==
  Item(2, TaggedObis(o) \o Encoded(o.value), <<Report(o, FALSE, FALSE, FALSE)>>)

(* Class, OBIS and attribute without tags are the first of two elements.   *)
UntaggedValue(o) ==
  Item(2, Class(o) \o o.obis \o <<2>> \o Encoded(o.value),
       <<Report(o, TRUE, FALSE, FALSE)>>)

(* A container of items is one element.                                    *)
Container(tag, items) ==
  LET elements[i \in 0 .. Len(items)] ==
        IF i = 0 THEN 0 ELSE elements[i - 1] + items[i].elements
  IN  Item(1, <<tag, elements[Len(items)]>>
                \o FlattenSeq([i \in DOMAIN items |-> items[i].bytes]),
           FlattenSeq([i \in DOMAIN items |-> items[i].reports]))

(* The self-describing layout: descriptors, led by one of the push setup   *)
(* if asked for, then the values.                                          *)
Descriptor(class, obis) ==
  <<STRUCTURE, 4, UINT16, class \div 256, class % 256, OCTET_STRING, 6>> \o obis
    \o <<INT8, 2, UINT16, 0, 0>>

PushSetup == Descriptor(40, <<0, 0, 25, 9, 0, 255>>)

SelfDescribed(objects, setup) ==
  LET n == Len(objects)
  IN  Item(1, <<STRUCTURE, n + 1, ARRAY, n + (IF setup THEN 1 ELSE 0)>>
                \o (IF setup THEN PushSetup ELSE << >>)
                \o FlattenSeq([i \in 1 .. n |-> Descriptor(objects[i].class, objects[i].obis)])
                \o FlattenSeq([i \in 1 .. n |-> Encoded(objects[i].value)]),
           [i \in 1 .. n |-> Report(objects[i], TRUE, FALSE, FALSE)])

=============================================================================
