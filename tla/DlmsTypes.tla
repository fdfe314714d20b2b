----------------------------- MODULE DlmsTypes -----------------------------
(***************************************************************************)
(* The tags of A-XDR data, as far as the parser tells them apart, and what *)
(* it knows of the data behind them.                                       *)
(***************************************************************************)
EXTENDS Integers, Sequences

NONE == 0
ARRAY == 1
STRUCTURE == 2
DLMS_BOOLEAN == 3
BIT_STRING == 4
INT32 == 5
UINT32 == 6
OCTET_STRING == 9
DLMS_STRING == 10
STRING_UTF8 == 12
BINARY_CODED_DECIMAL == 13
INT8 == 15
INT16 == 16
UINT8 == 17
UINT16 == 18
COMPACT_ARRAY == 19
INT64 == 20
UINT64 == 21
ENUM == 22
FLOAT32 == 23
FLOAT64 == 24
DATETIME == 25
DATE == 26
TIME == 27

DlmsDataTypes ==
  {NONE, ARRAY, STRUCTURE, DLMS_BOOLEAN, BIT_STRING, INT32, UINT32,
   OCTET_STRING, DLMS_STRING, STRING_UTF8, BINARY_CODED_DECIMAL, INT8, INT16,
   UINT8, UINT16, COMPACT_ARRAY, INT64, UINT64, ENUM, FLOAT32, FLOAT64,
   DATETIME, DATE, TIME}

Containers == {ARRAY, STRUCTURE}

is_value_data_type(type) ==
  type \in DlmsDataTypes \ {ARRAY, STRUCTURE, COMPACT_ARRAY}

(* The bytes of a type of fixed size.  Every other tag, known or not, is   *)
(* taken to have a BER length in front of its data.                        *)
FixedSize(type) ==
  type \in {NONE, DLMS_BOOLEAN, INT8, UINT8, ENUM, INT16, UINT16, INT32, UINT32,
            FLOAT32, INT64, UINT64, FLOAT64, DATETIME, DATE, TIME}

get_data_type_size(type) ==
  CASE type = NONE -> 0
    [] type \in {DLMS_BOOLEAN, INT8, UINT8, ENUM} -> 1
    [] type \in {INT16, UINT16} -> 2
    [] type \in {INT32, UINT32, FLOAT32, TIME} -> 4
    [] type = DATE -> 5
    [] type \in {INT64, UINT64, FLOAT64} -> 8
    [] type = DATETIME -> 12
    [] OTHER -> -1

(* A date-time of twelve bytes, each field in its range or unspecified.    *)
be16(p, i) == 256 * p[i] + p[i + 1]

test_if_date_time_12b(p) ==
  /\ Len(p) >= 12
  /\ be16(p, 1) \in {0, 65535} \cup 1970 .. 2100
  /\ p[3] \in {255} \cup 1 .. 12
  /\ p[4] \in {255} \cup 1 .. 31
  /\ p[5] \in {255} \cup 1 .. 7
  /\ p[6] \in {255} \cup 0 .. 23
  /\ p[7] \in {255} \cup 0 .. 59
  /\ p[8] \in {255} \cup 0 .. 59
  /\ p[9] \in {255} \cup 0 .. 99
  /\ be16(p, 10) \in {32768} \cup 0 .. 720 \cup 65536 - 720 .. 65535

=============================================================================
