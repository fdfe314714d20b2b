---------------------------- MODULE MbusFraming ----------------------------
(***************************************************************************)
(* How a meter frames for M-Bus: outside the library, taken from what      *)
(* mbus_decoder.h and the recorded telegrams of the tests show.            *)
(***************************************************************************)
EXTENDS Integers, Sequences

(* 68 L L 68 | C A CI STSAP DTSAP data | CS 16                             *)
LongFrame(data) ==
  LET body == <<83, 255, 0, 1, 103>> \o data
      sum[i \in 0 .. Len(body)] ==
        IF i = 0 THEN 0 ELSE (sum[i - 1] + body[i]) % 256
  IN  <<104, Len(body), Len(body), 104>> \o body \o <<sum[Len(body)], 22>>

=============================================================================
