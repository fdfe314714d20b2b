---------------------------- MODULE HdlcFraming ----------------------------
(***************************************************************************)
(* How a meter frames: outside the library, taken from what                *)
(* hdlc_decoder.h and the recorded telegrams of the tests show.            *)
(***************************************************************************)
EXTENDS Crc16

(* The two check bytes of data, low byte first.                            *)
Fcs(data) ==
  LET check == 65535 - Crc16(data)
  IN  <<check % 256, check \div 256>>

(* 7E | A0+segmentation+length | addresses | control | HCS | data | FCS | 7E *)
HdlcFrame(address, data, more) ==
  LET len == Len(address) + Len(data) + 7
      header == <<160 + (IF more THEN 8 ELSE 0) + len \div 256, len % 256>>
                  \o address \o <<19>>
      checked == header \o Fcs(header) \o data
  IN  <<126>> \o checked \o Fcs(checked) \o <<126>>

(* An M-Bus short frame, as meters send between HDLC frames.               *)
ShortFrame == <<16, 64, 1, 65, 22>>

=============================================================================
