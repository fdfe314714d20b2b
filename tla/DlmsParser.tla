----------------------------- MODULE DlmsParser -----------------------------
(***************************************************************************)
(* The facade: DlmsParser::parse finds out how a telegram is framed, has   *)
(* it decoded, has the wrappers taken off, and gives what is inside to the *)
(* A-XDR parser, as often as that parser gets on.                          *)
(***************************************************************************)
EXTENDS Spans

CONSTANTS
  Keys, NoKey, MAX_ITERATIONS, Plain(_, _, _), Authentic(_, _, _, _, _),
  Patterns,      \* the pattern table
  WORD, MAX_SELF_DESC_OBJECTS

ASSUME FacadeAssumption ==
  /\ NoKey \notin Keys
  /\ MAX_ITERATIONS \in Nat

VARIABLES
  stage,         \* "idle", "hdlc", "mbus", "apdu", "axdr" or "done"
  axdr, offset,  \* the A-XDR data, and how much of it has been parsed
  told,          \* what the callback was called with
  count, bytes_consumed,   \* the result
  \* the frame decoders
  telegram, skip_crc_check_, frame_buf, read_offset, write_offset, is_first,
  frame_status, decoded,
  \* the APDU handler
  decryption_key, auth_key, layer, apdu_buf, iter, read_pos, write_pos, is_last,
  library_failed, apdu_status, unwrapped,
  \* the A-XDR parser
  patterns, buffer, pos, stack, axdr_status, pattern, saved, step, level,
  consumed, cap, declared, held, sent, delivered

outcome == <<axdr, offset, told, count, bytes_consumed>>
framing == <<telegram, skip_crc_check_, frame_buf, read_offset, write_offset,
             is_first, frame_status, decoded>>
handler == <<decryption_key, auth_key, layer, apdu_buf, iter, read_pos, write_pos,
             is_last, library_failed, apdu_status, unwrapped>>
axdr_parser_ == <<patterns, buffer, pos, stack, axdr_status, pattern, saved, step,
                  level, consumed, cap, declared, held, sent, delivered>>

parser == <<stage, outcome, framing, handler, axdr_parser_>>

Hdlc == INSTANCE HdlcDecoder WITH
  skip_crc_check <- skip_crc_check_,
  buf <- frame_buf, status <- frame_status, result <- decoded

Mbus == INSTANCE MbusDecoder WITH
  skip_crc_check <- skip_crc_check_,
  buf <- frame_buf, status <- frame_status, result <- decoded

Apdu == INSTANCE ApduHandler WITH
  buf <- apdu_buf, status <- apdu_status, result <- unwrapped

Axdr == INSTANCE AxdrParser WITH
  Telegrams <- Seq(0 .. 255), Tables <- {Patterns}, status <- axdr_status

Init ==
  /\ stage = "idle" /\ axdr = << >> /\ offset = 0
  /\ told = << >> /\ count = 0 /\ bytes_consumed = 0
  /\ Hdlc!Init /\ Apdu!Init /\ Axdr!Init

Ready == stage \in {"idle", "done"}

-----------------------------------------------------------------------------
(* Settings, between two telegrams.  (The keys go to the decryptor.)       *)
set_skip_crc_check(skip) ==
  /\ Ready
  /\ skip_crc_check_' = skip
  /\ UNCHANGED <<stage, outcome, telegram, frame_buf, read_offset, write_offset,
                 is_first, frame_status, decoded, handler, axdr_parser_>>

set_keys(decryption, authentication) ==
  /\ Ready
  /\ decryption_key' = decryption /\ auth_key' = authentication
  /\ UNCHANGED <<stage, outcome, framing, layer, apdu_buf, iter, read_pos, write_pos,
                 is_last, library_failed, apdu_status, unwrapped, axdr_parser_>>

-----------------------------------------------------------------------------
(* A seeded mistake: the stop byte of the short frame is not passed over.  *)
WithoutShortFrameAlmost(bytes) ==
  IF is_mbus_short_frame(bytes) THEN From(bytes, 4) ELSE bytes

(* parse(buf).  One M-Bus short frame in front is passed over.             *)
WithoutShortFrame(bytes) ==
  IF is_mbus_short_frame(bytes) THEN From(bytes, 5) ELSE bytes

Start(to) ==
  /\ stage' = to
  /\ axdr' = << >> /\ offset' = 0
  /\ told' = << >> /\ count' = 0 /\ bytes_consumed' = 0

ParseEmpty(bytes) ==
  /\ WithoutShortFrame(bytes) = << >>
  /\ Start("done")
  /\ UNCHANGED <<framing, handler, axdr_parser_>>

ParseFrames(bytes) ==
  \E data \in {WithoutShortFrame(bytes)} :
    /\ data # << >>
    /\ \/ At(data, 0) = 126 /\ Start("hdlc") /\ Hdlc!Call(data, skip_crc_check_)
       \/ At(data, 0) = 104 /\ Start("mbus") /\ Mbus!Call(data, skip_crc_check_)
                            /\ UNCHANGED is_first
    /\ UNCHANGED <<handler, axdr_parser_>>

ParseRaw(bytes) ==
  \E data \in {WithoutShortFrame(bytes)} :
    /\ data # << >> /\ At(data, 0) \notin {104, 126}
    /\ Start("apdu")
    /\ Apdu!Call(data, decryption_key, auth_key)
    /\ UNCHANGED <<framing, axdr_parser_>>

parse(bytes) ==
  /\ Ready
  /\ ParseEmpty(bytes) \/ ParseFrames(bytes) \/ ParseRaw(bytes)

-----------------------------------------------------------------------------
(* Step 1: frame decode.                                                   *)
DecodeFrames ==
  /\ \/ stage = "hdlc" /\ Hdlc!Decode
     \/ stage = "mbus" /\ Mbus!Decode /\ UNCHANGED is_first
  /\ UNCHANGED <<stage, outcome, handler, axdr_parser_>>

Decoded ==
  /\ stage \in {"hdlc", "mbus"} /\ frame_status = "done"
  /\ frame_status' = "idle"
  /\ \/ /\ decoded # << >>
        /\ stage' = "apdu"
        /\ Apdu!Call(decoded, decryption_key, auth_key)
     \/ /\ decoded = << >>
        /\ stage' = "done"
        /\ UNCHANGED handler
  /\ UNCHANGED <<outcome, telegram, skip_crc_check_, frame_buf, read_offset,
                 write_offset, is_first, decoded, axdr_parser_>>

(* Step 2: APDU unwrap.                                                    *)
Unwrap ==
  /\ stage = "apdu" /\ Apdu!Unwrap
  /\ UNCHANGED <<stage, outcome, framing, axdr_parser_>>

Unwrapped ==
  /\ stage = "apdu" /\ apdu_status = "done"
  /\ apdu_status' = "idle"
  /\ \/ /\ unwrapped # << >>
        /\ stage' = "axdr"
        /\ axdr' = unwrapped
        /\ Axdr!Begin(unwrapped)
     \/ /\ unwrapped = << >>
        /\ stage' = "done"
        /\ UNCHANGED <<axdr, axdr_parser_>>
  /\ UNCHANGED <<offset, told, count, bytes_consumed, framing, decryption_key,
                 auth_key, layer, apdu_buf, iter, read_pos, write_pos, is_last,
                 library_failed, unwrapped>>

(* Step 3: AXDR parse.                                                     *)
Parse ==
  /\ stage = "axdr" /\ Axdr!Advance
  /\ UNCHANGED <<stage, outcome, framing, handler>>

(* What the callback is told by a capture.                                 *)
Told(c) ==
  [obis |-> c.obis, class_id |-> c.class_id,
   value |-> SubSeq(buffer, c.at + 1, c.at + c.len),
   has_scaler_unit |-> c.has_scaler_unit, scaler |-> c.scaler,
   unit_enum |-> c.unit_enum]

Stopped ==
  /\ stage = "axdr" /\ axdr_status = "done"
  /\ told' = told \o [i \in DOMAIN delivered |-> Told(delivered[i])]

(* The parser got on: it is called for the rest, if there is one.          *)
Continue ==
  /\ Stopped /\ pos # 0
  /\ count' = count + Len(delivered)
  /\ bytes_consumed' = bytes_consumed + pos
  /\ offset' = offset + pos
  /\ \/ /\ offset' < Len(axdr)
        /\ Axdr!Begin(From(axdr, offset'))
        /\ UNCHANGED stage
     \/ /\ offset' >= Len(axdr)
        /\ stage' = "done" /\ axdr_status' = "idle"
        /\ UNCHANGED <<patterns, buffer, pos, stack, pattern, saved, step, level,
                       consumed, cap, declared, held, sent, delivered>>
  /\ UNCHANGED <<axdr, framing, handler>>

(* A seeded mistake: it is called again though it did not get on.          *)
GiveUpNever ==
  /\ Stopped /\ pos = 0
  /\ Axdr!Begin(From(axdr, offset))
  /\ UNCHANGED <<stage, axdr, offset, count, bytes_consumed, framing, handler>>

GiveUp ==
  /\ Stopped /\ pos = 0
  /\ stage' = "done" /\ axdr_status' = "idle"
  /\ UNCHANGED <<axdr, offset, count, bytes_consumed, framing, handler, patterns,
                 buffer, pos, stack, pattern, saved, step, level, consumed, cap,
                 declared, held, sent, delivered>>

Work ==
  DecodeFrames \/ Decoded \/ Unwrap \/ Unwrapped \/ Parse \/ Continue \/ GiveUp

-----------------------------------------------------------------------------
(* A telegram comes to an end, whatever is in it.                          *)
Returns == ~ Ready ~> Ready

=============================================================================
