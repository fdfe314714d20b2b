----------------------------- MODULE DlmsProofs -----------------------------
(***************************************************************************)
(* Proofs about the whole way of a telegram, from the meter to the data    *)
(* that is handed to the A-XDR parser: the stages of DlmsStages put        *)
(* together, one lemma per action of the facade.                           *)
(***************************************************************************)
EXTENDS DlmsStages

-----------------------------------------------------------------------------
(* The stages never leave their buffers, whatever the line does: the frame *)
(* decoders take turns with the same buffer, each while it is at work.     *)
FramesSafe ==
  /\ HdlcLine!TypeOK
  /\ stage = "hdlc" => HdlcLine!Inv
  /\ stage = "mbus" => MbusLine!Inv

WrappersSafe ==
  /\ ApduLine!TypeOK
  /\ stage = "apdu" => ApduLine!Inv

(* Everything together.                                                    *)
StagesSafe == LineHolds /\ FramesSafe /\ WrappersSafe

(* What is on the way is what was sent.                                    *)
OnTheWay ==
  fault = "none" =>
    /\ HdlcHolds /\ MbusHolds /\ ApduHolds
    /\ stage \in {"hdlc", "mbus", "apdu"} => axdr = << >>

(* The inductive invariant.                                                *)
PipelineInv ==
  /\ StagesSafe
  /\ stage # "idle" => queue = << >>
  /\ OnTheWay /\ HandsOverWhatWasSent

(* The stages that are on the way, and those behind it.                    *)
LEMMA Waiting ==
  ASSUME stage' = "idle"
  PROVE  OnTheWay' /\ HandsOverWhatWasSent'
<1>1. stage' # "hdlc" /\ stage' # "mbus" /\ stage' # "apdu"
      /\ stage' \notin {"hdlc", "mbus", "apdu"} /\ stage' \notin {"axdr", "done"}
  OBVIOUS
<1> QED
  BY <1>1, Zenon DEF OnTheWay, HandsOverWhatWasSent, HdlcHolds, MbusHolds, ApduHolds

LEMMA Past ==
  ASSUME stage' \in {"axdr", "done"}
  PROVE  OnTheWay'
<1>1. stage' # "hdlc" /\ stage' # "mbus" /\ stage' # "apdu"
      /\ stage' \notin {"hdlc", "mbus", "apdu"}
  OBVIOUS
<1> QED
  BY <1>1, Zenon DEF OnTheWay, HdlcHolds, MbusHolds, ApduHolds

LEMMA NothingHandedOver ==
  ASSUME stage' \in {"hdlc", "mbus", "apdu"}
  PROVE  HandsOverWhatWasSent'
<1>1. stage' \notin {"axdr", "done"}
  OBVIOUS
<1> QED
  BY <1>1, Zenon DEF HandsOverWhatWasSent

(* Outside of the frame decoders and the handler nothing more is claimed.  *)
LEMMA SafeOutside ==
  ASSUME HdlcLine!TypeOK', ApduLine!TypeOK', LineHolds',
         stage' \in {"idle", "axdr", "done"}
  PROVE  StagesSafe'
<1>1. stage' # "hdlc" /\ stage' # "mbus" /\ stage' # "apdu"
  OBVIOUS
<1> QED
  BY <1>1, Zenon DEF StagesSafe, FramesSafe, WrappersSafe

LEMMA SafeInside ==
  ASSUME HdlcLine!TypeOK', ApduLine!TypeOK', LineHolds',
         \/ stage' = "hdlc" /\ HdlcLine!Inv'
         \/ stage' = "mbus" /\ MbusLine!Inv'
         \/ stage' = "apdu" /\ ApduLine!Inv'
  PROVE  StagesSafe'
<1>1. "hdlc" # "mbus" /\ "hdlc" # "apdu" /\ "mbus" # "apdu"
  OBVIOUS
<1> QED
  BY <1>1, Zenon DEF StagesSafe, FramesSafe, WrappersSafe

(* The application sets keys or a mode.                                    *)
LEMMA ConfigureInv ==
  ASSUME PipelineInv, Configure
  PROVE  PipelineInv'
<1>1. stage = "idle" /\ stage' = "idle"
  BY Zenon DEF Configure, set_keys, set_skip_crc_check
<1>2. LineHolds' /\ message' = message
  BY LineKept, Zenon DEF Configure, PipelineInv, StagesSafe
<1>3. HdlcLine!TypeOK /\ ApduLine!TypeOK /\ message \in Messages
  BY Zenon DEF PipelineInv, StagesSafe, FramesSafe, WrappersSafe, LineHolds, LineTypes
<1>4. HdlcLine!TypeOK' /\ ApduLine!TypeOK'
  <2>1. CASE \E key \in message.keys : set_keys(key, message.auth)
    <3>1. PICK key \in message.keys : set_keys(key, message.auth)
      BY <2>1
    <3>2. key \in Keys \cup {NoKey} /\ message.auth \in Keys \cup {NoKey}
      BY <1>3, <3>1, TelegramAssumption, Zenon DEF HoldsApdu
    <3>3. UNCHANGED framing /\ decryption_key' = key /\ auth_key' = message.auth
      BY <3>1, Zenon DEF set_keys
    <3>4. UNCHANGED <<layer, apdu_buf, iter, read_pos, write_pos, is_last,
                      library_failed, apdu_status, unwrapped>>
      BY <3>1, Zenon DEF set_keys
    <3>5. HdlcLine!TypeOK'
      BY <1>3, <3>3, FramesKept, Zenon
    <3>6. /\ layer' = layer /\ apdu_buf' = apdu_buf /\ iter' = iter /\ read_pos' = read_pos
          /\ write_pos' = write_pos /\ is_last' = is_last
          /\ library_failed' = library_failed /\ apdu_status' = apdu_status
          /\ unwrapped' = unwrapped
      BY <3>4, Zenon
    <3>7. ApduLine!TypeOK'
      BY <1>3, <3>2, <3>3, <3>6, Zenon DEF ApduLine!TypeOK
    <3> QED
      BY <3>5, <3>7
  <2>2. CASE set_skip_crc_check(TRUE)
    <3>1. UNCHANGED handler /\ skip_crc_check_' = TRUE
          /\ UNCHANGED <<telegram, frame_buf, read_offset, write_offset, is_first,
                         frame_status, decoded>>
      BY <2>2, Zenon DEF set_skip_crc_check
    <3>2. ApduLine!TypeOK'
      BY <1>3, <3>1, WrappersKept, Zenon
    <3>3. TRUE \in BOOLEAN
      OBVIOUS
    <3>4. HdlcLine!TypeOK'
      BY <1>3, <3>1, <3>3, Zenon DEF HdlcLine!TypeOK
    <3> QED
      BY <3>2, <3>4
  <2> QED
    BY <2>1, <2>2, Zenon DEF Configure
<1>5. StagesSafe'
  <2>1. stage' \in {"idle", "axdr", "done"}
    BY <1>1
  <2> QED
    BY <1>2, <1>4, <2>1, SafeOutside, Zenon
<1> QED
  BY <1>1, <1>5, Waiting, Zenon DEF PipelineInv

(* The meter and the line do something.                                    *)
LEMMA PushInv ==
  ASSUME PipelineInv, Push
  PROVE  PipelineInv'
<1>1. stage = "idle" /\ UNCHANGED parser /\ Link!Next
  BY Zenon DEF Push
<1>2. stage' = "idle" /\ UNCHANGED framing /\ UNCHANGED handler
  BY <1>1, Zenon DEF parser
<1>3. LineHolds' /\ HdlcLine!TypeOK' /\ ApduLine!TypeOK'
  <2>1. LineHolds'
    BY <1>1, PushHolds, Zenon DEF PipelineInv, StagesSafe
  <2>2. HdlcLine!TypeOK /\ ApduLine!TypeOK
    BY Zenon DEF PipelineInv, StagesSafe, FramesSafe, WrappersSafe
  <2> QED
    BY <1>2, <2>1, <2>2, FramesKept, WrappersKept, Zenon
<1>4. StagesSafe'
  <2>1. stage' \in {"idle", "axdr", "done"}
    BY <1>2
  <2> QED
    BY <1>3, <2>1, SafeOutside, Zenon
<1> QED
  BY <1>2, <1>4, Waiting, Zenon DEF PipelineInv

(* The meter pushes again.                                                 *)
LEMMA PushAgainInv ==
  ASSUME PipelineInv, PushAgain
  PROVE  PipelineInv'
<1>1. /\ stage' = "idle" /\ UNCHANGED framing /\ UNCHANGED handler
      /\ message' \in Series /\ queue' = Frames(message') /\ air' = << >>
      /\ chatter' = 0
  BY Zenon DEF PushAgain
<1>2. PICK m : m = message'
  OBVIOUS
<1>3. m \in Messages
  <2>1. Series \subseteq Messages
    BY TelegramAssumption, Zenon
  <2> QED
    BY <1>1, <1>2, <2>1
<1>4. Frames(m) \in Seq(Seq(Octet)) /\ << >> \o FlattenSeq(Frames(m)) = FlattenSeq(Frames(m))
  BY <1>3, SentWhole, PushStarts, Zenon
<1>5. << >> \in Seq(Octet)
  OBVIOUS
<1>6. LineTypes'
  BY <1>1, <1>2, <1>3, <1>4, <1>5, Zenon DEF LineTypes
<1>7. Undisturbed'
  BY <1>1, <1>2, <1>4, Zenon DEF Undisturbed
<1>8. HdlcLine!TypeOK' /\ ApduLine!TypeOK'
  <2>1. HdlcLine!TypeOK /\ ApduLine!TypeOK
    BY Zenon DEF PipelineInv, StagesSafe, FramesSafe, WrappersSafe
  <2> QED
    BY <1>1, <2>1, FramesKept, WrappersKept, Zenon
<1>9. StagesSafe'
  <2>1. stage' \in {"idle", "axdr", "done"}
    BY <1>1
  <2> QED
    BY <1>6, <1>7, <1>8, <2>1, SafeOutside, Zenon DEF LineHolds
<1> QED
  BY <1>1, <1>9, Waiting, Zenon DEF PipelineInv

(* The receive loop has the facade parse what has arrived: nothing, ...    *)
LEMMA ParseEmptyInv ==
  ASSUME PipelineInv, queue = << >>, UNCHANGED link, ParseEmpty(air)
  PROVE  PipelineInv'
<1>1. /\ WithoutShortFrame(air) = << >> /\ stage' = "done"
      /\ UNCHANGED framing /\ UNCHANGED handler
  BY Zenon DEF ParseEmpty, Start
<1>2. /\ LineHolds /\ LineHolds' /\ message' = message /\ fault' = fault /\ queue' = queue
      /\ message \in Messages
  BY LineKept, Zenon DEF PipelineInv, StagesSafe, LineHolds, LineTypes
<1>3. fault # "none"
  <2> SUFFICES ASSUME fault = "none" PROVE FALSE
    OBVIOUS
  <2>1. Body(message) = << >>
    BY <1>1, <1>2, Arrived, Zenon
  <2> QED
    BY <1>2, <2>1, AllTell, Zenon DEF Tells
<1>4. HdlcLine!TypeOK' /\ ApduLine!TypeOK'
  <2>1. HdlcLine!TypeOK /\ ApduLine!TypeOK
    BY Zenon DEF PipelineInv, StagesSafe, FramesSafe, WrappersSafe
  <2> QED
    BY <1>1, <2>1, FramesKept, WrappersKept, Zenon
<1>5. stage' \in {"axdr", "done"} /\ stage' \in {"idle", "axdr", "done"}
  BY <1>1
<1>6. StagesSafe' /\ OnTheWay'
  BY <1>2, <1>4, <1>5, SafeOutside, Past, Zenon
<1>7. HandsOverWhatWasSent'
  BY <1>2, <1>3, Zenon DEF HandsOverWhatWasSent
<1> QED
  BY <1>2, <1>6, <1>7, Zenon DEF PipelineInv

(* ... HDLC frames, ...                                                    *)
LEMMA ParseHdlcInv ==
  ASSUME PipelineInv, queue = << >>, UNCHANGED link, UNCHANGED handler,
         NEW data, data = WithoutShortFrame(air), At(data, 0) = 126, Start("hdlc"),
         Hdlc!Call(data, skip_crc_check_)
  PROVE  PipelineInv'
<1>1. stage' = "hdlc" /\ axdr' = << >>
  BY Zenon DEF Start
<1>2. /\ LineHolds /\ LineHolds' /\ message' = message /\ fault' = fault /\ queue' = queue
      /\ message \in Messages /\ air \in Seq(Octet)
  BY LineKept, Zenon DEF PipelineInv, StagesSafe, LineHolds, LineTypes
<1>3. data \in Seq(Octet)
  BY <1>2, PassedOver, Zenon
<1>4. HdlcLine!TypeOK /\ ApduLine!TypeOK
  BY Zenon DEF PipelineInv, StagesSafe, FramesSafe, WrappersSafe
<1>5. HdlcLine!Inv' /\ HdlcLine!TypeOK' /\ ApduLine!TypeOK'
  BY <1>3, <1>4, HdlcCalled, WrappersKept, Zenon
<1>6. StagesSafe'
  BY <1>1, <1>2, <1>5, SafeInside, Zenon
<1>7. ASSUME fault = "none" PROVE HdlcHolds'
  <2>1. data = Body(message)
    BY <1>2, <1>7, Arrived, Zenon
  <2>2. message.framing = "hdlc"
    <3>1. Tells(message) /\ At(data, 0) = Body(message)[1]
      BY <1>2, <2>1, AllTell, FirstByte, Zenon
    <3> QED
      BY <3>1 DEF Tells
  <2>3. HdlcOnTrack' /\ frame_status' # "done"
    BY <1>2, <2>1, <2>2, HdlcWhole, Zenon
  <2> QED
    BY <1>2, <2>2, <2>3, Zenon DEF HdlcHolds
<1>8. stage' # "mbus" /\ stage' # "apdu" /\ stage' \in {"hdlc", "mbus", "apdu"} /\ stage' # "idle"
  BY <1>1
<1>9. OnTheWay'
  BY <1>1, <1>2, <1>7, <1>8, Zenon DEF OnTheWay, MbusHolds, ApduHolds
<1>10. HandsOverWhatWasSent'
  BY <1>8, NothingHandedOver, Zenon
<1> QED
  BY <1>2, <1>6, <1>9, <1>10, Zenon DEF PipelineInv

(* ... M-Bus frames, ...                                                   *)
LEMMA ParseMbusInv ==
  ASSUME PipelineInv, queue = << >>, UNCHANGED link, UNCHANGED handler,
         NEW data, data = WithoutShortFrame(air), At(data, 0) = 104, Start("mbus"),
         Mbus!Call(data, skip_crc_check_), UNCHANGED is_first
  PROVE  PipelineInv'
<1>1. stage' = "mbus" /\ axdr' = << >>
  BY Zenon DEF Start
<1>2. /\ LineHolds /\ LineHolds' /\ message' = message /\ fault' = fault /\ queue' = queue
      /\ message \in Messages /\ air \in Seq(Octet)
  BY LineKept, Zenon DEF PipelineInv, StagesSafe, LineHolds, LineTypes
<1>3. data \in Seq(Octet)
  BY <1>2, PassedOver, Zenon
<1>4. HdlcLine!TypeOK /\ ApduLine!TypeOK
  BY Zenon DEF PipelineInv, StagesSafe, FramesSafe, WrappersSafe
<1>5. MbusLine!Inv' /\ HdlcLine!TypeOK' /\ ApduLine!TypeOK'
  BY <1>3, <1>4, MbusCalled, WrappersKept, Zenon
<1>6. StagesSafe'
  BY <1>1, <1>2, <1>5, SafeInside, Zenon
<1>7. ASSUME fault = "none" PROVE MbusHolds'
  <2>1. data = Body(message)
    BY <1>2, <1>7, Arrived, Zenon
  <2>2. message.framing = "mbus"
    <3>1. Tells(message) /\ At(data, 0) = Body(message)[1]
      BY <1>2, <2>1, AllTell, FirstByte, Zenon
    <3> QED
      BY <3>1 DEF Tells
  <2>3. MbusOnTrack' /\ frame_status' # "done"
    BY <1>2, <2>1, <2>2, MbusWhole, Zenon
  <2> QED
    BY <1>2, <2>2, <2>3, Zenon DEF MbusHolds
<1>8. stage' # "hdlc" /\ stage' # "apdu" /\ stage' \in {"hdlc", "mbus", "apdu"} /\ stage' # "idle"
  BY <1>1
<1>9. OnTheWay'
  BY <1>1, <1>2, <1>7, <1>8, Zenon DEF OnTheWay, HdlcHolds, ApduHolds
<1>10. HandsOverWhatWasSent'
  BY <1>8, NothingHandedOver, Zenon
<1> QED
  BY <1>2, <1>6, <1>9, <1>10, Zenon DEF PipelineInv

(* ... or an APDU without frames.                                          *)
LEMMA ParseRawInv ==
  ASSUME PipelineInv, queue = << >>, UNCHANGED link, UNCHANGED framing,
         NEW data, data = WithoutShortFrame(air), At(data, 0) \notin {104, 126},
         Start("apdu"), Apdu!Call(data, decryption_key, auth_key)
  PROVE  PipelineInv'
<1>1. stage' = "apdu" /\ axdr' = << >>
  BY Zenon DEF Start
<1>2. /\ LineHolds /\ LineHolds' /\ message' = message /\ fault' = fault /\ queue' = queue
      /\ message \in Messages /\ air \in Seq(Octet)
  BY LineKept, Zenon DEF PipelineInv, StagesSafe, LineHolds, LineTypes
<1>3. data \in Seq(Octet)
  BY <1>2, PassedOver, Zenon
<1>4. ApduLine!TypeOK /\ HdlcLine!TypeOK
  BY Zenon DEF PipelineInv, StagesSafe, FramesSafe, WrappersSafe
<1>5. ApduLine!Inv' /\ ApduLine!TypeOK' /\ HdlcLine!TypeOK'
  BY <1>3, <1>4, ApduCalled, FramesKept, Zenon
<1>6. StagesSafe'
  BY <1>1, <1>2, <1>5, SafeInside, Zenon
<1>7. ASSUME fault = "none" PROVE ApduHolds'
  <2>1. data = Body(message)
    BY <1>2, <1>7, Arrived, Zenon
  <2>2. At(data, 0) # 104 /\ At(data, 0) # 126
    OBVIOUS
  <2>3. message.framing # "hdlc" /\ message.framing # "mbus"
    <3>1. Tells(message) /\ At(data, 0) = Body(message)[1]
      BY <1>2, <2>1, AllTell, FirstByte, Zenon
    <3> QED
      BY <2>2, <3>1 DEF Tells
  <2>4. message.framing = "none"
    BY <1>2, <2>3, AllTell
  <2>5. data = FlattenSeq(message.pieces)
    BY <1>2, <2>1, <2>4, RawTells, Zenon DEF Body
  <2>6. ApduLine!LayerInv' /\ ApduLine!LinkHolds' /\ ApduLine!ReceiverHolds'
    BY <1>2, <1>4, <2>5, ApduWhole, Zenon
  <2> QED
    BY <2>6, Zenon DEF ApduHolds
<1>8. stage' # "hdlc" /\ stage' # "mbus" /\ stage' \in {"hdlc", "mbus", "apdu"} /\ stage' # "idle"
  BY <1>1
<1>9. OnTheWay'
  BY <1>1, <1>2, <1>7, <1>8, Zenon DEF OnTheWay, HdlcHolds, MbusHolds
<1>10. HandsOverWhatWasSent'
  BY <1>8, NothingHandedOver, Zenon
<1> QED
  BY <1>2, <1>6, <1>9, <1>10, Zenon DEF PipelineInv

LEMMA ReceiveInv ==
  ASSUME PipelineInv, Receive
  PROVE  PipelineInv'
<1>1. queue = << >> /\ parse(air) /\ UNCHANGED link
  BY Zenon DEF Receive, Link!Silent
<1>2. ASSUME ParseFrames(air) PROVE PipelineInv'
  BY <1>1, <1>2, ParseHdlcInv, ParseMbusInv, Zenon DEF ParseFrames
<1>3. ASSUME ParseRaw(air) PROVE PipelineInv'
  BY <1>1, <1>3, ParseRawInv, Zenon DEF ParseRaw
<1> QED
  BY <1>1, <1>2, <1>3, ParseEmptyInv, Zenon DEF parse

(* The frame decoders do a turn.                                           *)
LEMMA HdlcTurnInv ==
  ASSUME PipelineInv, UNCHANGED link, stage = "hdlc", Hdlc!Decode,
         UNCHANGED <<stage, outcome, handler, axdr_parser_>>
  PROVE  PipelineInv'
<1>1. stage' = "hdlc" /\ axdr' = axdr /\ UNCHANGED handler
  BY Zenon DEF outcome
<1>2. /\ LineHolds' /\ message' = message /\ fault' = fault /\ queue' = queue
      /\ message \in Messages
  BY LineKept, Zenon DEF PipelineInv, StagesSafe, LineHolds, LineTypes
<1>3. HdlcLine!Inv /\ ApduLine!TypeOK
  BY Zenon DEF PipelineInv, StagesSafe, FramesSafe, WrappersSafe
<1>4. HdlcLine!Inv' /\ HdlcLine!TypeOK' /\ ApduLine!TypeOK'
  BY <1>1, <1>3, HdlcTurned, WrappersKept, Zenon
<1>5. StagesSafe'
  BY <1>1, <1>2, <1>4, SafeInside, Zenon
<1>6. stage # "idle" /\ stage' # "idle" /\ stage' # "mbus" /\ stage' # "apdu"
      /\ stage \in {"hdlc", "mbus", "apdu"} /\ stage' \in {"hdlc", "mbus", "apdu"}
  BY <1>1
<1>7. queue' = << >>
  BY <1>2, <1>6, Zenon DEF PipelineInv
<1>8. ASSUME fault = "none" PROVE HdlcHolds' /\ axdr' = << >>
  <2>1. HdlcHolds /\ axdr = << >>
    BY <1>6, <1>8, Zenon DEF PipelineInv, OnTheWay
  <2>2. message.framing = "hdlc" /\ HdlcOnTrack
    <3>1. frame_status \in {"decoding", "returning"}
      BY DEF Hdlc!Decode, Hdlc!SkipShortFrame, Hdlc!TakeFrame, Hdlc!Reject, Hdlc!Return
    <3>2. frame_status # "done"
      BY <3>1
    <3> QED
      BY <2>1, <3>2, Zenon DEF HdlcHolds
  <2>3. /\ frame_status' # "done" => HdlcOnTrack'
        /\ frame_status' = "done" => decoded' = FlattenSeq(message.pieces)
    BY <1>2, <1>3, <2>2, HdlcTurn, Zenon
  <2> QED
    BY <1>1, <1>2, <2>1, <2>2, <2>3, Zenon DEF HdlcHolds
<1>9. OnTheWay'
  BY <1>2, <1>6, <1>8, Zenon DEF OnTheWay, MbusHolds, ApduHolds
<1>10. HandsOverWhatWasSent'
  BY <1>6, NothingHandedOver, Zenon
<1> QED
  BY <1>5, <1>7, <1>9, <1>10, Zenon DEF PipelineInv

LEMMA MbusTurnInv ==
  ASSUME PipelineInv, UNCHANGED link, stage = "mbus", Mbus!Decode, UNCHANGED is_first,
         UNCHANGED <<stage, outcome, handler, axdr_parser_>>
  PROVE  PipelineInv'
<1>1. stage' = "mbus" /\ axdr' = axdr /\ UNCHANGED handler
  BY Zenon DEF outcome
<1>2. /\ LineHolds' /\ message' = message /\ fault' = fault /\ queue' = queue
      /\ message \in Messages
  BY LineKept, Zenon DEF PipelineInv, StagesSafe, LineHolds, LineTypes
<1>3. MbusLine!Inv /\ HdlcLine!TypeOK /\ ApduLine!TypeOK
  BY Zenon DEF PipelineInv, StagesSafe, FramesSafe, WrappersSafe
<1>4. MbusLine!Inv' /\ HdlcLine!TypeOK' /\ ApduLine!TypeOK'
  BY <1>1, <1>3, MbusTurned, WrappersKept, Zenon
<1>5. StagesSafe'
  BY <1>1, <1>2, <1>4, SafeInside, Zenon
<1>6. stage # "idle" /\ stage' # "idle" /\ stage' # "hdlc" /\ stage' # "apdu"
      /\ stage \in {"hdlc", "mbus", "apdu"} /\ stage' \in {"hdlc", "mbus", "apdu"}
  BY <1>1
<1>7. queue' = << >>
  BY <1>2, <1>6, Zenon DEF PipelineInv
<1>8. ASSUME fault = "none" PROVE MbusHolds' /\ axdr' = << >>
  <2>1. MbusHolds /\ axdr = << >>
    BY <1>6, <1>8, Zenon DEF PipelineInv, OnTheWay
  <2>2. message.framing = "mbus" /\ MbusOnTrack
    <3>1. frame_status = "decoding"
      BY DEF Mbus!Decode, Mbus!TakeFrame, Mbus!Reject, Mbus!Return
    <3>2. frame_status # "done"
      BY <3>1
    <3> QED
      BY <2>1, <3>2, Zenon DEF MbusHolds
  <2>3. /\ frame_status' # "done" => MbusOnTrack'
        /\ frame_status' = "done" => decoded' = FlattenSeq(message.pieces)
    BY <1>2, <1>3, <2>2, MbusTurn, Zenon
  <2> QED
    BY <1>1, <1>2, <2>1, <2>2, <2>3, Zenon DEF MbusHolds
<1>9. OnTheWay'
  BY <1>2, <1>6, <1>8, Zenon DEF OnTheWay, HdlcHolds, ApduHolds
<1>10. HandsOverWhatWasSent'
  BY <1>6, NothingHandedOver, Zenon
<1> QED
  BY <1>5, <1>7, <1>9, <1>10, Zenon DEF PipelineInv

(* What they return goes to the handler.                                   *)
LEMMA DecodedInv ==
  ASSUME PipelineInv, UNCHANGED link, Decoded
  PROVE  PipelineInv'
<1>1. /\ stage \in {"hdlc", "mbus"} /\ frame_status = "done" /\ frame_status' = "idle"
      /\ UNCHANGED outcome /\ decoded' = decoded
      /\ UNCHANGED <<telegram, skip_crc_check_, frame_buf, read_offset, write_offset, is_first>>
  BY Zenon DEF Decoded
<1>2. /\ LineHolds' /\ message' = message /\ fault' = fault /\ queue' = queue
      /\ message \in Messages
  BY LineKept, Zenon DEF PipelineInv, StagesSafe, LineHolds, LineTypes
<1>3. HdlcLine!TypeOK /\ ApduLine!TypeOK
  BY Zenon DEF PipelineInv, StagesSafe, FramesSafe, WrappersSafe
<1>4. HdlcLine!TypeOK'
  <2>1. "idle" \in {"idle", "decoding", "returning", "done"}
    OBVIOUS
  <2> QED
    BY <1>1, <1>3, <2>1, Zenon DEF HdlcLine!TypeOK
<1>5. decoded \in Seq(Octet)
  BY <1>3, HdlcOctets, Zenon DEF HdlcLine!TypeOK
<1>6. stage # "idle" /\ stage \in {"hdlc", "mbus", "apdu"}
  BY <1>1
<1>7. queue' = << >>
  BY <1>2, <1>6, Zenon DEF PipelineInv
<1>8. ASSUME fault = "none" PROVE decoded = FlattenSeq(message.pieces) /\ axdr' = << >>
  <2>1. HdlcHolds /\ MbusHolds /\ axdr = << >>
    BY <1>6, <1>8, Zenon DEF PipelineInv, OnTheWay
  <2>2. stage = "hdlc" \/ stage = "mbus"
    BY <1>1
  <2>3. axdr' = axdr
    BY <1>1, Zenon DEF outcome
  <2> QED
    BY <1>1, <2>1, <2>2, <2>3, Zenon DEF HdlcHolds, MbusHolds
<1>9. CASE decoded # << >> /\ stage' = "apdu" /\ Apdu!Call(decoded, decryption_key, auth_key)
  <2>1. ApduLine!Inv' /\ ApduLine!TypeOK'
    BY <1>3, <1>5, <1>9, ApduCalled, Zenon
  <2>2. StagesSafe'
    BY <1>2, <1>4, <1>9, <2>1, SafeInside, Zenon
  <2>3. ASSUME fault = "none" PROVE ApduHolds'
    <3>1. ApduLine!LayerInv' /\ ApduLine!LinkHolds' /\ ApduLine!ReceiverHolds'
      BY <1>2, <1>3, <1>8, <1>9, <2>3, ApduWhole, Zenon
    <3> QED
      BY <3>1, Zenon DEF ApduHolds
  <2>4. stage' # "hdlc" /\ stage' # "mbus" /\ stage' \in {"hdlc", "mbus", "apdu"}
    BY <1>9
  <2>5. OnTheWay'
    BY <1>2, <1>8, <2>3, <2>4, Zenon DEF OnTheWay, HdlcHolds, MbusHolds
  <2>6. HandsOverWhatWasSent'
    BY <2>4, NothingHandedOver, Zenon
  <2> QED
    BY <1>7, <2>2, <2>5, <2>6, Zenon DEF PipelineInv
<1>10. CASE decoded = << >> /\ stage' = "done" /\ UNCHANGED handler
  <2>1. ApduLine!TypeOK'
    BY <1>3, <1>10, WrappersKept, Zenon
  <2>2. stage' \in {"axdr", "done"} /\ stage' \in {"idle", "axdr", "done"}
    BY <1>10
  <2>3. StagesSafe' /\ OnTheWay'
    BY <1>2, <1>4, <2>1, <2>2, SafeOutside, Past, Zenon
  <2>4. fault # "none"
    BY <1>2, <1>8, <1>10, Wrapped, Zenon DEF IsWrapped
  <2>5. HandsOverWhatWasSent'
    BY <1>2, <2>4, Zenon DEF HandsOverWhatWasSent
  <2> QED
    BY <1>7, <2>3, <2>5, Zenon DEF PipelineInv
<1> QED
  BY <1>9, <1>10, Zenon DEF Decoded

(* The handler does a turn.                                                *)
LEMMA UnwrapInv ==
  ASSUME PlainKeepsLength, PipelineInv, UNCHANGED link, Unwrap
  PROVE  PipelineInv'
<1>1. /\ stage = "apdu" /\ stage' = "apdu" /\ axdr' = axdr /\ UNCHANGED framing
      /\ Apdu!Unwrap
  BY Zenon DEF Unwrap, outcome
<1>2. /\ LineHolds' /\ message' = message /\ fault' = fault /\ queue' = queue
      /\ message \in Messages
  BY LineKept, Zenon DEF PipelineInv, StagesSafe, LineHolds, LineTypes
<1>3. ApduLine!Inv /\ HdlcLine!TypeOK
  BY <1>1, Zenon DEF PipelineInv, StagesSafe, FramesSafe, WrappersSafe
<1>4. ApduLine!Inv' /\ ApduLine!TypeOK' /\ HdlcLine!TypeOK'
  BY <1>1, <1>3, ApduTurned, FramesKept, Zenon
<1>5. StagesSafe'
  BY <1>1, <1>2, <1>4, SafeInside, Zenon
<1>6. stage # "idle" /\ stage' # "idle" /\ stage' # "hdlc" /\ stage' # "mbus"
      /\ stage \in {"hdlc", "mbus", "apdu"} /\ stage' \in {"hdlc", "mbus", "apdu"}
  BY <1>1
<1>7. queue' = << >>
  BY <1>2, <1>6, Zenon DEF PipelineInv
<1>8. ASSUME fault = "none" PROVE ApduHolds' /\ axdr' = << >>
  <2>1. ApduHolds /\ axdr = << >>
    BY <1>6, <1>8, Zenon DEF PipelineInv, OnTheWay
  <2>2. ApduLine!LayerInv /\ ApduLine!LinkHolds /\ ApduLine!ReceiverHolds
    BY <1>1, <2>1, Zenon DEF ApduHolds
  <2>3. ApduLine!LayerInv' /\ ApduLine!LinkHolds' /\ ApduLine!ReceiverHolds'
    BY <1>1, <1>2, <2>2, ApduTurn, Zenon
  <2> QED
    BY <1>1, <2>1, <2>3, Zenon DEF ApduHolds
<1>9. OnTheWay'
  BY <1>2, <1>6, <1>8, Zenon DEF OnTheWay, HdlcHolds, MbusHolds
<1>10. HandsOverWhatWasSent'
  BY <1>6, NothingHandedOver, Zenon
<1> QED
  BY <1>5, <1>7, <1>9, <1>10, Zenon DEF PipelineInv

(* What the handler returns is what is handed over.                        *)
LEMMA GivenIsSent ==
  ASSUME ApduLine!ReceiverHolds, apdu_status = "done", ~ library_failed
  PROVE  /\ Opens => unwrapped = message.data
         /\ decryption_key = NoKey /\ NoKey \notin message.keys => unwrapped = << >>
<1>1. ApduLine!Suited => ApduLine!Given
  BY Zenon DEF ApduLine!ReceiverHolds
<1>2. Opens => ApduLine!Opens
  BY Zenon DEF Opens, ApduLine!Opens
<1>3. decryption_key = NoKey /\ NoKey \notin message.keys => ApduLine!Keyless
  BY Zenon DEF ApduLine!Keyless
<1> QED
  BY <1>1, <1>2, <1>3, Zenon DEF ApduLine!Suited, ApduLine!Given

LEMMA UnwrappedInv ==
  ASSUME PipelineInv, UNCHANGED link, Unwrapped
  PROVE  PipelineInv'
<1>1. /\ stage = "apdu" /\ apdu_status = "done" /\ apdu_status' = "idle"
      /\ UNCHANGED framing
      /\ decryption_key' = decryption_key /\ auth_key' = auth_key /\ layer' = layer
      /\ apdu_buf' = apdu_buf /\ iter' = iter /\ read_pos' = read_pos
      /\ write_pos' = write_pos /\ is_last' = is_last
      /\ library_failed' = library_failed /\ unwrapped' = unwrapped
  BY Zenon DEF Unwrapped
<1>2. /\ LineHolds' /\ message' = message /\ fault' = fault /\ queue' = queue
      /\ message \in Messages
  BY LineKept, Zenon DEF PipelineInv, StagesSafe, LineHolds, LineTypes
<1>3. ApduLine!TypeOK /\ HdlcLine!TypeOK
  BY Zenon DEF PipelineInv, StagesSafe, FramesSafe, WrappersSafe
<1>4. ApduLine!TypeOK'
  <2>1. "idle" \in {"idle", "unwrapping", "blocks", "done"} /\ "idle" # "blocks"
    OBVIOUS
  <2> QED
    BY <1>1, <1>3, <2>1, Zenon DEF ApduLine!TypeOK
<1>5. stage' = "axdr" \/ stage' = "done"
  BY Zenon DEF Unwrapped
<1>6. stage' \in {"axdr", "done"} /\ stage' \in {"idle", "axdr", "done"}
  BY <1>5
<1>7. HdlcLine!TypeOK'
  BY <1>1, <1>3, FramesKept, Zenon
<1>8. StagesSafe' /\ OnTheWay'
  BY <1>2, <1>4, <1>6, <1>7, SafeOutside, Past, Zenon
<1>9. stage # "idle" /\ stage \in {"hdlc", "mbus", "apdu"}
  BY <1>1
<1>10. queue' = << >>
  BY <1>2, <1>9, Zenon DEF PipelineInv
<1>11. ASSUME fault = "none", ~ library_failed
       PROVE  /\ Opens => axdr' = message.data
              /\ decryption_key = NoKey /\ NoKey \notin message.keys => axdr' = << >>
  <2>1. ApduHolds /\ axdr = << >>
    BY <1>9, <1>11, Zenon DEF PipelineInv, OnTheWay
  <2>2. ApduLine!ReceiverHolds
    BY <1>1, <2>1, Zenon DEF ApduHolds
  <2>3. axdr' = unwrapped
    BY <2>1, Zenon DEF Unwrapped
  <2> QED
    BY <1>1, <1>11, <2>2, <2>3, GivenIsSent, Zenon
<1>12. HandsOverWhatWasSent'
  BY <1>1, <1>2, <1>11, Zenon DEF HandsOverWhatWasSent, Opens
<1> QED
  BY <1>8, <1>10, <1>12, Zenon DEF PipelineInv

(* The A-XDR parser leaves alone what it was handed.                       *)
LEMMA ParsingInv ==
  ASSUME PipelineInv, UNCHANGED link, stage \in {"axdr", "done"}, stage' \in {"axdr", "done"},
         axdr' = axdr, UNCHANGED framing, UNCHANGED handler
  PROVE  PipelineInv'
<1>1. /\ LineHolds' /\ message' = message /\ fault' = fault /\ queue' = queue
  BY LineKept, Zenon DEF PipelineInv, StagesSafe
<1>2. HdlcLine!TypeOK /\ ApduLine!TypeOK
  BY Zenon DEF PipelineInv, StagesSafe, FramesSafe, WrappersSafe
<1>3. stage' \in {"idle", "axdr", "done"} /\ stage # "idle"
  OBVIOUS
<1>4. StagesSafe' /\ OnTheWay'
  BY <1>1, <1>2, <1>3, FramesKept, WrappersKept, SafeOutside, Past, Zenon
<1>5. queue' = << >>
  BY <1>1, <1>3, Zenon DEF PipelineInv
<1>6. decryption_key' = decryption_key /\ auth_key' = auth_key
      /\ library_failed' = library_failed
  BY Zenon DEF handler
<1>7. HandsOverWhatWasSent
  BY Zenon DEF PipelineInv
<1>8. HandsOverWhatWasSent'
  BY <1>1, <1>6, <1>7, Zenon DEF HandsOverWhatWasSent, Opens
<1> QED
  BY <1>4, <1>5, <1>8, Zenon DEF PipelineInv

LEMMA WorkInv ==
  ASSUME PlainKeepsLength, PipelineInv, WorkOn
  PROVE  PipelineInv'
<1>1. Work /\ UNCHANGED link
  BY Zenon DEF WorkOn
<1>2. ASSUME DecodeFrames PROVE PipelineInv'
  BY <1>1, <1>2, HdlcTurnInv, MbusTurnInv, Zenon DEF DecodeFrames
<1>3. "axdr" \in {"axdr", "done"} /\ "done" \in {"axdr", "done"}
  OBVIOUS
<1>4. ASSUME Parse PROVE PipelineInv'
  <2>1. stage = "axdr" /\ stage' = stage /\ axdr' = axdr
        /\ UNCHANGED framing /\ UNCHANGED handler
    BY <1>4, Zenon DEF Parse, outcome
  <2> QED
    BY <1>1, <1>3, <2>1, ParsingInv, Zenon
<1>5. ASSUME Continue PROVE PipelineInv'
  <2>1. stage = "axdr" /\ (stage' = stage \/ stage' = "done") /\ axdr' = axdr
        /\ UNCHANGED framing /\ UNCHANGED handler
    BY <1>5, Zenon DEF Continue, Stopped
  <2> QED
    BY <1>1, <1>3, <2>1, ParsingInv, Zenon
<1>6. ASSUME GiveUp PROVE PipelineInv'
  <2>1. stage = "axdr" /\ stage' = "done" /\ axdr' = axdr
        /\ UNCHANGED framing /\ UNCHANGED handler
    BY <1>6, Zenon DEF GiveUp, Stopped
  <2> QED
    BY <1>1, <1>3, <2>1, ParsingInv, Zenon
<1> QED
  BY <1>1, <1>2, <1>4, <1>5, <1>6, DecodedInv, UnwrapInv, UnwrappedInv, Zenon DEF Work

(* Nothing changes when nothing happens.                                   *)
LEMMA StutterInv ==
  ASSUME PipelineInv, UNCHANGED vars
  PROVE  PipelineInv'
<1>1. UNCHANGED link /\ UNCHANGED parser
  BY Zenon DEF vars
<1>2. stage' = stage /\ UNCHANGED outcome /\ UNCHANGED framing /\ UNCHANGED handler
  BY <1>1, Zenon DEF parser
<1>3. axdr' = axdr /\ library_failed' = library_failed
      /\ decryption_key' = decryption_key /\ auth_key' = auth_key
  BY <1>2, Zenon DEF outcome, handler
<1>4. frame_status' = frame_status /\ decoded' = decoded
  BY <1>2, Zenon DEF framing
<1>5. /\ LineHolds' /\ message' = message /\ queue' = queue /\ fault' = fault
  BY <1>1, LineKept, Zenon DEF PipelineInv, StagesSafe
<1>6. FramesSafe'
  BY <1>2, <1>5, FramesKept, HdlcStands, MbusStands, Zenon DEF PipelineInv,
     StagesSafe, FramesSafe
<1>7. WrappersSafe'
  BY <1>2, <1>5, WrappersKept, HandlerStands, Zenon DEF PipelineInv, StagesSafe,
     WrappersSafe
<1>8. ASSUME HdlcHolds, MbusHolds, ApduHolds PROVE HdlcHolds' /\ MbusHolds' /\ ApduHolds'
  <2>1. HdlcHolds' /\ MbusHolds'
    BY <1>2, <1>4, <1>5, <1>8, HdlcStands, MbusStands, Zenon DEF HdlcHolds, MbusHolds
  <2>2. ApduHolds'
    BY <1>2, <1>5, <1>8, HandlerStands, Zenon
  <2> QED
    BY <2>1, <2>2
<1>9. OnTheWay'
  BY <1>2, <1>3, <1>5, <1>8, Zenon DEF PipelineInv, OnTheWay
<1>10. HandsOverWhatWasSent'
  BY <1>2, <1>3, <1>5, Zenon DEF PipelineInv, HandsOverWhatWasSent, Opens
<1> QED
  BY <1>2, <1>5, <1>6, <1>7, <1>9, <1>10, Zenon DEF PipelineInv, StagesSafe

(* At first nothing has happened.                                          *)
LEMMA InitInv == PushInit => PipelineInv
<1> SUFFICES ASSUME PushInit PROVE PipelineInv
  OBVIOUS
<1>1. /\ stage = "idle" /\ Hdlc!Init /\ Apdu!Init
      /\ message \in Messages /\ queue = Frames(message) /\ air = << >> /\ chatter = 0
  BY Zenon DEF PushInit, Init, Link!Init
<1>2. LineHolds
  <2>1. Frames(message) \in Seq(Seq(Octet))
        /\ << >> \o FlattenSeq(Frames(message)) = FlattenSeq(Frames(message))
    BY <1>1, SentWhole, PushStarts, Zenon
  <2>2. << >> \in Seq(Octet)
    OBVIOUS
  <2> QED
    BY <1>1, <2>1, <2>2, Zenon DEF LineHolds, LineTypes, Undisturbed
<1>3. HdlcLine!TypeOK
  <2>1. << >> \in Seq(HdlcLine!Byte) /\ Len(<< >>) = 0 /\ 0 \in 0 .. 0
    OBVIOUS
  <2>2. FALSE \in BOOLEAN /\ TRUE \in BOOLEAN
        /\ "idle" \in {"idle", "decoding", "returning", "done"}
    OBVIOUS
  <2> QED
    BY <1>1, <2>1, <2>2, Zenon DEF Hdlc!Init, HdlcLine!TypeOK
<1>4. ApduLine!TypeOK
  <2>1. << >> \in Seq(ApduLine!Byte) /\ Len(<< >>) = 0 /\ 0 <= 0 /\ 0 \in Nat
    OBVIOUS
  <2>2. FALSE \in BOOLEAN /\ "idle" # "blocks"
        /\ "idle" \in {"idle", "unwrapping", "blocks", "done"}
    OBVIOUS
  <2>3. 0 \in 0 .. MAX_ITERATIONS
    BY FacadeAssumption
  <2>4. NoKey \in Keys \cup {NoKey}
    OBVIOUS
  <2> QED
    BY <1>1, <2>1, <2>2, <2>3, <2>4, Zenon DEF Apdu!Init, ApduLine!TypeOK
<1>5. stage # "hdlc" /\ stage # "mbus" /\ stage # "apdu"
      /\ stage \notin {"hdlc", "mbus", "apdu"} /\ stage \notin {"axdr", "done"}
  BY <1>1
<1>6. StagesSafe
  BY <1>2, <1>3, <1>4, <1>5, Zenon DEF StagesSafe, FramesSafe, WrappersSafe
<1>7. OnTheWay
  BY <1>5, Zenon DEF OnTheWay, HdlcHolds, MbusHolds, ApduHolds
<1>8. HandsOverWhatWasSent
  BY <1>5, Zenon DEF HandsOverWhatWasSent
<1> QED
  BY <1>1, <1>6, <1>7, <1>8, Zenon DEF PipelineInv

(* The parts together.                                                     *)
LEMMA NextInv ==
  ASSUME PlainKeepsLength, PipelineInv, [PushNext]_vars
  PROVE  PipelineInv'
BY ConfigureInv, PushInv, ReceiveInv, WorkInv, PushAgainInv, StutterInv, Zenon
   DEF PushNext

-----------------------------------------------------------------------------
(* Whatever the line makes of a push, the stages never leave their buffers *)
(* nor write over what they have still to read: neither what one telegram  *)
(* leaves behind, nor a change of mode or of keys between two telegrams,   *)
(* gets the next one into trouble.                                         *)
THEOREM FacadeStagesStaySafe ==
  ASSUME PlainKeepsLength
  PROVE  Spec => []StagesSafe
<1>1. PipelineInv /\ [PushNext]_vars => PipelineInv'
  BY NextInv
<1>2. PipelineInv => StagesSafe
  BY Zenon DEF PipelineInv
<1> QED
  BY InitInv, <1>1, <1>2, PTL DEF Spec

(* Whatever a meter says, however it wraps and frames it, and whatever     *)
(* became of the pushes before: the A-XDR parser is handed the data of a   *)
(* push that was not disturbed, byte for byte, or nothing if a key that is *)
(* needed is not set.                                                      *)
THEOREM FacadeHandsOverWhatWasSent ==
  ASSUME PlainKeepsLength
  PROVE  Spec => []HandsOverWhatWasSent
<1>1. PipelineInv /\ [PushNext]_vars => PipelineInv'
  BY NextInv
<1>2. PipelineInv => HandsOverWhatWasSent
  BY Zenon DEF PipelineInv
<1> QED
  BY InitInv, <1>1, <1>2, PTL DEF Spec

=============================================================================
