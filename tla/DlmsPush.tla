------------------------------ MODULE DlmsPush ------------------------------
(***************************************************************************)
(* The whole way of a telegram: a meter lays out objects, wraps and frames *)
(* them, the line may disturb the push, and the facade parses what came.   *)
(* The next push finds the parser as the last one left it.                 *)
(***************************************************************************)
EXTENDS DlmsParser, SequencesExt

CONSTANTS
  Messages,      \* what a meter may push: data, wrappers and keys (ApduPush),
                 \* the pieces it is framed in and how, if a short frame comes
                 \* first; what is read and reported of it; its faults, and
                 \* whether the checksums may go unlooked at
  Series,        \* those of them that are pushed one after another
  MaxPushes      \* bound: how many of those

VARIABLES message, queue, air, chatter, fault, pushes

link == <<message, queue, air, chatter, fault>>
vars == <<parser, link, pushes>>

(* How meters wrap and frame.                                              *)
Framed(form) == {m \in Messages : m.framing = form}

ApduMeter == INSTANCE ApduPush WITH
  Foreign <- {}, buf <- apdu_buf, status <- apdu_status, result <- unwrapped

HdlcMeter == INSTANCE HdlcPush WITH
  Messages <- Framed("hdlc"), Foreign <- {}, MaxChatter <- 0,
  skip_crc_check <- skip_crc_check_,
  buf <- frame_buf, status <- frame_status, result <- decoded

MbusMeter == INSTANCE MbusPush WITH
  Messages <- {m.pieces : m \in Framed("mbus")},
  Trailing <- {}, Foreign <- {}, MaxChatter <- 0,
  skip_crc_check <- skip_crc_check_,
  buf <- frame_buf, status <- frame_status, result <- decoded

Frames(m) ==
  (IF m.led THEN <<HdlcMeter!ShortFrame>> ELSE << >>) \o
    CASE m.framing = "hdlc" -> HdlcMeter!HdlcFrames(m)
      [] m.framing = "mbus" -> MbusMeter!MbusFrames(m)
      [] m.framing = "none" -> m.pieces

(* What is framed is what was wrapped.  What is not framed does not begin  *)
(* like a frame.                                                           *)
HoldsApdu(m) ==
  /\ m.keys \subseteq Keys \cup {NoKey} /\ m.auth \in Keys \cup {NoKey}
  /\ ApduMeter!IsMessage(m)
  /\ m.pieces \in Seq(Seq(0 .. 255)) /\ m.pieces # << >>
  /\ FlattenSeq(m.pieces) = m.lead \o ApduMeter!Layer(m, 1)

CanBeFramed(m) ==
  \/ m.framing = "hdlc" /\ HdlcMeter!IsMessage(m)
  \/ m.framing = "mbus" /\ MbusMeter!IsMessage(m.pieces)
  \/ m.framing = "none" /\ Head(FlattenSeq(m.pieces)) \notin {16, 104, 126}

ASSUME TelegramAssumption ==
  /\ Series \subseteq Messages
  /\ \A m \in Messages : m.led \in BOOLEAN /\ HoldsApdu(m) /\ CanBeFramed(m)

Link == INSTANCE PushLink WITH
  Between <- {}, After <- {}, Foreign <- {}, MaxChatter <- 0

PushInit == Init /\ Link!Init /\ pushes = 1

(* The application sets the keys of its meter, or has set none.             *)
Configure ==
  /\ stage = "idle" /\ air = << >> /\ fault = "none"
  /\ \/ /\ decryption_key \notin message.keys
        /\ \E key \in message.keys : set_keys(key, message.auth)
     \/ /\ message.framing # "none" /\ message.unchecked /\ ~ skip_crc_check_
        /\ set_skip_crc_check(TRUE)
  /\ UNCHANGED <<link, pushes>>

Push ==
  /\ stage = "idle"
  /\ Link!Next
  /\ fault' \in message.faults
  /\ UNCHANGED <<parser, pushes>>

Receive ==
  /\ stage = "idle" /\ Link!Silent
  /\ parse(air)
  /\ UNCHANGED <<link, pushes>>

WorkOn == Work /\ UNCHANGED <<link, pushes>>

(* Another push, of the same kind or of another.                           *)
PushAgain ==
  /\ stage = "done" /\ pushes < MaxPushes /\ message \in Series
  /\ pushes' = pushes + 1
  /\ message' \in Series /\ queue' = Frames(message')
  /\ air' = << >> /\ chatter' = 0 /\ fault' = "none"
  /\ stage' = "idle"
  /\ UNCHANGED <<outcome, framing, handler, axdr_parser_>>

PushNext == Configure \/ Push \/ Receive \/ WorkOn \/ PushAgain

Spec == PushInit /\ [][PushNext]_vars /\ WF_vars(WorkOn)

-----------------------------------------------------------------------------
Opens == decryption_key \in message.keys /\ auth_key \in {NoKey, message.auth}

(* The A-XDR parser is handed the data that the meter wrapped and framed,  *)
(* byte for byte, whatever the nesting, the pieces and the checks, and     *)
(* whatever became of the push before; and nothing if a key is needed that *)
(* is not set.                                                             *)
HandsOverWhatWasSent ==
  stage \in {"axdr", "done"} /\ fault = "none" /\ ~ library_failed =>
    /\ Opens => axdr = message.data
    /\ decryption_key = NoKey /\ NoKey \notin message.keys => axdr = << >>

(* Every object is reported once, in order, with its value, scaler and     *)
(* unit, and no pattern of higher priority takes an object for something   *)
(* it is not.                                                              *)
ReportsEveryObject == told = message.reports /\ count = Len(told)

(* The result counts the bytes up to what is not a container, and every    *)
(* container was left after as many elements as it has.  (Of a pattern     *)
(* without tags only the value counts as an element, so that the           *)
(* containers of an untagged layout are left too late, and the parser      *)
(* stops inside them at the end of the buffer.)                            *)
ReadsTheWholeTelegram ==
  bytes_consumed = message.read /\ (message.tagged => stack = << >>)

(* From the meter's registers to the callback, however the telegram is     *)
(* laid out, wrapped and framed, and whatever became of the push before it.*)
ReportsWhatWasSent ==
  stage = "done" /\ fault = "none" /\ Opens /\ ~ library_failed =>
    ReportsEveryObject /\ ReadsTheWholeTelegram

(* A flipped bit in the byte by which a telegram's framing is told (or in a *)
(* short frame in front of it) makes it a raw one, whose checksums nobody  *)
(* looks at (dlms_parser.cpp:93): of that nothing is promised.             *)
StillChecked ==
  /\ ~ skip_crc_check_
  /\ \E start \in {104, 126} : IsPrefix(<<start>>, WithoutShortFrame(air))

(* An object that lost its end is reported without scaler and unit, or     *)
(* with what is read at the end of the buffer.  In the layout that has a   *)
(* scaler and no unit the scaler comes before the value, and is reported   *)
(* for it if the value is missing: the elements of a container that is cut *)
(* are parsed again as if they were at top level (dlms_parser.cpp:112).    *)
CutShort(report, object) ==
  /\ report.obis = object.obis
  /\ \/ report.value = object.value /\ report.class_id = object.class_id
     \/ /\ object.has_scaler_unit /\ object.unit_enum = 0
        /\ report = [object EXCEPT !.class_id = 0, !.value = <<object.scaler % 256>>,
                                   !.has_scaler_unit = FALSE, !.scaler = 0]

(* A line that falls silent, or flips a bit of a telegram that still goes  *)
(* to the decoder of its frames, which looks at their checksums, makes     *)
(* objects be missing at the end: those reported are the first that were   *)
(* sent, in order, each once, with its value, scaler and unit, and only    *)
(* the last of them may be cut short.  (But for the self-describing        *)
(* layout, whose descriptors are taken for objects if values are missing.) *)
ReportsABeginning ==
  /\ stage = "done" /\ ~ message.described
  /\ fault = "cut" \/ (fault = "corrupted" /\ StillChecked)
  =>
    \/ IsPrefix(told, message.reports)
    \/ /\ told # << >> /\ Len(told) <= Len(message.reports)
       /\ IsPrefix(Front(told), message.reports)
       /\ CutShort(Last(told), message.reports[Len(told)])

=============================================================================
