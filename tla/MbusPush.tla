------------------------------ MODULE MbusPush ------------------------------
(***************************************************************************)
(* A meter that pushes its messages in M-Bus long frames, the line, and    *)
(* the M-Bus decoder on the bytes that arrived.                            *)
(***************************************************************************)
EXTENDS MbusDecoder, MbusFraming, SequencesExt

CONSTANTS
  Messages,     \* what a meter may have to say: sequences of pieces
  Trailing,     \* what may be on the line behind the last frame
  Foreign,      \* what arrives when it is no push
  MaxChatter

(* The length byte of a frame counts the five header bytes as well.  What  *)
(* is behind the last frame does not begin like a frame, nor do two such   *)
(* strings when there may be two.                                          *)
IsMessage(m) ==
  m \in Seq(Seq(Byte)) /\ \A i \in DOMAIN m : Len(m[i]) + 5 <= 255

ASSUME PushAssumption ==
  /\ MaxChatter \in Nat
  /\ Foreign \subseteq Seq(Byte)
  /\ \A m \in Messages : IsMessage(m)
  /\ Trailing \subseteq Seq(Byte)
  /\ \A t \in Trailing :
       /\ Stops(t)
       /\ MaxChatter <= 1 \/ t = << >> \/ Head(t) # MBUS_START

VARIABLES message, queue, air, chatter, fault

link == <<message, queue, air, chatter, fault>>

MbusFrames(m) == [i \in DOMAIN m.pieces |-> LongFrame(m.pieces[i])]

Link == INSTANCE PushLink WITH
  Messages <- [pieces : Messages],
  Frames <- MbusFrames, Between <- {}, After <- Trailing

PushInit == Link!Init /\ Init

Push ==
  /\ status = "idle"
  /\ Link!Next
  /\ UNCHANGED vars

Receive ==
  /\ Link!Silent
  /\ \E skip \in BOOLEAN : Call(air, skip)
  /\ UNCHANGED link

Turn ==
  /\ Decode
  /\ UNCHANGED link

PushNext == Push \/ Receive \/ Turn

pushVars == <<link, vars>>

(* The function runs on until it returns; nothing else need happen.        *)
PushSpec == PushInit /\ [][PushNext]_pushVars /\ WF_pushVars(Turn)

-----------------------------------------------------------------------------
(* An undisturbed push arrives as it was sent, with or without bytes       *)
(* behind the last frame, as long as those do not look like a frame.       *)
DeliversWhatWasSent ==
  status = "done" /\ fault = "none" => result = Link!Whole(message)

(* A disturbed push never brings in a byte that was not sent, nor one out  *)
(* of its place: one flipped bit, or a line that falls silent, leaves the  *)
(* beginning of the message, cut between two frames, or nothing.  (A bit   *)
(* of a later start byte or a cut just behind one turns the rest of the    *)
(* push into trailing garbage.)                                            *)
DeliversWholePieces ==
  /\ status = "done"
  /\ fault = "cut" \/ (fault = "corrupted" /\ ~ skip_crc_check)
  =>
    \E n \in 0 .. Len(message.pieces) : result = Link!Beginning(message, n)

(* A frame that the line loses or repeats is missing or doubled in what is *)
(* delivered, and that is all: the others keep their place and their bytes.*)
Disturbed(k) ==
  IF fault = "lost" THEN RemoveAt(message.pieces, k)
  ELSE InsertAt(message.pieces, k, message.pieces[k])

OnlyThatFrameIsDisturbed ==
  status = "done" /\ fault \in {"lost", "repeated"} =>
    \E k \in DOMAIN message.pieces : result = FlattenSeq(Disturbed(k))

(* "Any trailing bytes after the last valid frame are silently ignored"    *)
(* (mbus_decoder.h:22): what arrived whole is delivered, whatever follows. *)
TrailingBytesAreIgnored ==
  status = "done" /\ fault = "cut"
  /\ Len(air) >= Len(LongFrame(Head(message.pieces))) =>
    result # << >>

=============================================================================
