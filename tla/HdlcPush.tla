------------------------------ MODULE HdlcPush ------------------------------
(***************************************************************************)
(* A meter that pushes its messages in HDLC frames, the line, and the HDLC *)
(* decoder on the bytes that arrived.                                      *)
(***************************************************************************)
EXTENDS HdlcDecoder, HdlcFraming, SequencesExt

CONSTANTS
  Messages,     \* what a meter may have to say: a sequence of pieces, and the
                \* address fields of its frames, destination and source
  Foreign,      \* what arrives when it is no push
  MaxChatter

(* Addresses are one to four bytes each, of which the last has its low bit *)
(* set, and what the length field counts (with an LLC header, at most)     *)
(* fits its 11 bits.                                                       *)
GoodAddress(a) ==
  \E dst, src \in 1 .. 4 :
    /\ Len(a) = dst + src
    /\ LastAddressByte(a, dst) /\ LastAddressByte(From(a, dst), src)

Fits(address, piece) == Len(address) + 3 + Len(piece) + 7 < 2048

IsMessage(m) ==
  /\ m.address \in Seq(Byte) /\ GoodAddress(m.address)
  /\ m.pieces \in Seq(Seq(Byte)) /\ m.pieces # << >>
  /\ \A i \in DOMAIN m.pieces : Fits(m.address, m.pieces[i])

ASSUME PushAssumption ==
  /\ MaxChatter \in Nat
  /\ Foreign \subseteq Seq(Byte)
  /\ \A m \in Messages : IsMessage(m)

VARIABLES message, queue, air, chatter, fault

link == <<message, queue, air, chatter, fault>>

(* The first frame of a message carries the LLC header.                    *)
HdlcFrames(m) ==
  [i \in DOMAIN m.pieces |->
     HdlcFrame(m.address,
               IF i = 1 THEN <<230, 231, 0>> \o m.pieces[i] ELSE m.pieces[i],
               i < Len(m.pieces))]

Link == INSTANCE PushLink WITH
  Frames <- HdlcFrames, Between <- {ShortFrame}, After <- {ShortFrame}

PushInit ==
  /\ Link!Init
  /\ Init

Push ==
  /\ status = "idle"
  /\ Link!Next
  /\ UNCHANGED vars

Receive ==
  /\ Link!Silent
  /\ \E skip \in BOOLEAN : Call(air, skip)
  /\ UNCHANGED link

Turn ==
  /\ Decode
  /\ UNCHANGED link

PushNext == Push \/ Receive \/ Turn

pushVars == <<link, vars>>

(* The function runs on until it returns; nothing else need happen.        *)
PushSpec == PushInit /\ [][PushNext]_pushVars /\ WF_pushVars(Turn)

-----------------------------------------------------------------------------
(* An undisturbed push arrives as it was sent, whatever the pieces look    *)
(* like (a flag, a short frame or an LLC header inside the data), wherever *)
(* the short frames are, with or without checksums.                        *)
DeliversWhatWasSent ==
  status = "done" /\ fault = "none" => result = Link!Whole(message)

(* One flipped bit anywhere on the line never changes what is delivered:   *)
(* it is noticed, or it hit a byte that does not matter.                   *)
CorruptionIsNoticed ==
  status = "done" /\ fault = "corrupted" /\ ~ skip_crc_check =>
    result \in {<< >>, Link!Whole(message)}

(* A line that falls silent inside a frame delivers nothing; only whole    *)
(* frames are ever delivered, in their order.                              *)
CutDeliversWholePieces ==
  status = "done" /\ fault = "cut" =>
    result = << >> \/ \E n \in 1 .. Len(message.pieces) : result = Link!Beginning(message, n)

(* A frame that the line loses or repeats is missing or doubled in what is *)
(* delivered (frames carry no number), and that is all: the others keep    *)
(* their place and their bytes.  Only the frame that comes first is read   *)
(* for an LLC header, be it the meter's first or not; a first frame that   *)
(* comes twice leaves its header in the data.                              *)
Headed == [message.pieces EXCEPT ![1] = <<230, 231, 0>> \o @]

Disturbed(k) ==
  IF fault = "lost" THEN RemoveAt(Headed, k) ELSE InsertAt(Headed, k, Headed[k])

WithoutLlc(piece) ==
  IF \E llc \in {<<230, 230, 0>>, <<230, 231, 0>>} : IsPrefix(llc, piece)
  THEN SubSeq(piece, 4, Len(piece)) ELSE piece

OnlyThatFrameIsDisturbed ==
  status = "done" /\ fault \in {"lost", "repeated"} =>
    \E k \in DOMAIN message.pieces :
      \/ Disturbed(k) = << >> /\ result = << >>
      \/ /\ Disturbed(k) # << >>
         /\ result = WithoutLlc(Head(Disturbed(k))) \o FlattenSeq(Tail(Disturbed(k)))

(* Bit 3 of the frame type says "more frames follow" (line 64), so a       *)
(* telegram that was accepted is one whose last frame has it clear: what   *)
(* was delivered then ends where the meter's message ends.                 *)
DeliversOnlyToTheEnd ==
  status = "done" /\ fault \in {"none", "lost", "cut"} /\ result # << >> =>
    IsSuffix(message.pieces[Len(message.pieces)], result)

=============================================================================
