------------------------------ MODULE PushLink ------------------------------
(***************************************************************************)
(* The meter and the serial line, as far as the frame decoders depend on   *)
(* them.  A meter pushes a message as a sequence of frames; other bytes    *)
(* may share the line; the line may disturb a push once (the bound): lose  *)
(* or repeat a frame, flip a bit, or fall silent before the end.           *)
(***************************************************************************)
EXTENDS Integers, Sequences, SequencesExt

CONSTANTS
  Messages,     \* what a meter may have to say, cut into pieces
  Frames(_),    \* the frames a message is sent in, one per piece
  Between,      \* what may be on the line before and between frames
  After,        \* what may be on the line after the last frame
  Foreign,      \* what may be on the line in place of a push
  MaxChatter    \* bound: how often that happens in one push

VARIABLES
  message,      \* what the meter is pushing
  queue,        \* the frames it has still to send
  air,          \* the bytes at the receiver
  chatter,      \* how many other byte strings have been on the line
  fault         \* what the line did to this push

Init ==
  /\ message \in Messages
  /\ queue = Frames(message)
  /\ air = << >>
  /\ chatter = 0
  /\ fault = "none"

Transmit ==
  /\ queue # << >>
  /\ air' = air \o Head(queue)
  /\ queue' = Tail(queue)
  /\ UNCHANGED <<message, chatter, fault>>

Chatter ==
  /\ chatter < MaxChatter /\ fault \notin {"cut", "foreign"}
  /\ \E noise \in (IF queue = << >> THEN After ELSE Between) :
       air' = air \o noise
  /\ chatter' = chatter + 1
  /\ UNCHANGED <<message, queue, fault>>

Lose ==
  /\ fault = "none" /\ queue # << >>
  /\ queue' = Tail(queue)
  /\ fault' = "lost"
  /\ UNCHANGED <<message, air, chatter>>

Repeat ==
  /\ fault = "none" /\ queue # << >>
  /\ air' = air \o Head(queue)
  /\ fault' = "repeated"
  /\ UNCHANGED <<message, queue, chatter>>

FlipBit(byte, bit) ==
  IF (byte \div bit) % 2 = 1 THEN byte - bit ELSE byte + bit

(* (A bound: the bit is flipped in a push that has the line for itself.)   *)
Corrupt ==
  /\ fault = "none" /\ queue = << >> /\ chatter = 0
  /\ \E k \in DOMAIN air, bit \in {1, 2, 4, 8, 16, 32, 64, 128} :
       air' = [air EXCEPT ![k] = FlipBit(@, bit)]
  /\ fault' = "corrupted"
  /\ UNCHANGED <<message, queue, chatter>>

Cut ==
  /\ fault = "none" /\ queue = << >>
  /\ \E n \in 0 .. Len(air) - 1 : air' = SubSeq(air, 1, n)
  /\ fault' = "cut"
  /\ UNCHANGED <<message, queue, chatter>>

(* What arrives is no push of this meter at all.                           *)
Interfere ==
  /\ fault = "none" /\ air = << >>
  /\ air' \in Foreign
  /\ message' = [pieces |-> << >>] /\ queue' = << >>
  /\ fault' = "foreign"
  /\ UNCHANGED chatter

Silent == queue = << >>

Next == Transmit \/ Chatter \/ Lose \/ Repeat \/ Corrupt \/ Cut \/ Interfere

(* All of a message, and its first n pieces.                               *)
Beginning(m, n) == FlattenSeq(SubSeq(m.pieces, 1, n))
Whole(m) == FlattenSeq(m.pieces)

=============================================================================
