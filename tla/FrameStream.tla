---------------------------- MODULE FrameStream ----------------------------
(***************************************************************************)
(* What a frame decoder of this library promises, without its in-place     *)
(* buffer: it reads a telegram that never changes, appends the payload of  *)
(* each frame to an output of its own, passes over filler, and delivers    *)
(* either all of the output or nothing.                                    *)
(*                                                                         *)
(* The link layer is a parameter: each operator below is a question about  *)
(* the part of the telegram not yet read.                                  *)
(***************************************************************************)
EXTENDS Spans

CONSTANTS
  Telegrams,        \* the telegrams a decoder may be called with
  Stops(_),         \* nothing more is to be decoded
  Filler(_),        \* the rest starts with a short frame, to be passed over
  WellFormed(_, _), \* the rest starts with a frame; laxer without checksums
  Size(_),          \* the bytes of that frame
  Payload(_, _)     \* what it carries; the first frame has one header more

VARIABLES
  telegram,   \* the bytes received
  lenient,    \* checksums are not looked at
  at,         \* how much of the telegram has been read
  first,      \* no frame has been read yet
  out,        \* the payloads read so far
  status,     \* "idle", "decoding" or "done"
  result      \* what the decoder delivered

vars == <<telegram, lenient, at, first, out, status, result>>

Rest == From(telegram, at)

Init ==
  /\ telegram = << >> /\ lenient = FALSE
  /\ at = 0 /\ first = TRUE /\ out = << >>
  /\ status = "idle" /\ result = << >>

Start ==
  /\ status = "idle"
  /\ telegram' \in Telegrams
  /\ lenient' \in BOOLEAN
  /\ at' = 0 /\ first' = TRUE /\ out' = << >>
  /\ status' = "decoding"
  /\ UNCHANGED result

Pass ==
  /\ status = "decoding" /\ ~ Stops(Rest)
  /\ Filler(Rest)
  /\ at' = at + 5
  /\ UNCHANGED <<telegram, lenient, first, out, status, result>>

Take ==
  /\ status = "decoding" /\ ~ Stops(Rest)
  /\ ~ Filler(Rest)
  /\ WellFormed(Rest, lenient)
  /\ at' = at + Size(Rest)
  /\ out' = out \o Payload(Rest, first)
  /\ first' = FALSE
  /\ UNCHANGED <<telegram, lenient, status, result>>

Deliver(payload) ==
  /\ status' = "done"
  /\ result' = payload
  /\ UNCHANGED <<telegram, lenient, at, first, out>>

Reject ==
  /\ status = "decoding" /\ ~ Stops(Rest)
  /\ ~ Filler(Rest) /\ ~ WellFormed(Rest, lenient)
  /\ Deliver(<< >>)

Finish ==
  /\ status = "decoding" /\ Stops(Rest)
  /\ Deliver(out)

Next == Start \/ Pass \/ Take \/ Reject \/ Finish

Spec == Init /\ [][Next]_vars

=============================================================================
