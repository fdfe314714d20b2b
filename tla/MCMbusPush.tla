----------------------------- MODULE MCMbusPush -----------------------------
EXTENDS MbusPush

(* One frame; two frames, the second with data that looks like a frame     *)
(* start and end; and a frame without data between two others.             *)
MCMessages == {
  << <<15, 1>> >>,
  << <<2, 3>>, <<104, 5, 5, 104, 22>> >>,
  << <<1>>, << >>, <<7, 22>> >> }

MCTrailing == {<<0>>, <<104, 5>>, <<16, 64, 1, 65, 22>>}

(* What is no push of this meter: frames of 0, 1 and 3 data bytes, and     *)
(* each way a frame can be malformed, up to three in a row.                *)
Empty == <<104, 5, 5, 104, 83, 255, 0, 1, 103, 186, 22>>
One   == <<104, 6, 6, 104, 83, 255, 0, 1, 103, 9, 195, 22>>
Three == <<104, 8, 8, 104, 83, 255, 0, 1, 103, 104, 22, 1, 57, 22>>

Parts == {
  Empty, One, Three,
  [One EXCEPT ![4] = 105],                    \* second start byte
  [One EXCEPT ![2] = 7],                      \* lengths differ
  <<104, 4, 4, 104, 83, 255, 0, 1, 83, 22>>,  \* L too small
  SubSeq(Three, 1, 13),                       \* incomplete
  [One EXCEPT ![12] = 23],                    \* stop byte
  [One EXCEPT ![10] = 10],                    \* checksum
  <<104, 5, 5>>, <<16, 64, 1, 65, 22>>, <<0>> }

MCForeign ==
  {<< >>} \cup Parts \cup {p \o q : p, q \in Parts}
  \cup {p \o q \o r : p, q \in {Empty, One, Three}, r \in Parts}

=============================================================================
