------------------------------- MODULE Spans -------------------------------
(***************************************************************************)
(* The byte buffers of the decoders: a buffer is a sequence of bytes, and  *)
(* offsets count from 0 as they do in the code.                            *)
(***************************************************************************)
EXTENDS Integers, Sequences

(* b[i] of the code.                                                       *)
At(b, i) == b[i + 1]

(* b.subspan(off) and b.subspan(off, n).                                   *)
From(b, off) == SubSeq(b, off + 1, Len(b))
Subspan(b, off, n) == SubSeq(b, off + 1, off + n)

(* b after std::ranges::copy of s to b.subspan(dst).  The code copies      *)
(* forward between overlapping parts of one buffer, which has this effect  *)
(* only when the bytes never move towards the end; the decoders' modules   *)
(* state that as an invariant.                                             *)
CopyTo(b, s, dst) ==
  [i \in 1 .. Len(b) |->
     IF i \in dst + 1 .. dst + Len(s) THEN s[i - dst] ELSE b[i]]

(* An M-Bus short frame (10 C A CS 16) at the start of data.               *)
is_mbus_short_frame(data) ==
  /\ Len(data) >= 5
  /\ At(data, 0) = 16
  /\ At(data, 4) = 22
  /\ (At(data, 1) + At(data, 2)) % 256 = At(data, 3)

=============================================================================
