---------------------------- MODULE ApduWrappers ----------------------------
(***************************************************************************)
(* How meters wrap the data they push: outside the library, taken from the *)
(* formats apdu_handler.cpp names and the telegrams in tests/dumps.        *)
(***************************************************************************)
EXTENDS Integers, Sequences, SequencesExt

(* A notification: a tag, an invoke id, and a date-time in one of the      *)
(* forms it may have, which are: absent, an octet string, or some bytes    *)
(* behind a bare length (that is not the tag of an octet string).          *)
DataNotification(datetime, data) == <<15, 0, 0, 3, 232>> \o datetime \o data

IsDateTime(t) ==
  /\ t # << >>
  /\ IF t[1] = 9 THEN Len(t) >= 2 /\ Len(t) = 2 + t[2] ELSE Len(t) = 1 + t[1]

(* A length in as few bytes as it takes, two at most behind their number.  *)
HasBer(n) == n < 65536

Ber(n) ==
  IF n < 128 THEN <<n>>
  ELSE IF n < 256 THEN <<129, n>> ELSE <<130, n \div 256, n % 256>>

(* One block of a transfer, and all of them: they are numbered from one.   *)
Block(last, number, data) ==
  <<224, IF last THEN 192 ELSE 64, (number \div 256) % 256, number % 256, 0, 0>>
    \o Ber(Len(data)) \o data

Blocks(pieces) ==
  [i \in DOMAIN pieces |-> Block(i = Len(pieces), i, pieces[i])]

Transfer(pieces) == FlattenSeq(Blocks(pieces))

(* A ciphered APDU: tag and system title, length, security control byte    *)
(* and frame counter, the sealed bytes, and a GCM tag, perhaps of no bytes.*)
CipheredApdu(c) ==
  <<c.tag, 8>> \o c.title \o Ber(5 + Len(c.sealed) + Len(c.gcm_tag))
    \o <<c.control>> \o c.counter \o c.sealed \o c.gcm_tag

=============================================================================
