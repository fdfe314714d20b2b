----------------------------- MODULE MCApduPush -----------------------------
EXTENDS ApduPush, GcmStandIn

MCKeys == {1, 2}

Datum == <<2, 1, 17, 219>>

(* The data in all of the wrappers, the keys that open them, and where     *)
(* the bytes are that tell of a seal.                                      *)
Sending(lead, wrappers, datetime, key, auth, seal) ==
  [lead |-> lead, wrappers |-> wrappers, datetime |-> datetime, data |-> Datum,
   keys |-> key, auth |-> auth, seal |-> seal]

Cut(pieces) == [form |-> "blocks", pieces |-> pieces]
Seal(tag, key, auth, data) == [form |-> "ciphered"] @@ SealedApdu(tag, key, auth, data)

Thirds(s) == <<SubSeq(s, 1, 16), SubSeq(s, 17, 20), SubSeq(s, 21, Len(s))>>
Halves(s) == <<SubSeq(s, 1, 3), SubSeq(s, 4, Len(s))>>

AnyKey == MCKeys \cup {0}

Plainly(lead, wrappers, datetime) == Sending(lead, wrappers, datetime, AnyKey, 0, {})

Short == DataNotification(<<0>>, Datum)
Long == DataNotification(<<12>> \o SomeTime, Datum)

MCMessages ==
  {Plainly(<< >>, << >>, d) : d \in DateTimes \cup {<< >>}}
  \cup {
    Plainly(<<230, 231, 0>>, << >>, <<12>> \o SomeTime),
    \* blocks around a notification and around raw data
    Plainly(<< >>, <<Cut(Thirds(Long))>>, <<12>> \o SomeTime),
    Plainly(<< >>, <<Cut(Halves(Datum))>>, << >>),
    \* ciphered, with and without a tag, alone and in blocks
    Sending(<< >>, <<Seal(219, 1, 0, Short)>>, <<0>>, {1}, 0, {}),
    Sending(<< >>, <<Seal(223, 2, 1, Datum)>>, << >>, {2}, 1, {1, 12}),
    \* as many wrappers as there are rounds
    LET inside == Transfer(Halves(Short))
    IN  Sending(<< >>, <<Cut(Thirds(Ciphered(219, 1, 2, inside))), Seal(219, 1, 2, inside),
                         Cut(Halves(Short))>>, <<0>>, {1}, 2, {1, 8, 19}) }

(* What is no push of this meter: wrappers of every kind in one another,   *)
(* cut short, led by other bytes or malformed.                             *)

(* A transfer of the data in as many blocks as it has bytes, and in two.   *)
ByteBlocks(data) == Transfer([i \in DOMAIN data |-> <<data[i]>>])
TwoBlocks(data) == Transfer(<<SubSeq(data, 1, 3), From(data, 3)>>)

Wrapped(data) ==
  {DataNotification(<<0>>, data), TwoBlocks(data),
   Ciphered(219, 1, 0, data), Ciphered(223, 1, 2, data)}

Once == Wrapped(Datum) \cup {DataNotification(d, Datum) : d \in DateTimes}
          \cup {ByteBlocks(Datum)}
Twice == UNION {Wrapped(data) : data \in Once}
Thrice == UNION {Wrapped(data) : data \in {TwoBlocks(DataNotification(<<0>>, Datum)),
                                           Ciphered(219, 1, 2, DataNotification(<<0>>, Datum))}}

(* As many wrappers as are opened, and one more.                           *)
FourTimes == {TwoBlocks(Ciphered(219, 1, 2, TwoBlocks(Ciphered(219, 1, 0, Datum)))),
              TwoBlocks(TwoBlocks(TwoBlocks(DataNotification(<<0>>, Datum)))),
              TwoBlocks(TwoBlocks(TwoBlocks(TwoBlocks(Datum)))),
              TwoBlocks(TwoBlocks(TwoBlocks(TwoBlocks(TwoBlocks(Datum)))))}

(* Cut short anywhere, and with other bytes in front.                      *)
Beginnings ==
  UNION {{SubSeq(a, 1, n) : n \in 0 .. Len(a)} :
           a \in Wrapped(Datum) \cup {Long, TwoBlocks(Ciphered(223, 1, 2, Datum))}}
LedBy == {<<230, 231, 0>> \o a : a \in Once}

(* Blocks of no data, without a last one, with bytes behind, with lengths  *)
(* of every form; a length, a system title or a control byte that is wrong.*)
Lengths == {<<129, 4>>, <<130, 0, 4>>, <<131, 0, 0, 4>>, <<132, 0, 0, 0, 4>>,
            <<132, 255, 0, 0, 4>>, <<128>>, <<133, 0, 0, 0, 0, 4>>, <<255>>, <<5>>, <<3>>}
Odd ==
  {Block(TRUE, 1, << >>), Block(FALSE, 1, << >>) \o Block(TRUE, 2, Datum),
   Block(FALSE, 1, Datum), Block(FALSE, 1, Datum) \o <<0>>,
   Block(TRUE, 1, Datum) \o Block(TRUE, 1, Datum),
   Block(FALSE, 1, <<224, 224>>) \o Block(TRUE, 2, Datum)}
  \cup {<<224, 192, 0, 1, 0, 0>> \o n \o Datum : n \in Lengths}
  \cup {[Ciphered(219, 1, 2, Datum) EXCEPT ![i] = @ + d] : i \in {2, 11, 12, 15, 20, 25},
                                                          d \in {-5, -4, 4, 5}}
  \cup {<<219, 8>> \o SystemTitle \o n \o <<32, 0, 0, 0, 0>> \o Datum : n \in Lengths}
  \cup {<<15, 0, 0, 3, 232, 9, 4>> \o Datum, <<15, 0, 0, 3, 232, 4>> \o Datum,
        <<15, 0, 0, 3, 232, 3>> \o Datum}

MCForeign == {Datum} \cup Once \cup Twice \cup Thrice \cup FourTimes \cup Beginnings
             \cup LedBy \cup Odd

=============================================================================
