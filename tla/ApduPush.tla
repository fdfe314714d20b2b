------------------------------ MODULE ApduPush ------------------------------
(***************************************************************************)
(* A meter that wraps its data, the line, and the APDU handler on what     *)
(* arrived, with any keys set.  What is lost or repeated on the line is a  *)
(* block of the outermost transfer, if there is one.                       *)
(***************************************************************************)
EXTENDS ApduHandler, ApduWrappers

CONSTANTS
  Messages,     \* what a meter may have to say: data, its date-time (none if it
                \* is not notified), the wrappers around it from the outside in,
                \* bytes in front, and the keys that open it
  Foreign       \* what arrives when it is no push

(* What a meter sends: the wrappers and then what is in all of them.       *)
Apdu(w) == IF w.form = "blocks" THEN Transfer(w.pieces) ELSE CipheredApdu(w)

Innermost(m) ==
  IF m.datetime = << >> THEN m.data ELSE DataNotification(m.datetime, m.data)

Layer(m, i) == IF i \in DOMAIN m.wrappers THEN Apdu(m.wrappers[i]) ELSE Innermost(m)

(* A wrapper around the bytes within, that any of the keys opens: blocks   *)
(* of them, or a ciphered APDU in one of its two forms.                    *)
BlocksHold(w, within) ==
  /\ w.pieces \in Seq(Seq(Byte)) /\ w.pieces # << >>
  /\ \A i \in DOMAIN w.pieces : HasBer(Len(w.pieces[i]))
  /\ FlattenSeq(w.pieces) = within

CipherHolds(w, within, m) ==
  /\ w.tag \in Ciphering /\ w.control \in Byte
  /\ w.title \in Seq(Byte) /\ Len(w.title) = 8
  /\ w.counter \in Seq(Byte) /\ Len(w.counter) = 4
  /\ w.sealed \in Seq(Byte) /\ w.gcm_tag \in Seq(Byte)
  /\ Len(w.gcm_tag) = IF Bit(w.control, 16) THEN 12 ELSE 0
  /\ HasBer(5 + Len(w.sealed) + Len(w.gcm_tag))
  /\ \A key \in m.keys :
       /\ key # NoKey
       /\ Plain(key, w.title \o w.counter, w.sealed) = within
       /\ Bit(w.control, 16) =>
            Authentic(key, w.title \o w.counter, w.sealed, <<w.control, m.auth>>, w.gcm_tag)

(* The handler looks for the first known tag, and takes off one wrapper    *)
(* less than it makes turns.                                               *)
IsMessage(m) ==
  /\ m.data \in Seq(Byte) /\ m.data # << >>
  /\ m.datetime \in Seq(Byte)
  /\ IF m.datetime = << >> THEN Head(m.data) \in Containers
     ELSE IsDateTime(m.datetime)
  /\ m.lead \in Seq(Byte) /\ \A i \in DOMAIN m.lead : m.lead[i] \notin KnownTags
  /\ m.wrappers \in Seq(Range(m.wrappers)) /\ Len(m.wrappers) < MAX_ITERATIONS
  /\ \A i \in DOMAIN m.wrappers :
       \/ /\ m.wrappers[i].form = "blocks"
          /\ BlocksHold(m.wrappers[i], Layer(m, i + 1))
       \/ /\ m.wrappers[i].form = "ciphered"
          /\ CipherHolds(m.wrappers[i], Layer(m, i + 1), m)
  /\ NoKey \notin m.keys => \E i \in DOMAIN m.wrappers : m.wrappers[i].form = "ciphered"

ASSUME PushAssumption ==
  /\ Foreign \subseteq Seq(Byte)
  /\ \A m \in Messages : IsMessage(m)

VARIABLES message, queue, air, chatter, fault

link == <<message, queue, air, chatter, fault>>

(* It is sent in one piece, or block by block if it begins with a block.   *)
Frames(m) ==
  IF m.lead = << >> /\ m.wrappers # << >> /\ m.wrappers[1].form = "blocks"
  THEN Blocks(m.wrappers[1].pieces) ELSE <<m.lead \o Layer(m, 1)>>

Link == INSTANCE PushLink WITH
  Between <- {}, After <- {}, MaxChatter <- 0

PushInit == Link!Init /\ Init

Push ==
  /\ status = "idle"
  /\ Link!Next
  /\ UNCHANGED vars

Receive ==
  /\ Link!Silent
  /\ \E key, auth \in Keys \cup {NoKey} : Call(air, key, auth)
  /\ UNCHANGED link

Turn ==
  /\ Unwrap
  /\ UNCHANGED link

PushNext == Push \/ Receive \/ Turn

pushVars == <<link, vars>>

(* The function runs on until it returns; nothing else need happen.        *)
PushSpec == PushInit /\ [][PushNext]_pushVars /\ WF_pushVars(Turn)

-----------------------------------------------------------------------------
(* The keys that open the message are set: its own decryption key, and     *)
(* either its own authentication key or none.                              *)
Opens == decryption_key \in message.keys /\ auth_key \in {NoKey, message.auth}

(* A push that was not disturbed gives the data that was wrapped, whatever *)
(* the nesting up to the limit, the form of the date-time and the sizes of *)
(* the blocks; and without a key that is needed nothing is given.          *)
DeliversWhatWasSent ==
  status = "done" /\ fault = "none" /\ ~ library_failed =>
    /\ Opens => result = message.data
    /\ decryption_key = NoKey /\ NoKey \notin message.keys => result = << >>

(* Whether the bytes that make the handler verify a tag arrived: the first *)
(* frame, with the tag of the wrapper and its security control byte.       *)
Sent == FlattenSeq(Frames(message))

SealArrived ==
  CASE fault \in {"lost", "repeated"} -> IsPrefix(Head(Frames(message)), air)
    [] fault = "corrupted" -> \A k \in message.seal : air[k] = Sent[k]
    [] OTHER -> TRUE

(* With an authentication key set, a sealed message is given as it was     *)
(* sealed or not at all: whatever was lost, repeated, cut or flipped, and  *)
(* whichever wrong key is set.  (A seal that did not arrive is another     *)
(* matter: the handler takes what is not ciphered as it comes.)            *)
SealedOrNothing ==
  /\ status = "done" /\ fault # "foreign"
  /\ message.seal # {} /\ auth_key # NoKey /\ SealArrived
  =>
    result \in {<< >>, message.data}

=============================================================================
