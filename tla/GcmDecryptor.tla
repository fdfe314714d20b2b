---------------------------- MODULE GcmDecryptor ----------------------------
(***************************************************************************)
(* What an Aes128GcmDecryptor promises to the APDU handler, whichever      *)
(* library does the work: it works with the key set last or not at all,    *)
(* and what it returns true for is what was sealed with that key, if there *)
(* is a tag to tell by.                                                    *)
(***************************************************************************)
CONSTANTS
  Keys, NoKey,
  Calls,              \* what it may be asked to decrypt
  Opened(_, _),       \* the bytes that a call leaves, under a key
  Genuine(_, _),      \* the tag of a call, if any, fits under a key
  Texts               \* what may be in the buffer

VARIABLES
  key,      \* the key it answers for
  call,     \* what it has been asked to decrypt last
  busy,
  text,     \* what is in the buffer
  answer    \* the last answer

vars == <<key, call, busy, text, answer>>

Init ==
  /\ key = NoKey /\ call \in Calls /\ busy = FALSE
  /\ text \in Texts /\ answer = FALSE

(* Setting a key may fail; then none is set.                               *)
SetKey ==
  /\ ~ busy
  /\ \E k \in Keys : key' \in {k, NoKey}
  /\ UNCHANGED <<call, busy, text, answer>>

Prepare ==
  /\ ~ busy
  /\ busy' \in BOOLEAN
  /\ call' \in Calls /\ text' \in Texts
  /\ UNCHANGED <<key, answer>>

Work ==
  /\ busy
  /\ text' \in Texts
  /\ UNCHANGED <<key, call, busy, answer>>

Answer ==
  /\ busy
  /\ busy' = FALSE
  /\ text' \in Texts
  /\ answer' \in BOOLEAN
  /\ answer' => key # NoKey /\ Genuine(call, key) /\ text' = Opened(call, key)
  /\ UNCHANGED <<key, call>>

Next == SetKey \/ Prepare \/ Work \/ Answer

Safety == Init /\ [][Next]_vars

Spec == Safety /\ WF_vars(Answer)

=============================================================================
