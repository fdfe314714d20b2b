---------------------------- MODULE ApduLayers -----------------------------
(***************************************************************************)
(* What taking off the wrappers of an APDU promises: the wrappers are      *)
(* opened from the outside in, each in one step and from bytes that never  *)
(* change, up to a limit; and what comes out is the data in the innermost  *)
(* one, or nothing if any of them cannot be opened.                        *)
(***************************************************************************)
EXTENDS Integers, Sequences

CONSTANTS
  Apdus, Keys, NoKey,
  MAX_ITERATIONS,
  IsFinal(_),     \* nothing is left to open
  Data(_),        \* what there is then, perhaps nothing
  Inside(_, _),   \* the set of what a wrapper holds; empty if it is not to
                  \* be opened with a ring of keys
  Fallible(_)     \* opening may fail for reasons of its own

VARIABLES keyring, layer, depth, status, result

vars == <<keyring, layer, depth, status, result>>

Init ==
  /\ keyring = <<NoKey, NoKey>> /\ layer = << >> /\ depth = 0
  /\ status = "idle" /\ result = << >>

Call ==
  /\ status = "idle"
  /\ keyring' \in (Keys \cup {NoKey}) \X (Keys \cup {NoKey})
  /\ layer' \in Apdus
  /\ status' = "unwrapping"
  /\ UNCHANGED <<depth, result>>

Finish(bytes) ==
  /\ status' = "done"
  /\ result' = bytes
  /\ UNCHANGED <<keyring, layer, depth>>

Deliver ==
  /\ status = "unwrapping" /\ depth < MAX_ITERATIONS
  /\ IsFinal(layer)
  /\ Finish(Data(layer))

Open ==
  /\ status = "unwrapping" /\ depth < MAX_ITERATIONS
  /\ ~ IsFinal(layer)
  /\ layer' \in Inside(layer, keyring)
  /\ depth' = depth + 1
  /\ UNCHANGED <<keyring, status, result>>

Refuse ==
  /\ status = "unwrapping" /\ depth < MAX_ITERATIONS
  /\ ~ IsFinal(layer)
  /\ Inside(layer, keyring) = {} \/ Fallible(layer)
  /\ Finish(<< >>)

GiveUp ==
  /\ status = "unwrapping" /\ depth = MAX_ITERATIONS
  /\ Finish(<< >>)

Unwrap == Deliver \/ Open \/ Refuse \/ GiveUp

Next == Call \/ Unwrap

Spec == Init /\ [][Next]_vars

=============================================================================
