----------------------------- MODULE Decryptors -----------------------------
(***************************************************************************)
(* The three decryptors, over mbedTLS, BearSSL and the PSA API, as the     *)
(* APDU handler uses them: keys are set at any time between telegrams, and *)
(* any call of a library may fail.  Each call of the PSA API is an action. *)
(* Ciphers are symbolic: a message is known by the keys it was sealed with.*)
(***************************************************************************)
EXTENDS Integers, FiniteSets

CONSTANTS
  Backends,     \* those of {"mbedtls", "bearssl", "tfpsa"} to look at
  Keys, NoKey,
  SlotIds,      \* bound: the key slots of the PSA library
  NULL_ID       \* PSA_KEY_ID_NULL

ASSUME DecryptorsAssumption ==
  /\ Backends \subseteq {"mbedtls", "bearssl", "tfpsa"}
  /\ NoKey \notin Keys /\ NULL_ID \notin SlotIds

VARIABLES
  backend,
  decryption_key,   \* decryption_key_
  auth_key,         \* auth_key_
  context,          \* the key in the library's gcm context
  psa_initialized,
  key_id,           \* key_id_
  slots,            \* the keys in the PSA library
  op,               \* the PSA operation in progress
  message,          \* what is to be decrypted
  text,             \* what is in the buffer
  failed,           \* ghost: a library call failed in this telegram
  pc,               \* where decrypt_in_place is
  returned          \* what it returned last

settings == <<backend, decryption_key, auth_key, context, psa_initialized,
              key_id, slots>>
decryptorVars == <<settings, op, message, text, failed, pc, returned>>

(* A message: the key it was sealed with, the authentication key of its    *)
(* tag (NoKey if it has none), and whether it came as it was sealed.       *)
Messages == [key : Keys, auth : Keys \cup {NoKey}, intact : BOOLEAN]

Slots == [SlotIds -> Keys \cup {NoKey}]

NoOperation == [key |-> NoKey, tag_len |-> 0, ad |-> NoKey]
Operations == [key : Keys \cup {NoKey}, tag_len : {12, 16}, ad : Keys \cup {NoKey}]

-----------------------------------------------------------------------------
(* What the handler asks for: with a tag only if the message has one and   *)
(* there is a key to verify it with.                                       *)
WithTag(m, auth) == m.auth # NoKey /\ auth # NoKey

DecipheredUnder(m, key) == IF m.key = key /\ m.intact THEN "plain" ELSE "garbage"

(* A tag fits if nothing was changed and key and other data are right.     *)
Fits(m, key, other) == m.intact /\ m.key = key /\ m.auth = other

-----------------------------------------------------------------------------
DecryptorInit ==
  /\ backend \in Backends
  /\ decryption_key = NoKey /\ auth_key = NoKey /\ context = NoKey
  /\ psa_initialized \in BOOLEAN      \* whether psa_crypto_init succeeded
  /\ key_id = NULL_ID /\ slots = [i \in SlotIds |-> NoKey]
  /\ op = NoOperation
  /\ message \in Messages /\ text = "sealed" /\ failed = FALSE
  /\ pc = "idle" /\ returned = FALSE

set_authentication_key(key) ==
  /\ pc = "idle"
  /\ auth_key' = key
  /\ UNCHANGED <<backend, decryption_key, context, psa_initialized, key_id, slots,
                 op, message, text, failed, pc, returned>>

(* mbedTLS: a context that could not take the key is left in some state.   *)
SetKeyMbedTls(key) ==
  /\ backend = "mbedtls" /\ pc = "idle"
  /\ \/ context' = key /\ decryption_key' = key
     \/ context' \in {context, key, NoKey} /\ decryption_key' = NoKey
  /\ UNCHANGED <<backend, auth_key, psa_initialized, key_id, slots,
                 op, message, text, failed, pc, returned>>

SetKeyBearSsl(key) ==
  /\ backend = "bearssl" /\ pc = "idle"
  /\ context' = key /\ decryption_key' = key
  /\ UNCHANGED <<backend, auth_key, psa_initialized, key_id, slots,
                 op, message, text, failed, pc, returned>>

(* The slots after destroy_key.                                            *)
destroy_key ==
  IF key_id = NULL_ID THEN slots ELSE [slots EXCEPT ![key_id] = NoKey]

SetKeyPsa(key) ==
  /\ backend = "tfpsa" /\ pc = "idle"
  /\ psa_initialized
  /\ \/ \E id \in {i \in SlotIds : destroy_key[i] = NoKey} :
          /\ slots' = [destroy_key EXCEPT ![id] = key]
          /\ key_id' = id
          /\ decryption_key' = key
     \/ /\ slots' = destroy_key
        /\ key_id' = NULL_ID
        /\ decryption_key' = NoKey
  /\ UNCHANGED <<backend, auth_key, context, psa_initialized,
                 op, message, text, failed, pc, returned>>

SetKeyPsaUninitialized ==
  /\ backend = "tfpsa" /\ pc = "idle"
  /\ ~ psa_initialized
  /\ decryption_key' = NoKey
  /\ UNCHANGED <<backend, auth_key, context, psa_initialized, key_id, slots,
                 op, message, text, failed, pc, returned>>

set_decryption_key(key) ==
  \/ SetKeyMbedTls(key) \/ SetKeyBearSsl(key)
  \/ SetKeyPsa(key) \/ SetKeyPsaUninitialized

(* The destructor.                                                         *)
DestroyPsa ==
  /\ backend = "tfpsa" /\ pc = "idle"
  /\ slots' = destroy_key /\ key_id' = NULL_ID
  /\ pc' = "gone"
  /\ UNCHANGED <<backend, decryption_key, auth_key, context, psa_initialized,
                 op, message, text, failed, returned>>

decrypt_in_place(m) ==
  /\ pc = "idle"
  /\ message' = m /\ text' = "sealed" /\ failed' = FALSE
  /\ pc' = "called"
  /\ UNCHANGED <<settings, op, returned>>

Return(value) ==
  /\ pc' = "idle"
  /\ returned' = value
  /\ UNCHANGED <<settings, message>>

(* A seeded mistake: a key that was not taken is forgotten only in part.   *)
UnreadyIfNeverSet == context = NoKey /\ key_id = NULL_ID

(* Without a key that was set and taken, nothing is tried.                 *)
Unready ==
  \/ decryption_key = NoKey
  \/ backend = "tfpsa" /\ (~ psa_initialized \/ key_id = NULL_ID)

Refuse ==
  /\ pc = "called" /\ Unready
  /\ Return(FALSE)
  /\ UNCHANGED <<op, text, failed>>

-----------------------------------------------------------------------------
(* mbedTLS: one call verifies and decrypts, and leaves no plain bytes if   *)
(* the tag is wrong; or one call decrypts and its tag is not looked at.    *)
DecryptMbedTls ==
  /\ backend = "mbedtls" /\ pc = "called" /\ ~ Unready
  /\ \/ /\ text' = DecipheredUnder(message, context)
        /\ WithTag(message, auth_key) => Fits(message, context, auth_key)
        /\ failed' = FALSE
        /\ Return(TRUE)
     \/ /\ text' = "garbage"
        /\ failed' = (WithTag(message, auth_key) => Fits(message, context, auth_key))
        /\ Return(FALSE)
  /\ UNCHANGED op

(* BearSSL: no call can fail, and the bytes are there before the tag is    *)
(* looked at.                                                              *)
DecryptBearSsl ==
  /\ backend = "bearssl" /\ pc = "called" /\ ~ Unready
  /\ text' = DecipheredUnder(message, context)
  /\ Return(WithTag(message, auth_key) => Fits(message, context, auth_key))
  /\ UNCHANGED <<op, failed>>

-----------------------------------------------------------------------------
(* PSA.  A call that fails makes decrypt_in_place abort and return false;  *)
(* an operation that is aborted is released.                               *)
Step(from, to) ==
  /\ backend = "tfpsa" /\ pc = from /\ ~ Unready
  /\ pc' = to
  /\ UNCHANGED <<settings, message, failed, returned>>

abort_and_fail(from) ==
  /\ backend = "tfpsa" /\ pc = from /\ ~ Unready
  /\ op' = NoOperation
  /\ failed' = TRUE
  /\ Return(FALSE)

(* Seeded mistakes: the algorithm has its own length of the tag; or that   *)
(* of a tag that is not there.                                             *)
psa_aead_decrypt_setupPlain ==
  /\ Step("called", "nonce")
  /\ op' = [key |-> slots[key_id], ad |-> NoKey, tag_len |-> 16]
  /\ UNCHANGED text

psa_aead_decrypt_setupUntagged ==
  /\ Step("called", "nonce")
  /\ op' = [key |-> slots[key_id], ad |-> NoKey,
            tag_len |-> IF WithTag(message, auth_key) THEN 12 ELSE 0]
  /\ UNCHANGED text

(* The exact length of the tag goes with the algorithm, so that a tag of   *)
(* twelve bytes is computed as one.                                        *)
psa_aead_decrypt_setup ==
  /\ Step("called", "nonce")
  /\ op' = [key |-> slots[key_id], ad |-> NoKey,
            tag_len |-> IF WithTag(message, auth_key) THEN 12 ELSE 16]
  /\ UNCHANGED text

psa_aead_set_nonce ==
  /\ Step("nonce", IF WithTag(message, auth_key) THEN "ad" ELSE "update")
  /\ UNCHANGED <<op, text>>

psa_aead_update_ad ==
  /\ Step("ad", "update")
  /\ op' = [op EXCEPT !.ad = auth_key]
  /\ UNCHANGED text

psa_aead_update ==
  /\ Step("update", IF WithTag(message, auth_key) THEN "verify" ELSE "abort")
  /\ text' = DecipheredUnder(message, op.key)
  /\ UNCHANGED op

TagFits == op.tag_len = 12 /\ Fits(message, op.key, op.ad)

(* Verifying ends the operation, and may find that bytes were held back.   *)
psa_aead_verify ==
  /\ backend = "tfpsa" /\ pc = "verify"
  /\ TagFits
  /\ op' = NoOperation
  /\ failed' \in BOOLEAN
  /\ Return(~ failed')
  /\ UNCHANGED text

(* A seeded mistake: the operation is left open.                           *)
VerifyFailsOpen ==
  /\ backend = "tfpsa" /\ pc = "verify"
  /\ failed' = TagFits
  /\ Return(FALSE)
  /\ UNCHANGED <<op, text>>

VerifyFails ==
  /\ backend = "tfpsa" /\ pc = "verify"
  /\ op' = NoOperation
  /\ failed' = TagFits
  /\ Return(FALSE)
  /\ UNCHANGED text

(* Without a tag the operation is aborted, which may fail, too.            *)
psa_aead_abort ==
  /\ backend = "tfpsa" /\ pc = "abort"
  /\ op' = NoOperation
  /\ failed' \in BOOLEAN
  /\ Return(~ failed')
  /\ UNCHANGED text

(* The library fails in one of the first calls; updating may have written. *)
PsaFails ==
  \/ \E from \in {"called", "nonce", "ad"} : abort_and_fail(from) /\ UNCHANGED text
  \/ abort_and_fail("update") /\ text' \in {"sealed", "garbage"}

DecryptPsa ==
  \/ psa_aead_decrypt_setup \/ psa_aead_set_nonce \/ psa_aead_update_ad
  \/ psa_aead_update \/ psa_aead_verify \/ VerifyFails \/ psa_aead_abort
  \/ PsaFails

Decrypt == Refuse \/ DecryptMbedTls \/ DecryptBearSsl \/ DecryptPsa

DecryptorNext ==
  \/ \E key \in Keys : set_decryption_key(key) \/ set_authentication_key(key)
  \/ \E m \in Messages : decrypt_in_place(m)
  \/ Decrypt
  \/ DestroyPsa

DecryptorSpec == DecryptorInit /\ [][DecryptorNext]_decryptorVars /\ WF_decryptorVars(Decrypt)

-----------------------------------------------------------------------------
DecryptorTypeOK ==
  /\ backend \in Backends
  /\ decryption_key \in Keys \cup {NoKey} /\ auth_key \in Keys \cup {NoKey}
  /\ context \in Keys \cup {NoKey}
  /\ psa_initialized \in BOOLEAN
  /\ key_id \in SlotIds \cup {NULL_ID} /\ slots \in Slots
  /\ op \in Operations \cup {NoOperation} /\ message \in Messages
  /\ text \in {"sealed", "plain", "garbage"}
  /\ failed \in BOOLEAN /\ returned \in BOOLEAN
  /\ pc \in {"idle", "called", "nonce", "ad", "update", "verify", "abort",
             "gone"}

(* Between two telegrams the library holds no operation, and no key but    *)
(* the one in force, whatever failed before: nothing is used up by keys    *)
(* that were replaced or by messages that were refused.  In the end it     *)
(* holds none.                                                             *)
NothingIsHeld ==
  /\ pc = "gone" => slots = [i \in SlotIds |-> NoKey]
  /\ pc = "idle" =>
    /\ op = NoOperation
    /\ backend = "tfpsa" =>
         \A i \in SlotIds : slots[i] # NoKey => i = key_id /\ slots[i] = decryption_key

(* A message sealed with the keys that are set is opened, unless a library *)
(* call failed: with its tag, or with the tag not looked at.               *)
OpensWhatIsGenuine ==
  [][ pc # "idle" /\ pc' = "idle" /\ ~ failed' /\ message.intact
      /\ message.key = decryption_key /\ auth_key \in {NoKey, message.auth}
      => returned' /\ text' = "plain" ]_decryptorVars

(* Every decryptor keeps the promise of the interface.                     *)
Interface == INSTANCE GcmDecryptor WITH
  Calls <- Messages \X (Keys \cup {NoKey}),
  Opened <- LAMBDA c, key : DecipheredUnder(c[1], key),
  Genuine <- LAMBDA c, key : WithTag(c[1], c[2]) => Fits(c[1], key, c[2]),
  Texts <- {"sealed", "plain", "garbage"},
  key <- decryption_key, call <- <<message, auth_key>>, busy <- pc \notin {"idle", "gone"},
  answer <- returned

RefinesDecryptor == Interface!Spec

=============================================================================
