----------------------------- MODULE GcmStandIn -----------------------------
(***************************************************************************)
(* A cipher with a tag in place of AES-128-GCM, which is a library's: a    *)
(* stream added to the bytes, and twelve bytes that tell messages apart as *)
(* far as the runs need it.  What matters to the decryptors' caller is     *)
(* kept: the plain bytes depend on key and nonce, byte by byte, and the    *)
(* tag on every bit of key, nonce, bytes and other data.                   *)
(***************************************************************************)
EXTENDS ApduWrappers

(* A weighted sum: no weight is even, so that no flipped bit cancels out.  *)
Digest[bytes \in Seq(0 .. 255)] ==
  LET sum[i \in 0 .. Len(bytes)] ==
        IF i = 0 THEN Len(bytes) ELSE (sum[i - 1] + (2 * i + 1) * bytes[i]) % 65536
  IN  sum[Len(bytes)]

Sealing[plain \in Seq(0 .. 255), start \in Nat] ==
  [i \in DOMAIN plain |-> (plain[i] + start + 11 * i) % 256]

Unsealing[cipher \in Seq(0 .. 255), start \in Nat] ==
  [i \in DOMAIN cipher |-> (cipher[i] - start - 11 * i) % 256]

Halved[digest \in Nat] ==
  [j \in 1 .. 12 |-> IF j % 2 = 0 THEN digest % 256 ELSE digest \div 256]

Sealed(key, nonce, plain) == Sealing[plain, Digest[<<key>> \o nonce]]

Unsealed(key, nonce, cipher) == Unsealing[cipher, Digest[<<key>> \o nonce]]

Tag(key, nonce, cipher, other) == Halved[Digest[<<key>> \o nonce \o other \o cipher]]

TagFits(key, nonce, cipher, other, tag) ==
  tag = Tag(key, nonce, cipher, other)

(* Data sealed under a key; with a tag if there is one to make it by.      *)
SystemTitle == <<75, 70, 77, 16, 32, 0, 15, 224>>
Counter == <<0, 15, 219, 1>>

SealedApdu(tag, key, auth, data) ==
  LET nonce == SystemTitle \o Counter
      control == IF auth = 0 THEN 32 ELSE 48
      sealed == Sealed(key, nonce, data)
  IN  [tag |-> tag, title |-> SystemTitle, control |-> control, counter |-> Counter,
       sealed |-> sealed,
       gcm_tag |-> IF auth = 0 THEN << >>
                   ELSE Tag(key, nonce, sealed, <<control, auth>>)]

Ciphered(tag, key, auth, data) == CipheredApdu(SealedApdu(tag, key, auth, data))

(* The forms of date-time that meters use.                                 *)
SomeTime == <<7, 230, 11, 12, 6, 16, 54, 0, 0, 255, 196, 0>>
DateTimes == {<<0>>, <<9, 12>> \o SomeTime, <<9, 0>>, <<12>> \o SomeTime}

=============================================================================
