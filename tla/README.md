# dlms_parser in TLA+

A verification development of the dlms_parser library (`src/src/dlms_parser`):
TLA+ modules of its decoders and of its parser, TLC runs that check them on
small instances, and TLAPS proofs for every value of the constants.
Paths below are relative to the repository.

## The system

A smart meter pushes telegrams over a serial line. The library takes the bytes
of one telegram in a buffer and calls the application back once for every COSEM
object in it. It allocates nothing: each stage works in the caller's buffer.

| component | state | operations | depends on |
|---|---|---|---|
| HDLC decoder (`hdlc_decoder.cpp`) | the buffer, `read_offset`, `write_offset`, `is_first` | `decode_hdlc_frames_in_place` | CRC, short-frame test |
| M-Bus decoder (`mbus_decoder.cpp`) | the buffer, what remains of it, `write_offset` | `decode_mbus_frames_in_place` | |
| CRC-16/X.25 (`hdlc_decoder.cpp:9-51`) | a 16-bit register | `crc16_x25_check` | |
| APDU handler (`apdu_handler.cpp`) | a window of the buffer, a round counter | `parse_apdu_in_place`: raw, notification, block transfer, ciphering | decryptor |
| decryptors (`decryption/`) | two optional keys, a library's context | `set_decryption_key`, `set_authentication_key`, `decrypt_in_place` | mbedTLS, BearSSL, PSA |
| pattern registry (`axdr_parser.cpp:166-173, 769-813`) | `patterns_`, at most 32, sorted | register, clear, load the built-in ones | DSL |
| pattern DSL (`axdr_parser.cpp:644-767`) | none | text to steps | |
| A-XDR parser (`axdr_parser.cpp:179-638`) | `buffer_`, `pos_`, the C++ stack of `parse_sequence_`, a match in progress | `parse` | registry, callback |
| facade (`dlms_parser.cpp`) | the above | `parse`, setters, registration | all of them |
| receive loop (`tests/test_example.cpp:80-106`) | a packet buffer, a position, a time stamp | `loop` | facade |

`DlmsParser::parse` calls the stages one after the other, each on the span the
one before it returned. There are no threads; what is hard is elsewhere:

* four stages move or decrypt bytes in a buffer that they are still reading;
* the line loses, repeats, flips and cuts, and the framing has few means to
  notice: checksums, lengths, one segmentation bit, an optional tag;
* lengths and counts come from the wire, in one byte, two, or up to 127;
* wrappers are nested in one another, and the number of them is limited;
* keys are set in any order, the crypto library may refuse one, and each of its
  calls may fail;
* reads at the end of the buffer return `FF`, which is a legal value;
* ten patterns are tried at each element; a failed one must leave no trace;
* the parser recurses with the telegram, and its progress rests on small
  counters that wrap; the facade calls it again wherever it stopped;
* one parser object serves all telegrams, also behind one that failed;
* the pattern table has a fixed size, and overflowing it is allowed;
* the receive loop tells the end of a push by a clock, while bytes keep coming.

What makes each component correct: a frame decoder delivers the payloads of the
frames in their order or nothing, as if it had an output buffer of its own; the
APDU handler opens wrappers from the outside in as if each were opened into a
buffer of its own, and gives what was sealed or nothing; a decryptor works with
the key set last or not at all, and holds nothing between telegrams; the
registry is sorted, stable, and keeps the first patterns when it overflows; the
parser reports each object of a telegram once, as it was sent, reads nothing
outside the buffer, and returns; the receive loop hands over one push at a time.

`PROJECT.json` lists the hazards with their lines and the properties for each.

## The modules

| module | models |
|---|---|
| `Spans` | spans of bytes, `std::ranges::copy`, `is_mbus_short_frame` |
| `FrameStream` | the abstract frame decoder: an unchanging input and an output of its own; the link layer is a parameter |
| `Crc16` | the CRC table and register |
| `HdlcDecoder` | `decode_hdlc_frames_in_place`, one action for each way through a turn of its loop |
| `MbusDecoder` | `decode_mbus_frames_in_place`, likewise |
| `ApduLayers` | the abstract unwrapping: wrappers are opened one at a time, each from bytes that never change |
| `ApduHandler` | `parse_apdu_in_place`: one action for each way through a turn of the loop over wrappers, and of the loop over blocks |
| `GcmDecryptor` | the abstract decryptor: what an `Aes128GcmDecryptor` promises its caller |
| `Decryptors` | the mbedTLS, BearSSL and PSA decryptors: setters, and `decrypt_in_place` call by call |
| `GcmStandIn` | external: a small cipher with a tag, for the runs that need bytes, and what a meter seals with it |
| `PatternRegistry` | the table of patterns |
| `PatternDsl` | the steps a pattern's tokens become, and the built-in patterns |
| `DlmsTypes` | the tags of A-XDR, their sizes, the date-time test |
| `AxdrParser` | `AxdrParser::parse`: one action per step type, per element skipped, per container opened or closed |
| `DlmsParser` | the facade: `parse` and the setters, composed of instances of `HdlcDecoder`, `MbusDecoder`, `ApduHandler` and `AxdrParser` |
| `ReceiveLoop` | `loop()` of the example, with the meter and the clock |
| `HdlcFraming`, `MbusFraming`, `ApduWrappers`, `MeterLayouts` | external: how a meter frames, wraps and lays out |
| `PushLink` | external: what the line may do, once per push |
| `HdlcPush`, `MbusPush`, `ApduPush` | meter, line and one stage composed |
| `DlmsPush` | meter, line and the facade, for several pushes in a row |
| `MC...` | values for the constants of the module they are named after |
| `SpansProofs`, `HdlcProofs`, `MbusProofs`, `ApduProofs`, `AxdrProofs` | theorems and proofs about the module they are named after |
| `ServiceProofs` | theorems and proofs about what stands around the stages: registry, decryptors, receive loop |
| `DlmsStages`, `DlmsProofs` | theorems and proofs about the facade: its stages one by one, and put together |

Definitions with the comment "A seeded mistake" are not part of the model. Each
is a plausible slip in the definition that follows it; putting it in that
definition's place makes TLC find a violation of the property it is paired with
under `mutants` in `PROJECT.json`.

### How the models correspond to the code

*Frame decoders.* `buf`, `read_offset`, `write_offset` and `is_first` are the
code's variables; `telegram` is a ghost, what the caller put into `buf`. The
early returns of a turn are the conjuncts of `FrameOk`; `TakeFrame` is the turn
that reaches the copy, `Reject` the one that returns `{}`. `Return` is what is
behind the loop: an empty span when nothing was written, else the first
`write_offset` bytes, which is one expression here. The HDLC loop is a
`do ... while`, so its test is made at the end of a turn (`LoopTest`, and the
status `"returning"`). `std::ranges::copy` between overlapping parts of one
buffer is modelled by its effect when bytes move to the front (`CopyTo`);
`InPlaceSafe` states that they do.

*APDU handler.* `buf` is the span the code narrows, `iter` its round counter,
`read_pos`, `write_pos` and `is_last` those of the loop over blocks, which has a
status of its own. `layer` is a ghost: the span as it was when the round began.
Each early return is an action (`NoTag`, `TruncatedBlock`, `CannotDecipher`,
...); `Decipher` reads nonce, payload and tag from the buffer and replaces it by
the plain bytes. The cipher is given by two constants, `Plain` and `Authentic`.
A BER length is computed in 32 bits; `HUGE` stands for every length of 2^29 or more,
which no buffer has.

*Decryptors.* `context` is the library's GCM context, `slots` the key slots of
PSA, `op` the PSA operation in progress. One action is one library call with
each of its outcomes. Ciphers are symbolic: a message knows its keys, and
whether it arrived as it was sealed. What a failed call leaves in the buffer or
in a context is any of what it may leave.

*Registry.* A pattern is known by the number of its registration. `Inserted` is
the shifted array. `register_pattern` inserts, then writes the default OBIS
through the reference that was returned (`Returned`), as the code does.
`load_default_patterns` is one action: it clears the table and appends, as the
built-in priorities ascend.

*Parser.* `stack` is the C++ stack of `parse_sequence_`: type, count and
elements consumed of each activation. `pattern` and `saved` are the loop of
`try_match_patterns_`; `step`, `level`, `consumed` and `cap` the locals of
`match_pattern_`; `declared`, `held` and `sent` those of the self-describing and
flat matchers. `NextPattern` is `return false` of a match together with putting
`pos_` back. A capture refers to the buffer by offset and length, as the span in
`AxdrCapture` does. `delivered` is the sequence of calls to the callback.
`read_byte_` at the end of the buffer is `ByteAt`, which is `FF`, and `Past`,
which stays. `BerLength` takes the last four bytes of a length only: the loop of
the code shifts the others out of its 32 bits. The `No progress` check
(`axdr_parser.cpp:310-314`) can never be
reached, as the tag of the element has been read by then; it is left out.

*Facade.* `stage` is where `parse` is; the variables of each stage are those of
its module, and a step of `Work` is a step of the stage at work or the call of
the next one. `told` is what the callback was called with. The variables of a
stage keep what they held when it returned, so the next telegram finds the
parser object as the last one left it (`PushAgain`).

*Receive loop.* The code compares `millis()` with `last_read_timestamp`; `age` is
their difference, counted up to just above what matters. `late` bounds how long
a call of `loop` and what the application does between two calls may take
together. Bytes arrive, and time passes, between any two steps of `loop`.

## The runs

| run | instance | checks |
|---|---|---|
| `hdlc` | three messages of one to three pieces, three lengths of addresses; short frames anywhere; one fault: lost, repeated, cut at any byte, any one bit flipped; or no push at all, but up to three parts out of twelve, well or badly formed | offsets; in-place safety; refinement of `FrameStream`; termination; an undisturbed push arrives; a flipped bit is noticed; a cut delivers whole pieces from the front; a lost or repeated frame disturbs no other |
| `hdlc_lost_last` | the same pushes | *violated*: see Findings |
| `mbus`, `mbus_trailing` | the same for M-Bus, with trailing bytes instead of short frames | the same, with what trailing bytes may do; the last is *violated* |
| `apdu` | date-times of every form, blocks of every kind, ciphering with and without a tag, four wrappers around one another; all keys, right, wrong or missing; the faults of the line; or no push, but wrappers in one another up to five deep, cut anywhere, led by other bytes or malformed | positions; in-place safety; refinement of `ApduLayers`; termination; what was wrapped is given; sealed data is given as it was sealed or not at all |
| `decryptors` | three libraries, two keys, two slots; keys set, replaced, refused; every library call with its failures | nothing is held between telegrams; genuine messages are opened; refinement of `GcmDecryptor` |
| `pattern_registry` | a table of three, three priorities, six registrations, clears, loads of two built-in patterns | order, stability, what overflows |
| `registry_full` | the same | *violated* |
| `axdr_parser` | six tables (built-in; without the self-describing one; one with every other token; flat; a pattern that reads nothing; none); all pairs of 24 elements, nested and self-describing telegrams, pairs of telegrams, and every prefix of those | reads stay in the buffer, depth, no byte delivered twice, termination |
| `self_desc_partial` | the same | *violated* |
| `dlms` | four objects in the seven layouts the built-in patterns are for: all pairs, nested, self-describing with and without push setup, untagged; and telegrams of two, three and five objects through every framing and wrapping, on a line that is quiet, falls silent, loses a frame or flips a bit; keys set or not, checksums looked at or not; two pushes in a row | the A-XDR parser is handed what was wrapped and framed, byte for byte; each object is reported once, in order, with its value, scaler and unit; the whole telegram is read; of a telegram that is cut, or has a bit flipped that its checksums guard, the first objects are reported, of which only the last may be cut short; every call returns |
| `receive_loop` | pushes of 2, 5 and 3 bytes, a buffer of 3, every interleaving of arrivals, ticks and steps of the loop | the buffer is not exceeded; one push at a time; every push is handed over |

*Assumptions that TLC evaluates.* `MCHdlcPush` compares all 256 entries of the
CRC table with the polynomial of X.25 (`TableIsX25`), and shows that two flipped
bits in a byte or its checksum are noticed (`TwoFlippedBitsAreNoticed`). Both
are about constants, so they are assumptions rather than invariants.

*Bounds.* Frames are concatenated one turn at a time and the state between turns is
two offsets and a flag, so three frames show every succession of two turns, with the
first frame apart; likewise for blocks. Four wrappers is the limit of the code, and
five the first nesting that exceeds it. A table of three overflows after four
registrations; two more exercise it full. The code's 32 differs in nothing, and the
proofs hold for any size. Two key slots are enough for a key that is replaced to be
kept by mistake, and for PSA to run out of them. `WORD`, 2^32 in the code, is 2^16
in the runs because TLC's integers are of 32 bits; lengths that wrap are among the
elements. A `size_t` is taken to be wide enough for a position plus a 32-bit length.
The push modules let the line do one thing per push: with two, hardly any statement
about what is delivered holds, the checksums being of 16 and of 8 bits. In `dlms`
three telegrams are pushed twice, in every order, and a fault befalls some only.
Telegrams without frames are cut at every byte: an object of each layout in front of
one of another layout and behind one, untagged lists of two, a self-describing list,
and the telegrams of two, three and five objects, dated, undated, and undated behind
a short frame. Telegrams in frames are cut at every byte and have every one of their
bits flipped: plain, sealed, undated with frames that end inside values, and these
behind a short frame, each in HDLC and in M-Bus. Of one object there are flipped
bits that no checksum is looked at for, without a frame and in one whose checksum is
skipped. The stages have been given every fault by the runs of their own.

*Deadlock* is not checked where a run is a single call that ends (all but the
registry and the receive loop): its last state has no successor.

*Fairness* is weak fairness of the steps of the call in progress: a C++ function
that was called runs on. That the function is called is not assumed. Only in
`ReceiveLoop` is something called again and again: weak fairness of `loop`, which
an Arduino-like runtime calls forever, and of `Tick`, as time passes. The two
bound each other: `Tick` waits when a call is `LATENCY` ticks old, which says
that a call takes no longer.

*The timing of the receive loop.* The code relies on two facts that it does not
state. `PAUSE + LATENCY <= GAP`: a pause within a push, and the time until the
loop has looked, are together no longer than the second after which a packet is
taken as complete. `GAP + 3 * LATENCY < INTERVAL`: pushes are so far apart that
the loop has found the second to be over, and has handed the packet over, before
the next one begins. TLC finds `OnePushAtATime` violated if either is relaxed by
one tick.

## What holds, and the findings

The passing runs found the code to be as its authors mean it: in particular that
the in-place copies are safe, that no key and no operation is left behind in a
crypto library, that patterns do not disturb one another on the layouts they are
for, and that no telegram makes the parser read outside its buffer or run
forever. Four runs show a disagreement:

1. **A lost last frame is not noticed** (`hdlc_lost_last`). The segmentation bit
   is read (`hdlc_decoder.cpp:85`) and used in a `break` only (line 145) that the
   loop test makes redundant: a telegram that ends after a frame that says "more
   frames follow" (line 64) is returned as complete.
2. **Trailing bytes are not always ignored** (`mbus_trailing`).
   `mbus_decoder.h:22` says they are; four or more that begin with `68` drop the
   frames before them (`mbus_decoder.cpp:26-49`).
3. **A rejected registration changes another pattern** (`registry_full`). With the
   table full, `insert_pattern_` returns a reference to the last pattern and
   `register_pattern` writes the new default OBIS into it
   (`axdr_parser.cpp:168, 794`).
4. **A match that fails has already delivered** (`self_desc_partial`). Values of a
   self-describing structure are passed to the callback one by one
   (`axdr_parser.cpp:459-460`); if a later one cannot be read the match fails,
   though `axdr_parser.h:123` says the callback is fired for each pattern match.
   The descriptors are then gone over again by the other patterns.

Met on the way, without a run of their own:

* `apdu_handler.h:11` speaks of numbered blocks, but the number of a block is
  never looked at (`apdu_handler.cpp:105-109`), and a transfer ends at the end of
  the buffer as it does at the last block: lost or repeated blocks leave a hole
  or a repetition. `SealedOrNothing` shows that a tag over the whole tells.
* The facade's comment speaks of "successive top-level containers"
  (`dlms_parser.cpp:108`). Its loop goes on wherever the parser stopped (lines
  111-116): behind a container that is cut short that is inside the container,
  and the bytes there are parsed as top-level elements. What comes of it is what
  `ReportsABeginning` allows: in every layout but the self-describing one, the
  last object that is reported may be cut short (`CutShort`), and no other. One
  that lost its scaler and unit is reported without them, or with what is read at
  the end of the buffer. **One of the layout `TC, TO, TS, TV` that lost its value is
  reported with its scaler for a value**: what is left of it matches `TO, TV`. Of a
  self-describing telegram that lost its values the descriptors are taken for
  objects of that layout, one after another, and `ReportsABeginning` says nothing.
* **A flipped bit in the first byte of a framed telegram is not noticed**
  (`dlms_parser.cpp:86-96`). The telegram, or one behind a short frame of which a
  bit was flipped, is taken for a raw one; nobody looks at its checksums, and the
  APDU handler looks for the first tag among the bytes of the frames. If a frame
  ended inside a value (as in the undated telegrams of `dlms`), a value is reported
  that has a checksum or a header in it. No comment promises otherwise.
  `ReportsABeginning` leaves these out (`StillChecked`); without that condition TLC
  finds such a value. Every other bit of a telegram in frames is guarded.
* `README.md:57` of the repository mentions `register_pattern(dsl)` with priority
  0; there is no such overload.
* `ADV` covers two elements of a structure and counts one: telegrams of that
  layout end inside their containers, with "Unexpected end". The objects are
  reported all the same (`ReadsTheWholeTelegram` excepts that layout).
* A null value in front of a structure reads as class and OBIS to `ADV`; a
  six-byte octet string as the value of a `TV, TC, TSU, TO` object reads as an
  OBIS code. Both are ambiguities of the layouts, and kept out of `dlms`.
* `firstElement-dateTime` (priority 90) never matches: `S(TO, TV)` (70) takes
  whatever it would.
* An address of three bytes is accepted, though a comment says one, two or four
  (`hdlc_decoder.cpp:53`).

## What is proved

Proofs hold for every telegram, table size, priority, OBIS, set of keys, size of
buffer and so on. Assumed are only the `ASSUME`s of the modules: telegrams are
sequences of bytes; the table has room for the built-in patterns, whose
priorities ascend; no pattern expects the tag `FF` (`TagAssumption`: the DSL has
such steps for `UINT16` only, `axdr_parser.cpp:692`); the two inequalities of the receive loop; and, of the pushes,
that a meter keeps to its formats: `PushAssumption` of `HdlcPush` and `MbusPush`
(addresses end, the data fit what a length field can count, and on M-Bus what
follows the last frame does not begin like one) and of `ApduPush` (there are fewer
wrappers than the handler makes turns, no known tag is among the bytes in front, every
length has a form of at most two bytes, and each wrapper holds what is inside it,
for a ciphered one: the plain text under every key of the message is what was
sealed, and its tag, if it has one, fits); `TelegramAssumption` of `DlmsPush`
says of each message that it is such a nest of wrappers, cut into pieces that are
framed in one of these ways, or not framed and not beginning like a frame; and
`FacadeAssumption` of `DlmsParser` that "no key" is not a key. `MCHdlcPush`,
`MCMbusPush`, `MCApduPush` and `MCDlmsPush` give them values, and TLC evaluates
them there. The theorems of `ApduProofs` and `DlmsProofs` have a hypothesis, too,
`PlainKeepsLength`: a plain text is as long as its cipher text, as with any stream
cipher.

* `HdlcProofs`, `MbusProofs`, the decoders by themselves: type correctness,
  `InPlaceSafe`, and `Spec => RefinesStream`. The inductive invariant is type
  correctness together with `InPlaceSafe` and the relation of `status` to the offsets: that
  `write_offset <= read_offset` needs that a payload is no longer than its frame,
  and that the unread part of `buf` is still that of `telegram` needs the former.
  The refinement maps `out` to the first `write_offset` bytes of `buf`, and every
  turn of the loop to one step of `FrameStream`. `SpansProofs` has the lemmas
  about copying and subspans.
* `HdlcProofs`, the decoder behind a meter and a line (`PushSpec`):
  `DeliversWhatWasSent`, `OnlyThatFrameIsDisturbed`, `CutDeliversWholePieces` and
  `CorruptionIsNoticed`, for messages of any number of pieces of any bytes. That
  what the meter's framing writes is what the decoder reads is proved, not
  assumed: `HdlcFrameIsCoded` builds the header, the addresses and the two
  checksums, and `CodedFrameReads` takes them apart, whatever bytes follow. The
  invariant speaks of the bytes on the line: `Carries` says that they are frames
  for a sequence of pieces, with short frames anywhere between, `Sending` adds the
  frames not sent yet, and `OnTrack` that what the decoder has written, and what
  remains to be read, are together what the line carries. A line that was cut
  carries a proper beginning of a frame behind whole ones, and no proper beginning
  is taken for a frame (`CutFrameRefused`). A line with a flipped bit is `Doomed`
  or carries what was sent: the register of the checksum after a byte determines
  the register before it (`BitsDetermine`, `TableEntries` and the lemmas behind
  them, from the table's 256 entries), so two runs over bytes that
  differ in one place never meet again. A wrong byte in the header is noticed by
  its own checksum, whatever it makes of the length field, one behind it by that
  of the frame (`WrongByteStuck`), and a wrong opening flag begins no frame; the
  closing flag is not looked at, and may be hit without effect
  (`WrongByteNoticed`).
* `MbusProofs`, the decoder behind a meter and a line: `DeliversWhatWasSent`,
  `OnlyThatFrameIsDisturbed` and `DeliversWholePieces`, likewise. `LongFrameIs` and
  `LongReads` are the two directions of the framing; a sum of bytes that differ in
  one place differs (`SumDiffers`), so a frame with one wrong byte is refused, or
  no longer begins like a frame (`WrongLongDead`). `ReceiverInv` says what the
  decoder is on the track of, and what it is at the end of it (`Expected`).
* `ApduProofs`: type correctness, `InPlaceSafe` and `Spec => RefinesLayers`. The
  invariant adds that at the beginning of a round `buf` is still `layer`, and that
  blocks are met only while wrappers may be opened. That a block lies inside the
  buffer, behind what was written, follows from the checks of the code
  (`BlockInside`, `CipherInside`). `ApduLayers` joins the blocks of a transfer by
  recursion over the bytes that came; `BlocksSoFar` relates this to the loop of the
  code: what the transfer holds is what has been moved to the front of the buffer
  and what its blocks from `read_pos` on hold.
* `ApduProofs`, the handler behind a meter and a line (`PushSpec`):
  `DeliversWhatWasSent`, for any data in any nest of transfers and ciphered APDUs
  up to the limit. `Stands` says that bytes stand at a place of a buffer; from it
  the two directions of each format are related: lengths of one to three bytes
  (`BerRead`), blocks of any number and sizes (`BlocksRest`, by induction from the
  last one), the fields of a ciphered APDU wherever its length ends
  (`CipheredIsRead`), date-times of each form (`NotificationRead`), and bytes in
  front (`TaggedBehind`). The invariant (`PushInv`) says that what has arrived and
  what is still to be sent are together the message, and that, after `iter`
  wrappers, what the handler looks at is the layer of the message with the next
  number (`Unopened`). Each turn then is given a wrapper it can open, or the data
  (`TurnMeets`); so with the keys of the message it neither refuses nor runs out of
  turns, and without a key it gets as far as the first ciphered APDU.
* `ServiceProofs`, the decryptors: type correctness, `NothingIsHeld`, `OpensWhatIsGenuine`, and
  that every step of a decryptor is one of `GcmDecryptor` or a stutter. The
  invariant says that the key set last, if any was taken, is the one the library
  has, and the only one (`KeyInForce`); and that an open operation is set up for
  the key, the tag and the other data of the message (`OperationFits`).
* `ServiceProofs`, the registry: type correctness, `TriedInOrder` and `KeepsTheFirst`. The
  invariant is their conjunction with `Numbered` (numbers in the table and of the
  registered patterns do not exceed the counter), which makes a new pattern come
  after all of its priority. A pattern that is shifted out of a full table comes
  behind all that stay, and stays so, as the table only improves.
* `AxdrProofs`: type correctness, `StaysInBuffer`, `DepthIsBounded` and
  `DeliversEachByteOnce`. The invariant keeps three things apart (`CapFits`,
  `HeldFits`, `DeliveredFits`): what was delivered lies in front of `saved`, where
  the element that is being matched begins; what was captured of that element
  lies between `saved` and `pos_`; both in order. A failed match drops the second
  and goes back to `saved`, so whatever is read again was not delivered. The
  self-describing matcher delivers behind `saved`, so a table with it is excepted:
  `self_desc_partial` shows what then happens. `DescribesValues` says that there
  is a descriptor for each value. A container is opened behind its tag and its
  count: those are the two bytes for each level of recursion.
* That calls come to an end, as far as it can be proved: no step of a call leaves
  things as they were, and each uses up something there is only so much of. For the
  decoders this is the unread part of the buffer (`HdlcTurnsReadOn`,
  `MbusTurnsReadOn`), for the handler the wrappers that may still be opened, then
  the unread part of the blocks (`TurnsGoOn`). The parser goes back to `saved` for
  every pattern, so `AxdrComesToAnEnd` compares six numbers, the first that differs
  deciding (`ComesNearer`): bytes in front of which no element begins yet, open
  containers, elements to come, patterns to try, steps of the pattern, bytes it has
  not read. `AxdrCountsDown` says that they are numbers in every state of a call. It
  needs one more invariant, `HasRead`: a match that has counted elements has read
  bytes. Elements are counted in a byte (the count may come round to the one it was,
  were a pattern long enough); what keeps this from going on for ever is that the
  next element then begins further on. A counting step reads a byte
  because no tag is `FF`, the byte that is read at the end of the buffer; the one
  tag that a pattern chooses is that of `EXPECT_TYPE_EXACT` (`TagAssumption`).
* `ServiceProofs`, the receive loop: type correctness and `OnePushAtATime`. The invariant says that
  pushes come in and go out one after another (`OneAfterAnother`), that port and
  buffer hold bytes of the current one in order (`BytesOfOne`), and relates the
  quiet of the line to the age of the last byte read: as long as a push comes in,
  neither is above what the first inequality allows (`Quiet`), and whatever has
  come in is read and handed over before the second inequality lets the next push
  begin (`Prompt`).

* `DlmsStages` and `DlmsProofs`, the facade behind a meter and a line:
  `HandsOverWhatWasSent`, from the bytes the meter laid out to those the A-XDR
  parser is given, for any number of pushes in a row, each with wrappers, pieces,
  framing and keys of its own; and `StagesSafe`, the safety of the stages inside the
  facade, where two of them share one buffer and all find what the last telegram
  left. The stages are not proved again: `HdlcLine`, `MbusLine` and `ApduLine` are
  instances of their proof modules, which say what is on the line for each of them
  (for the decoders the bytes that are parsed, without a short frame in front; for
  the handler what the decoder has written, all at once). What an instance means by
  an operator or an action is shown to be what the facade means by it (the lemmas
  `...Same...`) or the meter (`...Meter...`), one definition at a time from the
  bottom up. The meter's framing is then taken apart by `HdlcTells`, `MbusTells` and
  `RawTells`, its wrapping by `Wrapped`, and `Arrived` says what the first stage is
  called with. The invariant (`PipelineInv`) has the safety of the stage at work
  (`StagesSafe`); that no frame is left to be sent once the facade works, without
  which what was parsed need not be what was sent; and that in each stage what is on
  the way is what was sent (`OnTheWay`), in the terms of the stages' own proofs
  (`Tracks` of the decoders, `LayerInv` and `ReceiverHolds` of the handler). That it
  is kept is one lemma for each action of the facade.

Induction over data is done inside a module: what holds for a sequence is put into
a set of indices, and `IntervalInduction` or well-founded induction over that set
(`NatLessThanWellFounded`) gives it for all of them. Recursive functions (`Rest` of
`ApduLayers`, the registers of the checksum) are unfolded once by a lemma of their
own (`RestUnfold`, `CrcUnfold`), and for the prover's sake `Xor4` of `Crc16` is a
table of tables.

Only model-checked: `SealedOrNothing` of `ApduPush` (that a tag cannot be had
without its key is a matter of probability for GCM, and no fact about a function);
what `DlmsPush` reports of the data that were handed over (`ReportsWhatWasSent`,
`ReportsABeginning`: what a parser finds in a nest of values is defined by induction
over them); `OnlyMatchesAreDelivered` (which is violated with a
self-describing pattern); and all liveness (`Terminates`, `Returns`,
`EveryPushIsHandedOver`), including the fairness part of `RefinesDecryptor`:
fairness is out of the prover's reach. Of the stages it is proved that a call has
only so many steps (above); that there always is a next one until it is done, and
that it is taken, is what TLC checks.

## Not modelled, and the plan

The plan is carried out as far as the tools go. What could be added are proofs about
single patterns: that one that matches delivers the fields its tokens name, whatever
the values, as a step towards `ReportsWhatWasSent`.

Abstracted, in the modules that there are:

* `GcmStandIn` is not AES: its tag is a weighted sum. `apdu` shows what the
  handler does with a tag that fits or does not, and nothing about a cipher. In
  `Decryptors` ciphers are symbolic.
* Destroying a PSA key, and aborting an operation, are taken to release it.
* The time the parser takes is spent between two calls of `loop`.
* The split and trimming of a pattern's text: `PatternDsl` starts at the tokens.
* A parser without a decryptor: the models have one without a key, and the
  handler treats both alike (`apdu_handler.cpp:136`). Setting a key on a null
  decryptor (`dlms_parser.cpp:31-37`) is undefined behaviour of the caller.
* The callback returns and does nothing to the parser. One that registers or
  clears patterns while they are being walked (`axdr_parser.cpp:637`) is not
  guarded against by the library.

Left out: the text form of flat patterns and the conversion of captured values to
floats and strings (pure functions, tested directly), the logger, the ciphers
themselves, and the off-line tools under `tools/`.
