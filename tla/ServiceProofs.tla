--------------------------- MODULE ServiceProofs ---------------------------
(***************************************************************************)
(* Proofs about what the pipeline is used with.                            *)
(*                                                                         *)
(* ReceiveLoop: for every size of the buffer, all lengths of pushes and    *)
(* all times that keep TimingAssumption, the packets handed to the parser  *)
(* are the pushes that were sent, one by one.                              *)
(*                                                                         *)
(* PatternRegistry: for every table size, every set of priorities and      *)
(* every sequence of registrations, the pattern table is sorted and        *)
(* stable, and holds the first MAX_PATTERNS of the patterns registered.    *)
(*                                                                         *)
(* Decryptors: for every set of keys and of slots, no decryptor holds on   *)
(* to a key or an operation, each of them opens what is genuine, and all   *)
(* of them keep the promise of the interface.                              *)
(***************************************************************************)
EXTENDS ReceiveLoop, PatternRegistry, Decryptors, SequenceTheorems,
        WellFoundedInduction, TLAPS

-----------------------------------------------------------------------------
(* The receive loop.                                                       *)

position == dlms_packet_buffer_position

(* The push that is being received, and the bytes of it that were read.    *)
current == Len(handed) + 1
taken == arrived[current] - Len(uart)

(* Pushes are handed over one after another; those behind the current one  *)
(* have not begun.                                                         *)
OneAfterAnother ==
  /\ Len(handed) <= Len(Lengths)
  /\ \A k \in 1 .. Len(handed) : arrived[k] = Lengths[k]
  /\ \A k \in DOMAIN Lengths : k > current => arrived[k] = 0
  /\ Len(handed) = Len(Lengths) => uart = << >> /\ position = 0

(* In the port and in the buffer are bytes of the current push, in order;  *)
(* in the buffer all that were read, or the last ones.                     *)
BytesOfOne ==
  Len(handed) < Len(Lengths) =>
    /\ taken \in Nat
    /\ position <= taken /\ (position = 0 => taken = 0)
    /\ taken <= SIZE => position = taken
    /\ \A i \in DOMAIN uart : uart[i] = <<current, taken + i>>
    /\ \A i \in 1 .. position :
         dlms_packet_buffer[i] = <<current, taken - position + i>>

(* While a push comes in, the line is never quiet for long; and the time   *)
(* since a byte was read is not much more than the time since one came in. *)
Quiet ==
  /\ (\E k \in DOMAIN Lengths : Under(k)) => quiet <= PAUSE
  /\ position > 0 /\ uart = << >> => age <= quiet
  /\ position > 0 /\ uart # << >> /\ at = "read" => age <= PAUSE + late

(* What has come in is read by the end of the next call, and handed over   *)
(* by the end of the first one that finds it old enough.                   *)
Prompt ==
  /\ uart # << >> => quiet <= late + (IF at = "read" THEN 0 ELSE LATENCY)
  /\ uart = << >> /\ position > 0 =>
       /\ age <= GAP => quiet <= age + 2 * LATENCY
       /\ quiet <= GAP + 2 * LATENCY + late

Inv == TypeOK /\ OnePushAtATime /\ OneAfterAnother /\ BytesOfOne /\ Quiet /\ Prompt

-----------------------------------------------------------------------------
(* The last bytes of a push are a suffix of it.                            *)
LEMMA LastBytesAreSuffix ==
  ASSUME NEW S, NEW t \in Seq(S), NEW s \in Seq(S), Len(s) <= Len(t),
         \A i \in 1 .. Len(s) : s[i] = t[Len(t) - Len(s) + i]
  PROVE  IsSuffix(s, t)
<1> DEFINE rs == Reverse(s)
           rt == Reverse(t)
<1>1. rs \in Seq(S) /\ Len(rs) = Len(s) /\ \A i \in 1 .. Len(s) : rs[i] = s[Len(s) - i + 1]
  BY DEF Reverse
<1>2. rt \in Seq(S) /\ Len(rt) = Len(t) /\ \A i \in 1 .. Len(t) : rt[i] = t[Len(t) - i + 1]
  BY DEF Reverse
<1> HIDE DEF rs, rt
<1>3. ASSUME NEW i \in 1 .. Len(s) PROVE rs[i] = rt[i]
  <2>1. Len(s) - i + 1 \in 1 .. Len(s) /\ i \in 1 .. Len(t)
    OBVIOUS
  <2>2. s[Len(s) - i + 1] = t[Len(t) - Len(s) + (Len(s) - i + 1)]
    BY <2>1
  <2>3. Len(t) - Len(s) + (Len(s) - i + 1) = Len(t) - i + 1
    OBVIOUS
  <2> QED
    BY <1>1, <1>2, <2>1, <2>2, <2>3
<1>4. SubSeq(rs, 1, Len(rs)) = SubSeq(rt, 1, Len(rs))
  BY <1>1, <1>2, <1>3
<1> QED
  BY <1>1, <1>2, <1>4 DEF IsSuffix, IsPrefix, rs, rt

LEMMA Numbers ==
  /\ Lengths \in Seq(Nat \ {0}) /\ DOMAIN Lengths = 1 .. Len(Lengths)
  /\ SIZE \in Nat \ {0} /\ GAP \in Nat /\ PAUSE \in Nat /\ LATENCY \in Nat
  /\ INTERVAL \in Nat
  /\ PAUSE + LATENCY <= GAP /\ GAP + 3 * LATENCY < INTERVAL
  /\ \A k \in DOMAIN Lengths : Lengths[k] \in Nat /\ Lengths[k] > 0
  BY ReceiveAssumption, TimingAssumption

(* What TypeOK says, one by one.                                           *)
LEMMA Types ==
  ASSUME Inv
  PROVE  /\ arrived \in [DOMAIN Lengths -> Nat] /\ uart \in Seq(Nat \X Nat)
         /\ DOMAIN uart = 1 .. Len(uart) /\ Len(uart) \in Nat
         /\ quiet \in Nat /\ age \in Nat /\ late \in 0 .. LATENCY /\ late \in Nat
         /\ position \in Nat /\ position <= SIZE
         /\ dlms_packet_buffer \in [1 .. SIZE -> Nat \X Nat]
         /\ handed \in Seq(Seq(Nat \X Nat)) /\ Len(handed) \in Nat
         /\ Len(handed) <= Len(Lengths)
<1>1. /\ arrived \in [DOMAIN Lengths -> Nat] /\ uart \in Seq(Nat \X Nat)
      /\ dlms_packet_buffer \in [1 .. SIZE -> Nat \X Nat]
      /\ handed \in Seq(Seq(Nat \X Nat))
  BY DEF Inv, TypeOK
<1>2. quiet \in Nat /\ age \in Nat /\ late \in 0 .. LATENCY /\ late \in Nat
  BY Numbers DEF Inv, TypeOK
<1>3. position \in Nat /\ position <= SIZE
  BY Numbers DEF Inv, TypeOK, position
<1>4. Len(handed) <= Len(Lengths)
  BY DEF Inv, OneAfterAnother
<1> QED
  BY <1>1, <1>2, <1>3, <1>4

(* There is a current push.                                                *)
LEMMA CurrentIsPush ==
  ASSUME Inv, Len(handed) < Len(Lengths)
  PROVE  /\ current \in 1 .. Len(Lengths) /\ current \in DOMAIN Lengths
         /\ arrived[current] \in Nat
<1>1. Len(handed) \in Nat /\ Len(Lengths) \in Nat
  BY Types, Numbers
<1>2. current \in 1 .. Len(Lengths)
  BY <1>1 DEF current
<1>3. current \in DOMAIN Lengths
  BY <1>2, Numbers
<1> QED
  BY <1>2, <1>3, Types

LEMMA InitInv == Init => Inv
<1> SUFFICES ASSUME Init PROVE Inv
  OBVIOUS
<1>1. << >> \in Seq(Nat \X Nat) /\ << >> \in Seq(Seq(Nat \X Nat)) /\ Len(<< >>) = 0
  OBVIOUS
<1>2. uart = << >> /\ handed = << >> /\ position = 0
  BY DEF Init, position
<1>3. TypeOK
  <2>1. dlms_packet_buffer \in [1 .. SIZE -> Nat \X Nat]
    BY DEF Init
  <2>2. uart \in Seq(Nat \X Nat) /\ handed \in Seq(Seq(Nat \X Nat))
    BY <1>1, <1>2
  <2> QED
    BY <2>1, <2>2, Numbers DEF Init, TypeOK
<1>4. OnePushAtATime
  BY <1>1, <1>2, Numbers DEF OnePushAtATime
<1>5. OneAfterAnother
  BY <1>1, <1>2, Numbers DEF OneAfterAnother, current, Init
<1>6. BytesOfOne
  BY <1>1, <1>2, Numbers DEF BytesOfOne, taken, current, Init
<1>7. Quiet /\ Prompt
  BY <1>2, Numbers DEF Quiet, Prompt, Under, Init
<1> QED
  BY <1>3, <1>4, <1>5, <1>6, <1>7 DEF Inv

(* While anything has not been handed over, the line has not been quiet    *)
(* for as long as it is between two pushes.                                *)
LEMMA NotForgotten ==
  ASSUME Inv, uart # << >> \/ position > 0
  PROVE  quiet < INTERVAL
<1>1. quiet \in Nat /\ late \in 0 .. LATENCY /\ position \in Nat
  BY Numbers DEF Inv, TypeOK, position
<1>2. CASE uart # << >>
  BY <1>1, <1>2, Numbers DEF Inv, Prompt
<1>3. CASE uart = << >> /\ position > 0
  BY <1>1, <1>3, Numbers DEF Inv, Prompt
<1> QED
  BY <1>2, <1>3

LEMMA ArriveInv ==
  ASSUME Inv, Arrive
  PROVE  Inv'
<1>1. PICK k \in DOMAIN Lengths :
        /\ Turn(k) /\ (Under(k) \/ quiet = INTERVAL)
        /\ arrived' = [arrived EXCEPT ![k] = @ + 1]
        /\ uart' = Append(uart, <<k, arrived[k] + 1>>)
        /\ quiet' = 0
        /\ UNCHANGED <<packet, age, at, late, handed>>
  BY DEF Arrive
<1>2. /\ arrived \in [DOMAIN Lengths -> Nat] /\ uart \in Seq(Nat \X Nat)
      /\ quiet \in Nat /\ age \in Nat /\ late \in 0 .. LATENCY
      /\ position \in Nat /\ handed \in Seq(Seq(Nat \X Nat))
      /\ Len(handed) <= Len(Lengths) /\ k \in Nat
  <2>1. Len(Lengths) \in Nat /\ k \in 1 .. Len(Lengths)
    BY Numbers
  <2>2. k \in Nat
    BY <2>1
  <2> QED
    BY Types, <2>2
<1>3. k = current
  <2>1. CASE k <= Len(handed)
    BY <1>1, <1>2, <2>1, Numbers DEF Inv, OneAfterAnother, Turn
  <2>2. CASE k > current
    <3>1. /\ current \in 1 .. k - 1 /\ current \in DOMAIN Lengths
          /\ Len(handed) < Len(Lengths)
      BY <1>2, <2>2, Numbers DEF current
    <3>2. arrived[k] = 0 /\ arrived[current] = Lengths[current]
      BY <1>1, <2>2, <3>1 DEF Inv, OneAfterAnother, Turn
    <3>3. quiet = INTERVAL
      BY <1>1, <3>2 DEF Under
    <3>4. uart # << >> \/ position > 0
      <4>1. SUFFICES ASSUME uart = << >>, position = 0 PROVE FALSE
        BY <1>2
      <4>2. taken = 0
        BY <3>1, <4>1 DEF Inv, BytesOfOne
      <4>3. taken = Lengths[current]
        BY <3>1, <3>2, <4>1, Numbers DEF taken
      <4> QED
        BY <3>1, <4>2, <4>3, Numbers
    <3> QED
      BY <3>3, <3>4, NotForgotten, Numbers
  <2> QED
    BY <1>2, <2>1, <2>2 DEF current
<1>4. Len(handed) < Len(Lengths)
  BY <1>2, <1>3, Numbers DEF current
<1>5. /\ arrived'[k] = arrived[k] + 1 /\ arrived[k] < Lengths[k]
      /\ \A j \in DOMAIN Lengths : j # k => arrived'[j] = arrived[j]
      /\ arrived' \in [DOMAIN Lengths -> Nat]
  BY <1>1, <1>2 DEF Turn
<1>6. /\ Len(uart') = Len(uart) + 1 /\ uart' \in Seq(Nat \X Nat)
      /\ uart'[Len(uart) + 1] = <<k, arrived[k] + 1>>
      /\ \A i \in 1 .. Len(uart) : uart'[i] = uart[i]
  BY <1>1, <1>2
<1>7. current' = current /\ taken' = taken /\ position' = position
      /\ Len(handed') = Len(handed)
  <2>1. current' = current /\ position' = position /\ handed' = handed
    BY <1>1 DEF current, position, packet
  <2>2. arrived'[current] = arrived[current] + 1 /\ arrived[current] \in Nat
    BY <1>2, <1>3, <1>5
  <2>3. taken' = (arrived[current] + 1) - (Len(uart) + 1)
    BY <1>6, <2>1, <2>2 DEF taken
  <2>4. (arrived[current] + 1) - (Len(uart) + 1) = arrived[current] - Len(uart)
    <3>1. \A x, y \in Nat : (x + 1) - (y + 1) = x - y
      OBVIOUS
    <3>2. Len(uart) \in Nat
      BY Types
    <3> QED
      BY <2>2, <3>1, <3>2
  <2> QED
    BY <2>1, <2>3, <2>4 DEF taken
<1>8. UNCHANGED <<dlms_packet_buffer, dlms_packet_buffer_position, age, at, late, handed>>
  BY <1>1 DEF packet
<1>9. TypeOK'
  <2>1. \A j \in DOMAIN Lengths : arrived'[j] <= Lengths[j]
    <3>1. arrived'[k] <= Lengths[k]
      BY <1>2, <1>5, Numbers
    <3>2. \A j \in DOMAIN Lengths : j # k => arrived'[j] <= Lengths[j]
      BY <1>5 DEF Inv, TypeOK
    <3> QED
      BY <3>1, <3>2
  <2>2. quiet' \in 0 .. INTERVAL
    BY <1>1, Numbers
  <2>3. /\ dlms_packet_buffer' \in [1 .. SIZE -> Nat \X Nat]
        /\ dlms_packet_buffer_position' \in 0 .. SIZE
        /\ age' \in 0 .. GAP + 1 /\ at' \in {"out", "reading", "read"}
        /\ late' \in 0 .. LATENCY
        /\ handed' \in Seq(Seq(Nat \X Nat))
    BY <1>8 DEF Inv, TypeOK
  <2> QED
    BY <1>5, <1>6, <2>1, <2>2, <2>3 DEF TypeOK
<1>10. OnePushAtATime'
  BY <1>8 DEF Inv, OnePushAtATime, Sent
<1>11. OneAfterAnother'
  <2>1. \A j \in 1 .. Len(handed) : arrived'[j] = Lengths[j]
    <3>1. \A j \in 1 .. Len(handed) : j \in DOMAIN Lengths /\ j # k
      BY <1>2, <1>3, Numbers DEF current
    <3> QED
      BY <1>5, <3>1 DEF Inv, OneAfterAnother
  <2>2. \A j \in DOMAIN Lengths : j > current => arrived'[j] = 0
    BY <1>2, <1>3, <1>5 DEF Inv, OneAfterAnother
  <2> QED
    BY <1>2, <1>4, <1>7, <2>1, <2>2 DEF OneAfterAnother
<1>12. BytesOfOne'
  <2>1. arrived[k] = taken + Len(uart) /\ taken \in Nat
    BY <1>2, <1>3, <1>4 DEF Inv, BytesOfOne, taken
  <2>2. \A i \in DOMAIN uart' : uart'[i] = <<current, taken + i>>
    <3> SUFFICES ASSUME NEW i \in DOMAIN uart' PROVE uart'[i] = <<current, taken + i>>
      OBVIOUS
    <3>1. CASE i \in 1 .. Len(uart)
      <4>1. i \in DOMAIN uart
        BY <3>1, Types
      <4>2. uart[i] = <<current, taken + i>>
        BY <1>4, <4>1 DEF Inv, BytesOfOne
      <4> QED
        BY <1>6, <3>1, <4>2
    <3>2. CASE i = Len(uart) + 1
      BY <1>2, <1>3, <1>6, <2>1, <3>2
    <3> QED
      BY <1>2, <1>6, <3>1, <3>2
  <2> QED
    BY <1>4, <1>7, <1>8, <2>2 DEF Inv, BytesOfOne
<1>13. Quiet'
  <2>1. position > 0 /\ uart = << >> => age <= PAUSE
    <3> SUFFICES ASSUME position > 0, uart = << >> PROVE age <= PAUSE
      OBVIOUS
    <3>1. age <= quiet /\ quiet < INTERVAL
      BY NotForgotten DEF Inv, Quiet
    <3>2. quiet <= PAUSE
      BY <1>1, <1>2, <3>1, Numbers DEF Inv, Quiet
    <3> QED
      BY <1>2, <3>1, <3>2, Numbers
  <2>2. position > 0 /\ at = "read" => age <= PAUSE + late
    BY <1>2, <2>1, Numbers DEF Inv, Quiet
  <2>3. uart' # << >>
    BY <1>2, <1>6
  <2> QED
    BY <1>1, <1>7, <1>8, <2>2, <2>3, Numbers DEF Quiet
<1>14. Prompt'
  <2>1. uart' # << >>
    BY <1>2, <1>6
  <2> QED
    BY <1>1, <1>2, <1>8, <2>1, Numbers DEF Prompt
<1> QED
  BY <1>9, <1>10, <1>11, <1>12, <1>13, <1>14 DEF Inv

LEMMA TickInv ==
  ASSUME Inv, Tick
  PROVE  Inv'
<1>1. /\ late < LATENCY
      /\ (\E k \in DOMAIN Lengths : Under(k)) => quiet < PAUSE
      /\ quiet' = UpTo(quiet, INTERVAL) /\ age' = UpTo(age, GAP + 1)
      /\ late' = late + 1
      /\ UNCHANGED <<arrived, uart, packet, at, handed>>
  BY DEF Tick
<1>2. UNCHANGED <<arrived, uart, dlms_packet_buffer, dlms_packet_buffer_position,
                 at, handed>>
  BY <1>1 DEF packet
<1>3. /\ quiet \in 0 .. INTERVAL /\ age \in 0 .. GAP + 1 /\ late \in 0 .. LATENCY
  BY DEF Inv, TypeOK
<1>4. /\ quiet' \in 0 .. INTERVAL /\ quiet' <= quiet + 1
      /\ quiet' = quiet + 1 \/ quiet' = INTERVAL
      /\ age' \in 0 .. GAP + 1 /\ age' <= age + 1
      /\ age' <= GAP => age' = age + 1
      /\ late' \in 0 .. LATENCY
  BY <1>1, <1>3, Numbers DEF UpTo
<1>5. TypeOK'
  BY <1>2, <1>4 DEF Inv, TypeOK
<1>6. OnePushAtATime' /\ OneAfterAnother' /\ BytesOfOne'
  BY <1>2 DEF Inv, OnePushAtATime, Sent, OneAfterAnother, BytesOfOne,
              taken, current, position
<1>7. Quiet'
  <2>1. (\E k \in DOMAIN Lengths : Under(k))' => quiet' <= PAUSE
    BY <1>1, <1>2, <1>3, <1>4, Numbers DEF Under
  <2>2. age <= quiet => age' <= quiet'
    BY <1>3, <1>4, Numbers
  <2>3. age <= PAUSE + late => age' <= PAUSE + late'
    BY <1>1, <1>3, <1>4, Numbers
  <2> QED
    BY <1>2, <2>1, <2>2, <2>3 DEF Inv, Quiet, position
<1>8. Prompt'
  <2>1. uart' # << >> => quiet' <= late' + (IF at' = "read" THEN 0 ELSE LATENCY)
    BY <1>1, <1>2, <1>3, <1>4, Numbers DEF Inv, Prompt
  <2>2. ASSUME uart = << >>, position > 0
        PROVE  /\ age' <= GAP => quiet' <= age' + 2 * LATENCY
               /\ quiet' <= GAP + 2 * LATENCY + late'
    BY <1>1, <1>3, <1>4, <2>2, Numbers DEF Inv, Prompt
  <2> QED
    BY <1>2, <2>1, <2>2 DEF Prompt, position
<1> QED
  BY <1>5, <1>6, <1>7, <1>8 DEF Inv

(* Going in and out of a call, and finding the port empty.                 *)
LEMMA MoveInv ==
  ASSUME Inv, Enter \/ NothingToRead \/ Leave
  PROVE  Inv'
<1>1. UNCHANGED <<arrived, quiet, uart, dlms_packet_buffer,
                 dlms_packet_buffer_position, age, handed>>
  BY DEF Enter, NothingToRead, Leave, line, packet
<1>2. late' \in 0 .. LATENCY /\ at' \in {"out", "reading", "read"}
  BY Numbers DEF Inv, TypeOK, Enter, NothingToRead, Leave
<1>3. TypeOK'
  BY <1>1, <1>2 DEF Inv, TypeOK
<1>4. OnePushAtATime' /\ OneAfterAnother' /\ BytesOfOne'
  BY <1>1 DEF Inv, OnePushAtATime, Sent, OneAfterAnother, BytesOfOne,
              taken, current, position
<1>5. Quiet'
  <2>1. at' = "read" => uart = << >>
    BY DEF Enter, NothingToRead, Leave
  <2> QED
    BY <1>1, <2>1 DEF Inv, Quiet, position, Under
<1>6. Prompt'
  <2>1. CASE Enter
    <3>1. at = "out" /\ at' = "reading" /\ late' = late
      BY <2>1 DEF Enter
    <3> QED
      BY <1>1, <3>1 DEF Inv, Prompt, position
  <2>2. CASE NothingToRead
    <3>1. uart = << >> /\ late' = late
      BY <2>2 DEF NothingToRead
    <3> QED
      BY <1>1, <3>1 DEF Inv, Prompt, position
  <2>3. CASE Leave
    <3>1. at = "read" /\ at' = "out" /\ late' = 0 /\ ~ Complete
      BY <2>3 DEF Leave
    <3>2. uart # << >> => quiet <= LATENCY
      BY <3>1, Types, Numbers DEF Inv, Prompt
    <3>3. uart = << >> /\ position > 0 =>
            age <= GAP /\ quiet <= age + 2 * LATENCY /\ quiet <= GAP + 2 * LATENCY
      BY <3>1, Types, Numbers DEF Inv, Prompt, Complete, position
    <3> QED
      BY <1>1, <3>1, <3>2, <3>3, Types, Numbers DEF Prompt, position
  <2> QED
    BY <2>1, <2>2, <2>3
<1> QED
  BY <1>3, <1>4, <1>5, <1>6 DEF Inv

LEMMA ReadByteInv ==
  ASSUME Inv, ReadByte
  PROVE  Inv'
<1> DEFINE start == IF position < SIZE THEN position ELSE 0
<1>1. /\ at = "reading" /\ uart # << >>
      /\ dlms_packet_buffer' = [dlms_packet_buffer EXCEPT ![start + 1] = Head(uart)]
      /\ position' = start + 1
      /\ uart' = Tail(uart) /\ age' = 0
      /\ UNCHANGED <<arrived, quiet, at, late, handed>>
  BY DEF ReadByte, position, line
<1>2. /\ start \in Nat /\ start <= position /\ start < SIZE
      /\ start + 1 \in 1 .. SIZE
      /\ position < SIZE => start = position
      /\ ~ (position < SIZE) => start = 0 /\ position = SIZE
  BY Types, Numbers
<1> HIDE DEF start
<1>3. Len(handed) < Len(Lengths)
  BY <1>1, Types, Numbers DEF Inv, OneAfterAnother
<1>4. /\ taken \in Nat /\ position <= taken
      /\ taken <= SIZE => position = taken
      /\ \A i \in DOMAIN uart : uart[i] = <<current, taken + i>>
      /\ \A i \in 1 .. position :
           dlms_packet_buffer[i] = <<current, taken - position + i>>
  BY <1>3 DEF Inv, BytesOfOne
<1>5. /\ uart' \in Seq(Nat \X Nat) /\ Len(uart) > 0
      /\ Len(uart') = Len(uart) - 1 /\ DOMAIN uart' = 1 .. Len(uart) - 1
      /\ \A i \in 1 .. Len(uart) - 1 : uart'[i] = uart[i + 1]
      /\ Head(uart) \in Nat \X Nat /\ Head(uart) = uart[1]
  BY <1>1, Types
<1>6. Head(uart) = <<current, taken + 1>>
  <2>1. DOMAIN uart = 1 .. Len(uart) /\ Len(uart) \in Nat
    BY Types
  <2>2. 1 \in DOMAIN uart
    BY <1>5, <2>1
  <2> QED
    BY <1>4, <1>5, <2>2
<1>7. current' = current /\ taken' = taken + 1 /\ Len(handed') = Len(handed)
  <2>1. current' = current /\ arrived' = arrived /\ handed' = handed
    BY <1>1 DEF current
  <2>2. arrived[current] \in Nat
    BY <1>3, CurrentIsPush
  <2>3. \A x, y \in Nat : x - (y - 1) = (x - y) + 1
    OBVIOUS
  <2> QED
    BY <1>5, <2>1, <2>2, <2>3, Types DEF taken
<1>8. TypeOK'
  <2>1. dlms_packet_buffer' \in [1 .. SIZE -> Nat \X Nat]
    BY <1>1, <1>2, <1>5, Types
  <2>2. position' \in 0 .. SIZE /\ age' \in 0 .. GAP + 1
    BY <1>1, <1>2, Numbers
  <2>3. /\ arrived' = arrived /\ quiet' = quiet /\ at' = at /\ late' = late
        /\ handed' = handed
    BY <1>1
  <2> QED
    BY <1>5, <2>1, <2>2, <2>3 DEF Inv, TypeOK, position
<1>9. OnePushAtATime'
  BY <1>1 DEF Inv, OnePushAtATime, Sent
<1>10. OneAfterAnother'
  <2>1. Len(handed') < Len(Lengths)
    BY <1>3, <1>7
  <2> QED
    BY <1>1, <1>7, <2>1, Types, Numbers DEF Inv, OneAfterAnother
<1>11. BytesOfOne'
  <2>1. /\ taken' \in Nat /\ position' <= taken' /\ position' # 0
        /\ taken' <= SIZE => position' = taken'
    <3>1. position \in Nat /\ position <= SIZE /\ SIZE \in Nat
      BY Types, Numbers
    <3>2. taken' = taken + 1 /\ position' = start + 1
      BY <1>1, <1>7
    <3>3. taken + 1 <= SIZE => start = taken
      BY <1>2, <1>4, <3>1
    <3> QED
      BY <1>2, <1>4, <3>1, <3>2, <3>3
  <2>2. ASSUME NEW i \in DOMAIN uart' PROVE uart'[i] = <<current, taken' + i>>
    <3>1. i \in 1 .. Len(uart) - 1 /\ i + 1 \in DOMAIN uart
      <4>1. DOMAIN uart = 1 .. Len(uart) /\ Len(uart) \in Nat
        BY Types
      <4>2. i \in 1 .. Len(uart) - 1
        BY <1>5
      <4> QED
        BY <4>1, <4>2
    <3>2. uart'[i] = <<current, taken + (i + 1)>>
      BY <1>4, <1>5, <3>1
    <3>3. taken + (i + 1) = taken' + i
      BY <1>4, <1>7, <3>1
    <3> QED
      BY <3>2, <3>3
  <2>3. ASSUME NEW i \in 1 .. position'
        PROVE  dlms_packet_buffer'[i] = <<current, taken' - position' + i>>
    <3>1. CASE i = start + 1
      <4>1. dlms_packet_buffer'[i] = <<current, taken + 1>>
        BY <1>1, <1>2, <1>6, <3>1, Types
      <4>2. taken' - position' + i = taken + 1
        BY <1>1, <1>2, <1>4, <1>7, <3>1
      <4> QED
        BY <4>1, <4>2
    <3>2. CASE i # start + 1
      <4>1. /\ i \in 1 .. start /\ start > 0 /\ start = position
            /\ i \in 1 .. position /\ i \in 1 .. SIZE
        <5>1. position \in Nat /\ position <= SIZE /\ SIZE \in Nat /\ SIZE > 0
          BY Types, Numbers
        <5>2. i \in 1 .. start + 1
          BY <1>1
        <5>3. i \in 1 .. start /\ start > 0
          BY <1>2, <3>2, <5>2
        <5>4. start = position
          BY <1>2, <5>1, <5>3
        <5> QED
          BY <5>1, <5>3, <5>4
      <4>2. dlms_packet_buffer'[i] = dlms_packet_buffer[i]
        BY <1>1, <1>2, <3>2, <4>1, Types
      <4>3. dlms_packet_buffer[i] = <<current, taken - position + i>>
        BY <1>4, <4>1
      <4>4. taken - position = taken' - position'
        BY <1>1, <1>4, <1>7, <4>1, Types
      <4> QED
        BY <4>2, <4>3, <4>4
    <3> QED
      BY <3>1, <3>2
  <2> QED
    BY <1>7, <2>1, <2>2, <2>3 DEF BytesOfOne
<1>12. Quiet'
  BY <1>1, Types, Numbers DEF Inv, Quiet, Under
<1>13. Prompt'
  <2>1. quiet <= late + LATENCY
    BY <1>1, Types DEF Inv, Prompt
  <2>2. /\ quiet \in Nat /\ late \in Nat /\ late <= LATENCY
        /\ LATENCY \in Nat /\ GAP \in Nat
    BY Types, Numbers
  <2>3. age' = 0 /\ quiet' = quiet /\ late' = late /\ at' = "reading"
    BY <1>1
  <2>4. quiet <= 2 * LATENCY /\ quiet <= GAP + 2 * LATENCY + late
    BY <2>1, <2>2
  <2> QED
    BY <2>1, <2>2, <2>3, <2>4 DEF Prompt
<1> QED
  BY <1>8, <1>9, <1>10, <1>11, <1>12, <1>13 DEF Inv

(* A packet that is old enough is a push that has come in to its end.      *)
LEMMA CompleteIsWhole ==
  ASSUME Inv, at = "read", Complete
  PROVE  /\ uart = << >> /\ position > 0 /\ Len(handed) < Len(Lengths)
         /\ taken = Lengths[current] /\ arrived[current] = Lengths[current]
<1>1. age > GAP /\ position > 0
  BY DEF Complete, position
<1>2. uart = << >>
  BY <1>1, Types, Numbers DEF Inv, Quiet
<1>3. quiet > PAUSE
  BY <1>1, <1>2, Types, Numbers DEF Inv, Quiet
<1>4. Len(handed) < Len(Lengths)
  BY <1>1, Types, Numbers DEF Inv, OneAfterAnother
<1>5. current \in DOMAIN Lengths /\ ~ Under(current)
  <2>1. Len(handed) \in Nat /\ Len(Lengths) \in Nat
    BY Types, Numbers
  <2>2. current \in 1 .. Len(Lengths)
    BY <1>4, <2>1 DEF current
  <2>3. current \in DOMAIN Lengths
    BY <2>2, Numbers
  <2>4. quiet \in Nat /\ PAUSE \in Nat
    BY Types, Numbers
  <2> QED
    BY <1>3, <2>3, <2>4 DEF Inv, Quiet
<1>6. taken = arrived[current] /\ arrived[current] \in Nat
  BY <1>2, <1>5, Types DEF taken
<1>7. arrived[current] > 0
  BY <1>1, <1>4, <1>6, Types DEF Inv, BytesOfOne
<1>8. arrived[current] <= Lengths[current]
  BY <1>5 DEF Inv, TypeOK
<1> QED
  BY <1>1, <1>2, <1>4, <1>5, <1>6, <1>7, <1>8, Numbers DEF Under

LEMMA HandOverInv ==
  ASSUME Inv, HandOver
  PROVE  Inv'
<1> DEFINE bytes == SubSeq(dlms_packet_buffer, 1, position)
           n == Lengths[current]
<1>1. /\ at = "read" /\ Complete
      /\ handed' = Append(handed, bytes)
      /\ position' = 0 /\ at' = "out" /\ late' = 0
      /\ UNCHANGED <<arrived, quiet, uart, dlms_packet_buffer, age>>
  BY DEF HandOver, line, position
<1>2. /\ uart = << >> /\ position > 0 /\ Len(handed) < Len(Lengths)
      /\ taken = n /\ arrived[current] = n
  BY <1>1, CompleteIsWhole
<1>3. /\ position \in Nat /\ position <= SIZE /\ SIZE \in Nat
      /\ handed \in Seq(Seq(Nat \X Nat)) /\ Len(handed) \in Nat
      /\ Len(Lengths) \in Nat /\ DOMAIN Lengths = 1 .. Len(Lengths)
  BY Types, Numbers
<1>4. current \in 1 .. Len(Lengths) /\ current \in DOMAIN Lengths /\ current \in Nat
  BY <1>2, <1>3 DEF current
<1>5. n \in Nat /\ n > 0
  BY <1>4, Numbers
<1>6. /\ position <= n
      /\ (n <= SIZE) => (position = n)
      /\ \A i \in 1 .. position :
           dlms_packet_buffer[i] = <<current, n - position + i>>
  BY <1>2 DEF Inv, BytesOfOne
<1>7. /\ bytes \in Seq(Nat \X Nat) /\ Len(bytes) = position
      /\ \A i \in 1 .. position : bytes[i] = dlms_packet_buffer[i]
  <2>1. dlms_packet_buffer \in Seq(Nat \X Nat) /\ Len(dlms_packet_buffer) = SIZE
    BY <1>3, Types
  <2> QED
    BY <1>3, <2>1
<1>8. /\ Sent(current) \in Seq(Nat \X Nat) /\ Len(Sent(current)) = n
      /\ \A i \in 1 .. n : Sent(current)[i] = <<current, i>>
  BY <1>4, <1>5 DEF Sent
<1> HIDE DEF bytes, n
<1>9. IF n <= SIZE THEN bytes = Sent(current) ELSE IsSuffix(bytes, Sent(current))
  <2>1. ASSUME NEW i \in 1 .. position
        PROVE  bytes[i] = Sent(current)[n - position + i]
    <3>1. n - position + i \in 1 .. n
      BY <1>3, <1>5, <1>6
    <3> QED
      BY <1>6, <1>7, <1>8, <3>1
  <2>2. CASE n <= SIZE
    <3>1. position = n
      BY <1>6, <2>2
    <3>2. \A i \in 1 .. n : n - position + i = i
      BY <1>5, <3>1
    <3>3. \A i \in 1 .. Len(bytes) : bytes[i] = Sent(current)[i]
      BY <1>7, <2>1, <3>1, <3>2
    <3>4. bytes = Sent(current)
      BY <1>7, <1>8, <3>1, <3>3, SeqEqual
    <3> QED
      BY <2>2, <3>4
  <2>3. CASE ~ (n <= SIZE)
    <3>1. Len(bytes) <= Len(Sent(current))
      BY <1>6, <1>7, <1>8
    <3>2. \A i \in 1 .. Len(bytes) :
            bytes[i] = Sent(current)[Len(Sent(current)) - Len(bytes) + i]
      BY <1>7, <1>8, <2>1
    <3>3. IsSuffix(bytes, Sent(current))
      BY <1>7, <1>8, <3>1, <3>2, LastBytesAreSuffix
    <3> QED
      BY <2>3, <3>3
  <2> QED
    BY <2>2, <2>3
<1>10. /\ handed' \in Seq(Seq(Nat \X Nat)) /\ Len(handed') = current
       /\ handed'[current] = bytes
       /\ \A k \in 1 .. Len(handed) : handed'[k] = handed[k]
       /\ DOMAIN handed' = 1 .. Len(handed) + 1
  BY <1>1, <1>3, <1>7 DEF current
<1>11. TypeOK'
  <2>1. late' \in 0 .. LATENCY /\ dlms_packet_buffer_position' \in 0 .. SIZE
    BY <1>1, <1>3, Numbers DEF position
  <2> QED
    BY <1>1, <1>10, <2>1 DEF Inv, TypeOK
<1>12. OnePushAtATime'
  <2>1. Len(handed') <= Len(Lengths)
    BY <1>4, <1>10
  <2>2. ASSUME NEW k \in 1 .. Len(handed)
        PROVE  IF Lengths[k] <= SIZE THEN handed'[k] = Sent(k)
               ELSE IsSuffix(handed'[k], Sent(k))
    <3>1. k \in DOMAIN handed /\ handed'[k] = handed[k]
      BY <1>3, <1>10
    <3> QED
      BY <3>1 DEF Inv, OnePushAtATime
  <2>3. \A k \in DOMAIN handed' : k \in 1 .. Len(handed) \/ k = current
    BY <1>3, <1>10 DEF current
  <2> QED
    BY <1>9, <1>10, <2>1, <2>2, <2>3 DEF OnePushAtATime, n, Sent
<1>13. current' = current + 1
  BY <1>10 DEF current
<1>14. OneAfterAnother'
  <2>1. \A k \in 1 .. Len(handed') : arrived[k] = Lengths[k]
    <3>1. \A k \in 1 .. Len(handed') : k \in 1 .. Len(handed) \/ k = current
      BY <1>3, <1>10 DEF current
    <3> QED
      BY <1>2, <3>1 DEF Inv, OneAfterAnother, n
  <2>2. \A k \in DOMAIN Lengths : k > current' => arrived[k] = 0
    <3>1. \A k \in DOMAIN Lengths : k > current' => k > current
      BY <1>3, <1>4, <1>13
    <3> QED
      BY <3>1 DEF Inv, OneAfterAnother
  <2> QED
    BY <1>1, <1>2, <1>4, <1>10, <2>1, <2>2 DEF OneAfterAnother
<1>15. BytesOfOne'
  <2> SUFFICES ASSUME Len(handed') < Len(Lengths) PROVE
        /\ taken' = 0 /\ position' = 0 /\ DOMAIN uart' = {} /\ 1 .. position' = {}
    BY <1>1 DEF BytesOfOne
  <2>1. current + 1 \in DOMAIN Lengths /\ current + 1 > current
    BY <1>3, <1>4, <1>10
  <2>2. arrived'[current'] = 0
    BY <1>1, <1>13, <2>1 DEF Inv, OneAfterAnother
  <2>3. uart' = << >> /\ Len(uart') = 0 /\ DOMAIN uart' = {}
    BY <1>1, <1>2
  <2>4. taken' = arrived'[current'] - Len(uart')
    BY DEF taken
  <2>5. taken' = 0
    BY <2>2, <2>3, <2>4
  <2> QED
    BY <1>1, <2>3, <2>5
<1>16. Quiet' /\ Prompt'
  BY <1>1, <1>2 DEF Inv, Quiet, Prompt, Under
<1> QED
  BY <1>11, <1>12, <1>14, <1>15, <1>16 DEF Inv

LEMMA NextInv ==
  ASSUME Inv, [Next]_vars
  PROVE  Inv'
<1>1. CASE UNCHANGED vars
  BY <1>1 DEF vars, line, packet, Inv, TypeOK, OnePushAtATime, Sent,
     OneAfterAnother, BytesOfOne, Quiet, Prompt, Under, current, taken, position
<1>2. CASE Arrive
  BY <1>2, ArriveInv
<1>3. CASE Tick
  BY <1>3, TickInv
<1>4. CASE loop
  BY <1>4, MoveInv, ReadByteInv, HandOverInv DEF loop
<1> QED
  BY <1>1, <1>2, <1>3, <1>4 DEF Next

THEOREM Invariance == Spec => []Inv
<1>1. Inv /\ [Next]_vars => Inv'
  BY NextInv
<1> QED
  BY InitInv, <1>1, PTL DEF Spec

(* The position never leaves the packet buffer, whatever arrives.          *)
THEOREM TypeCorrect == Spec => []TypeOK
<1>1. Inv => TypeOK
  BY DEF Inv
<1> QED
  BY Invariance, <1>1, PTL

(* With the times the code relies on, the parser gets the pushes one by    *)
(* one and each of them whole, or its end if the buffer is too small.      *)
THEOREM HandsOverOneByOne == Spec => []OnePushAtATime
<1>1. Inv => OnePushAtATime
  BY DEF Inv
<1> QED
  BY Invariance, <1>1, PTL

-----------------------------------------------------------------------------
(* The pattern table.                                                      *)

LEMMA SmallestNat ==
  ASSUME NEW T, T \subseteq Nat, T # {}
  PROVE  \E x \in T : \A y \in T : x <= y
<1>1. PICK x \in T : \A y \in T : ~ (<<y, x>> \in OpToRel(<, Nat))
  BY WFMin, NatLessThanWellFounded
<1>2. ASSUME NEW y \in T PROVE x <= y
  <2>1. ~ (y < x)
    BY <1>1 DEF OpToRel
  <2> QED
    BY <2>1
<1> QED
  BY <1>2

LEMMA PatternFields ==
  ASSUME NEW pat \in Pattern
  PROVE  /\ pat.number \in Nat /\ pat.priority \in Int
         /\ pat.default_obis \in ObisIds
BY DEF Pattern

LEMMA WithDefaultObis ==
  ASSUME NEW pat \in Pattern, NEW obis \in ObisIds
  PROVE  /\ [pat EXCEPT !.default_obis = obis] \in Pattern
         /\ [pat EXCEPT !.default_obis = obis].number = pat.number
         /\ [pat EXCEPT !.default_obis = obis].priority = pat.priority
BY DEF Pattern

(* The loop of insert_pattern_ finds a place in every table.               *)
LEMMA InsertPos ==
  ASSUME RegistryTypeOK, NEW pat \in Pattern
  PROVE  IsInsertPos(insert_pos(pat), pat)
<1> DEFINE later == {k \in 0 .. Len(patterns) - 1 :
                       patterns[k + 1].priority > pat.priority}
<1>1. Len(patterns) \in Nat
  BY DEF RegistryTypeOK
<1>2. ASSUME NEW i \in 1 .. Len(patterns)
      PROVE  patterns[i].priority \in Int /\ pat.priority \in Int
  <2>1. patterns[i] \in Pattern
    BY DEF RegistryTypeOK
  <2> QED
    BY <2>1, PatternFields
<1>3. CASE later = {}
  <2>1. ASSUME NEW i \in 1 .. Len(patterns)
        PROVE  patterns[i].priority <= pat.priority
    <3>1. i - 1 \in 0 .. Len(patterns) - 1 /\ (i - 1) + 1 = i
      BY <1>1
    <3>2. ~ (patterns[i].priority > pat.priority)
      BY <1>3, <3>1
    <3> QED
      BY <1>2, <3>2
  <2>2. IsInsertPos(Len(patterns), pat)
    BY <1>1, <2>1 DEF IsInsertPos
  <2> QED
    BY <1>1, <2>2 DEF insert_pos, IsInsertPos
<1>4. CASE later # {}
  <2>1. PICK k \in later : \A m \in later : k <= m
    <3>1. later \subseteq Nat
      BY <1>1
    <3> HIDE DEF later
    <3> QED
      BY <1>4, <3>1, SmallestNat
  <2>2. ASSUME NEW i \in 1 .. k
        PROVE  patterns[i].priority <= pat.priority
    <3>1. /\ i - 1 \in 0 .. Len(patterns) - 1 /\ (i - 1) + 1 = i
          /\ ~ (k <= i - 1) /\ i \in 1 .. Len(patterns)
      BY <1>1, <2>1
    <3>2. ~ (patterns[i].priority > pat.priority)
      BY <2>1, <3>1
    <3> QED
      BY <1>2, <3>1, <3>2
  <2>3. IsInsertPos(k, pat)
    BY <1>1, <2>1, <2>2 DEF IsInsertPos
  <2> QED
    BY <1>1, <2>1, <2>3 DEF insert_pos, IsInsertPos
<1> QED
  BY <1>3, <1>4

-----------------------------------------------------------------------------
(* Numbers are given out once, so that a number stands for a registration. *)
Numbered ==
  /\ \A i \in 1 .. Len(patterns) : patterns[i].number <= number
  /\ \A r \in registered : r.number <= number
  /\ \A i \in 1 .. Len(patterns), r \in registered :
       patterns[i].number = r.number => patterns[i].priority = r.priority

RegistryInv == RegistryTypeOK /\ TriedInOrder /\ KeepsTheFirst /\ Numbered

LEMMA RegistryInitInv == RegistryInit => RegistryInv
<1> SUFFICES ASSUME RegistryInit PROVE RegistryInv
  OBVIOUS
<1>1. << >> \in Seq(Pattern) /\ Len(<< >>) = 0
  OBVIOUS
<1>2. patterns \in Seq(Pattern) /\ Len(patterns) = 0 /\ registered = {}
  BY <1>1 DEF RegistryInit
<1> QED
  BY <1>2, RegistryAssumption
  DEF RegistryInit, RegistryInv, RegistryTypeOK, TriedInOrder, KeepsTheFirst, Numbered

(* A registration, as it looks at the parts of a pattern that the order    *)
(* depends on: either no place is left for the new pattern, or those up to *)
(* some place k stay, the new one comes next, the others move by one.      *)
SameRank(p, q) == p.number = q.number /\ p.priority = q.priority

NoPlaceFor(pat) ==
  /\ Full
  /\ Len(patterns') = Len(patterns)
  /\ \A i \in 1 .. Len(patterns) :
       /\ SameRank(patterns'[i], patterns[i])
       /\ patterns[i].priority <= pat.priority

PlacedAfter(k, pat) ==
  /\ k \in 0 .. Len(patterns) /\ k < Len(patterns')
  /\ Len(patterns') = IF Full THEN Len(patterns) ELSE Len(patterns) + 1
  /\ \A i \in 1 .. k : patterns[i].priority <= pat.priority
  /\ k < Len(patterns) => patterns[k + 1].priority > pat.priority
  /\ \A i \in 1 .. k : SameRank(patterns'[i], patterns[i])
  /\ SameRank(patterns'[k + 1], pat)
  /\ \A i \in k + 2 .. Len(patterns') : SameRank(patterns'[i], patterns[i - 1])

Registration(pat) ==
  /\ pat \in Pattern
  /\ pat.number = number + 1
  /\ number' = number + 1
  /\ registered' = registered \cup {pat}
  /\ patterns' \in Seq(Pattern)
  /\ NoPlaceFor(pat) \/ \E k \in 0 .. Len(patterns) : PlacedAfter(k, pat)

LEMMA InsertType ==
  ASSUME RegistryTypeOK, NEW pat \in Pattern, NEW k \in 0 .. Len(patterns),
         Full => k < MAX_PATTERNS
  PROVE  /\ Inserted(pat, k) \in Seq(Pattern)
         /\ Len(Inserted(pat, k)) =
              IF Full THEN Len(patterns) ELSE Len(patterns) + 1
         /\ k < Len(Inserted(pat, k))
<1> DEFINE n == IF Full THEN MAX_PATTERNS ELSE Len(patterns) + 1
<1>1. n \in Nat /\ Len(patterns) \in Nat /\ MAX_PATTERNS \in Nat
  BY RegistryAssumption DEF RegistryTypeOK
<1>2. n = IF Full THEN Len(patterns) ELSE Len(patterns) + 1
  BY DEF Full
<1>3. ASSUME NEW j \in 1 .. n
      PROVE  (IF j <= k THEN patterns[j]
              ELSE IF j = k + 1 THEN pat ELSE patterns[j - 1]) \in Pattern
  <2>1. CASE j <= k
    BY <1>1, <2>1 DEF RegistryTypeOK
  <2>2. CASE j = k + 1
    BY <1>1, <2>2
  <2>3. CASE j > k + 1
    <3>1. j - 1 \in 1 .. Len(patterns)
      BY <1>1, <1>2, <2>3
    <3> QED
      BY <1>1, <2>3, <3>1 DEF RegistryTypeOK
  <2> QED
    BY <1>1, <2>1, <2>2, <2>3
<1>4. Inserted(pat, k) \in [1 .. n -> Pattern]
  BY <1>3 DEF Inserted
<1> HIDE DEF n
<1>5. Inserted(pat, k) \in Seq(Pattern) /\ Len(Inserted(pat, k)) = n
  BY <1>1, <1>4
<1>6. k < n
  BY <1>1, <1>2 DEF Full
<1> QED
  BY <1>2, <1>5, <1>6

(* Writing the default OBIS of one slot leaves numbers and priorities.     *)
LEMMA DefaultWritten ==
  ASSUME NEW U \in Seq(Pattern), NEW j, NEW obis \in ObisIds
  PROVE  /\ WithDefault(U, j, obis) \in Seq(Pattern)
         /\ Len(WithDefault(U, j, obis)) = Len(U)
         /\ \A i \in 1 .. Len(U) : SameRank(WithDefault(U, j, obis)[i], U[i])
<1> DEFINE V == WithDefault(U, j, obis)
<1>1. U \in [1 .. Len(U) -> Pattern] /\ Len(U) \in Nat
  OBVIOUS
<1>2. ASSUME NEW i \in 1 .. Len(U)
      PROVE  V[i] \in Pattern /\ SameRank(V[i], U[i])
  <2>1. V[i] = IF i = j THEN [U[i] EXCEPT !.default_obis = obis] ELSE U[i]
    BY <1>1 DEF WithDefault
  <2>2. U[i] \in Pattern
    BY <1>1
  <2> QED
    BY <2>1, <2>2, WithDefaultObis DEF SameRank
<1>3. V = [i \in 1 .. Len(U) |-> V[i]]
  BY <1>1 DEF WithDefault
<1>4. V \in [1 .. Len(U) -> Pattern]
  BY <1>2, <1>3
<1>5. V \in Seq(Pattern) /\ Len(V) = Len(U)
  BY <1>1, <1>4
<1> QED
  BY <1>2, <1>5

(* What insert_pattern_ makes of the table, up to default OBISes.          *)
LEMMA InsertIsRegistration ==
  ASSUME RegistryInv, NEW pat \in Pattern,
         insert_pattern_(pat) \in Seq(Pattern),
         patterns' \in Seq(Pattern),
         Len(patterns') = Len(insert_pattern_(pat)),
         \A i \in 1 .. Len(patterns') :
           SameRank(patterns'[i], insert_pattern_(pat)[i])
  PROVE  NoPlaceFor(pat) \/ \E k \in 0 .. Len(patterns) : PlacedAfter(k, pat)
<1> DEFINE k == insert_pos(pat)
<1>1. IsInsertPos(k, pat)
  BY InsertPos DEF RegistryInv
<1>2. /\ Len(patterns) \in Nat /\ Len(patterns) <= MAX_PATTERNS
      /\ MAX_PATTERNS \in Nat /\ k \in 0 .. Len(patterns)
  BY <1>1, RegistryAssumption DEF RegistryInv, RegistryTypeOK, IsInsertPos
<1>3. CASE Full /\ k = MAX_PATTERNS
  <2>1. insert_pattern_(pat) = patterns
    BY <1>3 DEF insert_pattern_
  <2>2. \A i \in 1 .. Len(patterns) : patterns[i].priority <= pat.priority
    BY <1>1, <1>3 DEF IsInsertPos, Full
  <2> QED
    BY <1>3, <2>1, <2>2 DEF NoPlaceFor
<1>4. CASE ~ (Full /\ k = MAX_PATTERNS)
  <2>1. insert_pattern_(pat) = Inserted(pat, k)
    BY <1>4 DEF insert_pattern_
  <2> DEFINE T == Inserted(pat, k)
  <2>2. Full => k < MAX_PATTERNS
    BY <1>2, <1>4 DEF Full
  <2> HIDE DEF k
  <2>3. /\ Len(T) = IF Full THEN Len(patterns) ELSE Len(patterns) + 1
        /\ k < Len(T)
    BY <1>2, <2>2, InsertType DEF RegistryInv
  <2>4. ASSUME NEW i \in 1 .. Len(T)
        PROVE  T[i] = IF i <= k THEN patterns[i]
                      ELSE IF i = k + 1 THEN pat ELSE patterns[i - 1]
    <3>1. i \in 1 .. (IF Full THEN MAX_PATTERNS ELSE Len(patterns) + 1)
      BY <2>3 DEF Full
    <3> QED
      BY <3>1 DEF Inserted
  <2>5. /\ Len(patterns') = Len(T)
        /\ \A i \in 1 .. Len(T) : SameRank(patterns'[i], T[i])
    BY <2>1
  <2>6. /\ \A i \in 1 .. k : patterns[i].priority <= pat.priority
        /\ k < Len(patterns) => patterns[k + 1].priority > pat.priority
    BY <1>1 DEF IsInsertPos
  <2> HIDE DEF T
  <2>7. ASSUME NEW i \in 1 .. k PROVE SameRank(patterns'[i], patterns[i])
    <3>1. i \in 1 .. Len(T) /\ i <= k
      BY <1>2, <2>3
    <3> QED
      BY <2>4, <2>5, <3>1
  <2>8. SameRank(patterns'[k + 1], pat)
    <3>1. k + 1 \in 1 .. Len(T) /\ ~ (k + 1 <= k)
      BY <1>2, <2>3
    <3> QED
      BY <2>4, <2>5, <3>1
  <2>9. ASSUME NEW i \in k + 2 .. Len(patterns')
        PROVE  SameRank(patterns'[i], patterns[i - 1])
    <3>1. i \in 1 .. Len(T) /\ ~ (i <= k) /\ i # k + 1
      BY <1>2, <2>3, <2>5
    <3> QED
      BY <2>4, <2>5, <3>1
  <2>10. PlacedAfter(k, pat)
    BY <1>2, <2>3, <2>5, <2>6, <2>7, <2>8, <2>9 DEF PlacedAfter
  <2> QED
    BY <1>2, <2>10
<1> QED
  BY <1>3, <1>4

LEMMA InsertedTable ==
  ASSUME RegistryTypeOK, NEW pat \in Pattern
  PROVE  insert_pattern_(pat) \in Seq(Pattern)
<1>1. insert_pos(pat) \in 0 .. Len(patterns)
  BY InsertPos DEF IsInsertPos
<1>2. CASE Full /\ insert_pos(pat) = MAX_PATTERNS
  BY <1>2 DEF insert_pattern_, RegistryTypeOK
<1>3. CASE ~ (Full /\ insert_pos(pat) = MAX_PATTERNS)
  <2>1. Full => insert_pos(pat) < MAX_PATTERNS
    BY <1>1, <1>3, RegistryAssumption DEF Full
  <2> QED
    BY <1>1, <1>3, <2>1, InsertType DEF insert_pattern_
<1> QED
  BY <1>2, <1>3

LEMMA RegisterIsRegistration ==
  ASSUME RegistryInv, NEW p \in Priorities, NEW obis \in ObisIds,
         register_pattern(p, obis)
  PROVE  Registration(New(p, obis))
<1> DEFINE pat == New(p, NoObis)
<1>1. /\ pat \in Pattern /\ New(p, obis) \in Pattern
      /\ New(p, obis).number = number + 1
      /\ SameRank(pat, New(p, obis))
  BY RegistryAssumption DEF New, Pattern, RegistryInv, RegistryTypeOK, SameRank
<1>2. /\ patterns' = WithDefault(insert_pattern_(pat), Returned(pat), obis)
      /\ registered' = registered \cup {New(p, obis)}
      /\ number' = number + 1
  BY DEF register_pattern
<1>3. insert_pattern_(pat) \in Seq(Pattern)
  BY <1>1, InsertedTable DEF RegistryInv
<1> HIDE DEF pat
<1>4. /\ patterns' \in Seq(Pattern)
      /\ Len(patterns') = Len(insert_pattern_(pat))
      /\ \A i \in 1 .. Len(patterns') :
           SameRank(patterns'[i], insert_pattern_(pat)[i])
  BY <1>2, <1>3, DefaultWritten
<1>5. NoPlaceFor(pat) \/ \E k \in 0 .. Len(patterns) : PlacedAfter(k, pat)
  BY <1>1, <1>3, <1>4, InsertIsRegistration
<1>6. NoPlaceFor(pat) => NoPlaceFor(New(p, obis))
  BY <1>1 DEF NoPlaceFor, SameRank
<1>7. ASSUME NEW k \in 0 .. Len(patterns), PlacedAfter(k, pat)
      PROVE  PlacedAfter(k, New(p, obis))
  BY <1>1, <1>7 DEF PlacedAfter, SameRank
<1> QED
  BY <1>1, <1>2, <1>4, <1>5, <1>6, <1>7 DEF Registration

LEMMA FlatIsRegistration ==
  ASSUME RegistryInv, NEW p \in Priorities, register_flat_positional_pattern(p)
  PROVE  Registration(New(p, NoObis))
<1> DEFINE pat == New(p, NoObis)
<1>1. pat \in Pattern /\ pat.number = number + 1
  BY RegistryAssumption DEF New, Pattern, RegistryInv, RegistryTypeOK
<1>2. /\ patterns' = insert_pattern_(pat)
      /\ registered' = registered \cup {pat}
      /\ number' = number + 1
  BY DEF register_flat_positional_pattern
<1>3. insert_pattern_(pat) \in Seq(Pattern)
  BY <1>1, InsertedTable DEF RegistryInv
<1> HIDE DEF pat
<1>4. \A i \in 1 .. Len(patterns') :
        SameRank(patterns'[i], insert_pattern_(pat)[i])
  BY <1>2 DEF SameRank
<1>5. NoPlaceFor(pat) \/ \E k \in 0 .. Len(patterns) : PlacedAfter(k, pat)
  BY <1>1, <1>2, <1>3, <1>4, InsertIsRegistration
<1>6. Registration(pat)
  BY <1>1, <1>2, <1>3, <1>5 DEF Registration
<1> QED
  BY <1>6 DEF pat

-----------------------------------------------------------------------------
LEMMA BeforeIsTransitive ==
  ASSUME NEW p \in Pattern, NEW q \in Pattern, NEW r \in Pattern,
         Before(p, q), Before(q, r)
  PROVE  Before(p, r)
BY PatternFields DEF Before

(* A pattern that was no place for, and all that is in the table.          *)
LEMMA RejectedKeepsInv ==
  ASSUME RegistryInv, NEW pat, Registration(pat), NoPlaceFor(pat)
  PROVE  RegistryInv'
<1>1. /\ patterns \in Seq(Pattern) /\ patterns' \in Seq(Pattern)
      /\ registered \subseteq Pattern /\ pat \in Pattern
      /\ number \in Nat /\ number' = number + 1 /\ pat.number = number + 1
      /\ registered' = registered \cup {pat}
      /\ Len(patterns') = Len(patterns) /\ Len(patterns) <= MAX_PATTERNS
  BY DEF RegistryInv, RegistryTypeOK, Registration, NoPlaceFor
<1>2. ASSUME NEW i \in 1 .. Len(patterns)
      PROVE  /\ patterns[i] \in Pattern /\ patterns'[i] \in Pattern
             /\ SameRank(patterns'[i], patterns[i])
             /\ patterns[i].number <= number
             /\ Before(patterns'[i], pat)
  <2>1. /\ patterns[i] \in Pattern /\ patterns'[i] \in Pattern
        /\ SameRank(patterns'[i], patterns[i])
        /\ patterns[i].number <= number
        /\ patterns[i].priority <= pat.priority
    BY <1>1 DEF NoPlaceFor, RegistryInv, Numbered
  <2> QED
    BY <1>1, <2>1, PatternFields DEF Before, SameRank
<1>3. RegistryTypeOK'
  BY <1>1 DEF RegistryTypeOK
<1>4. TriedInOrder'
  <2> SUFFICES ASSUME NEW i \in 1 .. Len(patterns),
                      NEW j \in 1 .. Len(patterns), i < j
               PROVE  Before(patterns'[i], patterns'[j])
    BY <1>1 DEF TriedInOrder
  <2>1. Before(patterns[i], patterns[j])
    BY DEF RegistryInv, TriedInOrder
  <2> QED
    BY <1>2, <2>1 DEF Before, SameRank
<1>5. KeepsTheFirst'
  <2> SUFFICES ASSUME NEW r \in registered', ~ Kept(r)'
               PROVE  /\ Full'
                      /\ \A i \in 1 .. Len(patterns) : Before(patterns'[i], r)
    BY <1>1 DEF KeepsTheFirst
  <2>1. Full'
    BY <1>1 DEF NoPlaceFor, Full
  <2>2. ASSUME NEW i \in 1 .. Len(patterns), r \in registered
        PROVE  Before(patterns'[i], r)
    <3>1. ~ Kept(r)
      BY <1>1, <1>2 DEF Kept, SameRank
    <3>2. Before(patterns[i], r)
      BY <2>2, <3>1 DEF RegistryInv, KeepsTheFirst
    <3> QED
      BY <1>2, <3>2 DEF Before, SameRank
  <2> QED
    BY <1>1, <1>2, <2>1, <2>2
<1>6. Numbered'
  <2>1. ASSUME NEW i \in 1 .. Len(patterns)
        PROVE  patterns'[i].number <= number + 1
    BY <1>1, <1>2, PatternFields DEF SameRank
  <2>2. ASSUME NEW r \in registered' PROVE r.number <= number + 1
    <3>1. r \in registered => r.number <= number /\ r.number \in Nat
      BY <1>1, PatternFields DEF RegistryInv, Numbered
    <3> QED
      BY <1>1, <3>1
  <2>3. ASSUME NEW i \in 1 .. Len(patterns), NEW r \in registered',
               patterns'[i].number = r.number
        PROVE  patterns'[i].priority = r.priority
    <3>1. r # pat
      BY <1>1, <1>2, <2>3, PatternFields DEF SameRank
    <3> QED
      BY <1>1, <1>2, <2>3, <3>1 DEF RegistryInv, Numbered, SameRank
  <2> QED
    BY <1>1, <2>1, <2>2, <2>3 DEF Numbered
<1> QED
  BY <1>3, <1>4, <1>5, <1>6 DEF RegistryInv

(* A pattern that was placed after the first k: the last one of a full     *)
(* table is lost, and comes after everything that stays.                   *)
LEMMA PlacedKeepsInv ==
  ASSUME RegistryInv, NEW pat, Registration(pat),
         NEW k \in 0 .. Len(patterns), PlacedAfter(k, pat)
  PROVE  RegistryInv'
<1> DEFINE n == Len(patterns)
           old(i) == IF i <= k THEN i ELSE i - 1
<1>1. /\ patterns \in Seq(Pattern) /\ patterns' \in Seq(Pattern)
      /\ registered \subseteq Pattern /\ pat \in Pattern
      /\ number \in Nat /\ number' = number + 1 /\ pat.number = number + 1
      /\ registered' = registered \cup {pat}
      /\ n \in Nat /\ n <= MAX_PATTERNS /\ MAX_PATTERNS \in Nat
  BY RegistryAssumption DEF RegistryInv, RegistryTypeOK, Registration
<1>2. /\ Len(patterns') = IF n = MAX_PATTERNS THEN n ELSE n + 1
      /\ k < Len(patterns') /\ k + 1 \in 1 .. Len(patterns')
      /\ SameRank(patterns'[k + 1], pat)
  BY <1>1 DEF PlacedAfter, Full
<1>3. ASSUME NEW i \in 1 .. n
      PROVE  /\ patterns[i] \in Pattern /\ patterns[i].number <= number
             /\ i <= k => Before(patterns[i], pat)
             /\ i > k => Before(pat, patterns[i])
  <2>1. patterns[i] \in Pattern /\ patterns[i].number <= number
    BY <1>1 DEF RegistryInv, Numbered
  <2>2. CASE i <= k
    <3>1. patterns[i].priority <= pat.priority
      BY <1>1, <2>2 DEF PlacedAfter
    <3> QED
      BY <1>1, <2>1, <2>2, <3>1, PatternFields DEF Before
  <2>3. CASE i > k
    <3>1. /\ k + 1 \in 1 .. n /\ patterns[k + 1] \in Pattern
          /\ patterns[k + 1].priority > pat.priority
      BY <1>1, <2>3 DEF PlacedAfter
    <3>2. Before(pat, patterns[k + 1])
      BY <1>1, <3>1, PatternFields DEF Before
    <3>3. i = k + 1 \/ Before(patterns[k + 1], patterns[i])
      BY <1>1, <2>3, <3>1 DEF RegistryInv, TriedInOrder
    <3> QED
      BY <1>1, <2>1, <2>3, <3>1, <3>2, <3>3, BeforeIsTransitive
  <2> QED
    BY <1>1, <2>1, <2>2, <2>3
<1>4. ASSUME NEW i \in 1 .. Len(patterns'), i # k + 1
      PROVE  /\ old(i) \in 1 .. n /\ SameRank(patterns'[i], patterns[old(i)])
             /\ i <= k <=> old(i) <= k
  <2>1. CASE i <= k
    BY <1>1, <2>1 DEF PlacedAfter
  <2>2. CASE i > k
    <3>1. i \in k + 2 .. Len(patterns') /\ i - 1 \in 1 .. n
      BY <1>1, <1>2, <1>4, <2>2
    <3> QED
      BY <1>1, <2>2, <3>1 DEF PlacedAfter
  <2> QED
    BY <1>1, <2>1, <2>2
<1>5. RegistryTypeOK'
  BY <1>1, <1>2 DEF RegistryTypeOK
<1>6. TriedInOrder'
  <2> SUFFICES ASSUME NEW i \in 1 .. Len(patterns'),
                      NEW j \in 1 .. Len(patterns'), i < j
               PROVE  Before(patterns'[i], patterns'[j])
    BY DEF TriedInOrder
  <2>1. CASE i = k + 1
    <3>1. old(j) \in 1 .. n /\ old(j) > k
          /\ SameRank(patterns'[j], patterns[old(j)])
      BY <1>1, <1>4, <2>1
    <3> HIDE DEF old
    <3>2. Before(pat, patterns[old(j)])
      BY <1>3, <3>1
    <3> QED
      BY <1>2, <2>1, <3>1, <3>2 DEF Before, SameRank
  <2>2. CASE j = k + 1
    <3>1. old(i) \in 1 .. n /\ old(i) <= k
          /\ SameRank(patterns'[i], patterns[old(i)])
      BY <1>1, <1>4, <2>2
    <3> HIDE DEF old
    <3>2. Before(patterns[old(i)], pat)
      BY <1>3, <3>1
    <3> QED
      BY <1>2, <2>2, <3>1, <3>2 DEF Before, SameRank
  <2>3. CASE i # k + 1 /\ j # k + 1
    <3>1. /\ old(i) \in 1 .. n /\ old(j) \in 1 .. n /\ old(i) < old(j)
          /\ SameRank(patterns'[i], patterns[old(i)])
          /\ SameRank(patterns'[j], patterns[old(j)])
      BY <1>1, <1>4, <2>3
    <3> HIDE DEF old
    <3>2. Before(patterns[old(i)], patterns[old(j)])
      BY <3>1 DEF RegistryInv, TriedInOrder
    <3> QED
      BY <3>1, <3>2 DEF Before, SameRank
  <2> QED
    BY <2>1, <2>2, <2>3
<1>7. KeepsTheFirst'
  <2> SUFFICES ASSUME NEW r \in registered', ~ Kept(r)'
               PROVE  /\ Full'
                      /\ \A i \in 1 .. Len(patterns') : Before(patterns'[i], r)
    BY DEF KeepsTheFirst
  <2>1. r \in registered /\ r \in Pattern
    BY <1>1, <1>2 DEF Kept, SameRank
  <2>2. ASSUME NEW i \in 1 .. n, patterns[i].number = r.number
        PROVE  i = n /\ n = MAX_PATTERNS /\ k < n
    <3> DEFINE m == IF i <= k THEN i ELSE i + 1
    <3>1. CASE m \in 1 .. Len(patterns')
      <4>1. m # k + 1 /\ old(m) = i
        BY <1>1
      <4>2. SameRank(patterns'[m], patterns[i])
        BY <1>4, <3>1, <4>1
      <4> QED
        BY <2>2, <3>1, <4>2 DEF Kept, SameRank
    <3>2. CASE m \notin 1 .. Len(patterns')
      BY <1>1, <1>2, <3>2
    <3> QED
      BY <3>1, <3>2
  <2>3. ASSUME NEW i \in 1 .. n, Kept(r) => i < n
        PROVE  Before(patterns[i], r)
    <3>1. CASE Kept(r)
      <4>1. PICK l \in 1 .. n : patterns[l].number = r.number
        BY <3>1 DEF Kept
      <4>2. l = n /\ i < n /\ patterns[n].number = r.number
        BY <2>2, <2>3, <3>1, <4>1
      <4>3. patterns[n].priority = r.priority /\ n \in 1 .. n
        BY <2>1, <4>1, <4>2 DEF RegistryInv, Numbered
      <4>4. Before(patterns[i], patterns[n])
        BY <4>2, <4>3 DEF RegistryInv, TriedInOrder
      <4> QED
        BY <4>2, <4>3, <4>4 DEF Before
    <3>2. CASE ~ Kept(r)
      BY <2>1, <3>2 DEF RegistryInv, KeepsTheFirst
    <3> QED
      BY <3>1, <3>2
  <2>4. n = MAX_PATTERNS /\ k < n /\ Full'
    <3>1. CASE Kept(r)
      BY <1>1, <1>2, <2>2, <3>1 DEF Kept, Full
    <3>2. CASE ~ Kept(r)
      BY <1>1, <1>2, <2>1, <3>2 DEF RegistryInv, KeepsTheFirst, Full
    <3> QED
      BY <3>1, <3>2
  <2>5. Before(pat, r)
    <3>1. k + 1 \in 1 .. n /\ patterns[k + 1] \in Pattern /\ Before(pat, patterns[k + 1])
      BY <1>1, <1>3, <2>4
    <3>2. CASE Kept(r)
      <4>1. PICK l \in 1 .. n : patterns[l].number = r.number
        BY <3>2 DEF Kept
      <4>2. l = n
        BY <2>2, <4>1
      <4>3. Before(pat, patterns[l]) /\ patterns[l].priority = r.priority
        BY <1>1, <1>3, <2>1, <2>4, <4>1, <4>2 DEF RegistryInv, Numbered
      <4> QED
        BY <4>1, <4>3 DEF Before
    <3>3. CASE ~ Kept(r)
      <4>1. Before(patterns[k + 1], r)
        BY <2>1, <3>1, <3>3 DEF RegistryInv, KeepsTheFirst
      <4> QED
        BY <1>1, <2>1, <3>1, <4>1, BeforeIsTransitive
    <3> QED
      BY <3>2, <3>3
  <2>6. ASSUME NEW i \in 1 .. Len(patterns') PROVE Before(patterns'[i], r)
    <3>1. CASE i = k + 1
      BY <1>2, <2>5, <3>1 DEF Before, SameRank
    <3>2. CASE i # k + 1
      <4>1. old(i) \in 1 .. n /\ old(i) < n
            /\ SameRank(patterns'[i], patterns[old(i)])
        BY <1>1, <1>2, <1>4, <2>4, <3>2
      <4> HIDE DEF old
      <4>2. Before(patterns[old(i)], r)
        BY <1>1, <2>3, <4>1
      <4> QED
        BY <4>1, <4>2 DEF Before, SameRank
    <3> QED
      BY <3>1, <3>2
  <2> QED
    BY <2>4, <2>6
<1>8. Numbered'
  <2>1. ASSUME NEW i \in 1 .. Len(patterns')
        PROVE  /\ patterns'[i].number <= number + 1
               /\ i # k + 1 => patterns'[i].number <= number
    <3>1. CASE i = k + 1
      BY <1>1, <1>2, <3>1 DEF SameRank
    <3>2. CASE i # k + 1
      <4> HIDE DEF old
      <4>1. /\ patterns[old(i)].number <= number
            /\ patterns[old(i)].number \in Nat
            /\ patterns'[i].number = patterns[old(i)].number
        BY <1>3, <1>4, <3>2, PatternFields DEF SameRank
      <4> QED
        BY <1>1, <3>2, <4>1
    <3> QED
      BY <3>1, <3>2
  <2>2. ASSUME NEW r \in registered'
        PROVE  r.number <= number + 1 /\ (r # pat => r.number <= number)
    <3>1. r \in registered => r.number <= number /\ r.number \in Nat
      BY <1>1, PatternFields DEF RegistryInv, Numbered
    <3> QED
      BY <1>1, <3>1
  <2>3. ASSUME NEW i \in 1 .. Len(patterns'), NEW r \in registered',
               patterns'[i].number = r.number
        PROVE  patterns'[i].priority = r.priority
    <3>1. CASE i = k + 1
      <4>1. r = pat
        BY <1>1, <1>2, <2>2, <2>3, <3>1 DEF SameRank
      <4> QED
        BY <1>2, <3>1, <4>1 DEF SameRank
    <3>2. CASE i # k + 1
      <4>1. r \in registered
        BY <1>1, <2>1, <2>3, <3>2
      <4> HIDE DEF old
      <4>2. old(i) \in 1 .. n /\ SameRank(patterns'[i], patterns[old(i)])
        BY <1>4, <3>2
      <4> QED
        BY <2>3, <4>1, <4>2 DEF RegistryInv, Numbered, SameRank
    <3> QED
      BY <3>1, <3>2
  <2> QED
    BY <1>1, <2>1, <2>2, <2>3 DEF Numbered
<1> QED
  BY <1>5, <1>6, <1>7, <1>8 DEF RegistryInv

-----------------------------------------------------------------------------
LEMMA ClearKeepsInv == RegistryInv /\ clear_patterns => RegistryInv'
<1> SUFFICES ASSUME RegistryInv, clear_patterns PROVE RegistryInv'
  OBVIOUS
<1>1. << >> \in Seq(Pattern) /\ Len(<< >>) = 0
  OBVIOUS
<1>2. /\ patterns' \in Seq(Pattern) /\ Len(patterns') = 0
      /\ registered' = {} /\ number' = number
  BY <1>1 DEF clear_patterns
<1> QED
  BY <1>2, RegistryAssumption
  DEF RegistryInv, RegistryTypeOK, TriedInOrder, KeepsTheFirst, Numbered

LEMMA LoadKeepsInv == RegistryInv /\ load_default_patterns => RegistryInv'
<1> SUFFICES ASSUME RegistryInv, load_default_patterns PROVE RegistryInv'
  OBVIOUS
<1> DEFINE n == Len(BuiltIn)
           loaded(i) == [number |-> number + i, priority |-> BuiltIn[i],
                         default_obis |-> NoObis]
<1>1. /\ n \in Nat /\ n <= MAX_PATTERNS /\ number \in Nat
      /\ number' = number + n
      /\ patterns' = [i \in 1 .. n |-> loaded(i)]
      /\ registered' = {patterns'[i] : i \in 1 .. n}
  BY RegistryAssumption DEF RegistryInv, RegistryTypeOK, load_default_patterns
<1>2. ASSUME NEW i \in 1 .. n PROVE BuiltIn[i] \in Int
  BY RegistryAssumption
<1>3. ASSUME NEW i \in 1 .. n
      PROVE  /\ patterns'[i] \in Pattern
             /\ patterns'[i].number = number + i
             /\ patterns'[i].priority = BuiltIn[i]
  <2>1. loaded(i) \in Pattern
    BY <1>1, <1>2, RegistryAssumption DEF Pattern
  <2> QED
    BY <1>1, <2>1
<1>4. patterns' \in [1 .. n -> Pattern]
  BY <1>1, <1>3
<1>5. patterns' \in Seq(Pattern) /\ Len(patterns') = n
  <2> HIDE DEF n, loaded
  <2> QED
    BY <1>1, <1>4
<1>6. RegistryTypeOK'
  BY <1>1, <1>3, <1>5 DEF RegistryTypeOK
<1>7. TriedInOrder'
  <2> SUFFICES ASSUME NEW i \in 1 .. n, NEW j \in 1 .. n, i < j
               PROVE  Before(patterns'[i], patterns'[j])
    BY <1>5 DEF TriedInOrder
  <2>1. BuiltIn[i] < BuiltIn[j]
    BY <1>1, RegistryAssumption
  <2> QED
    BY <1>3, <2>1 DEF Before
<1>8. KeepsTheFirst'
  BY <1>1, <1>5 DEF KeepsTheFirst, Kept
<1>9. Numbered'
  <2>1. \A i, j \in 1 .. n : number + i = number + j => i = j
    BY <1>1
  <2> QED
    BY <1>1, <1>3, <1>5, <2>1 DEF Numbered
<1> QED
  BY <1>6, <1>7, <1>8, <1>9 DEF RegistryInv

LEMMA RegistryNextInv == RegistryInv /\ [RegistryNext]_registryVars => RegistryInv'
<1> SUFFICES ASSUME RegistryInv, [RegistryNext]_registryVars PROVE RegistryInv'
  OBVIOUS
<1>1. ASSUME NEW pat, Registration(pat) PROVE RegistryInv'
  BY <1>1, RejectedKeepsInv, PlacedKeepsInv DEF Registration
<1>2. CASE \E p \in Priorities, o \in ObisIds : register_pattern(p, o)
  BY <1>1, <1>2, RegisterIsRegistration
<1>3. CASE \E p \in Priorities : register_flat_positional_pattern(p)
  BY <1>1, <1>3, FlatIsRegistration
<1>4. CASE clear_patterns
  BY <1>4, ClearKeepsInv
<1>5. CASE load_default_patterns
  BY <1>5, LoadKeepsInv
<1>6. CASE UNCHANGED registryVars
  BY <1>6 DEF registryVars, RegistryInv, RegistryTypeOK, TriedInOrder, KeepsTheFirst,
     Kept, Full,
              Numbered
<1> QED
  BY <1>2, <1>3, <1>4, <1>5, <1>6 DEF RegistryNext

(* The table never outgrows MAX_PATTERNS, whatever is registered.          *)
THEOREM RegistryTypeCorrect == RegistrySpec => []RegistryTypeOK
<1>1. RegistryInv => RegistryTypeOK
  BY DEF RegistryInv
<1> QED
  BY <1>1, RegistryInitInv, RegistryNextInv, PTL DEF RegistrySpec

(* Patterns are tried by priority, and equal ones in the order of their    *)
(* registration.                                                           *)
THEOREM RegistryTriedInOrder == RegistrySpec => []TriedInOrder
<1>1. RegistryInv => TriedInOrder
  BY DEF RegistryInv
<1> QED
  BY <1>1, RegistryInitInv, RegistryNextInv, PTL DEF RegistrySpec

(* The full table holds the first MAX_PATTERNS of all that were registered *)
(* since the last clear: which of them are lost does not depend on the     *)
(* order of the registrations.                                             *)
THEOREM RegistryKeepsTheFirst == RegistrySpec => []KeepsTheFirst
<1>1. RegistryInv => KeepsTheFirst
  BY DEF RegistryInv
<1> QED
  BY <1>1, RegistryInitInv, RegistryNextInv, PTL DEF RegistrySpec

-----------------------------------------------------------------------------
(* The decryptors.                                                         *)

(* The key that is set is the key the library has, and a library that took *)
(* none is not asked.                                                      *)
KeyInForce ==
  /\ backend # "tfpsa" => decryption_key = NoKey \/ context = decryption_key
  /\ backend = "tfpsa" /\ pc # "gone" =>
       /\ decryption_key = NoKey <=> key_id = NULL_ID
       /\ key_id # NULL_ID => psa_initialized /\ slots[key_id] = decryption_key
       /\ \A i \in SlotIds : i # key_id => slots[i] = NoKey
  /\ pc = "gone" => slots = [i \in SlotIds |-> NoKey]

(* A PSA operation is open only while decrypt_in_place is at work, and is  *)
(* set up for the key, the tag and the other data that the message has.    *)
InOperation == {"nonce", "ad", "update", "verify", "abort"}

OperationFits ==
  /\ pc \notin InOperation => op = NoOperation
  /\ pc \in InOperation =>
       /\ backend = "tfpsa" /\ ~ Unready
       /\ op.key = decryption_key
       /\ op.tag_len = IF WithTag(message, auth_key) THEN 12 ELSE 16
  /\ pc \in {"ad", "verify"} => WithTag(message, auth_key)
  /\ pc = "abort" => ~ WithTag(message, auth_key)
  /\ pc \in {"update", "verify"} /\ WithTag(message, auth_key) => op.ad = auth_key
  /\ pc \in {"verify", "abort"} => text = DecipheredUnder(message, decryption_key)

DecryptorInv == DecryptorTypeOK /\ KeyInForce /\ OperationFits

-----------------------------------------------------------------------------
LEMMA UnderType ==
  ASSUME NEW m \in Messages, NEW key
  PROVE  DecipheredUnder(m, key) \in {"plain", "garbage"}
  BY DEF DecipheredUnder

LEMMA NoOperationFields ==
  /\ NoOperation.key = NoKey /\ NoOperation.tag_len = 0 /\ NoOperation.ad = NoKey
  BY DEF NoOperation

(* destroy_key leaves no key in the library.                               *)
LEMMA DestroyKeyEmpties ==
  ASSUME DecryptorTypeOK, KeyInForce, backend = "tfpsa", pc # "gone"
  PROVE  destroy_key = [i \in SlotIds |-> NoKey]
<1>1. slots \in [SlotIds -> Keys \cup {NoKey}] /\ NULL_ID \notin SlotIds
      /\ key_id \in SlotIds \cup {NULL_ID}
  BY DecryptorsAssumption DEF DecryptorTypeOK, Slots
<1>2. \A i \in SlotIds : i # key_id => slots[i] = NoKey
  BY DEF KeyInForce
<1>3. CASE key_id = NULL_ID
  BY <1>1, <1>2, <1>3 DEF destroy_key
<1>4. CASE key_id # NULL_ID
  <2>1. destroy_key = [slots EXCEPT ![key_id] = NoKey]
    BY <1>4 DEF destroy_key
  <2> QED
    BY <1>1, <1>2, <2>1
<1> QED
  BY <1>3, <1>4

-----------------------------------------------------------------------------
LEMMA DecryptorInitInv == DecryptorInit => DecryptorInv
<1> SUFFICES ASSUME DecryptorInit PROVE DecryptorInv
  OBVIOUS
<1>1. DecryptorTypeOK
  <2>1. psa_initialized \in BOOLEAN /\ failed \in BOOLEAN /\ returned \in BOOLEAN
    BY DEF DecryptorInit
  <2>2. slots \in Slots
    BY DEF DecryptorInit, Slots
  <2> QED
    BY <2>1, <2>2 DEF DecryptorInit, DecryptorTypeOK
<1>2. KeyInForce
  BY DEF DecryptorInit, KeyInForce
<1>3. OperationFits
  BY DEF DecryptorInit, OperationFits, InOperation
<1> QED
  BY <1>1, <1>2, <1>3 DEF DecryptorInv

LEMMA AuthenticationKeyInv ==
  ASSUME DecryptorInv, NEW key \in Keys, set_authentication_key(key)
  PROVE  DecryptorInv'
<1>1. DecryptorTypeOK'
  BY DEF DecryptorInv, DecryptorTypeOK, set_authentication_key
<1>2. KeyInForce'
  BY DEF DecryptorInv, KeyInForce, set_authentication_key
<1>3. OperationFits'
  BY DEF DecryptorInv, OperationFits, InOperation, set_authentication_key
<1> QED
  BY <1>1, <1>2, <1>3 DEF DecryptorInv

LEMMA SetKeyContextInv ==
  ASSUME DecryptorInv, NEW key \in Keys, SetKeyMbedTls(key) \/ SetKeyBearSsl(key)
  PROVE  DecryptorInv'
<1>1. /\ backend # "tfpsa" /\ pc = "idle"
      /\ context' \in Keys \cup {NoKey} /\ decryption_key' \in Keys \cup {NoKey}
      /\ decryption_key' = NoKey \/ context' = decryption_key'
      /\ UNCHANGED <<backend, auth_key, psa_initialized, key_id, slots,
                     op, message, text, failed, pc, returned>>
  BY DEF DecryptorInv, DecryptorTypeOK, SetKeyMbedTls, SetKeyBearSsl
<1>2. DecryptorTypeOK'
  BY <1>1 DEF DecryptorInv, DecryptorTypeOK
<1>3. KeyInForce'
  BY <1>1 DEF KeyInForce
<1>4. OperationFits'
  BY <1>1 DEF DecryptorInv, OperationFits, InOperation
<1> QED
  BY <1>2, <1>3, <1>4 DEF DecryptorInv

LEMMA SetKeyPsaInv ==
  ASSUME DecryptorInv, NEW key \in Keys, SetKeyPsa(key)
  PROVE  DecryptorInv'
<1>1. /\ backend = "tfpsa" /\ pc = "idle" /\ psa_initialized
      /\ UNCHANGED <<backend, auth_key, context, psa_initialized,
                     op, message, text, failed, pc, returned>>
  BY DEF SetKeyPsa
<1>2. destroy_key = [i \in SlotIds |-> NoKey]
  BY <1>1, DestroyKeyEmpties DEF DecryptorInv
<1>3. /\ slots' \in Slots /\ key_id' \in SlotIds \cup {NULL_ID}
      /\ decryption_key' \in Keys \cup {NoKey}
      /\ decryption_key' = NoKey <=> key_id' = NULL_ID
      /\ key_id' # NULL_ID => slots'[key_id'] = decryption_key'
      /\ \A i \in SlotIds : i # key_id' => slots'[i] = NoKey
  <2>1. CASE \E id \in SlotIds : /\ slots' = [destroy_key EXCEPT ![id] = key]
                                 /\ key_id' = id /\ decryption_key' = key
    BY <1>2, <2>1, DecryptorsAssumption DEF Slots
  <2>2. CASE /\ slots' = destroy_key /\ key_id' = NULL_ID
             /\ decryption_key' = NoKey
    BY <1>2, <2>2 DEF Slots
  <2> QED
    BY <2>1, <2>2 DEF SetKeyPsa
<1>4. DecryptorTypeOK'
  BY <1>1, <1>3 DEF DecryptorInv, DecryptorTypeOK
<1>5. KeyInForce'
  BY <1>1, <1>3 DEF KeyInForce
<1>6. OperationFits'
  BY <1>1 DEF DecryptorInv, OperationFits, InOperation
<1> QED
  BY <1>4, <1>5, <1>6 DEF DecryptorInv

LEMMA SetKeyPsaUninitializedInv ==
  ASSUME DecryptorInv, SetKeyPsaUninitialized
  PROVE  DecryptorInv'
<1>1. /\ backend = "tfpsa" /\ pc = "idle" /\ ~ psa_initialized
      /\ decryption_key' = NoKey
      /\ UNCHANGED <<backend, auth_key, context, psa_initialized, key_id, slots,
                     op, message, text, failed, pc, returned>>
  BY DEF SetKeyPsaUninitialized
<1>2. DecryptorTypeOK'
  BY <1>1 DEF DecryptorInv, DecryptorTypeOK
<1>3. KeyInForce'
  BY <1>1 DEF DecryptorInv, KeyInForce
<1>4. OperationFits'
  BY <1>1 DEF DecryptorInv, OperationFits, InOperation
<1> QED
  BY <1>2, <1>3, <1>4 DEF DecryptorInv

LEMMA DestroyPsaInv ==
  ASSUME DecryptorInv, DestroyPsa
  PROVE  DecryptorInv'
<1>1. /\ backend = "tfpsa" /\ pc = "idle" /\ pc' = "gone"
      /\ slots' = destroy_key /\ key_id' = NULL_ID
      /\ UNCHANGED <<backend, decryption_key, auth_key, context, psa_initialized,
                     op, message, text, failed, returned>>
  BY DEF DestroyPsa
<1>2. slots' = [i \in SlotIds |-> NoKey]
  BY <1>1, DestroyKeyEmpties DEF DecryptorInv
<1>3. DecryptorTypeOK'
  BY <1>1, <1>2 DEF DecryptorInv, DecryptorTypeOK, Slots
<1>4. KeyInForce'
  BY <1>1, <1>2 DEF KeyInForce
<1>5. OperationFits'
  BY <1>1 DEF DecryptorInv, OperationFits, InOperation
<1> QED
  BY <1>3, <1>4, <1>5 DEF DecryptorInv

-----------------------------------------------------------------------------
(* A step of decrypt_in_place leaves the keys alone.                       *)
LEMMA SettingsKept ==
  ASSUME DecryptorInv, UNCHANGED settings, pc # "gone", pc' # "gone"
  PROVE  KeyInForce'
  BY DEF DecryptorInv, KeyInForce, settings

LEMMA CalledInv ==
  ASSUME DecryptorInv, NEW m \in Messages, decrypt_in_place(m)
  PROVE  DecryptorInv'
<1>1. /\ pc = "idle" /\ pc' = "called" /\ message' = m /\ text' = "sealed"
      /\ failed' = FALSE
      /\ UNCHANGED <<settings, op, returned>>
  BY DEF decrypt_in_place
<1>2. DecryptorTypeOK'
  BY <1>1 DEF DecryptorInv, DecryptorTypeOK, settings
<1>3. OperationFits'
  BY <1>1 DEF DecryptorInv, OperationFits, InOperation
<1> QED
  BY <1>1, <1>2, <1>3, SettingsKept DEF DecryptorInv

(* A return with no operation open.                                        *)
LEMMA ReturnInv ==
  ASSUME DecryptorInv, pc # "gone", pc' = "idle", UNCHANGED <<settings, message>>,
         op' = NoOperation, text' \in {"sealed", "plain", "garbage"},
         failed' \in BOOLEAN, returned' \in BOOLEAN
  PROVE  DecryptorInv'
<1>1. DecryptorTypeOK'
  BY DEF DecryptorInv, DecryptorTypeOK, settings
<1>2. OperationFits'
  BY DEF OperationFits, InOperation
<1> QED
  BY <1>1, <1>2, SettingsKept DEF DecryptorInv

LEMMA ReturnsInv ==
  ASSUME DecryptorInv,
         Refuse \/ DecryptMbedTls \/ DecryptBearSsl \/ psa_aead_verify
           \/ VerifyFails \/ psa_aead_abort \/ PsaFails
  PROVE  DecryptorInv'
<1>1. /\ message \in Messages /\ text \in {"sealed", "plain", "garbage"}
      /\ failed \in BOOLEAN
      /\ pc = "called" => op = NoOperation
  BY DEF DecryptorInv, DecryptorTypeOK, OperationFits, InOperation
<1>2. /\ (WithTag(message, auth_key) => Fits(message, context, auth_key)) \in BOOLEAN
      /\ TagFits \in BOOLEAN
  BY <1>1 DEF WithTag, Fits, TagFits, Messages
<1>3. CASE Refuse
  BY <1>1, <1>3, ReturnInv DEF Refuse, Return
<1>4. CASE DecryptMbedTls
  <2>1. text' \in {"plain", "garbage"}
    BY <1>1, <1>4, UnderType DEF DecryptMbedTls
  <2>2. failed' \in BOOLEAN /\ returned' \in BOOLEAN
    BY <1>2, <1>4 DEF DecryptMbedTls, Return
  <2>3. /\ pc = "called" /\ pc' = "idle" /\ op' = op
        /\ UNCHANGED <<settings, message>>
    BY <1>4 DEF DecryptMbedTls, Return
  <2> QED
    BY <1>1, <2>1, <2>2, <2>3, ReturnInv
<1>5. CASE DecryptBearSsl
  <2>1. text' \in {"plain", "garbage"}
    BY <1>1, <1>5, UnderType DEF DecryptBearSsl
  <2>2. failed' \in BOOLEAN /\ returned' \in BOOLEAN
    BY <1>1, <1>2, <1>5 DEF DecryptBearSsl, Return
  <2>3. /\ pc = "called" /\ pc' = "idle" /\ op' = op
        /\ UNCHANGED <<settings, message>>
    BY <1>5 DEF DecryptBearSsl, Return
  <2> QED
    BY <1>1, <2>1, <2>2, <2>3, ReturnInv
<1>6. CASE psa_aead_verify
  BY <1>1, <1>6, ReturnInv DEF psa_aead_verify, Return
<1>7. CASE VerifyFails
  BY <1>1, <1>2, <1>7, ReturnInv DEF VerifyFails, Return
<1>8. CASE psa_aead_abort
  BY <1>1, <1>8, ReturnInv DEF psa_aead_abort, Return
<1>9. CASE PsaFails
  BY <1>1, <1>9, ReturnInv DEF PsaFails, abort_and_fail, Return
<1> QED
  BY <1>3, <1>4, <1>5, <1>6, <1>7, <1>8, <1>9

(* A library call after which there is another.                            *)
LEMMA StepInv ==
  ASSUME DecryptorInv,
         psa_aead_decrypt_setup \/ psa_aead_set_nonce \/ psa_aead_update_ad
           \/ psa_aead_update
  PROVE  DecryptorInv'
<1>1. /\ backend = "tfpsa" /\ ~ Unready /\ pc # "gone" /\ pc' # "gone"
      /\ UNCHANGED <<settings, message, failed, returned>>
  BY DEF psa_aead_decrypt_setup, psa_aead_set_nonce, psa_aead_update_ad,
         psa_aead_update, Step
<1>2. /\ key_id \in SlotIds /\ slots[key_id] = decryption_key
      /\ decryption_key \in Keys /\ auth_key \in Keys \cup {NoKey}
      /\ message \in Messages
  BY <1>1 DEF DecryptorInv, DecryptorTypeOK, KeyInForce, Unready
<1>3. /\ ~ Unready' /\ backend' = "tfpsa"
      /\ WithTag(message, auth_key)' = WithTag(message, auth_key)
      /\ decryption_key' = decryption_key /\ auth_key' = auth_key
      /\ message' = message
  BY <1>1 DEF Unready, settings, WithTag
<1>4. KeyInForce'
  BY <1>1, SettingsKept
<1>5. CASE psa_aead_decrypt_setup
  <2>1. /\ pc = "called" /\ pc' = "nonce" /\ text' = text
        /\ op' = [key |-> slots[key_id], ad |-> NoKey,
                  tag_len |-> IF WithTag(message, auth_key) THEN 12 ELSE 16]
    BY <1>5 DEF psa_aead_decrypt_setup, Step
  <2>2. op' \in Operations
    BY <1>2, <2>1 DEF Operations
  <2>3. DecryptorTypeOK'
    BY <1>1, <2>1, <2>2 DEF DecryptorInv, DecryptorTypeOK, settings
  <2>4. OperationFits'
    BY <1>2, <1>3, <2>1 DEF OperationFits, InOperation
  <2> QED
    BY <1>4, <2>3, <2>4 DEF DecryptorInv
<1>6. CASE psa_aead_set_nonce
  <2>1. /\ pc = "nonce" /\ text' = text /\ op' = op
        /\ pc' = IF WithTag(message, auth_key) THEN "ad" ELSE "update"
    BY <1>6 DEF psa_aead_set_nonce, Step
  <2>2. DecryptorTypeOK'
    BY <1>1, <2>1 DEF DecryptorInv, DecryptorTypeOK, settings
  <2>3. OperationFits'
    BY <1>3, <2>1 DEF DecryptorInv, OperationFits, InOperation
  <2> QED
    BY <1>4, <2>2, <2>3 DEF DecryptorInv
<1>7. CASE psa_aead_update_ad
  <2>1. /\ pc = "ad" /\ pc' = "update" /\ text' = text
        /\ op' = [op EXCEPT !.ad = auth_key]
    BY <1>7 DEF psa_aead_update_ad, Step
  <2>2. op \in Operations
    <3>1. op.tag_len # 0
      BY <2>1 DEF DecryptorInv, OperationFits, InOperation
    <3> QED
      BY <3>1, NoOperationFields DEF DecryptorInv, DecryptorTypeOK
  <2>3. /\ op' \in Operations
        /\ op'.key = op.key /\ op'.tag_len = op.tag_len /\ op'.ad = auth_key
    BY <1>2, <2>1, <2>2 DEF Operations
  <2>4. DecryptorTypeOK'
    BY <1>1, <2>1, <2>3 DEF DecryptorInv, DecryptorTypeOK, settings
  <2>5. OperationFits'
    BY <1>3, <2>1, <2>3 DEF DecryptorInv, OperationFits, InOperation
  <2> QED
    BY <1>4, <2>4, <2>5 DEF DecryptorInv
<1>8. CASE psa_aead_update
  <2>1. /\ pc = "update" /\ op' = op
        /\ text' = DecipheredUnder(message, op.key)
        /\ pc' = IF WithTag(message, auth_key) THEN "verify" ELSE "abort"
    BY <1>8 DEF psa_aead_update, Step
  <2>2. op.key = decryption_key /\ text' \in {"plain", "garbage"}
    BY <1>2, <2>1, UnderType DEF DecryptorInv, OperationFits, InOperation
  <2>3. DecryptorTypeOK'
    BY <1>1, <2>1, <2>2 DEF DecryptorInv, DecryptorTypeOK, settings
  <2>4. OperationFits'
    BY <1>3, <2>1, <2>2 DEF DecryptorInv, OperationFits, InOperation
  <2> QED
    BY <1>4, <2>3, <2>4 DEF DecryptorInv
<1> QED
  BY <1>5, <1>6, <1>7, <1>8

LEMMA DecryptorNextInv ==
  ASSUME DecryptorInv, [DecryptorNext]_decryptorVars
  PROVE  DecryptorInv'
<1>1. CASE UNCHANGED decryptorVars
  <2>1. UNCHANGED <<backend, decryption_key, auth_key, context, psa_initialized,
                    key_id, slots, op, message, text, failed, pc, returned>>
    BY <1>1 DEF decryptorVars, settings
  <2>2. DecryptorTypeOK'
    BY <2>1 DEF DecryptorInv, DecryptorTypeOK
  <2>3. KeyInForce'
    BY <2>1 DEF DecryptorInv, KeyInForce
  <2>4. OperationFits'
    BY <2>1 DEF DecryptorInv, OperationFits, Unready, WithTag, DecipheredUnder
  <2> QED
    BY <2>2, <2>3, <2>4 DEF DecryptorInv
<1>2. ASSUME NEW key \in Keys, set_decryption_key(key) \/ set_authentication_key(key)
      PROVE  DecryptorInv'
  BY <1>2, AuthenticationKeyInv, SetKeyContextInv, SetKeyPsaInv,
     SetKeyPsaUninitializedInv DEF set_decryption_key
<1>3. ASSUME NEW m \in Messages, decrypt_in_place(m)
      PROVE  DecryptorInv'
  BY <1>3, CalledInv
<1>4. CASE Decrypt
  BY <1>4, ReturnsInv, StepInv DEF Decrypt, DecryptPsa
<1>5. CASE DestroyPsa
  BY <1>5, DestroyPsaInv
<1> QED
  BY <1>1, <1>2, <1>3, <1>4, <1>5 DEF DecryptorNext

THEOREM DecryptorInvariance == DecryptorSpec => []DecryptorInv
<1>1. DecryptorInv /\ [DecryptorNext]_decryptorVars => DecryptorInv'
  BY DecryptorNextInv
<1> QED
  BY DecryptorInitInv, <1>1, PTL DEF DecryptorSpec

(* Whatever the libraries answer, the decryptors' fields, the PSA slots    *)
(* and the operation in progress stay what they are meant to be.           *)
THEOREM DecryptorTypeCorrect == DecryptorSpec => []DecryptorTypeOK
<1>1. DecryptorInv => DecryptorTypeOK
  BY DEF DecryptorInv
<1> QED
  BY DecryptorInvariance, <1>1, PTL

(* Between two telegrams no operation is open and no key is kept but the   *)
(* one in force, and in the end none, whichever call failed before.        *)
THEOREM HoldsNothing == DecryptorSpec => []NothingIsHeld
<1>1. DecryptorInv => NothingIsHeld
  <2> SUFFICES ASSUME DecryptorInv PROVE NothingIsHeld
    OBVIOUS
  <2>1. pc = "gone" => slots = [i \in SlotIds |-> NoKey]
    BY DEF DecryptorInv, KeyInForce
  <2>2. pc = "idle" => op = NoOperation
    BY DEF DecryptorInv, OperationFits, InOperation
  <2>3. ASSUME pc = "idle", backend = "tfpsa", NEW i \in SlotIds, slots[i] # NoKey
        PROVE  i = key_id /\ slots[i] = decryption_key
    BY <2>3, DecryptorsAssumption DEF DecryptorInv, KeyInForce
  <2> QED
    BY <2>1, <2>2, <2>3 DEF NothingIsHeld
<1> QED
  BY DecryptorInvariance, <1>1, PTL

-----------------------------------------------------------------------------
(* The answers, one way after another.                                     *)
Answered ==
  /\ pc \notin {"idle", "gone"} /\ pc' = "idle"
  /\ UNCHANGED <<settings, message>>

LEMMA RefuseAnswer ==
  ASSUME DecryptorInv, Refuse
  PROVE  /\ Answered /\ returned' = FALSE /\ text' = text
         /\ decryption_key = NoKey
<1>1. Answered /\ returned' = FALSE /\ text' = text
  BY DEF Refuse, Return, Answered
<1>2. Unready /\ pc = "called"
  BY DEF Refuse
<1>3. decryption_key = NoKey
  BY <1>2 DEF Unready, DecryptorInv, KeyInForce
<1> QED
  BY <1>1, <1>3

(* The context holds the key that is set.                                  *)
LEMMA ContextAnswer ==
  ASSUME DecryptorInv, DecryptMbedTls \/ DecryptBearSsl
  PROVE  /\ Answered /\ decryption_key # NoKey /\ context = decryption_key
         /\ returned' \in BOOLEAN /\ text' \in {"plain", "garbage"}
         /\ returned' => /\ text' = DecipheredUnder(message, decryption_key)
                         /\ WithTag(message, auth_key) =>
                              Fits(message, decryption_key, auth_key)
         /\ ~ returned' /\ ~ failed' =>
              WithTag(message, auth_key) /\ ~ Fits(message, decryption_key, auth_key)
<1>1. /\ message \in Messages /\ failed \in BOOLEAN
      /\ (WithTag(message, auth_key) => Fits(message, context, auth_key)) \in BOOLEAN
  BY DEF DecryptorInv, DecryptorTypeOK, WithTag, Fits, Messages
<1>2. Answered
  BY DEF DecryptMbedTls, DecryptBearSsl, Return, Answered
<1>3. decryption_key # NoKey /\ context = decryption_key
  BY DEF DecryptMbedTls, DecryptBearSsl, Unready, DecryptorInv, KeyInForce
<1>4. CASE DecryptMbedTls
  <2>1. \/ /\ text' = DecipheredUnder(message, context) /\ returned' = TRUE
           /\ WithTag(message, auth_key) => Fits(message, context, auth_key)
        \/ /\ text' = "garbage" /\ returned' = FALSE
           /\ failed' = (WithTag(message, auth_key) => Fits(message, context, auth_key))
    BY <1>4 DEF DecryptMbedTls, Return
  <2> QED
    BY <1>1, <1>2, <1>3, <2>1, UnderType
<1>5. CASE DecryptBearSsl
  <2>1. /\ text' = DecipheredUnder(message, context)
        /\ returned' = (WithTag(message, auth_key) => Fits(message, context, auth_key))
    BY <1>5 DEF DecryptBearSsl, Return
  <2> QED
    BY <1>1, <1>2, <1>3, <2>1, UnderType
<1> QED
  BY <1>4, <1>5

LEMMA PsaAnswer ==
  ASSUME DecryptorInv, psa_aead_verify \/ VerifyFails \/ psa_aead_abort
  PROVE  /\ Answered /\ decryption_key # NoKey
         /\ returned' \in BOOLEAN
         /\ text' = text /\ text = DecipheredUnder(message, decryption_key)
         /\ returned' => (WithTag(message, auth_key) =>
                           Fits(message, decryption_key, auth_key))
         /\ ~ returned' /\ ~ failed' =>
              WithTag(message, auth_key) /\ ~ Fits(message, decryption_key, auth_key)
<1>1. Answered /\ text' = text
  BY DEF psa_aead_verify, VerifyFails, psa_aead_abort, Return, Answered
<1>2. /\ pc \in {"verify", "abort"}
      /\ op.key = decryption_key /\ decryption_key # NoKey
      /\ text = DecipheredUnder(message, decryption_key)
      /\ pc = "verify" => WithTag(message, auth_key) /\ op.ad = auth_key /\ op.tag_len = 12
      /\ pc = "abort" => ~ WithTag(message, auth_key)
  BY DEF psa_aead_verify, VerifyFails, psa_aead_abort,
         DecryptorInv, OperationFits, InOperation, Unready
<1>3. pc = "verify" => TagFits = Fits(message, decryption_key, auth_key)
  BY <1>2 DEF TagFits, Fits
<1>4. Fits(message, decryption_key, auth_key) \in BOOLEAN
  BY DEF DecryptorInv, DecryptorTypeOK, Messages, Fits
<1>5. CASE psa_aead_verify
  <2>1. pc = "verify" /\ TagFits /\ failed' \in BOOLEAN /\ returned' = ~ failed'
    BY <1>5 DEF psa_aead_verify, Return
  <2> QED
    BY <1>1, <1>2, <1>3, <2>1
<1>6. CASE VerifyFails
  <2>1. pc = "verify" /\ failed' = TagFits /\ returned' = FALSE
    BY <1>6 DEF VerifyFails, Return
  <2> QED
    BY <1>1, <1>2, <1>3, <1>4, <2>1
<1>7. CASE psa_aead_abort
  <2>1. pc = "abort" /\ failed' \in BOOLEAN /\ returned' = ~ failed'
    BY <1>7 DEF psa_aead_abort, Return
  <2> QED
    BY <1>1, <1>2, <2>1
<1> QED
  BY <1>5, <1>6, <1>7

LEMMA FailureAnswer ==
  ASSUME DecryptorInv, PsaFails
  PROVE  /\ Answered /\ returned' = FALSE /\ failed' = TRUE
         /\ text' \in {"sealed", "plain", "garbage"}
<1>1. text \in {"sealed", "plain", "garbage"}
  BY DEF DecryptorInv, DecryptorTypeOK
<1> QED
  BY <1>1 DEF PsaFails, abort_and_fail, Return, Answered

(* No other step comes back to rest.                                       *)
LEMMA NoAnswer ==
  ASSUME NEW key \in Keys, NEW m \in Messages,
         \/ set_decryption_key(key) \/ set_authentication_key(key)
         \/ decrypt_in_place(m) \/ DestroyPsa
         \/ psa_aead_decrypt_setup \/ psa_aead_set_nonce
         \/ psa_aead_update_ad \/ psa_aead_update
  PROVE  ~ (pc # "idle" /\ pc' = "idle")
  BY DEF set_decryption_key, SetKeyMbedTls, SetKeyBearSsl, SetKeyPsa,
         SetKeyPsaUninitialized, set_authentication_key, decrypt_in_place, DestroyPsa,
         psa_aead_decrypt_setup, psa_aead_set_nonce, psa_aead_update_ad,
         psa_aead_update, Step

(* What was sealed with the keys that are set, and came as it was sealed,  *)
(* is opened by every decryptor, unless a library call failed.             *)
THEOREM OpensGenuine == DecryptorSpec => OpensWhatIsGenuine
<1> DEFINE A == pc # "idle" /\ pc' = "idle" /\ ~ failed' /\ message.intact
                /\ message.key = decryption_key /\ auth_key \in {NoKey, message.auth}
                => returned' /\ text' = "plain"
<1>1. DecryptorInv /\ [DecryptorNext]_decryptorVars => [A]_decryptorVars
  <2> SUFFICES ASSUME DecryptorInv, DecryptorNext, pc # "idle", pc' = "idle", ~ failed',
                      message.intact,
                      message.key = decryption_key, auth_key \in {NoKey, message.auth}
               PROVE  returned' /\ text' = "plain"
    OBVIOUS
  <2>1. /\ message \in Messages /\ message.key \in Keys
        /\ decryption_key # NoKey
    BY DecryptorsAssumption DEF DecryptorInv, DecryptorTypeOK, Messages
  <2>2. /\ DecipheredUnder(message, decryption_key) = "plain"
        /\ WithTag(message, auth_key) => Fits(message, decryption_key, auth_key)
    BY DEF DecipheredUnder, WithTag, Fits
  <2>3. CASE Refuse
    BY <2>1, <2>3, RefuseAnswer
  <2>4. CASE DecryptMbedTls \/ DecryptBearSsl
    BY <2>2, <2>4, ContextAnswer
  <2>5. CASE psa_aead_verify \/ VerifyFails \/ psa_aead_abort
    BY <2>2, <2>5, PsaAnswer
  <2>6. CASE PsaFails
    BY <2>6, FailureAnswer
  <2>7. CASE \/ \E key \in Keys : set_decryption_key(key) \/ set_authentication_key(key)
             \/ \E m \in Messages : decrypt_in_place(m)
             \/ DestroyPsa
             \/ psa_aead_decrypt_setup \/ psa_aead_set_nonce
             \/ psa_aead_update_ad \/ psa_aead_update
    BY <2>1, <2>7, NoAnswer
  <2> QED
    BY <2>3, <2>4, <2>5, <2>6, <2>7 DEF DecryptorNext, Decrypt, DecryptPsa
<1> QED
  BY DecryptorInvariance, <1>1, PTL DEF DecryptorSpec, OpensWhatIsGenuine

-----------------------------------------------------------------------------
(* The steps of a decryptor are steps of the interface, or change nothing  *)
(* of it.                                                                  *)
LEMMA SettingIsSetKeyOrPrepare ==
  ASSUME DecryptorInv, NEW key \in Keys, set_decryption_key(key) \/ set_authentication_key(key)
  PROVE  Interface!SetKey \/ Interface!Prepare
<1>1. CASE set_decryption_key(key)
  <2>1. /\ pc = "idle" /\ pc' = pc /\ decryption_key' \in {key, NoKey}
        /\ UNCHANGED <<message, auth_key, text, returned>>
    BY <1>1 DEF set_decryption_key, SetKeyMbedTls, SetKeyBearSsl, SetKeyPsa,
                SetKeyPsaUninitialized
  <2> QED
    BY <2>1 DEF Interface!SetKey
<1>2. CASE set_authentication_key(key)
  <2>1. /\ pc = "idle" /\ pc' = pc /\ auth_key' = key
        /\ UNCHANGED <<message, decryption_key, text, returned>>
    BY <1>2 DEF set_authentication_key
  <2> QED
    BY <2>1 DEF Interface!Prepare, DecryptorInv, DecryptorTypeOK
<1> QED
  BY <1>1, <1>2

LEMMA CallIsPrepare ==
  ASSUME DecryptorInv, NEW m \in Messages, decrypt_in_place(m)
  PROVE  Interface!Prepare
<1>1. /\ pc = "idle" /\ pc' = "called" /\ message' = m /\ text' = "sealed"
      /\ UNCHANGED <<auth_key, decryption_key, returned>>
  BY DEF decrypt_in_place, settings
<1> QED
  BY <1>1 DEF Interface!Prepare, DecryptorInv, DecryptorTypeOK

LEMMA StepIsWork ==
  ASSUME DecryptorInv,
         psa_aead_decrypt_setup \/ psa_aead_set_nonce \/ psa_aead_update_ad
           \/ psa_aead_update
  PROVE  Interface!Work
<1>1. /\ pc \notin {"idle", "gone"} /\ pc' \notin {"idle", "gone"}
      /\ UNCHANGED <<auth_key, decryption_key, message, returned>>
  BY DEF psa_aead_decrypt_setup, psa_aead_set_nonce, psa_aead_update_ad,
         psa_aead_update, Step, settings
<1>2. text' \in {"sealed", "plain", "garbage"}
  <2>1. DecryptorInv'
    BY StepInv
  <2> QED
    BY <2>1 DEF DecryptorInv, DecryptorTypeOK
<1> QED
  BY <1>1, <1>2 DEF Interface!Work

LEMMA ReturnIsAnswer ==
  ASSUME DecryptorInv,
         Refuse \/ DecryptMbedTls \/ DecryptBearSsl \/ psa_aead_verify
           \/ VerifyFails \/ psa_aead_abort \/ PsaFails
  PROVE  Interface!Answer
<1>1. /\ Answered /\ returned' \in BOOLEAN
      /\ text' \in {"sealed", "plain", "garbage"}
      /\ returned' => /\ decryption_key # NoKey
                      /\ text' = DecipheredUnder(message, decryption_key)
                      /\ WithTag(message, auth_key) =>
                           Fits(message, decryption_key, auth_key)
  <2>1. text \in {"sealed", "plain", "garbage"}
    BY DEF DecryptorInv, DecryptorTypeOK
  <2>2. CASE Refuse
    BY <2>1, <2>2, RefuseAnswer
  <2>3. CASE DecryptMbedTls \/ DecryptBearSsl
    BY <2>3, ContextAnswer
  <2>4. CASE psa_aead_verify \/ VerifyFails \/ psa_aead_abort
    BY <2>1, <2>4, PsaAnswer
  <2>5. CASE PsaFails
    BY <2>5, FailureAnswer
  <2> QED
    BY <2>2, <2>3, <2>4, <2>5
<1>2. /\ pc \notin {"idle", "gone"} /\ pc' = "idle"
      /\ UNCHANGED <<decryption_key, auth_key, message>>
  BY <1>1 DEF Answered, settings
<1> QED
  BY <1>1, <1>2 DEF Interface!Answer

(* All three decryptors work with the key that was set last or not at all, *)
(* and what they return true for is what was sealed with it.               *)
THEOREM ImplementsInterface == DecryptorSpec => Interface!Safety
<1>1. DecryptorInit => Interface!Init
  <2> SUFFICES ASSUME DecryptorInit PROVE Interface!Init
    OBVIOUS
  <2> QED
    BY DEF DecryptorInit, Interface!Init
<1>2. DecryptorInv /\ [DecryptorNext]_decryptorVars => [Interface!Next]_Interface!vars
  <2> SUFFICES ASSUME DecryptorInv, [DecryptorNext]_decryptorVars
               PROVE  [Interface!Next]_Interface!vars
    OBVIOUS
  <2>1. CASE UNCHANGED decryptorVars
    BY <2>1 DEF decryptorVars, settings, Interface!vars
  <2>2. ASSUME NEW key \in Keys, set_decryption_key(key) \/ set_authentication_key(key)
        PROVE  Interface!Next
    BY <2>2, SettingIsSetKeyOrPrepare DEF Interface!Next
  <2>3. ASSUME NEW m \in Messages, decrypt_in_place(m)
        PROVE  Interface!Next
    BY <2>3, CallIsPrepare DEF Interface!Next
  <2>4. CASE Decrypt
    BY <2>4, StepIsWork, ReturnIsAnswer DEF Decrypt, DecryptPsa, Interface!Next
  <2>5. CASE DestroyPsa
    <3>1. /\ pc = "idle" /\ pc' = "gone"
          /\ UNCHANGED <<decryption_key, auth_key, message, text, returned>>
      BY <2>5 DEF DestroyPsa
    <3> QED
      BY <3>1 DEF Interface!vars
  <2> QED
    BY <2>1, <2>2, <2>3, <2>4, <2>5 DEF DecryptorNext
<1> QED
  BY DecryptorInvariance, <1>1, <1>2, PTL DEF DecryptorSpec, Interface!Safety

=============================================================================
