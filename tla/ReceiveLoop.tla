---------------------------- MODULE ReceiveLoop ----------------------------
(***************************************************************************)
(* The main loop of the example: it reads what the serial port has, and    *)
(* takes a quiet second for the end of a telegram.  The meter and the      *)
(* clock go on at every step of it.                                        *)
(*                                                                         *)
(* Time is counted in ticks.  No clock is a variable: what the code        *)
(* compares is the difference of two, counted no further than matters.     *)
(***************************************************************************)
EXTENDS Integers, Sequences, SequencesExt

CONSTANTS
  Lengths,    \* the bytes of each push, in the order in which they are sent
  SIZE,       \* of dlms_packet_buffer: 2000
  GAP,        \* the quiet that ends a packet: 1000 ms
  PAUSE,      \* ticks there may be between two bytes of a push
  INTERVAL,   \* ticks there are at least between two pushes
  LATENCY     \* ticks there may be between the ends of two calls of loop

ASSUME ReceiveAssumption ==
  /\ Lengths \in Seq(Nat \ {0}) /\ SIZE \in Nat \ {0}
  /\ GAP \in Nat /\ PAUSE \in Nat /\ LATENCY \in Nat /\ INTERVAL \in Nat

(* What loop() asks of the meter and of the rest of the program: the code  *)
(* relies on it, and neither number can be one less.                       *)
ASSUME TimingAssumption ==
  /\ PAUSE + LATENCY <= GAP
  /\ GAP + 3 * LATENCY < INTERVAL

VARIABLES
  arrived,    \* bytes that have arrived of each push
  quiet,      \* ticks since the last of them
  uart,       \* bytes that have arrived and were not read
  dlms_packet_buffer,
  dlms_packet_buffer_position,
  age,        \* millis() - last_read_timestamp
  at,         \* where loop is: "out", "reading" or "read"
  late,       \* ticks since it was last left
  handed      \* what parser.parse was called with

line == <<arrived, quiet>>
packet == <<dlms_packet_buffer, dlms_packet_buffer_position>>
vars == <<line, uart, packet, age, at, late, handed>>

(* The bytes of push k.                                                    *)
Sent(k) == [i \in 1 .. Lengths[k] |-> <<k, i>>]

Init ==
  /\ arrived = [k \in DOMAIN Lengths |-> 0] /\ quiet = INTERVAL
  /\ uart = << >>
  /\ dlms_packet_buffer = [i \in 1 .. SIZE |-> <<0, 0>>]
  /\ dlms_packet_buffer_position = 0
  /\ age = 0 /\ at = "out" /\ late = 0
  /\ handed = << >>

-----------------------------------------------------------------------------
(* The meter, and the clock.                                               *)
Under(k) == 0 < arrived[k] /\ arrived[k] < Lengths[k]
Turn(k) ==
  /\ arrived[k] < Lengths[k]
  /\ \A j \in 1 .. k - 1 : arrived[j] = Lengths[j]

Arrive ==
  \E k \in DOMAIN Lengths :
    /\ Turn(k)
    /\ Under(k) \/ quiet = INTERVAL
    /\ arrived' = [arrived EXCEPT ![k] = @ + 1]
    /\ uart' = Append(uart, <<k, arrived[k] + 1>>)
    /\ quiet' = 0
    /\ UNCHANGED <<packet, age, at, late, handed>>

UpTo(n, limit) == IF n < limit THEN n + 1 ELSE limit

Tick ==
  /\ late < LATENCY
  /\ (\E k \in DOMAIN Lengths : Under(k)) => quiet < PAUSE
  /\ quiet' = UpTo(quiet, INTERVAL)
  /\ age' = UpTo(age, GAP + 1)
  /\ late' = late + 1
  /\ UNCHANGED <<arrived, uart, packet, at, handed>>

-----------------------------------------------------------------------------
(* loop().                                                                 *)
Enter ==
  /\ at = "out"
  /\ at' = "reading"
  /\ UNCHANGED <<line, uart, packet, age, late, handed>>

(* A seeded mistake: the time of the last byte is not kept.                *)
ReadByteUntimed ==
  /\ at = "reading" /\ uart # << >>
  /\ LET room == dlms_packet_buffer_position < SIZE
         position == IF room THEN dlms_packet_buffer_position ELSE 0
     IN  /\ dlms_packet_buffer' = [dlms_packet_buffer EXCEPT ![position + 1] = Head(uart)]
         /\ dlms_packet_buffer_position' = position + 1
  /\ uart' = Tail(uart)
  /\ UNCHANGED <<line, age, at, late, handed>>

(* Another: one byte too many is written.                                  *)
ReadByteOneMore ==
  /\ at = "reading" /\ uart # << >>
  /\ LET room == dlms_packet_buffer_position <= SIZE
         position == IF room THEN dlms_packet_buffer_position ELSE 0
     IN  /\ dlms_packet_buffer' = [dlms_packet_buffer EXCEPT ![position + 1] = Head(uart)]
         /\ dlms_packet_buffer_position' = position + 1
  /\ uart' = Tail(uart)
  /\ age' = 0
  /\ UNCHANGED <<line, at, late, handed>>

(* A full buffer starts over.                                              *)
ReadByte ==
  /\ at = "reading" /\ uart # << >>
  /\ LET room == dlms_packet_buffer_position < SIZE
         position == IF room THEN dlms_packet_buffer_position ELSE 0
     IN  /\ dlms_packet_buffer' = [dlms_packet_buffer EXCEPT ![position + 1] = Head(uart)]
         /\ dlms_packet_buffer_position' = position + 1
  /\ uart' = Tail(uart)
  /\ age' = 0
  /\ UNCHANGED <<line, at, late, handed>>

(* A seeded mistake: the time is taken when there was no byte, too.        *)
NothingToReadTimed ==
  /\ at = "reading" /\ uart = << >>
  /\ at' = "read"
  /\ age' = 0
  /\ UNCHANGED <<line, uart, packet, late, handed>>

NothingToRead ==
  /\ at = "reading" /\ uart = << >>
  /\ at' = "read"
  /\ UNCHANGED <<line, uart, packet, age, late, handed>>

(* The packet is complete: it is handed to the parser.  (The time the      *)
(* parser takes is spent before the next call.)                            *)
Complete == age > GAP /\ dlms_packet_buffer_position > 0

HandOver ==
  /\ at = "read" /\ Complete
  /\ handed' = Append(handed, SubSeq(dlms_packet_buffer, 1, dlms_packet_buffer_position))
  /\ dlms_packet_buffer_position' = 0
  /\ at' = "out" /\ late' = 0
  /\ UNCHANGED <<line, uart, dlms_packet_buffer, age>>

Leave ==
  /\ at = "read" /\ ~ Complete
  /\ at' = "out" /\ late' = 0
  /\ UNCHANGED <<line, uart, packet, age, handed>>

loop == Enter \/ ReadByte \/ NothingToRead \/ HandOver \/ Leave

Next == Arrive \/ Tick \/ loop

Spec == Init /\ [][Next]_vars /\ WF_vars(loop) /\ WF_vars(Tick)

-----------------------------------------------------------------------------
TypeOK ==
  /\ arrived \in [DOMAIN Lengths -> Nat]
  /\ \A k \in DOMAIN Lengths : arrived[k] <= Lengths[k]
  /\ quiet \in 0 .. INTERVAL
  /\ uart \in Seq(Nat \X Nat)
  /\ dlms_packet_buffer \in [1 .. SIZE -> Nat \X Nat]
  /\ dlms_packet_buffer_position \in 0 .. SIZE
  /\ age \in 0 .. GAP + 1 /\ at \in {"out", "reading", "read"}
  /\ late \in 0 .. LATENCY
  /\ handed \in Seq(Seq(Nat \X Nat))

(* "If no byte is received for more than 1 second, the packet is complete" *)
(* (line 98): what the parser gets is one push, neither two nor a part,    *)
(* though the time of a byte is that of its reading and bytes arrive       *)
(* between the last look at the port and the look at the clock.  Of a push *)
(* that is too long for the buffer it gets the end; the next one is whole. *)
OnePushAtATime ==
  /\ Len(handed) <= Len(Lengths)
  /\ \A k \in DOMAIN handed :
       IF Lengths[k] <= SIZE THEN handed[k] = Sent(k)
       ELSE IsSuffix(handed[k], Sent(k))

(* Every push that has come in is handed over, without the help of another.*)
EveryPushIsHandedOver ==
  \A k \in DOMAIN Lengths : arrived[k] = Lengths[k] ~> Len(handed) >= k

=============================================================================
