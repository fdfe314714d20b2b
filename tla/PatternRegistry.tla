-------------------------- MODULE PatternRegistry --------------------------
(***************************************************************************)
(* The pattern table of AxdrParser: at most MAX_PATTERNS patterns, kept    *)
(* sorted by priority, a lower number first and equal ones in the order in *)
(* which they were registered.  The parser tries them in this order.       *)
(*                                                                         *)
(* What a pattern matches plays no part here; a pattern is known by the    *)
(* number of its registration.                                             *)
(***************************************************************************)
EXTENDS Integers, Sequences

CONSTANTS
  MAX_PATTERNS,       \* size of the table
  Priorities,         \* the priorities patterns are registered with
  ObisIds,            \* the OBIS ids patterns are registered with
  NoObis,             \* the empty ObisId
  BuiltIn,            \* priorities of the patterns load_default_patterns adds
  MaxRegistrations    \* bound: registrations in a behaviour

ASSUME RegistryAssumption ==
  /\ MAX_PATTERNS \in Nat \ {0}
  /\ Priorities \subseteq Int
  /\ NoObis \in ObisIds
  /\ BuiltIn \in Seq(Int) /\ Len(BuiltIn) <= MAX_PATTERNS
  /\ \A i, j \in DOMAIN BuiltIn : i < j => BuiltIn[i] < BuiltIn[j]
  /\ MaxRegistrations \in Nat

VARIABLES
  patterns,     \* patterns_[0] .. patterns_[patterns_count_ - 1]
  registered,   \* ghost: every pattern registered since the last clear
  number        \* ghost: how many registrations there have been

registryVars == <<patterns, registered, number>>

Pattern == [number : Nat, priority : Int, default_obis : ObisIds]

-----------------------------------------------------------------------------
(* A seeded mistake: in front of those of the same priority.               *)
IsInsertPosInFront(k, pat) ==
  /\ k \in 0 .. Len(patterns)
  /\ \A i \in 1 .. k : patterns[i].priority < pat.priority
  /\ k < Len(patterns) => patterns[k + 1].priority >= pat.priority

(* insert_pattern_: behind the patterns of the same or a smaller priority. *)
IsInsertPos(k, pat) ==
  /\ k \in 0 .. Len(patterns)
  /\ \A i \in 1 .. k : patterns[i].priority <= pat.priority
  /\ k < Len(patterns) => patterns[k + 1].priority > pat.priority

insert_pos(pat) == CHOOSE k \in 0 .. Len(patterns) : IsInsertPos(k, pat)

Full == Len(patterns) = MAX_PATTERNS

(* A seeded mistake: the last pattern of a full table is not dropped.      *)
InsertedBeyond(pat, k) ==
  [j \in 1 .. Len(patterns) + 1 |->
     IF j <= k THEN patterns[j]
     ELSE IF j = k + 1 THEN pat
     ELSE patterns[j - 1]]

(* The table once the patterns from k on were shifted right, the last one  *)
(* out of a full table.                                                    *)
Inserted(pat, k) ==
  [j \in 1 .. (IF Full THEN MAX_PATTERNS ELSE Len(patterns) + 1) |->
     IF j <= k THEN patterns[j]
     ELSE IF j = k + 1 THEN pat
     ELSE patterns[j - 1]]

(* A seeded mistake: a full table takes nothing.                           *)
insert_pattern_NotWhenFull(pat) ==
  IF Full THEN patterns ELSE Inserted(pat, insert_pos(pat))

insert_pattern_(pat) ==
  IF Full /\ insert_pos(pat) = MAX_PATTERNS
  THEN patterns
  ELSE Inserted(pat, insert_pos(pat))

(* The slot insert_pattern_ returns a reference to.                        *)
Returned(pat) ==
  IF Full /\ insert_pos(pat) = MAX_PATTERNS
  THEN MAX_PATTERNS
  ELSE insert_pos(pat) + 1

(* pat.default_obis = ... through that reference.                          *)
WithDefault(table, i, obis) == [table EXCEPT ![i].default_obis = obis]

New(priority, obis) ==
  [number |-> number + 1, priority |-> priority, default_obis |-> obis]

-----------------------------------------------------------------------------
RegistryInit == patterns = << >> /\ registered = {} /\ number = 0

(* register_pattern: the default OBIS is written through the reference the *)
(* insertion returned.                                                     *)
register_pattern(priority, obis) ==
  /\ number < MaxRegistrations
  /\ LET pat == New(priority, NoObis)
     IN  patterns' = WithDefault(insert_pattern_(pat), Returned(pat), obis)
  /\ registered' = registered \cup {New(priority, obis)}
  /\ number' = number + 1

(* register_flat_positional_pattern, of a field list that is not too long; *)
(* of any other nothing is registered.                                     *)
register_flat_positional_pattern(priority) ==
  /\ number < MaxRegistrations
  /\ patterns' = insert_pattern_(New(priority, NoObis))
  /\ registered' = registered \cup {New(priority, NoObis)}
  /\ number' = number + 1

clear_patterns ==
  /\ patterns' = << >>
  /\ registered' = {}
  /\ UNCHANGED number

(* The built-in patterns on a cleared table: their priorities ascend, so   *)
(* each goes behind the one before it.                                     *)
load_default_patterns ==
  /\ number + Len(BuiltIn) <= MaxRegistrations
  /\ patterns' = [i \in 1 .. Len(BuiltIn) |->
                    [number |-> number + i, priority |-> BuiltIn[i],
                     default_obis |-> NoObis]]
  /\ registered' = {patterns'[i] : i \in 1 .. Len(BuiltIn)}
  /\ number' = number + Len(BuiltIn)

RegistryNext ==
  \/ \E p \in Priorities, o \in ObisIds : register_pattern(p, o)
  \/ \E p \in Priorities : register_flat_positional_pattern(p)
  \/ clear_patterns
  \/ load_default_patterns

RegistrySpec == RegistryInit /\ [][RegistryNext]_registryVars

-----------------------------------------------------------------------------
RegistryTypeOK ==
  /\ patterns \in Seq(Pattern) /\ Len(patterns) <= MAX_PATTERNS
  /\ registered \subseteq Pattern
  /\ number \in Nat

(* p is to be tried before q.                                              *)
Before(p, q) ==
  \/ p.priority < q.priority
  \/ p.priority = q.priority /\ p.number < q.number

(* The table is sorted, and stable: of two patterns with one priority the  *)
(* one registered first is tried first.                                    *)
TriedInOrder ==
  \A i, j \in 1 .. Len(patterns) : i < j => Before(patterns[i], patterns[j])

Kept(r) == \E i \in 1 .. Len(patterns) : patterns[i].number = r.number

(* A pattern is missing from the table only when the table is full of      *)
(* patterns that come before it: whatever the order of the registrations,  *)
(* the table holds the first MAX_PATTERNS of all that were registered.     *)
KeepsTheFirst ==
  \A r \in registered :
    ~ Kept(r) => Full /\ \A i \in 1 .. Len(patterns) : Before(patterns[i], r)

(* A registration that finds no room is "rejected, keeping the system      *)
(* stable" (tests/test_axdr_registry.cpp:264): the patterns of the table   *)
(* still are what they were registered as, their default OBIS included.    *)
DefaultsAsRegistered ==
  \A i \in 1 .. Len(patterns) : patterns[i] \in registered

=============================================================================
