---------------------------- MODULE SpansProofs ----------------------------
(***************************************************************************)
(* What copying inside one buffer preserves: the lemmas behind the         *)
(* in-place decoders; and, by induction, what joining sequences does, and  *)
(* what a line carries: whole frames, a queue of them not sent yet, a line *)
(* that was cut or that holds one wrong byte.                              *)
(***************************************************************************)
EXTENDS Spans, SequencesExt, SequenceTheorems, WellFoundedInduction, TLAPS

(* A copy that ends inside the buffer leaves a buffer of the same length.  *)
LEMMA CopyToType ==
  ASSUME NEW S, NEW b \in Seq(S), NEW s \in Seq(S), NEW dst \in Nat
  PROVE  /\ CopyTo(b, s, dst) \in Seq(S)
         /\ Len(CopyTo(b, s, dst)) = Len(b)
  BY DEF CopyTo

(* What lies behind the bytes written is as it was.                        *)
LEMMA CopyToTail ==
  ASSUME NEW S, NEW b \in Seq(S), NEW s \in Seq(S), NEW dst \in Nat,
         NEW off \in Nat, dst + Len(s) <= off
  PROVE  From(CopyTo(b, s, dst), off) = From(b, off)
<1> DEFINE c == CopyTo(b, s, dst)
<1>1. c \in Seq(S) /\ Len(c) = Len(b)
  BY CopyToType
<1>2. ASSUME NEW i \in off + 1 .. Len(b) PROVE c[i] = b[i]
  BY DEF CopyTo
<1> QED
  BY <1>1, <1>2 DEF From

(* What was written last is appended to what was written before.           *)
LEMMA CopyToFront ==
  ASSUME NEW S, NEW b \in Seq(S), NEW s \in Seq(S), NEW dst \in Nat,
         dst + Len(s) <= Len(b)
  PROVE  Subspan(CopyTo(b, s, dst), 0, dst + Len(s)) = Subspan(b, 0, dst) \o s
<1> DEFINE c == CopyTo(b, s, dst)
           l == SubSeq(c, 1, dst + Len(s))
           r == SubSeq(b, 1, dst) \o s
<1>1. c \in Seq(S) /\ Len(c) = Len(b)
  BY CopyToType
<1>2. l \in Seq(S) /\ Len(l) = dst + Len(s)
  BY <1>1
<1>3. r \in Seq(S) /\ Len(r) = dst + Len(s)
  OBVIOUS
<1>4. ASSUME NEW i \in 1 .. dst + Len(s) PROVE l[i] = r[i]
  <2>1. l[i] = c[i]
    BY <1>1
  <2>2. c[i] = IF i \in dst + 1 .. dst + Len(s) THEN s[i - dst] ELSE b[i]
    BY DEF CopyTo
  <2>3. r[i] = IF i <= dst THEN b[i] ELSE s[i - dst]
    OBVIOUS
  <2> QED
    BY <2>1, <2>2, <2>3
<1>5. l = r
  <2> HIDE DEF l, r
  <2> QED
    BY <1>2, <1>3, <1>4, SeqEqual
<1> QED
  BY <1>5 DEF Subspan

(* Buffers that agree from an offset on agree from any later one.          *)
LEMMA FromLater ==
  ASSUME NEW S, NEW b \in Seq(S), NEW t \in Seq(S), Len(b) = Len(t),
         NEW off \in Nat, NEW later \in Nat, off <= later,
         From(b, off) = From(t, off)
  PROVE  From(b, later) = From(t, later)
<1>1. ASSUME NEW i \in off + 1 .. Len(b) PROVE b[i] = t[i]
  <2>1. From(b, off)[i - off] = b[i] /\ From(t, off)[i - off] = t[i]
    BY DEF From
  <2> QED
    BY <2>1
<1>2. ASSUME NEW i \in later + 1 .. Len(b) PROVE b[i] = t[i]
  BY <1>1
<1> QED
  BY <1>2 DEF From

-----------------------------------------------------------------------------
(* What holds of 0, and of n + 1 when it holds of n, holds of every        *)
(* natural number: stated of a set, which the provers can instantiate.     *)
LEMMA SetInduction ==
  ASSUME NEW S, 0 \in S, \A n \in Nat : n \in S => n + 1 \in S
  PROVE  Nat \subseteq S
<1> DEFINE T == Nat \ S
<1> SUFFICES ASSUME T # {} PROVE FALSE
  OBVIOUS
<1>1. PICK x \in T : \A y \in T : ~ (<<y, x>> \in OpToRel(<, Nat))
  <2>1. T \subseteq Nat
    OBVIOUS
  <2> HIDE DEF T
  <2> QED
    BY <2>1, NatLessThanWellFounded, WFMin
<1>2. \A y \in T : ~ (y < x)
  BY <1>1 DEF OpToRel
<1>3. x \in Nat /\ x # 0
  OBVIOUS
<1>4. x - 1 \in Nat /\ x - 1 < x /\ (x - 1) + 1 = x
  BY <1>3
<1>5. x - 1 \in S
  BY <1>2, <1>4
<1> QED
  BY <1>4, <1>5

(* The values of f from m to n, each made from the one before.             *)
Iterates(f, m, n, base, G) ==
  f[m] = base /\ \A i \in m + 1 .. n : f[i] = G[i][f[i - 1]]

(* There is such a function, whatever a value is made into.                *)
LEMMA IterationExists ==
  ASSUME NEW V, NEW m \in Nat, NEW n \in Nat, m <= n, NEW base \in V,
         NEW G \in [m + 1 .. n -> [V -> V]]
  PROVE  \E f \in [m .. n -> V] : Iterates(f, m, n, base, G)
<1> DEFINE P(f, k) == f[m] = base /\ \A i \in m + 1 .. k : f[i] = G[i][f[i - 1]]
           S == {k \in Nat : m + k <= n => \E f \in [m .. m + k -> V] : P(f, m + k)}
<1>1. 0 \in S
  <2> DEFINE f == [i \in m .. m + 0 |-> base]
  <2>1. f \in [m .. m + 0 -> V] /\ P(f, m + 0)
    OBVIOUS
  <2> HIDE DEF f, P
  <2> QED
    BY <2>1
<1>2. ASSUME NEW k \in Nat, k \in S PROVE k + 1 \in S
  <2> SUFFICES ASSUME m + (k + 1) <= n
               PROVE  \E f \in [m .. m + (k + 1) -> V] : P(f, m + (k + 1))
    OBVIOUS
  <2>1. m + k <= n /\ m + k + 1 \in m + 1 .. n
    OBVIOUS
  <2>2. PICK f \in [m .. m + k -> V] : P(f, m + k)
    <3> HIDE DEF P
    <3> QED
      BY <1>2, <2>1
  <2> DEFINE g == [i \in m .. m + (k + 1) |->
                     IF i = m + k + 1 THEN G[i][f[i - 1]] ELSE f[i]]
  <2>3. G[m + k + 1][f[m + k]] \in V
    BY <2>1
  <2>4. g \in [m .. m + (k + 1) -> V]
    BY <2>3
  <2>5. g[m] = base
    BY <2>2
  <2>6. ASSUME NEW i \in m + 1 .. m + (k + 1) PROVE g[i] = G[i][g[i - 1]]
    <3>1. g[i - 1] = f[i - 1]
      OBVIOUS
    <3>2. CASE i = m + k + 1
      <4>1. g[i] = G[i][f[i - 1]]
        BY <3>2
      <4> QED
        BY <3>1, <4>1
    <3>3. CASE i # m + k + 1
      <4>1. i \in m + 1 .. m + k /\ g[i] = f[i]
        BY <3>3
      <4> HIDE DEF g
      <4> QED
        BY <2>2, <3>1, <4>1
    <3> QED
      BY <3>2, <3>3
  <2>7. P(g, m + (k + 1))
    <3> HIDE DEF g
    <3> QED
      BY <2>5, <2>6
  <2> HIDE DEF g, P
  <2> QED
    BY <2>4, <2>7
<1>3. n - m \in S
  <2>1. n - m \in Nat
    OBVIOUS
  <2> HIDE DEF S
  <2> QED
    BY <1>1, <1>2, <2>1, SetInduction
<1>4. m + (n - m) = n
  OBVIOUS
<1>5. \E f \in [m .. n -> V] : P(f, n)
  <2> HIDE DEF P
  <2> QED
    BY <1>3, <1>4
<1> QED
  BY <1>5 DEF Iterates

(* Induction from m to n.                                                  *)
LEMMA IntervalInduction ==
  ASSUME NEW m \in Nat, NEW n \in Nat, NEW S, m \in S,
         \A i \in m + 1 .. n : i - 1 \in S => i \in S
  PROVE  m .. n \subseteq S
<1> DEFINE T == {k \in Nat : m + k <= n => m + k \in S}
<1>1. 0 \in T
  OBVIOUS
<1>2. ASSUME NEW k \in Nat, k \in T PROVE k + 1 \in T
  <2> SUFFICES ASSUME m + (k + 1) <= n PROVE m + (k + 1) \in S
    OBVIOUS
  <2> DEFINE j == m + k + 1
  <2>1. j \in m + 1 .. n /\ j - 1 = m + k /\ j = m + (k + 1)
    OBVIOUS
  <2>2. m + k \in S
    BY <1>2
  <2> HIDE DEF j
  <2> QED
    BY <2>1, <2>2
<1>3. Nat \subseteq T
  <2> HIDE DEF T
  <2> QED
    BY <1>1, <1>2, SetInduction
<1> SUFFICES ASSUME NEW i \in m .. n PROVE i \in S
  OBVIOUS
<1>4. i - m \in Nat /\ m + (i - m) = i
  OBVIOUS
<1>5. i - m \in T
  BY <1>3, <1>4
<1>6. m + (i - m) <= n
  BY <1>4
<1> QED
  BY <1>4, <1>5, <1>6

-----------------------------------------------------------------------------
(* The first sequence, the first two put together, and so on.              *)
Flattens(f, s, n) ==
  f[1] = s[1] /\ \A i \in 2 .. n : f[i] = f[i - 1] \o s[i]

(* Joining sequences is one such iteration.                                *)
LEMMA FlattenUnfold ==
  ASSUME NEW S, NEW s \in Seq(Seq(S)), NEW n \in Nat, n = Len(s), s # << >>
  PROVE  \E f \in [1 .. n -> Seq(S)] : FlattenSeq(s) = f[n] /\ Flattens(f, s, n)
<1> DEFINE W == Seq(S)
           P(f) == f = [i \in 1 .. n |-> IF i = 1 THEN s[i] ELSE f[i - 1] \o s[i]]
           G == [i \in 2 .. n |-> [v \in W |-> v \o s[i]]]
<1>1. n \in Nat /\ 1 <= n /\ \A i \in 1 .. n : s[i] \in W
  OBVIOUS
<1>2. ASSUME NEW i \in 2 .. n, NEW v \in W
      PROVE  G[i][v] = v \o s[i] /\ v \o s[i] \in W
  <2>1. G[i][v] = v \o s[i]
    OBVIOUS
  <2>2. s[i] \in Seq(S)
    BY <1>1
  <2> QED
    BY <2>1, <2>2, ConcatProperties
<1>3. G \in [1 + 1 .. n -> [W -> W]] /\ 1 \in Nat
  <2>1. \A i \in 1 + 1 .. n : [v \in W |-> v \o s[i]] \in [W -> W]
    <3> SUFFICES ASSUME NEW i \in 1 + 1 .. n, NEW v \in W PROVE v \o s[i] \in W
      OBVIOUS
    <3>1. i \in 2 .. n
      BY <1>1
    <3> QED
      BY <1>2, <3>1
  <2>2. 1 + 1 .. n = 2 .. n
    BY <1>1
  <2> HIDE DEF W
  <2> QED
    BY <2>1, <2>2
<1> HIDE DEF W, G
<1>4. PICK g \in [1 .. n -> W] :
        g[1] = s[1] /\ \A i \in 2 .. n : g[i] = g[i - 1] \o s[i]
  <2>1. s[1] \in W
    BY <1>1
  <2>2. PICK g \in [1 .. n -> W] : Iterates(g, 1, n, s[1], G)
    BY <1>1, <1>3, <2>1, IterationExists, Zenon
  <2>3. ASSUME NEW i \in 2 .. n PROVE g[i] = g[i - 1] \o s[i]
    <3>1. i \in 1 + 1 .. n /\ g[i - 1] \in W
      BY <1>1
    <3>2. g[i] = G[i][g[i - 1]]
      BY <2>2, <3>1 DEF Iterates
    <3> QED
      BY <1>2, <3>1, <3>2
  <2> QED
    BY <2>2, <2>3 DEF Iterates
<1>5. P(g)
  <2>1. ASSUME NEW i \in 1 .. n
        PROVE  g[i] = IF i = 1 THEN s[i] ELSE g[i - 1] \o s[i]
    <3>1. CASE i = 1
      BY <1>4, <3>1
    <3>2. CASE i # 1
      <4>1. i \in 2 .. n
        BY <1>1, <3>2
      <4> QED
        BY <1>4, <3>2, <4>1
    <3> QED
      BY <3>1, <3>2
  <2> QED
    BY <1>4, <2>1
<1> DEFINE h == CHOOSE f : P(f)
<1>6. P(h)
  <2> HIDE DEF P
  <2> QED
    BY <1>5
<1>7. FlattenSeq(s) = h[n]
  <2>1. Len(s) # 0
    BY <1>1
  <2> QED
    BY <2>1 DEF FlattenSeq
<1> HIDE DEF h
<1>8. h[1] = s[1]
  BY <1>1, <1>6
<1>9. ASSUME NEW i \in 2 .. n PROVE h[i] = h[i - 1] \o s[i]
  <2>1. i \in 1 .. n /\ i # 1
    OBVIOUS
  <2> QED
    BY <1>6, <2>1
<1>10. h[n] = g[n]
  <2> DEFINE T == {i \in 1 .. n : h[i] = g[i]}
  <2>1. 1 \in T /\ 1 \in Nat
    BY <1>1, <1>4, <1>8
  <2>2. ASSUME NEW i \in 1 + 1 .. n, i - 1 \in T PROVE i \in T
    <3>1. i \in 2 .. n /\ i \in 1 .. n
      BY <1>1
    <3> HIDE DEF P
    <3> QED
      BY <1>4, <1>9, <2>2, <3>1
  <2>3. 1 .. n \subseteq T
    <3> HIDE DEF T, P
    <3> QED
      BY <2>1, <2>2, IntervalInduction
  <2> QED
    BY <1>1, <2>3
<1> QED
  BY <1>4, <1>7, <1>10 DEF W, Flattens

(* Joined sequences are a sequence of the same elements; joining follows   *)
(* appending, concatenation and a single sequence.                         *)
LEMMA FlattenType ==
  ASSUME NEW S, NEW s \in Seq(Seq(S))
  PROVE  FlattenSeq(s) \in Seq(S)
<1>1. CASE s = << >>
  <2>1. Len(s) = 0 /\ s \in Seq(S)
    BY <1>1
  <2> QED
    BY <2>1 DEF FlattenSeq
<1>2. CASE s # << >>
  <2>1. Len(s) \in 1 .. Len(s) /\ Len(s) \in Nat
    BY <1>2
  <2>2. PICK f \in [1 .. Len(s) -> Seq(S)] :
          FlattenSeq(s) = f[Len(s)] /\ Flattens(f, s, Len(s))
    BY <1>2, <2>1, FlattenUnfold
  <2> QED
    BY <2>1, <2>2
<1> QED
  BY <1>1, <1>2

LEMMA FlattenEmpty == FlattenSeq(<< >>) = << >>
<1>1. Len(<< >>) = 0
  OBVIOUS
<1> QED
  BY <1>1 DEF FlattenSeq

LEMMA FlattenAppend ==
  ASSUME NEW S, NEW s \in Seq(Seq(S)), NEW x \in Seq(S)
  PROVE  FlattenSeq(Append(s, x)) = FlattenSeq(s) \o x
<1> DEFINE t == Append(s, x)
           n == Len(s)
<1>1. n \in Nat
  OBVIOUS
<1>2. /\ t \in Seq(Seq(S)) /\ t # << >> /\ Len(t) = n + 1
      /\ (\A i \in 1 .. n : t[i] = s[i]) /\ t[n + 1] = x
  <2> DEFINE W == Seq(S)
  <2>1. s \in Seq(W) /\ x \in W
    OBVIOUS
  <2> HIDE DEF W
  <2>2. /\ t \in Seq(W) /\ t # << >> /\ Len(t) = n + 1
        /\ (\A i \in 1 .. n : t[i] = s[i]) /\ t[n + 1] = x
    BY <2>1, AppendProperties
  <2> QED
    BY <2>2 DEF W
<1> HIDE DEF t
<1>3. PICK f \in [1 .. n + 1 -> Seq(S)] : FlattenSeq(t) = f[n + 1] /\ Flattens(f, t, n + 1)
  <2>1. n + 1 \in Nat /\ n + 1 = Len(t)
    BY <1>1, <1>2
  <2> QED
    BY <1>2, <2>1, FlattenUnfold
<1>4. CASE s = << >>
  <2>1. n = 0
    BY <1>4
  <2>2. FlattenSeq(t) = x
    BY <1>2, <1>3, <2>1 DEF Flattens
  <2> QED
    BY <1>4, <2>2, FlattenEmpty, ConcatEmptySeq DEF t
<1>5. CASE s # << >>
  <2>1. PICK g \in [1 .. n -> Seq(S)] : FlattenSeq(s) = g[n] /\ Flattens(g, s, n)
    BY <1>1, <1>5, FlattenUnfold
  <2>2. 1 <= n
    BY <1>5
  <2> HIDE DEF n
  <2>3. g[n] = f[n]
    <3> DEFINE T == {i \in 1 .. n : g[i] = f[i]}
    <3>1. 1 \in T /\ 1 \in Nat
      BY <1>1, <1>2, <1>3, <2>1, <2>2 DEF Flattens
    <3>2. ASSUME NEW i \in 1 + 1 .. n, i - 1 \in T PROVE i \in T
      <4>1. i \in 2 .. n /\ i \in 2 .. n + 1 /\ i \in 1 .. n
        BY <1>1
      <4> QED
        BY <1>2, <1>3, <2>1, <3>2, <4>1 DEF Flattens
    <3>3. 1 .. n \subseteq T
      <4> HIDE DEF T
      <4> QED
        BY <1>1, <3>1, <3>2, IntervalInduction
    <3> QED
      BY <1>1, <2>2, <3>3
  <2>4. f[n + 1] = f[n] \o t[n + 1]
    <3>1. n + 1 \in 2 .. n + 1 /\ (n + 1) - 1 = n
      BY <1>1, <2>2
    <3> QED
      BY <1>3, <3>1 DEF Flattens
  <2> QED
    BY <1>2, <1>3, <2>1, <2>3, <2>4 DEF t
<1> QED
  BY <1>4, <1>5

(* Concatenation is associative.  (The predicates are names for what the   *)
(* lemmas say, so that a use of a lemma can be matched with it.)           *)
Associates(x, y, z) == (x \o y) \o z = x \o (y \o z)

LEMMA Assoc ==
  ASSUME NEW S, NEW x \in Seq(S), NEW y \in Seq(S), NEW z \in Seq(S)
  PROVE  Associates(x, y, z) /\ y \o z \in Seq(S) /\ x \o y \in Seq(S)
  BY ConcatAssociative, ConcatProperties DEF Associates

LEMMA FlattenConcat ==
  ASSUME NEW S, NEW s \in Seq(Seq(S)), NEW t \in Seq(Seq(S))
  PROVE  FlattenSeq(s \o t) = FlattenSeq(s) \o FlattenSeq(t)
<1> DEFINE W == Seq(S)
           T == {n \in Nat : \A u \in Seq(W) : Len(u) = n =>
                   FlattenSeq(s \o u) = FlattenSeq(s) \o FlattenSeq(u)}
<1>1. FlattenSeq(s) \in W /\ s \in Seq(W)
  BY FlattenType
<1>2. 0 \in T
  <2> SUFFICES ASSUME NEW u \in Seq(W), Len(u) = 0
               PROVE  FlattenSeq(s \o u) = FlattenSeq(s) \o FlattenSeq(u)
    OBVIOUS
  <2>1. u = << >>
    OBVIOUS
  <2>2. s \o << >> = s
    BY <1>1, ConcatEmptySeq
  <2>3. FlattenSeq(s) \o << >> = FlattenSeq(s)
    BY <1>1, ConcatEmptySeq
  <2> QED
    BY <2>1, <2>2, <2>3, FlattenEmpty
<1>3. ASSUME NEW n \in Nat, n \in T PROVE n + 1 \in T
  <2> SUFFICES ASSUME NEW u \in Seq(W), Len(u) = n + 1
               PROVE  FlattenSeq(s \o u) = FlattenSeq(s) \o FlattenSeq(u)
    OBVIOUS
  <2>1. u # << >>
    OBVIOUS
  <2>2. PICK v \in Seq(W), x \in W : u = Append(v, x)
    <3> HIDE DEF W, T
    <3> QED
      BY <2>1, SequenceEmptyOrAppend
  <2>3. Len(v) = n
    <3> HIDE DEF W, T
    <3>1. Len(Append(v, x)) = Len(v) + 1
      BY AppendProperties
    <3> QED
      BY <2>2, <3>1
  <2>4. FlattenSeq(s \o v) = FlattenSeq(s) \o FlattenSeq(v)
    BY <1>3, <2>3
  <2> HIDE DEF T
  <2>5. s \o u = Append(s \o v, x)
    <3> HIDE DEF W
    <3>1. u = v \o <<x>> /\ Append(s \o v, x) = (s \o v) \o <<x>>
      BY <1>1, <2>2, AppendIsConcat, ConcatProperties
    <3> QED
      BY <1>1, <3>1, ConcatAssociative
  <2>6. FlattenSeq(s \o u) = FlattenSeq(s \o v) \o x
    <3>1. s \o v \in Seq(W)
      BY <1>1, ConcatProperties
    <3> QED
      BY <2>5, <3>1, FlattenAppend
  <2>7. FlattenSeq(u) = FlattenSeq(v) \o x
    BY <2>2, FlattenAppend
  <2>8. FlattenSeq(v) \in Seq(S)
    BY FlattenType
  <2>9. (FlattenSeq(s) \o FlattenSeq(v)) \o x = FlattenSeq(s) \o (FlattenSeq(v) \o x)
    <3>1. FlattenSeq(s) \in Seq(S) /\ FlattenSeq(v) \in Seq(S) /\ x \in Seq(S)
      BY <1>1, <2>8
    <3> HIDE DEF W
    <3>2. Associates(FlattenSeq(s), FlattenSeq(v), x)
      BY <3>1, Assoc, Zenon
    <3> QED
      BY <3>2, Zenon DEF Associates
  <2> QED
    BY <2>4, <2>6, <2>7, <2>9
<1>4. Nat \subseteq T
  <2> HIDE DEF T
  <2> QED
    BY <1>2, <1>3, SetInduction
<1>5. Len(t) \in T /\ t \in Seq(W)
  BY <1>4
<1> QED
  BY <1>5

LEMMA FlattenOne ==
  ASSUME NEW S, NEW x \in Seq(S)
  PROVE  FlattenSeq(<<x>>) = x
<1>1. <<x>> = Append(<< >>, x) /\ << >> \in Seq(Seq(S))
  OBVIOUS
<1>2. FlattenSeq(<<x>>) = FlattenSeq(<< >>) \o x
  BY <1>1, FlattenAppend
<1> QED
  BY <1>2, FlattenEmpty, ConcatEmptySeq

-----------------------------------------------------------------------------

(* The same of four parts.                                                 *)
Regroups(x, y, z, v) == (x \o (y \o z)) \o v = x \o (y \o (z \o v))

LEMMA Regroup ==
  ASSUME NEW S, NEW x \in Seq(S), NEW y \in Seq(S), NEW z \in Seq(S), NEW v \in Seq(S)
  PROVE  Regroups(x, y, z, v) /\ z \o v \in Seq(S)
<1>1. y \o z \in Seq(S) /\ Associates(y, z, v) /\ z \o v \in Seq(S)
  BY Assoc, Zenon
<1>2. Associates(x, y \o z, v)
  BY <1>1, Assoc, Zenon
<1> QED
  BY <1>1, <1>2 DEF Associates, Regroups

(* What is appended to the whole is appended to the last part.             *)
AppendsInside(x, y, z, w) == Append(x \o (y \o z), w) = x \o (y \o Append(z, w))

LEMMA AppendInside ==
  ASSUME NEW S, NEW x \in Seq(S), NEW y \in Seq(S), NEW z \in Seq(S), NEW w \in S
  PROVE  AppendsInside(x, y, z, w) /\ Append(z, w) \in Seq(S)
<1>1. x \o (y \o z) \in Seq(S) /\ <<w>> \in Seq(S) /\ Append(z, w) \in Seq(S)
  OBVIOUS
<1>2. /\ Append(x \o (y \o z), w) = (x \o (y \o z)) \o <<w>>
      /\ Append(z, w) = z \o <<w>>
  <2>1. \A u \in Seq(S) : Append(u, w) = u \o <<w>>
    OBVIOUS
  <2> QED
    BY <1>1, <2>1, Zenon
<1>3. Regroups(x, y, z, <<w>>)
  BY <1>1, Regroup, Zenon
<1> QED
  BY <1>1, <1>2, <1>3 DEF Regroups, AppendsInside

(* What bytes on a line carry.  A piece of coding is a pair of bytes and   *)
(* the data they stand for; noise stands for nothing.  R is closed when it *)
(* holds of no bytes and no data, and goes on holding when noise or coded  *)
(* data are appended; bytes carry data when every closed relation holds of *)
(* the two.                                                                *)
Lines(S) == Seq(S) \X Seq(Seq(S))

Closed(S, Coding, Noise, R) ==
  /\ R \subseteq Lines(S)
  /\ <<<< >>, << >>>> \in R
  /\ \A b \in Seq(S), D \in Seq(Seq(S)) : <<b, D>> \in R =>
       /\ \A x \in Noise : <<b \o x, D>> \in R
       /\ \A f \in Coding : <<b \o f[1], Append(D, f[2])>> \in R

Carries(S, Coding, Noise, b, D) ==
  \A R \in SUBSET Lines(S) : Closed(S, Coding, Noise, R) => <<b, D>> \in R

(* Bytes carry data of their own alphabet.                                 *)
LEMMA LinesClosed ==
  ASSUME NEW S, NEW Coding \in SUBSET (Seq(S) \X Seq(S)), NEW Noise \in SUBSET Seq(S)
  PROVE  Closed(S, Coding, Noise, Lines(S))
<1>0. \A b \in Seq(S), D \in Seq(Seq(S)) : <<b, D>> \in Lines(S)
  BY DEF Lines
<1>1. <<<< >>, << >>>> \in Lines(S)
  <2>1. << >> \in Seq(S) /\ << >> \in Seq(Seq(S))
    OBVIOUS
  <2> QED
    BY <1>0, <2>1, Zenon
<1>2. ASSUME NEW b \in Seq(S), NEW D \in Seq(Seq(S)), NEW x \in Noise
      PROVE  <<b \o x, D>> \in Lines(S)
  <2>1. b \o x \in Seq(S)
    OBVIOUS
  <2> QED
    BY <1>0, <2>1, Zenon
<1>3. ASSUME NEW b \in Seq(S), NEW D \in Seq(Seq(S)), NEW f \in Coding
      PROVE  <<b \o f[1], Append(D, f[2])>> \in Lines(S)
  <2>1. f[1] \in Seq(S) /\ f[2] \in Seq(S)
    OBVIOUS
  <2>2. b \o f[1] \in Seq(S)
    BY <2>1
  <2>3. Append(D, f[2]) \in Seq(Seq(S))
    BY <2>1
  <2> QED
    BY <2>2, <2>3 DEF Lines
<1> QED
  BY <1>1, <1>2, <1>3 DEF Closed

LEMMA CarriesType ==
  ASSUME NEW S, NEW Coding \in SUBSET (Seq(S) \X Seq(S)), NEW Noise \in SUBSET Seq(S),
         NEW b, NEW D, Carries(S, Coding, Noise, b, D)
  PROVE  b \in Seq(S) /\ D \in Seq(Seq(S))
<1>1. <<b, D>> \in Lines(S)
  BY LinesClosed DEF Carries
<1> QED
  BY <1>1 DEF Lines

(* The three ways to carry data, straight from the definition.             *)
LEMMA CarriesNothing ==
  ASSUME NEW S, NEW Coding, NEW Noise
  PROVE  Carries(S, Coding, Noise, << >>, << >>)
  BY DEF Carries, Closed

LEMMA CarriesNoise ==
  ASSUME NEW S, NEW Coding \in SUBSET (Seq(S) \X Seq(S)), NEW Noise \in SUBSET Seq(S),
         NEW b, NEW D, Carries(S, Coding, Noise, b, D), NEW x \in Noise
  PROVE  Carries(S, Coding, Noise, b \o x, D)
<1>1. b \in Seq(S) /\ D \in Seq(Seq(S))
  BY CarriesType
<1> SUFFICES ASSUME NEW R \in SUBSET Lines(S), Closed(S, Coding, Noise, R)
             PROVE  <<b \o x, D>> \in R
  BY DEF Carries
<1>2. <<b, D>> \in R
  BY DEF Carries
<1> QED
  BY <1>1, <1>2 DEF Closed

LEMMA CarriesCoded ==
  ASSUME NEW S, NEW Coding \in SUBSET (Seq(S) \X Seq(S)), NEW Noise \in SUBSET Seq(S),
         NEW b, NEW D, Carries(S, Coding, Noise, b, D), NEW f \in Coding
  PROVE  Carries(S, Coding, Noise, b \o f[1], Append(D, f[2]))
<1>1. b \in Seq(S) /\ D \in Seq(Seq(S))
  BY CarriesType
<1> SUFFICES ASSUME NEW R \in SUBSET Lines(S), Closed(S, Coding, Noise, R)
             PROVE  <<b \o f[1], Append(D, f[2])>> \in R
  BY DEF Carries
<1>2. <<b, D>> \in R
  BY DEF Carries
<1> QED
  BY <1>1, <1>2, Zenon DEF Closed

(* More noise is allowed to the same bytes.                                *)
LEMMA CarriesMonotone ==
  ASSUME NEW S, NEW Coding \in SUBSET (Seq(S) \X Seq(S)), NEW Noise \in SUBSET Seq(S),
         NEW Less \in SUBSET Noise,
         NEW b, NEW D, Carries(S, Coding, Less, b, D)
  PROVE  Carries(S, Coding, Noise, b, D)
<1> SUFFICES ASSUME NEW R \in SUBSET Lines(S), Closed(S, Coding, Noise, R)
             PROVE  <<b, D>> \in R
  BY DEF Carries
<1>1. Closed(S, Coding, Less, R)
  BY DEF Closed
<1> QED
  BY <1>1 DEF Carries

(* How bytes that carry data begin.                                        *)
FirstIs(S, Coding, Noise, b, D) ==
  \/ b = << >> /\ D = << >>
  \/ \E x \in Noise, c \in Seq(S) : b = x \o c /\ Carries(S, Coding, Noise, c, D)
  \/ \E f \in Coding, c \in Seq(S), E \in Seq(Seq(S)) :
       /\ b = f[1] \o c /\ D = <<f[2]>> \o E
       /\ Carries(S, Coding, Noise, c, E)

LEMMA CarriesFirst ==
  ASSUME NEW S, NEW Coding \in SUBSET (Seq(S) \X Seq(S)), NEW Noise \in SUBSET Seq(S),
         NEW b, NEW D, Carries(S, Coding, Noise, b, D)
  PROVE  FirstIs(S, Coding, Noise, b, D)
<1> DEFINE R == {p \in Lines(S) : FirstIs(S, Coding, Noise, p[1], p[2])}
           W == Seq(S)
<1>1. \A c \in Seq(S), E \in Seq(Seq(S)) :
        <<c, E>> \in R <=> FirstIs(S, Coding, Noise, c, E)
  BY DEF Lines
<1> HIDE DEF R
<1>2. R \in SUBSET Lines(S)
  BY DEF R
<1>4. /\ << >> \in Seq(S) /\ << >> \in Seq(Seq(S))
      /\ Carries(S, Coding, Noise, << >>, << >>)
  BY CarriesNothing
<1>3. <<<< >>, << >>>> \in R
  <2>1. FirstIs(S, Coding, Noise, << >>, << >>)
    BY Zenon DEF FirstIs
  <2> QED
    BY <1>1, <1>4, <2>1, Zenon
<1>a. \A x, y, z \in Seq(S) : (x \o y) \o z = x \o (y \o z) /\ y \o z \in Seq(S)
  BY Assoc DEF Associates
<1>5. ASSUME NEW c \in Seq(S), NEW E \in Seq(Seq(S)), <<c, E>> \in R, NEW x \in Noise
      PROVE  <<c \o x, E>> \in R
  <2>1. FirstIs(S, Coding, Noise, c, E) /\ c \o x \in Seq(S) /\ x \in Seq(S)
    BY <1>1, <1>5
  <2>2. CASE c = << >> /\ E = << >>
    <3>1. c \o x = x \o << >>
      BY <2>1, <2>2
    <3>2. FirstIs(S, Coding, Noise, c \o x, E)
      BY <1>4, <2>2, <3>1, Zenon DEF FirstIs
    <3> QED
      BY <1>1, <2>1, <3>2
  <2>3. ASSUME NEW y \in Noise, NEW d \in Seq(S), c = y \o d, Carries(S, Coding, Noise, d, E)
        PROVE  <<c \o x, E>> \in R
    <3>1. c \o x = y \o (d \o x) /\ d \o x \in Seq(S)
      BY <2>1, <2>3
    <3>2. Carries(S, Coding, Noise, d \o x, E)
      BY <2>3, CarriesNoise
    <3>3. FirstIs(S, Coding, Noise, c \o x, E)
      BY <3>1, <3>2, Zenon DEF FirstIs
    <3> QED
      BY <1>1, <2>1, <3>3
  <2>4. ASSUME NEW f \in Coding, NEW d \in Seq(S), NEW F \in Seq(Seq(S)),
               c = f[1] \o d, E = <<f[2]>> \o F, Carries(S, Coding, Noise, d, F)
        PROVE  <<c \o x, E>> \in R
    <3>0. f[1] \in Seq(S)
      OBVIOUS
    <3>1. c \o x = f[1] \o (d \o x) /\ d \o x \in Seq(S)
      BY <1>a, <2>1, <2>4, <3>0, Zenon
    <3>2. Carries(S, Coding, Noise, d \o x, F)
      BY <2>4, CarriesNoise
    <3>3. FirstIs(S, Coding, Noise, c \o x, E)
      BY <2>4, <3>1, <3>2, Zenon DEF FirstIs
    <3> QED
      BY <1>1, <2>1, <3>3
  <2> QED
    BY <2>1, <2>2, <2>3, <2>4, Zenon DEF FirstIs
<1>6. ASSUME NEW c \in Seq(S), NEW E \in Seq(Seq(S)), <<c, E>> \in R, NEW g \in Coding
      PROVE  <<c \o g[1], Append(E, g[2])>> \in R
  <2>0. PICK v \in Seq(S), w \in Seq(S) : v = g[1] /\ w = g[2]
    OBVIOUS
  <2>v. v \in Seq(S)
    BY <2>0
  <2> SUFFICES <<c \o v, Append(E, w)>> \in R
    BY <2>0
  <2>1. FirstIs(S, Coding, Noise, c, E) /\ c \o v \in Seq(S)
    BY <1>1, <1>6, <2>0
  <2>a. Append(E, w) \in Seq(Seq(S))
    BY <2>0
  <2>2. CASE c = << >> /\ E = << >>
    <3>1. c \o v = v \o << >>
      BY <2>0, <2>2
    <3>2. Append(E, w) = <<w>> \o << >>
      BY <2>0, <2>2
    <3>3. FirstIs(S, Coding, Noise, c \o v, Append(E, w))
      BY <1>4, <2>0, <3>1, <3>2, Zenon DEF FirstIs
    <3> QED
      BY <1>1, <2>1, <2>a, <3>3
  <2>3. ASSUME NEW y \in Noise, NEW d \in Seq(S), c = y \o d, Carries(S, Coding, Noise, d, E)
        PROVE  <<c \o v, Append(E, w)>> \in R
    <3>1. c \o v = y \o (d \o v) /\ d \o v \in Seq(S)
      <4>1. y \in Seq(S)
        BY <2>3
      <4>2. (y \o d) \o v = y \o (d \o v) /\ d \o v \in Seq(S)
        BY <1>a, <2>v, <4>1, Zenon
      <4> QED
        BY <2>3, <4>2
    <3>2. Carries(S, Coding, Noise, d \o v, Append(E, w))
      BY <2>0, <2>3, CarriesCoded
    <3>3. FirstIs(S, Coding, Noise, c \o v, Append(E, w))
      BY <3>1, <3>2, Zenon DEF FirstIs
    <3> QED
      BY <1>1, <2>1, <2>a, <3>3
  <2>4. ASSUME NEW f \in Coding, NEW d \in Seq(S), NEW F \in Seq(Seq(S)),
               c = f[1] \o d, E = <<f[2]>> \o F, Carries(S, Coding, Noise, d, F)
        PROVE  <<c \o v, Append(E, w)>> \in R
    <3>0. f[1] \in Seq(S) /\ f[2] \in Seq(S)
      OBVIOUS
    <3>1. c \o v = f[1] \o (d \o v) /\ d \o v \in Seq(S)
      <4>1. f[1] \in Seq(S)
        BY <2>4, <3>0
      <4>2. (f[1] \o d) \o v = f[1] \o (d \o v) /\ d \o v \in Seq(S)
        BY <1>a, <2>v, <4>1, Zenon
      <4> QED
        BY <2>4, <3>0, <4>2
    <3>2. Carries(S, Coding, Noise, d \o v, Append(F, w))
      BY <2>0, <2>4, CarriesCoded
    <3>3. Append(E, w) = <<f[2]>> \o Append(F, w) /\ Append(F, w) \in Seq(Seq(S))
      <4> HIDE DEF W
      <4>1. F \in Seq(W) /\ f[2] \in W /\ w \in W
        BY <2>0, <3>0 DEF W
      <4>2. Append(<<f[2]>> \o F, w) = <<f[2]>> \o Append(F, w)
        BY <4>1
      <4>3. Append(F, w) \in Seq(W)
        BY <4>1
      <4>4. E = <<f[2]>> \o F
        BY <2>4
      <4> QED
        BY <4>2, <4>3, <4>4, Zenon DEF W
    <3>4. FirstIs(S, Coding, Noise, c \o v, Append(E, w))
      BY <3>1, <3>2, <3>3, Zenon DEF FirstIs
    <3> QED
      BY <1>1, <2>1, <2>a, <3>4
  <2> QED
    BY <2>1, <2>2, <2>3, <2>4, Zenon DEF FirstIs
<1>7. Closed(S, Coding, Noise, R)
  BY <1>2, <1>3, <1>5, <1>6 DEF Closed
<1>8. <<b, D>> \in R /\ b \in Seq(S) /\ D \in Seq(Seq(S))
  BY <1>2, <1>7, CarriesType DEF Carries
<1> QED
  BY <1>1, <1>8

(* Where one byte of coded data lies.                                      *)
HasAt(S, Coding, b, D, k) ==
  \E x, z \in Seq(S), f \in Coding, A, B \in Seq(Seq(S)) :
    /\ b = x \o (f[1] \o z) /\ D = A \o (<<f[2]>> \o B)
    /\ Carries(S, Coding, {}, x, A) /\ Carries(S, Coding, {}, z, B)
    /\ Len(x) < k /\ k <= Len(x) + Len(f[1])

(* It stays there when more coded data come.                               *)
LEMMA HasAtMore ==
  ASSUME NEW S, NEW Coding \in SUBSET (Seq(S) \X Seq(S)),
         NEW c \in Seq(S), NEW E \in Seq(Seq(S)), NEW k \in Nat, HasAt(S, Coding, c, E, k),
         NEW v \in Seq(S), NEW w \in Seq(S), NEW g \in Coding, v = g[1], w = g[2]
  PROVE  HasAt(S, Coding, c \o v, Append(E, w), k)
<1> DEFINE W == Seq(S)
<1>1. PICK x \in Seq(S), z \in Seq(S), f \in Coding, A \in Seq(Seq(S)), B \in Seq(Seq(S)) :
        /\ c = x \o (f[1] \o z) /\ E = A \o (<<f[2]>> \o B)
        /\ Carries(S, Coding, {}, x, A) /\ Carries(S, Coding, {}, z, B)
        /\ Len(x) < k /\ k <= Len(x) + Len(f[1])
  BY Zenon DEF HasAt
<1>3. PICK p \in Seq(S), q \in Seq(S) : p = f[1] /\ q = f[2]
  OBVIOUS
<1>4. p \in Seq(S) /\ x \in Seq(S) /\ z \in Seq(S) /\ q \in Seq(S)
  BY <1>1, <1>3
<1>5. c \o v = x \o (p \o (z \o v)) /\ z \o v \in Seq(S)
  <2>1. Regroups(x, p, z, v) /\ z \o v \in Seq(S)
    BY <1>4, Regroup, Zenon
  <2> QED
    BY <1>1, <1>3, <2>1 DEF Regroups
<1>6. Append(E, w) = A \o (<<q>> \o Append(B, w)) /\ Append(B, w) \in Seq(Seq(S))
  <2> HIDE DEF W
  <2>1. /\ A \in Seq(W) /\ B \in Seq(W) /\ q \in W /\ w \in W
        /\ E = A \o (<<q>> \o B) /\ <<q>> \in Seq(W)
    BY <1>1, <1>3, <1>4 DEF W
  <2>2. AppendsInside(A, <<q>>, B, w) /\ Append(B, w) \in Seq(W)
    BY <2>1, AppendInside, Zenon
  <2> QED
    BY <2>1, <2>2 DEF W, AppendsInside
<1>7. Carries(S, Coding, {}, z \o v, Append(B, w))
  <2>1. {} \in SUBSET Seq(S)
    OBVIOUS
  <2>2. Carries(S, Coding, {}, z \o g[1], Append(B, g[2]))
    BY <1>1, <2>1, CarriesCoded
  <2> QED
    BY <2>2
<1> QED
  BY <1>1, <1>3, <1>5, <1>6, <1>7, Zenon DEF HasAt

LEMMA CarriesAt ==
  ASSUME NEW S, NEW Coding \in SUBSET (Seq(S) \X Seq(S)),
         NEW b, NEW D, Carries(S, Coding, {}, b, D), NEW k \in 1 .. Len(b)
  PROVE  HasAt(S, Coding, b, D, k)
<1> DEFINE P(c, E) == /\ Carries(S, Coding, {}, c, E)
                      /\ \A i \in 1 .. Len(c) : HasAt(S, Coding, c, E, i)
           R == {p \in Lines(S) : P(p[1], p[2])}
<1>1. \A c \in Seq(S), E \in Seq(Seq(S)) : <<c, E>> \in R <=> P(c, E)
  BY DEF Lines
<1>2. R \in SUBSET Lines(S)
  OBVIOUS
<1> HIDE DEF R
<1>3. /\ << >> \in Seq(S) /\ << >> \in Seq(Seq(S)) /\ {} \in SUBSET Seq(S)
      /\ Carries(S, Coding, {}, << >>, << >>)
  BY CarriesNothing
<1>4. <<<< >>, << >>>> \in R
  <2>1. P(<< >>, << >>)
    BY <1>3
  <2> QED
    BY <1>1, <1>3, <2>1, Zenon
<1>5. ASSUME NEW c \in Seq(S), NEW E \in Seq(Seq(S)), <<c, E>> \in R, NEW g \in Coding
      PROVE  <<c \o g[1], Append(E, g[2])>> \in R
  <2>1. PICK v \in Seq(S), w \in Seq(S) : v = g[1] /\ w = g[2]
    OBVIOUS
  <2>2. v \in Seq(S) /\ w \in Seq(S) /\ c \o v \in Seq(S) /\ Append(E, w) \in Seq(Seq(S))
    BY <2>1
  <2>3. P(c, E)
    BY <1>1, <1>5
  <2>4. Carries(S, Coding, {}, c \o v, Append(E, w))
    <3>1. Carries(S, Coding, {}, c \o g[1], Append(E, g[2]))
      BY <1>3, <2>3, CarriesCoded
    <3> QED
      BY <2>1, <3>1
  <2>5. ASSUME NEW i \in 1 .. Len(c \o v) PROVE HasAt(S, Coding, c \o v, Append(E, w), i)
    <3>1. CASE i <= Len(c)
      <4>1. i \in 1 .. Len(c) /\ i \in Nat
        BY <3>1
      <4>2. HasAt(S, Coding, c, E, i)
        BY <2>3, <4>1
      <4> QED
        BY <2>1, <2>2, <4>1, <4>2, HasAtMore, Zenon
    <3>2. CASE ~ (i <= Len(c))
      <4>1. Len(c) < i /\ i <= Len(c) + Len(v)
        BY <2>2, <3>2
      <4>2. c \o v = c \o (v \o << >>)
        BY <2>2
      <4>3. Append(E, w) = E \o (<<w>> \o << >>)
        <5> DEFINE W == Seq(S)
        <5>1. E \in Seq(W) /\ w \in W
          BY <2>2
        <5> HIDE DEF W
        <5> QED
          BY <5>1
      <4> QED
        BY <1>3, <2>1, <2>3, <4>1, <4>2, <4>3, Zenon DEF HasAt
    <3> QED
      BY <3>1, <3>2
  <2>6. P(c \o v, Append(E, w))
    BY <2>4, <2>5
  <2>7. <<c \o v, Append(E, w)>> \in R
    BY <1>1, <2>2, <2>6
  <2> QED
    BY <2>1, <2>7
<1>6. Closed(S, Coding, {}, R)
  BY <1>2, <1>4, <1>5 DEF Closed
<1>7. <<b, D>> \in R /\ b \in Seq(S) /\ D \in Seq(Seq(S))
  BY <1>2, <1>3, <1>6, CarriesType DEF Carries
<1> QED
  BY <1>1, <1>7

-----------------------------------------------------------------------------

(* The parts of a concatenation.                                           *)
LEMMA FirstPart ==
  ASSUME NEW S, NEW x \in Seq(S), NEW y \in Seq(S)
  PROVE  SubSeq(x \o y, 1, Len(x)) = x
<1> DEFINE l == SubSeq(x \o y, 1, Len(x))
<1>1. l \in Seq(S) /\ Len(l) = Len(x) /\ \A i \in 1 .. Len(x) : l[i] = x[i]
  OBVIOUS
<1> HIDE DEF l
<1>2. l = x
  BY <1>1, SeqEqual
<1> QED
  BY <1>2 DEF l

LEMMA MiddlePart ==
  ASSUME NEW S, NEW x \in Seq(S), NEW y \in Seq(S), NEW z \in Seq(S)
  PROVE  SubSeq(x \o (y \o z), Len(x) + 1, Len(x) + Len(y)) = y
<1> DEFINE l == SubSeq(x \o (y \o z), Len(x) + 1, Len(x) + Len(y))
<1>1. l \in Seq(S) /\ Len(l) = Len(y) /\ \A i \in 1 .. Len(y) : l[i] = y[i]
  OBVIOUS
<1> HIDE DEF l
<1>2. l = y
  BY <1>1, SeqEqual
<1> QED
  BY <1>2 DEF l

LEMMA LastPart ==
  ASSUME NEW S, NEW x \in Seq(S), NEW y \in Seq(S)
  PROVE  From(x \o y, Len(x)) = y
<1> DEFINE l == SubSeq(x \o y, Len(x) + 1, Len(x \o y))
<1>1. l \in Seq(S) /\ Len(l) = Len(y) /\ \A i \in 1 .. Len(y) : l[i] = y[i]
  OBVIOUS
<1> HIDE DEF l
<1>2. l = y
  BY <1>1, SeqEqual
<1> QED
  BY <1>2 DEF l, From

LEMMA FromIs ==
  ASSUME NEW S, NEW x \in Seq(S), NEW n \in 0 .. Len(x)
  PROVE  /\ From(x, n) \in Seq(S) /\ Len(From(x, n)) = Len(x) - n
         /\ \A i \in 1 .. Len(x) - n : From(x, n)[i] = x[n + i]
  BY DEF From

LEMMA CutAt ==
  ASSUME NEW S, NEW x \in Seq(S), NEW n \in 0 .. Len(x)
  PROVE  /\ SubSeq(x, 1, n) \in Seq(S) /\ Len(SubSeq(x, 1, n)) = n
         /\ From(x, n) \in Seq(S) /\ Len(From(x, n)) = Len(x) - n
         /\ x = SubSeq(x, 1, n) \o From(x, n)
<1> DEFINE p == SubSeq(x, 1, n)
           q == From(x, n)
<1>1. /\ p \in Seq(S) /\ Len(p) = n /\ \A i \in 1 .. n : p[i] = x[i]
  OBVIOUS
<1>2. /\ q \in Seq(S) /\ Len(q) = Len(x) - n
      /\ \A i \in 1 .. Len(x) - n : q[i] = x[n + i]
  BY DEF From
<1> HIDE DEF p, q
<1>3. x = p \o q
  <2> DEFINE y == p \o q
  <2>1. y \in Seq(S) /\ Len(y) = Len(x)
    <3>1. y \in Seq(S) /\ Len(y) = Len(p) + Len(q)
      BY <1>1, <1>2, ConcatProperties, Zenon
    <3> HIDE DEF y
    <3>2. Len(x) \in Nat /\ n \in Nat
      OBVIOUS
    <3> QED
      BY <1>1, <1>2, <3>1, <3>2
  <2>2. ASSUME NEW i \in 1 .. Len(x) PROVE y[i] = x[i]
    <3>1. CASE i <= n
      BY <1>1, <1>2, <3>1
    <3>2. CASE n < i
      <4>1. i - n \in 1 .. Len(x) - n /\ n + (i - n) = i
        BY <3>2
      <4>2. q[i - n] = x[i]
        BY <1>2, <4>1
      <4>3. y[i] = q[i - n]
        BY <1>1, <1>2, <3>2
      <4> QED
        BY <4>2, <4>3
    <3>3. i <= n \/ n < i
      OBVIOUS
    <3> QED
      BY <3>1, <3>2, <3>3, Zenon
  <2> HIDE DEF y
  <2>3. y = x
    BY <2>1, <2>2, SeqEqual
  <2> QED
    BY <2>3 DEF y
<1> QED
  BY <1>1, <1>2, <1>3 DEF p, q

(* Of two beginnings of the same bytes one is a beginning of the other.    *)
Continues(S, r, t, f, c) ==
  \E u \in Seq(S) : r = f \o u /\ c = u \o t /\ Len(u) = Len(r) - Len(f)

LEMMA LongerContinues ==
  ASSUME NEW S, NEW r \in Seq(S), NEW t \in Seq(S), NEW f \in Seq(S), NEW c \in Seq(S),
         r \o t = f \o c, Len(f) <= Len(r)
  PROVE  Continues(S, r, t, f, c)
<1> DEFINE w == r \o t
           u == From(r, Len(f))
<1>1. w \in Seq(S) /\ Len(f) \in 0 .. Len(r) /\ w = f \o c
  OBVIOUS
<1>2. f = SubSeq(r, 1, Len(f))
  <2>1. SubSeq(f \o c, 1, Len(f)) = f
    BY FirstPart
  <2>2. SubSeq(r \o t, 1, Len(f)) = SubSeq(r, 1, Len(f))
    <3> DEFINE p == SubSeq(r \o t, 1, Len(f))
               q == SubSeq(r, 1, Len(f))
    <3>1. /\ p \in Seq(S) /\ Len(p) = Len(f)
          /\ q \in Seq(S) /\ Len(q) = Len(f)
          /\ \A i \in 1 .. Len(f) : p[i] = q[i]
      BY <1>1
    <3> HIDE DEF p, q
    <3>2. p = q
      BY <3>1, SeqEqual
    <3> QED
      BY <3>2 DEF p, q
  <2> QED
    BY <2>1, <2>2
<1>3. u \in Seq(S) /\ Len(u) = Len(r) - Len(f) /\ r = SubSeq(r, 1, Len(f)) \o u
  BY <1>1, CutAt
<1> HIDE DEF u, w
<1>4. r = f \o u
  BY <1>2, <1>3
<1>5. c = u \o t
  <2>1. Associates(f, u, t) /\ u \o t \in Seq(S)
    BY <1>3, Assoc, Zenon
  <2>2. f \o (u \o t) = f \o c
    BY <1>4, <2>1 DEF Associates
  <2>3. From(f \o (u \o t), Len(f)) = u \o t
    BY <2>1, LastPart, Zenon
  <2>4. From(f \o c, Len(f)) = c
    BY LastPart, Zenon
  <2> QED
    BY <2>2, <2>3, <2>4
<1> QED
  BY <1>3, <1>4, <1>5 DEF Continues

LEMMA Overlaps ==
  ASSUME NEW S, NEW r \in Seq(S), NEW t \in Seq(S), NEW f \in Seq(S), NEW c \in Seq(S),
         r \o t = f \o c
  PROVE  \/ Continues(S, r, t, f, c)
         \/ Len(r) < Len(f) /\ Continues(S, f, c, r, t)
<1>1. CASE Len(f) <= Len(r)
  BY <1>1, LongerContinues
<1>2. CASE Len(r) < Len(f)
  <2>1. f \o c = r \o t /\ Len(r) <= Len(f)
    BY <1>2
  <2> QED
    BY <1>2, <2>1, LongerContinues, Zenon
<1> QED
  BY <1>1, <1>2

(* A frame in which one byte is wrong.                                     *)
LEMMA PrefixesAgree ==
  ASSUME NEW S, NEW x \in Seq(S), NEW n \in 0 .. Len(x)
  PROVE  /\ SubSeq(x, 1, n) \in Seq(S) /\ Len(SubSeq(x, 1, n)) = n
         /\ \A i \in 1 .. n : SubSeq(x, 1, n)[i] = x[i]
  OBVIOUS

(* What follows the first element.                                         *)
IsBehindFirst(S, x, n, y) ==
  /\ y \in Seq(S) /\ Len(y) = n
  /\ \A i \in 1 .. n : y[i] = x[i + 1]

LEMMA BehindFirst ==
  ASSUME NEW S, NEW x \in Seq(S), NEW n \in Nat, n + 2 <= Len(x)
  PROVE  IsBehindFirst(S, x, n, SubSeq(x, 2, n + 1))
  BY DEF IsBehindFirst

LEMMA LongConcat ==
  ASSUME NEW S, NEW x \in Seq(S), NEW y \in Seq(S)
  PROVE  /\ x \o y \in Seq(S) /\ Len(x \o y) = Len(x) + Len(y)
         /\ \A i \in 1 .. Len(x) : (x \o y)[i] = x[i]
  OBVIOUS

(* A sequence with one element replaced.                                   *)
Replaced(x, k, v) == [x EXCEPT ![k] = v]

IsReplaced(S, x, k, v, y) ==
  /\ y \in Seq(S) /\ Len(y) = Len(x) /\ y[k] = v
  /\ \A i \in 1 .. Len(x) : i # k => y[i] = x[i]

LEMMA ReplaceIs ==
  ASSUME NEW S, NEW x \in Seq(S), NEW k \in 1 .. Len(x), NEW v \in S
  PROVE  IsReplaced(S, x, k, v, Replaced(x, k, v))
  BY DEF Replaced, IsReplaced

(* Where the elements of a concatenation are.                              *)
IsConcat(S, x, y, r) ==
  /\ r \in Seq(S) /\ Len(r) = Len(x) + Len(y)
  /\ \A i \in 1 .. Len(x) : r[i] = x[i]
  /\ \A i \in 1 .. Len(y) : r[Len(x) + i] = y[i]

LEMMA ConcatIs ==
  ASSUME NEW S, NEW x \in Seq(S), NEW y \in Seq(S)
  PROVE  IsConcat(S, x, y, x \o y)
  BY DEF IsConcat

(* The element replaced is in the first part, or in the second.            *)
ReplacesFirst(x, y, k, v) == Replaced(x \o y, k, v) = Replaced(x, k, v) \o y

LEMMA ReplaceFirst ==
  ASSUME NEW S, NEW x \in Seq(S), NEW y \in Seq(S), NEW k \in 1 .. Len(x), NEW v \in S
  PROVE  ReplacesFirst(x, y, k, v)
<1> DEFINE w == x \o y
           l == Replaced(w, k, v)
           p == Replaced(x, k, v)
           r == p \o y
<1>1. /\ w \in Seq(S) /\ Len(w) = Len(x) + Len(y) /\ \A i \in 1 .. Len(x) : w[i] = x[i]
      /\ \A i \in 1 .. Len(y) : w[Len(x) + i] = y[i]
  OBVIOUS
<1> HIDE DEF w
<1>2. k \in 1 .. Len(w)
  BY <1>1
<1>3. /\ l \in Seq(S) /\ Len(l) = Len(w) /\ l[k] = v
      /\ \A i \in 1 .. Len(w) : i # k => l[i] = w[i]
  <2>1. w \in Seq(S)
    BY <1>1
  <2>2. IsReplaced(S, w, k, v, l)
    BY <1>2, <2>1, ReplaceIs, Zenon
  <2> QED
    BY <2>2, Zenon DEF IsReplaced
<1>4. /\ p \in Seq(S) /\ Len(p) = Len(x) /\ p[k] = v
      /\ \A i \in 1 .. Len(x) : i # k => p[i] = x[i]
  <2>1. IsReplaced(S, x, k, v, p)
    BY ReplaceIs, Zenon
  <2> QED
    BY <2>1, Zenon DEF IsReplaced
<1> HIDE DEF l, p
<1>5. /\ r \in Seq(S) /\ Len(r) = Len(x) + Len(y) /\ \A i \in 1 .. Len(x) : r[i] = p[i]
      /\ \A i \in 1 .. Len(y) : r[Len(x) + i] = y[i]
  <2>0. p \in Seq(S) /\ Len(p) = Len(x)
    BY <1>4
  <2>1. IsConcat(S, p, y, r)
    BY <2>0, ConcatIs, Zenon
  <2>2. /\ r \in Seq(S) /\ Len(r) = Len(p) + Len(y)
        /\ \A i \in 1 .. Len(p) : r[i] = p[i]
        /\ \A i \in 1 .. Len(y) : r[Len(p) + i] = y[i]
    BY <2>1, Zenon DEF IsConcat
  <2> HIDE DEF r
  <2> QED
    BY <2>0, <2>2
<1> HIDE DEF r
<1>6. ASSUME NEW i \in 1 .. Len(l) PROVE l[i] = r[i]
  <2>1. CASE i = k
    BY <1>3, <1>4, <1>5, <2>1
  <2>2. CASE i # k /\ i <= Len(x)
    BY <1>1, <1>3, <1>4, <1>5, <2>2
  <2>3. CASE Len(x) < i
    <3>1. i - Len(x) \in 1 .. Len(y) /\ Len(x) + (i - Len(x)) = i /\ i # k /\ i \in 1 .. Len(w)
      BY <1>1, <1>3, <2>3
    <3> QED
      BY <1>1, <1>3, <1>5, <3>1
  <2>4. i = k \/ (i # k /\ i <= Len(x)) \/ Len(x) < i
    OBVIOUS
  <2> QED
    BY <2>1, <2>2, <2>3, <2>4, Zenon
<1>7. l = r
  BY <1>1, <1>3, <1>5, <1>6, SeqEqual
<1> QED
  BY <1>7 DEF ReplacesFirst, l, r, p, w

ReplacesLast(x, y, k, v) == Replaced(x \o y, Len(x) + k, v) = x \o Replaced(y, k, v)

LEMMA ReplaceLast ==
  ASSUME NEW S, NEW x \in Seq(S), NEW y \in Seq(S), NEW k \in 1 .. Len(y), NEW v \in S
  PROVE  ReplacesLast(x, y, k, v)
<1> DEFINE w == x \o y
           m == Len(x) + k
           l == Replaced(w, m, v)
           p == Replaced(y, k, v)
           r == x \o p
<1>1. /\ w \in Seq(S) /\ Len(w) = Len(x) + Len(y) /\ \A i \in 1 .. Len(x) : w[i] = x[i]
      /\ \A i \in 1 .. Len(y) : w[Len(x) + i] = y[i]
  OBVIOUS
<1> HIDE DEF w
<1>2. m \in 1 .. Len(w) /\ m = Len(x) + k
  BY <1>1
<1> HIDE DEF m
<1>3. /\ l \in Seq(S) /\ Len(l) = Len(w) /\ l[m] = v
      /\ \A i \in 1 .. Len(w) : i # m => l[i] = w[i]
  <2>1. w \in Seq(S)
    BY <1>1
  <2>2. IsReplaced(S, w, m, v, l)
    BY <1>2, <2>1, ReplaceIs, Zenon
  <2> QED
    BY <2>2, Zenon DEF IsReplaced
<1>4. /\ p \in Seq(S) /\ Len(p) = Len(y) /\ p[k] = v
      /\ \A i \in 1 .. Len(y) : i # k => p[i] = y[i]
  <2>1. IsReplaced(S, y, k, v, p)
    BY ReplaceIs, Zenon
  <2> QED
    BY <2>1, Zenon DEF IsReplaced
<1> HIDE DEF l, p
<1>5. /\ r \in Seq(S) /\ Len(r) = Len(x) + Len(y) /\ \A i \in 1 .. Len(x) : r[i] = x[i]
      /\ \A i \in 1 .. Len(y) : r[Len(x) + i] = p[i]
  <2>0. p \in Seq(S) /\ Len(p) = Len(y)
    BY <1>4
  <2>1. IsConcat(S, x, p, r)
    BY <2>0, ConcatIs, Zenon
  <2>2. /\ r \in Seq(S) /\ Len(r) = Len(x) + Len(p)
        /\ \A i \in 1 .. Len(x) : r[i] = x[i]
        /\ \A i \in 1 .. Len(p) : r[Len(x) + i] = p[i]
    BY <2>1, Zenon DEF IsConcat
  <2> HIDE DEF r
  <2> QED
    BY <2>0, <2>2
<1> HIDE DEF r
<1>6. ASSUME NEW i \in 1 .. Len(l) PROVE l[i] = r[i]
  <2>1. CASE i <= Len(x)
    <3>1. i \in 1 .. Len(x) /\ i # m /\ i \in 1 .. Len(w)
      BY <1>1, <1>2, <1>3, <2>1
    <3> QED
      BY <1>1, <1>3, <1>5, <3>1
  <2>2. CASE Len(x) < i
    <3> DEFINE j == i - Len(x)
    <3>1. j \in 1 .. Len(y) /\ Len(x) + j = i /\ i \in 1 .. Len(w) /\ (i = m <=> j = k)
      BY <1>1, <1>2, <1>3, <2>2
    <3> HIDE DEF j
    <3>2. w[i] = y[j] /\ r[i] = p[j]
      BY <1>1, <1>5, <3>1
    <3> QED
      BY <1>3, <1>4, <3>1, <3>2
  <2>3. i <= Len(x) \/ Len(x) < i
    OBVIOUS
  <2> QED
    BY <2>1, <2>2, <2>3, Zenon
<1>7. l = r
  BY <1>1, <1>3, <1>5, <1>6, SeqEqual
<1> QED
  BY <1>2, <1>7 DEF ReplacesLast, l, r, p, w

(* What two lines carry, they carry one after the other.                   *)
LEMMA CarriesConcat ==
  ASSUME NEW S, NEW Coding \in SUBSET (Seq(S) \X Seq(S)), NEW Noise \in SUBSET Seq(S),
         NEW b, NEW D, Carries(S, Coding, Noise, b, D),
         NEW c, NEW E, Carries(S, Coding, Noise, c, E)
  PROVE  Carries(S, Coding, Noise, b \o c, D \o E)
<1> DEFINE R == {p \in Lines(S) : Carries(S, Coding, Noise, b \o p[1], D \o p[2])}
           W == Seq(S)
<1>1. \A x \in Seq(S), F \in Seq(Seq(S)) :
        <<x, F>> \in R <=> Carries(S, Coding, Noise, b \o x, D \o F)
  BY DEF Lines
<1>2. R \in SUBSET Lines(S)
  OBVIOUS
<1> HIDE DEF R
<1>3. b \in Seq(S) /\ D \in Seq(Seq(S)) /\ c \in Seq(S) /\ E \in Seq(Seq(S))
  BY CarriesType
<1>4. <<<< >>, << >>>> \in R
  <2>1. b \o << >> = b /\ << >> \in Seq(S)
    BY <1>3
  <2>2. D \o << >> = D /\ << >> \in Seq(Seq(S))
    BY <1>3
  <2>3. Carries(S, Coding, Noise, b \o << >>, D \o << >>)
    BY <2>1, <2>2
  <2> QED
    BY <1>1, <2>1, <2>2, <2>3, Zenon
<1>5. ASSUME NEW d \in Seq(S), NEW F \in Seq(Seq(S)), <<d, F>> \in R, NEW x \in Noise
      PROVE  <<d \o x, F>> \in R
  <2>1. x \in Seq(S)
    OBVIOUS
  <2>2. Associates(b, d, x) /\ d \o x \in Seq(S)
    BY <1>3, <2>1, Assoc, Zenon
  <2>3. Carries(S, Coding, Noise, b \o d, D \o F)
    BY <1>1, <1>5, Zenon
  <2>4. Carries(S, Coding, Noise, (b \o d) \o x, D \o F)
    BY <2>3, CarriesNoise
  <2>5. Carries(S, Coding, Noise, b \o (d \o x), D \o F)
    BY <2>2, <2>4 DEF Associates
  <2> QED
    BY <1>1, <2>2, <2>5, Zenon
<1>6. ASSUME NEW d \in Seq(S), NEW F \in Seq(Seq(S)), <<d, F>> \in R, NEW f \in Coding
      PROVE  <<d \o f[1], Append(F, f[2])>> \in R
  <2>0. PICK v \in Seq(S), w \in Seq(S) : v = f[1] /\ w = f[2]
    OBVIOUS
  <2>v. v \in Seq(S) /\ w \in Seq(S)
    BY <2>0
  <2>1. Associates(b, d, v) /\ d \o v \in Seq(S)
    BY <1>3, <2>v, Assoc, Zenon
  <2>2. D \o Append(F, w) = Append(D \o F, w) /\ Append(F, w) \in Seq(Seq(S))
    <3>1. D \in Seq(W) /\ F \in Seq(W) /\ w \in W
      BY <1>3, <2>v
    <3> HIDE DEF W
    <3>2. D \o Append(F, w) = Append(D \o F, w) /\ Append(F, w) \in Seq(W)
      BY <3>1
    <3> QED
      BY <3>2 DEF W
  <2>3. Carries(S, Coding, Noise, b \o d, D \o F)
    BY <1>1, <1>6, Zenon
  <2>4. Carries(S, Coding, Noise, (b \o d) \o f[1], Append(D \o F, f[2]))
    BY <2>3, CarriesCoded
  <2>5. Carries(S, Coding, Noise, (b \o d) \o v, Append(D \o F, w))
    BY <2>0, <2>4
  <2>6. Carries(S, Coding, Noise, b \o (d \o v), D \o Append(F, w))
    BY <2>1, <2>2, <2>5 DEF Associates
  <2>7. <<d \o v, Append(F, w)>> \in R
    BY <1>1, <2>1, <2>2, <2>6, Zenon
  <2> QED
    BY <2>0, <2>7
<1>7. Closed(S, Coding, Noise, R)
  BY <1>2, <1>4, <1>5, <1>6 DEF Closed
<1>8. <<c, E>> \in R
  BY <1>2, <1>7 DEF Carries
<1> QED
  BY <1>1, <1>3, <1>8

(* What remains behind n more bytes.                                       *)
LEMMA FromFrom ==
  ASSUME NEW S, NEW x \in Seq(S), NEW m \in 0 .. Len(x), NEW n \in 0 .. Len(x) - m
  PROVE  From(x, m + n) = From(From(x, m), n)
<1> DEFINE p == From(x, m)
           q == From(p, n)
           r == From(x, m + n)
<1>1. /\ p \in Seq(S) /\ Len(p) = Len(x) - m
      /\ \A i \in 1 .. Len(x) - m : p[i] = x[m + i]
  BY FromIs
<1> HIDE DEF p
<1>2. n \in 0 .. Len(p) /\ m + n \in 0 .. Len(x)
  BY <1>1
<1>3. /\ q \in Seq(S) /\ Len(q) = Len(p) - n
      /\ \A i \in 1 .. Len(p) - n : q[i] = p[n + i]
  BY <1>1, <1>2, FromIs
<1>4. /\ r \in Seq(S) /\ Len(r) = Len(x) - (m + n)
      /\ \A i \in 1 .. Len(x) - (m + n) : r[i] = x[(m + n) + i]
  BY <1>2, FromIs
<1> HIDE DEF q, r
<1>5. Len(q) = Len(r)
  BY <1>1, <1>3, <1>4
<1>6. ASSUME NEW i \in 1 .. Len(r) PROVE r[i] = q[i]
  <2>1. /\ i \in 1 .. Len(x) - (m + n) /\ i \in 1 .. Len(p) - n
        /\ n + i \in 1 .. Len(x) - m /\ m + (n + i) = (m + n) + i
    BY <1>1, <1>4
  <2>2. r[i] = x[(m + n) + i] /\ q[i] = p[n + i] /\ p[n + i] = x[m + (n + i)]
    BY <1>1, <1>3, <1>4, <2>1
  <2> QED
    BY <2>1, <2>2
<1>7. r = q
  BY <1>3, <1>4, <1>5, <1>6, SeqEqual
<1> QED
  BY <1>7 DEF p, q, r

(* The first element of what follows moves over to what is before.         *)
MovesOver(x, w, y) == x \o (<<w>> \o y) = Append(x, w) \o y

LEMMA MoveOver ==
  ASSUME NEW S, NEW x \in Seq(S), NEW w \in S, NEW y \in Seq(S)
  PROVE  MovesOver(x, w, y)
<1>1. Append(x, w) = x \o <<w>> /\ <<w>> \in Seq(S)
  OBVIOUS
<1>2. Associates(x, <<w>>, y)
  BY <1>1, Assoc, Zenon
<1> QED
  BY <1>1, <1>2, Zenon DEF Associates, MovesOver

LEMMA CarriesOne ==
  ASSUME NEW S, NEW Coding \in SUBSET (Seq(S) \X Seq(S)), NEW Noise \in SUBSET Seq(S),
         NEW f \in Coding
  PROVE  Carries(S, Coding, Noise, f[1], <<f[2]>>)
<1>1. Carries(S, Coding, Noise, << >>, << >>)
  BY CarriesNothing, Zenon
<1>2. Carries(S, Coding, Noise, << >> \o f[1], Append(<< >>, f[2]))
  BY <1>1, CarriesCoded, Zenon
<1>3. << >> \o f[1] = f[1] /\ Append(<< >>, f[2]) = <<f[2]>>
  <2>1. f[1] \in Seq(S) /\ f[2] \in Seq(S)
    OBVIOUS
  <2> QED
    BY <2>1
<1> QED
  BY <1>2, <1>3

(* The beginning of a sequence, taken apart.                               *)
BeginsWith(W, x, n, p, t) ==
  /\ p # << >> /\ p \in Seq(W) /\ t \in Seq(W)
  /\ Head(p) = x[1] /\ Tail(p) = t /\ p = <<x[1]>> \o t

LEMMA BeginningParts ==
  ASSUME NEW W, NEW x \in Seq(W), NEW n \in 1 .. Len(x)
  PROVE  /\ BeginsWith(W, x, n, SubSeq(x, 1, n), SubSeq(x, 2, n))
         /\ Len(SubSeq(x, 2, n)) = n - 1
         /\ \A i \in 1 .. n - 1 : SubSeq(x, 2, n)[i] = x[i + 1]
<1>1. 1 \in 1 .. Len(x) /\ n \in 1 .. Len(x) /\ 1 + 1 = 2
  OBVIOUS
<1>2. Head(SubSeq(x, 1, n)) = x[1] /\ Tail(SubSeq(x, 1, n)) = SubSeq(x, 1 + 1, n)
  BY <1>1, HeadTailOfSubSeq, Zenon
<1>3. SubSeq(x, 1, n) = <<x[1]>> \o SubSeq(x, 1 + 1, n)
  BY <1>1, SubSeqRecursiveFirst, Zenon
<1>4. SubSeq(x, 1, n) # << >> /\ SubSeq(x, 1, n) \in Seq(W)
  OBVIOUS
<1>5. SubSeq(x, 2, n) \in Seq(W) /\ Len(SubSeq(x, 2, n)) = n - 1
      /\ \A i \in 1 .. n - 1 : SubSeq(x, 2, n)[i] = x[i + 1]
  OBVIOUS
<1>6. BeginsWith(W, x, n, SubSeq(x, 1, n), SubSeq(x, 2, n))
  BY <1>1, <1>2, <1>3, <1>4, <1>5, Zenon DEF BeginsWith
<1> QED
  BY <1>5, <1>6

-----------------------------------------------------------------------------
(* A sender that puts frames on a line, for any coding.                    *)

(* What is left of a sequence, taken apart.                                *)
LeavesMore(x, j) ==
  /\ j < Len(x) /\ Head(From(x, j)) = x[j + 1] /\ Tail(From(x, j)) = From(x, j + 1)
  /\ From(x, j) = <<x[j + 1]>> \o From(x, j + 1)

LEMMA LeaveMore ==
  ASSUME NEW S, NEW x \in Seq(S), NEW j \in 0 .. Len(x), From(x, j) # << >>
  PROVE  LeavesMore(x, j)
<1>1. Len(x) \in Nat /\ Len(From(x, j)) = Len(x) - j /\ From(x, j) \in Seq(S)
  BY FromIs
<1>2. j < Len(x)
  BY <1>1
<1>3. j + 1 \in 1 .. Len(x) /\ Len(x) \in j + 1 .. Len(x) /\ (j + 1) + 1 = j + 2
  BY <1>1, <1>2
<1>4. /\ Head(SubSeq(x, j + 1, Len(x))) = x[j + 1]
      /\ Tail(SubSeq(x, j + 1, Len(x))) = SubSeq(x, (j + 1) + 1, Len(x))
  BY <1>3, HeadTailOfSubSeq, Zenon
<1>5. SubSeq(x, j + 1, Len(x)) = <<x[j + 1]>> \o SubSeq(x, (j + 1) + 1, Len(x))
  BY <1>3, SubSeqRecursiveFirst, Zenon
<1> QED
  BY <1>2, <1>4, <1>5, Zenon DEF LeavesMore, From

(* Nothing is left behind the end, and only there.                         *)
LEMMA NothingLeft ==
  ASSUME NEW S, NEW x \in Seq(S), NEW j \in 0 .. Len(x)
  PROVE  From(x, j) = << >> <=> j = Len(x)
<1>1. Len(x) \in Nat /\ Len(From(x, j)) = Len(x) - j /\ From(x, j) \in Seq(S)
  BY FromIs
<1> QED
  BY <1>1

(* F are the frames that stand for the data H.                             *)
Encodes(S, Coding, F, H) ==
  /\ F \in Seq(Seq(S)) /\ H \in Seq(Seq(S)) /\ Len(F) = Len(H)
  /\ \A i \in 1 .. Len(H) : <<F[i], H[i]>> \in Coding

(* A sender with the frames F of the data H has the frames q still to      *)
(* send; b is on the line, t was cut off it; when all is sent, D will have *)
(* been.                                                                   *)
Sending(S, Coding, Noise, F, H, q, b, t, D) ==
  \E j \in 0 .. Len(H), E \in Seq(Seq(S)) :
    /\ q = From(F, j)
    /\ Carries(S, Coding, Noise, b \o t, E)
    /\ D = E \o From(H, j)

(* A sender that has sent nothing will have sent everything.               *)
LEMMA SendingStarts ==
  ASSUME NEW S, NEW Coding, NEW Noise, NEW F, NEW H, Encodes(S, Coding, F, H)
  PROVE  Sending(S, Coding, Noise, F, H, F, << >>, << >>, H)
<1> DEFINE W == Seq(S)
<1>1. F \in Seq(W) /\ H \in Seq(W) /\ Len(F) = Len(H) /\ Len(H) \in Nat /\ << >> \in Seq(W)
  BY DEF Encodes
<1>2. Carries(S, Coding, Noise, << >>, << >>) /\ << >> \o << >> = << >>
  BY CarriesNothing
<1> HIDE DEF W
<1>3. F = From(F, 0) /\ H = From(H, 0)
  BY <1>1 DEF From
<1>4. H = << >> \o H
  BY <1>1
<1>5. 0 \in 0 .. Len(H)
  BY <1>1
<1>6. << >> \in Seq(Seq(S))
  BY <1>1 DEF W
<1>7. H = << >> \o From(H, 0)
  BY <1>3, <1>4
<1>8. Carries(S, Coding, Noise, << >> \o << >>, << >>)
  BY <1>2
<1> QED
  BY <1>3, <1>5, <1>6, <1>7, <1>8, Zenon DEF Sending

(* What is on the line is D once nothing is left to send.                  *)
LEMMA SendingEnds ==
  ASSUME NEW S, NEW Coding, NEW Noise, NEW F, NEW H, Encodes(S, Coding, F, H),
         NEW b, NEW t, NEW D, Sending(S, Coding, Noise, F, H, << >>, b, t, D)
  PROVE  Carries(S, Coding, Noise, b \o t, D)
<1> DEFINE W == Seq(S)
<1>1. F \in Seq(W) /\ H \in Seq(W) /\ Len(F) = Len(H) /\ Len(H) \in Nat
  BY DEF Encodes
<1>2. PICK j \in 0 .. Len(H), E \in Seq(W) :
        /\ << >> = From(F, j)
        /\ Carries(S, Coding, Noise, b \o t, E)
        /\ D = E \o From(H, j)
  BY DEF Sending
<1> HIDE DEF W
<1>3. j = Len(F)
  BY <1>1, <1>2, NothingLeft
<1>4. From(H, j) = << >>
  BY <1>1, <1>2, <1>3, NothingLeft
<1>5. D = E
  BY <1>2, <1>4
<1> QED
  BY <1>2, <1>5

(* A frame is sent: with what was sent before and what is left it is the   *)
(* same data.                                                              *)
LEMMA SendingOne ==
  ASSUME NEW S, NEW Coding \in SUBSET (Seq(S) \X Seq(S)), NEW Noise \in SUBSET Seq(S),
         NEW F, NEW H, Encodes(S, Coding, F, H), NEW b \in Seq(S), NEW D, NEW q, q # << >>,
         Sending(S, Coding, Noise, F, H, q, b, << >>, D)
  PROVE  /\ Head(q) \in Seq(S)
         /\ Sending(S, Coding, Noise, F, H, Tail(q), b \o Head(q), << >>, D)
<1> DEFINE W == Seq(S)
<1>1. F \in Seq(W) /\ H \in Seq(W) /\ Len(F) = Len(H) /\ Len(H) \in Nat
  BY DEF Encodes
<1>2. PICK j \in 0 .. Len(H), E \in Seq(W) :
        /\ q = From(F, j)
        /\ Carries(S, Coding, Noise, b \o << >>, E)
        /\ D = E \o From(H, j)
  BY DEF Sending
<1>b. b \o << >> = b
  OBVIOUS
<1> HIDE DEF W
<1>3. j \in 0 .. Len(F) /\ j \in 0 .. Len(H) /\ j \in Nat /\ E \in Seq(W)
  BY <1>1, <1>2
<1>4. LeavesMore(F, j)
  BY <1>1, <1>2, <1>3, LeaveMore
<1>5. j < Len(F) /\ Head(q) = F[j + 1] /\ Tail(q) = From(F, j + 1)
  BY <1>2, <1>4, Zenon DEF LeavesMore
<1>6. j + 1 \in 0 .. Len(H) /\ j + 1 \in 1 .. Len(H) /\ F[j + 1] \in W /\ H[j + 1] \in W
  BY <1>1, <1>3, <1>5
<1>7. From(H, j) # << >>
  BY <1>1, <1>3, <1>5, NothingLeft
<1>8. From(H, j) = <<H[j + 1]>> \o From(H, j + 1)
  <2>1. LeavesMore(H, j)
    BY <1>1, <1>3, <1>7, LeaveMore
  <2> QED
    BY <2>1 DEF LeavesMore
<1>9. From(H, j + 1) \in Seq(W)
  BY <1>1, <1>6, FromIs
<1>10. D = Append(E, H[j + 1]) \o From(H, j + 1)
  <2>1. MovesOver(E, H[j + 1], From(H, j + 1))
    BY <1>3, <1>6, <1>9, MoveOver, Zenon
  <2> QED
    BY <1>2, <1>8, <2>1, Zenon DEF MovesOver
<1>11. Carries(S, Coding, Noise, b \o F[j + 1], Append(E, H[j + 1]))
  <2>1. PICK f \in Coding : f = <<F[j + 1], H[j + 1]>>
    BY <1>6 DEF Encodes
  <2>2. Carries(S, Coding, Noise, b \o f[1], Append(E, f[2]))
    BY <1>2, <1>b, CarriesCoded, Zenon
  <2> QED
    BY <2>1, <2>2
<1>12. (b \o F[j + 1]) \o << >> = b \o F[j + 1] /\ Append(E, H[j + 1]) \in Seq(W)
  BY <1>3, <1>6 DEF W
<1>13. Carries(S, Coding, Noise, (b \o Head(q)) \o << >>, Append(E, H[j + 1]))
  BY <1>5, <1>11, <1>12
<1>14. Append(E, H[j + 1]) \in Seq(Seq(S))
  BY <1>12 DEF W
<1>15. Head(q) \in Seq(S)
  BY <1>5, <1>6 DEF W
<1>16. Tail(q) = From(F, j + 1)
  BY <1>5
<1> QED
  BY <1>6, <1>10, <1>13, <1>14, <1>15, <1>16, Zenon DEF Sending

(* Noise comes in between.                                                 *)
LEMMA SendingNoise ==
  ASSUME NEW S, NEW Coding \in SUBSET (Seq(S) \X Seq(S)), NEW Noise \in SUBSET Seq(S),
         NEW Less \in SUBSET Noise, NEW x \in Noise,
         NEW F, NEW H, NEW b \in Seq(S), NEW D, NEW q,
         Sending(S, Coding, Less, F, H, q, b, << >>, D)
  PROVE  Sending(S, Coding, Noise, F, H, q, b \o x, << >>, D)
<1>1. PICK j \in 0 .. Len(H), E \in Seq(Seq(S)) :
        /\ q = From(F, j)
        /\ Carries(S, Coding, Less, b \o << >>, E)
        /\ D = E \o From(H, j)
  BY Zenon DEF Sending
<1>2. b \o << >> = b /\ (b \o x) \o << >> = b \o x
  OBVIOUS
<1>3. Carries(S, Coding, Less, b, E)
  BY <1>1, <1>2
<1>4. Carries(S, Coding, Noise, b, E)
  BY <1>3, CarriesMonotone
<1>5. Carries(S, Coding, Noise, b \o x, E)
  BY <1>4, CarriesNoise
<1>6. Carries(S, Coding, Noise, (b \o x) \o << >>, E)
  BY <1>2, <1>5
<1> QED
  BY <1>1, <1>6, Zenon DEF Sending

(* The line falls silent: the rest of what was on it is cut off.           *)
LEMMA SendingCut ==
  ASSUME NEW S, NEW Coding, NEW Noise, NEW F, NEW H, NEW b \in Seq(S), NEW D, NEW q,
         Sending(S, Coding, Noise, F, H, q, b, << >>, D), NEW n \in 0 .. Len(b)
  PROVE  /\ SubSeq(b, 1, n) \in Seq(S) /\ From(b, n) \in Seq(S)
         /\ Sending(S, Coding, Noise, F, H, q, SubSeq(b, 1, n), From(b, n), D)
<1> DEFINE p == SubSeq(b, 1, n)
           t == From(b, n)
<1>1. p \in Seq(S) /\ t \in Seq(S) /\ b = p \o t
  BY CutAt
<1>2. b \o << >> = b
  OBVIOUS
<1> HIDE DEF p, t
<1>3. b \o << >> = p \o t
  BY <1>1, <1>2
<1>4. Sending(S, Coding, Noise, F, H, q, p, t, D)
  BY <1>3, Zenon DEF Sending
<1> QED
  BY <1>1, <1>4 DEF p, t

(* What was sent before is the beginning that is not left.                 *)
LEMMA SentBefore ==
  ASSUME NEW W, NEW H \in Seq(W), NEW j \in 0 .. Len(H), NEW E \in Seq(W),
         H = E \o From(H, j)
  PROVE  E = SubSeq(H, 1, j)
<1> DEFINE r == From(H, j)
<1>1. r \in Seq(W) /\ Len(r) = Len(H) - j
  BY FromIs
<1> HIDE DEF r
<1>2. Len(H) \in Nat /\ Len(E) \in Nat /\ H = E \o r
  BY DEF r
<1>3. Len(E \o r) = Len(E) + Len(r)
  BY <1>1, ConcatProperties, Zenon
<1>4. Len(E) = j
  BY <1>1, <1>2, <1>3
<1>5. SubSeq(E \o r, 1, Len(E)) = E
  BY <1>1, FirstPart, Zenon
<1> QED
  BY <1>2, <1>4, <1>5

(* A frame is lost: what will have been sent lacks its data.               *)
LEMMA SendingLost ==
  ASSUME NEW S, NEW Coding \in SUBSET (Seq(S) \X Seq(S)), NEW Noise \in SUBSET Seq(S),
         NEW F, NEW H, Encodes(S, Coding, F, H), NEW b \in Seq(S), NEW q, q # << >>,
         Sending(S, Coding, Noise, F, H, q, b, << >>, H)
  PROVE  \E k \in DOMAIN H :
           Sending(S, Coding, Noise, F, H, Tail(q), b, << >>, RemoveAt(H, k))
<1> DEFINE W == Seq(S)
<1>1. F \in Seq(W) /\ H \in Seq(W) /\ Len(F) = Len(H) /\ Len(H) \in Nat
  BY DEF Encodes
<1>2. PICK j \in 0 .. Len(H), E \in Seq(W) :
        /\ q = From(F, j)
        /\ Carries(S, Coding, Noise, b \o << >>, E)
        /\ H = E \o From(H, j)
  BY DEF Sending
<1> HIDE DEF W
<1>3. j \in 0 .. Len(F) /\ j \in 0 .. Len(H) /\ j \in Nat /\ E \in Seq(W)
  BY <1>1, <1>2
<1>4. LeavesMore(F, j)
  BY <1>1, <1>2, <1>3, LeaveMore
<1>5. j < Len(F) /\ Tail(q) = From(F, j + 1)
  BY <1>2, <1>4, Zenon DEF LeavesMore
<1>6. j + 1 \in 0 .. Len(H) /\ j + 1 \in DOMAIN H /\ (j + 1) - 1 = j
  BY <1>1, <1>3, <1>5
<1>7. E = SubSeq(H, 1, j)
  BY <1>1, <1>2, <1>3, SentBefore, Zenon
<1>8. RemoveAt(H, j + 1) = SubSeq(H, 1, (j + 1) - 1) \o SubSeq(H, (j + 1) + 1, Len(H))
  BY Zenon DEF RemoveAt
<1>9. RemoveAt(H, j + 1) = E \o From(H, j + 1)
  BY <1>6, <1>7, <1>8, Zenon DEF From
<1>10. Sending(S, Coding, Noise, F, H, Tail(q), b, << >>, RemoveAt(H, j + 1))
  <2>1. E \in Seq(Seq(S))
    BY <1>2 DEF W
  <2> QED
    BY <1>2, <1>5, <1>6, <1>9, <2>1, Zenon DEF Sending
<1> QED
  BY <1>6, <1>10, Zenon

(* A frame is sent and stays to be sent: its data will come twice.         *)
LEMMA SendingTwice ==
  ASSUME NEW S, NEW Coding \in SUBSET (Seq(S) \X Seq(S)), NEW Noise \in SUBSET Seq(S),
         NEW F, NEW H, Encodes(S, Coding, F, H), NEW b \in Seq(S), NEW q, q # << >>,
         Sending(S, Coding, Noise, F, H, q, b, << >>, H)
  PROVE  /\ Head(q) \in Seq(S)
         /\ \E k \in DOMAIN H :
              Sending(S, Coding, Noise, F, H, q, b \o Head(q), << >>, InsertAt(H, k, H[k]))
<1> DEFINE W == Seq(S)
<1>1. F \in Seq(W) /\ H \in Seq(W) /\ Len(F) = Len(H) /\ Len(H) \in Nat
  BY DEF Encodes
<1>2. PICK j \in 0 .. Len(H), E \in Seq(W) :
        /\ q = From(F, j)
        /\ Carries(S, Coding, Noise, b \o << >>, E)
        /\ H = E \o From(H, j)
  BY DEF Sending
<1>b. b \o << >> = b
  OBVIOUS
<1> HIDE DEF W
<1>3. j \in 0 .. Len(F) /\ j \in 0 .. Len(H) /\ j \in Nat /\ E \in Seq(W)
  BY <1>1, <1>2
<1>4. LeavesMore(F, j)
  BY <1>1, <1>2, <1>3, LeaveMore
<1>5. j < Len(F) /\ Head(q) = F[j + 1]
  BY <1>2, <1>4, Zenon DEF LeavesMore
<1>6. j + 1 \in 1 .. Len(H) /\ j + 1 \in DOMAIN H /\ (j + 1) - 1 = j
      /\ F[j + 1] \in W /\ H[j + 1] \in W
  BY <1>1, <1>3, <1>5
<1>7. E = SubSeq(H, 1, j)
  BY <1>1, <1>2, <1>3, SentBefore, Zenon
<1> DEFINE h == H[j + 1]
<1>8. InsertAt(H, j + 1, h) = (SubSeq(H, 1, (j + 1) - 1) \o <<h>>) \o SubSeq(H, j + 1, Len(H))
  BY Zenon DEF InsertAt
<1>9. E \o <<h>> = Append(E, h) /\ Append(E, h) \in Seq(W)
  BY <1>3, <1>6
<1>10. InsertAt(H, j + 1, h) = Append(E, h) \o From(H, j)
  BY <1>6, <1>7, <1>8, <1>9, Zenon DEF From
<1>11. Carries(S, Coding, Noise, b \o F[j + 1], Append(E, h))
  <2>1. PICK f \in Coding : f = <<F[j + 1], H[j + 1]>>
    BY <1>6 DEF Encodes
  <2>2. Carries(S, Coding, Noise, b \o f[1], Append(E, f[2]))
    BY <1>2, <1>b, CarriesCoded, Zenon
  <2> QED
    BY <2>1, <2>2
<1>12. (b \o F[j + 1]) \o << >> = b \o F[j + 1]
  BY <1>6 DEF W
<1>13. Carries(S, Coding, Noise, (b \o Head(q)) \o << >>, Append(E, h))
  BY <1>5, <1>11, <1>12
<1>14. Append(E, h) \in Seq(Seq(S))
  BY <1>9 DEF W
<1>15. Sending(S, Coding, Noise, F, H, q, b \o Head(q), << >>, InsertAt(H, j + 1, h))
  BY <1>2, <1>10, <1>13, <1>14, Zenon DEF Sending
<1>16. Head(q) \in Seq(S)
  BY <1>5, <1>6 DEF W
<1> QED
  BY <1>6, <1>15, <1>16, Zenon

(* The beginning of a concatenation.                                       *)
CutFirst(x, y, n) == SubSeq(x \o y, 1, n) = SubSeq(x, 1, n)

CutSecond(x, y, n) == SubSeq(x \o y, 1, Len(x) + n) = x \o SubSeq(y, 1, n)

LEMMA CutConcat ==
  ASSUME NEW S, NEW x \in Seq(S), NEW y \in Seq(S)
  PROVE  /\ \A n \in 0 .. Len(x) : CutFirst(x, y, n)
         /\ \A n \in 0 .. Len(y) : CutSecond(x, y, n)
<1>1. ASSUME NEW n \in 0 .. Len(x) PROVE CutFirst(x, y, n)
  BY DEF CutFirst
<1>2. ASSUME NEW n \in 0 .. Len(y) PROVE CutSecond(x, y, n)
  BY DEF CutSecond
<1> QED
  BY <1>1, <1>2

(* A line that was cut holds whole frames and then the beginning of one.   *)
HoldsCut(S, Coding, r, D) ==
  \E x, w \in Seq(S), A, B \in Seq(Seq(S)) :
    /\ r = x \o w /\ D = A \o B /\ Carries(S, Coding, {}, x, A)
    /\ \/ w = << >>
       \/ \E f \in Coding, u \in Seq(S) : f[1] = w \o u /\ Len(w) < Len(f[1])

(* Whatever the frames are: the beginning of a line that carries data      *)
(* holds the first of them and is cut inside the next, or between two.     *)
LEMMA CarriesCut ==
  ASSUME NEW S, NEW Coding \in SUBSET (Seq(S) \X Seq(S)),
         NEW b, NEW D, Carries(S, Coding, {}, b, D), NEW n \in 0 .. Len(b)
  PROVE  SubSeq(b, 1, n) \in Seq(S) /\ HoldsCut(S, Coding, SubSeq(b, 1, n), D)
<1> DEFINE W == Seq(S)
<1>0. {} \in SUBSET W
  OBVIOUS
<1>1. b \in Seq(S) /\ D \in Seq(W)
  BY <1>0, CarriesType, Zenon
<1>2. SubSeq(b, 1, n) \in Seq(S)
  BY <1>1, PrefixesAgree, Zenon
<1>3. CASE n = Len(b)
  <2>1. SubSeq(b, 1, n) = b /\ b = b \o << >> /\ << >> \in Seq(S)
    BY <1>1, <1>3
  <2>2. D = D \o << >> /\ << >> \in Seq(W)
    <3> HIDE DEF W
    <3> QED
      BY <1>1
  <2>3. HoldsCut(S, Coding, b, D)
    BY <1>1, <2>1, <2>2, Zenon DEF HoldsCut
  <2> QED
    BY <1>2, <2>1, <2>3
<1>4. CASE n < Len(b)
  <2>1. n + 1 \in 1 .. Len(b) /\ n \in Nat
    BY <1>1, <1>4
  <2>2. HasAt(S, Coding, b, D, n + 1)
    BY <2>1, CarriesAt, Zenon
  <2>3. PICK x \in Seq(S), z \in Seq(S), f \in Coding, A \in Seq(W), B \in Seq(W) :
          /\ b = x \o (f[1] \o z) /\ D = A \o (<<f[2]>> \o B)
          /\ Carries(S, Coding, {}, x, A) /\ Carries(S, Coding, {}, z, B)
          /\ Len(x) < n + 1 /\ n + 1 <= Len(x) + Len(f[1])
    BY <2>2, Zenon DEF HasAt
  <2> DEFINE g == f[1]
             m == n - Len(x)
             w == SubSeq(g, 1, m)
             u == From(g, m)
             E == <<f[2]>> \o B
  <2>4. g \in Seq(S) /\ f[2] \in W /\ x \in Seq(S) /\ z \in Seq(S) /\ b = x \o (g \o z)
        /\ A \in Seq(W) /\ B \in Seq(W) /\ D = A \o E /\ Carries(S, Coding, {}, x, A)
    BY <2>3
  <2>5. Len(x) < n + 1 /\ n + 1 <= Len(x) + Len(g)
    BY <2>3
  <2>e. E \in Seq(W)
    <3> HIDE DEF W
    <3> QED
      BY <2>4
  <2> HIDE DEF g, E, W
  <2>6. m \in 0 .. Len(g) /\ m < Len(g) /\ Len(x) + m = n /\ Len(x) \in Nat
    <3>1. Len(x) \in Nat /\ Len(g) \in Nat
      BY <2>4
    <3> QED
      BY <2>1, <2>5, <3>1
  <2> HIDE DEF m
  <2>7. /\ w \in Seq(S) /\ Len(w) = m /\ u \in Seq(S) /\ g = w \o u
    BY <2>4, <2>6, CutAt, Zenon
  <2> HIDE DEF w, u
  <2>8. b = (x \o w) \o (u \o z) /\ x \o w \in Seq(S) /\ u \o z \in Seq(S)
    <3>1. Associates(w, u, z) /\ u \o z \in Seq(S) /\ w \o u \in Seq(S)
      BY <2>4, <2>7, Assoc, Zenon
    <3>2. Associates(x, w, u \o z) /\ x \o w \in Seq(S)
      BY <2>4, <2>7, <3>1, Assoc, Zenon
    <3>3. b = x \o ((w \o u) \o z)
      BY <2>4, <2>7
    <3>4. (w \o u) \o z = w \o (u \o z)
      BY <3>1, Zenon DEF Associates
    <3>5. (x \o w) \o (u \o z) = x \o (w \o (u \o z))
      BY <3>2, Zenon DEF Associates
    <3> QED
      BY <3>1, <3>2, <3>3, <3>4, <3>5
  <2>9. Len(x \o w) = n
    <3>1. Len(x \o w) = Len(x) + Len(w)
      BY <2>4, <2>7, LongConcat, Zenon
    <3> QED
      BY <2>6, <2>7, <3>1
  <2>10. SubSeq(b, 1, n) = x \o w
    <3>1. SubSeq((x \o w) \o (u \o z), 1, Len(x \o w)) = x \o w
      BY <2>8, FirstPart, Zenon
    <3> QED
      BY <2>8, <2>9, <3>1
  <2>11. f[1] = w \o u /\ Len(w) < Len(f[1]) /\ f \in Coding
    BY <2>3, <2>6, <2>7 DEF g
  <2>12. HoldsCut(S, Coding, x \o w, D)
    BY <2>4, <2>7, <2>e, <2>11, Zenon DEF HoldsCut, W
  <2> QED
    BY <1>2, <2>10, <2>12
<1>5. n = Len(b) \/ n < Len(b)
  BY <1>1
<1> QED
  BY <1>3, <1>4, <1>5

(* A line with one wrong byte: whole frames, then the one with that byte.  *)
HoldsWrong(S, Coding, r, D, v) ==
  \E x, z \in Seq(S), f \in Coding, A, B \in Seq(Seq(S)) :
    \E j \in 1 .. Len(f[1]) :
      /\ r = x \o (Replaced(f[1], j, v) \o z) /\ D = A \o (<<f[2]>> \o B)
      /\ Carries(S, Coding, {}, x, A) /\ v # f[1][j]

(* One wrong byte is in one of the frames; those before it are whole.      *)
LEMMA CarriesWrong ==
  ASSUME NEW S, NEW Coding \in SUBSET (Seq(S) \X Seq(S)),
         NEW b, NEW D, Carries(S, Coding, {}, b, D), NEW k \in 1 .. Len(b),
         NEW v \in S, v # b[k]
  PROVE  Replaced(b, k, v) \in Seq(S) /\ HoldsWrong(S, Coding, Replaced(b, k, v), D, v)
<1> DEFINE line == Replaced(b, k, v)
<1>0. {} \in SUBSET Seq(S)
  OBVIOUS
<1>1. b \in Seq(S) /\ D \in Seq(Seq(S))
  BY <1>0, CarriesType, Zenon
<1>3. HasAt(S, Coding, b, D, k)
  BY <1>0, CarriesAt, Zenon
<1>4. PICK x \in Seq(S), z \in Seq(S), f \in Coding, A \in Seq(Seq(S)), B \in Seq(Seq(S)) :
        /\ b = x \o (f[1] \o z) /\ D = A \o (<<f[2]>> \o B)
        /\ Carries(S, Coding, {}, x, A) /\ Carries(S, Coding, {}, z, B)
        /\ Len(x) < k /\ k <= Len(x) + Len(f[1])
  BY <1>3, Zenon DEF HasAt
<1> DEFINE g == f[1]
           j == k - Len(x)
           u == Replaced(g, j, v)
<1>5. g \in Seq(S)
  BY <1>4
<1>6. j \in 1 .. Len(g) /\ Len(x) + j = k
  <2>1. Len(x) \in Nat /\ Len(g) \in Nat /\ k \in Nat
    BY <1>1, <1>5
  <2> HIDE DEF u
  <2> QED
    BY <1>4, <2>1
<1>a. b = x \o (g \o z) /\ x \in Seq(S) /\ z \in Seq(S)
  BY <1>4
<1> HIDE DEF g, j, u, line
<1>7. b[k] = g[j]
  <2>1. IsConcat(S, g, z, g \o z) /\ g \o z \in Seq(S)
    BY <1>5, <1>a, ConcatIs, Assoc, Zenon
  <2> DEFINE y == g \o z
  <2>2. y \in Seq(S) /\ b = x \o y /\ IsConcat(S, g, z, y)
    BY <1>a, <2>1
  <2> HIDE DEF y
  <2>3. IsConcat(S, x, y, x \o y)
    BY <1>a, <2>2, ConcatIs, Zenon
  <2>4. IsConcat(S, x, y, b)
    BY <2>2, <2>3
  <2>5. \A i \in 1 .. Len(y) : b[Len(x) + i] = y[i]
    BY <2>4, Zenon DEF IsConcat
  <2>6. Len(y) = Len(g) + Len(z) /\ \A i \in 1 .. Len(g) : y[i] = g[i]
    BY <2>2, Zenon DEF IsConcat
  <2>7. j \in 1 .. Len(y) /\ j \in 1 .. Len(g)
    BY <1>5, <1>6, <1>a, <2>6
  <2> QED
    BY <1>6, <2>5, <2>6, <2>7
<1>8. line = x \o (u \o z)
  <2>1. g \o z \in Seq(S) /\ Len(g \o z) = Len(g) + Len(z)
    BY <1>5, <1>a, LongConcat, Zenon
  <2>2. j \in 1 .. Len(g \o z)
    BY <1>5, <1>6, <1>a, <2>1
  <2>3. ReplacesLast(x, g \o z, j, v)
    BY <1>a, <2>1, <2>2, ReplaceLast, Zenon
  <2>4. ReplacesFirst(g, z, j, v)
    BY <1>5, <1>6, <1>a, ReplaceFirst, Zenon
  <2>5. Replaced(x \o (g \o z), Len(x) + j, v) = x \o Replaced(g \o z, j, v)
    BY <2>3, Zenon DEF ReplacesLast
  <2>6. Replaced(g \o z, j, v) = u \o z
    BY <2>4, Zenon DEF ReplacesFirst, u
  <2> QED
    BY <1>6, <1>a, <2>5, <2>6 DEF line
<1>9. line \in Seq(S)
  <2>1. IsReplaced(S, b, k, v, line)
    BY <1>1, ReplaceIs, Zenon DEF line
  <2> QED
    BY <2>1 DEF IsReplaced
<1>10. v # f[1][j] /\ j \in 1 .. Len(f[1]) /\ line = x \o (Replaced(f[1], j, v) \o z)
  BY <1>6, <1>7, <1>8 DEF g, u
<1>11. HoldsWrong(S, Coding, line, D, v)
  BY <1>4, <1>10, Zenon DEF HoldsWrong
<1> QED
  BY <1>9, <1>11 DEF line

(* One more of a sequence.                                                 *)
LEMMA OneMore ==
  ASSUME NEW W, NEW x \in Seq(W), NEW i \in 1 .. Len(x)
  PROVE  /\ SubSeq(x, 1, i) \in Seq(W) /\ SubSeq(x, 1, i - 1) \in Seq(W)
         /\ SubSeq(x, 1, i) = Append(SubSeq(x, 1, i - 1), x[i])
<1>1. /\ SubSeq(x, 1, i) \in Seq(W) /\ Len(SubSeq(x, 1, i)) = i
      /\ \A j \in 1 .. i : SubSeq(x, 1, i)[j] = x[j]
  BY PrefixesAgree
<1>2. /\ SubSeq(x, 1, i - 1) \in Seq(W) /\ Len(SubSeq(x, 1, i - 1)) = i - 1
      /\ \A j \in 1 .. i - 1 : SubSeq(x, 1, i - 1)[j] = x[j]
  <2>1. i - 1 \in 0 .. Len(x)
    OBVIOUS
  <2> QED
    BY <2>1, PrefixesAgree
<1> DEFINE a == SubSeq(x, 1, i)
           b == SubSeq(x, 1, i - 1)
<1>3. x[i] \in W
  OBVIOUS
<1> HIDE DEF a, b
<1>4. /\ Append(b, x[i]) \in Seq(W) /\ Len(Append(b, x[i])) = Len(b) + 1
      /\ \A j \in 1 .. Len(b) : Append(b, x[i])[j] = b[j]
      /\ Append(b, x[i])[Len(b) + 1] = x[i]
  BY <1>2, <1>3, AppendProperties DEF b
<1>5. \A j \in 1 .. i : a[j] = Append(b, x[i])[j]
  <2> SUFFICES ASSUME NEW j \in 1 .. i PROVE a[j] = Append(b, x[i])[j]
    OBVIOUS
  <2>1. CASE j = i
    BY <1>1, <1>2, <1>4, <2>1 DEF a, b
  <2>2. CASE j # i
    <3>1. j \in 1 .. i - 1
      BY <2>2
    <3> QED
      BY <1>1, <1>2, <1>4, <3>1 DEF a, b
  <2> QED
    BY <2>1, <2>2
<1>6. a \in Seq(W) /\ Len(a) = i /\ Len(Append(b, x[i])) = i
  BY <1>1, <1>2, <1>4 DEF a, b
<1>7. a = Append(b, x[i])
  BY <1>4, <1>5, <1>6, SeqEqual, Zenon
<1> QED
  BY <1>1, <1>2, <1>7 DEF a, b

(* The frames of some data, all in a row, carry them.                      *)
LEMMA EncodedCarries ==
  ASSUME NEW S, NEW Coding \in SUBSET (Seq(S) \X Seq(S)), NEW Noise \in SUBSET Seq(S),
         NEW F, NEW H, Encodes(S, Coding, F, H)
  PROVE  Carries(S, Coding, Noise, FlattenSeq(F), H)
<1> DEFINE W == Seq(S)
<1>1. F \in Seq(W) /\ H \in Seq(W) /\ Len(F) = Len(H) /\ Len(H) \in Nat
  BY DEF Encodes
<1>2. \A i \in 1 .. Len(H) : <<F[i], H[i]>> \in Coding
  BY Zenon DEF Encodes
<1> DEFINE Sent(i) == Carries(S, Coding, Noise, FlattenSeq(SubSeq(F, 1, i)), SubSeq(H, 1, i))
           T == {i \in Nat : Sent(i)}
<1>3. Sent(0)
  <2>1. SubSeq(F, 1, 0) = << >> /\ SubSeq(H, 1, 0) = << >>
    BY <1>1
  <2> QED
    BY <2>1, FlattenEmpty, CarriesNothing, Zenon
<1>4. ASSUME NEW i \in 1 .. Len(H), Sent(i - 1) PROVE Sent(i)
  <2>1. i \in 1 .. Len(F)
    BY <1>1
  <2>2. F[i] \in W
    BY <1>1, <2>1
  <2> DEFINE f == <<F[i], H[i]>>
             G == SubSeq(F, 1, i - 1)
             E == SubSeq(H, 1, i - 1)
  <2>3. f \in Coding /\ f[1] = F[i] /\ f[2] = H[i]
    BY <1>2
  <2> HIDE DEF f, W
  <2>4. G \in Seq(W) /\ SubSeq(F, 1, i) = Append(G, F[i])
    BY <1>1, <2>1, OneMore, Zenon
  <2>5. SubSeq(H, 1, i) = Append(E, H[i])
    BY <1>1, OneMore, Zenon
  <2>6. Carries(S, Coding, Noise, FlattenSeq(G), E)
    BY <1>4
  <2> HIDE DEF G, E
  <2>7. Carries(S, Coding, Noise, FlattenSeq(G) \o f[1], Append(E, f[2]))
    BY <2>3, <2>6, CarriesCoded, Zenon
  <2>8. FlattenSeq(Append(G, F[i])) = FlattenSeq(G) \o F[i]
    <3>1. G \in Seq(Seq(S)) /\ F[i] \in Seq(S)
      BY <2>2, <2>4, Zenon DEF W
    <3> QED
      BY <3>1, FlattenAppend, Zenon
  <2> QED
    BY <2>3, <2>4, <2>5, <2>7, <2>8, Zenon
<1>5. 0 \in T
  BY <1>3
<1>6. \A i \in 0 + 1 .. Len(H) : i - 1 \in T => i \in T
  <2> SUFFICES ASSUME NEW i \in 0 + 1 .. Len(H), i - 1 \in T PROVE i \in T
    BY Zenon
  <2>1. i \in 1 .. Len(H) /\ i \in Nat
    BY <1>1
  <2>2. Sent(i - 1)
    BY Zenon
  <2>3. Sent(i)
    BY <1>4, <2>1, <2>2, Zenon
  <2> QED
    BY <2>1, <2>3, Zenon
<1>7. 0 .. Len(H) \subseteq T
  <2> HIDE DEF T
  <2>1. 0 \in Nat
    OBVIOUS
  <2> QED
    BY <1>1, <1>5, <1>6, <2>1, IntervalInduction, Zenon
<1>8. Len(H) \in 0 .. Len(H)
  BY <1>1
<1>9. Sent(Len(H))
  BY <1>7, <1>8, Zenon
<1>10. SubSeq(F, 1, Len(H)) = F /\ SubSeq(H, 1, Len(H)) = H
  <2> HIDE DEF W
  <2> QED
    BY <1>1
<1> QED
  BY <1>9, <1>10, Zenon

(* Joined sequences begin like the first of them.                          *)
LEMMA FlattenBegins ==
  ASSUME NEW S, NEW s \in Seq(Seq(S)), s # << >>, s[1] # << >>
  PROVE  /\ FlattenSeq(s) \in Seq(S) /\ FlattenSeq(s) # << >>
         /\ FlattenSeq(s)[1] = s[1][1]
<1> DEFINE W == Seq(S)
           h == s[1]
           t == Tail(s)
<1>1. h \in W /\ t \in Seq(W) /\ <<h>> \in Seq(W) /\ s = <<h>> \o t
  <2>1. s \in Seq(W)
    OBVIOUS
  <2> HIDE DEF W
  <2> QED
    BY <2>1
<1> HIDE DEF h, t
<1>2. FlattenSeq(<<h>> \o t) = FlattenSeq(<<h>>) \o FlattenSeq(t)
  BY <1>1, FlattenConcat, Zenon
<1>3. FlattenSeq(<<h>>) = h
  BY <1>1, FlattenOne, Zenon
<1>4. FlattenSeq(t) \in W
  BY <1>1, FlattenType, Zenon
<1> DEFINE u == FlattenSeq(t)
<1>5. FlattenSeq(s) = h \o u
  BY <1>1, <1>2, <1>3, Zenon
<1> HIDE DEF u
<1>6. h \in Seq(S) /\ u \in Seq(S) /\ h # << >>
  BY <1>1, <1>4 DEF h, u
<1>7. h \o u \in Seq(S) /\ h \o u # << >> /\ (h \o u)[1] = h[1]
  BY <1>6
<1> QED
  BY <1>5, <1>7, Zenon DEF h

=============================================================================
