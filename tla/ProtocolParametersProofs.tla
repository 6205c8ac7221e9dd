---------------------- MODULE ProtocolParametersProofs ----------------------
(***************************************************************************)
(* The ATR of every card that keeps to ISO 7816-3 is read for what it says *)
(* and no part of it is taken for the whole; and after                     *)
(* IFDHSetProtocolParameters, driver, reader and card agree on rate,       *)
(* protocol, checksum and block sizes.  For any readers, cards and rates   *)
(* asked for.                                                              *)
(*                                                                         *)
(* First what the recursive functions of the ATR do (FlattenSeq on the     *)
(* card's side, LevelsAfter on the driver's), by induction over the        *)
(* numbers; then the agreement of both sides; then the call.               *)
(***************************************************************************)
EXTENDS ProtocolParameters, SequenceTheorems, FiniteSetTheorems, WellFoundedInduction, TLAPS

-----------------------------------------------------------------------------
(* Numbers, bits and bytes                                                 *)

Level == [ta: MaybeByte, tb: MaybeByte, tc: MaybeByte, td: MaybeByte]
Byte  == 0..255

\* One if the byte is there.
One(v) == IfPresent(v, 1, 0)

\* Every byte is one that is there.
LEMMA BytesThere == \A v \in Byte : Present(v) /\ v \in MaybeByte
  BY DEF Byte, Present, Absent, MaybeByte

\* Induction over the numbers, for a set of them: one that is not in it, if any, has
\* a least.
LEMMA NatByLeast ==
  ASSUME NEW S, 0 \in S, \A n \in Nat : n \in S => n + 1 \in S
  PROVE  Nat \subseteq S
<1> DEFINE T == Nat \ S
<1> SUFFICES ASSUME T # {} PROVE FALSE
  OBVIOUS
<1>1. IsWellFoundedOn(OpToRel(<, Nat), Nat)
  BY NatLessThanWellFounded
<1>2. PICK x \in T : \A y \in T : ~(<<y, x>> \in OpToRel(<, Nat))
  BY <1>1, WFMin
<1>3. x \in Nat /\ x # 0 /\ x - 1 \in Nat
  OBVIOUS
<1>4. x - 1 \in T
  BY <1>3
<1>5. <<x - 1, x>> \in OpToRel(<, Nat)
  BY <1>3 DEF OpToRel
<1> QED
  BY <1>2, <1>4, <1>5

\* One counts the byte.
LEMMA OneFacts ==
  ASSUME NEW v
  PROVE  One(v) \in {0, 1} /\ (Present(v) <=> One(v) = 1)
  BY DEF One, IfPresent

\* The bits of PresenceBits say of each byte of a level whether it is there, and leave
\* the low half alone.
LEMMA PresenceSays ==
  ASSUME NEW l \in Level, NEW t \in 0..15
  PROVE  LET td == t + PresenceBits(l)
         IN  /\ Says(td, 4) <=> Present(l.ta)
             /\ Says(td, 5) <=> Present(l.tb)
             /\ Says(td, 6) <=> Present(l.tc)
             /\ Says(td, 7) <=> Present(l.td)
             /\ LowBits(td) = t /\ td \in Byte
<1> DEFINE a == One(l.ta)
           b == One(l.tb)
           c == One(l.tc)
           d == One(l.td)
           td == t + 16 * a + 32 * b + 64 * c + 128 * d
<1>1. /\ a \in {0, 1} /\ b \in {0, 1} /\ c \in {0, 1} /\ d \in {0, 1}
      /\ Present(l.ta) <=> a = 1
      /\ Present(l.tb) <=> b = 1
      /\ Present(l.tc) <=> c = 1
      /\ Present(l.td) <=> d = 1
  BY OneFacts
<1>2. t + PresenceBits(l) = td
  BY DEF PresenceBits, One, IfPresent
<1> HIDE DEF a, b, c, d
<1>3. Says(td, 4) <=> a = 1
  BY <1>1 DEF Says
<1>4. Says(td, 5) <=> b = 1
  BY <1>1 DEF Says
<1>5. Says(td, 6) <=> c = 1
  BY <1>1 DEF Says
<1>6. Says(td, 7) <=> d = 1
  BY <1>1 DEF Says
<1>7. LowBits(td) = t /\ td \in Byte
  BY <1>1 DEF LowBits, Byte
<1> QED
  BY <1>1, <1>2, <1>3, <1>4, <1>5, <1>6, <1>7

\* How many of the bits up to one are set.
LEMMA CountUpTo ==
  ASSUME NEW td, NEW k \in 3..6
  PROVE  LET S(j) == {i \in 4..j : Says(td, i)}
         IN  /\ IsFiniteSet(S(k))
             => /\ IsFiniteSet(S(k + 1))
                /\ Cardinality(S(k + 1)) = Cardinality(S(k)) + (IF Says(td, k + 1) THEN 1 ELSE 0)
<1> DEFINE S(j) == {i \in 4..j : Says(td, i)}
<1> SUFFICES ASSUME IsFiniteSet(S(k))
             PROVE  /\ IsFiniteSet(S(k + 1))
                    /\ Cardinality(S(k + 1)) = Cardinality(S(k)) + (IF Says(td, k + 1) THEN 1 ELSE 0)
  OBVIOUS
<1>0. Cardinality(S(k)) \in Nat
  BY FS_CardinalityType
<1>1. CASE Says(td, k + 1)
  <2>1. S(k + 1) = S(k) \cup {k + 1} /\ k + 1 \notin S(k)
    BY <1>1
  <2> HIDE DEF S
  <2> QED
    BY <1>1, <2>1, FS_AddElement
<1>2. CASE ~Says(td, k + 1)
  <2>1. S(k + 1) = S(k)
    BY <1>2
  <2> HIDE DEF S
  <2> QED
    BY <1>0, <1>2, <2>1
<1> QED
  BY <1>1, <1>2

\* How many of the four bits are set, up to each.
LEMMA Counts ==
  ASSUME NEW td
  PROVE  LET S(j) == {i \in 4..j : Says(td, i)}
             n(j) == IF Says(td, j) THEN 1 ELSE 0
         IN  /\ Cardinality(S(4)) = n(4)
             /\ Cardinality(S(5)) = n(4) + n(5)
             /\ Cardinality(S(6)) = n(4) + n(5) + n(6)
             /\ Cardinality(S(7)) = n(4) + n(5) + n(6) + n(7)
<1> DEFINE S(j) == {i \in 4..j : Says(td, i)}
           n(j) == IF Says(td, j) THEN 1 ELSE 0
<1>1. IsFiniteSet(S(3)) /\ Cardinality(S(3)) = 0
  <2>1. S(3) = {}
    OBVIOUS
  <2> QED
    BY <2>1, FS_EmptySet
<1>2. \A k \in 3..6 : IsFiniteSet(S(k))
        => IsFiniteSet(S(k + 1)) /\ Cardinality(S(k + 1)) = Cardinality(S(k)) + n(k + 1)
  BY CountUpTo
<1>3. n(4) \in Nat /\ n(5) \in Nat /\ n(6) \in Nat /\ n(7) \in Nat
  OBVIOUS
<1> HIDE DEF S, n
<1>4. IsFiniteSet(S(4)) /\ Cardinality(S(4)) = n(4)
  BY <1>1, <1>2, <1>3, 3 \in 3..6, 3 + 1 = 4, 0 + n(4) = n(4)
<1>5. IsFiniteSet(S(5)) /\ Cardinality(S(5)) = n(4) + n(5)
  BY <1>2, <1>4, 4 \in 3..6, 4 + 1 = 5
<1>6. IsFiniteSet(S(6)) /\ Cardinality(S(6)) = n(4) + n(5) + n(6)
  BY <1>2, <1>5, 5 \in 3..6, 5 + 1 = 6
<1>7. Cardinality(S(7)) = n(4) + n(5) + n(6) + n(7)
  BY <1>2, <1>6, 6 \in 3..6, 6 + 1 = 7
<1> QED
  BY <1>4, <1>5, <1>6, <1>7 DEF S, n

\* A byte more, if it is there.
LEMMA ByteMore ==
  ASSUME NEW s \in Seq(Byte), NEW v \in MaybeByte
  PROVE  LET t == s \o IfPresent(v, <<v>>, <<>>)
         IN  /\ t \in Seq(Byte) /\ Len(t) = Len(s) + One(v)
             /\ \A i \in 1..Len(s) : t[i] = s[i]
             /\ Present(v) => t[Len(s) + 1] = v
<1> DEFINE t == s \o IfPresent(v, <<v>>, <<>>)
<1>0. Len(s) \in Nat
  BY LenProperties
<1>1. CASE Present(v)
  <2>1. v \in Byte
    BY <1>1 DEF MaybeByte, Present, Byte
  <2>2. <<v>> \in Seq(Byte) /\ Len(<<v>>) = 1 /\ <<v>>[1] = v
    BY <2>1
  <2>3. t = s \o <<v>> /\ One(v) = 1
    BY <1>1, Zenon DEF One, IfPresent
  <2> HIDE DEF t
  <2>4. /\ t \in Seq(Byte) /\ Len(t) = Len(s) + 1
        /\ \A i \in 1..Len(s) + 1 : t[i] = IF i <= Len(s) THEN s[i] ELSE <<v>>[i - Len(s)]
    BY <2>2, <2>3, ConcatProperties
  <2>5. t[Len(s) + 1] = v
    <3>1. Len(s) + 1 \in 1..Len(s) + 1 /\ ~(Len(s) + 1 <= Len(s)) /\ Len(s) + 1 - Len(s) = 1
      BY <1>0
    <3> QED
      BY <2>2, <2>4, <3>1
  <2>6. \A i \in 1..Len(s) : t[i] = s[i]
    BY <1>0, <2>4
  <2> QED
    BY <2>3, <2>4, <2>5, <2>6 DEF t
<1>2. CASE ~Present(v)
  <2>1. t = s \o <<>> /\ One(v) = 0
    BY <1>2, Zenon DEF One, IfPresent
  <2>2. t = s
    BY <2>1, ConcatEmptySeq
  <2> HIDE DEF t
  <2>3. Len(t) = Len(s) + One(v)
    BY <1>0, <2>1, <2>2
  <2>4. t \in Seq(Byte) /\ \A i \in 1..Len(s) : t[i] = s[i]
    BY <2>2
  <2> QED
    BY <1>2, <2>3, <2>4 DEF t
<1> QED
  BY <1>1, <1>2

\* A level as it is sent: each byte stands behind those before it.
LEMMA LevelBytes ==
  ASSUME NEW l \in Level
  PROVE  /\ BytesOf(l) \in Seq(Byte)
         /\ Len(BytesOf(l)) = One(l.ta) + One(l.tb) + One(l.tc) + One(l.td)
         /\ Present(l.ta) => BytesOf(l)[1] = l.ta
         /\ Present(l.tb) => BytesOf(l)[One(l.ta) + 1] = l.tb
         /\ Present(l.tc) => BytesOf(l)[One(l.ta) + One(l.tb) + 1] = l.tc
         /\ Present(l.td) => BytesOf(l)[One(l.ta) + One(l.tb) + One(l.tc) + 1] = l.td
<1> DEFINE p(v) == IfPresent(v, <<v>>, <<>>)
           s1 == <<>> \o p(l.ta)
           s2 == s1 \o p(l.tb)
           s3 == s2 \o p(l.tc)
           s4 == s3 \o p(l.td)
<1>1. l.ta \in MaybeByte /\ l.tb \in MaybeByte /\ l.tc \in MaybeByte /\ l.td \in MaybeByte
  BY DEF Level
<1>2. /\ One(l.ta) \in {0, 1} /\ One(l.tb) \in {0, 1} /\ One(l.tc) \in {0, 1}
      /\ Present(l.ta) <=> One(l.ta) = 1
      /\ Present(l.tb) <=> One(l.tb) = 1
      /\ Present(l.tc) <=> One(l.tc) = 1
  BY OneFacts
<1>3. <<>> \in Seq(Byte) /\ Len(<<>>) = 0
  BY EmptySeq
<1>4. /\ s1 \in Seq(Byte) /\ Len(s1) = One(l.ta)
      /\ Present(l.ta) => s1[1] = l.ta
  <2>1. /\ s1 \in Seq(Byte) /\ Len(s1) = Len(<<>>) + One(l.ta)
        /\ Present(l.ta) => s1[Len(<<>>) + 1] = l.ta
    BY <1>1, <1>3, ByteMore
  <2> HIDE DEF s1
  <2> QED
    BY <1>2, <1>3, <2>1
<1>5. BytesOf(l) = s4
  <2>1. p(l.ta) \in Seq(Byte)
    <3>1. CASE Present(l.ta)
      <4>1. l.ta \in Byte
        BY <1>1, <3>1 DEF MaybeByte, Present, Byte
      <4>2. <<l.ta>> \in Seq(Byte)
        BY <4>1
      <4>3. p(l.ta) = <<l.ta>>
        BY <3>1, Zenon DEF IfPresent
      <4> QED
        BY <4>2, <4>3
    <3>2. CASE ~Present(l.ta)
      <4>1. p(l.ta) = <<>>
        BY <3>2, Zenon DEF IfPresent
      <4> QED
        BY <1>3, <4>1
    <3> QED
      BY <3>1, <3>2
  <2>2. s1 = p(l.ta)
    BY <2>1, ConcatEmptySeq
  <2> QED
    BY <2>2 DEF BytesOf
<1> HIDE DEF s1
<1>6. /\ s2 \in Seq(Byte) /\ Len(s2) = Len(s1) + One(l.tb)
      /\ \A i \in 1..Len(s1) : s2[i] = s1[i]
      /\ Present(l.tb) => s2[Len(s1) + 1] = l.tb
  BY <1>1, <1>4, ByteMore
<1> HIDE DEF s2
<1>7. /\ s3 \in Seq(Byte) /\ Len(s3) = Len(s2) + One(l.tc)
      /\ \A i \in 1..Len(s2) : s3[i] = s2[i]
      /\ Present(l.tc) => s3[Len(s2) + 1] = l.tc
  BY <1>1, <1>6, ByteMore
<1> HIDE DEF s3
<1>8. /\ s4 \in Seq(Byte) /\ Len(s4) = Len(s3) + One(l.td)
      /\ \A i \in 1..Len(s3) : s4[i] = s3[i]
      /\ Present(l.td) => s4[Len(s3) + 1] = l.td
  BY <1>1, <1>7, ByteMore
<1> HIDE DEF s4
<1> QED
  BY <1>2, <1>4, <1>5, <1>6, <1>7, <1>8

\* What FlattenSeq does, as a function that is there.
LEMMA FlattenSteps ==
  ASSUME NEW s, NEW L \in Nat \ {0}, Len(s) = L
  PROVE  \E h : /\ h = [i \in 1..L |-> IF i = 1 THEN s[i] ELSE h[i - 1] \o s[i]]
                /\ FlattenSeq(s) = h[L]
<1> DEFINE G(h, n) == h = [i \in 1..n |-> IF i = 1 THEN s[i] ELSE h[i - 1] \o s[i]]
           S == {n \in Nat : n # 0 => \E h : G(h, n)}
<1>1. 0 \in S
  OBVIOUS
<1>2. ASSUME NEW n \in Nat, n \in S
      PROVE  n + 1 \in S
  <2>1. CASE n = 0
    <3> DEFINE h == [i \in 1..1 |-> s[1]]
    <3>1. G(h, 1)
      OBVIOUS
    <3>2. n + 1 = 1
      BY <2>1
    <3> HIDE DEF G
    <3> QED
      BY <3>1, <3>2
  <2>2. CASE n # 0
    <3>1. PICK h : G(h, n)
      BY <1>2, <2>2
    <3> DEFINE h2 == [i \in 1..n + 1 |-> IF i = n + 1 THEN h[n] \o s[n + 1] ELSE h[i]]
    <3>2. ASSUME NEW i \in 1..n + 1
          PROVE  h2[i] = IF i = 1 THEN s[i] ELSE h2[i - 1] \o s[i]
      <4>1. CASE i = n + 1
        <5>1. i # 1 /\ i - 1 = n /\ n \in 1..n + 1 /\ n # n + 1
          BY <2>2, <4>1
        <5>3. h2[i] = h[n] \o s[n + 1]
          BY <4>1
        <5>2. h2[i - 1] = h[n]
          BY <5>1
        <5> QED
          BY <4>1, <5>1, <5>2, <5>3
      <4>2. CASE i # n + 1
        <5>1. i \in 1..n /\ h2[i] = h[i]
          BY <4>2
        <5>2. h[i] = IF i = 1 THEN s[i] ELSE h[i - 1] \o s[i]
          BY <3>1, <5>1
        <5>3. i # 1 => i - 1 \in 1..n + 1 /\ i - 1 # n + 1
          BY <5>1
        <5> QED
          BY <5>1, <5>2, <5>3
      <4> QED
        BY <4>1, <4>2
    <3>3. h2 = [i \in 1..n + 1 |-> h2[i]]
      OBVIOUS
    <3>4. G(h2, n + 1)
      <4> HIDE DEF h2
      <4> QED
        BY <3>2, <3>3
    <3> HIDE DEF G, h2
    <3> QED
      BY <3>4
  <2> QED
    BY <2>1, <2>2
<1>3. L \in S
  <2> HIDE DEF S
  <2> QED
    BY <1>1, <1>2, NatByLeast
<1>4. \E h : G(h, L)
  BY <1>3
<1>5. FlattenSeq(s) = (CHOOSE h : G(h, L))[L]
  BY DEF FlattenSeq
<1> HIDE DEF G
<1>6. G(CHOOSE h : G(h, L), L)
  BY <1>4
<1> QED
  BY <1>5, <1>6 DEF G

\* What a concatenation is made of.
LEMMA ConcatPlaces ==
  ASSUME NEW B, NEW s1 \in Seq(B), NEW s2 \in Seq(B)
  PROVE  LET t == s1 \o s2 IN
         /\ t \in Seq(B) /\ Len(s1) \in Nat /\ Len(s2) \in Nat /\ Len(t) = Len(s1) + Len(s2)
         /\ \A k \in 1..Len(s1) : k \in 1..Len(t) /\ t[k] = s1[k]
         /\ \A k \in 1..Len(s2) : Len(s1) + k \in 1..Len(t) /\ t[Len(s1) + k] = s2[k]
<1> DEFINE t == s1 \o s2
<1>1. Len(s1) \in Nat /\ Len(s2) \in Nat
  BY LenProperties
<1>2. /\ t \in Seq(B) /\ Len(t) = Len(s1) + Len(s2)
      /\ \A k \in 1..Len(s1) + Len(s2) : t[k] = IF k <= Len(s1) THEN s1[k] ELSE s2[k - Len(s1)]
  BY ConcatProperties
<1> HIDE DEF t
<1>3. ASSUME NEW k \in 1..Len(s2)
      PROVE  Len(s1) + k \in 1..Len(t) /\ t[Len(s1) + k] = s2[k]
  <2>1. /\ Len(s1) + k \in 1..Len(s1) + Len(s2) /\ ~(Len(s1) + k <= Len(s1))
        /\ Len(s1) + k - Len(s1) = k
    BY <1>1
  <2> QED
    BY <1>2, <2>1
<1>4. ASSUME NEW k \in 1..Len(s1)
      PROVE  k \in 1..Len(t) /\ t[k] = s1[k]
  BY <1>1, <1>2
<1> QED
  BY <1>1, <1>2, <1>3, <1>4 DEF t

\* The parts of a sequence f are the L sequences s, each behind those before it.
PartsAt(s, L, f, off) ==
    /\ off \in [0..L -> Nat] /\ off[0] = 0 /\ off[L] = Len(f)
    /\ \A i \in 1..L : off[i] = off[i - 1] + Len(s[i])
    /\ \A i \in 1..L : \A k \in 1..Len(s[i]) :
         off[i - 1] + k \in 1..Len(f) /\ f[off[i - 1] + k] = s[i][k]

\* That is how a flattened sequence is made.
LEMMA FlattenPlaces ==
  ASSUME NEW B, NEW s, NEW L \in Nat \ {0}, Len(s) = L, \A i \in 1..L : s[i] \in Seq(B)
  PROVE  /\ FlattenSeq(s) \in Seq(B)
         /\ \E off : PartsAt(s, L, FlattenSeq(s), off)
<1>1. PICK h : /\ h = [i \in 1..L |-> IF i = 1 THEN s[i] ELSE h[i - 1] \o s[i]]
               /\ FlattenSeq(s) = h[L]
  BY FlattenSteps
<1> DEFINE g == [i \in 0..L |-> IF i = 0 THEN <<>> ELSE h[i]]
<1>2. g[0] = <<>> /\ g[L] = FlattenSeq(s)
  BY <1>1
<1>3. ASSUME NEW i \in 1..L
      PROVE  g[i] = g[i - 1] \o s[i]
  <2>1. g[i] = h[i]
    OBVIOUS
  <2>2. CASE i = 1
    <3>1. h[i] = s[i] /\ g[i - 1] = <<>>
      BY <1>1, <2>2
    <3>2. <<>> \o s[i] = s[i]
      BY ConcatEmptySeq
    <3> QED
      BY <2>1, <3>1, <3>2
  <2>3. CASE i # 1
    <3>1. h[i] = h[i - 1] \o s[i]
      BY <1>1, <2>3
    <3>2. g[i - 1] = h[i - 1]
      BY <2>3
    <3> QED
      BY <2>1, <3>1, <3>2
  <2> QED
    BY <2>2, <2>3
<1> HIDE DEF g
<1> DEFINE P(n) == /\ g[n] \in Seq(B)
                   /\ \A i \in 1..n : Len(g[i]) = Len(g[i - 1]) + Len(s[i])
                   /\ \A i \in 1..n : \A k \in 1..Len(s[i]) :
                        /\ Len(g[i - 1]) + k \in 1..Len(g[n])
                        /\ g[n][Len(g[i - 1]) + k] = s[i][k]
           S == {n \in Nat : n \in 0..L => P(n)}
<1>5. P(0)
  <2>1. g[0] \in Seq(B)
    BY <1>2, EmptySeq
  <2> QED
    BY <2>1
<1>6. ASSUME NEW n \in Nat, P(n), n + 1 \in 0..L
      PROVE  P(n + 1)
  <2>1. P(n)
    BY <1>6
  <2> DEFINE m == n + 1
  <2>2. m \in 1..L /\ m - 1 = n
    BY <1>6
  <2> HIDE DEF m
  <2>3. g[m] = g[n] \o s[m] /\ g[n] \in Seq(B) /\ s[m] \in Seq(B)
    BY <1>3, <2>1, <2>2
  <2>4. /\ g[m] \in Seq(B) /\ Len(g[m]) = Len(g[n]) + Len(s[m])
        /\ \A k \in 1..Len(g[n]) : k \in 1..Len(g[m]) /\ g[m][k] = g[n][k]
        /\ \A k \in 1..Len(s[m]) : Len(g[n]) + k \in 1..Len(g[m]) /\ g[m][Len(g[n]) + k] = s[m][k]
    <3> DEFINE a == g[n]
               b == s[m]
               u == a \o b
    <3>1. a \in Seq(B) /\ b \in Seq(B) /\ g[m] = u
      BY <2>3
    <3> HIDE DEF a, b
    <3>2. /\ u \in Seq(B) /\ Len(u) = Len(a) + Len(b)
          /\ \A k \in 1..Len(a) : k \in 1..Len(u) /\ u[k] = a[k]
          /\ \A k \in 1..Len(b) : Len(a) + k \in 1..Len(u) /\ u[Len(a) + k] = b[k]
      BY <3>1, ConcatPlaces
    <3> HIDE DEF u
    <3> QED
      BY <3>1, <3>2 DEF a, b
  <2>5. \A i \in 1..m : i \in 1..n \/ i = m
    BY DEF m
  <2>6. ASSUME NEW i \in 1..n, NEW k \in 1..Len(s[i])
        PROVE  Len(g[i - 1]) + k \in 1..Len(g[m]) /\ g[m][Len(g[i - 1]) + k] = s[i][k]
    <3>1. Len(g[i - 1]) + k \in 1..Len(g[n]) /\ g[n][Len(g[i - 1]) + k] = s[i][k]
      BY <2>1
    <3> QED
      BY <2>4, <3>1
  <2>7. ASSUME NEW k \in 1..Len(s[m])
        PROVE  Len(g[m - 1]) + k \in 1..Len(g[m]) /\ g[m][Len(g[m - 1]) + k] = s[m][k]
    BY <2>2, <2>4
  <2>8. P(m)
    BY <2>1, <2>2, <2>4, <2>5, <2>6, <2>7
  <2> QED
    BY <2>8 DEF m
<1> HIDE DEF P
<1>7. \A n \in 0..L : P(n)
  <2>1. Nat \subseteq S
    <3>1. 0 \in S
      BY <1>5
    <3>2. ASSUME NEW n \in Nat, n \in S PROVE n + 1 \in S
      <4>1. n + 1 \in 0..L => n \in 0..L
        OBVIOUS
      <4> QED
        BY <1>6, <3>2, <4>1
    <3> HIDE DEF S
    <3> QED
      BY <3>1, <3>2, NatByLeast
  <2> QED
    BY <2>1
<1> DEFINE off == [i \in 0..L |-> Len(g[i])]
<1>8. off \in [0..L -> Nat] /\ \A i \in 0..L : off[i] = Len(g[i])
  <2>1. \A i \in 0..L : Len(g[i]) \in Nat
    BY <1>7, LenProperties DEF P
  <2> QED
    BY <2>1
<1> HIDE DEF off
<1>9. g[0] = <<>> /\ Len(<<>>) = 0 /\ L \in 0..L /\ 0 \in 0..L
  BY <1>2, EmptySeq
<1>10. \A i \in 1..L : i \in 0..L /\ i - 1 \in 0..L
  OBVIOUS
<1>11. /\ g[L] \in Seq(B)
       /\ \A i \in 1..L : off[i] = off[i - 1] + Len(s[i])
       /\ \A i \in 1..L : \A k \in 1..Len(s[i]) :
            off[i - 1] + k \in 1..Len(g[L]) /\ g[L][off[i - 1] + k] = s[i][k]
  <2>1. P(L)
    BY <1>7, <1>9
  <2>2. ASSUME NEW i \in 1..L PROVE off[i] = off[i - 1] + Len(s[i])
    BY <1>8, <1>10, <2>1 DEF P
  <2>3. ASSUME NEW i \in 1..L, NEW k \in 1..Len(s[i])
        PROVE  off[i - 1] + k \in 1..Len(g[L]) /\ g[L][off[i - 1] + k] = s[i][k]
    <3>1. off[i - 1] = Len(g[i - 1])
      BY <1>8, <1>10
    <3>2. Len(g[i - 1]) + k \in 1..Len(g[L]) /\ g[L][Len(g[i - 1]) + k] = s[i][k]
      BY <2>1 DEF P
    <3> QED
      BY <3>1, <3>2
  <2> QED
    BY <2>1, <2>2, <2>3 DEF P
<1>12. off[0] = 0 /\ off[L] = Len(FlattenSeq(s))
  BY <1>2, <1>8, <1>9
<1>13. FlattenSeq(s) \in Seq(B) /\ PartsAt(s, L, g[L], off)
  BY <1>2, <1>8, <1>11, <1>12 DEF PartsAt
<1> QED
  BY <1>2, <1>13

-----------------------------------------------------------------------------
(* The bytes of a card                                                     *)

\* The TDi, or T0, that announces level m + 1.
Announcing(c, hbn, m) == IF m = 0 THEN hbn + PresenceBits(c[1]) ELSE Complete(c)[m].td

\* The levels a card sends are those it has, but for the TDi.
LEMMA CompleteLevels ==
  ASSUME NEW c, IsoLevels(c)
  PROVE  /\ Len(c) \in 1..MaxProtocols /\ \A i \in 1..Len(c) : c[i] \in Level
         /\ Complete(c) \in [1..Len(c) -> Level]
         /\ \A i \in 1..Len(c) :
              /\ Complete(c)[i].ta = c[i].ta /\ Complete(c)[i].tb = c[i].tb
              /\ Complete(c)[i].tc = c[i].tc
              /\ Complete(c)[i].td = IF i < Len(c) THEN c[i].td + PresenceBits(c[i + 1]) ELSE Absent
              /\ i < Len(c) => c[i].td \in 0..15
<1> DEFINE L == Len(c)
           R == [ta: MaybeByte, tb: MaybeByte, tc: MaybeByte, td: {Absent} \cup 0..15]
<1>1. L \in 1..MaxProtocols /\ c \in Seq(R)
  BY DEF IsoLevels
<1>2. \A i \in 1..L : c[i] \in R
  BY <1>1, ElementOfSeq
<1>3. \A i \in 1..L : /\ c[i] \in Level
                      /\ i < L => c[i].td \in 0..15
                      /\ i = L => c[i].td = Absent
  <2> SUFFICES ASSUME NEW i \in 1..L
               PROVE  /\ c[i] \in Level
                      /\ i < L => c[i].td \in 0..15
                      /\ i = L => c[i].td = Absent
    OBVIOUS
  <2>1. c[i] \in R
    BY <1>2
  <2>2. Present(c[i].td) <=> i < L
    BY DEF IsoLevels
  <2>3. c[i].td \in {Absent} \cup 0..15
    BY <2>1
  <2>4. c[i] \in Level
    BY <2>1 DEF Level, MaybeByte
  <2> QED
    BY <1>1, <2>2, <2>3, <2>4 DEF Present
<1>4. ASSUME NEW i \in 1..L
      PROVE  /\ Complete(c)[i] \in Level
             /\ Complete(c)[i].ta = c[i].ta /\ Complete(c)[i].tb = c[i].tb
             /\ Complete(c)[i].tc = c[i].tc
             /\ Complete(c)[i].td = IF i < L THEN c[i].td + PresenceBits(c[i + 1]) ELSE Absent
  <2>0. L \in Nat
    BY <1>1 DEF MaxProtocols
  <2>1. c[i] = [ta |-> c[i].ta, tb |-> c[i].tb, tc |-> c[i].tc, td |-> c[i].td]
        /\ c[i].ta \in MaybeByte /\ c[i].tb \in MaybeByte /\ c[i].tc \in MaybeByte
        /\ c[i].td \in MaybeByte
    BY <1>3 DEF Level
  <2>2. CASE i < L
    <3>1. Present(c[i].td) /\ c[i].td \in 0..15 /\ i + 1 \in 1..L
      BY <1>3, <2>0, <2>2 DEF IsoLevels
    <3> DEFINE d == c[i].td + PresenceBits(c[i + 1])
    <3>2. d \in MaybeByte
      BY <1>3, <3>1, PresenceSays DEF Byte, MaybeByte
    <3>3. Complete(c)[i] = [c[i] EXCEPT !.td = d]
      BY <3>1 DEF Complete
    <3> HIDE DEF d
    <3>4. Complete(c)[i] = [ta |-> c[i].ta, tb |-> c[i].tb, tc |-> c[i].tc, td |-> d]
      BY <2>1, <3>3
    <3> QED
      BY <2>1, <2>2, <3>2, <3>4 DEF Level, d
  <2>3. CASE ~(i < L)
    <3>1. i = L /\ c[i].td = Absent
      BY <1>3, <2>0, <2>3
    <3>2. Complete(c)[i] = c[i]
      BY <3>1 DEF Complete, Present
    <3> QED
      BY <1>3, <2>3, <3>1, <3>2
  <2> QED
    BY <2>2, <2>3
<1>5. Complete(c) \in [1..L -> Level]
  <2>1. Complete(c) = [i \in 1..L |-> Complete(c)[i]]
    BY DEF Complete
  <2> QED
    BY <1>4, <2>1
<1> QED
  BY <1>1, <1>3, <1>4, <1>5

\* What announces a level says of each of its bytes whether it is there.
LEMMA AnnouncedLevel ==
  ASSUME NEW c, IsoLevels(c), NEW hbn \in 0..15, NEW m \in 0..Len(c) - 1
  PROVE  LET td == Announcing(c, hbn, m)
             l  == Complete(c)[m + 1]
         IN  /\ Present(td) /\ td \in Byte
             /\ LowBits(td) = IF m = 0 THEN hbn ELSE c[m].td
             /\ Says(td, 4) <=> Present(l.ta)
             /\ Says(td, 5) <=> Present(l.tb)
             /\ Says(td, 6) <=> Present(l.tc)
             /\ Says(td, 7) <=> Present(l.td)
<1> DEFINE t == IF m = 0 THEN hbn ELSE c[m].td
           td == t + PresenceBits(c[m + 1])
<1>0. Len(c) \in Nat /\ m \in Nat /\ m + 1 \in 1..Len(c)
  BY CompleteLevels DEF MaxProtocols
<1>1. Announcing(c, hbn, m) = td /\ t \in 0..15
  <2>1. CASE m = 0
    BY <2>1 DEF Announcing
  <2>2. CASE m # 0
    <3>1. m \in 1..Len(c) /\ m < Len(c)
      BY <1>0, <2>2
    <3> QED
      BY <2>2, <3>1, CompleteLevels DEF Announcing
  <2> QED
    BY <2>1, <2>2
<1>2. /\ c[m + 1] \in Level
      /\ Complete(c)[m + 1].ta = c[m + 1].ta /\ Complete(c)[m + 1].tb = c[m + 1].tb
      /\ Complete(c)[m + 1].tc = c[m + 1].tc
  BY <1>0, CompleteLevels
<1>3. Present(Complete(c)[m + 1].td) <=> Present(c[m + 1].td)
  <2>1. CASE m + 1 < Len(c)
    <3>1. /\ Complete(c)[m + 1].td = c[m + 1].td + PresenceBits(c[m + 2])
          /\ c[m + 1].td \in 0..15 /\ c[m + 2] \in Level
      BY <1>0, <2>1, CompleteLevels, m + 1 + 1 = m + 2, m + 2 \in 1..Len(c)
    <3>2. c[m + 1].td + PresenceBits(c[m + 2]) \in Byte
      BY <3>1, PresenceSays
    <3>3. c[m + 1].td \in Byte
      BY <3>1 DEF Byte
    <3>4. Complete(c)[m + 1].td \in Byte
      BY <3>1, <3>2
    <3> QED
      BY <3>3, <3>4, BytesThere
  <2>2. CASE ~(m + 1 < Len(c))
    <3>1. Complete(c)[m + 1].td = Absent
      BY <1>0, <2>2, CompleteLevels
    <3>2. ~Present(c[m + 1].td)
      BY <1>0, <2>2 DEF IsoLevels
    <3> QED
      BY <3>1, <3>2 DEF Present
  <2> QED
    BY <2>1, <2>2
<1> HIDE DEF t
<1>4. /\ Says(td, 4) <=> Present(c[m + 1].ta)
      /\ Says(td, 5) <=> Present(c[m + 1].tb)
      /\ Says(td, 6) <=> Present(c[m + 1].tc)
      /\ Says(td, 7) <=> Present(c[m + 1].td)
      /\ LowBits(td) = t /\ td \in Byte
  BY <1>1, <1>2, PresenceSays
<1>5. Present(td)
  BY <1>4, BytesThere
<1> HIDE DEF td
<1> QED
  BY <1>1, <1>2, <1>3, <1>4, <1>5 DEF t

\* Where the bytes of a card are: each level behind those before it, then the
\* historical bytes and perhaps a TCK.
Placed(c, hbn, b, off) ==
    /\ off \in [0..Len(c) -> Nat] /\ off[0] = 0
    /\ \A i \in 1..Len(c) : off[i] = off[i - 1] + Len(BytesOf(Complete(c)[i]))
    /\ \A i \in 1..Len(c) : \A k \in 1..Len(BytesOf(Complete(c)[i])) :
         b[2 + off[i - 1] + k] = BytesOf(Complete(c)[i])[k]
    /\ Len(b) = 2 + off[Len(c)] + hbn + (IF NeedsTCK(c) THEN 1 ELSE 0)
    /\ b[2] = hbn + PresenceBits(c[1])

\* That is what a card sends.
LEMMA EncodePlaces ==
  ASSUME NEW c, IsoLevels(c), NEW ts \in Byte, NEW hbn \in 0..15
  PROVE  LET b == Encode(ts, c, hbn)
         IN  b \in Seq(Byte) /\ \E off : Placed(c, hbn, b, off)
<1> DEFINE L == Len(c)
           C == Complete(c)
           s == [i \in 1..L |-> BytesOf(C[i])]
           F == FlattenSeq(s)
           t0 == hbn + PresenceBits(c[1])
           head == <<ts, t0>>
           hist == [i \in 1..hbn |-> 0]
           tck == IF NeedsTCK(c) THEN <<0>> ELSE <<>>
           b1 == head \o F
           b2 == b1 \o hist
           b == b2 \o tck
<1>1. L \in 1..MaxProtocols /\ L \in Nat \ {0} /\ C \in [1..L -> Level] /\ c[1] \in Level
  BY CompleteLevels DEF MaxProtocols
<1>2. /\ Len(s) = L /\ \A i \in 1..L : s[i] = BytesOf(C[i])
      /\ \A i \in 1..L : s[i] \in Seq(Byte)
  <2>1. \A i \in 1..L : BytesOf(C[i]) \in Seq(Byte)
    BY <1>1, LevelBytes
  <2> HIDE DEF C
  <2> QED
    BY <1>1, <2>1
<1> HIDE DEF s
<1>3. F \in Seq(Byte)
  BY <1>1, <1>2, FlattenPlaces
<1>4. PICK off : PartsAt(s, L, F, off)
  BY <1>1, <1>2, FlattenPlaces
<1>5. head \in Seq(Byte) /\ Len(head) = 2 /\ head[2] = t0
  <2>1. t0 \in Byte
    BY <1>1, PresenceSays
  <2> HIDE DEF t0
  <2> QED
    BY <2>1
<1>6. hist \in Seq(Byte) /\ Len(hist) = hbn
  BY DEF Byte
<1>7. tck \in Seq(Byte) /\ Len(tck) = IF NeedsTCK(c) THEN 1 ELSE 0
  <2>1. <<0>> \in Seq(Byte) /\ Len(<<0>>) = 1
    BY DEF Byte
  <2>2. <<>> \in Seq(Byte) /\ Len(<<>>) = 0
    BY EmptySeq
  <2> QED
    BY <2>1, <2>2
<1>8. Encode(ts, c, hbn) = b
  <2>1. Encode(ts, c, hbn) = head \o F \o hist \o tck
    BY DEF Encode, s
  <2> QED
    BY <2>1
<1> HIDE DEF head, F, hist, tck, t0
<1>9. /\ b1 \in Seq(Byte) /\ Len(b1) = 2 + Len(F)
      /\ \A k \in 1..2 : k \in 1..Len(b1) /\ b1[k] = head[k]
      /\ \A k \in 1..Len(F) : 2 + k \in 1..Len(b1) /\ b1[2 + k] = F[k]
  <2>1. /\ b1 \in Seq(Byte) /\ Len(b1) = Len(head) + Len(F)
        /\ \A k \in 1..Len(head) : k \in 1..Len(b1) /\ b1[k] = head[k]
        /\ \A k \in 1..Len(F) : Len(head) + k \in 1..Len(b1) /\ b1[Len(head) + k] = F[k]
    <3>1. head \in Seq(Byte) /\ F \in Seq(Byte)
      BY <1>3, <1>5
    <3> QED
      BY <3>1, ConcatPlaces
  <2> HIDE DEF b1
  <2> QED
    BY <1>5, <2>1
<1> HIDE DEF b1
<1>10. /\ b2 \in Seq(Byte) /\ Len(b2) = Len(b1) + hbn
       /\ \A k \in 1..Len(b1) : k \in 1..Len(b2) /\ b2[k] = b1[k]
  <2>1. /\ b2 \in Seq(Byte) /\ Len(b2) = Len(b1) + Len(hist)
        /\ \A k \in 1..Len(b1) : k \in 1..Len(b2) /\ b2[k] = b1[k]
    BY <1>6, <1>9, ConcatPlaces
  <2> HIDE DEF b2
  <2> QED
    BY <1>6, <2>1
<1> HIDE DEF b2
<1>11. /\ b \in Seq(Byte) /\ Len(b) = Len(b2) + Len(tck)
       /\ \A k \in 1..Len(b2) : b[k] = b2[k]
  BY <1>7, <1>10, ConcatPlaces
<1> HIDE DEF b
<1>12. Len(b) = 2 + off[L] + hbn + (IF NeedsTCK(c) THEN 1 ELSE 0)
  BY <1>4, <1>7, <1>9, <1>10, <1>11 DEF PartsAt
<1>13. b[2] = t0
  BY <1>5, <1>9, <1>10, <1>11, 2 \in 1..2
<1>14. ASSUME NEW i \in 1..L, NEW k \in 1..Len(s[i])
       PROVE  b[2 + off[i - 1] + k] = s[i][k]
  <2>1. off[i - 1] + k \in 1..Len(F) /\ F[off[i - 1] + k] = s[i][k]
    BY <1>4 DEF PartsAt
  <2>2. 2 + off[i - 1] + k = 2 + (off[i - 1] + k)
    <3>1. i - 1 \in 0..L
      BY <1>1
    <3>2. off \in [0..L -> Nat]
      BY <1>4 DEF PartsAt
    <3>3. off[i - 1] \in Nat
      BY <3>1, <3>2
    <3>4. k \in Int
      OBVIOUS
    <3> QED
      BY <3>3, <3>4
  <2> QED
    BY <1>9, <1>10, <1>11, <2>1, <2>2
<1>15. Placed(c, hbn, b, off)
  <2>1. /\ off \in [0..L -> Nat] /\ off[0] = 0
        /\ \A i \in 1..L : off[i] = off[i - 1] + Len(BytesOf(C[i]))
    BY <1>2, <1>4 DEF PartsAt
  <2>2. \A i \in 1..L : \A k \in 1..Len(BytesOf(C[i])) : b[2 + off[i - 1] + k] = BytesOf(C[i])[k]
    BY <1>2, <1>14
  <2>3. b[2] = hbn + PresenceBits(c[1])
    BY <1>13 DEF t0
  <2> QED
    BY Zenon, <1>12, <2>1, <2>2, <2>3 DEF Placed
<1> QED
  BY <1>8, <1>11, <1>15

-----------------------------------------------------------------------------
(* The loop over the levels                                                *)

\* What the loop has after m levels of the card's bytes.
ReadUpTo(c, hbn, off, m) ==
    [ib |-> [i \in 1..m |-> Complete(c)[i]], td |-> Announcing(c, hbn, m),
     read |-> 2 + off[m], good |-> TRUE]

\* As many bytes are announced as the level has.
LEMMA LevelCounted ==
  ASSUME NEW c, IsoLevels(c), NEW hbn \in 0..15, NEW m \in 0..Len(c) - 1
  PROVE  LET td == Announcing(c, hbn, m)
             l == Complete(c)[m + 1]
             S(j) == {i \in 4..j : Says(td, i)}
         IN  /\ NumIb(td) = Len(BytesOf(l))
             /\ l \in Level
             /\ Cardinality(S(4)) = One(l.ta)
             /\ Cardinality(S(5)) = One(l.ta) + One(l.tb)
             /\ Cardinality(S(6)) = One(l.ta) + One(l.tb) + One(l.tc)
             /\ Cardinality(S(7)) = One(l.ta) + One(l.tb) + One(l.tc) + One(l.td)
<1> DEFINE td == Announcing(c, hbn, m)
           l == Complete(c)[m + 1]
           n(j) == IF Says(td, j) THEN 1 ELSE 0
           S(j) == {i \in 4..j : Says(td, i)}
<1>1. l \in Level
  <2>1. m + 1 \in 1..Len(c)
    BY CompleteLevels DEF MaxProtocols
  <2> QED
    BY <2>1, CompleteLevels
<1>2. /\ Says(td, 4) <=> Present(l.ta)
      /\ Says(td, 5) <=> Present(l.tb)
      /\ Says(td, 6) <=> Present(l.tc)
      /\ Says(td, 7) <=> Present(l.td)
  BY AnnouncedLevel
<1> HIDE DEF td, l
<1>3. n(4) = One(l.ta) /\ n(5) = One(l.tb) /\ n(6) = One(l.tc) /\ n(7) = One(l.td)
  BY <1>2, OneFacts DEF One, IfPresent
<1>4. /\ Cardinality(S(4)) = n(4) /\ Cardinality(S(5)) = n(4) + n(5)
      /\ Cardinality(S(6)) = n(4) + n(5) + n(6)
      /\ Cardinality(S(7)) = n(4) + n(5) + n(6) + n(7)
  BY Counts
<1>5. Len(BytesOf(l)) = One(l.ta) + One(l.tb) + One(l.tc) + One(l.td)
  BY <1>1, LevelBytes
<1>6. NumIb(td) = Cardinality(S(7))
  BY DEF NumIb
<1> HIDE DEF S, n
<1> QED
  BY <1>1, <1>3, <1>4, <1>5, <1>6 DEF S, td, l

\* A level is read as it was sent.
LEMMA LevelRead ==
  ASSUME NEW c, IsoLevels(c), NEW hbn \in 0..15, NEW m \in 0..Len(c) - 1, NEW b, NEW o \in Nat,
         \A k \in 1..Len(BytesOf(Complete(c)[m + 1])) :
            b[2 + o + k] = BytesOf(Complete(c)[m + 1])[k]
  PROVE  ReadLevel(b, Announcing(c, hbn, m), 2 + o) = Complete(c)[m + 1]
<1> DEFINE td == Announcing(c, hbn, m)
           l == Complete(c)[m + 1]
           s == BytesOf(l)
           S(j) == {i \in 4..j : Says(td, i)}
           Got(j) == IF Says(td, j) THEN b[2 + o + Cardinality(S(j))] ELSE Absent
<1>2. /\ Says(td, 4) <=> Present(l.ta)
      /\ Says(td, 5) <=> Present(l.tb)
      /\ Says(td, 6) <=> Present(l.tc)
      /\ Says(td, 7) <=> Present(l.td)
  BY AnnouncedLevel
<1>3. \A k \in 1..Len(s) : b[2 + o + k] = s[k]
  OBVIOUS
<1>4. /\ l \in Level
      /\ Cardinality(S(4)) = One(l.ta)
      /\ Cardinality(S(5)) = One(l.ta) + One(l.tb)
      /\ Cardinality(S(6)) = One(l.ta) + One(l.tb) + One(l.tc)
      /\ Cardinality(S(7)) = One(l.ta) + One(l.tb) + One(l.tc) + One(l.td)
  BY LevelCounted
<1> HIDE DEF td, l
<1>6. /\ s \in Seq(Byte)
      /\ Len(s) = One(l.ta) + One(l.tb) + One(l.tc) + One(l.td)
      /\ Present(l.ta) => s[1] = l.ta
      /\ Present(l.tb) => s[One(l.ta) + 1] = l.tb
      /\ Present(l.tc) => s[One(l.ta) + One(l.tb) + 1] = l.tc
      /\ Present(l.td) => s[One(l.ta) + One(l.tb) + One(l.tc) + 1] = l.td
  BY <1>4, LevelBytes
<1>7. /\ One(l.ta) \in {0, 1} /\ One(l.tb) \in {0, 1} /\ One(l.tc) \in {0, 1} /\ One(l.td) \in {0, 1}
      /\ Present(l.ta) <=> One(l.ta) = 1
      /\ Present(l.tb) <=> One(l.tb) = 1
      /\ Present(l.tc) <=> One(l.tc) = 1
      /\ Present(l.td) <=> One(l.td) = 1
  BY OneFacts
<1> HIDE DEF s, S
<1>8. ASSUME NEW j, NEW v, Says(td, j) <=> Present(v),
              Present(v) => Cardinality(S(j)) \in 1..Len(s) /\ s[Cardinality(S(j))] = v
       PROVE  Got(j) = v
  BY <1>3, <1>8 DEF Present
<1> HIDE DEF Got
<1>9. Got(4) = l.ta
  <2>1. Present(l.ta) => /\ Cardinality(S(4)) \in 1..Len(s)
                       /\ s[Cardinality(S(4))] = l.ta
    BY <1>4, <1>6, <1>7
  <2> QED
    BY <1>2, <1>8, <2>1
<1>10. Got(5) = l.tb
  <2>1. Present(l.tb) => /\ Cardinality(S(5)) \in 1..Len(s)
                       /\ s[Cardinality(S(5))] = l.tb
    BY <1>4, <1>6, <1>7
  <2> QED
    BY <1>2, <1>8, <2>1
<1>11. Got(6) = l.tc
  <2>1. Present(l.tc) => /\ Cardinality(S(6)) \in 1..Len(s)
                       /\ s[Cardinality(S(6))] = l.tc
    BY <1>4, <1>6, <1>7
  <2> QED
    BY <1>2, <1>8, <2>1
<1>12. Got(7) = l.td
  <2>1. Present(l.td) => /\ Cardinality(S(7)) \in 1..Len(s)
                       /\ s[Cardinality(S(7))] = l.td
    BY <1>4, <1>6, <1>7
  <2> QED
    BY <1>2, <1>8, <2>1
<1>13. ReadLevel(b, td, 2 + o) = [ta |-> Got(4), tb |-> Got(5), tc |-> Got(6), td |-> Got(7)]
  BY DEF ReadLevel, Got, S
<1>14. ReadLevel(b, td, 2 + o) = l
  BY <1>4, <1>9, <1>10, <1>11, <1>12, <1>13 DEF Level
<1> QED
  BY <1>14 DEF l, td

\* A beginning of a sequence.
Begins(p, b) == Len(p) \in Nat /\ Len(p) <= Len(b) /\ \A j \in 1..Len(p) : p[j] = b[j]

\* About the numbers of levels.
LEMMA LevelNumbers ==
  ASSUME NEW L \in 1..7, NEW m \in 1..L
  PROVE  /\ m - 1 \in 0..L - 1 /\ m - 1 + 1 = m /\ m - 1 \in 0..L /\ m \in 0..L /\ m \in 1..7
         /\ m = 7 => ~(m < L)
         /\ \A i \in 1..m - 1 : i \in 1..L
  OBVIOUS

\* About the places of bytes.
LEMMA PlaceWithin ==
  ASSUME NEW o \in Nat, NEW n \in Nat, NEW len \in Nat, NEW k \in 1..n, 2 + (o + n) <= len
  PROVE  2 + o + k \in 1..len
  OBVIOUS

\* One pass, over the card's bytes or a beginning of them: it reads the level if all
\* of it is there, otherwise the bytes are refused.
LEMMA PassReads ==
  ASSUME NEW c, IsoLevels(c), NEW hbn \in 0..15, NEW b \in Seq(Byte), NEW off, Placed(c, hbn, b, off),
         NEW p, Begins(p, b), NEW m \in 1..Len(c)
  PROVE  LET s == NextLevel(p, ReadUpTo(c, hbn, off, m - 1), m)
         IN  /\ off[m - 1] <= off[m]
             /\ 2 + off[m] <= Len(p) => s = ReadUpTo(c, hbn, off, m)
             /\ ~(2 + off[m] <= Len(p)) => s.good = FALSE
<1> DEFINE q == m - 1
           r == ReadUpTo(c, hbn, off, q)
           td == Announcing(c, hbn, q)
           l == Complete(c)[m]
           o == off[q]
<1>0. Len(c) \in 1..7
  BY CompleteLevels DEF MaxProtocols
<1>1. /\ Len(c) \in 1..7 /\ q \in 0..Len(c) - 1 /\ q + 1 = m /\ q \in 0..Len(c)
      /\ m \in 0..Len(c) /\ m \in 1..7
      /\ m = 7 => ~(m < Len(c))
      /\ \A i \in 1..q : i \in 1..Len(c)
  BY <1>0, LevelNumbers
<1>2. o \in Nat /\ off[m] \in Nat /\ off[m] = o + Len(BytesOf(l))
  BY <1>1 DEF Placed
<1> HIDE DEF q
<1>3. l \in Level
  BY CompleteLevels
<1>4. Len(BytesOf(l)) \in Nat
  BY <1>3, LevelBytes, LenProperties
<1>5. Present(td)
  BY <1>1, AnnouncedLevel
<1>6. NumIb(td) = Len(BytesOf(l))
  <2>1. NumIb(Announcing(c, hbn, q)) = Len(BytesOf(Complete(c)[q + 1]))
    BY <1>1, LevelCounted
  <2> QED
    BY <1>1, <2>1
<1>7. r.td = td /\ r.read = 2 + o /\ r.good = TRUE
  BY DEF ReadUpTo
<1>8. r.read + NumIb(r.td) = 2 + off[m]
  BY <1>2, <1>4, <1>6, <1>7
<1>9. CASE ~(2 + off[m] <= Len(p))
  <2>1. r.read + NumIb(r.td) > Len(p)
    BY <1>2, <1>8, <1>9 DEF Begins
  <2>2. NextLevel(p, r, m) = [r EXCEPT !.good = FALSE]
    BY <1>5, <1>7, <2>1 DEF NextLevel
  <2>3. NextLevel(p, r, m).good = FALSE
    BY <2>2 DEF ReadUpTo
  <2>4. o <= off[m]
    BY <1>2, <1>4
  <2> QED
    BY <1>9, <2>3, <2>4 DEF q
<1>10. CASE 2 + off[m] <= Len(p)
  <2>1. ~(r.read + NumIb(r.td) > Len(p))
    BY <1>2, <1>8, <1>10 DEF Begins
  <2>2. \A k \in 1..Len(BytesOf(l)) : p[2 + o + k] = BytesOf(l)[k]
    <3> SUFFICES ASSUME NEW k \in 1..Len(BytesOf(l)) PROVE p[2 + o + k] = BytesOf(l)[k]
      OBVIOUS
    <3>1. b[2 + o + k] = BytesOf(l)[k]
      BY DEF Placed, q
    <3>2. 2 + o + k \in 1..Len(p)
      <4>1. /\ o \in Nat /\ Len(BytesOf(l)) \in Nat /\ Len(p) \in Nat
            /\ 2 + (o + Len(BytesOf(l))) <= Len(p)
        BY <1>2, <1>4, <1>10 DEF Begins
      <4> QED
        BY <4>1, PlaceWithin
    <3> QED
      BY <3>1, <3>2 DEF Begins
  <2>3. ReadLevel(p, td, 2 + o) = l
    BY <1>1, <1>2, <2>2, LevelRead
  <2>4. NextLevel(p, r, m) = [ib |-> Append(r.ib, l), td |-> l.td, read |-> 2 + off[m],
                              good |-> ~(Present(l.td) /\ m = MaxProtocols)]
    BY <1>5, <1>7, <1>8, <2>1, <2>3 DEF NextLevel
  <2>5. Append(r.ib, l) = [i \in 1..m |-> Complete(c)[i]]
    <3>1. r.ib = [i \in 1..q |-> Complete(c)[i]]
      BY DEF ReadUpTo
    <3>2. \A i \in 1..q : Complete(c)[i] \in Level
      BY <1>1, CompleteLevels
    <3> DEFINE ib == [i \in 1..q |-> Complete(c)[i]]
    <3>3. ib \in Seq(Level) /\ Len(ib) = q /\ \A i \in 1..q : ib[i] = Complete(c)[i]
      BY <1>1, <3>2
    <3> DEFINE t == Append(ib, l)
    <3> HIDE DEF ib
    <3>4. /\ t \in Seq(Level) /\ Len(t) = Len(ib) + 1
          /\ \A i \in 1..Len(ib) : t[i] = ib[i]
          /\ t[Len(ib) + 1] = l
      BY <1>3, <3>3, AppendProperties
    <3> HIDE DEF t
    <3>5. t = [i \in 1..Len(t) |-> t[i]] /\ Len(t) = m
      <4>1. t \in [1..Len(t) -> Level]
        BY <3>4, LenProperties
      <4> QED
        BY <1>1, <3>3, <3>4, <4>1
    <3>6. \A i \in 1..m : t[i] = Complete(c)[i]
      BY <1>1, <3>3, <3>4
    <3>7. t = [i \in 1..m |-> Complete(c)[i]]
      BY <3>5, <3>6
    <3> QED
      BY <3>1, <3>7 DEF t, ib
  <2>6. l.td = Announcing(c, hbn, m)
    BY <1>1 DEF Announcing
  <2>7. ~(Present(l.td) /\ m = MaxProtocols)
    <3>1. m = MaxProtocols => ~(m < Len(c))
      BY <1>1 DEF MaxProtocols
    <3>2. ~(m < Len(c)) => l.td = Absent
      BY CompleteLevels
    <3> QED
      BY <3>1, <3>2 DEF Present
  <2>8. NextLevel(p, r, m) = ReadUpTo(c, hbn, off, m)
    BY <2>4, <2>5, <2>6, <2>7 DEF ReadUpTo
  <2>9. o <= off[m]
    BY <1>2, <1>4
  <2> QED
    BY <1>10, <2>8, <2>9 DEF q
<1> QED
  BY <1>9, <1>10

\* A pass after the last level, or after the refusal, changes nothing.
LEMMA PassRests ==
  ASSUME NEW p, NEW s, NEW n, s.good = FALSE \/ ~Present(s.td)
  PROVE  NextLevel(p, s, n) = s
  BY DEF NextLevel

\* LevelsAfter(b) is what its definition says: there is such a function.
LEMMA LevelSteps ==
  ASSUME NEW b
  PROVE  /\ LevelsAfter(b)[0] = [ib |-> <<>>, td |-> b[2], read |-> 2, good |-> TRUE]
         /\ \A n \in 1..MaxProtocols : LevelsAfter(b)[n] = NextLevel(b, LevelsAfter(b)[n - 1], n)
<1> DEFINE first == [ib |-> <<>>, td |-> b[2], read |-> 2, good |-> TRUE]
           G(h, k) == h = [n \in 0..k |-> IF n = 0 THEN first ELSE NextLevel(b, h[n - 1], n)]
           S == {k \in Nat : \E h : G(h, k)}
<1>1. 0 \in S
  <2> DEFINE h == [n \in 0..0 |-> first]
  <2>1. G(h, 0)
    OBVIOUS
  <2> HIDE DEF G, h
  <2> QED
    BY <2>1
<1>2. ASSUME NEW k \in Nat, k \in S
      PROVE  k + 1 \in S
  <2>1. PICK h : G(h, k)
    BY <1>2
  <2> DEFINE h2 == [n \in 0..k + 1 |-> IF n = k + 1 THEN NextLevel(b, h[k], k + 1) ELSE h[n]]
  <2>2. ASSUME NEW n \in 0..k + 1
        PROVE  h2[n] = IF n = 0 THEN first ELSE NextLevel(b, h2[n - 1], n)
    <3>1. CASE n = k + 1
      <4>1. n # 0 /\ n - 1 = k /\ k \in 0..k + 1 /\ k # k + 1
        BY <3>1
      <4>2. h2[n] = NextLevel(b, h[k], k + 1) /\ h2[n - 1] = h[k]
        BY <3>1, <4>1
      <4> QED
        BY <3>1, <4>1, <4>2
    <3>2. CASE n # k + 1
      <4>1. n \in 0..k /\ h2[n] = h[n]
        BY <3>2
      <4>2. h[n] = IF n = 0 THEN first ELSE NextLevel(b, h[n - 1], n)
        BY <2>1, <4>1
      <4>3. n # 0 => n - 1 \in 0..k + 1 /\ n - 1 # k + 1
        BY <4>1
      <4> QED
        BY <4>1, <4>2, <4>3
    <3> QED
      BY <3>1, <3>2
  <2>3. h2 = [n \in 0..k + 1 |-> h2[n]]
    OBVIOUS
  <2>4. G(h2, k + 1)
    <3> HIDE DEF h2
    <3> QED
      BY <2>2, <2>3
  <2> HIDE DEF G, h2
  <2> QED
    BY <2>4
<1>3. MaxProtocols \in S
  <2> HIDE DEF S
  <2> QED
    BY <1>1, <1>2, NatByLeast DEF MaxProtocols
<1>4. LevelsAfter(b) = CHOOSE h : G(h, MaxProtocols)
  BY DEF LevelsAfter
<1>5. \E h : G(h, MaxProtocols)
  BY <1>3
<1> HIDE DEF G
<1>6. G(LevelsAfter(b), MaxProtocols)
  BY <1>4, <1>5
<1> DEFINE f == LevelsAfter(b)
<1>7. f = [n \in 0..7 |-> IF n = 0 THEN first ELSE NextLevel(b, f[n - 1], n)]
  BY <1>6 DEF G, MaxProtocols
<1> HIDE DEF f, first
<1>8. f[0] = first /\ \A n \in 1..7 : f[n] = NextLevel(b, f[n - 1], n)
  BY <1>7
<1> QED
  BY <1>8 DEF f, first, MaxProtocols

\* The whole loop over the card's bytes or a beginning of them.
LEMMA LevelsOf ==
  ASSUME NEW c, IsoLevels(c), NEW hbn \in 0..15, NEW b \in Seq(Byte), NEW off, Placed(c, hbn, b, off),
         NEW p, Begins(p, b), Len(p) >= 2
  PROVE  /\ 2 + off[Len(c)] <= Len(p) => Levels(p) = ReadUpTo(c, hbn, off, Len(c))
         /\ ~(2 + off[Len(c)] <= Len(p)) => Levels(p).good = FALSE
<1> DEFINE L == Len(c)
           s == LevelsAfter(p)
           P(m) == /\ 2 + off[m] <= Len(p) => s[m] = ReadUpTo(c, hbn, off, m)
                   /\ ~(2 + off[m] <= Len(p)) => s[m].good = FALSE
           Q(m) == /\ 2 + off[L] <= Len(p) => s[m] = ReadUpTo(c, hbn, off, L)
                   /\ ~(2 + off[L] <= Len(p)) => s[m].good = FALSE
           S == {m \in Nat : /\ m \in 0..L => P(m)
                             /\ m \in L..7 => Q(m)}
<1>0. L \in 1..7 /\ L \in Nat
  BY CompleteLevels DEF MaxProtocols
<1> HIDE DEF L
<1>1. /\ s[0] = [ib |-> <<>>, td |-> p[2], read |-> 2, good |-> TRUE]
      /\ \A n \in 1..7 : s[n] = NextLevel(p, s[n - 1], n)
  BY LevelSteps DEF MaxProtocols
<1> HIDE DEF s
<1>2. P(0)
  <2>1. off[0] = 0 /\ p[2] = Announcing(c, hbn, 0)
    <3>1. 2 \in 1..Len(p)
      BY DEF Begins
    <3> QED
      BY <3>1 DEF Placed, Begins, Announcing
  <2>2. [i \in 1..0 |-> Complete(c)[i]] = <<>>
    OBVIOUS
  <2>3. s[0] = ReadUpTo(c, hbn, off, 0)
    BY <1>1, <2>1, <2>2 DEF ReadUpTo
  <2>4. 2 + off[0] <= Len(p)
    BY <2>1
  <2> QED
    BY <2>3, <2>4
<1>3. ASSUME NEW m \in 1..L, P(m - 1)
      PROVE  P(m)
  <2>1. s[m] = NextLevel(p, s[m - 1], m)
    BY <1>0, <1>1
  <2>2. LET r == NextLevel(p, ReadUpTo(c, hbn, off, m - 1), m)
        IN  /\ off[m - 1] <= off[m]
            /\ 2 + off[m] <= Len(p) => r = ReadUpTo(c, hbn, off, m)
            /\ ~(2 + off[m] <= Len(p)) => r.good = FALSE
    BY ZenonT(30), PassReads DEF L
  <2>3. off[m - 1] \in Nat /\ off[m] \in Nat /\ Len(p) \in Nat
    <3>1. m - 1 \in 0..L /\ m \in 0..L
      BY <1>0
    <3> QED
      BY <3>1 DEF Placed, Begins, L
  <2>4. CASE 2 + off[m - 1] <= Len(p)
    BY <1>3, <2>1, <2>2, <2>4
  <2>5. CASE ~(2 + off[m - 1] <= Len(p))
    <3>1. s[m - 1].good = FALSE
      BY <1>3, <2>5
    <3>2. s[m] = s[m - 1]
      BY <2>1, <3>1, PassRests
    <3>3. ~(2 + off[m] <= Len(p))
      BY <2>2, <2>3, <2>5
    <3> QED
      BY <3>1, <3>2, <3>3
  <2> QED
    BY <2>4, <2>5
<1>4. P(L) <=> Q(L)
  OBVIOUS
<1>5. ASSUME NEW m \in L + 1..7, Q(m - 1)
      PROVE  Q(m)
  <2>1. s[m] = NextLevel(p, s[m - 1], m)
    BY <1>0, <1>1
  <2>2. s[m - 1].good = FALSE \/ ~Present(s[m - 1].td)
    <3>1. CASE 2 + off[L] <= Len(p)
      <4>1. s[m - 1].td = Announcing(c, hbn, L)
        BY <1>5, <3>1 DEF ReadUpTo
      <4>2. Announcing(c, hbn, L) = Absent
        <5>1. L # 0 /\ L \in 1..L /\ ~(L < L)
          BY <1>0
        <5> QED
          BY <5>1, CompleteLevels DEF Announcing, L
      <4> QED
        BY <4>1, <4>2 DEF Present
    <3>2. CASE ~(2 + off[L] <= Len(p))
      BY <1>5, <3>2
    <3> QED
      BY <3>1, <3>2
  <2>3. s[m] = s[m - 1]
    BY <2>1, <2>2, PassRests
  <2> QED
    BY <1>5, <2>3
<1> HIDE DEF P, Q
<1>6. 0 \in S
  BY <1>0, <1>2
<1>7. ASSUME NEW n \in Nat, n \in S
      PROVE  n + 1 \in S
  <2> DEFINE m == n + 1
  <2>1. m - 1 = n /\ m \in Nat
    OBVIOUS
  <2>2. /\ m \in 0..L => m \in 1..L /\ n \in 0..L
        /\ m \in L..7 => m = L \/ (m \in L + 1..7 /\ n \in L..7)
        /\ L \in 0..L
    BY <1>0
  <2> HIDE DEF m
  <2>3. m \in 0..L => P(m)
    BY <1>3, <1>7, <2>1, <2>2
  <2>4. m \in L..7 => Q(m)
    BY <1>4, <1>5, <1>7, <2>1, <2>2, <2>3
  <2>5. m \in S
    BY <2>1, <2>3, <2>4
  <2> QED
    BY <2>5 DEF m
<1>8. 7 \in S
  <2> HIDE DEF S
  <2> QED
    BY <1>6, <1>7, NatByLeast
<1>9. Q(7)
  BY <1>0, <1>8
<1> QED
  BY <1>9 DEF Q, s, L, Levels, MaxProtocols

\* The greatest of the first numbers is the last.
LEMMA LastOf ==
  ASSUME NEW n \in Nat \ {0}
  PROVE  Max(1..n) = n
<1> DEFINE P(x) == x \in 1..n /\ \A y \in 1..n : x >= y
<1>1. Max(1..n) = CHOOSE x \in 1..n : \A y \in 1..n : x >= y
  BY DEF Max
<1>2. P(n)
  OBVIOUS
<1>3. P(CHOOSE x : P(x))
  BY <1>2
<1>4. Max(1..n) = CHOOSE x : P(x)
  BY <1>1
<1> QED
  BY <1>3, <1>4

\* A card's last TDi names the highest of its protocols.
LEMMA TckNeeded ==
  ASSUME NEW c, IsoLevels(c)
  PROVE  /\ Len(Complete(c)) = Len(c) /\ TdLevels(Complete(c)) = 1..Len(c) - 1
         /\ HasTCK(Complete(c)) <=> NeedsTCK(c)
<1> DEFINE L == Len(c)
           C == Complete(c)
<1>1. L \in 1..7
  BY CompleteLevels DEF MaxProtocols
<1>2. C \in [1..L -> Level] /\ Len(C) = L
  BY <1>1, CompleteLevels
<1>3. \A i \in 1..L : Present(c[i].td) <=> i < L
  BY DEF IsoLevels
<1>4. \A i \in 1..L - 1 : c[i].td \in 0..15 /\ C[i].td \in MaybeByte
  <2>1. \A i \in 1..L - 1 : i \in 1..L /\ i < L
    BY <1>1
  <2> HIDE DEF C
  <2> QED
    BY <1>2, <2>1, CompleteLevels DEF Level
<1>5. \A i \in 1..L : Present(C[i].td) <=> i < L
  <2> SUFFICES ASSUME NEW i \in 1..L PROVE Present(C[i].td) <=> i < L
    OBVIOUS
  <2>1. CASE i < L
    <3>1. i + 1 \in 1..L /\ i \in 1..L - 1
      BY <1>1, <2>1
    <3>2. c[i].td \in 0..15 /\ c[i + 1] \in Level
      BY <1>4, <3>1, CompleteLevels
    <3>3. C[i].td = c[i].td + PresenceBits(c[i + 1])
      BY <2>1, CompleteLevels
    <3>4. c[i].td + PresenceBits(c[i + 1]) \in Byte
      BY <3>2, PresenceSays
    <3> HIDE DEF C
    <3> QED
      BY <2>1, <3>3, <3>4, BytesThere
  <2>2. CASE ~(i < L)
    <3>1. C[i].td = Absent
      BY <2>2, CompleteLevels
    <3> HIDE DEF C
    <3> QED
      BY <2>2, <3>1 DEF Present
  <2> QED
    BY <2>1, <2>2
<1>6. TdLevels(C) = 1..L - 1
  <2>1. \A i : i \in 1..L - 1 <=> i \in 1..L /\ i < L
    BY <1>1
  <2>2. TdLevels(C) = {i \in 1..L : Present(C[i].td)}
    BY <1>2 DEF TdLevels
  <2> HIDE DEF C, L
  <2>3. \A i : i \in TdLevels(C) <=> i \in 1..L - 1
    BY <1>5, <2>1, <2>2
  <2> QED
    BY <2>3
<1>7. CASE L = 1
  <2>1. 1..L - 1 = {}
    BY <1>7
  <2>2. ~HasTCK(C)
    BY <1>6, <2>1 DEF HasTCK
  <2>3. ~NeedsTCK(c)
    <3>1. \A i \in 1..L : ~(i < L)
      BY <1>7
    <3> QED
      BY <1>3, <3>1 DEF NeedsTCK
  <2> QED
    BY <1>2, <1>6, <2>2, <2>3
<1>8. CASE L # 1
  <2> DEFINE n == L - 1
  <2>1. n \in Nat \ {0} /\ n \in 0..L - 1 /\ n \in 1..L /\ n \in 1..n /\ n < L
    <3> HIDE DEF L
    <3> QED
      BY <1>1, <1>8
  <2>2. Max(1..n) = n
    BY <2>1, LastOf
  <2>3. LowBits(C[n].td) = c[n].td
    <3>1. Announcing(c, 0, n) = C[n].td
      BY <2>1 DEF Announcing
    <3>2. LowBits(Announcing(c, 0, n)) = c[n].td
      BY <2>1, AnnouncedLevel, 0 \in 0..15
    <3> QED
      BY <3>1, <3>2
  <2>4. HasTCK(C) <=> c[n].td # 0
    BY <1>6, <2>1, <2>2, <2>3 DEF HasTCK
  <2>5. \A i \in 1..n : c[i].td <= c[n].td
    <3> SUFFICES ASSUME NEW i \in 1..n PROVE c[i].td <= c[n].td
      OBVIOUS
    <3>1. CASE i = n
      <4>1. c[n].td \in 0..15
        BY <1>4, <2>1
      <4> QED
        BY <3>1, <4>1
    <3>2. CASE i # n
      <4>1. i < n
        BY <2>1, <3>2
      <4> QED
        BY <2>1, <4>1 DEF IsoLevels
    <3> QED
      BY <3>1, <3>2
  <2>6. c[n].td # 0 <=> NeedsTCK(c)
    <3>1. ASSUME c[n].td # 0 PROVE NeedsTCK(c)
      BY <1>3, <2>1, <3>1 DEF NeedsTCK
    <3>2. ASSUME NeedsTCK(c) PROVE c[n].td # 0
      <4>1. PICK i \in 1..L : i < L /\ c[i].td # 0
        BY <1>3, <3>2 DEF NeedsTCK
      <4>2. i \in 1..n
        BY <1>1, <4>1
      <4>3. c[i].td \in 0..15 /\ c[n].td \in 0..15 /\ c[i].td <= c[n].td
        BY <1>4, <2>1, <2>5, <4>2
      <4> QED
        BY <4>1, <4>3
    <3> QED
      BY <3>1, <3>2
  <2> QED
    BY <1>2, <1>6, <2>4, <2>6
<1> QED
  BY <1>7, <1>8

\* The card's bytes are taken for what they are.
LEMMA WholeRead ==
  ASSUME NEW c, IsoLevels(c), NEW hbn \in 0..15, NEW b \in Seq(Byte), NEW off, Placed(c, hbn, b, off)
  PROVE  InitFromArray(b) =
           [ok |-> TRUE,
            ib |-> [i \in 1..MaxProtocols |-> IF i <= Len(c) THEN Complete(c)[i] ELSE NoLevel],
            hbn |-> hbn, hasTCK |-> HasTCK(Complete(c)), length |-> Len(b)]
<1> DEFINE L == Len(c)
           C == Complete(c)
           s == Levels(b)
           more == IF HasTCK(C) THEN 1 ELSE 0
<1>1. L \in 1..7 /\ C = [i \in 1..L |-> C[i]] /\ Len(C) = L
  <2>1. C = [i \in 1..L |-> C[i]]
    BY CompleteLevels
  <2> QED
    BY <2>1, CompleteLevels, TckNeeded DEF MaxProtocols
<1>2. off[L] \in Nat /\ Len(b) \in Nat /\ Len(b) = 2 + off[L] + hbn + more
  <2>1. L \in 0..L
    BY <1>1
  <2>2. off[L] \in Nat /\ Len(b) = 2 + off[L] + hbn + (IF NeedsTCK(c) THEN 1 ELSE 0)
    BY <2>1 DEF Placed
  <2>3. HasTCK(C) <=> NeedsTCK(c)
    BY TckNeeded
  <2> QED
    BY <2>2, <2>3
<1>3. more \in {0, 1}
  OBVIOUS
<1>4. 2 <= Len(b) /\ 2 + off[L] <= Len(b)
  <2> HIDE DEF more, L
  <2> QED
    BY <1>2, <1>3
<1>5. Begins(b, b)
  BY <1>2 DEF Begins
<1>6. s = ReadUpTo(c, hbn, off, L)
  BY <1>2, <1>4, <1>5, LevelsOf
<1>7. LowBits(b[2]) = hbn
  <2>1. b[2] = Announcing(c, hbn, 0)
    BY DEF Placed, Announcing
  <2>2. 0 \in 0..L - 1
    <3> HIDE DEF L
    <3> QED
      BY <1>1
  <2> QED
    BY <2>1, <2>2, AnnouncedLevel
<1>8. s.ib = C /\ s.good = TRUE /\ s.read = 2 + off[L]
  BY <1>1, <1>6 DEF ReadUpTo
<1> HIDE DEF s, C
<1>9. s.read + LowBits(b[2]) + (IF HasTCK(s.ib) THEN 1 ELSE 0) = Len(b)
  BY <1>2, <1>7, <1>8
<1>10. ~(Len(b) < 2) /\ ~(Len(b) > Len(b))
  BY <1>2, <1>4
<1>11. InitFromArray(b) =
         [ok |-> TRUE,
          ib |-> [i \in 1..MaxProtocols |-> IF i <= Len(s.ib) THEN s.ib[i] ELSE NoLevel],
          hbn |-> LowBits(b[2]), hasTCK |-> HasTCK(s.ib), length |-> Len(b)]
  BY <1>8, <1>9, <1>10 DEF InitFromArray, s
<1> QED
  BY <1>1, <1>7, <1>8, <1>11 DEF C

\* A beginning of them is not taken for the whole.
LEMMA PartRefused ==
  ASSUME NEW c, IsoLevels(c), NEW hbn \in 0..15, NEW b \in Seq(Byte), NEW off, Placed(c, hbn, b, off),
         NEW p, Begins(p, b), Len(p) < Len(b)
  PROVE  ~InitFromArray(p).ok
<1> DEFINE L == Len(c)
           C == Complete(c)
           s == Levels(p)
           more == IF HasTCK(C) THEN 1 ELSE 0
<1>0. ~Malformed.ok
  BY DEF Malformed
<1>1. CASE Len(p) < 2
  BY <1>0, <1>1 DEF InitFromArray
<1>2. CASE ~(Len(p) < 2)
  <2>1. L \in 1..7 /\ C = [i \in 1..L |-> C[i]]
    <3>1. C = [i \in 1..L |-> C[i]]
      BY CompleteLevels
    <3> QED
      BY <3>1, CompleteLevels DEF MaxProtocols
  <2>2. off[L] \in Nat /\ Len(b) = 2 + off[L] + hbn + more
    <3>1. L \in 0..L
      BY <2>1
    <3>2. off[L] \in Nat /\ Len(b) = 2 + off[L] + hbn + (IF NeedsTCK(c) THEN 1 ELSE 0)
      BY <3>1 DEF Placed
    <3>3. HasTCK(C) <=> NeedsTCK(c)
      BY TckNeeded
    <3> QED
      BY <3>2, <3>3
  <2>3. Len(p) >= 2 /\ Len(p) \in Nat
    BY <1>2 DEF Begins
  <2>4. LowBits(p[2]) = hbn
    <3>1. 2 \in 1..Len(p)
      BY <2>3
    <3>2. p[2] = Announcing(c, hbn, 0)
      BY <3>1 DEF Placed, Begins, Announcing
    <3>3. 0 \in 0..L - 1
      <4> HIDE DEF L
      <4> QED
        BY <2>1
    <3> QED
      BY <3>2, <3>3, AnnouncedLevel
  <2>5. CASE 2 + off[L] <= Len(p)
    <3>1. s = ReadUpTo(c, hbn, off, L)
      BY <2>3, <2>5, LevelsOf
    <3>2. s.ib = C /\ s.read = 2 + off[L]
      BY <2>1, <3>1 DEF ReadUpTo
    <3> HIDE DEF s, C
    <3>3. s.read + LowBits(p[2]) + (IF HasTCK(s.ib) THEN 1 ELSE 0) = Len(b)
      BY <2>2, <2>4, <3>2
    <3>4. Len(b) > Len(p)
      BY <2>3
    <3>5. InitFromArray(p) = Malformed
      BY <1>2, <3>3, <3>4 DEF InitFromArray, s
    <3> QED
      BY <1>0, <3>5
  <2>6. CASE ~(2 + off[L] <= Len(p))
    <3>1. s.good = FALSE
      BY <2>3, <2>6, LevelsOf
    <3>2. InitFromArray(p) = Malformed
      BY <1>2, <3>1 DEF InitFromArray
    <3> QED
      BY <1>0, <3>2
  <2> QED
    BY <2>5, <2>6
<1> QED
  BY <1>1, <1>2

-----------------------------------------------------------------------------
(* Driver and card draw the same conclusions                               *)

\* Two conditions that imply each other are one truth value.
LEMMA SameTruth ==
  ASSUME NEW p \in BOOLEAN, NEW q \in BOOLEAN, p <=> q
  PROVE  p = q
  OBVIOUS

\* A set of numbers has its least in it.
LEMMA LeastIn ==
  ASSUME NEW S \in SUBSET Nat, S # {}
  PROVE  Min(S) \in S /\ \A y \in S : Min(S) <= y
<1> DEFINE P(x) == x \in S /\ \A y \in S : x <= y
<1>1. IsWellFoundedOn(OpToRel(<, Nat), Nat)
  BY NatLessThanWellFounded
<1>2. PICK x \in S : \A y \in S : ~(<<y, x>> \in OpToRel(<, Nat))
  BY <1>1, WFMin
<1>3. P(x)
  <2> SUFFICES ASSUME NEW y \in S PROVE x <= y
    OBVIOUS
  <2>1. ~(y < x)
    BY <1>2 DEF OpToRel
  <2> QED
    BY <2>1
<1>4. Min(S) = CHOOSE z : P(z)
  BY DEF Min
<1>5. P(CHOOSE z : P(z))
  BY <1>3
<1> QED
  BY <1>4, <1>5

\* The less of two numbers.
LEMMA LeastOfTwo ==
  ASSUME NEW x \in Int, NEW y \in Int
  PROVE  Min({x, y}) = IF x <= y THEN x ELSE y
<1> DEFINE P(z) == z \in {x, y} /\ \A w \in {x, y} : z <= w
           m == IF x <= y THEN x ELSE y
<1>1. P(m) /\ \A z : P(z) => z = m
  OBVIOUS
<1>2. Min({x, y}) = CHOOSE z : P(z)
  BY DEF Min
<1> HIDE DEF P, m
<1>3. P(CHOOSE z : P(z))
  BY <1>1
<1> QED
  BY <1>1, <1>2, <1>3 DEF m

\* The levels the driver keeps of a card: those of the card, then none.
Kept(c) == [i \in 1..MaxProtocols |-> IF i <= Len(c) THEN Complete(c)[i] ELSE NoLevel]

\* What is kept of each level is the card's, but for the TDi, which says more.
LEMMA KeptLevels ==
  ASSUME NEW c, IsoLevels(c)
  PROVE  /\ Len(c) \in 1..7 /\ Kept(c) \in Seq(Level) /\ Len(Kept(c)) = 7
         /\ \A i \in 1..Len(c) :
              /\ i \in 1..7 /\ c[i] \in Level
              /\ Kept(c)[i] = Complete(c)[i]
              /\ Kept(c)[i].ta = c[i].ta /\ Kept(c)[i].tb = c[i].tb /\ Kept(c)[i].tc = c[i].tc
         /\ \A i \in 1..7 : ~(i \in 1..Len(c)) => Kept(c)[i] = NoLevel
         /\ \A i \in 1..Len(c) - 1 : LowBits(Kept(c)[i].td) = c[i].td
         /\ \A i \in 1..7 : Present(Kept(c)[i].td) <=> i \in 1..Len(c) - 1
<1> DEFINE L == Len(c)
           C == Complete(c)
           K == Kept(c)
<1>1. L \in 1..7 /\ C \in [1..L -> Level] /\ \A i \in 1..L : i \in 1..7 /\ i <= L
  <2>1. L \in 1..7 /\ C \in [1..L -> Level]
    BY CompleteLevels DEF MaxProtocols
  <2> HIDE DEF L
  <2>2. \A i \in 1..L : i \in 1..7 /\ i <= L
    BY <2>1
  <2> QED
    BY <2>1, <2>2
<1>2. NoLevel \in Level
  BY DEF NoLevel, Level, MaybeByte
<1>3. \A i \in 1..7 : ~(i \in 1..L) => ~(i <= L)
  <2> HIDE DEF L
  <2> QED
    BY <1>1
<1>4. \A i \in 1..7 : K[i] = IF i <= L THEN C[i] ELSE NoLevel
  BY DEF Kept, MaxProtocols
<1>5. \A i \in 1..7 : i <= L => i \in 1..L
  <2> HIDE DEF L
  <2> QED
    BY <1>1
<1>6. \A i \in 1..7 : K[i] \in Level
  <2> HIDE DEF K, C, L
  <2> QED
    BY <1>1, <1>2, <1>4, <1>5
<1>7. K \in Seq(Level) /\ Len(K) = 7
  <2>1. K = [i \in 1..7 |-> K[i]]
    BY DEF Kept, MaxProtocols
  <2> HIDE DEF K
  <2> QED
    BY <1>6, <2>1
<1>8. \A i \in 1..L : K[i] = C[i] /\ K[i].ta = c[i].ta /\ K[i].tb = c[i].tb /\ K[i].tc = c[i].tc
  <2>1. \A i \in 1..L : K[i] = C[i]
    <3> HIDE DEF K, C, L
    <3> QED
      BY <1>1, <1>4
  <2>2. \A i \in 1..L : C[i].ta = c[i].ta /\ C[i].tb = c[i].tb /\ C[i].tc = c[i].tc
    BY CompleteLevels
  <2> HIDE DEF K, C
  <2> QED
    BY <2>1, <2>2
<1>9. \A i \in 1..7 : ~(i \in 1..L) => K[i] = NoLevel
  BY <1>3, <1>4
<1>10. \A i \in 1..L - 1 : i \in 1..L /\ i \in 0..L - 1 /\ i # 0
  <2> HIDE DEF L
  <2> QED
    BY <1>1
<1>11. ASSUME NEW i \in 1..L - 1 PROVE LowBits(K[i].td) = c[i].td
  <2>1. Announcing(c, 0, i) = C[i].td
    BY <1>10 DEF Announcing
  <2>2. LowBits(Announcing(c, 0, i)) = c[i].td
    BY <1>10, AnnouncedLevel, 0 \in 0..15
  <2>3. K[i] = C[i]
    BY <1>8, <1>10
  <2> QED
    BY <2>1, <2>2, <2>3
<1>12. \A i \in 1..7 : Present(K[i].td) <=> i \in 1..L - 1
  <2> SUFFICES ASSUME NEW i \in 1..7 PROVE Present(K[i].td) <=> i \in 1..L - 1
    OBVIOUS
  <2>1. CASE i \in 1..L
    <3>1. TdLevels(C) = 1..L - 1 /\ Len(C) = L
      BY TckNeeded
    <3>2. i \in TdLevels(C) <=> Present(C[i].td)
      BY <2>1, <3>1 DEF TdLevels
    <3>3. K[i] = C[i]
      BY <1>8, <2>1
    <3> HIDE DEF K, C
    <3> QED
      BY <3>1, <3>2, <3>3
  <2>2. CASE ~(i \in 1..L)
    <3>1. K[i].td = Absent
      BY <1>9, <2>2 DEF NoLevel
    <3>2. ~(i \in 1..L - 1)
      BY <1>10, <2>2
    <3> QED
      BY <3>1, <3>2 DEF Present
  <2> QED
    BY <2>1, <2>2
<1>13. \A i \in 1..L : c[i] \in Level
  BY CompleteLevels
<1> HIDE DEF K, C
<1> QED
  BY <1>1, <1>7, <1>8, <1>9, <1>11, <1>12, <1>13 DEF C, K

\* A byte of the first three kinds that the driver has of a level is the card's.
LEMMA KeptThere ==
  ASSUME NEW c, IsoLevels(c), NEW i \in 3..7
  PROVE  /\ Present(Kept(c)[i].ta) <=> i \in 3..Len(c) /\ Present(c[i].ta)
         /\ Present(Kept(c)[i].tc) <=> i \in 3..Len(c) /\ Present(c[i].tc)
<1> DEFINE L == Len(c)
<1>1. L \in 1..7
  BY KeptLevels
<1>2. i \in 1..7 /\ (i \in 1..L <=> i \in 3..L)
  <2> HIDE DEF L
  <2> QED
    BY <1>1
<1>3. CASE i \in 1..L
  BY <1>2, <1>3, KeptLevels
<1>4. CASE ~(i \in 1..L)
  <2>1. Kept(c)[i].ta = Absent /\ Kept(c)[i].tc = Absent
    BY <1>2, <1>4, KeptLevels DEF NoLevel
  <2> QED
    BY <1>2, <1>4, <2>1 DEF Present
<1> QED
  BY <1>3, <1>4

\* Mode and protocol.
LEMMA ModeUnderstood ==
  ASSUME NEW c, IsoLevels(c), NEW a, a.ib = Kept(c)
  PROVE  /\ Specific(a) <=> CardIsSpecific(c)
         /\ CardIsSpecific(c) => a.ib[2].ta = c[2].ta
         /\ GetDefaultProtocol(a) = Activated(c).protocol
<1> DEFINE L == Len(c)
           K == Kept(c)
<1>1. L \in 1..7 /\ Len(K) = 7
  BY KeptLevels
<1>2. L > 1 <=> 2 \in 1..L
  <2> HIDE DEF L
  <2> QED
    BY <1>1
<1>3. CASE L > 1
  <2>1. K[2].ta = c[2].ta
    BY <1>2, <1>3, KeptLevels
  <2>2. /\ Specific(a) <=> CardIsSpecific(c)
        /\ CardIsSpecific(c) => a.ib[2].ta = c[2].ta
    BY <1>3, <2>1 DEF Specific, CardIsSpecific
  <2>3. CASE Specific(a)
    <3>1. Activated(c).protocol = LowBits(c[2].ta)
      BY <2>2, <2>3 DEF Activated, Inserted
    <3>2. GetDefaultProtocol(a) = LowBits(a.ib[2].ta)
      BY <2>3 DEF GetDefaultProtocol
    <3> QED
      BY <2>2, <2>3, <3>1, <3>2
  <2>4. CASE ~Specific(a)
    <3>1. Activated(c).protocol = FirstProtocol(c)
      BY <2>2, <2>4 DEF Activated, Inserted
    <3>2. 1 \in 1..L - 1 /\ 1 \in 1..L /\ 1 < L
      <4> HIDE DEF L
      <4> QED
        BY <1>1, <1>3
    <3>3. LowBits(K[1].td) = c[1].td /\ Present(K[1].td) /\ Present(c[1].td)
      BY <3>2, KeptLevels DEF IsoLevels
    <3>4. TdLevels(K) \in SUBSET Nat /\ 1 \in TdLevels(K) /\ \A i \in TdLevels(K) : 1 <= i
      BY <1>1, <3>3 DEF TdLevels
    <3>5. Min(TdLevels(K)) = 1
      <4>1. Min(TdLevels(K)) \in TdLevels(K) /\ Min(TdLevels(K)) <= 1
        BY <3>4, LeastIn
      <4> QED
        BY <3>4, <4>1
    <3>6. GetDefaultProtocol(a) = LowBits(K[1].td)
      BY <2>4, <3>4, <3>5 DEF GetDefaultProtocol
    <3> QED
      BY <2>2, <3>1, <3>3, <3>6 DEF FirstProtocol
  <2> QED
    BY <2>2, <2>3, <2>4
<1>4. CASE ~(L > 1)
  <2>1. L = 1
    <3> HIDE DEF L
    <3> QED
      BY <1>1, <1>4
  <2>2. K[2].ta = Absent
    <3>1. ~(2 \in 1..L) /\ 2 \in 1..7
      BY <2>1
    <3> QED
      BY <3>1, KeptLevels DEF NoLevel
  <2>3. ~Specific(a) /\ ~CardIsSpecific(c)
    BY <1>4, <2>2 DEF Specific, CardIsSpecific, Present
  <2>4. TdLevels(K) = {}
    <3>1. \A i \in 1..7 : ~(i \in 1..L - 1)
      BY <2>1
    <3>2. \A i \in 1..7 : ~Present(K[i].td)
      BY <3>1, KeptLevels
    <3> HIDE DEF K
    <3> QED
      BY <1>1, <3>2 DEF TdLevels
  <2>5. GetDefaultProtocol(a) = 0
    BY <2>3, <2>4 DEF GetDefaultProtocol
  <2>6. ~Present(c[1].td)
    BY <2>1, 1 \in 1..1 DEF IsoLevels
  <2>7. Activated(c).protocol = 0
    BY <2>3, <2>6 DEF Activated, Inserted, FirstProtocol
  <2> QED
    BY <2>3, <2>5, <2>7
<1> QED
  BY <1>3, <1>4

\* The checksum of T=1.
LEMMA ChecksumUnderstood ==
  ASSUME NEW c, IsoLevels(c), NEW a, a.ib = Kept(c)
  PROVE  (ChecksumByte(a) = 1) <=> CardUsesCrc(c)
<1> DEFINE L == Len(c)
           K == Kept(c)
           there == {i \in 3..7 : Present(K[i].tc)}
           tc == {i \in 3..L : Present(c[i].tc)}
<1>1. L \in 1..7
  BY KeptLevels
<1>2. \A i \in 3..L : i \in 3..7 /\ i \in 1..L
  <2> HIDE DEF L
  <2> QED
    BY <1>1
<1>3. there = tc
  <2>1. \A i \in 3..7 : Present(K[i].tc) <=> i \in 3..L /\ Present(c[i].tc)
    BY KeptThere
  <2> HIDE DEF K, L
  <2> QED
    BY <1>2, <2>1
<1>4. ChecksumByte(a) = IF there = {} THEN Absent ELSE K[Min(there)].tc
  BY DEF ChecksumByte, FirstOf, MaxProtocols
<1>5. CardUsesCrc(c) <=> tc # {} /\ c[Min(tc)].tc = 1
  BY DEF CardUsesCrc
<1>6. CASE tc = {}
  BY <1>3, <1>4, <1>5, <1>6 DEF Absent
<1>7. CASE tc # {}
  <2>1. Min(tc) \in tc
    <3>1. tc \in SUBSET Nat
      OBVIOUS
    <3> HIDE DEF tc
    <3> QED
      BY <1>7, <3>1, LeastIn
  <2>2. Min(tc) \in 1..L
    BY <1>2, <2>1
  <2>3. K[Min(tc)].tc = c[Min(tc)].tc
    BY <2>2, KeptLevels
  <2> HIDE DEF tc, there, K
  <2> QED
    BY <1>3, <1>4, <1>5, <1>7, <2>3
<1> QED
  BY <1>6, <1>7

\* The size of the blocks the card takes.
LEMMA SizeUnderstood ==
  ASSUME NEW c, IsoLevels(c), NEW a, a.ib = Kept(c)
  PROVE  /\ (IF GetIFSC(a) > 0 THEN GetIFSC(a) ELSE 32) = CardIfsc(c)
         /\ CardIfsc(c) \in 1..254
<1> DEFINE L == Len(c)
           K == Kept(c)
           Above(i) == {k \in 1..i - 1 : Present(K[k].td)}
           there == {i \in 3..7 : /\ Present(K[i].ta)
                                  /\ Above(i) # {} /\ LowBits(K[Max(Above(i))].td) = 1}
           ta == {i \in 3..L : Present(c[i].ta) /\ c[i - 1].td = 1}
           v == IF there = {} THEN Absent ELSE K[Min(there)].ta
<1>1. L \in 1..7
  BY KeptLevels
<1> HIDE DEF L
<1>2. \A i \in 3..L : /\ i \in 3..7 /\ i \in 1..L /\ i - 1 \in Nat \ {0} /\ i - 1 \in 1..L - 1
                      /\ \A k \in 1..i - 1 : k \in 1..7 /\ k \in 1..L - 1
  BY <1>1
<1>3. \A i \in 3..7 : Present(K[i].ta) <=> i \in 3..L /\ Present(c[i].ta)
  BY KeptThere DEF L
<1>4. ASSUME NEW i \in 3..L
      PROVE  Above(i) # {} /\ LowBits(K[Max(Above(i))].td) = c[i - 1].td
  <2>1. \A k \in 1..i - 1 : Present(K[k].td)
    <3>1. \A k \in 1..7 : Present(K[k].td) <=> k \in 1..L - 1
      BY KeptLevels DEF L
    <3> HIDE DEF K
    <3> QED
      BY <1>2, <3>1
  <2> DEFINE n == i - 1
  <2>2. Above(i) = 1..n
    <3> HIDE DEF K
    <3> QED
      BY <2>1
  <2>3. n \in Nat \ {0} /\ n \in 1..L - 1 /\ n \in 1..n
    BY <1>2
  <2> HIDE DEF n
  <2>4. Max(Above(i)) = n
    BY <2>2, <2>3, LastOf
  <2>5. LowBits(K[n].td) = c[n].td
    BY <2>3, KeptLevels DEF L
  <2> HIDE DEF Above
  <2>6. LowBits(K[Max(Above(i))].td) = c[n].td
    BY <2>4, <2>5
  <2>7. Above(i) # {}
    BY <2>2, <2>3
  <2> QED
    BY <2>6, <2>7 DEF n
<1>5. there = ta
  <2> HIDE DEF K, Above
  <2>1. ASSUME NEW i PROVE i \in there <=> i \in ta
    <3>1. CASE i \in 3..L
      BY <1>2, <1>3, <1>4, <3>1
    <3>2. CASE ~(i \in 3..L)
      BY <1>3, <3>2
    <3> QED
      BY <3>1, <3>2
  <2> HIDE DEF there, ta
  <2> QED
    BY <2>1
<1>6. AnnouncedIFSC(a) = v
  BY DEF AnnouncedIFSC, MaxProtocols
<1>7. CardIfsc(c) = IF ta = {} THEN 32 ELSE Min({c[Min(ta)].ta, 254})
  BY DEF CardIfsc, L
<1>8. CASE ta = {}
  <2>1. v = -1
    BY <1>5, <1>8 DEF Absent
  <2>2. GetIFSC(a) = Min({-1, 254})
    BY <1>6, <2>1 DEF GetIFSC
  <2>3. Min({-1, 254}) = -1
    BY LeastOfTwo
  <2>4. CardIfsc(c) = 32
    BY <1>7, <1>8
  <2>5. GetIFSC(a) = -1
    BY <2>2, <2>3
  <2> QED
    BY <2>4, <2>5
<1>9. CASE ta # {}
  <2> DEFINE i == Min(ta)
             w == c[i].ta
  <2>1. i \in ta
    <3>1. ta \in SUBSET Nat
      OBVIOUS
    <3> HIDE DEF ta
    <3> QED
      BY <1>9, <3>1, LeastIn
  <2>2. i \in 3..L /\ i \in 1..L /\ Present(w) /\ c[i - 1].td = 1
    <3> HIDE DEF i
    <3> QED
      BY <1>2, <2>1
  <2>3. c[i] \in Level /\ K[i].ta = w
    BY <2>2, KeptLevels DEF L
  <2> HIDE DEF i
  <2>4. w # 0
    BY <2>2 DEF IsoLevels, L
  <2>5. w \in 1..255
    <3>1. w \in MaybeByte
      BY <2>3 DEF Level
    <3> QED
      BY <2>2, <2>4, <3>1 DEF MaybeByte, Present
  <2>6. v = w
    <3> HIDE DEF ta, there, K
    <3> QED
      BY <1>5, <1>9, <2>3 DEF i
  <2> HIDE DEF w, v
  <2>7. GetIFSC(a) = Min({w, 254})
    BY <1>6, <2>6 DEF GetIFSC
  <2>8. CardIfsc(c) = Min({w, 254})
    BY <1>7, <1>9 DEF i, w
  <2>9. Min({w, 254}) \in 1..254
    <3>1. Min({w, 254}) = IF w <= 254 THEN w ELSE 254
      BY <2>5, LeastOfTwo
    <3> HIDE DEF w
    <3> QED
      BY <2>5, <3>1
  <2> QED
    BY <2>7, <2>8, <2>9
<1> QED
  BY <1>8, <1>9

\* ATR_InitFromArray on what a card sends, with any TS and any historical bytes: it has
\* every level, their number, that of the historical bytes and the TCK, and the length;
\* on a beginning of it, it fails.
THEOREM AtrRoundTrip ==
  ASSUME NEW c, IsoLevels(c), NEW ts \in Byte, NEW hbn \in 0..15
  PROVE  LET b == Encode(ts, c, hbn)
         IN  /\ InitFromArray(b) = [ok |-> TRUE, ib |-> Kept(c), hbn |-> hbn,
                                    hasTCK |-> HasTCK(Complete(c)), length |-> Len(b)]
             /\ \A n \in 0..Len(b) - 1 : ~InitFromArray(SubSeq(b, 1, n)).ok
<1> DEFINE b == Encode(ts, c, hbn)
<1>1. b \in Seq(Byte) /\ \E off : Placed(c, hbn, b, off)
  BY EncodePlaces
<1>2. PICK off : Placed(c, hbn, b, off)
  BY <1>1
<1> HIDE DEF b
<1>3. InitFromArray(b) = [ok |-> TRUE, ib |-> Kept(c), hbn |-> hbn,
                          hasTCK |-> HasTCK(Complete(c)), length |-> Len(b)]
  BY <1>1, <1>2, WholeRead DEF Kept
<1>4. ASSUME NEW n \in 0..Len(b) - 1
      PROVE  ~InitFromArray(SubSeq(b, 1, n)).ok
  <2> DEFINE p == SubSeq(b, 1, n)
  <2>1. Len(b) \in Nat /\ \A i \in 1..Len(b) : b[i] \in Byte
    BY <1>1, LenProperties, ElementOfSeq
  <2>2. n \in Nat /\ n < Len(b) /\ \A i \in 1..n : i \in 1..Len(b)
    BY <2>1
  <2>3. Len(p) = n /\ \A i \in 1..n : p[i] = b[i]
    <3>1. /\ Len(p) = IF 1 <= n THEN n - 1 + 1 ELSE 0
          /\ \A i \in 1..n - 1 + 1 : p[i] = b[1 + i - 1]
      BY <2>1, <2>2, SubSeqProperties
    <3>2. n - 1 + 1 = n /\ (~(1 <= n) => n = 0) /\ \A i \in 1..n : 1 + i - 1 = i
      BY <2>2
    <3> HIDE DEF p
    <3> QED
      BY <3>1, <3>2
  <2> HIDE DEF p
  <2>4. Begins(p, b) /\ Len(p) < Len(b)
    BY <2>1, <2>2, <2>3 DEF Begins
  <2>5. ~InitFromArray(p).ok
    BY <1>1, <1>2, <2>4, PartRefused
  <2> QED
    BY <2>5 DEF p
<1> QED
  BY <1>3, <1>4 DEF b

\* So the ATR of each of the cards is read for what it says.
LEMMA CardRead ==
  ASSUME NEW c \in Cards
  PROVE  /\ ReadBack[c] /\ IsoLevels(c)
         /\ Parsed[c].ok /\ Parsed[c].ib = Kept(c)
<1> DEFINE b == Encoded(c)
           L == Len(c)
           r == InitFromArray(b)
<1>1. IsoLevels(c)
  BY ParametersAssumption
<1>2. /\ InitFromArray(b) = [ok |-> TRUE, ib |-> Kept(c), hbn |-> 3,
                             hasTCK |-> HasTCK(Complete(c)), length |-> Len(b)]
      /\ \A n \in 0..Len(b) - 1 : ~InitFromArray(SubSeq(b, 1, n)).ok
  <2>1. 59 \in Byte /\ 3 \in 0..15
    BY DEF Byte
  <2> QED
    BY <1>1, <2>1, AtrRoundTrip DEF Encoded
<1> HIDE DEF b
<1>4. r.ok /\ r.ib = Kept(c) /\ r.length = Len(b)
  <2> HIDE DEF r
  <2> QED
    BY <1>2 DEF r
<1>5. Parsed[c] = r
  BY DEF Parsed, b
<1> HIDE DEF r
<1>6. Understood(c)
  <2>1. /\ Specific(r) <=> CardIsSpecific(c)
        /\ CardIsSpecific(c) => r.ib[2].ta = c[2].ta
        /\ GetDefaultProtocol(r) = Activated(c).protocol
    BY <1>1, <1>4, ModeUnderstood
  <2>2. (ChecksumByte(r) = 1) <=> CardUsesCrc(c)
    BY <1>1, <1>4, ChecksumUnderstood
  <2>3. (IF GetIFSC(r) > 0 THEN GetIFSC(r) ELSE 32) = CardIfsc(c)
    BY <1>1, <1>4, SizeUnderstood
  <2>4. Specific(r) = CardIsSpecific(c)
    <3>1. Specific(r) \in BOOLEAN /\ CardIsSpecific(c) \in BOOLEAN
      BY DEF Specific, CardIsSpecific, Present
    <3> QED
      BY <2>1, <3>1, SameTruth
  <2>5. (ChecksumByte(r) = 1) = CardUsesCrc(c)
    <3>1. (ChecksumByte(r) = 1) \in BOOLEAN /\ CardUsesCrc(c) \in BOOLEAN
      BY DEF CardUsesCrc
    <3> QED
      BY <2>2, <3>1, SameTruth
  <2> QED
    BY <1>5, <2>1, <2>3, <2>4, <2>5, Zenon DEF Understood
<1>7. SubSeq(r.ib, 1, L) = Complete(c)
  <2> DEFINE K == Kept(c)
             t == SubSeq(K, 1, L)
             C == Complete(c)
  <2>1. L \in 1..7 /\ K \in Seq(Level) /\ Len(K) = 7
    BY <1>1, KeptLevels
  <2>2. C \in [1..L -> Level] /\ \A i \in 1..L : K[i] = C[i] /\ K[i] \in Level
    <3>1. C \in [1..L -> Level]
      BY <1>1, CompleteLevels
    <3>2. \A i \in 1..L : i \in 1..7 /\ K[i] = C[i]
      BY <1>1, KeptLevels
    <3> HIDE DEF K, C, L
    <3>3. \A i \in 1..L : C[i] \in Level
      BY <3>1
    <3> QED
      BY <3>1, <3>2, <3>3
  <2> HIDE DEF K, C, L
  <2>3. /\ t \in Seq(Level) /\ Len(t) = L
        /\ \A i \in 1..L : t[i] = K[i]
    <3>1. /\ t \in Seq(Level) /\ Len(t) = IF 1 <= L THEN L - 1 + 1 ELSE 0
          /\ \A i \in 1..L - 1 + 1 : t[i] = K[1 + i - 1]
      BY <2>1, <2>2, SubSeqProperties
    <3>2. L - 1 + 1 = L /\ 1 <= L /\ \A i \in 1..L : 1 + i - 1 = i
      BY <2>1
    <3> HIDE DEF t
    <3> QED
      BY <3>1, <3>2
  <2> HIDE DEF t
  <2>4. t \in [1..L -> Level]
    BY <2>3, LenProperties
  <2>5. \A i \in 1..L : t[i] = C[i]
    BY <2>2, <2>3
  <2>6. t = C
    <3>1. t = [i \in 1..L |-> t[i]] /\ C = [i \in 1..L |-> C[i]]
      BY <2>2, <2>4
    <3>2. [i \in 1..L |-> t[i]] = [i \in 1..L |-> C[i]]
      BY <2>5
    <3> QED
      BY <3>1, <3>2
  <2> QED
    BY <1>4, <2>6 DEF t, K, C
<1>9. ReadBack[c] <=>
        /\ Understood(c)
        /\ Parsed[c].ok /\ Parsed[c].length = Len(Encoded(c))
        /\ SubSeq(Parsed[c].ib, 1, Len(c)) = Complete(c)
        /\ \A n \in 0..Len(Encoded(c)) - 1 : ~InitFromArray(SubSeq(Encoded(c), 1, n)).ok
  BY DEF ReadBack
<1> QED
  BY <1>1, <1>2, <1>4, <1>5, <1>6, <1>7, <1>9 DEF b

-----------------------------------------------------------------------------
(* The types of what the driver computes                                   *)

\* The powers of two in a waiting time.
LEMMA PowersOfTwo == \A n \in 0..15 : 2^n \in Nat
<1>1. /\ 2^0 = 1 /\ 2^1 = 2 /\ 2^2 = 4 /\ 2^3 = 8 /\ 2^4 = 16 /\ 2^5 = 32 /\ 2^6 = 64
      /\ 2^7 = 128 /\ 2^8 = 256 /\ 2^9 = 512 /\ 2^10 = 1024 /\ 2^11 = 2048 /\ 2^12 = 4096
      /\ 2^13 = 8192 /\ 2^14 = 16384 /\ 2^15 = 32768
  OBVIOUS
<1> DEFINE p(n) == 2^n
<1>2. /\ p(0) \in Nat /\ p(1) \in Nat /\ p(2) \in Nat /\ p(3) \in Nat /\ p(4) \in Nat
      /\ p(5) \in Nat /\ p(6) \in Nat /\ p(7) \in Nat /\ p(8) \in Nat /\ p(9) \in Nat
      /\ p(10) \in Nat /\ p(11) \in Nat /\ p(12) \in Nat /\ p(13) \in Nat /\ p(14) \in Nat
      /\ p(15) \in Nat
  BY <1>1
<1> HIDE DEF p
<1>3. \A n \in 0..15 : p(n) \in Nat
  BY <1>2
<1> QED
  BY <1>3 DEF p

\* Products and quotients of numbers.
LEMMA NatProduct ==
  ASSUME NEW x \in Nat, NEW y \in Nat
  PROVE  x * y \in Nat
  OBVIOUS

\* A quotient is a number again.
LEMMA NatQuotient ==
  ASSUME NEW x \in Nat, NEW y \in Nat, y > 0
  PROVE  x \div y \in Nat
  OBVIOUS

\* A product of two numbers above 0 is one above 0.
LEMMA PositiveProduct ==
  ASSUME NEW x \in Nat, NEW y \in Nat, x > 0, y > 0
  PROVE  x * y \in Nat /\ x * y > 0
  OBVIOUS

\* What the tables have for a TA1 are numbers.
LEMMA Tables ==
  ASSUME NEW v \in MaybeByte
  PROVE  FOf(v) \in Nat /\ DOf(v) \in Nat
<1>1. \A i \in 1..16 : FTable[i] \in Nat
  BY DEF FTable
<1>2. \A i \in 1..16 : DTable[i] \in Nat
  BY DEF DTable
<1>3. Present(v) => HighBits(v) + 1 \in 1..16 /\ LowBits(v) + 1 \in 1..16
  BY DEF MaybeByte, Present, HighBits, LowBits
<1> QED
  BY <1>1, <1>2, <1>3 DEF FOf, DOf

\* F and D are above 0.
LEMMA FactorsType ==
  ASSUME NEW v \in MaybeByte
  PROVE  /\ Factors(v)[1] \in Nat /\ Factors(v)[1] > 0
         /\ Factors(v)[2] \in Nat /\ Factors(v)[2] > 0
  BY Tables DEF Factors

\* The greatest of three numbers is a number.
LEMMA GreatestOfThree ==
  ASSUME NEW x \in Nat, NEW y \in Nat, NEW z \in Nat
  PROVE  Max({x, y, z}) \in Nat
<1> DEFINE P(m) == m \in {x, y, z} /\ \A w \in {x, y, z} : m >= w
<1>1. \E m : P(m)
  <2>1. P(x) \/ P(y) \/ P(z)
    OBVIOUS
  <2> HIDE DEF P
  <2> QED
    BY <2>1
<1>2. Max({x, y, z}) = CHOOSE m : P(m)
  BY DEF Max
<1> HIDE DEF P
<1>3. P(CHOOSE m : P(m))
  BY <1>1
<1> QED
  BY <1>2, <1>3 DEF P

\* A byte, or its default, is a byte.
LEMMA OrType ==
  ASSUME NEW v \in MaybeByte, NEW d \in 0..255
  PROVE  Or(v, d) \in 0..255
  BY DEF Or, Present, MaybeByte

\* T1_card_timeout gives a number.
LEMMA T1TimeoutType ==
  ASSUME NEW f \in Nat, NEW d \in Nat, d > 0, NEW tc1 \in 0..255, NEW wait \in 0..255,
         NEW clock \in Nat, clock > 0
  PROVE  T1Timeout(<<f, d>>, tc1, wait, clock) \in Nat
<1> DEFINE p == 2^LowBits(wait)
           q == 2^HighBits(wait)
           chars == 260 * (12 + tc1) + 11 + 260 * (11 + p)
           x == (chars * f) \div (d * clock)
           y == (q * 960 * 372) \div clock
<1>1. p \in Nat /\ q \in Nat
  <2>1. LowBits(wait) \in 0..15 /\ HighBits(wait) \in 0..15
    BY DEF LowBits, HighBits
  <2> QED
    BY <2>1, PowersOfTwo
<1> HIDE DEF p, q
<1>2. chars \in Nat
  BY <1>1
<1> HIDE DEF chars
<1>3. chars * f \in Nat /\ d * clock \in Nat /\ d * clock > 0
  BY <1>2, NatProduct, PositiveProduct
<1>4. x \in Nat
  BY <1>3, NatQuotient
<1>5. q * 960 * 372 \in Nat
  BY <1>1
<1>6. y \in Nat
  BY <1>5, NatQuotient
<1>7. T1Timeout(<<f, d>>, tc1, wait, clock) = x + y + 1000
  BY DEF T1Timeout, x, y, chars, p, q
<1> HIDE DEF x, y
<1> QED
  BY <1>4, <1>6, <1>7

\* T0_card_timeout gives a number.
LEMMA T0TimeoutType ==
  ASSUME NEW f \in Nat, NEW d \in Nat, d > 0, NEW tc1 \in 0..255, NEW tc2 \in 0..255,
         NEW clock \in Nat, clock > 0
  PROVE  T0Timeout(<<f, d>>, tc1, tc2, clock) \in Nat
<1> DEFINE egt == ((12 + tc1) * f) \div (d * clock)
           wwt == (960 * tc2 * f) \div clock
<1>1. egt \in Nat
  <2>1. 12 + tc1 \in Nat
    OBVIOUS
  <2>2. (12 + tc1) * f \in Nat /\ d * clock \in Nat /\ d * clock > 0
    BY <2>1, NatProduct, PositiveProduct
  <2> QED
    BY <2>2, NatQuotient
<1>2. wwt \in Nat
  <2>1. 960 * tc2 \in Nat
    OBVIOUS
  <2>2. 960 * tc2 * f \in Nat
    BY <2>1, NatProduct
  <2> QED
    BY <2>2, NatQuotient
<1>3. T0Timeout(<<f, d>>, tc1, tc2, clock) = Max({3000, 261 * egt + 6 * wwt, 5 * egt + 260 * wwt})
  BY DEF T0Timeout
<1> HIDE DEF egt, wwt
<1>4. 261 * egt + 6 * wwt \in Nat /\ 5 * egt + 260 * wwt \in Nat
  BY <1>1, <1>2
<1> QED
  BY <1>3, <1>4, GreatestOfThree

\* The waiting times of T=1.
WaitByte(a) == FirstOf(a, LAMBDA l : l.tb)

\* The bytes the driver asks for in the ATR of a card are bytes, or absent.
LEMMA BytesAsked ==
  ASSUME NEW c, IsoLevels(c), NEW a, a.ib = Kept(c)
  PROVE  /\ a.ib[1].ta \in MaybeByte /\ a.ib[1].tc \in MaybeByte /\ a.ib[2].tc \in MaybeByte
         /\ WaitByte(a) \in MaybeByte
<1> DEFINE K == Kept(c)
           there == {i \in 3..7 : Present(K[i].tb)}
<1>1. \A i \in 1..7 : K[i] \in Level
  <2>1. K \in Seq(Level) /\ Len(K) = 7
    BY KeptLevels
  <2> HIDE DEF K
  <2> QED
    BY <2>1, ElementOfSeq
<1> HIDE DEF K
<1>2. \A i \in 1..7 : K[i].ta \in MaybeByte /\ K[i].tb \in MaybeByte /\ K[i].tc \in MaybeByte
  BY <1>1 DEF Level
<1>3. WaitByte(a) = IF there = {} THEN Absent ELSE K[Min(there)].tb
  BY DEF WaitByte, FirstOf, MaxProtocols, K
<1>4. there # {} => Min(there) \in 1..7
  <2>1. there \in SUBSET Nat /\ \A i \in there : i \in 1..7
    OBVIOUS
  <2> HIDE DEF there
  <2> QED
    BY <2>1, LeastIn
<1> HIDE DEF there
<1>5. WaitByte(a) \in MaybeByte
  <2>1. CASE there = {}
    <3>1. WaitByte(a) = Absent
      BY Zenon, <1>3, <2>1
    <3> QED
      BY <3>1 DEF MaybeByte
  <2>2. CASE there # {}
    <3>1. WaitByte(a) = K[Min(there)].tb
      BY Zenon, <1>3, <2>2
    <3>2. Min(there) \in 1..7
      BY <1>4, <2>2
    <3> QED
      BY <1>2, <3>1, <3>2
  <2> QED
    BY <2>1, <2>2
<1> QED
  BY <1>2, <1>5, 1 \in 1..7, 2 \in 1..7 DEF K

\* The read timeout is a number of milliseconds.
LEMMA TimeoutType ==
  ASSUME NEW c, IsoLevels(c), NEW a, a.ib = Kept(c), NEW k, NEW protocol
  PROVE  Timeout(k, a, protocol) \in Nat
<1> DEFINE ta1 == a.ib[1].ta
           tc1 == Or(a.ib[1].tc, 0)
           tc2 == Or(a.ib[2].tc, 10)
           bwi == Or(WaitByte(a), 77)
           clock == Described(k).clock
           f == Factors(ta1)[1]
           d == Factors(ta1)[2]
<1>1. clock \in Nat /\ clock > 0
  BY DEF Described
<1>2. ta1 \in MaybeByte /\ tc1 \in 0..255 /\ tc2 \in 0..255 /\ bwi \in 0..255
  <2>1. /\ ta1 \in MaybeByte /\ a.ib[1].tc \in MaybeByte /\ a.ib[2].tc \in MaybeByte
        /\ WaitByte(a) \in MaybeByte
    BY BytesAsked
  <2>2. 0 \in 0..255 /\ 10 \in 0..255 /\ 77 \in 0..255
    OBVIOUS
  <2>3. tc1 \in 0..255 /\ tc2 \in 0..255
    BY Zenon, <2>1, <2>2, OrType
  <2>4. bwi \in 0..255
    BY Zenon, <2>1, <2>2, OrType
  <2> HIDE DEF tc1, tc2, bwi
  <2> QED
    BY Zenon, <2>1, <2>3, <2>4
<1>3. Factors(ta1) = <<f, d>> /\ f \in Nat /\ d \in Nat /\ d > 0
  <2>1. Factors(ta1) = <<f, d>>
    BY DEF Factors
  <2> QED
    BY <1>2, <2>1, FactorsType
<1>4. Timeout(k, a, protocol) \in {60000, T1Timeout(Factors(ta1), tc1, bwi, clock),
                                   T0Timeout(Factors(ta1), tc1, tc2, clock)}
  BY DEF Timeout, WaitByte
<1> HIDE DEF ta1, tc1, tc2, bwi, clock, f, d
<1>5. T1Timeout(<<f, d>>, tc1, bwi, clock) \in Nat
  BY Zenon, <1>1, <1>2, <1>3, T1TimeoutType
<1>6. T0Timeout(<<f, d>>, tc1, tc2, clock) \in Nat
  BY Zenon, <1>1, <1>2, <1>3, T0TimeoutType
<1> QED
  BY <1>3, <1>4, <1>5, <1>6

\* A set of bytes has its greatest in it.
LEMMA GreatestIn ==
  ASSUME NEW S \in SUBSET 0..255, S # {}
  PROVE  Max(S) \in S
<1> DEFINE T == {255 - x : x \in S}
           P(x) == x \in S /\ \A y \in S : x >= y
           m == 255 - Min(T)
<1>1. Min(T) \in T /\ \A y \in T : Min(T) <= y
  <2>1. \A x \in S : x \in 0..255 /\ 255 - x \in Nat
    OBVIOUS
  <2>2. T \in SUBSET Nat
    BY <2>1
  <2>3. T # {}
    OBVIOUS
  <2> HIDE DEF T
  <2> QED
    BY <2>2, <2>3, LeastIn
<1>2. PICK x \in S : Min(T) = 255 - x
  BY <1>1
<1>3. P(x)
  <2> SUFFICES ASSUME NEW y \in S PROVE x >= y
    OBVIOUS
  <2>1. 255 - y \in T
    OBVIOUS
  <2>2. 255 - x <= 255 - y
    BY <1>1, <1>2, <2>1
  <2> QED
    BY <2>2
<1>4. Max(S) = CHOOSE z : P(z)
  BY DEF Max
<1>5. P(CHOOSE z : P(z))
  BY <1>3
<1> QED
  BY <1>4, <1>5

\* The PTS1 the driver asks for is a byte, or none.
LEMMA Pts1Type ==
  ASSUME NEW ta1 \in MaybeByte, NEW k
  PROVE  Pts1Of(k, ta1) \in MaybeByte
<1>1. CASE ~Present(ta1)
  BY <1>1 DEF Pts1Of, MaybeByte
<1>2. CASE Present(ta1)
  <2>1. ta1 \in 0..255
    BY <1>2 DEF MaybeByte, Present
  <2>2. Adapted(k, ta1) \in MaybeByte
    <3> DEFINE lower == {t \in 148..ta1 - 1 : Supports(k, t)}
               far == BaudRate(k, ta1) > Described(k).max + 2
    <3>1. Adapted(k, ta1) = IF far /\ ta1 <= 151 /\ lower # {} THEN Max(lower) ELSE Absent
      BY DEF Adapted
    <3>2. lower \in SUBSET 0..255
      BY <2>1
    <3> HIDE DEF lower, far
    <3>3. lower # {} => Max(lower) \in 0..255
      BY <3>2, GreatestIn
    <3> QED
      BY <3>1, <3>3 DEF MaybeByte
  <2>3. Pts1Of(k, ta1) \in {ta1, Absent, Adapted(k, ta1)}
    BY <1>2 DEF Pts1Of
  <2> QED
    BY <2>2, <2>3 DEF MaybeByte
<1> QED
  BY <1>1, <1>2

-----------------------------------------------------------------------------
(* The call                                                                *)

\* Every variable that is a record has its fields.
Shapes ==
    /\ reader = [kind |-> reader.kind, fidi |-> reader.fidi, crc |-> reader.crc,
                 ifsc |-> reader.ifsc, kept |-> reader.kept]
    /\ card = [ib |-> card.ib, powered |-> card.powered, rate |-> card.rate,
               protocol |-> card.protocol, negotiable |-> card.negotiable, ifsd |-> card.ifsd]
    /\ slot = [atr |-> slot.atr, t1 |-> slot.t1]
    /\ slot.t1 = [crc |-> slot.t1.crc, ifsc |-> slot.t1.ifsc, ifsd |-> slot.t1.ifsd,
                  dead |-> slot.t1.dead]
    /\ desc = [protocol |-> desc.protocol, timeout |-> desc.timeout]
    /\ pps = [protocol |-> pps.protocol, pts1 |-> pps.pts1]

\* The driver has the ATR of the card in the slot, once it has powered it up.
SlotInv ==
    /\ pc \in {"idle", "pps", "params", "ifsd"}
    /\ card.powered \in BOOLEAN /\ card.ib \in Cards /\ slot.atr \in {<<>>} \cup Cards
    /\ card.powered => slot.atr = card.ib

\* Before the call nothing is left of an earlier one.
FreshInv ==
    pc = "idle" /\ ret = "" /\ card.powered => slot.t1 = NewT1 /\ card = Activated(card.ib)

\* What the call has settled when it gets to the PPS, and to SetParameters.
T1Settled ==
    /\ slot.atr # <<>> /\ slot.t1.ifsc = 32
    /\ pps.protocol = 1 => slot.t1.crc = CardUsesCrc(card.ib)
PpsInv ==
    pc = "pps" /\ card.powered => T1Settled /\ ~CardIsSpecific(card.ib) /\ ~Kind.autoPps
ParamsInv ==
    pc = "params" /\ card.powered =>
        /\ T1Settled
        /\ \/ Kind.autoPps /\ card.negotiable
           \/ /\ card.protocol = pps.protocol
              /\ CardIsSpecific(card.ib) \/ card.rate = FiDi

AgreeInv == RatesAgree /\ ProtocolAgrees /\ ChecksumAgrees /\ SizesAgree

IInv == Shapes /\ SlotInv /\ FreshInv /\ PpsInv /\ ParamsInv /\ AgreeInv

\* IInv holds in the initial states.
LEMMA InitOK == Init => IInv
<1> SUFFICES ASSUME Init PROVE IInv
    OBVIOUS
<1>1. PICK k \in Readers : reader = [kind |-> k, fidi |-> DefaultRate, crc |-> FALSE, ifsc |-> 32, kept |-> FALSE]
    BY DEF Init
<1>2. PICK c \in Cards : card = Inserted(c)
    BY DEF Init
<1>3. Shapes /\ ~card.powered
    <2>1. /\ slot = [atr |-> <<>>, t1 |-> NewT1] /\ pps = NoPps
          /\ desc = [protocol |-> Absent, timeout |-> 3000]
        BY DEF Init
    <2>2. ~card.powered
        BY <1>2 DEF Inserted
    <2>3. QED BY <1>1, <1>2, <2>1, <2>2 DEF Inserted, NewT1, NoPps, Shapes
<1>4. SlotInv
    BY <1>2 DEF Init, Inserted, SlotInv
<1>5. FreshInv /\ PpsInv /\ ParamsInv
    BY <1>3 DEF FreshInv, PpsInv, ParamsInv
<1>6. AgreeInv
    BY <1>3 DEF AgreeInv, RatesAgree, ProtocolAgrees, ChecksumAgrees, SizesAgree, Told
<1>7. QED BY <1>3, <1>4, <1>5, <1>6 DEF IInv

\* Another card: nothing is agreed with it.
LEMMA ReplaceKeeps ==
    ASSUME IInv, NEW c \in Cards, ReplaceCard(c)
    PROVE  IInv'
<1>1. ~card'.powered /\ card'.ib = c /\ card'.powered = FALSE /\ pc' = "idle"
    BY DEF ReplaceCard, Inserted
<1>2. Shapes'
    BY DEF IInv, Shapes, ReplaceCard, Inserted
<1>3. SlotInv'
    BY <1>1 DEF IInv, SlotInv, ReplaceCard
<1>4. FreshInv' /\ PpsInv' /\ ParamsInv'
    BY <1>1 DEF FreshInv, PpsInv, ParamsInv
<1>5. AgreeInv'
    BY <1>1 DEF AgreeInv, RatesAgree, ProtocolAgrees, ChecksumAgrees, SizesAgree, Told
<1>6. QED BY <1>2, <1>3, <1>4, <1>5 DEF IInv

\* The card after its activation.
LEMMA ActivatedCard ==
    ASSUME NEW c
    PROVE  /\ Activated(c) = [ib |-> c, powered |-> TRUE, rate |-> Activated(c).rate,
                             protocol |-> Activated(c).protocol,
                             negotiable |-> Activated(c).negotiable, ifsd |-> 32]
           /\ Activated(c).negotiable = ~CardIsSpecific(c)
           /\ ~CardIsSpecific(c) => Activated(c).rate = DefaultRate
<1>1. CASE CardIsSpecific(c)
    BY <1>1 DEF Activated, Inserted
<1>2. CASE ~CardIsSpecific(c)
    BY <1>2 DEF Activated, Inserted
<1>3. QED BY <1>1, <1>2

\* A power-up: reader, driver and card start afresh.
LEMMA PowerUpKeeps ==
    ASSUME IInv, PowerUp
    PROVE  IInv'
<1>1. /\ pc' = "idle" /\ ret' = "" /\ slot' = [atr |-> card.ib, t1 |-> NewT1]
      /\ card' = Activated(card.ib) /\ UNCHANGED <<desc, pps>>
    BY DEF PowerUp
<1>2. /\ card'.ib = card.ib /\ card'.powered = TRUE
      /\ card' = [ib |-> card'.ib, powered |-> card'.powered, rate |-> card'.rate,
                  protocol |-> card'.protocol, negotiable |-> card'.negotiable, ifsd |-> card'.ifsd]
    <2> DEFINE c == card.ib
    <2>1. /\ Activated(c) = [ib |-> c, powered |-> TRUE, rate |-> Activated(c).rate,
                             protocol |-> Activated(c).protocol,
                             negotiable |-> Activated(c).negotiable, ifsd |-> 32]
        BY ActivatedCard
    <2>2. card' = Activated(c)
        BY <1>1
    <2> HIDE DEF c
    <2>3. card'.ib = c /\ card'.powered = TRUE /\ card'.ifsd = 32
        BY <2>1, <2>2
    <2>4. QED BY <2>1, <2>2, <2>3 DEF c
<1>3. Shapes'
    <2>1. reader' = [reader EXCEPT !.fidi = DefaultRate, !.crc = FALSE, !.ifsc = 32, !.kept = FALSE]
        BY DEF PowerUp
    <2>2. reader' = [kind |-> reader'.kind, fidi |-> reader'.fidi, crc |-> reader'.crc,
                     ifsc |-> reader'.ifsc, kept |-> reader'.kept]
        BY <2>1 DEF IInv, Shapes
    <2>3. QED BY <1>1, <1>2, <2>2 DEF IInv, Shapes, NewT1
<1>4. SlotInv'
    BY <1>1, <1>2 DEF IInv, SlotInv
<1>5. FreshInv' /\ PpsInv' /\ ParamsInv'
    BY <1>1, <1>2 DEF FreshInv, PpsInv, ParamsInv
<1>6. AgreeInv'
    BY <1>1 DEF AgreeInv, RatesAgree, ProtocolAgrees, ChecksumAgrees, SizesAgree, Told
<1>7. QED BY <1>3, <1>4, <1>5, <1>6 DEF IInv

\* A call that fails leaves nothing to agree on.
LEMMA FailureKeeps ==
    ASSUME NEW code, Return(code), code \notin {"", "SUCCESS"}
    PROVE  FreshInv' /\ PpsInv' /\ ParamsInv' /\ AgreeInv' /\ pc' = "idle"
           /\ pps' = [protocol |-> pps'.protocol, pts1 |-> pps'.pts1]
<1>1. pc' = "idle" /\ ret' \notin {"", "SUCCESS"} /\ pps' = NoPps
    BY DEF Return
<1>2. FreshInv' /\ PpsInv' /\ ParamsInv'
    BY <1>1 DEF FreshInv, PpsInv, ParamsInv
<1>3. AgreeInv'
    BY <1>1 DEF AgreeInv, RatesAgree, ProtocolAgrees, ChecksumAgrees, SizesAgree, Told
<1>4. QED BY <1>1, <1>2, <1>3 DEF NoPps

\* Where there is an ATR, it says of the card what the card means.
LEMMA AtrUnderstood ==
    ASSUME SlotInv, AtrRead, card.powered, slot.atr # <<>>
    PROVE  LET c == card.ib IN
           /\ Specific(A) = CardIsSpecific(c)
           /\ CardIsSpecific(c) => A.ib[2].ta = c[2].ta
           /\ GetDefaultProtocol(A) = Activated(c).protocol
           /\ (ChecksumByte(A) = 1) = CardUsesCrc(c)
           /\ Ifsc = CardIfsc(c)
<1>1. slot.atr = card.ib /\ card.ib \in Cards
    BY DEF SlotInv
<1>2. A = Parsed[card.ib]
    BY <1>1 DEF A
<1>3. Understood(card.ib)
    BY <1>1 DEF AtrRead, ReadBack
<1>4. QED BY <1>2, <1>3, Zenon DEF Understood, Ifsc

\* WithChecksum changes nothing but the checksum.
LEMMA ChecksumSet ==
    ASSUME Shapes, NEW protocol
    PROVE  LET t == WithChecksum(slot.t1, protocol) IN
           /\ t = [crc |-> t.crc, ifsc |-> slot.t1.ifsc, ifsd |-> slot.t1.ifsd,
                   dead |-> slot.t1.dead]
           /\ t.ifsc = slot.t1.ifsc
           /\ protocol = 1 /\ slot.t1 = NewT1 => t.crc = (ChecksumByte(A) = 1)
<1>1. CASE protocol = 1 /\ ChecksumByte(A) \in {0, 1}
    BY <1>1 DEF WithChecksum, Shapes
<1>2. CASE ~(protocol = 1 /\ ChecksumByte(A) \in {0, 1})
    <2>1. WithChecksum(slot.t1, protocol) = slot.t1
        BY <1>2 DEF WithChecksum
    <2>2. protocol = 1 => ChecksumByte(A) # 1
        BY <1>2
    <2>3. slot.t1 = NewT1 => slot.t1.crc = FALSE
        BY DEF NewT1
    <2>4. QED BY <2>1, <2>2, <2>3 DEF Shapes
<1>3. QED BY <1>1, <1>2

\* The call up to the PPS or SetParameters.
LEMMA CallKeeps ==
    ASSUME IInv, AtrRead, NEW protocol \in {0, 1}, NEW pts1 \in CallerPts1 \cup {Absent},
           SetProtocolParameters(protocol, pts1)
    PROVE  IInv'
<1> DEFINE asked == IF Present(pts1) THEN pts1 ELSE Pts1Of(reader.kind, A.ib[1].ta)
<1>0. /\ Shapes /\ SlotInv /\ FreshInv /\ pc = "idle" /\ ret = ""
      /\ UNCHANGED <<reader, card>>
    BY DEF IInv, SetProtocolParameters
<1>1. ASSUME NEW code \in {"NOT_SUPPORTED", "COMMUNICATION_ERROR"}, Return(code),
             UNCHANGED desc, slot' = slot \/ slot' = [slot EXCEPT !.t1 = WithChecksum(@, protocol)]
      PROVE  IInv'
    <2>1. FreshInv' /\ PpsInv' /\ ParamsInv' /\ AgreeInv' /\ pc' = "idle"
          /\ pps' = [protocol |-> pps'.protocol, pts1 |-> pps'.pts1]
        BY <1>1, FailureKeeps
    <2>2. /\ slot' = [atr |-> slot'.atr, t1 |-> slot'.t1] /\ slot'.atr = slot.atr
          /\ slot'.t1 = [crc |-> slot'.t1.crc, ifsc |-> slot'.t1.ifsc, ifsd |-> slot'.t1.ifsd,
                         dead |-> slot'.t1.dead]
        <3>1. CASE slot' = slot
            BY <3>1, <1>0 DEF Shapes
        <3>2. CASE slot' = [slot EXCEPT !.t1 = WithChecksum(@, protocol)]
            <4>1. slot' = [atr |-> slot.atr, t1 |-> WithChecksum(slot.t1, protocol)]
                BY <3>2, <1>0 DEF Shapes
            <4>2. QED BY <4>1, <1>0, ChecksumSet
        <3>3. QED BY <3>1, <3>2, <1>1
    <2>3. SlotInv'
        BY <1>0, <2>1, <2>2 DEF SlotInv
    <2>4. Shapes'
        BY <1>0, <1>1, <2>1, <2>2 DEF Shapes
    <2>5. QED BY <2>1, <2>3, <2>4 DEF IInv
<1>2. CASE /\ ~A.ok \/ (Specific(A) /\ LowBits(A.ib[2].ta) # protocol)
           /\ Return("NOT_SUPPORTED") /\ UNCHANGED <<slot, desc>>
    BY <1>1, <1>2
<1>3. ASSUME A.ok, Specific(A) => LowBits(A.ib[2].ta) = protocol,
             slot' = [slot EXCEPT !.t1 = WithChecksum(@, protocol)],
             pps' = [protocol |-> protocol, pts1 |-> asked], ret' = ret,
             UNCHANGED desc \/ \E t : desc' = [desc EXCEPT !.timeout = t],
             pc' = IF PpsDue(protocol, asked) THEN "pps" ELSE "params"
      PROVE  IInv'
    <2>1. slot' = [atr |-> slot.atr, t1 |-> WithChecksum(slot.t1, protocol)]
        BY <1>3, <1>0 DEF Shapes
    <2>2. Shapes'
        <3>1. desc' = [protocol |-> desc'.protocol, timeout |-> desc'.timeout]
            BY <1>0, <1>3 DEF Shapes
        <3>2. slot' = [atr |-> slot'.atr, t1 |-> slot'.t1]
              /\ slot'.t1 = [crc |-> slot'.t1.crc, ifsc |-> slot'.t1.ifsc, ifsd |-> slot'.t1.ifsd,
                             dead |-> slot'.t1.dead]
            BY <1>0, <2>1, ChecksumSet
        <3>3. pps' = [protocol |-> pps'.protocol, pts1 |-> pps'.pts1]
            BY <1>3
        <3>4. QED BY <1>0, <3>1, <3>2, <3>3 DEF Shapes
    <2>3. pc' \in {"pps", "params"}
        BY <1>3
    <2>4. SlotInv' /\ FreshInv' /\ AgreeInv'
        BY <1>0, <2>1, <2>3 DEF SlotInv, FreshInv, AgreeInv, RatesAgree, ProtocolAgrees,
                                ChecksumAgrees, SizesAgree, Told
    <2>5. ASSUME card.powered
          PROVE  /\ T1Settled'
                 /\ pc' = "pps" => ~CardIsSpecific(card.ib) /\ ~Kind.autoPps
                 /\ pc' = "params" =>
                      \/ Kind.autoPps /\ card.negotiable
                      \/ /\ card.protocol = protocol
                         /\ CardIsSpecific(card.ib) \/ card.rate = Or(asked, DefaultRate)
        <3>1. slot.atr # <<>>
            BY <1>3 DEF A, Malformed
        <3>2. slot.t1 = NewT1 /\ card = Activated(card.ib)
            BY <1>0, <2>5 DEF FreshInv
        <3>3. /\ Specific(A) = CardIsSpecific(card.ib)
              /\ GetDefaultProtocol(A) = card.protocol
              /\ (ChecksumByte(A) = 1) = CardUsesCrc(card.ib)
            BY <1>0, <2>5, <3>1, <3>2, AtrUnderstood
        <3>4. T1Settled'
            <4>1. slot'.t1.ifsc = slot.t1.ifsc /\ (protocol = 1 => slot'.t1.crc = (ChecksumByte(A) = 1))
                BY <1>0, <2>1, <3>2, ChecksumSet
            <4>2. slot.t1.ifsc = 32
                BY <3>2 DEF NewT1
            <4>3. QED BY <1>0, <1>3, <2>1, <3>1, <3>3, <4>1, <4>2 DEF T1Settled
        <3>5. pc' = "pps" => ~CardIsSpecific(card.ib) /\ ~Kind.autoPps
            BY <1>3, <3>3 DEF PpsDue
        <3>6. ASSUME pc' = "params", ~(Kind.autoPps /\ card.negotiable)
              PROVE  /\ card.protocol = protocol
                     /\ CardIsSpecific(card.ib) \/ card.rate = Or(asked, DefaultRate)
            <4>0. ~PpsDue(protocol, asked)
                BY <1>3, <3>6
            <4>1. CASE CardIsSpecific(card.ib)
                BY <4>1, <1>3, <3>3 DEF Specific, GetDefaultProtocol
            <4>2. CASE ~CardIsSpecific(card.ib)
                <5>1. card.negotiable /\ card.rate = DefaultRate
                    BY <3>2, <4>2, ActivatedCard
                <5>2. protocol = card.protocol /\ ~Present(asked)
                    BY <3>6, <4>0, <4>2, <3>3, <5>1 DEF PpsDue
                <5>3. QED BY <5>1, <5>2 DEF Or
            <4>3. QED BY <4>1, <4>2
        <3>7. QED BY <3>4, <3>5, <3>6
    <2>6. PpsInv' /\ ParamsInv'
        BY <1>0, <1>3, <2>5 DEF PpsInv, ParamsInv, Kind, FiDi
    <2>7. QED BY <2>2, <2>4, <2>6 DEF IInv
<1>4. CASE /\ A.ok /\ (Specific(A) => LowBits(A.ib[2].ta) = protocol)
           /\ slot' = [slot EXCEPT !.t1 = WithChecksum(@, protocol)]
           /\ \/ Return("COMMUNICATION_ERROR") /\ UNCHANGED desc
              \/ /\ pps' = [protocol |-> protocol, pts1 |-> asked]
                 /\ IF PpsDue(protocol, asked)
                    THEN pc' = "pps" /\ UNCHANGED <<desc, ret>>
                    ELSE ToParams /\ WaitFor(protocol)
    <2>1. CASE Return("COMMUNICATION_ERROR") /\ UNCHANGED desc
        BY <2>1, <1>4, <1>1
    <2>2. CASE /\ pps' = [protocol |-> protocol, pts1 |-> asked]
               /\ IF PpsDue(protocol, asked)
                  THEN pc' = "pps" /\ UNCHANGED <<desc, ret>>
                  ELSE ToParams /\ WaitFor(protocol)
        <3>1. ret' = ret /\ pc' = IF PpsDue(protocol, asked) THEN "pps" ELSE "params"
            BY <2>2 DEF ToParams
        <3>2. UNCHANGED desc \/ \E t : desc' = [desc EXCEPT !.timeout = t]
            BY <2>2 DEF WaitFor
        <3>3. QED BY <1>3, <1>4, <2>2, <3>1, <3>2
    <2>3. QED BY <2>1, <2>2, <1>4
<1>5. QED BY <1>2, <1>4 DEF SetProtocolParameters

\* What a PPS makes of the card in the slot.
LEMMA AgreedCard ==
    ASSUME Shapes, NEW protocol, NEW pts1, NEW c \in Agreed(card, protocol, pts1)
    PROVE  /\ c = [ib |-> card.ib, powered |-> card.powered, rate |-> c.rate,
                   protocol |-> protocol, negotiable |-> FALSE, ifsd |-> card.ifsd]
           /\ c.rate \in {DefaultRate, Or(pts1, DefaultRate)}
<1>1. PICK r \in {DefaultRate, Or(pts1, DefaultRate)} :
        c = [card EXCEPT !.negotiable = FALSE, !.protocol = protocol, !.rate = r]
    BY DEF Agreed
<1>2. c = [ib |-> card.ib, powered |-> card.powered, rate |-> r,
           protocol |-> protocol, negotiable |-> FALSE, ifsd |-> card.ifsd]
    BY <1>1 DEF Shapes
<1>3. QED BY <1>1, <1>2

\* The PPS: driver and card go on with what the card has confirmed.
LEMMA PpsConfirmedKeeps ==
    ASSUME IInv, PpsConfirmed
    PROVE  IInv'
<1>0. Shapes /\ SlotInv /\ PpsInv /\ pc = "pps"
    BY DEF IInv, PpsConfirmed
<1>1. /\ card.powered /\ pc' = "params" /\ UNCHANGED <<reader, slot>>
      /\ UNCHANGED ret /\ WaitFor(pps.protocol)
    BY DEF PpsConfirmed, Answers, ToParams
<1>2. PICK c \in Agreed(card, pps.protocol, pps.pts1) :
        card' = c /\ pps' = Confirmed(IF c.rate = pps.pts1 THEN pps.pts1 ELSE Absent)
    BY DEF PpsConfirmed
<1>3. /\ card' = [ib |-> card.ib, powered |-> card.powered, rate |-> c.rate,
                   protocol |-> pps.protocol, negotiable |-> FALSE, ifsd |-> card.ifsd]
      /\ c.rate \in {DefaultRate, Or(pps.pts1, DefaultRate)}
    BY <1>0, <1>2, AgreedCard
<1>4. pps' = [protocol |-> pps.protocol, pts1 |-> IF c.rate = pps.pts1 THEN pps.pts1 ELSE Absent]
    BY <1>0, <1>2 DEF Confirmed, Shapes
<1>5. card'.rate = FiDi'
    <2>1. DefaultRate # Absent
        BY DEF DefaultRate, Absent
    <2>2. card'.rate = c.rate
        BY <1>3
    <2>3. FiDi' = IF c.rate = pps.pts1 /\ pps.pts1 # Absent THEN c.rate ELSE DefaultRate
        BY <1>4 DEF FiDi, Or, Present
    <2>4. QED BY <1>3, <2>1, <2>2, <2>3 DEF Or, Present
<1>6. Shapes'
    <2>1. desc' = [protocol |-> desc'.protocol, timeout |-> desc'.timeout]
        BY <1>0, <1>1 DEF Shapes, WaitFor
    <2>2. QED BY <1>0, <1>1, <1>3, <1>4, <2>1 DEF Shapes
<1>7. SlotInv'
    BY <1>0, <1>1, <1>3 DEF SlotInv
<1>8. ParamsInv'
    <2>1. T1Settled'
        BY <1>0, <1>1, <1>3, <1>4 DEF PpsInv, T1Settled
    <2>2. card'.protocol = pps'.protocol
        BY <1>3, <1>4
    <2>3. QED BY <1>5, <2>1, <2>2 DEF ParamsInv
<1>9. FreshInv' /\ PpsInv' /\ AgreeInv'
    BY <1>1 DEF FreshInv, PpsInv, AgreeInv, RatesAgree, ProtocolAgrees, ChecksumAgrees,
                SizesAgree, Told
<1>10. QED BY <1>6, <1>7, <1>8, <1>9 DEF IInv

\* The steps that end the call with an error.
LEMMA FailedKeeps ==
    ASSUME IInv,
           PpsFailed \/ \E code \in {"NOT_SUPPORTED", "COMMUNICATION_ERROR"} : ParamsFailed(code)
    PROVE  IInv'
<1>0. Shapes /\ SlotInv
    BY DEF IInv
<1>1. PICK code \in {"NOT_SUPPORTED", "COMMUNICATION_ERROR", "PTS_FAILURE"} : Return(code)
    BY DEF PpsFailed, ParamsFailed
<1>2. UNCHANGED <<reader, slot, desc>>
    BY DEF PpsFailed, ParamsFailed
<1>3. /\ card' = [ib |-> card.ib, powered |-> card.powered, rate |-> card'.rate,
                  protocol |-> card'.protocol, negotiable |-> card'.negotiable,
                  ifsd |-> card'.ifsd]
      /\ card'.ib = card.ib /\ card'.powered = card.powered
    <2>1. CASE UNCHANGED card
        BY <1>0, <2>1 DEF Shapes
    <2>2. CASE card' = [card EXCEPT !.negotiable = FALSE]
        BY <1>0, <2>2 DEF Shapes
    <2>3. CASE card' \in Agreed(card, pps.protocol, pps.pts1)
        BY <1>0, <2>3, AgreedCard
    <2>4. QED BY <2>1, <2>2, <2>3 DEF PpsFailed, ParamsFailed
<1>4. FreshInv' /\ PpsInv' /\ ParamsInv' /\ AgreeInv' /\ pc' = "idle"
      /\ pps' = [protocol |-> pps'.protocol, pts1 |-> pps'.pts1]
    BY <1>1, FailureKeeps
<1>5. SlotInv' /\ Shapes'
    BY <1>0, <1>2, <1>3, <1>4 DEF SlotInv, Shapes
<1>6. QED BY <1>4, <1>5 DEF IInv

\* What follows SetParameters, whatever the reader did.
LEMMA AfterParamsKeeps ==
    ASSUME Shapes, SlotInv, AfterParams
    PROVE  /\ pc' \in {"ifsd", "idle"}
           /\ slot' = [atr |-> slot.atr, t1 |-> slot'.t1] /\ slot'.t1.crc = slot.t1.crc
           /\ slot'.t1 = [crc |-> slot'.t1.crc, ifsc |-> slot'.t1.ifsc, ifsd |-> slot'.t1.ifsd,
                          dead |-> slot'.t1.dead]
           /\ slot.t1.ifsc = 32 /\ pps.protocol = 1 => slot'.t1.ifsc = Ifsc
           /\ desc' = [protocol |-> desc'.protocol, timeout |-> desc'.timeout]
           /\ pps' = [protocol |-> pps'.protocol, pts1 |-> pps'.pts1]
           /\ pc' = "ifsd" => pps.protocol = 1
           /\ pc' = "idle" => pps.protocol # 1 /\ ret' = "SUCCESS" /\ desc'.protocol = pps.protocol
<1>1. CASE pps.protocol = 1
    <2>1. slot' = [slot EXCEPT !.t1.ifsc = IF GetIFSC(A) > 0 THEN GetIFSC(A) ELSE @]
          /\ pc' = "ifsd" /\ UNCHANGED <<desc, pps, ret>>
        BY <1>1 DEF AfterParams
    <2>2. slot' = [atr |-> slot.atr,
                   t1 |-> [crc |-> slot.t1.crc, ifsd |-> slot.t1.ifsd, dead |-> slot.t1.dead,
                           ifsc |-> IF GetIFSC(A) > 0 THEN GetIFSC(A) ELSE slot.t1.ifsc]]
        BY <2>1 DEF Shapes
    <2>3. QED BY <1>1, <2>1, <2>2 DEF Shapes, Ifsc
<1>2. CASE pps.protocol # 1
    <2>1. desc' = [desc EXCEPT !.protocol = pps.protocol] /\ Return("SUCCESS") /\ UNCHANGED slot
        BY <1>2 DEF AfterParams
    <2>2. QED BY <1>2, <2>1 DEF Shapes, Return, NoPps
<1>3. QED BY <1>1, <1>2

\* SetParameters: the reader does as it is told.
LEMMA ParamsTakenKeeps ==
    ASSUME IInv, AtrRead, ParamsTaken
    PROVE  IInv'
<1>0. Shapes /\ SlotInv /\ ParamsInv /\ pc = "params" /\ AfterParams
    BY DEF IInv, ParamsTaken
<1>1. /\ reader' = [kind |-> reader.kind, fidi |-> FiDi, crc |-> slot.t1.crc,
                    ifsc |-> Ifsc, kept |-> reader.kept]
    BY <1>0 DEF ParamsTaken, Shapes
<1>2. /\ pc' \in {"ifsd", "idle"}
      /\ slot' = [atr |-> slot.atr, t1 |-> slot'.t1] /\ slot'.t1.crc = slot.t1.crc
      /\ slot'.t1 = [crc |-> slot'.t1.crc, ifsc |-> slot'.t1.ifsc, ifsd |-> slot'.t1.ifsd,
                     dead |-> slot'.t1.dead]
      /\ slot.t1.ifsc = 32 /\ pps.protocol = 1 => slot'.t1.ifsc = Ifsc
      /\ desc' = [protocol |-> desc'.protocol, timeout |-> desc'.timeout]
      /\ pps' = [protocol |-> pps'.protocol, pts1 |-> pps'.pts1]
      /\ pc' = "ifsd" => pps.protocol = 1
      /\ pc' = "idle" => pps.protocol # 1 /\ ret' = "SUCCESS" /\ desc'.protocol = pps.protocol
    BY <1>0, AfterParamsKeeps
<1>3. /\ card' = [ib |-> card.ib, powered |-> card.powered, rate |-> card'.rate,
                  protocol |-> card'.protocol, negotiable |-> card'.negotiable,
                  ifsd |-> card'.ifsd]
      /\ card'.ib = card.ib /\ card'.powered = card.powered
      /\ card.powered => /\ card'.protocol = pps.protocol
                         /\ CardIsSpecific(card.ib) \/ card'.rate = FiDi
    <2>1. CASE Kind.autoPps /\ card.negotiable
        <3>1. card' \in Agreed(card, pps.protocol, pps.pts1) /\ card'.rate = FiDi
            BY <2>1 DEF ParamsTaken
        <3>2. QED BY <1>0, <3>1, AgreedCard
    <2>2. CASE ~(Kind.autoPps /\ card.negotiable)
        <3>1. UNCHANGED card
            BY <2>2 DEF ParamsTaken
        <3>2. QED BY <1>0, <2>2, <3>1 DEF ParamsInv, Shapes
    <2>3. QED BY <2>1, <2>2
<1>4. Shapes'
    BY <1>1, <1>2, <1>3 DEF Shapes
<1>5. SlotInv'
    BY <1>0, <1>2, <1>3 DEF SlotInv
<1>6. FreshInv' /\ PpsInv' /\ ParamsInv'
    BY <1>2 DEF FreshInv, PpsInv, ParamsInv
<1>7. AgreeInv'
    <2>1. CASE ~card.powered
        BY <2>1, <1>3 DEF AgreeInv, RatesAgree, ProtocolAgrees, ChecksumAgrees, SizesAgree, Told
    <2>2. CASE card.powered
        <3>1. /\ slot.atr # <<>> /\ slot.t1.ifsc = 32
              /\ pps.protocol = 1 => slot.t1.crc = CardUsesCrc(card.ib)
            BY <1>0, <2>2 DEF ParamsInv, T1Settled
        <3>2. Ifsc = CardIfsc(card.ib)
            BY <1>0, <2>2, <3>1, AtrUnderstood
        <3>3. Protocol' = pps.protocol
            BY <1>2 DEF Protocol
        <3>4. RatesAgree' /\ ProtocolAgrees'
            BY <1>1, <1>3, <2>2, <3>3 DEF RatesAgree, ProtocolAgrees
        <3>5. ChecksumAgrees'
            BY <1>1, <1>2, <1>3, <3>1, <3>3 DEF ChecksumAgrees
        <3>6. SizesAgree'
            BY <1>1, <1>2, <1>3, <3>1, <3>2, <3>3 DEF SizesAgree
        <3>7. QED BY <3>4, <3>5, <3>6 DEF AgreeInv
    <2>3. QED BY <2>1, <2>2
<1>8. QED BY <1>4, <1>5, <1>6, <1>7 DEF IInv

\* SetParameters: the reader keeps what it has.
LEMMA ParamsKeptKeeps ==
    ASSUME IInv, ParamsKept
    PROVE  IInv'
<1>0. Shapes /\ SlotInv /\ AfterParams /\ UNCHANGED card
    BY DEF IInv, ParamsKept
<1>1. reader' = [kind |-> reader.kind, fidi |-> reader.fidi, crc |-> reader.crc,
                 ifsc |-> reader.ifsc, kept |-> TRUE]
    BY <1>0 DEF ParamsKept, Shapes
<1>2. /\ pc' \in {"ifsd", "idle"}
      /\ slot' = [atr |-> slot.atr, t1 |-> slot'.t1]
      /\ slot'.t1 = [crc |-> slot'.t1.crc, ifsc |-> slot'.t1.ifsc, ifsd |-> slot'.t1.ifsd,
                     dead |-> slot'.t1.dead]
      /\ desc' = [protocol |-> desc'.protocol, timeout |-> desc'.timeout]
      /\ pps' = [protocol |-> pps'.protocol, pts1 |-> pps'.pts1]
      /\ pc' = "idle" => pps.protocol # 1 /\ ret' = "SUCCESS" /\ desc'.protocol = pps.protocol
    BY <1>0, AfterParamsKeeps
<1>3. Shapes' /\ SlotInv'
    BY <1>0, <1>1, <1>2 DEF Shapes, SlotInv
<1>4. FreshInv' /\ PpsInv' /\ ParamsInv'
    BY <1>2 DEF FreshInv, PpsInv, ParamsInv
<1>5. AgreeInv'
    <2>1. ~Told'
        BY <1>1 DEF Told
    <2>2. QED BY <1>2, <2>1 DEF AgreeInv, RatesAgree, ProtocolAgrees, ChecksumAgrees, SizesAgree
<1>6. QED BY <1>3, <1>4, <1>5 DEF IInv

\* A pass of t1_negotiate_ifsd, whatever the card answered.
LEMMA NegotiateKeeps ==
    ASSUME IInv, NEW heard \in {Absent, 0, MaxIfsd}, NEW took \in BOOLEAN,
           NegotiateIfsd(heard, took)
    PROVE  IInv'
<1>0. Shapes /\ SlotInv /\ AgreeInv /\ pc = "ifsd" /\ UNCHANGED reader
    BY DEF IInv, NegotiateIfsd
<1>1. /\ card' = [ib |-> card.ib, powered |-> card.powered, rate |-> card.rate,
                  protocol |-> card.protocol, negotiable |-> card.negotiable,
                  ifsd |-> IF took THEN MaxIfsd ELSE card.ifsd]
    BY <1>0 DEF NegotiateIfsd, Shapes
<1>2. CASE slot' = [slot EXCEPT !.t1.dead = TRUE] /\ Return("COMMUNICATION_ERROR") /\ UNCHANGED desc
    <2>1. FreshInv' /\ PpsInv' /\ ParamsInv' /\ AgreeInv' /\ pc' = "idle"
          /\ pps' = [protocol |-> pps'.protocol, pts1 |-> pps'.pts1]
        BY <1>2, FailureKeeps
    <2>2. slot' = [atr |-> slot.atr,
                   t1 |-> [crc |-> slot.t1.crc, ifsc |-> slot.t1.ifsc, ifsd |-> slot.t1.ifsd,
                           dead |-> TRUE]]
        BY <1>0, <1>2 DEF Shapes
    <2>3. Shapes'
        BY <1>0, <1>1, <1>2, <2>1, <2>2, ZenonT(60) DEF Shapes
    <2>4. SlotInv'
        BY <1>0, <1>1, <2>1, <2>2 DEF SlotInv
    <2>5. QED BY <2>1, <2>3, <2>4 DEF IInv
<1>3. CASE /\ IfsdGood(heard) /\ slot' = [slot EXCEPT !.t1.ifsd = MaxIfsd]
           /\ desc' = [desc EXCEPT !.protocol = 1] /\ Return("SUCCESS")
    <2>1. slot' = [atr |-> slot.atr,
                   t1 |-> [crc |-> slot.t1.crc, ifsc |-> slot.t1.ifsc, ifsd |-> MaxIfsd,
                           dead |-> slot.t1.dead]]
          /\ desc' = [protocol |-> 1, timeout |-> desc.timeout]
        BY <1>0, <1>3 DEF Shapes
    <2>2. took
        BY <1>3 DEF NegotiateIfsd, IfsdGood
    <2>3. pc' = "idle" /\ ret' = "SUCCESS" /\ pps' = [protocol |-> pps'.protocol, pts1 |-> pps'.pts1]
        BY <1>3 DEF Return, NoPps
    <2>4. Shapes' /\ SlotInv'
        BY <1>0, <1>1, <2>1, <2>3 DEF Shapes, SlotInv
    <2>5. FreshInv' /\ PpsInv' /\ ParamsInv'
        BY <2>3 DEF FreshInv, PpsInv, ParamsInv
    <2>6. (Told' => Told) /\ Protocol' = 1 /\ Protocol = 1
        BY <1>0, <1>1, <2>1, <2>3 DEF Told, Protocol
    <2>7. RatesAgree' /\ ProtocolAgrees' /\ ChecksumAgrees'
        BY <1>0, <1>1, <2>1, <2>6 DEF AgreeInv, RatesAgree, ProtocolAgrees, ChecksumAgrees
    <2>8. SizesAgree'
        BY <1>0, <1>1, <2>1, <2>2, <2>6 DEF AgreeInv, SizesAgree
    <2>9. QED BY <2>4, <2>5, <2>7, <2>8 DEF IInv, AgreeInv
<1>4. CASE UNCHANGED <<slot, desc, pc, pps, ret>>
    <2>1. Shapes' /\ SlotInv'
        BY <1>0, <1>1, <1>4 DEF Shapes, SlotInv
    <2>2. FreshInv' /\ PpsInv' /\ ParamsInv'
        BY <1>0, <1>4 DEF FreshInv, PpsInv, ParamsInv
    <2>3. (Told' => Told) /\ Protocol' = Protocol
        BY <1>0, <1>1, <1>4 DEF Told, Protocol
    <2>4. AgreeInv'
        BY <1>0, <1>1, <1>4, <2>3 DEF AgreeInv, RatesAgree, ProtocolAgrees, ChecksumAgrees, SizesAgree
    <2>5. QED BY <2>1, <2>2, <2>4 DEF IInv
<1>5. QED BY <1>2, <1>3, <1>4 DEF NegotiateIfsd

\* The ATR in the slot is that of a card, and read for what it says.
LEMMA SlotRead == SlotInv => AtrRead
    BY CardRead DEF SlotInv, AtrRead

\* Every step keeps IInv.
LEMMA StepOK == IInv /\ [Next]_vars => IInv'
<1> SUFFICES ASSUME IInv, [Next]_vars PROVE IInv'
    OBVIOUS
<1>0. AtrRead
    BY SlotRead DEF IInv
<1>1. CASE UNCHANGED vars
    BY <1>1, ZenonT(60) DEF vars, IInv, Shapes, SlotInv, FreshInv, PpsInv, ParamsInv, T1Settled, AgreeInv,
                RatesAgree, ProtocolAgrees, ChecksumAgrees, SizesAgree, Told, Protocol, Kind, FiDi
<1>2. CASE Next
    BY <1>0, <1>2, ReplaceKeeps, PowerUpKeeps, CallKeeps, PpsConfirmedKeeps, FailedKeeps,
       ParamsTakenKeeps, ParamsKeptKeeps, NegotiateKeeps DEF Next
<1>3. QED BY <1>1, <1>2

\* IInv is an invariant for all readers, cards and rates.
THEOREM ParametersInvariance == Spec => []IInv
<1>1. QED BY InitOK, StepOK, PTL DEF Spec

\* ATR_InitFromArray: what the driver has of the ATR in the slot is what the card sent,
\* level by level, no part of it passes for the whole, and mode, protocol, checksum
\* and block size are what the card means by it.
THEOREM AtrIsRead == Spec => []AtrRead
<1>1. IInv => AtrRead
    BY SlotRead DEF IInv
<1>2. QED BY <1>1, ParametersInvariance, PTL

\* IFDHSetProtocolParameters: the reader ends up at the rate of the card, whether
\* the driver or the reader made the PPS and whatever of it the card took up; for
\* cards that are not in specific mode and readers that took up SetParameters.
THEOREM RatesAlwaysAgree == Spec => []RatesAgree
<1>1. IInv => RatesAgree
    BY DEF IInv, AgreeInv
<1>2. QED BY <1>1, ParametersInvariance, PTL

\* The driver goes on with the protocol the card is in, with a PPS or without.
THEOREM ProtocolAlwaysAgrees == Spec => []ProtocolAgrees
<1>1. IInv => ProtocolAgrees
    BY DEF IInv, AgreeInv
<1>2. QED BY <1>1, ParametersInvariance, PTL

\* Driver and reader use the checksum of the card in the slot, never that of a card
\* that was there before.
THEOREM ChecksumAlwaysAgrees == Spec => []ChecksumAgrees
<1>1. IInv => ChecksumAgrees
    BY DEF IInv, AgreeInv
<1>2. QED BY <1>1, ParametersInvariance, PTL

\* Driver and reader keep to the card's IFSC, and the card knows the IFSD the driver
\* goes on with, however often t1_negotiate_ifsd had to ask.
THEOREM SizesAlwaysAgree == Spec => []SizesAgree
<1>1. IInv => SizesAgree
    BY DEF IInv, AgreeInv
<1>2. QED BY <1>1, ParametersInvariance, PTL

-----------------------------------------------------------------------------
(* The types of the call                                                   *)

\* TypeOK, with what a call remembers: its protocol and PTS1, and that it has an ATR.
Codes == {"", "SUCCESS", "NOT_SUPPORTED", "PTS_FAILURE", "COMMUNICATION_ERROR"}
Numbers ==
    /\ reader.kind \in Readers /\ reader.fidi \in 0..255 /\ reader.ifsc \in 1..254
    /\ card.ib \in Cards /\ card.rate \in 0..255 /\ card.ifsd \in {32, MaxIfsd}
    /\ slot.atr \in {<<>>} \cup Cards
    /\ slot.t1.ifsc \in 1..254 /\ slot.t1.ifsd \in {32, MaxIfsd} /\ slot.t1.dead \in BOOLEAN
    /\ desc.protocol \in {Absent, 0, 1} /\ desc.timeout \in Nat
    /\ retries \in 0..3
TypeInv ==
    /\ Numbers /\ ret \in Codes /\ pc \in {"idle", "pps", "params", "ifsd"}
    /\ pps.protocol \in {0, 1} /\ pps.pts1 \in MaybeByte
    /\ pc # "idle" => slot.atr \in Cards

\* Where there is an ATR, its bytes are bytes, its IFSC a size and the timeout a number.
LEMMA AtrTypes ==
    ASSUME slot.atr \in Cards
    PROVE  /\ A.ib[1].ta \in MaybeByte /\ Ifsc \in 1..254
           /\ \A k, protocol : Timeout(k, A, protocol) \in Nat
<1> DEFINE c == slot.atr
<1>1. IsoLevels(c) /\ Parsed[c].ib = Kept(c)
    BY CardRead
<1>2. A = Parsed[c]
    <2>1. c # <<>>
        <3>1. Len(c) \in 1..7
            BY <1>1, KeptLevels
        <3>2. Len(<<>>) = 0 /\ 0 \notin 1..7
            OBVIOUS
        <3>3. QED BY Zenon, <3>1, <3>2
    <2>2. QED BY <2>1 DEF A
<1> HIDE DEF c
<1>3. (IF GetIFSC(A) > 0 THEN GetIFSC(A) ELSE 32) = CardIfsc(c) /\ CardIfsc(c) \in 1..254
    BY <1>1, <1>2, SizeUnderstood
<1>4. A.ib[1].ta \in MaybeByte
    BY <1>1, <1>2, BytesAsked
<1>5. \A k, protocol : Timeout(k, A, protocol) \in Nat
    BY <1>1, <1>2, TimeoutType
<1>6. Ifsc \in 1..254
    BY <1>3 DEF Ifsc
<1>7. QED BY <1>4, <1>5, <1>6

\* Both rates of a card, by itself and after a PPS, are bytes.
LEMMA CardRates ==
    ASSUME NEW c \in Cards, NEW pts1 \in MaybeByte
    PROVE  /\ Activated(c).rate \in 0..255 /\ Or(pts1, DefaultRate) \in 0..255
           /\ DefaultRate \in 0..255 /\ Inserted(c).rate \in 0..255
<1>1. DefaultRate \in 0..255
    BY DEF DefaultRate
<1>2. c[1].ta \in MaybeByte
    <2>1. IsoLevels(c)
        BY ParametersAssumption
    <2>2. 1 \in 1..Len(c)
        <3>1. Len(c) \in 1..7
            BY <2>1, KeptLevels
        <3>2. \A n \in 1..7 : 1 \in 1..n
            OBVIOUS
        <3>3. QED BY Zenon, <3>1, <3>2
    <2>3. c[1] \in Level
        BY Zenon, <2>1, <2>2, CompleteLevels
    <2>4. QED BY <2>3 DEF Level
<1>3. Or(c[1].ta, DefaultRate) \in 0..255 /\ Or(pts1, DefaultRate) \in 0..255
    BY <1>1, <1>2, OrType
<1>4. Inserted(c).rate = DefaultRate
    BY DEF Inserted
<1>5. Activated(c).rate \in {DefaultRate, Or(c[1].ta, DefaultRate)}
    BY DEF Activated, Inserted
<1>6. QED BY <1>1, <1>3, <1>4, <1>5

\* TypeInv holds in the initial states.
LEMMA TypesInit == Init => TypeInv
<1> SUFFICES ASSUME Init PROVE TypeInv
    OBVIOUS
<1>1. PICK k \in Readers :
        reader = [kind |-> k, fidi |-> DefaultRate, crc |-> FALSE, ifsc |-> 32, kept |-> FALSE]
    BY DEF Init
<1>2. PICK c \in Cards : card = Inserted(c)
    BY DEF Init
<1>0. /\ desc = [protocol |-> Absent, timeout |-> 3000]
      /\ pps = [protocol |-> 0, pts1 |-> Absent] /\ pc = "idle" /\ retries = 0
    BY DEF Init, NoPps
<1>3. reader.kind \in Readers /\ reader.fidi \in 0..255 /\ reader.ifsc \in 1..254
    BY <1>1 DEF DefaultRate
<1>4. card.ib \in Cards /\ card.rate \in 0..255 /\ card.ifsd \in {32, MaxIfsd}
    BY <1>2 DEF Inserted, DefaultRate
<1>5. /\ slot.atr \in {<<>>} \cup Cards
      /\ slot.t1.ifsc \in 1..254 /\ slot.t1.ifsd \in {32, MaxIfsd} /\ slot.t1.dead \in BOOLEAN
    <2>1. slot.atr = <<>> /\ slot.t1 = NewT1
        BY DEF Init
    <2>2. NewT1.ifsc = 32 /\ NewT1.ifsd = 32 /\ NewT1.dead = FALSE
        BY DEF NewT1
    <2>3. slot.t1.ifsc \in 1..254 /\ slot.t1.ifsd \in {32, MaxIfsd}
        BY <2>1, <2>2
    <2>4. slot.t1.dead \in BOOLEAN
        BY <2>1, <2>2
    <2>5. slot.atr \in {<<>>} \cup Cards
        BY <2>1
    <2>6. QED BY <2>3, <2>4, <2>5
<1>6. desc.protocol \in {Absent, 0, 1} /\ desc.timeout \in Nat
    BY <1>0
<1>7. /\ pc = "idle" /\ retries \in 0..3
      /\ pps.protocol \in {0, 1} /\ pps.pts1 \in MaybeByte
    BY <1>0 DEF MaybeByte
<1>8. ret \in Codes
    BY Zenon DEF Init, Codes
<1>9. QED BY <1>3, <1>4, <1>5, <1>6, <1>7, <1>8 DEF TypeInv, Numbers

\* What the driver reports when it fails, and when it does not.
LEMMA SomeCodes == {"SUCCESS", "NOT_SUPPORTED", "PTS_FAILURE", "COMMUNICATION_ERROR"} \subseteq Codes
    BY Zenon DEF Codes

\* A call that ends has types of its own.
LEMMA ReturnTypes ==
    ASSUME NEW code, Return(code)
    PROVE  /\ pc' = "idle" /\ retries' \in 0..3 /\ (code \in Codes => ret' \in Codes)
           /\ pps'.protocol \in {0, 1} /\ pps'.pts1 \in MaybeByte
    BY DEF Return, NoPps, MaybeByte

\* The card is inserted and activated with its defaults.
LEMMA OutsideTypes ==
    ASSUME Shapes, SlotInv, TypeInv, PowerUp \/ \E c \in Cards : ReplaceCard(c)
    PROVE  TypeInv'
<1>0. card.ib \in Cards
    BY DEF SlotInv
<1>1. CASE PowerUp
    <2>1. /\ card' = Activated(card.ib) /\ slot' = [atr |-> card.ib, t1 |-> NewT1]
          /\ reader' = [reader EXCEPT !.fidi = DefaultRate, !.crc = FALSE, !.ifsc = 32, !.kept = FALSE]
          /\ pc' = "idle" /\ ret' \in Codes /\ UNCHANGED <<desc, pps, retries>>
        <3>1. ret' \in Codes
            BY <1>1, Zenon DEF PowerUp, Codes
        <3>2. QED BY <1>1, <3>1 DEF PowerUp
    <2>2. reader'.kind \in Readers /\ reader'.fidi \in 0..255 /\ reader'.ifsc \in 1..254
        <3>1. reader' = [kind |-> reader.kind, fidi |-> DefaultRate, crc |-> FALSE, ifsc |-> 32,
                         kept |-> FALSE]
            BY <2>1 DEF Shapes
        <3>2. reader.kind \in Readers
            BY DEF TypeInv, Numbers
        <3>3. QED BY <3>1, <3>2 DEF DefaultRate
    <2>3. card'.rate \in 0..255 /\ card'.ib = card.ib /\ card'.ifsd = 32
        <3>1. Absent \in MaybeByte
            BY DEF MaybeByte
        <3>2. Activated(card.ib).rate \in 0..255
            BY <1>0, <3>1, CardRates
        <3>3. Activated(card.ib).ib = card.ib /\ Activated(card.ib).ifsd = 32
            BY DEF Activated, Inserted
        <3>4. QED BY <2>1, <3>2, <3>3
    <2>4. /\ slot'.atr \in {<<>>} \cup Cards
          /\ slot'.t1.ifsc \in 1..254 /\ slot'.t1.ifsd \in {32, MaxIfsd} /\ slot'.t1.dead \in BOOLEAN
        <3>1. slot'.atr = card.ib /\ slot'.t1 = NewT1
            BY <2>1
        <3>2. NewT1.ifsc = 32 /\ NewT1.ifsd = 32 /\ NewT1.dead = FALSE
            BY DEF NewT1
        <3>3. slot'.t1.ifsc \in 1..254 /\ slot'.t1.ifsd \in {32, MaxIfsd}
            BY <3>1, <3>2
        <3>4. slot'.t1.dead \in BOOLEAN
            BY <3>1, <3>2
        <3>5. slot'.atr \in {<<>>} \cup Cards
            BY <1>0, <3>1
        <3>6. QED BY <3>3, <3>4, <3>5
    <2>5. QED BY <1>0, <2>1, <2>2, <2>3, <2>4 DEF TypeInv, Numbers
<1>2. ASSUME NEW c \in Cards, ReplaceCard(c)
      PROVE  TypeInv'
    <2>1. card'.ib = c /\ card'.rate \in 0..255 /\ card'.ifsd = 32
        BY <1>2 DEF ReplaceCard, Inserted, DefaultRate
    <2>2. UNCHANGED <<reader, slot, desc, pc, pps, retries, ret>>
        BY <1>2 DEF ReplaceCard
    <2>3. QED BY <1>2, <2>1, <2>2 DEF TypeInv, Numbers
<1>3. QED BY <1>1, <1>2

\* The call up to the PPS or SetParameters.
LEMMA CallTypes ==
    ASSUME Shapes, SlotInv, TypeInv, NEW protocol \in {0, 1}, NEW pts1 \in CallerPts1 \cup {Absent},
           SetProtocolParameters(protocol, pts1)
    PROVE  TypeInv'
<1> DEFINE asked == IF Present(pts1) THEN pts1 ELSE Pts1Of(reader.kind, A.ib[1].ta)
<1>0. /\ UNCHANGED <<reader, card>> /\ slot.atr \in {<<>>} \cup Cards
    BY DEF SetProtocolParameters, SlotInv
<1>1. A.ok => slot.atr \in Cards
    BY <1>0 DEF A, Malformed
<1>2. A.ok => asked \in MaybeByte
    <2>1. pts1 \in MaybeByte
        BY ParametersAssumption DEF MaybeByte
    <2>2. A.ok => Pts1Of(reader.kind, A.ib[1].ta) \in MaybeByte
        BY <1>1, AtrTypes, Pts1Type
    <2>3. QED BY <2>1, <2>2
<1> HIDE DEF asked
<1>3. slot' = slot \/ slot' = [slot EXCEPT !.t1 = WithChecksum(@, protocol)]
    BY DEF SetProtocolParameters
<1>4. /\ slot'.atr = slot.atr /\ slot'.t1.ifsc = slot.t1.ifsc /\ slot'.t1.ifsd = slot.t1.ifsd
      /\ slot'.t1.dead = slot.t1.dead
    <2>1. CASE slot' = slot
        BY <2>1
    <2>2. CASE slot' = [slot EXCEPT !.t1 = WithChecksum(@, protocol)]
        <3> DEFINE t == WithChecksum(slot.t1, protocol)
        <3>1. t = [crc |-> t.crc, ifsc |-> slot.t1.ifsc, ifsd |-> slot.t1.ifsd,
                   dead |-> slot.t1.dead]
            BY ChecksumSet
        <3>2. slot' = [atr |-> slot.atr, t1 |-> t]
            BY <2>2 DEF Shapes
        <3> HIDE DEF t
        <3>3. t.ifsc = slot.t1.ifsc /\ t.ifsd = slot.t1.ifsd /\ t.dead = slot.t1.dead
            BY <3>1
        <3>4. QED BY <3>2, <3>3
    <2>3. QED BY <1>3, <2>1, <2>2
<1>5. \/ /\ \E code \in {"NOT_SUPPORTED", "COMMUNICATION_ERROR"} : Return(code)
         /\ UNCHANGED desc
      \/ /\ A.ok /\ pps' = [protocol |-> protocol, pts1 |-> asked] /\ UNCHANGED <<retries, ret>>
         /\ pc' \in {"pps", "params"}
         /\ UNCHANGED desc \/ WaitFor(protocol)
    BY DEF SetProtocolParameters, asked, ToParams
<1>6. CASE /\ \E code \in {"NOT_SUPPORTED", "COMMUNICATION_ERROR"} : Return(code)
           /\ UNCHANGED desc
    <2>1. /\ pc' = "idle" /\ retries' \in 0..3 /\ ret' \in Codes
          /\ pps'.protocol \in {0, 1} /\ pps'.pts1 \in MaybeByte
        BY <1>6, ReturnTypes, SomeCodes
    <2>2. QED BY <1>0, <1>4, <1>6, <2>1 DEF TypeInv, Numbers
<1>7. CASE /\ A.ok /\ pps' = [protocol |-> protocol, pts1 |-> asked] /\ UNCHANGED <<retries, ret>>
           /\ pc' \in {"pps", "params"}
           /\ UNCHANGED desc \/ WaitFor(protocol)
    <2>1. pps'.protocol \in {0, 1} /\ pps'.pts1 \in MaybeByte
        BY <1>2, <1>7
    <2>2. desc'.protocol = desc.protocol /\ desc'.timeout \in Nat
        <3>1. CASE UNCHANGED desc
            BY <3>1 DEF TypeInv, Numbers
        <3>2. CASE WaitFor(protocol)
            <4>1. Timeout(reader.kind, A, protocol) \in Nat
                BY <1>1, <1>7, AtrTypes
            <4>2. desc' = [protocol |-> desc.protocol, timeout |-> Timeout(reader.kind, A, protocol)]
                BY <3>2 DEF WaitFor, Shapes
            <4>3. QED BY <4>1, <4>2
        <3>3. QED BY <1>7, <3>1, <3>2
    <2>3. QED BY <1>0, <1>1, <1>4, <1>7, <2>1, <2>2 DEF TypeInv, Numbers
<1>8. QED BY <1>5, <1>6, <1>7

\* The PPS, confirmed or failed.
LEMMA PpsTypes ==
    ASSUME Shapes, SlotInv, TypeInv, PpsConfirmed \/ PpsFailed
    PROVE  TypeInv'
<1>0. /\ UNCHANGED <<reader, slot>> /\ pc = "pps" /\ slot.atr \in Cards /\ card.ib \in Cards
      /\ pps.protocol \in {0, 1} /\ pps.pts1 \in MaybeByte /\ card.ifsd \in {32, MaxIfsd}
    BY DEF PpsConfirmed, PpsFailed, TypeInv, Numbers
<1>1. ASSUME NEW c \in Agreed(card, pps.protocol, pps.pts1)
      PROVE  c.ib \in Cards /\ c.rate \in 0..255 /\ c.ifsd \in {32, MaxIfsd}
    <2>1. /\ c = [ib |-> card.ib, powered |-> card.powered, rate |-> c.rate,
                  protocol |-> pps.protocol, negotiable |-> FALSE, ifsd |-> card.ifsd]
          /\ c.rate \in {DefaultRate, Or(pps.pts1, DefaultRate)}
        BY <1>1, AgreedCard
    <2>2. DefaultRate \in 0..255 /\ Or(pps.pts1, DefaultRate) \in 0..255
        BY <1>0, CardRates
    <2>3. c.ib = card.ib /\ c.ifsd = card.ifsd
        BY <2>1
    <2>4. QED BY <1>0, <2>1, <2>2, <2>3
<1>2. CASE PpsConfirmed
    <2>1. PICK c \in Agreed(card, pps.protocol, pps.pts1) :
            card' = c /\ pps' = Confirmed(IF c.rate = pps.pts1 THEN pps.pts1 ELSE Absent)
        BY <1>2 DEF PpsConfirmed
    <2>2. card'.ib \in Cards /\ card'.rate \in 0..255 /\ card'.ifsd \in {32, MaxIfsd}
        BY <1>1, <2>1
    <2>3. pps'.protocol \in {0, 1} /\ pps'.pts1 \in MaybeByte
        <3>1. pps' = [protocol |-> pps.protocol, pts1 |-> IF c.rate = pps.pts1 THEN pps.pts1 ELSE Absent]
            BY <2>1 DEF Confirmed, Shapes
        <3>2. Absent \in MaybeByte
            BY DEF MaybeByte
        <3>3. QED BY <1>0, <3>1, <3>2
    <2>4. desc'.protocol = desc.protocol /\ desc'.timeout \in Nat
        <3>1. Timeout(reader.kind, A, pps.protocol) \in Nat
            BY <1>0, AtrTypes
        <3>2. desc' = [protocol |-> desc.protocol, timeout |-> Timeout(reader.kind, A, pps.protocol)]
            BY <1>2 DEF PpsConfirmed, WaitFor, Shapes
        <3>3. QED BY <3>1, <3>2
    <2>5. pc' = "params" /\ UNCHANGED <<ret, retries>>
        BY <1>2 DEF PpsConfirmed, ToParams
    <2>6. QED BY <1>0, <2>2, <2>3, <2>4, <2>5 DEF TypeInv, Numbers
<1>3. CASE PpsFailed
    <2>1. /\ pc' = "idle" /\ retries' \in 0..3 /\ ret' \in Codes
          /\ pps'.protocol \in {0, 1} /\ pps'.pts1 \in MaybeByte /\ UNCHANGED desc
        BY <1>3, ReturnTypes, SomeCodes DEF PpsFailed
    <2>2. card'.ib \in Cards /\ card'.rate \in 0..255 /\ card'.ifsd \in {32, MaxIfsd}
        <3>1. CASE card' = [card EXCEPT !.negotiable = FALSE]
            BY <3>1 DEF Shapes, TypeInv, Numbers
        <3>2. CASE card' \in Agreed(card, pps.protocol, pps.pts1)
            BY <1>1, <3>2
        <3>3. QED BY <1>3, <3>1, <3>2 DEF PpsFailed
    <2>3. QED BY <1>0, <2>1, <2>2 DEF TypeInv, Numbers
<1>4. QED BY <1>2, <1>3

\* SetParameters, taken, kept or failed.
LEMMA ParamsTypes ==
    ASSUME Shapes, SlotInv, TypeInv,
           \/ ParamsTaken \/ ParamsKept
           \/ \E code \in {"NOT_SUPPORTED", "COMMUNICATION_ERROR"} : ParamsFailed(code)
    PROVE  TypeInv'
<1>0. /\ pc = "params" /\ slot.atr \in Cards /\ card.ib \in Cards
      /\ pps.protocol \in {0, 1} /\ pps.pts1 \in MaybeByte /\ card.ifsd \in {32, MaxIfsd}
    BY DEF ParamsTaken, ParamsKept, ParamsFailed, TypeInv, Numbers
<1>1. Ifsc \in 1..254
    BY <1>0, AtrTypes
<1>2. FiDi \in 0..255
    BY <1>0, CardRates DEF FiDi
<1>3. ASSUME AfterParams
      PROVE  /\ slot'.atr = slot.atr /\ slot'.t1.ifsc \in 1..254
             /\ slot'.t1.ifsd = slot.t1.ifsd /\ slot'.t1.dead = slot.t1.dead
             /\ desc'.protocol \in {Absent, 0, 1} /\ desc'.timeout \in Nat
             /\ pc' \in {"idle", "ifsd"} /\ retries' \in 0..3 /\ ret' \in Codes
             /\ pps'.protocol \in {0, 1} /\ pps'.pts1 \in MaybeByte
    <2>1. CASE pps.protocol = 1
        <3>1. /\ slot' = [slot EXCEPT !.t1.ifsc = IF GetIFSC(A) > 0 THEN GetIFSC(A) ELSE @]
              /\ pc' = "ifsd" /\ retries' = 3 /\ UNCHANGED <<desc, pps, ret>>
            BY <1>3, <2>1 DEF AfterParams
        <3> DEFINE x == IF GetIFSC(A) > 0 THEN GetIFSC(A) ELSE slot.t1.ifsc
        <3>2. slot' = [atr |-> slot.atr,
                       t1 |-> [crc |-> slot.t1.crc, ifsc |-> x, ifsd |-> slot.t1.ifsd,
                               dead |-> slot.t1.dead]]
            BY <3>1 DEF Shapes
        <3>3. x \in 1..254
            BY <1>1 DEF Ifsc, TypeInv, Numbers
        <3> HIDE DEF x
        <3>4. /\ slot'.atr = slot.atr /\ slot'.t1.ifsc = x
              /\ slot'.t1.ifsd = slot.t1.ifsd /\ slot'.t1.dead = slot.t1.dead
            BY <3>2
        <3>5. QED BY <1>0, <3>1, <3>3, <3>4 DEF TypeInv, Numbers
    <2>2. CASE pps.protocol # 1
        <3>1. desc' = [desc EXCEPT !.protocol = pps.protocol] /\ Return("SUCCESS") /\ UNCHANGED slot
            BY <1>3, <2>2 DEF AfterParams
        <3>2. desc' = [protocol |-> pps.protocol, timeout |-> desc.timeout]
            BY <3>1 DEF Shapes
        <3>3. ret' \in Codes
            BY <3>1, ReturnTypes, SomeCodes
        <3>4. QED BY <1>0, <3>1, <3>2, <3>3, ReturnTypes DEF TypeInv, Numbers
    <2>3. QED BY <2>1, <2>2
<1>4. CASE ParamsTaken
    <2>1. reader' = [kind |-> reader.kind, fidi |-> FiDi, crc |-> slot.t1.crc,
                     ifsc |-> Ifsc, kept |-> reader.kept] /\ AfterParams
        BY <1>4 DEF ParamsTaken, Shapes
    <2>2. reader'.kind \in Readers /\ reader'.fidi \in 0..255 /\ reader'.ifsc \in 1..254
        BY <1>1, <1>2, <2>1 DEF TypeInv, Numbers
    <2>3. card'.ib \in Cards /\ card'.rate \in 0..255 /\ card'.ifsd \in {32, MaxIfsd}
        <3>1. CASE card' \in Agreed(card, pps.protocol, pps.pts1) /\ card'.rate = FiDi
            <4>1. card' = [ib |-> card.ib, powered |-> card.powered, rate |-> card'.rate,
                           protocol |-> pps.protocol, negotiable |-> FALSE, ifsd |-> card.ifsd]
                BY <3>1, AgreedCard
            <4>2. card'.ib = card.ib /\ card'.ifsd = card.ifsd
                BY <4>1
            <4>3. QED BY <1>0, <1>2, <3>1, <4>2
        <3>2. CASE UNCHANGED card
            BY <3>2 DEF TypeInv, Numbers
        <3>3. QED BY <1>4, <3>1, <3>2 DEF ParamsTaken
    <2>4. QED BY <1>0, <1>3, <2>1, <2>2, <2>3 DEF TypeInv, Numbers
<1>5. CASE ParamsKept
    <2>1. reader' = [kind |-> reader.kind, fidi |-> reader.fidi, crc |-> reader.crc,
                     ifsc |-> reader.ifsc, kept |-> TRUE] /\ AfterParams /\ UNCHANGED card
        BY <1>5 DEF ParamsKept, Shapes
    <2>2. reader'.kind = reader.kind /\ reader'.fidi = reader.fidi /\ reader'.ifsc = reader.ifsc
        BY <2>1
    <2>3. QED BY <1>0, <1>3, <2>1, <2>2 DEF TypeInv, Numbers
<1>6. ASSUME NEW code \in {"NOT_SUPPORTED", "COMMUNICATION_ERROR"}, ParamsFailed(code)
      PROVE  TypeInv'
    <2>1. /\ pc' = "idle" /\ retries' \in 0..3 /\ ret' \in Codes
          /\ pps'.protocol \in {0, 1} /\ pps'.pts1 \in MaybeByte
          /\ UNCHANGED <<reader, card, slot, desc>>
        BY <1>6, ReturnTypes, SomeCodes DEF ParamsFailed
    <2>2. QED BY <1>6, <2>1 DEF TypeInv, Numbers
<1>7. QED BY <1>4, <1>5, <1>6

\* A pass of t1_negotiate_ifsd.
LEMMA NegotiateTypes ==
    ASSUME Shapes, SlotInv, TypeInv, NEW heard \in {Absent, 0, MaxIfsd}, NEW took \in BOOLEAN,
           NegotiateIfsd(heard, took)
    PROVE  TypeInv'
<1>0. UNCHANGED reader /\ pc = "ifsd" /\ slot.atr \in Cards
    BY DEF NegotiateIfsd, TypeInv
<1>1. card'.ib \in Cards /\ card'.rate \in 0..255 /\ card'.ifsd \in {32, MaxIfsd}
    <2>1. card' = [ib |-> card.ib, powered |-> card.powered, rate |-> card.rate,
                   protocol |-> card.protocol, negotiable |-> card.negotiable,
                   ifsd |-> IF took THEN MaxIfsd ELSE card.ifsd]
        BY DEF NegotiateIfsd, Shapes
    <2>2. QED BY <2>1 DEF TypeInv, Numbers
<1>2. CASE slot' = [slot EXCEPT !.t1.dead = TRUE] /\ Return("COMMUNICATION_ERROR") /\ UNCHANGED desc
    <2>1. slot' = [atr |-> slot.atr,
                   t1 |-> [crc |-> slot.t1.crc, ifsc |-> slot.t1.ifsc, ifsd |-> slot.t1.ifsd,
                           dead |-> TRUE]]
        BY <1>2 DEF Shapes
    <2>2. /\ slot'.atr = slot.atr /\ slot'.t1.ifsc = slot.t1.ifsc
          /\ slot'.t1.ifsd = slot.t1.ifsd /\ slot'.t1.dead = TRUE
        BY <2>1
    <2>3. /\ pc' = "idle" /\ retries' \in 0..3 /\ ret' \in Codes
          /\ pps'.protocol \in {0, 1} /\ pps'.pts1 \in MaybeByte
        BY <1>2, ReturnTypes, SomeCodes
    <2>4. QED BY <1>0, <1>1, <1>2, <2>2, <2>3 DEF TypeInv, Numbers
<1>3. CASE /\ slot' = [slot EXCEPT !.t1.ifsd = MaxIfsd]
           /\ desc' = [desc EXCEPT !.protocol = 1] /\ Return("SUCCESS")
    <2>1. /\ slot' = [atr |-> slot.atr,
                      t1 |-> [crc |-> slot.t1.crc, ifsc |-> slot.t1.ifsc, ifsd |-> MaxIfsd,
                              dead |-> slot.t1.dead]]
          /\ desc' = [protocol |-> 1, timeout |-> desc.timeout]
        BY <1>3 DEF Shapes
    <2>2. /\ slot'.atr = slot.atr /\ slot'.t1.ifsc = slot.t1.ifsc
          /\ slot'.t1.ifsd = MaxIfsd /\ slot'.t1.dead = slot.t1.dead
          /\ desc'.protocol = 1 /\ desc'.timeout = desc.timeout
        BY <2>1
    <2>3. /\ pc' = "idle" /\ retries' \in 0..3 /\ ret' \in Codes
          /\ pps'.protocol \in {0, 1} /\ pps'.pts1 \in MaybeByte
        BY <1>3, ReturnTypes, SomeCodes
    <2>4. QED BY <1>0, <1>1, <2>2, <2>3 DEF TypeInv, Numbers
<1>4. CASE retries > 1 /\ retries' = retries - 1 /\ UNCHANGED <<slot, desc, pc, pps, ret>>
    <2>1. retries' \in 0..3
        BY <1>4 DEF TypeInv, Numbers
    <2>2. QED BY <1>0, <1>1, <1>4, <2>1 DEF TypeInv, Numbers
<1>5. QED BY <1>2, <1>3, <1>4 DEF NegotiateIfsd

\* Every step keeps the types.
LEMMA TypesStep == IInv /\ TypeInv /\ [Next]_vars => TypeInv'
<1> SUFFICES ASSUME IInv, TypeInv, [Next]_vars PROVE TypeInv'
    OBVIOUS
<1>0. Shapes /\ SlotInv
    BY DEF IInv
<1>1. CASE UNCHANGED vars
    BY <1>1 DEF vars, TypeInv, Numbers
<1>2. CASE Next
    BY <1>0, <1>2, OutsideTypes, CallTypes, PpsTypes, ParamsTypes, NegotiateTypes DEF Next
<1>3. QED BY <1>1, <1>2

\* Rates are bytes, sizes are those a block can have, the read timeout is a number of
\* milliseconds, whatever an ATR says; the retries stay below four.
THEOREM ParameterTypes == Spec => []TypeOK
<1>1. TypeInv => TypeOK
    BY Zenon DEF TypeInv, Numbers, Codes, TypeOK
<1>2. QED BY <1>1, TypesInit, TypesStep, ParametersInvariance, PTL DEF Spec
=============================================================================
