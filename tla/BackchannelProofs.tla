-------------------------- MODULE BackchannelProofs --------------------------
(***************************************************************************)
(* Theorems about Backchannel, for every clip and description, and every   *)
(* header length and modulus.                                              *)
(***************************************************************************)
EXTENDS Backchannel, TLAPS, WellFoundedInduction, FiniteSetTheorems, SequenceTheorems

-----------------------------------------------------------------------------
(* Numbers.                                                                *)

\* A set of naturals has a least element.
LEMMA LeastNatural ==
  ASSUME NEW S \in SUBSET Nat, S # {}
  PROVE  \E n \in S : \A m \in S : n <= m
<1> DEFINE R == {ss \in Nat \X Nat : ss[1] < ss[2]}
<1>1. R = OpToRel(<, Nat)
  BY DEF OpToRel
<1>2. IsWellFoundedOn(R, Nat)
  BY <1>1, NatLessThanWellFounded
<1>3. ASSUME NEW x \in Nat, NEW y \in Nat, <<x, y>> \notin R PROVE y <= x
  BY <1>3
<1> HIDE DEF R
<1>4. PICK x \in S : \A y \in S : ~(<<y, x>> \in R)
  BY <1>2, WFMin
<1>5. ASSUME NEW y \in S PROVE x <= y
  <2>1. <<y, x>> \notin R
    BY <1>4
  <2>. QED
    BY <2>1, <1>3
<1>. QED
  BY <1>5

\* Induction from n down to 0, as a fact about the set S of the numbers shown.
LEMMA Downward ==
  ASSUME NEW n \in Nat, NEW S,
         \A k \in 0..n : (\A l \in (k + 1)..n : l \in S) => k \in S
  PROVE  \A k \in 0..n : k \in S
<1> DEFINE Left == {m \in 0..n : n - m \notin S}
<1>1. SUFFICES ASSUME Left # {} PROVE FALSE
  <2>1. ASSUME NEW k \in 0..n PROVE k \in S
    <3>1. n - k \in 0..n /\ n - (n - k) = k
      OBVIOUS
    <3>. QED
      BY <1>1, <3>1
  <2>. QED
    BY <2>1
<1>2. PICK m \in Left : \A j \in Left : m <= j
  <2>1. Left \in SUBSET Nat
    OBVIOUS
  <2> HIDE DEF Left
  <2>. QED
    BY <1>1, <2>1, LeastNatural
<1>3. n - m \in 0..n /\ n - m \notin S
  BY <1>2
<1>4. ASSUME NEW l \in (n - m + 1)..n PROVE l \in S
  <2>1. n - l \in 0..n /\ n - l < m /\ n - (n - l) = l
    BY <1>2
  <2>2. n - l \notin Left
    BY <1>2, <2>1
  <2>. QED
    BY <2>1, <2>2
<1>. QED
  BY <1>3, <1>4

\* Induction from 0 up to n, as a fact about the set S of the numbers shown.
LEMMA Upward ==
  ASSUME NEW n \in Nat, NEW S, 0 \in S, \A k \in 1..n : k - 1 \in S => k \in S
  PROVE  \A k \in 0..n : k \in S
<1> DEFINE Left == {k \in 0..n : k \notin S}
<1>1. SUFFICES ASSUME Left # {} PROVE FALSE
  OBVIOUS
<1>2. PICK k \in Left : \A l \in Left : k <= l
  <2>1. Left \in SUBSET Nat
    OBVIOUS
  <2> HIDE DEF Left
  <2>. QED
    BY <1>1, <2>1, LeastNatural
<1>3. k # 0 /\ k \in 1..n /\ k - 1 \in 0..n /\ ~(k <= k - 1)
  BY <1>2
<1>4. k - 1 \notin Left
  BY <1>2, <1>3
<1>. QED
  BY <1>2, <1>3, <1>4

\* Counting on before or after the modulus is the same.
LEMMA NextModulo ==
  ASSUME NEW M \in Nat \ {0}, NEW a \in Nat
  PROVE  (a + 1) % M = ((a % M) + 1) % M
<1> DEFINE r == a % M
           q == a \div M
<1>1. r \in 0..(M - 1) /\ q \in Nat /\ a = q * M + r
  OBVIOUS
<1>2. \A p \in Nat, s \in 0..(M - 1) : (p * M + s) % M = s
  OBVIOUS
<1> HIDE DEF r, q
<1>3. CASE r + 1 < M
  <2>1. r + 1 \in 0..(M - 1) /\ a + 1 = q * M + (r + 1) /\ r + 1 = 0 * M + (r + 1)
    BY <1>1, <1>3
  <2>2. (a + 1) % M = r + 1 /\ (r + 1) % M = r + 1
    BY <1>1, <1>2, <2>1
  <2>. QED
    BY <2>2 DEF r
<1>4. CASE r + 1 = M
  <2>1. /\ 0 \in 0..(M - 1) /\ q + 1 \in Nat /\ a + 1 = (q + 1) * M + 0
        /\ r + 1 = 1 * M + 0
    BY <1>1, <1>4
  <2>2. (a + 1) % M = 0 /\ (r + 1) % M = 0
    BY <1>2, <2>1
  <2>. QED
    BY <2>2 DEF r
<1>. QED
  BY <1>1, <1>3, <1>4

-----------------------------------------------------------------------------
(* The frames of the data.                                                 *)

\* The equation the frames from each offset on satisfy: _parse_adts_frames.
FramesAt(data, from, offset) ==
  CASE ~Scans(offset, data)     -> <<>>
    [] Scans(offset, data) /\ ~data[offset + 1].sync
                                -> from[offset + 1]
    [] Scans(offset, data) /\ data[offset + 1].sync /\ Unusable(offset, data)
                                -> <<>>
    [] OTHER                    -> <<Frame(offset, data[offset + 1])>>
                                   \o from[offset + data[offset + 1].length]

Solves(data, from) == from = [offset \in 0..Len(data) |-> FramesAt(data, from, offset)]

\* The types of the fields of a byte.
LEMMA ByteAt ==
  ASSUME NEW data \in Seq(Byte), NEW k \in 1..Len(data)
  PROVE  data[k] \in Byte /\ data[k].length \in Nat /\ data[k].crc \in BOOLEAN
<1>1. data[k] \in Byte
  OBVIOUS
<1>. QED
  BY <1>1 DEF Byte

\* Each step of the scan: it ends, moves on a byte, or takes a frame.
LEMMA ScanStep ==
  ASSUME NEW data \in Seq(Byte), NEW from, NEW k \in 0..Len(data)
  PROVE  \/ FramesAt(data, from, k) = <<>>
         \/ k + 1 \in (k + 1)..Len(data) /\ FramesAt(data, from, k) = from[k + 1]
         \/ /\ data[k + 1] \in Byte
            /\ data[k + 1].length \in Nat /\ data[k + 1].length >= HeaderLen
            /\ k + data[k + 1].length \in (k + 1)..Len(data)
            /\ FramesAt(data, from, k) =
                 <<Frame(k, data[k + 1])>> \o from[k + data[k + 1].length]
<1>1. HeaderLen \in Nat /\ HeaderLen >= 1
  BY AdtsAssumption
<1>2. CASE ~Scans(k, data)
  BY <1>2 DEF FramesAt
<1>3. CASE Scans(k, data)
  <2>1. k + 1 \in (k + 1)..Len(data) /\ k + 1 \in 1..Len(data)
    BY <1>1, <1>3 DEF Scans
  <2>2. data[k + 1] \in Byte /\ data[k + 1].length \in Nat
    BY <2>1, ByteAt
  <2>3. CASE ~data[k + 1].sync
    BY <1>3, <2>1, <2>3 DEF FramesAt
  <2>4. CASE data[k + 1].sync /\ Unusable(k, data)
    BY <1>3, <2>4 DEF FramesAt
  <2>5. CASE data[k + 1].sync /\ ~Unusable(k, data)
    <3>1. /\ data[k + 1].length >= HeaderLen
          /\ k + data[k + 1].length \in (k + 1)..Len(data)
      BY <1>1, <2>2, <2>5 DEF Unusable
    <3>2. FramesAt(data, from, k) = <<Frame(k, data[k + 1])>> \o from[k + data[k + 1].length]
      BY <1>3, <2>5 DEF FramesAt
    <3>. QED
      BY <2>2, <3>1, <3>2
  <2>. QED
    BY <2>2, <2>3, <2>4, <2>5
<1>. QED
  BY <1>2, <1>3

\* What is found at an offset depends on later offsets only.
LEMMA LooksAhead ==
  ASSUME NEW data \in Seq(Byte), NEW f, NEW g, NEW k \in 0..Len(data),
         \A l \in (k + 1)..Len(data) : f[l] = g[l]
  PROVE  FramesAt(data, f, k) = FramesAt(data, g, k)
<1>1. HeaderLen \in Nat /\ HeaderLen >= 1
  BY AdtsAssumption
<1>2. CASE ~Scans(k, data)
  BY <1>2 DEF FramesAt
<1>3. CASE Scans(k, data)
  <2>1. k + 1 \in (k + 1)..Len(data) /\ k + 1 \in 1..Len(data)
    BY <1>1, <1>3 DEF Scans
  <2>2. data[k + 1].length \in Nat
    BY <2>1, ByteAt
  <2>3. CASE ~data[k + 1].sync
    BY <1>3, <2>1, <2>3 DEF FramesAt
  <2>4. CASE data[k + 1].sync /\ Unusable(k, data)
    BY <1>3, <2>4 DEF FramesAt
  <2>5. CASE data[k + 1].sync /\ ~Unusable(k, data)
    <3>1. k + data[k + 1].length \in (k + 1)..Len(data)
      BY <1>1, <2>2, <2>5 DEF Unusable
    <3>2. f[k + data[k + 1].length] = g[k + data[k + 1].length]
      BY <3>1
    <3>. QED
      BY <1>3, <2>5, <3>2 DEF FramesAt
  <2>. QED
    BY <2>3, <2>4, <2>5
<1>. QED
  BY <1>2, <1>3

\* The recursion is well founded: a frame has at least the length of its header.
LEMMA Recursion ==
  ASSUME NEW data \in Seq(Byte)
  PROVE  \E from : Solves(data, from) /\ ParseAdtsFrames(data) = from[0]
<1> DEFINE n == Len(data)
           Good(k, g) == \A x \in k..n : g[x] = FramesAt(data, g, x)
           Done == {k \in 0..n : \E g : Good(k, g)}
<1>1. n \in Nat
  OBVIOUS
<1> HIDE DEF n
<1>2. ASSUME NEW k \in 0..n, \A l \in (k + 1)..n : l \in Done PROVE k \in Done
  <2>1. \E g : \A x \in (k + 1)..n : g[x] = FramesAt(data, g, x)
    <3>1. CASE k = n
      BY <1>1, <3>1
    <3>2. CASE k # n
      <4>1. k + 1 \in (k + 1)..n
        BY <1>1, <3>2
      <4>. QED
        BY <1>2, <4>1
    <3>. QED
      BY <3>1, <3>2
  <2>2. PICK g : \A x \in (k + 1)..n : g[x] = FramesAt(data, g, x)
    BY <2>1
  <2> DEFINE h == [x \in k..n |-> IF x = k THEN FramesAt(data, g, k) ELSE g[x]]
  <2>3. \A x \in (k + 1)..n : h[x] = g[x]
    BY <1>1
  <2>4. h[k] = FramesAt(data, g, k)
    BY <1>1
  <2> HIDE DEF h
  <2>5. ASSUME NEW x \in k..n PROVE h[x] = FramesAt(data, h, x)
    <3>1. FramesAt(data, h, x) = FramesAt(data, g, x)
      <4>1. x \in 0..Len(data) /\ \A l \in (x + 1)..Len(data) : l \in (k + 1)..n
        BY <1>1 DEF n
      <4>. QED
        BY <2>3, <4>1, LooksAhead
    <3>2. CASE x = k
      BY <2>4, <3>1, <3>2
    <3>3. CASE x # k
      <4>1. x \in (k + 1)..n
        BY <1>1, <3>3
      <4>. QED
        BY <2>2, <2>3, <3>1, <4>1
    <3>. QED
      BY <3>2, <3>3
  <2>. QED
    BY <2>5
<1>3. 0 \in Done
  <2> HIDE DEF Done
  <2>1. 0 \in 0..n
    BY <1>1
  <2>. QED
    BY <1>1, <1>2, <2>1, Downward
<1>4. PICK g : Good(0, g)
  BY <1>3
<1> DEFINE from == [x \in 0..n |-> g[x]]
<1>5. \A x \in 0..n : from[x] = g[x]
  OBVIOUS
<1>6. ASSUME NEW x \in 0..n PROVE from[x] = FramesAt(data, from, x)
  <2> HIDE DEF from
  <2>1. x \in 0..Len(data) /\ \A l \in (x + 1)..Len(data) : l \in 0..n
    BY <1>1 DEF n
  <2>2. FramesAt(data, from, x) = FramesAt(data, g, x)
    BY <1>5, <2>1, LooksAhead
  <2>. QED
    BY <1>4, <1>5, <2>2
<1>7. Solves(data, from)
  BY <1>6 DEF Solves, n
<1>8. ParseAdtsFrames(data) = (CHOOSE f : Solves(data, f))[0]
  BY Zenon DEF ParseAdtsFrames, Solves, FramesAt
<1>9. Solves(data, CHOOSE f : Solves(data, f))
  BY <1>7
<1>. QED
  BY <1>8, <1>9

\* A sequence with an element put in front of it.
LEMMA Prepended ==
  ASSUME NEW S, NEW x \in S, NEW r \in Seq(S), NEW w, w = <<x>> \o r
  PROVE  /\ w \in Seq(S) /\ Len(w) = Len(r) + 1 /\ w[1] = x
         /\ \A i \in DOMAIN w : i # 1 => i - 1 \in DOMAIN r /\ w[i] = r[i - 1]
<1>1. w \in Seq(S) /\ Len(w) = Len(r) + 1 /\ w[1] = x
  OBVIOUS
<1>2. ASSUME NEW i \in DOMAIN w, i # 1 PROVE i - 1 \in DOMAIN r /\ w[i] = r[i - 1]
  <2>1. i \in 2..(Len(r) + 1)
    BY <1>1, <1>2
  <2>. QED
    BY <2>1
<1>. QED
  BY <1>1, <1>2

\* Frames of the data, none of which begins before the offset k.
PiecesFrom(data, k, s) ==
  /\ s \in Seq(FrameAt)
  /\ PiecesOf(data, s)
  /\ \A i \in DOMAIN s : k <= s[i].at

\* A frame in front of those that begin where it ends.
LEMMA FrameInFront ==
  ASSUME NEW data \in Seq(Byte), NEW k \in 0..Len(data), NEW byte \in Byte,
         byte.length >= HeaderLen, k + byte.length \in (k + 1)..Len(data),
         NEW r, PiecesFrom(data, k + byte.length, r)
  PROVE  PiecesFrom(data, k, <<Frame(k, byte)>> \o r)
<1> DEFINE x == Frame(k, byte)
           w == <<x>> \o r
           e == k + byte.length
<1>1. x \in FrameAt /\ x.at = k /\ x.length = byte.length
  BY DEF Byte, Frame, FrameAt
<1>2. x.length \in Nat /\ x.length > 0 /\ End(x) = e /\ e \in (k + 1)..Len(data)
  BY <1>1 DEF End, Byte
<1>3. r \in Seq(FrameAt) /\ PiecesOf(data, r) /\ \A i \in DOMAIN r : e <= r[i].at
  BY DEF PiecesFrom
<1> HIDE DEF x, e
<1>4. /\ w \in Seq(FrameAt) /\ Len(w) = Len(r) + 1 /\ w[1] = x
      /\ \A i \in DOMAIN w : i # 1 => i - 1 \in DOMAIN r /\ w[i] = r[i - 1]
  BY <1>1, <1>3, Prepended
<1> HIDE DEF w
<1>5. ASSUME NEW i \in DOMAIN w
      PROVE  /\ w[i].length > 0 /\ End(w[i]) <= Len(data) /\ k <= w[i].at
             /\ i > 1 => End(w[i - 1]) <= w[i].at
  <2>1. CASE i = 1
    BY <1>1, <1>2, <1>4, <2>1
  <2>2. CASE i # 1
    <3>1. i - 1 \in DOMAIN r /\ w[i] = r[i - 1] /\ i \in 1..(Len(r) + 1)
      BY <1>4, <2>2
    <3>2. w[i].length > 0 /\ End(w[i]) <= Len(data)
      BY <1>3, <3>1 DEF PiecesOf
    <3>3. e <= w[i].at /\ w[i].at \in Nat
      <4>1. r[i - 1] \in FrameAt
        BY <1>3, <3>1
      <4>. QED
        BY <1>3, <3>1, <4>1 DEF FrameAt
    <3>4. End(w[i - 1]) <= w[i].at
      <4>1. CASE i = 2
        BY <1>2, <1>4, <3>3, <4>1
      <4>2. CASE i # 2
        <5>1. i - 1 \in DOMAIN w /\ i - 1 # 1 /\ i - 1 > 1
          BY <1>3, <1>4, <2>2, <3>1, <4>2
        <5>2. w[i - 1] = r[(i - 1) - 1]
          BY <1>4, <5>1
        <5>. QED
          BY <1>3, <3>1, <5>1, <5>2 DEF PiecesOf
      <4>. QED
        BY <4>1, <4>2
    <3>. QED
      BY <1>2, <3>2, <3>3, <3>4
  <2>. QED
    BY <2>1, <2>2
<1>6. PiecesOf(data, w) /\ \A i \in DOMAIN w : k <= w[i].at
  BY <1>5 DEF PiecesOf
<1>. QED
  BY <1>4, <1>6 DEF PiecesFrom, w, x

\* What the parser returns, from any data: pieces of it, in order and apart.
LEMMA ParsedPieces ==
  ASSUME NEW data \in Seq(Byte)
  PROVE  ParseAdtsFrames(data) \in Seq(FrameAt) /\ PiecesOf(data, ParseAdtsFrames(data))
<1>1. PICK from : Solves(data, from) /\ ParseAdtsFrames(data) = from[0]
  BY Recursion
<1> DEFINE Done == {k \in 0..Len(data) : PiecesFrom(data, k, from[k])}
<1>2. ASSUME NEW k \in 0..Len(data), \A l \in (k + 1)..Len(data) : l \in Done
      PROVE  k \in Done
  <2>1. from[k] = FramesAt(data, from, k)
    BY <1>1 DEF Solves
  <2>2. CASE FramesAt(data, from, k) = <<>>
    <3>1. PiecesFrom(data, k, <<>>)
      BY DEF PiecesFrom, PiecesOf
    <3>. QED
      BY <2>1, <2>2, <3>1
  <2>3. CASE k + 1 \in (k + 1)..Len(data) /\ FramesAt(data, from, k) = from[k + 1]
    <3>1. PiecesFrom(data, k + 1, from[k])
      BY <1>2, <2>1, <2>3
    <3>2. ASSUME NEW s, PiecesFrom(data, k + 1, s) PROVE PiecesFrom(data, k, s)
      <4>1. ASSUME NEW i \in DOMAIN s PROVE k <= s[i].at
        <5>1. s[i] \in FrameAt /\ k + 1 <= s[i].at
          BY <3>2 DEF PiecesFrom
        <5>2. s[i].at \in Nat
          BY <5>1 DEF FrameAt
        <5>. QED
          BY <5>1, <5>2
      <4>. QED
        BY <3>2, <4>1 DEF PiecesFrom
    <3>. QED
      BY <3>1, <3>2
  <2>4. CASE /\ data[k + 1] \in Byte
             /\ data[k + 1].length \in Nat /\ data[k + 1].length >= HeaderLen
             /\ k + data[k + 1].length \in (k + 1)..Len(data)
             /\ FramesAt(data, from, k) =
                  <<Frame(k, data[k + 1])>> \o from[k + data[k + 1].length]
    <3>1. PiecesFrom(data, k + data[k + 1].length, from[k + data[k + 1].length])
      BY <1>2, <2>4
    <3>2. PiecesFrom(data, k, from[k])
      BY <2>1, <2>4, <3>1, FrameInFront
    <3>. QED
      BY <3>2
  <2>. QED
    BY <2>2, <2>3, <2>4, ScanStep
<1>3. 0 \in Done
  <2>1. Len(data) \in Nat /\ 0 \in 0..Len(data)
    OBVIOUS
  <2> HIDE DEF Done
  <2>. QED
    BY <1>2, <2>1, Downward
<1>. QED
  BY <1>1, <1>3 DEF PiecesFrom

\* A sequence without its last element.
LEMMA Shortened ==
  ASSUME NEW S, NEW w \in Seq(S), Len(w) > 0, NEW front, front = SubSeq(w, 1, Len(w) - 1)
  PROVE  /\ front \in Seq(S) /\ Len(front) = Len(w) - 1
         /\ \A i \in 1..(Len(w) - 1) : i \in DOMAIN w /\ front[i] = w[i]
<1>1. /\ 1 \in Int /\ Len(w) - 1 \in Int
      /\ \A i \in 1..(Len(w) - 1) : i \in DOMAIN w /\ w[i] \in S /\ 1 + i - 1 = i
  OBVIOUS
<1>2. /\ front \in Seq(S)
      /\ Len(front) = IF 1 <= Len(w) - 1 THEN Len(w) - 1 - 1 + 1 ELSE 0
      /\ \A i \in 1..(Len(w) - 1 - 1 + 1) : front[i] = w[1 + i - 1]
  BY <1>1, SubSeqProperties
<1>3. /\ Len(w) - 1 - 1 + 1 = Len(w) - 1
      /\ (IF 1 <= Len(w) - 1 THEN Len(w) - 1 - 1 + 1 ELSE 0) = Len(w) - 1
  <2>1. \A k \in Nat : k > 0 => /\ k - 1 - 1 + 1 = k - 1
                              /\ (IF 1 <= k - 1 THEN k - 1 - 1 + 1 ELSE 0) = k - 1
    OBVIOUS
  <2>2. Len(w) \in Nat
    OBVIOUS
  <2>. QED
    BY <2>1, <2>2
<1>4. ASSUME NEW i \in 1..(Len(w) - 1) PROVE front[i] = w[i]
  BY <1>1, <1>2, <1>3
<1>. QED
  BY <1>1, <1>2, <1>3, <1>4

\* The frames a clip was made of, but for a bare header at its end.
Recoverable(made) ==
  IF made # <<>> /\ made[Len(made)].length = HeaderLen
    THEN SubSeq(made, 1, Len(made) - 1) ELSE made

\* Where the parser ends, for a clip that is laid out.
LEMMA ScanEnds ==
  ASSUME NEW data \in Seq(Byte), NEW made \in Seq(FrameAt), LaidOut(data, made),
         NEW i \in DOMAIN made
  PROVE  /\ made[i].at \in 0..Len(data) /\ made[i].length \in Nat
         /\ made[i].length >= HeaderLen
         /\ End(made[i]) \in (made[i].at + 1)..Len(data)
         /\ i # Len(made) => End(made[i]) = made[i + 1].at /\ End(made[i]) < Len(data)
         /\ i = Len(made) => End(made[i]) = Len(data)
<1>1. HeaderLen \in Nat /\ HeaderLen >= 1
  BY AdtsAssumption
<1>2. ASSUME NEW j \in DOMAIN made
      PROVE  /\ made[j].at \in 0..Len(data) /\ made[j].length \in Nat
             /\ made[j].length >= HeaderLen
             /\ End(made[j]) \in (made[j].at + 1)..Len(data)
  <2>1. made[j] \in FrameAt
    OBVIOUS
  <2>2. made[j].at \in Nat /\ made[j].length \in Nat
    BY <2>1 DEF FrameAt
  <2>3. made[j].length >= HeaderLen /\ End(made[j]) <= Len(data)
    BY DEF LaidOut
  <2>. QED
    BY <1>1, <2>2, <2>3 DEF End
<1>3. CASE i = Len(made)
  <2>1. made # <<>>
    OBVIOUS
  <2>2. Len(data) = End(made[Len(made)])
    BY <2>1 DEF LaidOut
  <2>. QED
    BY <1>2, <1>3, <2>2
<1>4. CASE i # Len(made)
  <2>1. i + 1 \in DOMAIN made /\ i + 1 # 1 /\ (i + 1) - 1 = i
    BY <1>4
  <2>2. made[i + 1].at = End(made[i])
    BY <2>1 DEF LaidOut
  <2>. QED
    BY <1>2, <1>4, <2>1, <2>2
<1>. QED
  BY <1>3, <1>4

\* What the parser returns from a clip that is laid out: the frames it was made
\* of, whatever is in them, and all but a bare header at its end.
LEMMA ParsedWhole ==
  ASSUME NEW data \in Seq(Byte), NEW made \in Seq(FrameAt), LaidOut(data, made)
  PROVE  ParseAdtsFrames(data) = Recoverable(made)
<1> DEFINE kept == Recoverable(made)
           n == Len(kept)
           m == Len(made)
<1>1. /\ n \in Nat /\ m \in Nat /\ kept \in Seq(FrameAt)
      /\ n = m \/ (m > 0 /\ n = m - 1)
      /\ n = m => (m = 0 \/ made[m].length # HeaderLen)
      /\ n # m => made[m].length = HeaderLen
      /\ \A i \in 1..n : i \in DOMAIN made /\ kept[i] = made[i]
  <2>1. m \in Nat /\ (made # <<>> <=> m > 0)
    OBVIOUS
  <2>2. CASE m > 0 /\ made[m].length = HeaderLen
    <3>1. kept = SubSeq(made, 1, m - 1)
      BY <2>1, <2>2 DEF Recoverable
    <3>2. /\ kept \in Seq(FrameAt) /\ n = m - 1
          /\ \A i \in 1..(m - 1) : i \in DOMAIN made /\ kept[i] = made[i]
      BY <2>1, <2>2, <3>1, Shortened
    <3>. QED
      BY <2>1, <2>2, <3>2
  <2>3. CASE ~(m > 0 /\ made[m].length = HeaderLen)
    <3>1. kept = made
      BY <2>1, <2>3 DEF Recoverable
    <3>. QED
      BY <2>1, <2>3, <3>1
  <2>. QED
    BY <2>2, <2>3
<1>2. PICK from : Solves(data, from) /\ ParseAdtsFrames(data) = from[0]
  BY Recursion
\* The frames from the end of frame i on are those after it.
<1> DEFINE at(i) == IF i = 0 THEN 0 ELSE End(made[i])
           Rest(i, s) == /\ s \in Seq(FrameAt)
                         /\ Len(s) = n - i
                         /\ \A j \in 1..(n - i) : s[j] = kept[i + j]
           Done == {i \in 0..n : Rest(i, from[at(i)])}
<1>3. HeaderLen \in Nat /\ HeaderLen >= 1 /\ Len(data) \in Nat
  BY AdtsAssumption
<1> HIDE DEF n, m
<1>4. ASSUME NEW i \in 0..n, \A l \in (i + 1)..n : l \in Done PROVE i \in Done
  <2>1. at(i) \in 0..Len(data)
    <3>1. CASE i # 0
      <4>1. i \in DOMAIN made
        BY <1>1, <3>1
      <4>2. End(made[i]) \in (made[i].at + 1)..Len(data) /\ made[i].at \in 0..Len(data)
        BY <4>1, ScanEnds
      <4>. QED
        BY <1>3, <3>1, <4>2
    <3>. QED
      BY <1>3, <3>1
  <2>2. from[at(i)] = FramesAt(data, from, at(i))
    <3> HIDE DEF at
    <3>. QED
      BY <1>2, <2>1 DEF Solves
  <2>3. CASE i = n
    <3>1. ~Scans(at(i), data)
      <4>1. CASE m = 0
        <5>1. Len(data) = 0
          BY <4>1 DEF LaidOut, m
        <5>. QED
          BY <1>3, <2>1, <5>1 DEF Scans
      <4>2. CASE m # 0 /\ n = m
        <5>1. m \in DOMAIN made /\ i # 0
          BY <1>1, <2>3, <4>2 DEF m
        <5>2. End(made[m]) = Len(data)
          BY <5>1, ScanEnds DEF m
        <5>. QED
          BY <1>3, <2>3, <4>2, <5>1, <5>2 DEF Scans
      <4>3. CASE m # 0 /\ n # m
        <5>1. m \in DOMAIN made /\ i = m - 1 /\ made[m].length = HeaderLen
          BY <1>1, <2>3, <4>3 DEF m
        <5>2. End(made[m]) = Len(data) /\ made[m].at \in Nat
          BY <5>1, ScanEnds DEF m
        <5>3. made[m].at + HeaderLen = Len(data)
          BY <5>1, <5>2 DEF End
        <5>4. made[m].at = at(i)
          BY <5>1 DEF LaidOut
        <5>. QED
          BY <1>3, <5>3, <5>4 DEF Scans
      <4>. QED
        BY <4>1, <4>2, <4>3
    <3>2. from[at(i)] = <<>>
      BY <2>2, <3>1 DEF FramesAt
    <3>3. Rest(i, <<>>)
      <4>1. n - i = 0
        BY <1>1, <2>3
      <4>. QED
        BY <4>1
    <3>. QED
      BY <3>2, <3>3
  <2>4. CASE i # n
    <3> DEFINE x == made[i + 1]
    <3>1. i + 1 \in (i + 1)..n /\ i + 1 \in DOMAIN made /\ kept[i + 1] = x
      BY <1>1, <2>4
    <3>2. /\ x.at \in 0..Len(data) /\ x.length \in Nat /\ x.length >= HeaderLen
          /\ End(x) \in (x.at + 1)..Len(data)
      BY <3>1, ScanEnds
    <3>3. x.at = at(i) /\ data[x.at + 1] = Sync(x.length, x.crc)
      BY <3>1 DEF LaidOut
    <3>4. x \in FrameAt
      BY <3>1
    <3>5. at(i) + HeaderLen < Len(data)
      <4>1. CASE i + 1 # m
        <5>1. End(x) < Len(data)
          BY <3>1, <4>1, ScanEnds DEF m
        <5>. QED
          BY <1>3, <3>2, <3>3, <5>1 DEF End
      <4>2. CASE i + 1 = m
        <5>1. End(x) = Len(data) /\ x.length # HeaderLen
          <6>1. n = m
            BY <1>1, <2>4, <4>2
          <6>. QED
            BY <1>1, <3>1, <4>2, <6>1, ScanEnds DEF m
        <5>. QED
          BY <1>3, <3>2, <3>3, <5>1 DEF End
      <4>. QED
        BY <4>1, <4>2
    <3>6. Scans(at(i), data)
      BY <3>5 DEF Scans
    <3>7. /\ data[at(i) + 1].sync = TRUE /\ data[at(i) + 1].length = x.length
          /\ Frame(at(i), data[at(i) + 1]) = x
      BY <3>3, <3>4 DEF Sync, Frame, FrameAt
    <3>8. ~Unusable(at(i), data)
      BY <1>3, <3>2, <3>3, <3>7 DEF Unusable, End
    <3>9. at(i) + x.length = at(i + 1)
      BY <2>1, <3>2, <3>3 DEF End
    <3>10. from[at(i)] = <<x>> \o from[at(i + 1)]
      <4> HIDE DEF at, x
      <4>. QED
        BY <2>2, <3>6, <3>7, <3>8, <3>9 DEF FramesAt
    <3>11. Rest(i + 1, from[at(i + 1)])
      BY <1>4, <3>1
    <3> HIDE DEF at, x
    <3>12. /\ from[at(i)] \in Seq(FrameAt)
           /\ Len(from[at(i)]) = Len(from[at(i + 1)]) + 1 /\ from[at(i)][1] = x
           /\ \A j \in DOMAIN from[at(i)] :
                j # 1 => /\ j - 1 \in DOMAIN from[at(i + 1)]
                         /\ from[at(i)][j] = from[at(i + 1)][j - 1]
      BY <3>4, <3>10, <3>11, Prepended
    <3>13. Len(from[at(i)]) = n - i
      BY <1>1, <3>11, <3>12
    <3>14. ASSUME NEW j \in 1..(n - i) PROVE from[at(i)][j] = kept[i + j]
      <4>1. CASE j = 1
        BY <3>1, <3>12, <4>1
      <4>2. CASE j # 1
        <5>1. j \in DOMAIN from[at(i)]
          BY <3>12, <3>13
        <5>2. from[at(i)][j] = from[at(i + 1)][j - 1] /\ j - 1 \in 1..(n - (i + 1))
          BY <1>1, <3>12, <4>2, <5>1
        <5>3. (i + 1) + (j - 1) = i + j
          BY <1>1
        <5>. QED
          BY <3>11, <5>2, <5>3
      <4>. QED
        BY <4>1, <4>2
    <3>. QED
      BY <3>12, <3>13, <3>14
  <2>. QED
    BY <2>3, <2>4
<1>5. 0 \in Done
  <2>1. 0 \in 0..n
    BY <1>1
  <2> HIDE DEF Done
  <2>. QED
    BY <1>1, <1>4, <2>1, Downward
<1>6. /\ from[0] \in Seq(FrameAt) /\ Len(from[0]) = n
      /\ \A j \in 1..n : from[0][j] = kept[j]
  BY <1>1, <1>5
<1>7. from[0] = kept
  <2>1. kept \in Seq(FrameAt) /\ Len(kept) = n
    BY <1>1 DEF n
  <2> HIDE DEF kept
  <2>. QED
    BY <1>6, <2>1
<1>. QED
  BY <1>2, <1>7

-----------------------------------------------------------------------------
(* The inductive invariant.                                                *)

Results == {"pending", "done", "runtime_error", "unbound_local", "raised", "timeout",
            "cancelled"}
Packet == [frame : Nat, seq : 0..(SeqModulus - 1), ts : 0..(TsModulus - 1), marker : BOOLEAN]

\* Awaits inside the try block.
Talking == Requests \cup {"frame", "pause"}

Types ==
  /\ clip.bytes \in Seq(Byte) /\ clip.made \in Seq(FrameAt)
  /\ frames \in Seq(FrameAt)
  /\ pc \in Talking \cup {"start", "connect", "closing", "over"}
  /\ answer \in Response /\ sent \in Response
  /\ next \in 1..(Len(frames) + 1)
  /\ seq \in 0..(SeqModulus - 1) /\ ts \in Nat
  /\ result \in Results
  /\ written \in Seq(Packet)
  /\ inbox \in Requests \cup {"none"}
  /\ accepted \in SUBSET Requests
  /\ drained \in BOOLEAN /\ reading \in BOOLEAN /\ closed \in BOOLEAN /\ open \in BOOLEAN

\* The frames are those of the clip, and the call goes on only if there are some.
Parsed ==
  /\ pc = "start" => next = 1
  /\ pc # "start" => frames = ParseAdtsFrames(clip.bytes)
  /\ pc \in Talking \cup {"connect"} => frames # <<>>

\* The connection is open inside the try block, where nothing has ended yet.
Connection ==
  /\ open <=> pc \in Talking
  /\ pc \in Talking \cup {"start", "connect"} => result = "pending"

\* No request is with the device and nothing it said is unread.
Quiet == inbox = "none" /\ sent = Nothing

\* What is on its way belongs to the request whose response is awaited: a 200
\* in it is the device's answer to this request, and the last of it is the last
\* the device sends.
Wire ==
  /\ closed => inbox = "none"
  /\ pc \in {"start", "connect", "frame", "pause"} => Quiet
  /\ pc \in Requests /\ ~drained => answer = Nothing
  /\ pc \in Requests /\ ~Listening => Quiet
  /\ pc \in Requests => inbox \in {pc, "none"}
  /\ pc \in Requests /\ sent.ok => pc \in accepted
  /\ sent.part = "all" => inbox = "none"
  /\ sent \in Pieces \cup {Nothing}

\* What the device has accepted by the time a request is sent; a 200 the call
\* has read is the device's answer to this request.
Dialogue ==
  /\ pc \in Requests /\ answer.ok => pc \in accepted
  /\ pc \in {"setup", "play", "frame", "pause", "teardown"} => "authorized" \in accepted
  /\ pc \in {"play", "frame", "pause", "teardown"} => "setup" \in accepted
  /\ pc \in {"frame", "pause", "teardown"} => "play" \in accepted
  /\ pc \in {"start", "connect", "describe", "authorized", "setup", "play"} => written = <<>>
  /\ written # <<>> => {"authorized", "setup", "play"} \subseteq accepted

Audible == {j \in DOMAIN frames : HasAudio(frames[j])}
Before(i) == {j \in Audible : j < i}
UpTo(i) == {j \in Audible : j <= i}

\* The nth packet is the nth frame with audio, the last frame is marked, and the
\* numbers of the packets are consecutive.
PacketsInOrder ==
  /\ \A n \in DOMAIN written :
       /\ written[n].frame \in Audible
       /\ Cardinality(UpTo(written[n].frame)) = n
       /\ written[n].marker = (written[n].frame = Len(frames))
  /\ \A n \in 1..(Len(written) - 1) :
       /\ written[n + 1].seq = (written[n].seq + 1) % SeqModulus
       /\ written[n + 1].ts = (written[n].ts + 1) % TsModulus

\* The counters are those of the last packet.
Counters(number, stamp) ==
  written # <<>> => /\ written[Len(written)].seq = number
                    /\ written[Len(written)].ts = stamp % TsModulus

\* How far the stream is.
Streamed ==
  /\ PacketsInOrder
  /\ pc = "frame" => /\ Len(written) = Cardinality(Before(next))
                     /\ Counters(seq, ts)
  /\ pc \in {"pause", "teardown"} => Len(written) = Cardinality(Audible)
  /\ result = "done" => frames # <<>> /\ Len(written) = Cardinality(Audible)

IInv == Types /\ Parsed /\ Connection /\ Wire /\ Dialogue /\ Streamed

-----------------------------------------------------------------------------
(* The steps.                                                              *)

\* Moduli and header lengths, and the frames there are to count.
LEMMA Moduli == SeqModulus \in Nat \ {0} /\ TsModulus \in Nat \ {0}
BY BackchannelAssumption

\* The frames with audio are finitely many positions in the clip.
LEMMA AudibleFacts ==
  ASSUME Types
  PROVE  /\ Len(frames) \in Nat /\ Audible \in SUBSET (1..Len(frames))
         /\ IsFiniteSet(Audible) /\ Cardinality(Audible) \in Nat
<1>1. Len(frames) \in Nat /\ Audible \in SUBSET (1..Len(frames))
  BY DEF Types, Audible
<1>2. IsFiniteSet(1..Len(frames))
  BY <1>1, FS_Interval
<1>. QED
  BY <1>1, <1>2, FS_Subset, FS_CardinalityType

\* A packet, or the end of the stream: with the packets of the frames before i
\* written, WritesFrom(i, ...) writes the next one.
LEMMA WritesNext ==
  ASSUME Types, PacketsInOrder, UNCHANGED frames,
         NEW i \in 1..(Len(frames) + 1), NEW number \in 0..(SeqModulus - 1), NEW stamp \in Nat,
         WritesFrom(i, number, stamp),
         Len(written) = Cardinality(Before(i)),
         written # <<>> => /\ written[Len(written)].seq = number
                           /\ stamp % TsModulus = (written[Len(written)].ts + 1) % TsModulus
  PROVE  /\ pc' \in {"frame", "pause"}
         /\ next' \in 1..(Len(frames) + 1) /\ seq' \in 0..(SeqModulus - 1)
         /\ written' \in Seq(Packet)
         /\ PacketsInOrder'
         /\ pc' = "frame" => /\ Len(written') = Cardinality(Before(next)')
                             /\ written'[Len(written')].seq = seq'
                             /\ written'[Len(written')].ts = stamp % TsModulus
         /\ pc' = "pause" => Len(written') = Cardinality(Audible')
<1> DEFINE rest == {j \in i..Len(frames) : HasAudio(frames[j])}
<1>1. Len(frames) \in Nat /\ Audible \in SUBSET (1..Len(frames)) /\ IsFiniteSet(Audible)
  BY AudibleFacts
<1>2. rest = Audible \ Before(i) /\ Audible' = Audible
  BY <1>1 DEF Audible, Before, Types
<1>3. CASE rest = {}
  <2>1. pc' = "pause" /\ next' = Len(frames) + 1 /\ seq' = number /\ UNCHANGED written
    BY <1>3 DEF WritesFrom
  <2>2. Before(i) = Audible
    BY <1>2, <1>3 DEF Before
  <2>3. PacketsInOrder'
    BY <1>2, <2>1 DEF PacketsInOrder, UpTo
  <2>. QED
    BY <1>1, <1>2, <2>1, <2>2, <2>3 DEF Types
<1>4. CASE rest # {}
  <2> DEFINE j == CHOOSE k \in rest : \A l \in rest : k <= l
             new == Wrapped(number + Counted(i, j))
             p == [frame |-> j, seq |-> new, ts |-> stamp % TsModulus, marker |-> Marked(j)]
             m == Len(written)
  <2>1. pc' = "frame" /\ next' = j + 1 /\ seq' = new /\ written' = Append(written, p)
    BY <1>4 DEF WritesFrom
  <2>2. j \in rest /\ \A l \in rest : j <= l
    <3>1. rest \in SUBSET Nat
      BY <1>1
    <3> HIDE DEF rest
    <3>. QED
      BY <1>4, <3>1, LeastNatural
  <2>3. j \in Audible /\ j \in 1..Len(frames) /\ i <= j
    BY <1>1, <1>2, <2>2
  <2>4. new = (number + 1) % SeqModulus /\ new \in 0..(SeqModulus - 1)
    BY Moduli DEF Counted, Wrapped
  <2>5. stamp % TsModulus \in 0..(TsModulus - 1)
    BY Moduli
  <2> HIDE DEF rest, j, new
  <2>6. p \in Packet
    BY <2>3, <2>4, <2>5 DEF Packet, Marked
  <2>7. UpTo(j) = Before(i) \cup {j} /\ j \notin Before(i)
    <3>1. i \in Nat /\ j \in Nat /\ i <= j /\ \A l \in Audible : l \in Nat
      BY <1>1, <2>3
    <3>2. ASSUME NEW l \in Audible PROVE l <= j <=> l < i \/ l = j
      <4>1. CASE l \in rest
        BY <2>2, <3>1, <4>1
      <4>2. CASE l \notin rest
        BY <1>2, <3>1, <4>2 DEF Before
      <4>. QED
        BY <4>1, <4>2
    <3>3. ~(j < i)
      BY <3>1
    <3>. QED
      BY <2>3, <3>2, <3>3 DEF UpTo, Before
  <2>8. m \in Nat /\ Cardinality(UpTo(j)) = m + 1
    <3>1. IsFiniteSet(Before(i))
      BY <1>1, FS_Subset DEF Before
    <3>. QED
      BY <2>7, <3>1, FS_AddElement, FS_CardinalityType
  <2>9. UpTo(j) = Before(j + 1)
    BY <1>1, <2>3 DEF UpTo, Before
  <2> HIDE DEF p
  <2>10. /\ written' \in Seq(Packet) /\ Len(written') = m + 1 /\ written'[m + 1] = p
         /\ \A n \in 1..m : written'[n] = written[n]
    BY <2>1, <2>6 DEF Types
  <2>11. p.frame = j /\ p.seq = new /\ p.ts = stamp % TsModulus /\ p.marker = (j = Len(frames))
    BY DEF p, Marked
  <2>12. Before(next)' = UpTo(j)
    <3>1. Before(next)' = {k \in Audible : k < j + 1}
      BY <1>2, <2>1 DEF Before
    <3>. QED
      BY <2>9, <3>1 DEF Before
  <2> HIDE DEF m
  <2>14. ASSUME NEW n \in 1..(m + 1)
         PROVE  /\ written'[n].frame \in Audible
                /\ Cardinality(UpTo(written'[n].frame)) = n
                /\ written'[n].marker = (written'[n].frame = Len(frames))
    <3>1. CASE n = m + 1
      BY <2>3, <2>8, <2>10, <2>11, <3>1
    <3>2. CASE n # m + 1
      <4>1. n \in 1..m /\ n \in DOMAIN written
        BY <2>8, <3>2 DEF m, Types
      <4>. QED
        BY <2>10, <4>1 DEF PacketsInOrder
    <3>. QED
      BY <3>1, <3>2
  <2>15. ASSUME NEW n \in 1..m
         PROVE  /\ written'[n + 1].seq = (written'[n].seq + 1) % SeqModulus
                /\ written'[n + 1].ts = (written'[n].ts + 1) % TsModulus
    <3>1. CASE n = m
      <4>1. written # <<>> /\ written'[n] = written[m]
        BY <2>8, <2>10, <3>1 DEF m, Types
      <4>. QED
        BY <2>4, <2>10, <2>11, <3>1, <4>1 DEF m
    <3>2. CASE n # m
      <4>1. n \in 1..(Len(written) - 1) /\ n + 1 \in 1..m
        BY <2>8, <3>2 DEF m
      <4>. QED
        BY <2>10, <4>1 DEF PacketsInOrder
    <3>. QED
      BY <3>1, <3>2
  <2>16. PacketsInOrder'
    <3>1. DOMAIN written' = 1..(m + 1) /\ 1..(Len(written') - 1) = 1..m
      BY <2>8, <2>10
    <3>2. ASSUME NEW n \in DOMAIN written'
          PROVE  /\ written'[n].frame \in Audible'
                 /\ Cardinality({k \in Audible' : k <= written'[n].frame}) = n
                 /\ written'[n].marker = (written'[n].frame = Len(frames'))
      BY <1>2, <2>14, <3>1 DEF UpTo
    <3>. QED
      BY <2>15, <3>1, <3>2 DEF PacketsInOrder, UpTo
  <2>17. j + 1 \in 1..(Len(frames) + 1)
    BY <1>1, <2>3
  <2>. QED
    BY <2>1, <2>4, <2>8, <2>10, <2>11, <2>12, <2>16, <2>17
<1>. QED
  BY <1>3, <1>4

\* What the steps that write no packet leave of the stream.
LEMMA StreamKept ==
  ASSUME IInv, UNCHANGED <<frames, written>>
  PROVE  PacketsInOrder' /\ Audible' = Audible
<1>1. Audible' = Audible
  BY DEF Audible
<1>2. PacketsInOrder
  BY DEF IInv, Streamed
<1>. QED
  BY <1>1, <1>2 DEF PacketsInOrder, UpTo

\* Nothing is a response, but no piece of one.
LEMMA NothingFacts ==
  /\ Nothing \in Response /\ ~Nothing.ok /\ Nothing.part = "nothing"
  /\ \A piece \in Pieces : piece \in Response /\ piece.part \in {"piece", "head", "all"}
  BY PiecesAssumption DEF Nothing, Response, Parts

\* A response that is there to the end leaves nothing on its way.
LEMMA AnsweredQuiet ==
  ASSUME IInv, pc \in {"connect", "frame", "pause"} \/ Answered
  PROVE  Quiet
  BY DEF IInv, Wire, Answered, Listening

\* A request is sent once the ones before it have been accepted.
LEMMA SendsKeeps ==
  ASSUME IInv, NEW r \in Requests, Sends(r), open', pc \in Talking \cup {"connect"},
         UNCHANGED <<clip, frames, next, seq, ts, result, written, reading, closed, inbox,
                     sent, accepted>>,
         r \in {"setup", "play", "teardown"} => "authorized" \in accepted,
         r \in {"play", "teardown"} => "setup" \in accepted,
         r = "teardown" => "play" \in accepted,
         r # "teardown" => written = <<>>,
         r = "teardown" => pc = "pause",
         Quiet
  PROVE  IInv'
<1>1. pc' = r /\ drained' = FALSE /\ answer' = Nothing
  BY DEF Sends
<1>2. r \in Talking /\ r \notin {"frame", "pause", "start", "connect", "closing", "over"}
  BY DEF Talking, Requests
<1>3. Types'
  <2>1. answer' \in Response /\ sent' \in Response
    BY <1>1, NothingFacts DEF IInv, Types
  <2>. QED
    BY <1>1, <1>2, <2>1 DEF IInv, Types
<1>4. Parsed'
  BY <1>1, <1>2 DEF IInv, Parsed, Talking, Requests
<1>5. Connection'
  BY <1>1, <1>2 DEF IInv, Connection
<1>6. Dialogue'
  BY <1>1, <1>2 DEF IInv, Dialogue, Nothing
<1>7. Wire'
  <2>1. Quiet' /\ closed' = closed
    BY DEF Quiet
  <2>2. ~Nothing.ok /\ Nothing.part = "nothing"
    BY DEF Nothing
  <2>. QED
    BY <1>1, <1>2, <2>1, <2>2 DEF Wire, Quiet
<1>8. Streamed'
  BY <1>1, <1>2, StreamKept DEF IInv, Streamed
<1>. QED
  BY <1>3, <1>4, <1>5, <1>6, <1>7, <1>8 DEF IInv

\* The try block is left, done only after the whole stream.
LEMMA LeavesKeeps ==
  ASSUME IInv, pc \in Talking, NEW outcome \in Results, Leaves(outcome),
         outcome = "done" => pc = "teardown"
  PROVE  IInv'
<1>1. /\ pc' = "closing" /\ open' = FALSE /\ result' = outcome
      /\ UNCHANGED <<clip, frames, drained, answer, track, next, seq, ts, written, sdp,
                    reading, closed, inbox, sent, accepted>>
  BY DEF Leaves, Closes, deviceVars
<1>2. "closing" \notin Talking /\ "closing" \notin Requests
  BY DEF Talking, Requests
<1>3. Types'
  BY <1>1 DEF IInv, Types
<1>4. Parsed' /\ Connection'
  BY <1>1, <1>2 DEF IInv, Parsed, Connection, Talking, Requests
<1>5. Dialogue'
  BY <1>1, <1>2 DEF IInv, Dialogue
<1>6. Streamed'
  <2>1. outcome = "done" => frames # <<>> /\ Len(written) = Cardinality(Audible)
    BY DEF IInv, Parsed, Streamed
  <2>. QED
    BY <1>1, <2>1, StreamKept DEF IInv, Streamed
<1>7. Wire'
  BY <1>1, <1>2 DEF IInv, Wire
<1>. QED
  BY <1>3, <1>4, <1>5, <1>6, <1>7 DEF IInv

\* An exception at the request awaited: that of a TEARDOWN is ignored.
LEMMA LeavesByExceptionKeeps ==
  ASSUME IInv, pc \in Talking, NEW outcome \in Results \ {"done"}, LeavesByException(outcome)
  PROVE  IInv'
<1>1. CASE pc = "teardown" /\ outcome # "cancelled"
  BY <1>1, LeavesKeeps DEF LeavesByException, Results
<1>2. CASE ~(pc = "teardown" /\ outcome # "cancelled")
  BY <1>2, LeavesKeeps DEF LeavesByException
<1>. QED
  BY <1>1, <1>2

\* Where the call awaits no response, nothing is on its way.
LEMMA QuietKept ==
  ASSUME Quiet, pc' \notin Requests, UNCHANGED <<inbox, sent>>
  PROVE  Wire'
<1>1. inbox' = "none" /\ sent' = Nothing /\ Nothing.part = "nothing"
  BY DEF Quiet, Nothing
<1>. QED
  BY <1>1 DEF Wire, Quiet

\* PLAY is accepted, and the first packet is written.
LEMMA PlayingKeeps ==
  ASSUME IInv, Playing
  PROVE  IInv'
<1>1. /\ pc = "play" /\ answer.ok
      /\ UNCHANGED <<clip, frames, drained, answer, track, open, result, sdp, reading, closed,
                    inbox, sent, accepted>>
  BY DEF Playing, Accepted, deviceVars
<1>2. PICK number \in 0..(SeqModulus - 1), stamp \in 0..(TsModulus - 1) :
        ts' = stamp /\ WritesFrom(1, number, stamp)
  BY DEF Playing
<1>3. written = <<>> /\ {"authorized", "setup", "play"} \subseteq accepted
  BY <1>1 DEF IInv, Dialogue, Requests
<1>4. Len(written) = Cardinality(Before(1))
  <2>1. Before(1) = {}
    BY AudibleFacts DEF IInv, Before
  <2>. QED
    BY <1>3, <2>1, FS_EmptySet
<1>5. stamp \in Nat /\ 1 \in 1..(Len(frames) + 1)
  BY AudibleFacts DEF IInv
<1>6. /\ pc' \in {"frame", "pause"}
      /\ next' \in 1..(Len(frames) + 1) /\ seq' \in 0..(SeqModulus - 1)
      /\ written' \in Seq(Packet)
      /\ PacketsInOrder'
      /\ pc' = "frame" => /\ Len(written') = Cardinality(Before(next)')
                          /\ written'[Len(written')].seq = seq'
                          /\ written'[Len(written')].ts = stamp % TsModulus
      /\ pc' = "pause" => Len(written') = Cardinality(Audible')
  BY <1>1, <1>2, <1>3, <1>4, <1>5, WritesNext DEF IInv, Streamed
<1>7. Types'
  BY <1>1, <1>2, <1>5, <1>6 DEF IInv, Types, Talking
<1>8. Parsed' /\ Connection'
  BY <1>1, <1>6 DEF IInv, Parsed, Connection, Talking, Requests
<1>9. Dialogue'
  BY <1>1, <1>3, <1>6 DEF Dialogue, Requests
<1>10. Wire'
  <2>1. Quiet
    BY <1>1 DEF IInv, Wire, Playing, Answered, Listening
  <2>. QED
    BY <1>1, <1>6, <2>1, QuietKept DEF Requests
<1>11. Streamed'
  <2>1. result' = "pending"
    BY <1>1 DEF IInv, Connection, Talking, Requests
  <2>. QED
    BY <1>2, <1>6, <2>1 DEF Streamed, Counters
<1>. QED
  BY <1>7, <1>8, <1>9, <1>11, <1>10 DEF IInv

\* A packet is out, and the next one is written.
LEMMA FrameDrainedKeeps ==
  ASSUME IInv, FrameDrained
  PROVE  IInv'
<1>1. /\ pc = "frame" /\ ts' = ts + 1 /\ WritesFrom(next, seq, ts + 1)
      /\ UNCHANGED <<clip, frames, drained, answer, track, open, result, sdp, reading, closed,
                    inbox, sent, accepted>>
  BY DEF FrameDrained, deviceVars
<1>2. {"authorized", "setup", "play"} \subseteq accepted
  BY <1>1 DEF IInv, Dialogue
<1>3. ts \in Nat /\ ts + 1 \in Nat /\ next \in 1..(Len(frames) + 1) /\ seq \in 0..(SeqModulus - 1)
  BY DEF IInv, Types
<1>4. written # <<>> => /\ written[Len(written)].seq = seq
                        /\ (ts + 1) % TsModulus = (written[Len(written)].ts + 1) % TsModulus
  BY <1>1, <1>3, Moduli, NextModulo DEF IInv, Streamed, Counters
<1>5. Len(written) = Cardinality(Before(next))
  BY <1>1 DEF IInv, Streamed
<1>6. /\ pc' \in {"frame", "pause"}
      /\ next' \in 1..(Len(frames) + 1) /\ seq' \in 0..(SeqModulus - 1)
      /\ written' \in Seq(Packet)
      /\ PacketsInOrder'
      /\ pc' = "frame" => /\ Len(written') = Cardinality(Before(next)')
                          /\ written'[Len(written')].seq = seq'
                          /\ written'[Len(written')].ts = (ts + 1) % TsModulus
      /\ pc' = "pause" => Len(written') = Cardinality(Audible')
  BY <1>1, <1>3, <1>4, <1>5, WritesNext DEF IInv, Streamed
<1>7. Types'
  BY <1>1, <1>3, <1>6 DEF IInv, Types, Talking
<1>8. Parsed' /\ Connection'
  BY <1>1, <1>6 DEF IInv, Parsed, Connection, Talking, Requests
<1>9. Dialogue'
  BY <1>1, <1>2, <1>6 DEF Dialogue, Requests
<1>10. Wire'
  <2>1. Quiet
    BY <1>1 DEF IInv, Wire
  <2>. QED
    BY <1>1, <1>6, <2>1, QuietKept DEF Requests
<1>11. Streamed'
  <2>1. result' = "pending"
    BY <1>1 DEF IInv, Connection, Talking, Requests
  <2>. QED
    BY <1>1, <1>6, <2>1 DEF Streamed, Counters
<1>. QED
  BY <1>7, <1>8, <1>9, <1>11, <1>10 DEF IInv

\* The clip is cut into its frames.
LEMMA StartsKeeps ==
  ASSUME IInv, Starts
  PROVE  IInv'
<1>1. /\ pc = "start" /\ frames' = ParseAdtsFrames(clip.bytes)
      /\ UNCHANGED <<clip, drained, answer, track, next, seq, ts, open, written, sdp, reading,
                    closed, inbox, sent, accepted>>
      /\ \/ frames' = <<>> /\ pc' = "over" /\ result' = "runtime_error"
         \/ frames' # <<>> /\ pc' = "connect" /\ UNCHANGED result
  BY DEF Starts, deviceVars
<1>2. written = <<>> /\ ~open /\ result = "pending" /\ next = 1
  BY <1>1 DEF IInv, Parsed, Dialogue, Connection, Talking, Requests
<1>3. clip.bytes \in Seq(Byte)
  BY DEF IInv, Types
<1>4. frames' \in Seq(FrameAt)
  BY <1>1, <1>3, ParsedPieces
<1>5. Types'
  BY <1>1, <1>2, <1>4 DEF IInv, Types, Results
<1>6. Parsed' /\ Connection' /\ Dialogue'
  BY <1>1, <1>2 DEF Parsed, Connection, Dialogue, Talking, Requests
<1>7. Streamed'
  <2>1. PacketsInOrder'
    BY <1>1, <1>2 DEF PacketsInOrder
  <2>. QED
    BY <1>1, <1>2, <2>1 DEF Streamed
<1>8. Wire'
  BY <1>1, QuietKept DEF IInv, Wire, Requests
<1>. QED
  BY <1>5, <1>6, <1>7, <1>8 DEF IInv

\* The connection fails, or the call is over, and nothing else happens.
LEMMA OverKeeps ==
  ASSUME IInv, pc \in {"connect", "closing"}, pc' = "over", result' \in Results,
         result' = "done" => pc = "closing" /\ result = "done",
         UNCHANGED <<clip, frames, drained, answer, track, next, seq, ts, open, written, sdp,
                     reading, closed, inbox, sent, accepted>>
  PROVE  IInv'
<1>1. "over" \notin Talking /\ "over" \notin Requests /\ pc \notin Talking
  BY DEF Talking, Requests
<1>2. Types'
  BY DEF IInv, Types
<1>3. Parsed' /\ Connection'
  BY <1>1 DEF IInv, Parsed, Connection
<1>4. Dialogue'
  BY <1>1 DEF IInv, Dialogue
<1>5. Streamed'
  BY StreamKept DEF IInv, Streamed
<1>6. Wire'
  BY <1>1 DEF IInv, Wire
<1>. QED
  BY <1>2, <1>3, <1>4, <1>5, <1>6 DEF IInv

\* The device answers, or what it says is read: the call is where it was, and
\* a 200 it finds is in the dialogue.
LEMMA AnswersKeep ==
  ASSUME IInv,
         UNCHANGED <<clip, frames, pc, track, next, seq, ts, open, result, written, sdp>>,
         answer' \in Response, sent' \in Response,
         accepted \subseteq accepted', accepted' \in SUBSET Requests,
         inbox' \in Requests \cup {"none"},
         drained' \in BOOLEAN, reading' \in BOOLEAN, closed' \in BOOLEAN,
         pc \in Requests /\ answer'.ok => answer' = answer \/ pc \in accepted',
         Wire'
  PROVE  IInv'
<1>1. Types'
  BY DEF IInv, Types
<1>2. Parsed' /\ Connection'
  BY DEF IInv, Parsed, Connection
<1>3. Dialogue'
  BY DEF IInv, Dialogue
<1>4. Streamed'
  <2>1. Before(next)' = Before(next)
    BY StreamKept DEF Before
  <2>. QED
    BY <2>1, StreamKept DEF IInv, Streamed, Counters
<1>. QED
  BY <1>1, <1>2, <1>3, <1>4 DEF IInv

-----------------------------------------------------------------------------
(* The theorems.                                                           *)

\* Initially nothing is parsed, connected or written.
LEMMA InitIInv == Init => IInv
<1> SUFFICES ASSUME Init PROVE IInv
  OBVIOUS
<1>1. /\ frames = <<>> /\ pc = "start" /\ drained = FALSE /\ answer = Nothing /\ next = 1
      /\ seq = 0 /\ ts = 0 /\ open = FALSE /\ result = "pending" /\ written = <<>>
      /\ reading = TRUE /\ closed = FALSE /\ inbox = "none" /\ sent = Nothing /\ accepted = {}
  BY DEF Init
<1>2. clip.bytes \in Seq(Byte) /\ clip.made \in Seq(FrameAt)
  BY BackchannelAssumption DEF Init
<1>3. 0 \in 0..(SeqModulus - 1)
  BY Moduli
<1>4. Types
  <2>1. /\ frames \in Seq(FrameAt) /\ 1 \in 1..(Len(frames) + 1) /\ written \in Seq(Packet)
        /\ accepted \in SUBSET Requests
    BY <1>1
  <2>. QED
    BY <1>1, <1>2, <1>3, <2>1, NothingFacts DEF Types, Results
<1>5. Parsed /\ Connection /\ Dialogue
  BY <1>1 DEF Parsed, Connection, Dialogue, Talking, Requests
<1>6. Streamed
  BY <1>1 DEF Streamed, PacketsInOrder
<1>7. Wire
  BY <1>1, NothingFacts DEF Wire, Quiet, Requests
<1>. QED
  BY <1>4, <1>5, <1>6, <1>7 DEF IInv

\* The steps of the call, one by one.
LEMMA CallStepKeeps == IInv /\ CallStep => IInv'
<1> SUFFICES ASSUME IInv, CallStep PROVE IInv'
  OBVIOUS
<1>1. CASE Connected
  <2>1. /\ pc = "connect" /\ open' = TRUE /\ Sends("describe")
        /\ UNCHANGED <<clip, frames, track, next, seq, ts, result, written, sdp, reading,
                      closed, inbox, sent, accepted>>
    BY <1>1 DEF Connected, deviceVars
  <2>2. written = <<>> /\ "describe" \in Requests
    BY <2>1 DEF IInv, Dialogue, Requests
  <2>3. Quiet
    BY <2>1, AnsweredQuiet
  <2>. QED
    BY <2>1, <2>2, <2>3, SendsKeeps
<1>2. CASE ConnectFails
  <2>1. /\ pc = "connect" /\ pc' = "over" /\ result' \in {"raised", "timeout", "cancelled"}
        /\ UNCHANGED <<clip, frames, drained, answer, track, next, seq, ts, open, written, sdp,
                      reading, closed, inbox, sent, accepted>>
    BY <1>2 DEF ConnectFails, deviceVars
  <2>. QED
    BY <2>1, OverKeeps DEF Results
<1>3. CASE RequestDrained
  <2>1. /\ pc \in Requests /\ ~drained /\ drained' = TRUE
        /\ inbox' = IF closed THEN inbox ELSE pc
        /\ UNCHANGED <<clip, frames, pc, answer, track, next, seq, ts, open, result, written,
                      sdp, reading, closed, sent, accepted>>
    BY <1>3 DEF RequestDrained
  <2>2. Quiet
    BY <2>1 DEF IInv, Wire, Listening
  <2>3. Wire'
    <3>1. Listening' \/ Quiet'
      <4>1. answer.part \in {"nothing", "piece", "head"}
        BY <2>1, NothingFacts DEF IInv, Wire
      <4>. QED
        BY <2>1, <4>1 DEF Listening
    <3>. QED
      BY <2>1, <2>2, <3>1, NothingFacts DEF IInv, Wire, Quiet, Requests
  <2>. QED
    BY <2>1, <2>3, AnswersKeep DEF IInv, Types
<1>4. CASE Challenged
  <2>1. /\ pc = "describe" /\ Sends("authorized")
        /\ UNCHANGED <<clip, frames, track, next, seq, ts, open, result, written, sdp, reading,
                      closed, inbox, sent, accepted>>
    BY <1>4 DEF Challenged, deviceVars
  <2>2. written = <<>> /\ "authorized" \in Requests /\ open /\ pc \in Talking
    BY <2>1 DEF IInv, Dialogue, Connection, Talking, Requests
  <2>3. Quiet
    BY <1>4, AnsweredQuiet DEF Challenged
  <2>. QED
    BY <2>1, <2>2, <2>3, SendsKeeps
<1>5. CASE Described
  <2>1. /\ pc = "authorized" /\ answer.ok /\ Sends("setup")
        /\ UNCHANGED <<clip, frames, next, seq, ts, open, result, written, sdp, reading,
                      closed, inbox, sent, accepted>>
    BY <1>5 DEF Described, Accepted, deviceVars
  <2>2. written = <<>> /\ "setup" \in Requests /\ open /\ pc \in Talking /\ pc \in accepted
    BY <2>1 DEF IInv, Dialogue, Connection, Talking, Requests
  <2>3. Quiet
    BY <1>5, AnsweredQuiet DEF Described
  <2>. QED
    BY <2>1, <2>2, <2>3, SendsKeeps
<1>6. CASE SetUp
  <2>1. /\ pc = "setup" /\ answer.ok /\ Sends("play")
        /\ UNCHANGED <<clip, frames, track, next, seq, ts, open, result, written, sdp, reading,
                      closed, inbox, sent, accepted>>
    BY <1>6 DEF SetUp, Accepted, deviceVars
  <2>2. /\ written = <<>> /\ "play" \in Requests /\ open /\ pc \in Talking /\ pc \in accepted
        /\ "authorized" \in accepted
    BY <2>1 DEF IInv, Dialogue, Connection, Talking, Requests
  <2>3. Quiet
    BY <1>6, AnsweredQuiet DEF SetUp
  <2>. QED
    BY <2>1, <2>2, <2>3, SendsKeeps
<1>7. CASE PauseOver
  <2>1. /\ pc = "pause" /\ Sends("teardown")
        /\ UNCHANGED <<clip, frames, track, next, seq, ts, open, result, written, sdp, reading,
                      closed, inbox, sent, accepted>>
    BY <1>7 DEF PauseOver, deviceVars
  <2>2. /\ "teardown" \in Requests /\ open /\ pc \in Talking
        /\ "authorized" \in accepted /\ "setup" \in accepted /\ "play" \in accepted
    BY <2>1 DEF IInv, Dialogue, Connection, Talking, Requests
  <2>3. Quiet
    BY <2>1, AnsweredQuiet
  <2>. QED
    BY <2>1, <2>2, <2>3, SendsKeeps
<1>8. CASE Rejected
  <2>1. pc \in Talking
    BY <1>8 DEF Rejected, Answered, Talking
  <2>2. CASE pc = "authorized" /\ Accepted(pc) /\ Unbound
    BY <1>8, <2>1, <2>2, LeavesKeeps DEF Rejected, Results
  <2>3. CASE ~(pc = "authorized" /\ Accepted(pc) /\ Unbound)
    BY <1>8, <2>1, <2>3, LeavesKeeps DEF Rejected, Results
  <2>. QED
    BY <2>2, <2>3
<1>9. CASE TornDown
  BY <1>9, LeavesKeeps DEF TornDown, Talking, Requests, Results
<1>10. CASE Reads
  <2>1. /\ pc \in Requests /\ drained /\ sent # Nothing /\ sent' = Nothing
        /\ answer' = [ok        |-> answer.ok \/ sent.ok,
                      challenge |-> answer.challenge \/ sent.challenge,
                      part      |-> sent.part]
        /\ UNCHANGED <<clip, frames, pc, drained, track, next, seq, ts, open, result, written,
                      sdp, reading, closed, inbox, accepted>>
    BY <1>10 DEF Reads, Listening
  <2>2. sent \in Response /\ sent.part \in {"piece", "head", "all"} /\ answer \in Response
    BY <2>1, NothingFacts DEF IInv, Wire, Types
  <2>3. answer' \in Response /\ answer'.part = sent.part /\ (answer'.ok => answer.ok \/ sent.ok)
    BY <2>1, <2>2 DEF Response
  <2>4. pc \in Requests /\ answer'.ok => pc \in accepted'
    BY <2>1, <2>3 DEF IInv, Wire, Dialogue
  <2>5. Wire'
    <3>1. Listening' \/ Quiet'
      <4>1. CASE sent.part = "all"
        BY <2>1, <4>1 DEF IInv, Wire, Quiet
      <4>2. CASE sent.part # "all"
        BY <2>1, <2>2, <2>3, <4>2 DEF Listening
      <4>. QED
        BY <4>1, <4>2
    <3>. QED
      BY <2>1, <3>1, NothingFacts DEF IInv, Wire, Requests
  <2>. QED
    BY <2>1, <2>3, <2>4, <2>5, NothingFacts, AnswersKeep DEF IInv, Types
<1>11. CASE ReadsEnd
  <2>1. /\ closed /\ sent = Nothing /\ answer' = [answer EXCEPT !.part = "cut"]
        /\ UNCHANGED <<clip, frames, pc, drained, track, next, seq, ts, open, result, written,
                      sdp, reading, closed, inbox, sent, accepted>>
    BY <1>11 DEF ReadsEnd, deviceVars
  <2>2. answer' \in Response /\ answer'.ok = answer.ok
    BY <2>1 DEF IInv, Types, Response, Parts
  <2>3. Quiet'
    BY <2>1 DEF IInv, Wire, Quiet
  <2>4. Wire'
    <3>1. drained
      BY <1>11 DEF ReadsEnd, Listening
    <3>. QED
      BY <2>1, <2>3, <3>1, NothingFacts DEF IInv, Wire, Quiet
  <2>5. pc \in Requests /\ answer'.ok => pc \in accepted'
    BY <2>1, <2>2 DEF IInv, Dialogue
  <2>. QED
    BY <2>1, <2>2, <2>4, <2>5, AnswersKeep DEF IInv, Types
<1>12. CASE ReadTimesOut \/ ReadFails \/ WriteFails \/ Cancelled
  <2>1. PICK outcome \in {"timeout", "raised", "cancelled"} : LeavesByException(outcome)
    BY <1>12 DEF ReadTimesOut, ReadFails, WriteFails, Cancelled
  <2>2. pc \in Talking
    BY <1>12 DEF ReadTimesOut, ReadFails, WriteFails, Cancelled, Listening, Talking
  <2>. QED
    BY <2>1, <2>2, LeavesByExceptionKeeps DEF Results
<1>13. CASE WaitedClosed \/ WaitCancelled
  <2>1. /\ pc = "closing" /\ pc' = "over" /\ (result' = result \/ result' = "cancelled")
        /\ UNCHANGED <<clip, frames, drained, answer, track, next, seq, ts, open, written, sdp,
                      reading, closed, inbox, sent, accepted>>
    BY <1>13 DEF WaitedClosed, WaitCancelled, deviceVars
  <2>2. result' \in Results
    BY <2>1 DEF IInv, Types, Results
  <2>. QED
    BY <2>1, <2>2, OverKeeps
<1>. QED
  BY <1>1, <1>2, <1>3, <1>4, <1>5, <1>6, <1>7, <1>8, <1>9, <1>10, <1>12, <1>13, <1>11,
     StartsKeeps, PlayingKeeps, FrameDrainedKeeps
     DEF CallStep

\* The steps of the device: it answers, stops reading, or closes.
LEMMA DeviceStepKeeps == IInv /\ DeviceStep => IInv'
<1> SUFFICES ASSUME IInv, DeviceStep PROVE IInv'
  OBVIOUS
<1>1. ASSUME NEW piece \in Pieces, DeviceSends(piece) PROVE IInv'
  <2>1. /\ open /\ inbox # "none" /\ sent' = piece
        /\ inbox' = IF piece.part = "all" THEN "none" ELSE inbox
        /\ accepted' = IF piece.ok THEN accepted \cup {inbox} ELSE accepted
        /\ UNCHANGED <<clip, frames, pc, drained, answer, track, next, seq, ts, open, result,
                      written, sdp, reading, closed>>
    BY <1>1 DEF DeviceSends, callVars
  <2>2. /\ inbox \in Requests /\ accepted \in SUBSET Requests
        /\ accepted \subseteq accepted' /\ accepted' \in SUBSET Requests
    BY <2>1 DEF IInv, Types
  <2>3. /\ ~closed /\ pc \notin {"start", "connect", "frame", "pause"}
        /\ pc \in Requests => Listening /\ inbox = pc
    BY <2>1 DEF IInv, Wire, Quiet
  <2>4. Wire'
    BY <2>1, <2>2, <2>3 DEF IInv, Wire, Listening
  <2>. QED
    BY <2>1, <2>2, <2>4, NothingFacts, AnswersKeep DEF IInv, Types
<1>2. CASE DeviceStopsReading
  <2>1. Wire'
    BY <1>2 DEF DeviceStopsReading, callVars, IInv, Wire, Listening, Quiet
  <2>. QED
    BY <1>2, <2>1, AnswersKeep DEF DeviceStopsReading, callVars, IInv, Types
<1>3. CASE DeviceCloses
  <2>1. Wire'
    BY <1>3 DEF DeviceCloses, callVars, IInv, Wire, Listening, Quiet
  <2>. QED
    BY <1>3, <2>1, AnswersKeep DEF DeviceCloses, callVars, IInv, Types
<1>. QED
  BY <1>1, <1>2, <1>3 DEF DeviceStep

\* Every step of the call and of the device preserves the inductive invariant.
THEOREM Inductive == Spec => []IInv
<1>1. IInv /\ UNCHANGED vars => IInv'
  <2> SUFFICES ASSUME IInv, UNCHANGED vars PROVE IInv'
    OBVIOUS
  <2>1. Wire'
    BY DEF vars, callVars, deviceVars, IInv, Wire, Listening, Quiet
  <2>. QED
    BY <2>1, AnswersKeep DEF vars, callVars, deviceVars, IInv, Types
<1>2. IInv /\ [Next]_vars => IInv'
  BY <1>1, CallStepKeeps, DeviceStepKeeps DEF Next
<1>. QED
  BY <1>2, InitIInv, PTL DEF Spec

\* The variables have their types: sequence numbers fit their header, and the
\* call writes and reads only while its connection is open.
THEOREM TypesHold == Spec => []TypeOK
<1>1. IInv => TypeOK
  BY DEF IInv, Types, Connection, TypeOK, Talking, Results
<1>. QED
  BY <1>1, Inductive, PTL

\* async_post_audio_backchannel leaves no connection open, however it ends.
THEOREM Released == Spec => []ConnectionReleased
<1>1. IInv => ConnectionReleased
  BY DEF IInv, Connection, ConnectionReleased, Talking, Requests
<1>. QED
  BY <1>1, Inductive, PTL

\* It writes no audio before the device has accepted every request up to PLAY.
THEOREM PlayedFirst == Spec => []AudioOnlyWhenPlaying
<1>1. IInv => AudioOnlyWhenPlaying
  BY DEF IInv, Dialogue, AudioOnlyWhenPlaying
<1>. QED
  BY <1>1, Inductive, PTL

\* It writes every frame with audio, in order, with consecutive numbers, for any
\* clip and any modulus.
THEOREM WholeStream == Spec => []StreamWhole
<1>1. IInv => StreamWhole
  <2> SUFFICES ASSUME IInv PROVE StreamWhole
    OBVIOUS
  <2>1. PacketsInOrder /\ Audible = {j \in DOMAIN frames : HasAudio(frames[j])}
    BY DEF IInv, Streamed, Audible
  <2>2. ASSUME result = "done"
        PROVE  /\ Len(written) = Cardinality(Audible)
               /\ HasAudio(frames[Len(frames)]) => written[Len(written)].marker
    <3> DEFINE m == Len(written)
               last == written[m]
    <3>1. frames # <<>> /\ m = Cardinality(Audible)
      BY <2>2 DEF IInv, Streamed
    <3>2. /\ Len(frames) \in Nat /\ Audible \in SUBSET (1..Len(frames))
          /\ IsFiniteSet(Audible)
      BY AudibleFacts DEF IInv
    <3>3. ASSUME HasAudio(frames[Len(frames)]) PROVE last.marker
      <4>1. Len(frames) \in Audible
        BY <3>1, <3>3 DEF Audible, IInv, Types
      <4>2. m # 0
        BY <3>1, <3>2, <4>1, FS_EmptySet
      <4>3. m \in DOMAIN written
        BY <4>2 DEF IInv, Types
      <4>4. /\ last.frame \in Audible /\ Cardinality(UpTo(last.frame)) = m
            /\ last.marker = (last.frame = Len(frames))
        BY <2>1, <4>3 DEF PacketsInOrder
      <4>5. UpTo(last.frame) = Audible
        BY <3>1, <3>2, <4>4, FS_Subset DEF UpTo
      <4>6. last.frame = Len(frames)
        <5> HIDE DEF last
        <5>1. last.frame \in 1..Len(frames)
          BY <3>2, <4>4
        <5>2. Len(frames) \in UpTo(last.frame)
          BY <4>1, <4>5
        <5>3. Len(frames) <= last.frame
          BY <5>2 DEF UpTo
        <5>. QED
          BY <3>2, <5>1, <5>3
      <4>. QED
        BY <4>4, <4>6
    <3>. QED
      BY <3>1, <3>3
  <2>3. ASSUME NEW n \in DOMAIN written
        PROVE  /\ written[n].frame \in Audible
               /\ Cardinality(UpTo(written[n].frame)) = n
               /\ written[n].marker => written[n].frame = Len(frames)
    BY <2>1 DEF PacketsInOrder
  <2>. QED
    BY <2>1, <2>2, <2>3 DEF StreamWhole, PacketsInOrder, UpTo
<1>. QED
  BY <1>1, Inductive, PTL

\* _parse_adts_frames finds all frames of a clip that is whole, and
\* async_post_audio sends pieces of any clip, in order and apart.
THEOREM Recovered == Spec => []FramesRecovered
<1>1. IInv => FramesRecovered
  <2> SUFFICES ASSUME IInv, pc # "start" PROVE FramesRecovered
    BY DEF FramesRecovered
  <2> DEFINE data == clip.bytes
             parts == PostParts("AAC", data)
             whole == <<[at |-> 0, length |-> Len(data), crc |-> FALSE]>>
  <2>1. data \in Seq(Byte) /\ clip.made \in Seq(FrameAt) /\ frames = ParseAdtsFrames(data)
    BY DEF IInv, Types, Parsed
  <2>2. LaidOut(data, clip.made) => frames = Recoverable(clip.made)
    BY <2>1, ParsedWhole
  <2>3. PiecesOf(data, frames)
    BY <2>1, ParsedPieces
  <2>4. data # <<>> => PiecesOf(data, whole)
    BY <2>1 DEF PiecesOf, End
  <2>5. parts = IF frames = <<>> THEN whole ELSE frames
    BY <2>1 DEF PostParts
  <2>6. PostParts("G.711A", data)[1].length = Len(data)
    BY DEF PostParts
  <2>7. whole # <<>>
    OBVIOUS
  <2> HIDE DEF parts, whole
  <2>8. /\ data # <<>> => PiecesOf(data, parts)
        /\ parts # <<>> /\ (frames # <<>> => parts = frames)
    BY <2>3, <2>4, <2>5, <2>7
  <2>. QED
    BY <2>2, <2>6, <2>8 DEF FramesRecovered, Recoverable, parts
<1>. QED
  BY <1>1, Inductive, PTL

-----------------------------------------------------------------------------
(* The session description.                                                *)

\* Before the first line.
NothingRead == [current |-> NoTrack, track |-> NoTrack, unbound |-> FALSE]

\* A fold over the lines, by the set of those read, the last one first.
Folded(lines, g, s) ==
  IF s = {} THEN NothingRead
  ELSE ReadLine(g[s \ {Max(s)}], lines[Max(s)])

\* The set of the first k lines ends with the kth.
LEMMA LastOf ==
  ASSUME NEW k \in Nat, NEW s \in SUBSET (1..k), k \in s
  PROVE  Max(s) = k
<1>1. k >= k /\ \A x \in s : k >= x /\ (x >= k => x = k)
  OBVIOUS
<1>. QED
  BY <1>1 DEF Max

\* The recursion of the fold has a solution: by induction on the number of lines.
LEMMA FoldExists ==
  ASSUME NEW n \in Nat, NEW lines
  PROVE  \E g : g = [s \in SUBSET (1..n) |-> Folded(lines, g, s)]
<1> DEFINE Done == {k \in 0..n : \E g : g = [s \in SUBSET (1..k) |-> Folded(lines, g, s)]}
<1>1. 0 \in Done
  <2> DEFINE g == [s \in SUBSET (1..0) |-> NothingRead]
  <2>1. \A s \in SUBSET (1..0) : s = {}
    OBVIOUS
  <2>2. g = [s \in SUBSET (1..0) |-> Folded(lines, g, s)]
    BY <2>1 DEF Folded
  <2> HIDE DEF g
  <2>. QED
    BY <2>2
<1>2. ASSUME NEW k \in 1..n, k - 1 \in Done PROVE k \in Done
  <2>1. PICK g : g = [s \in SUBSET (1..(k - 1)) |-> Folded(lines, g, s)]
    BY <1>2
  <2> DEFINE h == [s \in SUBSET (1..k) |-> Folded(lines, g, s)]
  <2>2. ASSUME NEW s \in SUBSET (1..(k - 1)) PROVE h[s] = g[s]
    <3>1. s \in SUBSET (1..k)
      BY <1>2
    <3>. QED
      BY <2>1, <3>1
  <2>3. ASSUME NEW s \in SUBSET (1..k), s # {} PROVE s \ {Max(s)} \in SUBSET (1..(k - 1))
    <3>1. CASE k \in s
      <4>1. Max(s) = k
        BY <3>1, LastOf
      <4>. QED
        BY <4>1
    <3>2. CASE k \notin s
      <4>1. \A x \in 1..k : x # k => x \in 1..(k - 1)
        OBVIOUS
      <4>. QED
        BY <3>2, <4>1
    <3>. QED
      BY <3>1, <3>2
  <2>4. \A s \in SUBSET (1..k) : Folded(lines, g, s) = Folded(lines, h, s)
    <3> HIDE DEF h
    <3>. QED
      BY <2>2, <2>3 DEF Folded
  <2>5. h = [s \in SUBSET (1..k) |-> Folded(lines, h, s)]
    BY <2>4
  <2> HIDE DEF h
  <2>. QED
    BY <2>5
<1> HIDE DEF Done
<1>3. n \in Done
  <2>1. \A k \in 0..n : k \in Done
    BY <1>1, <1>2, Upward
  <2>. QED
    BY <2>1
<1>. QED
  BY <1>3 DEF Done

\* The description is read line by line.
LEMMA FoldSteps ==
  ASSUME NEW n \in Nat, NEW lines, DOMAIN lines = 1..n
  PROVE  \E g : /\ g[0] = NothingRead
                /\ \A k \in 1..n : g[k] = ReadLine(g[k - 1], lines[k])
                /\ FoldLeft(ReadLine, NothingRead, lines) = g[n]
<1> DEFINE Solution(f) == f = [s \in SUBSET (1..n) |-> Folded(lines, f, s)]
           f == CHOOSE h : Solution(h)
           g == [k \in 0..n |-> f[1..k]]
<1>1. Solution(f)
  BY FoldExists
<1>2. FoldLeft(ReadLine, NothingRead, lines) = f[1..n]
  BY Zenon DEF FoldLeft, MapThenFoldSet, Folded
<1> HIDE DEF f
<1>3. g[0] = NothingRead
  <2>1. {} \in SUBSET (1..n) /\ 1..0 = {}
    OBVIOUS
  <2>. QED
    BY <1>1, <2>1 DEF Folded
<1>4. ASSUME NEW k \in 1..n PROVE g[k] = ReadLine(g[k - 1], lines[k])
  <2>1. 1..k \in SUBSET (1..n) /\ k \in 1..k /\ 1..k # {} /\ (1..k) \ {k} = 1..(k - 1)
    OBVIOUS
  <2>2. Max(1..k) = k
    BY LastOf
  <2>3. f[1..k] = ReadLine(f[1..(k - 1)], lines[k])
    BY <1>1, <2>1, <2>2 DEF Folded
  <2>. QED
    BY <2>3
<1>5. g[n] = f[1..n]
  OBVIOUS
<1> HIDE DEF g
<1>. QED
  BY <1>2, <1>3, <1>4, <1>5

\* The sections up to the ith, one after the other.
JoinedUpTo(seqs, h, i) == IF i = 1 THEN seqs[i] ELSE h[i - 1] \o seqs[i]

\* The sections of a description are put one after the other.
LEMMA FlattenSteps ==
  ASSUME NEW n \in Nat \ {0}, NEW seqs, Len(seqs) = n
  PROVE  \E h : /\ h[1] = seqs[1]
                /\ \A i \in 2..n : h[i] = h[i - 1] \o seqs[i]
                /\ FlattenSeq(seqs) = h[n]
<1> DEFINE Joined(k, h) == h = [i \in 1..k |-> JoinedUpTo(seqs, h, i)]
           Done == {k \in 0..n : \E h : Joined(k, h)}
<1>1. 0 \in Done
  <2> DEFINE h == [i \in 1..0 |-> seqs[i]]
  <2>1. Joined(0, h)
    BY 1..0 = {}
  <2>2. 0 \in 0..n
    OBVIOUS
  <2> HIDE DEF h
  <2>. QED
    BY <2>1, <2>2
<1>2. ASSUME NEW k \in 1..n, k - 1 \in Done PROVE k \in Done
  <2>1. PICK g : Joined(k - 1, g)
    BY <1>2
  <2> DEFINE h == [i \in 1..k |-> JoinedUpTo(seqs, g, i)]
  <2>2. \A i \in 1..k : i # 1 => i - 1 \in 1..(k - 1)
    OBVIOUS
  <2>3. ASSUME NEW i \in 1..(k - 1) PROVE h[i] = g[i]
    <3>1. i \in 1..k
      OBVIOUS
    <3>. QED
      BY <2>1, <3>1
  <2>4. ASSUME NEW i \in 1..k PROVE JoinedUpTo(seqs, g, i) = JoinedUpTo(seqs, h, i)
    <3> HIDE DEF h
    <3>. QED
      BY <2>2, <2>3 DEF JoinedUpTo
  <2>5. Joined(k, h)
    BY <2>4
  <2> HIDE DEF h
  <2>. QED
    BY <2>5
<1> HIDE DEF Done
<1>3. n \in Done
  <2>1. \A k \in 0..n : k \in Done
    BY <1>1, <1>2, Upward
  <2>. QED
    BY <2>1
<1> DEFINE h == CHOOSE f : Joined(n, f)
<1>4. Joined(n, h)
  BY <1>3 DEF Done
<1>5. FlattenSeq(seqs) = h[n]
  BY Zenon DEF FlattenSeq, JoinedUpTo
<1> HIDE DEF h
<1>6. \A i \in 1..n : h[i] = JoinedUpTo(seqs, h, i)
  BY <1>4
<1>7. h[1] = seqs[1] /\ \A i \in 2..n : h[i] = h[i - 1] \o seqs[i]
  <2>1. 1 \in 1..n /\ \A i \in 2..n : i \in 1..n /\ i # 1
    OBVIOUS
  <2>. QED
    BY <1>6, <2>1 DEF JoinedUpTo
<1>. QED
  BY <1>5, <1>7


\* A sequence of two elements.
LEMMA Pair ==
  ASSUME NEW T, NEW a \in T, NEW b \in T, NEW s, s = <<a, b>>
  PROVE  s \in Seq(T) /\ Len(s) = 2 /\ s[1] = a /\ s[2] = b
OBVIOUS

\* A sequence with two elements more.
LEMMA TwoMore ==
  ASSUME NEW T, NEW r \in Seq(T), NEW s \in Seq(T), Len(s) = 2
  PROVE  /\ r \o s \in Seq(T) /\ Len(r \o s) = Len(r) + 2
         /\ \A j \in 1..Len(r) : (r \o s)[j] = r[j]
         /\ (r \o s)[Len(r) + 1] = s[1] /\ (r \o s)[Len(r) + 2] = s[2]
<1>1. PICK w : w = r \o s
  OBVIOUS
<1>2. /\ w \in Seq(T) /\ Len(w) = Len(r) + Len(s)
      /\ \A i \in 1..(Len(r) + Len(s)) : w[i] = IF i <= Len(r) THEN r[i] ELSE s[i - Len(r)]
  BY <1>1, ConcatProperties, Zenon
<1>3. PICK m \in Nat : m = Len(r)
  OBVIOUS
<1>4. m + 1 \in 1..(m + 2) /\ m + 2 \in 1..(m + 2) /\ m + 1 - m = 1 /\ m + 2 - m = 2
  OBVIOUS
<1>5. /\ w \in Seq(T) /\ Len(w) = m + 2
      /\ \A j \in 1..m : w[j] = r[j]
      /\ w[m + 1] = s[1] /\ w[m + 2] = s[2]
  BY <1>2, <1>3, <1>4
<1>. QED
  BY <1>1, <1>3, <1>5, Zenon

\* The two lines of a medium, and the description as lines.
Control(media)   == [kind |-> "control", text |-> ControlLine(media)]
Direction(media) == [kind |-> IF media.sendonly THEN "sendonly" ELSE "other", text |-> <<"a">>]

LinesOf(d)     == FlattenSeq([i \in DOMAIN d |-> Lines(d[i])])
TracksFirst(d) == \A i \in DOMAIN d : d[i].writes = "control first"

\* The first k media of the description are these lines.
LinesOfFirst(d, lines, k) ==
  /\ lines \in Seq({Control(d[i]) : i \in DOMAIN d} \cup {Direction(d[i]) : i \in DOMAIN d})
  /\ Len(lines) = 2 * k
  /\ \A i \in 1..k : lines[2 * i - 1] = Control(d[i]) /\ lines[2 * i] = Direction(d[i])

\* The lines of a description whose media name their tracks first.
LEMMA LinesInOrder ==
  ASSUME NEW n \in Nat \ {0}, NEW d, DOMAIN d = 1..n, TracksFirst(d)
  PROVE  LinesOfFirst(d, LinesOf(d), n)
<1> DEFINE T == {Control(d[i]) : i \in DOMAIN d} \cup {Direction(d[i]) : i \in DOMAIN d}
           seqs == [i \in DOMAIN d |-> Lines(d[i])]
<1>1. ASSUME NEW i \in 1..n
      PROVE  /\ seqs[i] \in Seq(T) /\ Len(seqs[i]) = 2
             /\ seqs[i][1] = Control(d[i]) /\ seqs[i][2] = Direction(d[i])
  <2>1. seqs[i] = <<Control(d[i]), Direction(d[i])>>
    BY DEF Lines, Control, Direction, TracksFirst
  <2>2. Control(d[i]) \in T /\ Direction(d[i]) \in T
    OBVIOUS
  <2> HIDE DEF T, seqs
  <2>. QED
    BY <2>1, <2>2, Pair
<1>2. Len(seqs) = n
  <2>1. seqs \in [1..n -> Seq(T)]
    BY <1>1
  <2> HIDE DEF T, seqs
  <2>. QED
    BY <2>1
<1>3. LinesOf(d) = FlattenSeq(seqs)
  BY DEF LinesOf
<1> HIDE DEF seqs, T
<1>4. PICK h : /\ h[1] = seqs[1]
               /\ \A i \in 2..n : h[i] = h[i - 1] \o seqs[i]
               /\ FlattenSeq(seqs) = h[n]
  BY <1>2, FlattenSteps
<1> DEFINE Done == {k \in 0..n : k # 0 => LinesOfFirst(d, h[k], k)}
<1>5. 0 \in Done
  OBVIOUS
<1>6. ASSUME NEW k \in 1..n, k - 1 \in Done PROVE k \in Done
  <2>1. CASE k = 1
    <3>1. h[1] = seqs[1] /\ 1 \in 1..n
      BY <1>4
    <3>2. h[1] \in Seq(T) /\ Len(h[1]) = 2 /\ h[1][1] = Control(d[1]) /\ h[1][2] = Direction(d[1])
      BY <1>1, <3>1
    <3>3. LinesOfFirst(d, h[1], 1)
      <4>1. \A i \in 1..1 : i = 1 /\ 2 * i - 1 = 1 /\ 2 * i = 2
        OBVIOUS
      <4>. QED
        BY <3>2, <4>1 DEF LinesOfFirst, T
    <3>. QED
      BY <2>1, <3>3
  <2>2. CASE k # 1
    <3>1. k \in 2..n /\ k - 1 # 0 /\ k - 1 \in Nat
      BY <2>2
    <3>2. LinesOfFirst(d, h[k - 1], k - 1)
      BY <1>6, <3>1
    <3>3. h[k] = h[k - 1] \o seqs[k]
      BY <1>4, <3>1
    <3>4. /\ seqs[k] \in Seq(T) /\ Len(seqs[k]) = 2
          /\ seqs[k][1] = Control(d[k]) /\ seqs[k][2] = Direction(d[k])
      BY <1>1
    <3>5. PICK m \in Nat : m = 2 * (k - 1) /\ m + 1 = 2 * k - 1 /\ m + 2 = 2 * k
      BY <3>1
    <3>a. h[k - 1] \in Seq(T) /\ Len(h[k - 1]) = m
      BY <3>1, <3>2, <3>5 DEF LinesOfFirst, T
    <3>6. /\ h[k] \in Seq(T) /\ Len(h[k]) = 2 * k
          /\ \A j \in 1..(2 * (k - 1)) : h[k][j] = h[k - 1][j]
          /\ h[k][2 * k - 1] = Control(d[k]) /\ h[k][2 * k] = Direction(d[k])
      <4>1. PICK r \in Seq(T) : r = h[k - 1]
        BY <3>a
      <4>2. PICK s \in Seq(T) : s = seqs[k]
        BY <3>4
      <4>3. PICK w : w = h[k]
        OBVIOUS
      <4>4. w = r \o s /\ Len(r) = m /\ Len(s) = 2
        BY <3>3, <3>4, <3>a, <4>1, <4>2, <4>3
      <4>5. /\ w \in Seq(T) /\ Len(w) = m + 2
            /\ \A j \in 1..m : w[j] = r[j]
            /\ w[m + 1] = s[1] /\ w[m + 2] = s[2]
        <5>1. /\ r \o s \in Seq(T) /\ Len(r \o s) = Len(r) + 2
              /\ \A j \in 1..Len(r) : (r \o s)[j] = r[j]
              /\ (r \o s)[Len(r) + 1] = s[1] /\ (r \o s)[Len(r) + 2] = s[2]
          BY <4>4, TwoMore, Zenon
        <5>. QED
          BY <4>4, <5>1, Zenon
      <4>. QED
        BY <3>4, <3>5, <4>1, <4>2, <4>3, <4>5
    <3>7. ASSUME NEW i \in 1..k
          PROVE  h[k][2 * i - 1] = Control(d[i]) /\ h[k][2 * i] = Direction(d[i])
      <4>1. CASE i = k
        BY <3>6, <4>1
      <4>2. CASE i # k
        <5>1. i \in 1..(k - 1) /\ 2 * i - 1 \in 1..(2 * (k - 1)) /\ 2 * i \in 1..(2 * (k - 1))
          BY <4>2
        <5>2. h[k - 1][2 * i - 1] = Control(d[i]) /\ h[k - 1][2 * i] = Direction(d[i])
          BY <3>2, <5>1 DEF LinesOfFirst
        <5>. QED
          BY <3>6, <5>1, <5>2
      <4>. QED
        BY <4>1, <4>2
    <3>8. LinesOfFirst(d, h[k], k)
      BY <3>6, <3>7 DEF LinesOfFirst, T
    <3>. QED
      BY <3>8
  <2>. QED
    BY <2>1, <2>2
<1> HIDE DEF Done
<1>7. n \in Done
  <2>1. \A k \in 0..n : k \in Done
    BY <1>5, <1>6, Upward
  <2>. QED
    BY <2>1
<1>. QED
  BY <1>3, <1>4, <1>7 DEF Done

\* What the lines of a description are read to.
ReadDescription(d) ==
  FoldLeft(ReadLine, NothingRead, LinesOf(d))

Named(media) == <<"control:trackID", media.track>>

\* A control line is read to the name of its track.
LEMMA ControlNames ==
  ASSUME NEW media
  PROVE  Tail(Control(media).text) = Named(media)
BY DEF Control, ControlLine, Named

\* The track found, if any, is that of a medium the device receives audio on.
TrackOfMedium(d, found) ==
  \/ found.track = NoTrack
  \/ \E i \in DOMAIN d : d[i].sendonly /\ found.track = Named(d[i])

\* A medium that names its track first is read whole.
LEMMA MediumRead ==
  ASSUME NEW d, NEW i \in DOMAIN d, NEW x, DOMAIN x = {"current", "track", "unbound"},
         TrackOfMedium(d, x), NEW y, y = ReadLine(x, Control(d[i])),
         NEW z, z = ReadLine(y, Direction(d[i]))
  PROVE  DOMAIN z = {"current", "track", "unbound"} /\ TrackOfMedium(d, z)
<1>1. y = [x EXCEPT !.current = Named(d[i])]
  <2>1. Control(d[i]).kind = "control"
    BY DEF Control
  <2>. QED
    BY <2>1, ControlNames DEF ReadLine
<1>2. /\ DOMAIN y = {"current", "track", "unbound"}
      /\ y.current = Named(d[i]) /\ y.track = x.track
  BY <1>1
<1>3. CASE d[i].sendonly
  <2>1. Direction(d[i]).kind = "sendonly"
    BY <1>3 DEF Direction
  <2>2. z = [y EXCEPT !.track = y.current, !.unbound = @ \/ y.current = NoTrack]
    BY <2>1 DEF ReadLine
  <2>. QED
    BY <1>2, <1>3, <2>2 DEF TrackOfMedium
<1>4. CASE ~d[i].sendonly
  <2>1. Direction(d[i]).kind = "other"
    BY <1>4 DEF Direction
  <2>2. z = y
    BY <2>1 DEF ReadLine
  <2>. QED
    BY <1>2, <2>2 DEF TrackOfMedium
<1>. QED
  BY <1>3, <1>4

\* A description whose media name their tracks first gives a track of a medium
\* the device receives audio on, or none.
LEMMA TrackChosen ==
  ASSUME NEW n \in Nat, NEW d, DOMAIN d = 1..n, TracksFirst(d)
  PROVE  TrackOfMedium(d, ReadDescription(d))
<1> DEFINE lines == LinesOf(d)
<1>1. n # 0 => LinesOfFirst(d, lines, n)
  BY LinesInOrder
<1>2. DOMAIN lines = 1..(2 * n) /\ 2 * n \in Nat
  <2>1. CASE n = 0
    <3>1. [i \in DOMAIN d |-> Lines(d[i])] = <<>>
      BY <2>1
    <3>2. FlattenSeq(<<>>) = <<>>
      BY DEF FlattenSeq
    <3>. QED
      BY <2>1, <3>1, <3>2 DEF LinesOf
  <2>2. CASE n # 0
    <3> HIDE DEF lines
    <3>. QED
      BY <1>1, <2>2 DEF LinesOfFirst
  <2>. QED
    BY <2>1, <2>2
<1> HIDE DEF lines
<1>3. PICK g : /\ g[0] = NothingRead
               /\ \A k \in 1..(2 * n) : g[k] = ReadLine(g[k - 1], lines[k])
               /\ FoldLeft(ReadLine, NothingRead, lines) = g[2 * n]
  BY <1>2, FoldSteps
<1> DEFINE Done == {k \in 0..n : /\ DOMAIN g[2 * k] = {"current", "track", "unbound"}
                                 /\ TrackOfMedium(d, g[2 * k])}
<1>4. 0 \in Done
  <2>1. 0 \in 0..n /\ 2 * 0 = 0
    OBVIOUS
  <2>2. DOMAIN NothingRead = {"current", "track", "unbound"} /\ TrackOfMedium(d, NothingRead)
    BY DEF TrackOfMedium, NothingRead
  <2>. QED
    BY <1>3, <2>1, <2>2
<1>5. ASSUME NEW k \in 1..n, k - 1 \in Done PROVE k \in Done
  <2>1. /\ 2 * (k - 1) = 2 * k - 2 /\ 2 * k - 1 \in 1..(2 * n) /\ 2 * k \in 1..(2 * n)
        /\ 2 * k - 1 - 1 = 2 * k - 2
    OBVIOUS
  <2>2. /\ g[2 * k - 1] = ReadLine(g[2 * k - 2], Control(d[k]))
        /\ g[2 * k] = ReadLine(g[2 * k - 1], Direction(d[k]))
    <3>1. lines[2 * k - 1] = Control(d[k]) /\ lines[2 * k] = Direction(d[k])
      BY <1>1 DEF LinesOfFirst
    <3>. QED
      BY <1>3, <2>1, <3>1
  <2>3. DOMAIN g[2 * k - 2] = {"current", "track", "unbound"} /\ TrackOfMedium(d, g[2 * k - 2])
    BY <1>5, <2>1
  <2>4. k \in DOMAIN d /\ 2 * (k - 1) = 2 * k - 2
    OBVIOUS
  <2>5. DOMAIN g[2 * k] = {"current", "track", "unbound"} /\ TrackOfMedium(d, g[2 * k])
    BY <2>2, <2>3, <2>4, MediumRead
  <2>. QED
    BY <2>5
<1> HIDE DEF Done
<1>6. n \in Done
  <2>1. \A k \in 0..n : k \in Done
    BY <1>4, <1>5, Upward
  <2>. QED
    BY <2>1
<1>7. ReadDescription(d) = g[2 * n]
  BY <1>3 DEF ReadDescription, lines
<1>. QED
  BY <1>6, <1>7 DEF Done

\* The description is a sequence of media and stays what it is; the track, once
\* there is one, is that of a medium the device receives audio on.
TrackInv ==
  /\ sdp \in Seq(Range(sdp))
  /\ TracksFirst(sdp) /\ track # NoTrack
       => \E i \in DOMAIN sdp : sdp[i].sendonly /\ track = Named(sdp[i])

\* Only Described reads the description, and nothing changes it.
LEMMA TrackMoves ==
  ASSUME [Next]_vars
  PROVE  UNCHANGED sdp /\ (UNCHANGED track \/ Described)
<1>1. CASE UNCHANGED vars
  BY <1>1 DEF vars, callVars, deviceVars
<1>2. CASE DeviceStep
  BY <1>2 DEF DeviceStep, DeviceSends, DeviceStopsReading, DeviceCloses, callVars
<1>3. CASE CallStep
  <2>1. ASSUME NEW outcome, LeavesByException(outcome) \/ Leaves(outcome)
        PROVE  UNCHANGED sdp /\ UNCHANGED track
    BY <2>1 DEF LeavesByException, Leaves, deviceVars
  <2>2. CASE Rejected \/ TornDown \/ ReadTimesOut \/ ReadFails \/ WriteFails \/ Cancelled
    BY <2>1, <2>2 DEF Rejected, TornDown, ReadTimesOut, ReadFails, WriteFails, Cancelled
  <2>3. CASE Described
    BY <2>3 DEF Described, deviceVars
  <2>4. CASE \/ Starts \/ Connected \/ ConnectFails \/ RequestDrained \/ Challenged \/ SetUp
             \/ Playing \/ FrameDrained \/ PauseOver \/ Reads \/ ReadsEnd
             \/ WaitedClosed \/ WaitCancelled
    BY <2>4 DEF Starts, Connected, ConnectFails, RequestDrained, Challenged, SetUp, Playing,
                FrameDrained, PauseOver, Reads, ReadsEnd, WaitedClosed, WaitCancelled, deviceVars
  <2>. QED
    BY <1>3, <2>2, <2>3, <2>4 DEF CallStep
<1>. QED
  BY <1>1, <1>2, <1>3 DEF Next

\* If every medium of the description names its track before its direction, the
\* track set up is one the device receives audio on.
THEOREM TrackReceives == Spec => []TrackReceivesAudio
<1>1. Init => TrackInv
  BY BackchannelAssumption DEF Init, TrackInv
<1>2. TrackInv /\ [Next]_vars => TrackInv'
  <2> SUFFICES ASSUME TrackInv, [Next]_vars PROVE TrackInv'
    OBVIOUS
  <2>1. UNCHANGED sdp /\ (UNCHANGED track \/ Described)
    BY TrackMoves
  <2>2. CASE UNCHANGED track
    BY <2>1, <2>2 DEF TrackInv, TracksFirst
  <2>3. CASE Described
    <3>1. track' = ParseSdp.track /\ ParseSdp = ReadDescription(sdp)
      BY <2>3, Zenon DEF Described, ParseSdp, ReadDescription, LinesOf, NothingRead
    <3>2. Len(sdp) \in Nat /\ DOMAIN sdp = 1..Len(sdp)
      BY DEF TrackInv
    <3>3. TracksFirst(sdp) => TrackOfMedium(sdp, ReadDescription(sdp))
      BY <3>2, TrackChosen
    <3>. QED
      BY <2>1, <3>1, <3>3 DEF TrackInv, TracksFirst, TrackOfMedium
  <2>. QED
    BY <2>1, <2>2, <2>3
<1>3. TrackInv => TrackReceivesAudio
  <2> SUFFICES ASSUME TrackInv, \A i \in DOMAIN sdp : sdp[i].writes = "control first",
                      track # NoTrack
               PROVE  \E i \in DOMAIN sdp : sdp[i].sendonly /\ sdp[i].track = track[Len(track)]
    BY DEF TrackReceivesAudio
  <2>1. PICK i \in DOMAIN sdp : sdp[i].sendonly /\ track = Named(sdp[i])
    BY DEF TrackInv, TracksFirst
  <2>2. Len(Named(sdp[i])) = 2 /\ Named(sdp[i])[2] = sdp[i].track
    BY DEF Named
  <2>. QED
    BY <2>1, <2>2
<1>. QED
  BY <1>1, <1>2, <1>3, PTL DEF Spec

=============================================================================
