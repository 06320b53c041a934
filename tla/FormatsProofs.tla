--------------------------- MODULE FormatsProofs ---------------------------
(***************************************************************************)
(* What Formats promises of the calls that read and of those that write,   *)
(* for every device and every argument.  Most of it is said of the         *)
(* operators the calls are made of: what a sort, a sum, a fold or a        *)
(* flattening yields is proved step by step along the numbers.             *)
(***************************************************************************)
EXTENDS Formats, FiniteSetTheorems, SequenceTheorems, TLAPS

(***************************************************************************)
(* Sorting.                                                                *)
(***************************************************************************)

\* How many members of S there are up to x.
Rank(S, x) == Cardinality({y \in S : y <= x})

\* A member has a rank, and a greater member a greater one.
LEMMA RankGrows ==
  ASSUME NEW S \in SUBSET Int, IsFiniteSet(S), NEW x \in S
  PROVE  /\ Rank(S, x) \in 1..Cardinality(S)
         /\ \A y \in S : x < y => Rank(S, x) < Rank(S, y)
<1> DEFINE Upto(z) == {y \in S : y <= z}
<1>1. ASSUME NEW z \in S PROVE IsFiniteSet(Upto(z)) /\ Cardinality(Upto(z)) \in Nat
  <2>1. Upto(z) \in SUBSET S
    OBVIOUS
  <2>. QED
    BY <2>1, FS_Subset, FS_CardinalityType
<1>2. Cardinality(Upto(x)) <= Cardinality(S) /\ Cardinality(S) \in Nat
  <2>1. Upto(x) \in SUBSET S
    OBVIOUS
  <2>. QED
    BY <2>1, FS_Subset, FS_CardinalityType
<1>3. Cardinality(Upto(x)) # 0
  <2>1. x \in Upto(x)
    OBVIOUS
  <2>. QED
    BY <1>1, <2>1, FS_EmptySet
<1>4. ASSUME NEW y \in S, x < y PROVE Cardinality(Upto(x)) < Cardinality(Upto(y))
  <2>1. Upto(x) \in SUBSET Upto(y) /\ y \in Upto(y) /\ y \notin Upto(x)
    <3>1. \A z \in S : z \in Int
      OBVIOUS
    <3>2. \A z \in S : z <= x => z <= y
      BY <1>4, <3>1
    <3>3. y <= y /\ ~(y <= x)
      BY <1>4, <3>1
    <3>. QED
      BY <3>2, <3>3
  <2>2. Upto(x) # Upto(y)
    BY <2>1
  <2>3. Cardinality(Upto(x)) <= Cardinality(Upto(y)) /\ Cardinality(Upto(x)) # Cardinality(Upto(y))
    BY <1>1, <2>1, <2>2, FS_Subset
  <2>. QED
    BY <1>1, <2>3
<1>. QED
  BY <1>1, <1>2, <1>3, <1>4 DEF Rank

\* Ranks tell the members apart, and there is one for each of 1..n.
LEMMA RankIsBijection ==
  ASSUME NEW S \in SUBSET Int, IsFiniteSet(S)
  PROVE  /\ \A x, y \in S : Rank(S, x) = Rank(S, y) => x = y
         /\ \A i \in 1..Cardinality(S) : \E x \in S : Rank(S, x) = i
<1> DEFINE rank == [x \in S |-> Rank(S, x)]
           n == Cardinality(S)
<1>1. n \in Nat
  BY FS_CardinalityType
<1>2. ASSUME NEW x \in S, NEW y \in S, Rank(S, x) = Rank(S, y) PROVE x = y
  <2>1. Rank(S, x) \in Int /\ ~(x < y) /\ ~(y < x)
    BY <1>2, <1>1, RankGrows
  <2>. QED
    BY <2>1
<1>3. rank \in [S -> 1..n]
  BY RankGrows
<1>4. rank \in Injection(S, 1..n)
  BY <1>2, <1>3 DEF Injection, IsInjective
<1>5. IsFiniteSet(1..n) /\ Cardinality(1..n) = n
  BY <1>1, FS_Interval
<1>6. rank \in Surjection(S, 1..n)
  BY <1>4, <1>5, FS_Injection
<1>. QED
  BY <1>2, <1>6 DEF Surjection

\* The members in order: each stands at its rank.
LEMMA AscendingFacts ==
  ASSUME NEW S \in SUBSET Int, IsFiniteSet(S)
  PROVE  /\ Cardinality(S) \in Nat
         /\ Ascending(S) \in [1..Cardinality(S) -> S]
         /\ \A i \in 1..Cardinality(S) : Rank(S, Ascending(S)[i]) = i
         /\ \A x \in S : Rank(S, x) \in 1..Cardinality(S) /\ Ascending(S)[Rank(S, x)] = x
<1> DEFINE n == Cardinality(S)
           Rises(s) == \A i, j \in 1..n : i < j => s[i] < s[j]
           t == [i \in 1..n |-> CHOOSE x \in S : Rank(S, x) = i]
           s == Ascending(S)
<1>1. n \in Nat
  BY FS_CardinalityType
<1>2. t \in [1..n -> S] /\ \A i \in 1..n : Rank(S, t[i]) = i
  BY RankIsBijection
<1>3. Rises(t)
  <2> SUFFICES ASSUME NEW i \in 1..n, NEW j \in 1..n, i < j PROVE t[i] < t[j]
    OBVIOUS
  <2>1. t[i] \in S /\ t[j] \in S /\ t[i] \in Int /\ t[j] \in Int
    BY <1>2
  <2>2. t[i] # t[j] /\ ~(t[j] < t[i])
    BY <1>2, <2>1, RankGrows
  <2> HIDE DEF t
  <2>. QED
    BY <2>1, <2>2
<1>4. s \in [1..n -> S] /\ Rises(s)
  <2> HIDE DEF t
  <2>. QED
    BY <1>2, <1>3 DEF Ascending
<1> HIDE DEF s, t
<1>5. ASSUME NEW i \in 1..n, NEW j \in 1..n, s[i] = s[j] PROVE i = j
  <2>1. s[i] \in Int /\ s[j] \in Int
    BY <1>4
  <2>2. ~(i < j) /\ ~(j < i)
    BY <1>4, <1>5, <2>1
  <2>. QED
    BY <1>1, <2>2
<1>6. \A x \in S : \E i \in 1..n : s[i] = x
  <2>1. s \in Injection(1..n, S)
    BY <1>4, <1>5 DEF Injection, IsInjective
  <2>2. IsFiniteSet(1..n) /\ Cardinality(1..n) = n
    BY <1>1, FS_Interval
  <2>3. s \in Surjection(1..n, S)
    BY <2>1, <2>2, FS_Injection
  <2>. QED
    BY <2>3 DEF Surjection
<1>7. ASSUME NEW i \in 1..n PROVE Rank(S, s[i]) = i
  <2> DEFINE Upto == {y \in S : y <= s[i]}
             up == [j \in 1..i |-> s[j]]
  <2>1. ASSUME NEW j \in 1..i PROVE s[j] \in Upto
    <3>1. j \in 1..n /\ (j = i \/ j < i)
      BY <1>1
    <3>2. s[j] \in S /\ s[i] \in S /\ s[j] \in Int /\ s[i] \in Int
      BY <1>4, <3>1
    <3>3. s[j] <= s[i]
      BY <1>4, <3>1, <3>2
    <3>. QED
      BY <3>2, <3>3
  <2>2. ASSUME NEW y \in Upto PROVE \E j \in 1..i : s[j] = y
    <3>1. PICK j \in 1..n : s[j] = y
      BY <1>6
    <3>2. s[j] \in Int /\ s[i] \in Int /\ s[j] <= s[i]
      BY <1>4, <3>1
    <3>3. ~(i < j)
      BY <1>4, <3>2
    <3>4. j \in 1..i
      BY <1>1, <3>3
    <3>. QED
      BY <3>1, <3>4
  <2>3. up \in Bijection(1..i, Upto)
    <3>1. \A j \in 1..i : j \in 1..n
      BY <1>1
    <3>2. \A j, k \in 1..i : s[j] = s[k] => j = k
      BY <1>5, <3>1
    <3> HIDE DEF Upto
    <3>. QED
      BY <2>1, <2>2, <3>2 DEF Bijection, Injection, Surjection, IsInjective
  <2>4. IsFiniteSet(1..i) /\ Cardinality(1..i) = i
    BY FS_Interval
  <2>5. Cardinality(Upto) = i
    <3> HIDE DEF Upto, up
    <3>. QED
      BY <2>3, <2>4, FS_Bijection DEF ExistsBijection
  <2>. QED
    BY <2>5 DEF Rank
<1>8. ASSUME NEW x \in S PROVE Rank(S, x) \in 1..n /\ s[Rank(S, x)] = x
  <2>1. PICK i \in 1..n : s[i] = x
    BY <1>6
  <2>. QED
    BY <1>7, <2>1
<1>. QED
  BY <1>1, <1>4, <1>7, <1>8 DEF s

(***************************************************************************)
(* Shutter speeds.                                                         *)
(***************************************************************************)

\* A factor that is not zero does not make a product smaller.
LEMMA Times ==
  ASSUME NEW k \in Int, NEW d \in Nat \ {0}
  PROVE  k * d \in Int /\ (k >= 1 => k * d >= d) /\ (k <= -1 => k * d <= -d)
OBVIOUS

\* round() goes half of the divisor far, or less.
LEMMA RoundedNear ==
  ASSUME NEW num \in Int, NEW den \in Nat \ {0}
  PROVE  /\ Rounded(num, den) \in Int
         /\ 2 * num - den <= 2 * (Rounded(num, den) * den)
         /\ 2 * (Rounded(num, den) * den) <= 2 * num + den
<1> DEFINE q == num \div den
           r == num % den
<1>1. q \in Int /\ r \in 0..(den - 1) /\ num = den * q + r
  OBVIOUS
<1>2. den * q = q * den /\ (q + 1) * den = q * den + den /\ q * den \in Int
  BY <1>1
<1>3. Rounded(num, den) = IF 2 * r > den \/ (2 * r = den /\ q % 2 = 1) THEN q + 1 ELSE q
  BY DEF Rounded
<1> HIDE DEF q, r
<1> DEFINE qd == q * den
<1>4. qd \in Int /\ num = qd + r /\ (q + 1) * den = qd + den
  BY <1>1, <1>2
<1>5. CASE 2 * r > den \/ (2 * r = den /\ q % 2 = 1)
  <2>1. Rounded(num, den) = q + 1 /\ 2 * r >= den
    BY <1>1, <1>3, <1>5
  <2>2. Rounded(num, den) * den = qd + den
    BY <1>4, <2>1
  <2> HIDE DEF qd
  <2>. QED
    BY <1>1, <1>4, <2>1, <2>2
<1>6. CASE ~(2 * r > den \/ (2 * r = den /\ q % 2 = 1))
  <2>1. Rounded(num, den) = q /\ 2 * r <= den
    BY <1>1, <1>3, <1>6
  <2>2. Rounded(num, den) * den = qd
    BY <2>1
  <2> HIDE DEF qd
  <2>. QED
    BY <1>1, <1>4, <2>1, <2>2
<1>. QED
  BY <1>5, <1>6

\* What is nearer than half of the divisor is what round() gives.
LEMMA RoundedIs ==
  ASSUME NEW num \in Int, NEW den \in Nat \ {0}, NEW m \in Int,
         2 * num - den < 2 * (m * den), 2 * (m * den) < 2 * num + den
  PROVE  Rounded(num, den) = m
<1> DEFINE r == Rounded(num, den)
           rd == r * den
           md == m * den
<1>1. r \in Int /\ 2 * num - den <= 2 * rd /\ 2 * rd <= 2 * num + den
  BY RoundedNear
<1> HIDE DEF r
<1>2. rd \in Int /\ md \in Int /\ (r - m) * den = rd - md /\ r - m \in Int
  BY <1>1
<1>3. ~(r - m >= 1) /\ ~(r - m <= -1)
  <2> DEFINE k == r - m
  <2>1. (k >= 1 => k * den >= den) /\ (k <= -1 => k * den <= -den)
    BY <1>2, Times
  <2>2. k * den = rd - md
    BY <1>2
  <2>3. rd - md < den /\ rd - md > -den
    <3> HIDE DEF rd, md
    <3>. QED
      BY <1>1, <1>2 DEF md
  <2> HIDE DEF rd, md
  <2>4. rd - md \in Int
    BY <1>2
  <2>5. ~(rd - md >= den) /\ ~(rd - md <= -den)
    BY <2>3, <2>4
  <2>. QED
    BY <2>1, <2>2, <2>5
<1>. QED
  BY <1>1, <1>3 DEF r

\* A shutter of 1/N is written with two digits, and is read as 1/N again.
LEMMA FractionReadBack ==
  ASSUME NEW N \in 1..319
  PROVE  /\ Rounded(100000, N) > 0
         /\ Rounded(100000, Rounded(100000, N)) = N
<1> DEFINE r == Rounded(100000, N)
<1> HIDE DEF r
<1>1. r \in Int /\ 200000 - N <= 2 * (r * N) /\ 2 * (r * N) <= 200000 + N
  <2> DEFINE A == 100000
  <2>1. A \in Int /\ N \in Nat \ {0}
    OBVIOUS
  <2> HIDE DEF A
  <2>2. /\ Rounded(A, N) \in Int
        /\ 2 * A - N <= 2 * (Rounded(A, N) * N)
        /\ 2 * (Rounded(A, N) * N) <= 2 * A + N
    BY <2>1, RoundedNear
  <2>. QED
    BY <2>2 DEF A, r
<1>2. r > 0 /\ 200000 - r < 2 * (N * r) /\ 2 * (N * r) < 200000 + r
  <2>0. N * r = r * N /\ r * N \in Int
    BY <1>1
  <2>1. CASE N <= 315
    <3>1. r > N
      <4> SUFFICES ASSUME r <= N PROVE FALSE
        BY <1>1
      <4>1. r * N <= N * N /\ N * N <= 315 * 315
        BY <1>1, <2>1
      <4>. QED
        BY <1>1, <2>0, <2>1, <4>1
    <3>. QED
      BY <1>1, <2>0, <3>1
  <2>2. CASE N = 316
    <3>1. r = 316
      BY <1>1, <2>2
    <3>. QED
      BY <2>2, <3>1
  <2>3. CASE N = 317
    <3>1. r = 315
      BY <1>1, <2>3
    <3>. QED
      BY <2>3, <3>1
  <2>4. CASE N = 318
    <3>1. r = 314
      BY <1>1, <2>4
    <3>. QED
      BY <2>4, <3>1
  <2>5. CASE N = 319
    <3>1. r = 313
      BY <1>1, <2>5
    <3>. QED
      BY <2>5, <3>1
  <2>. QED
    BY <2>1, <2>2, <2>3, <2>4, <2>5
<1>3. Rounded(100000, r) = N
  <2>1. r \in Nat \ {0} /\ 2 * 100000 - r < 2 * (N * r) /\ 2 * (N * r) < 2 * 100000 + r
    BY <1>1, <1>2
  <2>. QED
    BY <2>1, RoundedIs
<1>. QED
  BY <1>2, <1>3 DEF r

\* Half way between two numbers round() goes to the even one, whatever the
\* divisor.
LEMMA RoundedTie ==
  ASSUME NEW num \in Int, NEW den \in Nat \ {0}, NEW m \in Int, 2 * num = 2 * (m * den) + den
  PROVE  Rounded(num, den) = IF m % 2 = 1 THEN m + 1 ELSE m
<1> DEFINE q == num \div den
           r == num % den
           md == m * den
           qd == q * den
<1>1. q \in Int /\ r \in 0..(den - 1) /\ num = den * q + r
  OBVIOUS
<1>2. Rounded(num, den) = IF 2 * r > den \/ (2 * r = den /\ q % 2 = 1) THEN q + 1 ELSE q
  BY DEF Rounded
<1> HIDE DEF q, r
<1>3. /\ md \in Int /\ qd \in Int /\ q - m \in Int /\ (q - m) * den = qd - md
      /\ num = qd + r /\ 2 * num = 2 * md + den
  BY <1>1
<1>4. q = m
  <2>1. (q - m >= 1 => (q - m) * den >= den) /\ (q - m <= -1 => (q - m) * den <= -den)
    BY <1>3, Times
  <2> HIDE DEF md, qd
  <2>2. qd - md \in Int /\ ~(qd - md >= den) /\ ~(qd - md <= -den)
    BY <1>1, <1>3
  <2>3. ~(q - m >= 1) /\ ~(q - m <= -1)
    BY <1>3, <2>1, <2>2
  <2>. QED
    BY <1>1, <1>3, <2>3
<1>5. 2 * r = den
  <2>1. qd = md
    BY <1>4
  <2> HIDE DEF md, qd
  <2>. QED
    BY <1>1, <1>3, <2>1
<1>. QED
  BY <1>1, <1>2, <1>4, <1>5

\* A factor that is not zero can be left out of an equation.
LEMMA Cancel ==
  ASSUME NEW x \in Int, NEW y \in Int, NEW d \in Nat \ {0}, x * d = y * d
  PROVE  x = y
<1>1. x - y \in Int /\ (x - y) * d = x * d - y * d /\ x * d \in Int
  OBVIOUS
<1>2. ~(x - y >= 1) /\ ~(x - y <= -1)
  BY <1>1, Times
<1>. QED
  BY <1>1, <1>2

\* round() keeps the order of quotients, whatever their divisors.
LEMMA RoundedInOrder ==
  ASSUME NEW a \in Int, NEW d \in Nat \ {0}, NEW b \in Int, NEW e \in Nat \ {0}, a * e <= b * d
  PROVE  Rounded(a, d) <= Rounded(b, e)
<1> DEFINE r == Rounded(a, d)
           s == Rounded(b, e)
<1> HIDE DEF r, s
<1>1. r \in Int /\ 2 * (r * d) <= 2 * a + d
  BY RoundedNear DEF r
<1>2. s \in Int /\ 2 * b - e <= 2 * (s * e)
  BY RoundedNear DEF s
<1>3. SUFFICES ASSUME s < r PROVE FALSE
  BY <1>1, <1>2 DEF r, s
<1> DEFINE rde == (r * d) * e
           sed == (s * e) * d
           ed == d * e
<1>4. 2 * rde <= 2 * (a * e) + ed
  <2> DEFINE rd == r * d
  <2>1. rd \in Int /\ 2 * rd <= 2 * a + d
    BY <1>1
  <2> HIDE DEF rd
  <2>2. (2 * rd) * e <= (2 * a + d) * e
    BY <2>1
  <2>3. (2 * rd) * e = 2 * (rd * e) /\ (2 * a + d) * e = 2 * (a * e) + d * e
    BY <2>1
  <2>. QED
    BY <2>2, <2>3 DEF rd
<1>5. 2 * (b * d) - ed <= 2 * sed
  <2> DEFINE se == s * e
  <2>1. se \in Int /\ 2 * b - e <= 2 * se
    BY <1>2
  <2> HIDE DEF se
  <2>2. (2 * b - e) * d <= (2 * se) * d
    BY <2>1
  <2>3. (2 * se) * d = 2 * (se * d) /\ (2 * b - e) * d = 2 * (b * d) - d * e
    BY <2>1
  <2>. QED
    BY <2>2, <2>3 DEF se
<1>6. rde \in Int /\ sed \in Int /\ ed \in Nat \ {0} /\ rde - sed = (r - s) * ed /\ r - s \in Int
  BY <1>1, <1>2
<1>7. r - s = 1
  <2>1. (r - s - 1 >= 1 => (r - s - 1) * ed >= ed) /\ (r - s - 1) * ed = (r - s) * ed - ed
    BY <1>6, Times
  <2> HIDE DEF rde, sed, ed
  <2>2. rde - sed <= ed
    BY <1>4, <1>5, <1>6
  <2>3. ~(r - s - 1 >= 1)
    BY <1>6, <2>1, <2>2
  <2>. QED
    BY <1>1, <1>2, <1>3, <2>3
<1>8. 2 * (a * e) = 2 * sed + ed /\ 2 * (b * d) = 2 * sed + ed
  <2>1. rde - sed = ed
    BY <1>6, <1>7
  <2> DEFINE ae == a * e
             bd == b * d
  <2>2. ae \in Int /\ bd \in Int /\ ae <= bd
    OBVIOUS
  <2> HIDE DEF rde, sed, ed
  <2>3. 2 * rde <= 2 * ae + ed /\ 2 * bd - ed <= 2 * sed
    BY <1>4, <1>5
  <2> HIDE DEF ae, bd
  <2>4. 2 * ae = 2 * sed + ed /\ 2 * bd = 2 * sed + ed
    BY <1>6, <2>1, <2>2, <2>3
  <2>. QED
    BY <2>4 DEF ae, bd
<1>9. 2 * a = 2 * (s * d) + d
  <2>1. (2 * (s * d) + d) * e = 2 * sed + ed /\ (2 * a) * e = 2 * (a * e)
    BY <1>2
  <2>2. 2 * (s * d) + d \in Int /\ 2 * a \in Int
    BY <1>2
  <2>. QED
    BY <1>8, <2>1, <2>2, Cancel
<1>10. 2 * b = 2 * (s * e) + e
  <2>1. (2 * (s * e) + e) * d = 2 * sed + ed /\ (2 * b) * d = 2 * (b * d)
    BY <1>2
  <2>2. 2 * (s * e) + e \in Int /\ 2 * b \in Int
    BY <1>2
  <2>. QED
    BY <1>8, <2>1, <2>2, Cancel
<1>. QED
  BY <1>1, <1>2, <1>3, <1>9, <1>10, RoundedTie DEF r, s

Speed        == [form : Forms, num : Int, den : Nat]
Milliseconds == [num : Int, den : Nat]
Settings     == [mode : Nat, value1 : Milliseconds, value2 : Milliseconds]

\* What is written for a speed is a number of milliseconds, half of a hundredth
\* from it or less.
LEMMA Written ==
  ASSUME NEW ms \in Milliseconds
  PROVE  /\ TwoDigits(ms) \in Milliseconds
         /\ TwoDigits(ms).den # 0 => Near(TwoDigits(ms), ms)
<1>0. ms.num \in Int /\ ms.den \in Nat
  BY DEF Milliseconds
<1>1. CASE ms.den = 0
  BY <1>1 DEF TwoDigits
<1>2. CASE ms.den # 0
  <2> DEFINE d == ms.den
             n == 100 * ms.num
             w == Rounded(n, d)
             wd == w * d
  <2>0. n \in Int /\ d \in Nat \ {0}
    BY <1>0, <1>2
  <2>1. w \in Int /\ 2 * n - d <= 2 * wd /\ 2 * wd <= 2 * n + d
    <3> HIDE DEF n, d
    <3>. QED
      BY <2>0, RoundedNear
  <2>2. TwoDigits(ms) = [num |-> w, den |-> 100]
    BY <1>2 DEF TwoDigits
  <2>3. Near(TwoDigits(ms), ms)
    <3>1. wd \in Int
      BY <2>0, <2>1
    <3> HIDE DEF w
    <3>2. TwoDigits(ms).num * ms.den = wd /\ TwoDigits(ms).den = 100
      BY <2>2
    <3> HIDE DEF wd
    <3>. QED
      BY <1>0, <2>1, <3>1, <3>2 DEF Near
  <2>. QED
    BY <2>1, <2>2, <2>3 DEF Milliseconds
<1>. QED
  BY <1>1, <1>2

\* Speeds that may be asked for are numbers of milliseconds, none negative.
LEMMA SpeedsInMs ==
  ASSUME NEW speed \in Speed
  PROVE  /\ InMs(speed) \in Milliseconds
         /\ ~NotASpeed(speed) => InMs(speed).num >= 0
<1>1. speed.num \in Int /\ speed.den \in Nat /\ 1000 * speed.num \in Int
  BY DEF Speed
<1>2. InMs(speed) \in Milliseconds
  BY <1>1 DEF InMs, Milliseconds
<1>. QED
  BY <1>2 DEF NotASpeed, NaN, Milliseconds

\* A range that is in order is written in order.
LEMMA OrderKept ==
  ASSUME NEW a \in Milliseconds, NEW b \in Milliseconds, b.num >= 0, a.num >= 0,
         ~Exceeds(a, b)
  PROVE  ~Exceeds(TwoDigits(a), TwoDigits(b))
<1>0. a.num \in Int /\ a.den \in Nat /\ b.num \in Int /\ b.den \in Nat
  BY DEF Milliseconds
<1>1. a.num * b.den <= b.num * a.den
  BY <1>0 DEF Exceeds
<1>2. TwoDigits(a).num \in Int /\ TwoDigits(b).num \in Int
  BY Written DEF Milliseconds
<1>3. CASE a.den = 0 /\ b.den = 0
  BY <1>0, <1>3 DEF TwoDigits, Exceeds
<1>4. CASE a.den = 0 /\ b.den # 0
  <2>1. a.num * b.den <= 0
    BY <1>0, <1>1, <1>4
  <2>2. a.num = 0
    <3>1. b.den \in Nat \ {0}
      BY <1>0, <1>4
    <3>2. ~(a.num >= 1)
      BY <1>0, <2>1, <3>1, Times
    <3>. QED
      BY <1>0, <3>2
  <2>3. TwoDigits(a) = a /\ TwoDigits(b).den = 100
    BY <1>4 DEF TwoDigits
  <2>. QED
    BY <1>0, <1>2, <1>4, <2>2, <2>3 DEF Exceeds
<1>5. CASE a.den # 0 /\ b.den = 0
  <2>1. TwoDigits(b) = b /\ TwoDigits(a).den = 100
    BY <1>5 DEF TwoDigits
  <2>2. TwoDigits(a).num * b.den = 0 /\ b.num * 100 >= 0
    BY <1>0, <1>2, <1>5
  <2>. QED
    BY <1>0, <1>2, <2>1, <2>2 DEF Exceeds
<1>6. CASE a.den # 0 /\ b.den # 0
  <2> DEFINE an == 100 * a.num
             bn == 100 * b.num
  <2>1. an \in Int /\ bn \in Int /\ a.den \in Nat \ {0} /\ b.den \in Nat \ {0}
    BY <1>0, <1>6
  <2>2. an * b.den <= bn * a.den
    <3> DEFINE x == a.num * b.den
               y == b.num * a.den
    <3>1. x \in Int /\ y \in Int /\ x <= y
      BY <1>0, <1>1
    <3>2. an * b.den = 100 * x /\ bn * a.den = 100 * y
      BY <1>0
    <3> HIDE DEF x, y
    <3>. QED
      BY <3>1, <3>2
  <2>3. TwoDigits(a) = [num |-> Rounded(an, a.den), den |-> 100]
        /\ TwoDigits(b) = [num |-> Rounded(bn, b.den), den |-> 100]
    BY <1>6 DEF TwoDigits
  <2> HIDE DEF an, bn
  <2>4. Rounded(an, a.den) <= Rounded(bn, b.den)
    BY <2>1, <2>2, RoundedInOrder
  <2>5. TwoDigits(a).num <= TwoDigits(b).num /\ TwoDigits(a).den = 100 /\ TwoDigits(b).den = 100
    BY <2>3, <2>4
  <2>. QED
    BY <1>2, <2>5 DEF Exceeds
<1>. QED
  BY <1>3, <1>4, <1>5, <1>6

\* 1/N is read back as 1/N.
LEMMA AsAsked ==
  ASSUME NEW speed \in Speed, speed.form = "fraction", speed.num = 1, speed.den # 0, speed.den < 320
  PROVE  AsFraction(TwoDigits(InMs(speed))) = speed.den
<1> DEFINE N == speed.den
<1>1. N \in 1..319
  BY DEF Speed
<1>2. InMs(speed) = [num |-> 1000, den |-> N]
  BY DEF InMs
<1> HIDE DEF N
<1>3. TwoDigits(InMs(speed)) = [num |-> Rounded(100000, N), den |-> 100]
  <2>1. 100 * 1000 = 100000 /\ N # 0
    BY <1>1
  <2>. QED
    BY <1>2, <2>1 DEF TwoDigits
<1>4. Rounded(100000, N) > 0 /\ Rounded(100000, Rounded(100000, N)) = N
  BY <1>1, FractionReadBack
<1>5. 1000 * 100 = 100000
  OBVIOUS
<1>. QED
  BY <1>3, <1>4, <1>5 DEF AsFraction, N

\* The device has settings for every profile, and a speed was asked for it or
\* none.
TypeInv ==
  /\ exposure \in [Channels -> [Profiles -> Settings]]
  /\ asked \in [Channels -> [Profiles -> Speed \cup {Unasked}]]

\* The last speed that was asked for is still what the device has.
AskedHeld ==
  \A c \in Channels, p \in Profiles :
    asked[c][p] = Unasked \/ (/\ ~NotASpeed(asked[c][p])
                              /\ exposure[c][p].value2 = TwoDigits(InMs(asked[c][p])))

\* What was read last is what the device has.
Reported ==
  call.op = "get_exposure" =>
    call.channel \in Channels /\ call.report = ParseExposure(exposure[call.channel])

ExposureInv == TypeInv /\ AskedHeld /\ Reported

\* The invariant holds of a device as it comes.
LEMMA ExposureStarts == Init => ExposureInv
<1> SUFFICES ASSUME Init PROVE ExposureInv
  OBVIOUS
<1>1. Default \in Settings
  BY DEF Default, Settings, Milliseconds, ExposureAuto
<1>2. TypeInv
  BY <1>1 DEF Init, TypeInv
<1>3. AskedHeld
  BY DEF Init, AskedHeld
<1>4. Reported
  BY DEF Init, Reported
<1>. QED
  BY <1>2, <1>3, <1>4 DEF ExposureInv

\* What async_set_shutter_range does to a profile of the device.
LEMMA ShutterSet ==
  ASSUME TypeInv,
         NEW slowest \in Speeds, NEW fastest \in Fastest, NEW channel \in Channels,
         NEW chosen \in ProfileSets, SetShutterRange(slowest, fastest, channel, chosen)
  PROVE  /\ slowest \in Speed /\ fastest \in Speed
         /\ call'.op = "set_shutter_range" /\ call'.slowest = slowest /\ call'.channel = channel
         /\ call'.chosen = chosen
         /\ call'.outcome = IF RangeRefused(slowest, fastest, chosen) THEN "value_error" ELSE "ok"
         /\ RangeRefused(slowest, fastest, chosen) => exposure' = exposure /\ asked' = asked
         /\ ~RangeRefused(slowest, fastest, chosen) =>
              /\ chosen \subseteq Profiles
              /\ ~NotASpeed(slowest) /\ ~NotASpeed(fastest)
              /\ ~Exceeds(InMs(fastest), InMs(slowest))
              /\ exposure' = [c \in Channels |-> [p \in Profiles |->
                   IF c = channel /\ p \in chosen THEN Capped(slowest, fastest) ELSE exposure[c][p]]]
              /\ asked' = [c \in Channels |-> [p \in Profiles |->
                   IF c = channel /\ p \in chosen THEN slowest ELSE asked[c][p]]]
<1>1. slowest \in Speed /\ fastest \in Speed
  BY FormatsAssumption DEF Speed
<1>2. /\ call'.op = "set_shutter_range" /\ call'.slowest = slowest /\ call'.channel = channel
      /\ call'.chosen = chosen
      /\ call'.outcome = IF RangeRefused(slowest, fastest, chosen) THEN "value_error" ELSE "ok"
  BY DEF SetShutterRange, Called
<1>3. RangeRefused(slowest, fastest, chosen) => exposure' = exposure /\ asked' = asked
  BY DEF SetShutterRange
<1>4. ASSUME ~RangeRefused(slowest, fastest, chosen)
      PROVE  /\ chosen \subseteq Profiles
             /\ ~NotASpeed(slowest) /\ ~NotASpeed(fastest)
             /\ ~Exceeds(InMs(fastest), InMs(slowest))
  BY <1>4 DEF RangeRefused, UnknownProfile
<1>5. ASSUME ~RangeRefused(slowest, fastest, chosen)
      PROVE  /\ exposure' = [c \in Channels |-> [p \in Profiles |->
                  IF c = channel /\ p \in chosen THEN Capped(slowest, fastest) ELSE exposure[c][p]]]
             /\ asked' = [c \in Channels |-> [p \in Profiles |->
                  IF c = channel /\ p \in chosen THEN slowest ELSE asked[c][p]]]
  <2>1. /\ exposure' = [exposure EXCEPT ![channel] =
              [p \in DOMAIN @ |-> IF p \in chosen THEN Capped(slowest, fastest) ELSE @[p]]]
        /\ asked' = [asked EXCEPT ![channel] =
              [p \in DOMAIN @ |-> IF p \in chosen THEN slowest ELSE @[p]]]
    BY <1>5 DEF SetShutterRange
  <2>2. /\ exposure \in [Channels -> [Profiles -> Settings]]
        /\ asked \in [Channels -> [Profiles -> Speed \cup {Unasked}]]
    BY DEF TypeInv
  <2>3. \A c \in Channels : /\ exposure[c] = [p \in Profiles |-> exposure[c][p]]
                            /\ asked[c] = [p \in Profiles |-> asked[c][p]]
                            /\ DOMAIN exposure[c] = Profiles /\ DOMAIN asked[c] = Profiles
    BY <2>2
  <2>. QED
    BY <2>1, <2>2, <2>3
<1>. QED
  BY <1>1, <1>2, <1>3, <1>4, <1>5

\* What async_set_exposure_auto does to a profile of the device.
LEMMA AutoSet ==
  ASSUME TypeInv, NEW channel \in Channels, NEW chosen, SetExposureAuto(channel, chosen)
  PROVE  /\ call'.op = "set_exposure_auto" /\ call'.channel = channel /\ call'.chosen = chosen
         /\ call'.outcome = IF UnknownProfile(chosen) THEN "value_error" ELSE "ok"
         /\ asked' = asked
         /\ UnknownProfile(chosen) => exposure' = exposure
         /\ ~UnknownProfile(chosen) =>
              exposure' = [c \in Channels |-> [p \in Profiles |->
                IF c = channel /\ p \in chosen THEN [exposure[c][p] EXCEPT !.mode = ExposureAuto]
                                               ELSE exposure[c][p]]]
<1>1. /\ call'.op = "set_exposure_auto" /\ call'.channel = channel /\ call'.chosen = chosen
      /\ call'.outcome = IF UnknownProfile(chosen) THEN "value_error" ELSE "ok"
      /\ asked' = asked
      /\ UnknownProfile(chosen) => exposure' = exposure
  BY DEF SetExposureAuto, Called
<1>2. ASSUME ~UnknownProfile(chosen)
      PROVE  exposure' = [c \in Channels |-> [p \in Profiles |->
               IF c = channel /\ p \in chosen THEN [exposure[c][p] EXCEPT !.mode = ExposureAuto]
                                              ELSE exposure[c][p]]]
  <2>1. exposure' = [exposure EXCEPT ![channel] =
           [p \in DOMAIN @ |-> IF p \in chosen THEN [@[p] EXCEPT !.mode = ExposureAuto] ELSE @[p]]]
    BY <1>2 DEF SetExposureAuto, HandedBack
  <2>2. exposure \in [Channels -> [Profiles -> Settings]]
    BY DEF TypeInv
  <2>3. \A c \in Channels : /\ exposure[c] = [p \in Profiles |-> exposure[c][p]]
                            /\ DOMAIN exposure[c] = Profiles
    BY <2>2
  <2>. QED
    BY <2>1, <2>2, <2>3
<1>. QED
  BY <1>1, <1>2

\* The settings written are settings, in order, with the speed asked for.
LEMMA CappedFacts ==
  ASSUME NEW slowest \in Speed, NEW fastest \in Speed,
         ~NotASpeed(slowest), ~NotASpeed(fastest), ~Exceeds(InMs(fastest), InMs(slowest))
  PROVE  LET now == Capped(slowest, fastest)
         IN /\ now \in Settings
            /\ now.mode = ShutterRange
            /\ ~Exceeds(now.value1, now.value2)
            /\ now.value2 = TwoDigits(InMs(slowest))
            /\ now.value2.den # 0 => Near(now.value2, InMs(slowest))
<1> DEFINE now == Capped(slowest, fastest)
           a == InMs(fastest)
           b == InMs(slowest)
<1>1. a \in Milliseconds /\ b \in Milliseconds /\ a.num >= 0 /\ b.num >= 0
  BY SpeedsInMs
<1>2. now = [mode |-> ShutterRange, value1 |-> TwoDigits(a), value2 |-> TwoDigits(b)]
  BY DEF Capped
<1> HIDE DEF a, b, now
<1>3. /\ TwoDigits(a) \in Milliseconds /\ TwoDigits(b) \in Milliseconds
      /\ TwoDigits(b).den # 0 => Near(TwoDigits(b), b)
  BY <1>1, Written
<1>4. ~Exceeds(TwoDigits(a), TwoDigits(b))
  BY <1>1, OrderKept DEF a, b
<1>5. now \in Settings
  BY <1>2, <1>3 DEF Settings, ShutterRange
<1>. QED
  BY <1>2, <1>3, <1>4, <1>5 DEF now, b

\* Every step keeps the invariant.
LEMMA ExposureStep ==
  ASSUME ExposureInv, [Next]_vars
  PROVE  ExposureInv'
<1>0. TypeInv /\ AskedHeld /\ Reported
  BY DEF ExposureInv
<1>1. ASSUME UNCHANGED <<exposure, asked>>, Reported' PROVE ExposureInv'
  BY <1>0, <1>1 DEF ExposureInv, TypeInv, AskedHeld
<1>2. ASSUME NEW channel \in Channels, NEW slowest \in Speeds, NEW fastest \in Fastest,
             NEW chosen \in ProfileSets, SetShutterRange(slowest, fastest, channel, chosen)
      PROVE  ExposureInv'
  <2>1. slowest \in Speed /\ fastest \in Speed /\ Reported'
    BY <1>0, <1>2, ShutterSet DEF Reported
  <2>2. CASE RangeRefused(slowest, fastest, chosen)
    <3>1. exposure' = exposure /\ asked' = asked
      BY <1>0, <1>2, <2>2, ShutterSet
    <3>. QED
      BY <1>1, <2>1, <3>1
  <2>3. CASE ~RangeRefused(slowest, fastest, chosen)
    <3>1. /\ ~NotASpeed(slowest) /\ ~NotASpeed(fastest) /\ ~Exceeds(InMs(fastest), InMs(slowest))
          /\ exposure' = [c \in Channels |-> [p \in Profiles |->
               IF c = channel /\ p \in chosen THEN Capped(slowest, fastest) ELSE exposure[c][p]]]
          /\ asked' = [c \in Channels |-> [p \in Profiles |->
               IF c = channel /\ p \in chosen THEN slowest ELSE asked[c][p]]]
      BY <1>0, <1>2, <2>3, ShutterSet
    <3>2. Capped(slowest, fastest) \in Settings
          /\ Capped(slowest, fastest).value2 = TwoDigits(InMs(slowest))
      BY <2>1, <3>1, CappedFacts
    <3>3. TypeInv'
      BY <1>0, <2>1, <3>1, <3>2 DEF TypeInv
    <3>4. AskedHeld'
      BY <1>0, <3>1, <3>2 DEF AskedHeld
    <3>. QED
      BY <2>1, <3>3, <3>4 DEF ExposureInv
  <2>. QED
    BY <2>2, <2>3
<1>3. ASSUME NEW channel \in Channels, NEW chosen \in ProfileSets, SetExposureAuto(channel, chosen)
      PROVE  ExposureInv'
  <2>1. Reported' /\ asked' = asked
    BY <1>0, <1>3, AutoSet DEF Reported
  <2>2. CASE UnknownProfile(chosen)
    <3>1. exposure' = exposure
      BY <1>0, <1>3, <2>2, AutoSet
    <3>. QED
      BY <1>1, <2>1, <3>1
  <2>3. CASE ~UnknownProfile(chosen)
    <3>1. exposure' = [c \in Channels |-> [p \in Profiles |->
            IF c = channel /\ p \in chosen THEN [exposure[c][p] EXCEPT !.mode = ExposureAuto]
                                           ELSE exposure[c][p]]]
      BY <1>0, <1>3, <2>3, AutoSet
    <3>2. \A c \in Channels, p \in Profiles :
            /\ [exposure[c][p] EXCEPT !.mode = ExposureAuto] \in Settings
            /\ [exposure[c][p] EXCEPT !.mode = ExposureAuto].value2 = exposure[c][p].value2
      <4>1. \A s \in Settings : [s EXCEPT !.mode = ExposureAuto] \in Settings
                                /\ [s EXCEPT !.mode = ExposureAuto].value2 = s.value2
        BY DEF Settings, ExposureAuto
      <4>2. \A c \in Channels, p \in Profiles : exposure[c][p] \in Settings
        BY <1>0 DEF TypeInv
      <4>. QED
        BY <4>1, <4>2
    <3>3. TypeInv'
      BY <1>0, <2>1, <3>1, <3>2 DEF TypeInv
    <3>4. AskedHeld'
      BY <1>0, <2>1, <3>1, <3>2 DEF AskedHeld
    <3>. QED
      BY <2>1, <3>3, <3>4 DEF ExposureInv
  <2>. QED
    BY <2>2, <2>3
<1>4. ASSUME NEW channel \in Channels, GetExposure(channel) PROVE ExposureInv'
  <2>1. Reported' /\ UNCHANGED <<exposure, asked>>
    BY <1>4 DEF GetExposure, Called, Reported
  <2>. QED
    BY <1>1, <2>1
<1>5. ASSUME call'.op # "get_exposure", UNCHANGED <<exposure, asked>> PROVE ExposureInv'
  BY <1>1, <1>5 DEF Reported
<1>6. ASSUME NEW params \in Params, SetConfig(params) PROVE ExposureInv'
  BY <1>5, <1>6 DEF SetConfig, CalledAlone
<1>7. ASSUME NEW log \in Logs, SearchLogs(log) PROVE ExposureInv'
  BY <1>5, <1>7 DEF SearchLogs, CalledAlone
<1>8. ASSUME NEW lines \in Listings, FindRecordings(lines) PROVE ExposureInv'
  BY <1>5, <1>8 DEF FindRecordings, CalledAlone
<1>9. ASSUME NEW lines \in Storages, GetStorageInfo(lines) PROVE ExposureInv'
  BY <1>5, <1>9 DEF GetStorageInfo, CalledAlone
<1>10. ASSUME NEW channel, NEW start, NEW end, NEW load, DownloadClip(channel, start, end, load)
       PROVE  ExposureInv'
  BY <1>5, <1>10 DEF DownloadClip, CalledAlone
<1>11. CASE UNCHANGED vars
  BY <1>0, <1>1, <1>11 DEF vars, Reported
<1>. QED
  BY <1>2, <1>3, <1>4, <1>6, <1>7, <1>8, <1>9, <1>10, <1>11 DEF Next

\* ExposureInv is an invariant: the client's exposure calls keep the settings of
\* the device well-formed, keep the last speed asked for in them, and report them
\* as they are.
THEOREM ExposureInvariant == Spec => []ExposureInv
<1>. QED
  BY ExposureStarts, ExposureStep, PTL DEF Spec

\* The profiles of a channel are reported in order.
LEMMA ProfilesInOrder ==
  ASSUME NEW settings, DOMAIN settings = Profiles, NEW p \in Profiles
  PROVE  LET entry == ParseExposure(settings)[p + 1]
         IN /\ entry.profile = p
            /\ entry.shutter_range_applies <=> settings[p].mode = ShutterRange
            /\ entry.slowest_fraction = AsFraction(settings[p].value2)
<1>1. /\ Profiles \in SUBSET Int /\ IsFiniteSet(Profiles) /\ Cardinality(Profiles) = 3
      /\ p \in 0..2 /\ p + 1 \in 1..3
  <2>1. IsFiniteSet(0..2) /\ Cardinality(0..2) = IF 0 > 2 THEN 0 ELSE 2 - 0 + 1
    <3>1. 0 \in Int /\ 2 \in Int
      OBVIOUS
    <3>. QED
      BY <3>1, FS_Interval, Zenon
  <2>. QED
    BY <2>1 DEF Profiles
<1>2. Rank(Profiles, p) = p + 1
  <2>1. {q \in Profiles : q <= p} = 0..p
    BY <1>1 DEF Profiles
  <2>2. Cardinality(0..p) = p + 1
    BY <1>1, FS_Interval
  <2>. QED
    BY <2>1, <2>2 DEF Rank
<1>3. Ascending(Profiles)[p + 1] = p
  BY <1>1, <1>2, AscendingFacts
<1>. QED
  BY <1>1, <1>3 DEF ParseExposure

\* A reading of the exposure is whole.
LEMMA ExposureRead == ExposureInv => ExposureWhole
<1> SUFFICES ASSUME ExposureInv, call.op = "get_exposure", NEW p \in Profiles
             PROVE  LET entry == call.report[p + 1]
                        speed == asked[call.channel][p]
                    IN /\ entry.profile = p
                       /\ entry.shutter_range_applies <=> exposure[call.channel][p].mode = ShutterRange
                       /\ (speed.form = "fraction" /\ speed.num = 1 /\ speed.den < 320)
                            => entry.slowest_fraction = speed.den
  BY DEF ExposureWhole
<1> DEFINE c == call.channel
           speed == asked[c][p]
<1>1. c \in Channels /\ call.report = ParseExposure(exposure[c]) /\ TypeInv /\ AskedHeld
  BY DEF ExposureInv, Reported
<1>2. DOMAIN exposure[c] = Profiles
  BY <1>1 DEF TypeInv
<1>3. /\ call.report[p + 1].profile = p
      /\ call.report[p + 1].shutter_range_applies <=> exposure[c][p].mode = ShutterRange
      /\ call.report[p + 1].slowest_fraction = AsFraction(exposure[c][p].value2)
  BY <1>1, <1>2, ProfilesInOrder
<1>4. ASSUME speed.form = "fraction", speed.num = 1, speed.den < 320
      PROVE  AsFraction(exposure[c][p].value2) = speed.den
  <2>1. speed \in Speed \cup {Unasked} /\ speed # Unasked
    BY <1>1, <1>4 DEF TypeInv, Unasked
  <2>2. ~NotASpeed(speed) /\ exposure[c][p].value2 = TwoDigits(InMs(speed))
    BY <1>1, <2>1 DEF AskedHeld
  <2>3. speed.den # 0
    BY <1>4, <2>2 DEF NotASpeed
  <2>. QED
    BY <1>4, <2>1, <2>2, <2>3, AsAsked
<1>. QED
  BY <1>3, <1>4

\* What is written for a shutter is what was asked, and goes nowhere else.
LEMMA ShutterWritten ==
  ASSUME TypeInv, Next
  PROVE  ShutterArrives /\ ShutterReaches
<1>1. ASSUME exposure' = exposure, call'.op # "set_shutter_range" \/ call'.outcome # "ok"
      PROVE  ShutterArrives /\ ShutterReaches
  BY <1>1 DEF ShutterArrives, ShutterReaches
<1>2. ASSUME NEW channel \in Channels, NEW slowest \in Speeds, NEW fastest \in Fastest,
             NEW chosen \in ProfileSets, SetShutterRange(slowest, fastest, channel, chosen)
      PROVE  ShutterArrives /\ ShutterReaches
  <2>1. /\ slowest \in Speed /\ fastest \in Speed
        /\ call'.op = "set_shutter_range" /\ call'.slowest = slowest /\ call'.channel = channel
        /\ call'.chosen = chosen
        /\ call'.outcome = IF RangeRefused(slowest, fastest, chosen) THEN "value_error" ELSE "ok"
    BY <1>2, ShutterSet
  <2>2. CASE RangeRefused(slowest, fastest, chosen)
    <3>1. exposure' = exposure /\ call'.outcome # "ok"
      BY <1>2, <2>1, <2>2, ShutterSet
    <3>. QED
      BY <1>1, <3>1
  <2>3. CASE ~RangeRefused(slowest, fastest, chosen)
    <3>1. /\ ~NotASpeed(slowest) /\ ~NotASpeed(fastest) /\ ~Exceeds(InMs(fastest), InMs(slowest))
          /\ chosen \subseteq Profiles
          /\ exposure' = [c \in Channels |-> [p \in Profiles |->
               IF c = channel /\ p \in chosen THEN Capped(slowest, fastest) ELSE exposure[c][p]]]
          /\ asked' = [c \in Channels |-> [p \in Profiles |->
               IF c = channel /\ p \in chosen THEN slowest ELSE asked[c][p]]]
      BY <1>2, <2>3, ShutterSet
    <3> DEFINE new == Capped(slowest, fastest)
    <3>2. /\ new.mode = ShutterRange /\ ~Exceeds(new.value1, new.value2)
          /\ new.value2.den # 0 => Near(new.value2, InMs(slowest))
      BY <2>1, <3>1, CappedFacts
    <3> HIDE DEF new
    <3>3. \A c \in Channels, p \in Profiles : exposure'[c][p] # exposure[c][p] =>
            c = channel /\ p \in chosen /\ exposure'[c][p] = new
      BY <3>1 DEF new
    <3>4. ShutterArrives
      BY <2>1, <2>3, <3>2, <3>3 DEF ShutterArrives
    <3>5. \A p \in chosen : asked'[channel][p] = slowest /\ exposure'[channel][p] = new
      BY <3>1 DEF new
    <3>6. ShutterReaches
      BY <2>1, <3>2, <3>5 DEF ShutterReaches
    <3>. QED
      BY <3>4, <3>6
  <2>. QED
    BY <2>2, <2>3
<1>3. ASSUME NEW channel \in Channels, NEW chosen \in ProfileSets, SetExposureAuto(channel, chosen)
      PROVE  ShutterArrives /\ ShutterReaches
  <2>1. /\ call'.op = "set_exposure_auto" /\ call'.channel = channel /\ call'.chosen = chosen
        /\ call'.outcome = IF UnknownProfile(chosen) THEN "value_error" ELSE "ok"
    BY <1>3, AutoSet
  <2>2. CASE UnknownProfile(chosen)
    <3>1. exposure' = exposure
      BY <1>3, <2>2, AutoSet
    <3>. QED
      BY <1>1, <2>1, <3>1
  <2>3. CASE ~UnknownProfile(chosen)
    <3>1. exposure' = [c \in Channels |-> [p \in Profiles |->
            IF c = channel /\ p \in chosen THEN [exposure[c][p] EXCEPT !.mode = ExposureAuto]
                                           ELSE exposure[c][p]]]
      BY <1>3, <2>3, AutoSet
    <3>2. \A c \in Channels, p \in Profiles : exposure'[c][p] # exposure[c][p] =>
            c = channel /\ p \in chosen /\ exposure'[c][p] = [exposure[c][p] EXCEPT !.mode = ExposureAuto]
      BY <3>1
    <3>. QED
      BY <2>1, <2>3, <3>2 DEF ShutterArrives, ShutterReaches
  <2>. QED
    BY <2>2, <2>3
<1>4. ASSUME NEW channel, GetExposure(channel) PROVE ShutterArrives /\ ShutterReaches
  BY <1>1, <1>4 DEF GetExposure, Called
<1>5. ASSUME NEW params, SetConfig(params) PROVE ShutterArrives /\ ShutterReaches
  BY <1>1, <1>5 DEF SetConfig, CalledAlone
<1>6. ASSUME NEW log, SearchLogs(log) PROVE ShutterArrives /\ ShutterReaches
  BY <1>1, <1>6 DEF SearchLogs, CalledAlone
<1>7. ASSUME NEW lines, FindRecordings(lines) PROVE ShutterArrives /\ ShutterReaches
  BY <1>1, <1>7 DEF FindRecordings, CalledAlone
<1>8. ASSUME NEW lines, GetStorageInfo(lines) PROVE ShutterArrives /\ ShutterReaches
  BY <1>1, <1>8 DEF GetStorageInfo, CalledAlone
<1>9. ASSUME NEW channel, NEW start, NEW end, NEW load, DownloadClip(channel, start, end, load)
      PROVE  ShutterArrives /\ ShutterReaches
  BY <1>1, <1>9 DEF DownloadClip, CalledAlone
<1>. QED
  BY <1>2, <1>3, <1>4, <1>5, <1>6, <1>7, <1>8, <1>9 DEF Next

(***************************************************************************)
(* Clips.                                                                  *)
(***************************************************************************)

\* A clip is found behind its preamble, if there is one.
LEMMA ClipFound ==
  ASSUME NEW load \in Loads
  PROVE  LET body == load.preamble \o load.clip
         IN IF Headers(body) = {} THEN load.clip = <<>> ELSE StripDhavPreamble(body) = load.clip
<1> DEFINE pre == load.preamble
           clip == load.clip
           body == pre \o clip
           at == Len(pre) + 1
<1>1. /\ pre \in Seq(STRING) /\ clip \in Seq(STRING)
      /\ clip = <<>> \/ 1 \in Headers(clip)
      /\ \A i \in Headers(body) : i > Len(pre)
  BY FormatsAssumption DEF LoadShape
<1> HIDE DEF pre, clip
<1>2. /\ Len(body) = Len(pre) + Len(clip) /\ Len(pre) \in Nat /\ Len(clip) \in Nat
      /\ \A i \in 1..Len(clip) : body[Len(pre) + i] = clip[i]
      /\ body \in Seq(STRING)
  BY <1>1
<1>3. \A i \in Headers(body) : i \in Int /\ i <= Len(body) - 3
  <2> HIDE DEF body
  <2>. QED
    BY <1>2 DEF Headers
<1>4. CASE clip = <<>>
  <2>1. Len(body) = Len(pre)
    BY <1>2, <1>4
  <2>2. \A i \in Headers(body) : FALSE
    <3> HIDE DEF body
    <3>. QED
      BY <1>1, <1>2, <1>3, <2>1
  <2>. QED
    BY <1>4, <2>2 DEF pre, clip
<1>5. CASE clip # <<>>
  <2>1. 1 \in Headers(clip) /\ 1 \in 1..(Len(clip) - 3) /\ SubSeq(clip, 1, 4) = Magic
    BY <1>1, <1>5 DEF Headers
  <2>2. at \in Headers(body)
    <3>1. at \in 1..(Len(body) - 3) /\ at + 3 = Len(pre) + 4
      BY <1>2, <2>1
    <3>2. SubSeq(body, at, at + 3) = SubSeq(clip, 1, 4)
      <4> DEFINE l == SubSeq(body, at, at + 3)
                 r == SubSeq(clip, 1, 4)
      <4>1. l = [i \in 1..4 |-> body[Len(pre) + i]]
        <5>1. PICK w : w = body
          OBVIOUS
        <5>2. PICK k \in Nat : k = Len(pre)
          BY <1>2
        <5> HIDE DEF body, at
        <5>3. SubSeq(w, k + 1, k + 4) = [i \in 1..4 |-> w[k + i]]
          OBVIOUS
        <5>. QED
          BY <5>1, <5>2, <5>3 DEF at
      <4>2. r = [i \in 1..4 |-> clip[i]]
        BY <1>2, <2>1
      <4>3. \A i \in 1..4 : i \in 1..Len(clip)
        BY <1>2, <2>1
      <4> HIDE DEF l, r, body
      <4>. QED
        BY <1>2, <4>1, <4>2, <4>3 DEF l, r
    <3>. QED
      BY <2>1, <3>1, <3>2 DEF Headers
  <2>3. Min(Headers(body)) = at
    <3>1. at \in Int /\ \A i \in Headers(body) : i >= at
      <4> HIDE DEF body
      <4>. QED
        BY <1>1, <1>2, <1>3
    <3>2. \A x \in Headers(body) : (\A y \in Headers(body) : x <= y) => x = at
      <4> HIDE DEF body, at
      <4>. QED
        BY <1>3, <2>2, <3>1
    <3> HIDE DEF at, body
    <3>. QED
      BY <2>2, <3>1, <3>2, <1>3 DEF Min
  <2>4. SubSeq(body, at, Len(body)) = clip
    <3>1. clip = [i \in 1..Len(clip) |-> clip[i]]
      BY <1>1
    <3>2. SubSeq(body, at, Len(body)) = [i \in 1..Len(clip) |-> body[Len(pre) + i]]
      <4>1. PICK w : w = body
        OBVIOUS
      <4>2. PICK k, m \in Nat : k = Len(pre) /\ m = Len(clip)
        BY <1>2
      <4> HIDE DEF body, at
      <4>3. SubSeq(w, k + 1, k + m) = [i \in 1..m |-> w[k + i]]
        OBVIOUS
      <4>. QED
        BY <1>2, <4>1, <4>2, <4>3 DEF at
    <3> HIDE DEF body
    <3>. QED
      BY <1>2, <3>1, <3>2
  <2>. QED
    BY <2>2, <2>3, <2>4 DEF StripDhavPreamble, pre, clip
<1>. QED
  BY <1>4, <1>5

\* A clip that is downloaded is whole.
LEMMA ClipMade ==
  ASSUME NEW channel, NEW start, NEW end, NEW load \in Loads, DownloadClip(channel, start, end, load)
  PROVE  ClipWhole(call')
<1> DEFINE body == load.preamble \o load.clip
           refused == channel < 1 \/ end <= start
<1>1. /\ call'.load = load
      /\ call'.clip = IF refused \/ Headers(body) = {} THEN <<>> ELSE StripDhavPreamble(body)
      /\ call'.outcome = IF refused THEN "value_error"
                         ELSE IF Headers(body) = {} THEN "response_error" ELSE "ok"
  BY DEF DownloadClip, CalledAlone
<1>2. IF Headers(body) = {} THEN load.clip = <<>> ELSE StripDhavPreamble(body) = load.clip
  BY ClipFound
<1>3. CASE refused
  BY <1>1, <1>3 DEF ClipWhole
<1>4. CASE ~refused
  <2> HIDE DEF body, refused
  <2>. QED
    BY <1>1, <1>2, <1>4 DEF ClipWhole
<1>. QED
  BY <1>3, <1>4

(***************************************************************************)
(* Sums.                                                                   *)
(***************************************************************************)

\* A set of naturals has a least element.
LEMMA LeastNatural ==
  ASSUME NEW S \in SUBSET Nat, S # {}
  PROVE  \E n \in S : \A m \in S : n <= m
<1> DEFINE R == {ss \in Nat \X Nat : ss[1] < ss[2]}
<1>1. R = OpToRel(<, Nat)
  BY DEF OpToRel
<1>2. IsWellFoundedOn(R, Nat)
  BY <1>1, NatLessThanWellFounded
<1>3. ASSUME NEW x \in Nat, NEW y \in Nat, <<x, y>> \notin R PROVE y <= x
  BY <1>3
<1> HIDE DEF R
<1>4. PICK x \in S : \A y \in S : ~(<<y, x>> \in R)
  BY <1>2, WFMin
<1>5. ASSUME NEW y \in S PROVE x <= y
  <2>1. <<y, x>> \notin R
    BY <1>4
  <2>. QED
    BY <2>1, <1>3
<1>. QED
  BY <1>5

\* Induction from 0 up to n, as a fact about the set P of the numbers shown.
LEMMA Upward ==
  ASSUME NEW n \in Nat, NEW P, 0 \in P, \A k \in 1..n : k - 1 \in P => k \in P
  PROVE  \A k \in 0..n : k \in P
<1> DEFINE Left == {k \in 0..n : k \notin P}
<1>1. SUFFICES ASSUME Left # {} PROVE FALSE
  OBVIOUS
<1>2. PICK k \in Left : \A l \in Left : k <= l
  <2>1. Left \in SUBSET Nat
    OBVIOUS
  <2> HIDE DEF Left
  <2>. QED
    BY <1>1, <2>1, LeastNatural
<1>3. k # 0 /\ k \in 1..n /\ k - 1 \in 0..n /\ ~(k <= k - 1)
  BY <1>2
<1>4. k - 1 \notin Left
  BY <1>2, <1>3
<1>. QED
  BY <1>2, <1>3, <1>4

\* The subsets of S with k members or less.
Small(S, k) == {s \in SUBSET S : Cardinality(s) <= k}

\* How small a subset of a finite set is: none if empty, and one less without a member.
LEMMA SmallSets ==
  ASSUME NEW S, IsFiniteSet(S), NEW s \in SUBSET S, NEW k \in Nat
  PROVE  /\ Cardinality(s) \in 0..Cardinality(S) /\ Cardinality(S) \in Nat
         /\ Cardinality(s) <= 0 <=> s = {}
         /\ \A x \in s : Cardinality(s) <= k => k # 0 /\ Cardinality(s \ {x}) <= k - 1
<1>1. IsFiniteSet(s) /\ Cardinality(s) <= Cardinality(S)
  BY FS_Subset
<1>2. Cardinality(s) \in Nat /\ Cardinality(S) \in Nat /\ (Cardinality(s) = 0 <=> s = {})
  BY <1>1, FS_CardinalityType, FS_EmptySet
<1>3. ASSUME NEW x \in s PROVE Cardinality(s \ {x}) = Cardinality(s) - 1 /\ Cardinality(s) # 0
  BY <1>1, <1>2, FS_RemoveElement
<1>. QED
  BY <1>1, <1>2, <1>3

\* A sum over s of what v has for its members, by the sums over smaller sets.
Summed(v, g, s) ==
  IF s = {} THEN 0 ELSE v[CHOOSE x \in s : TRUE] + g[s \ {CHOOSE x \in s : TRUE}]

\* A function sums up every small set of a finite one.
LEMMA SumExists ==
  ASSUME NEW S, IsFiniteSet(S), NEW v
  PROVE  \E g : g = [s \in SUBSET S |-> Summed(v, g, s)]
<1> DEFINE n == Cardinality(S)
           Done == {k \in 0..n : \E g : g = [s \in Small(S, k) |-> Summed(v, g, s)]}
<1>0. n \in Nat /\ S \in SUBSET S
  BY FS_CardinalityType
<1>1. 0 \in Done
  <2> DEFINE g == [s \in Small(S, 0) |-> 0]
  <2>1. \A s \in Small(S, 0) : s = {}
    BY SmallSets DEF Small
  <2>2. g = [s \in Small(S, 0) |-> Summed(v, g, s)]
    BY <2>1 DEF Summed
  <2> HIDE DEF g
  <2>. QED
    BY <1>0, <2>2
<1>2. ASSUME NEW k \in 1..n, k - 1 \in Done PROVE k \in Done
  <2>1. PICK g : g = [s \in Small(S, k - 1) |-> Summed(v, g, s)]
    BY <1>2
  <2> DEFINE h == [s \in Small(S, k) |-> Summed(v, g, s)]
  <2>2. ASSUME NEW s \in Small(S, k - 1) PROVE h[s] = g[s]
    <3>1. s \in Small(S, k)
      <4>1. s \in SUBSET S /\ Cardinality(s) <= k - 1
        BY DEF Small
      <4>2. Cardinality(s) \in Nat
        BY <4>1, SmallSets
      <4>3. Cardinality(s) <= k
        BY <4>1, <4>2
      <4>. QED
        BY <4>1, <4>3 DEF Small
    <3>. QED
      BY <2>1, <3>1
  <2>3. ASSUME NEW s \in Small(S, k), s # {}
        PROVE  s \ {CHOOSE x \in s : TRUE} \in Small(S, k - 1)
    <3>1. (CHOOSE x \in s : TRUE) \in s
      BY <2>3
    <3>2. s \in SUBSET S /\ Cardinality(s) <= k /\ k \in Nat
      BY DEF Small
    <3>. QED
      BY <3>1, <3>2, SmallSets DEF Small
  <2>4. \A s \in Small(S, k) : Summed(v, g, s) = Summed(v, h, s)
    <3> HIDE DEF h
    <3>. QED
      BY <2>2, <2>3 DEF Summed
  <2>5. h = [s \in Small(S, k) |-> Summed(v, h, s)]
    BY <2>4
  <2> HIDE DEF h
  <2>. QED
    BY <2>5
<1> HIDE DEF Done
<1>3. n \in Done
  <2>1. \A k \in 0..n : k \in Done
    BY <1>0, <1>1, <1>2, Upward
  <2>. QED
    BY <1>0, <2>1
<1>4. Small(S, n) = SUBSET S
  BY SmallSets, <1>0 DEF Small
<1>. QED
  BY <1>3, <1>4 DEF Done

\* Whichever member is counted last, the sum is the same.
LEMMA SumSteps ==
  ASSUME NEW S, IsFiniteSet(S), NEW v \in [S -> Nat]
  PROVE  \E g \in [SUBSET S -> Nat] :
           /\ g[{}] = 0
           /\ \A s \in SUBSET S : \A x \in s : g[s] = v[x] + g[s \ {x}]
           /\ SumFunction(v) = g[S]
<1> DEFINE Solution(h) == h = [s \in SUBSET S |-> Summed(v, h, s)]
           g == CHOOSE h : Solution(h)
           n == Cardinality(S)
           Right(s) == g[s] \in Nat /\ \A x \in s : g[s] = v[x] + g[s \ {x}]
           Done == {k \in 0..n : \A s \in Small(S, k) : Right(s)}
<1>1. Solution(g)
  BY SumExists
<1>2. SumFunction(v) = g[S]
  <2>1. DOMAIN v = S
    OBVIOUS
  <2>2. SumFunction(v) = (CHOOSE h : h = [s \in SUBSET DOMAIN v |-> Summed(v, h, s)])[DOMAIN v]
    BY Zenon DEF SumFunction, SumFunctionOnSet, FoldFunctionOnSet, MapThenFoldSet, Summed
  <2>. QED
    BY <2>1, <2>2
<1> HIDE DEF g
<1>3. g[{}] = 0 /\ g = [s \in SUBSET S |-> g[s]] /\ n \in Nat
  BY <1>1, FS_CardinalityType DEF Summed
<1>4. 0 \in Done
  <2>1. \A s \in Small(S, 0) : s = {}
    BY SmallSets DEF Small
  <2>2. Right({})
    BY <1>3
  <2> HIDE DEF Right
  <2>. QED
    BY <1>3, <2>1, <2>2
<1>5. ASSUME NEW k \in 1..n, k - 1 \in Done PROVE k \in Done
  <2> SUFFICES ASSUME NEW s \in Small(S, k) PROVE Right(s)
    BY <1>5
  <2>0. k \in Nat /\ k - 1 \in Nat /\ s \in SUBSET S /\ Cardinality(s) <= k
    BY DEF Small
  <2>1. ASSUME NEW x \in s PROVE s \ {x} \in SUBSET S /\ Right(s \ {x})
    <3>1. s \ {x} \in Small(S, k - 1)
      BY <2>0, SmallSets DEF Small
    <3>. QED
      BY <1>5, <3>1 DEF Small
  <2>2. CASE s = {}
    BY <1>3, <2>2
  <2>3. CASE s # {}
    <3> DEFINE c == CHOOSE x \in s : TRUE
    <3>1. c \in s /\ c \in S
      BY <2>0, <2>3
    <3>2. g[s] = v[c] + g[s \ {c}]
      BY <1>1, <2>0, <2>3 DEF Summed
    <3> HIDE DEF c, Right
    <3>3. g[s \ {c}] \in Nat /\ v[c] \in Nat /\ g[s] \in Nat
      <4>1. g[s \ {c}] \in Nat
        BY <2>1, <3>1 DEF Right
      <4>2. v[c] \in Nat
        BY <3>1
      <4>. QED
        BY <3>2, <4>1, <4>2
    <3>4. ASSUME NEW x \in s, x # c PROVE g[s] = v[x] + g[s \ {x}]
      <4>1. x \in s \ {c} /\ c \in s \ {x} /\ (s \ {c}) \ {x} = (s \ {x}) \ {c} /\ x \in S
        BY <2>0, <3>1, <3>4
      <4> DEFINE r == (s \ {x}) \ {c}
      <4>2. g[s \ {c}] = v[x] + g[r] /\ g[s \ {x}] = v[c] + g[r]
        BY <2>1, <3>1, <4>1 DEF Right
      <4>3. r \in SUBSET S /\ g[r] \in Nat
        <5>1. r \in Small(S, k - 1)
          <6>1. s \ {x} \in SUBSET S /\ Cardinality(s \ {x}) <= k - 1
            BY <2>0, SmallSets
          <6>2. r \in SUBSET S /\ Cardinality(r) <= k - 1 - 1
            BY <2>0, <4>1, <6>1, SmallSets
          <6>3. Cardinality(r) \in Nat
            BY <6>2, SmallSets
          <6>. QED
            BY <6>2, <6>3 DEF Small
        <5>. QED
          BY <1>5, <5>1 DEF Right, Small
      <4> HIDE DEF r
      <4>. QED
        BY <3>2, <3>3, <4>1, <4>2, <4>3
    <3>. QED
      BY <3>2, <3>3, <3>4 DEF Right
  <2>. QED
    BY <2>2, <2>3
<1> HIDE DEF Done
<1>6. n \in Done
  <2>1. \A k \in 0..n : k \in Done
    BY <1>3, <1>4, <1>5, Upward
  <2>. QED
    BY <1>3, <2>1
<1>7. \A s \in SUBSET S : Right(s)
  <2>1. SUBSET S = Small(S, n)
    BY SmallSets, <1>3 DEF Small
  <2>. QED
    BY <1>6, <2>1 DEF Done
<1>8. g \in [SUBSET S -> Nat]
  BY <1>3, <1>7
<1>. QED
  BY <1>2, <1>3, <1>7, <1>8

\* What m takes to s.
Counted(T, m, s) == {t \in T : m[t] \in s}

\* A sum may be taken over the places that count for something, in any order.
LEMMA SumCarried ==
  ASSUME NEW S, IsFiniteSet(S), NEW v \in [S -> Nat],
         NEW T, IsFiniteSet(T), NEW w \in [T -> Nat],
         NEW m \in [T -> S], \A t, u \in T : m[t] = m[u] => t = u,
         \A t \in T : w[t] = v[m[t]],
         \A x \in S : (\A t \in T : m[t] # x) => v[x] = 0
  PROVE  SumFunction(v) = SumFunction(w)
<1>1. PICK g \in [SUBSET S -> Nat] :
        /\ g[{}] = 0
        /\ \A s \in SUBSET S : \A x \in s : g[s] = v[x] + g[s \ {x}]
        /\ SumFunction(v) = g[S]
  BY SumSteps
<1>2. PICK h \in [SUBSET T -> Nat] :
        /\ h[{}] = 0
        /\ \A s \in SUBSET T : \A x \in s : h[s] = w[x] + h[s \ {x}]
        /\ SumFunction(w) = h[T]
  BY SumSteps
<1> DEFINE n == Cardinality(S)
           Done == {k \in 0..n : \A s \in Small(S, k) : g[s] = h[Counted(T, m, s)]}
<1>0. n \in Nat
  BY FS_CardinalityType
<1>3. 0 \in Done
  <2>1. \A s \in Small(S, 0) : s = {}
    BY SmallSets DEF Small
  <2>2. Counted(T, m, {}) = {}
    BY DEF Counted
  <2>3. g[{}] = h[Counted(T, m, {})]
    BY <1>1, <1>2, <2>2
  <2>4. \A s \in Small(S, 0) : g[s] = h[Counted(T, m, s)]
    BY <2>1, <2>3, Zenon
  <2>. QED
    BY <1>0, <2>4
<1>4. ASSUME NEW k \in 1..n, k - 1 \in Done PROVE k \in Done
  <2> SUFFICES ASSUME NEW s \in Small(S, k), s # {} PROVE g[s] = h[Counted(T, m, s)]
    <3>1. Counted(T, m, {}) = {}
      BY DEF Counted
    <3>2. g[{}] = h[Counted(T, m, {})]
      BY <1>1, <1>2, <3>1
    <3>3. ASSUME NEW s \in Small(S, k) PROVE g[s] = h[Counted(T, m, s)]
      <4>1. CASE s = {}
        BY <3>2, <4>1, Zenon
      <4>2. CASE s # {}
        BY <4>2
      <4>. QED
        BY <4>1, <4>2
    <3>. QED
      BY <3>3
  <2>0. k \in Nat /\ k - 1 \in Nat /\ s \in SUBSET S /\ Cardinality(s) <= k
    BY DEF Small
  <2>1. PICK x \in s : x \in S
    BY <2>0
  <2>2. g[s] = v[x] + g[s \ {x}]
    BY <1>1, <2>0
  <2>3. g[s \ {x}] = h[Counted(T, m, s \ {x})] /\ g[s \ {x}] \in Nat
    <3>1. s \ {x} \in Small(S, k - 1) /\ s \ {x} \in SUBSET S
      BY <2>0, SmallSets DEF Small
    <3>. QED
      BY <1>4, <3>1
  <2>4. CASE \E t \in T : m[t] = x
    <3>1. PICK t \in T : m[t] = x
      BY <2>4
    <3>2. t \in Counted(T, m, s) /\ Counted(T, m, s) \in SUBSET T /\ Counted(T, m, s) \ {t} = Counted(T, m, s \ {x})
      BY <3>1 DEF Counted
    <3>3. h[Counted(T, m, s)] = w[t] + h[Counted(T, m, s) \ {t}]
      BY <1>2, <3>2
    <3>4. v[x] = w[t]
      BY <3>1
    <3>. QED
      BY <2>2, <2>3, <3>2, <3>3, <3>4
  <2>5. CASE \A t \in T : m[t] # x
    <3>1. Counted(T, m, s) = Counted(T, m, s \ {x})
      BY <2>1, <2>5 DEF Counted
    <3>2. h[Counted(T, m, s)] = h[Counted(T, m, s \ {x})]
      BY <3>1, Zenon
    <3>3. v[x] = 0
      BY <2>1, <2>5
    <3>4. g[s] = g[s \ {x}]
      <4>1. g[s \ {x}] \in Nat
        BY <2>3
      <4>. QED
        BY <2>2, <3>3, <4>1
    <3>. QED
      BY <2>3, <3>2, <3>4, Zenon
  <2>. QED
    BY <2>4, <2>5
<1> HIDE DEF Done
<1>5. n \in Done
  <2>1. \A k \in 0..n : k \in Done
    BY <1>0, <1>3, <1>4, Upward
  <2>. QED
    BY <1>0, <2>1
<1>6. S \in Small(S, n) /\ Counted(T, m, S) = T
  BY <1>0 DEF Small, Counted
<1>. QED
  BY <1>1, <1>2, <1>5, <1>6 DEF Done

(***************************************************************************)
(* Tables: recordings and disks.                                           *)
(***************************************************************************)

\* No line of a table is lost, and a key is looked up by the line it is on.
LEMMA TableFacts ==
  ASSUME NEW lines, TableShape(lines)
  PROVE  /\ \A i \in DOMAIN lines : lines[i] \in ParseKv(lines)
         /\ \A l \in ParseKv(lines) : \E i \in DOMAIN lines : l = lines[i]
         /\ \A i \in DOMAIN lines : \A default :
              Value(ParseKv(lines), lines[i].key, default) = lines[i].value
         /\ \A key, default : (\A i \in DOMAIN lines : lines[i].key # key) =>
              Value(ParseKv(lines), key, default) = default
<1> DEFINE kv == ParseKv(lines)
<1>1. /\ Len(lines) \in Nat /\ DOMAIN lines = 1..Len(lines)
      /\ \A i, j \in DOMAIN lines : lines[i].key = lines[j].key => i = j
  BY DEF TableShape
<1>2. \A i \in DOMAIN lines : lines[i] \in kv
  <2> SUFFICES ASSUME NEW i \in DOMAIN lines PROVE lines[i] \in kv
    OBVIOUS
  <2>1. \A k \in (i + 1)..Len(lines) : k \in DOMAIN lines /\ k # i
    BY <1>1
  <2>2. \A k \in (i + 1)..Len(lines) : lines[k].key # lines[i].key
    BY <1>1, <2>1
  <2>. QED
    BY <2>2 DEF ParseKv
<1>3. \A l \in kv : \E i \in DOMAIN lines : l = lines[i]
  BY DEF ParseKv
<1> HIDE DEF kv
<1>4. ASSUME NEW i \in DOMAIN lines, NEW default
      PROVE  Value(kv, lines[i].key, default) = lines[i].value
  <2>1. \A l \in kv : l.key = lines[i].key => l = lines[i]
    BY <1>1, <1>3
  <2>2. lines[i] \in kv
    BY <1>2
  <2>3. (CHOOSE l \in kv : l.key = lines[i].key) = lines[i]
    BY <2>1, <2>2
  <2>. QED
    BY <2>2, <2>3 DEF Value
<1>5. ASSUME NEW key, NEW default, \A i \in DOMAIN lines : lines[i].key # key
      PROVE  Value(kv, key, default) = default
  BY <1>3, <1>5 DEF Value
<1>. QED
  BY <1>2, <1>3, <1>4, <1>5 DEF kv

\* The indices of a table are finitely many numbers.
LEMMA IndicesFinite ==
  ASSUME NEW lines, TableShape(lines)
  PROVE  Indices(lines) \in SUBSET Int /\ IsFiniteSet(Indices(lines))
<1> DEFINE D == {j \in DOMAIN lines : Len(lines[j].key) > 1}
           f == [j \in D |-> lines[j].key[1]]
<1>1. /\ Len(lines) \in Nat /\ DOMAIN lines = 1..Len(lines)
      /\ \A i \in DOMAIN lines : Len(lines[i].key) > 1 => lines[i].key[1] \in Nat
  BY DEF TableShape
<1>2. IsFiniteSet(D)
  <2>1. IsFiniteSet(1..Len(lines))
    BY <1>1, FS_Interval
  <2>2. D \in SUBSET (1..Len(lines))
    BY <1>1
  <2>. QED
    BY <2>1, <2>2, FS_Subset
<1>3. f \in Surjection(D, Indices(lines))
  BY DEF Surjection, Indices
<1>4. IsFiniteSet(Indices(lines))
  BY <1>2, <1>3, FS_Surjection
<1>. QED
  BY <1>1, <1>4 DEF Indices

\* A listing of recordings is whole.
LEMMA RecordingsMade ==
  ASSUME NEW lines \in Listings, FindRecordings(lines)
  PROVE  RecordingsWhole(call')
<1> DEFINE S == Indices(lines)
           order == FileOrder(lines)
           kv == ParseKv(lines)
           files == ParseMediaFiles(lines).files
<1>1. TableShape(lines)
  BY FormatsAssumption
<1>2. S \in SUBSET Int /\ IsFiniteSet(S)
  BY <1>1, IndicesFinite
<1>3. /\ Cardinality(S) \in Nat /\ DOMAIN order = 1..Cardinality(S)
      /\ \A x \in S : Rank(S, x) \in 1..Cardinality(S) /\ order[Rank(S, x)] = x
  <2> HIDE DEF S
  <2>. QED
    BY <1>2, AscendingFacts DEF FileOrder, S
<1>4. files = [i \in DOMAIN order |->
                 [start_time  |-> Value(kv, <<order[i], "StartTime">>, 0),
                  record_type |-> RecordType(Value(kv, <<order[i], "FilePath">>, {}))]]
  BY DEF ParseMediaFiles
<1>5. Len(files) = Cardinality(S)
  <2> HIDE DEF S, order, kv
  <2>. QED
    BY <1>3, <1>4
<1>6. ASSUME NEW i \in DOMAIN lines, Len(lines[i].key) = 2, lines[i].key[2] = "StartTime"
      PROVE  files[Rank(S, lines[i].key[1])].start_time = lines[i].value
  <2> DEFINE x == lines[i].key[1]
  <2>1. x \in S
    BY <1>6 DEF Indices
  <2>2. lines[i].key = <<x, "StartTime">>
    <3> DEFINE key == lines[i].key
    <3>1. key = [n \in 1..2 |-> key[n]] /\ key[2] = "StartTime"
      BY <1>1, <1>6 DEF TableShape
    <3> HIDE DEF key
    <3>. QED
      BY <3>1 DEF key
  <2>3. Value(kv, lines[i].key, 0) = lines[i].value
    BY <1>1, TableFacts
  <2> HIDE DEF x, kv, order, files, S
  <2>4. files[Rank(S, x)].start_time = Value(kv, <<x, "StartTime">>, 0)
    BY <1>3, <1>4, <2>1
  <2>. QED
    BY <2>2, <2>3, <2>4 DEF x
<1>7. call'.op = "find_recordings" /\ call'.lines = lines /\ call'.listing.files = files
  BY DEF FindRecordings, CalledAlone
<1> HIDE DEF files
<1>. QED
  BY <1>5, <1>6, <1>7 DEF RecordingsWhole, Rank

\* The partitions of disk d, the lines for one of their fields, and what the
\* field adds for each partition and for each line.
PartsOf(lines, d) == {l.key[2] : l \in {k \in ParseKv(lines) : k.key[1] = d /\ Len(k.key) = 3}}
OwnLines(lines, d, field) ==
  {i \in DOMAIN lines : LET key == lines[i].key IN Len(key) = 3 /\ key[1] = d /\ key[3] = field}
PerPart(lines, d, field) == [p \in PartsOf(lines, d) |-> Value(ParseKv(lines), <<d, p, field>>, 0)]
PerLine(lines, d, field) == [i \in OwnLines(lines, d, field) |-> lines[i].value]

\* The fields of the partitions of a disk add up to what its own lines say.
LEMMA PartitionsAddUp ==
  ASSUME NEW lines, TableShape(lines), NEW d, NEW field,
         \A i \in OwnLines(lines, d, field) : lines[i].value \in Nat
  PROVE  /\ PerPart(lines, d, field) \in [PartsOf(lines, d) -> Nat]
         /\ IsFiniteSet(PartsOf(lines, d))
         /\ SumFunction(PerPart(lines, d, field)) = SumFunction(PerLine(lines, d, field))
<1> DEFINE kv == ParseKv(lines)
           parts == {l.key[2] : l \in {k \in kv : k.key[1] = d /\ Len(k.key) = 3}}
           Own == {i \in DOMAIN lines :
                     LET key == lines[i].key IN Len(key) = 3 /\ key[1] = d /\ key[3] = field}
           each == [p \in parts |-> Value(kv, <<d, p, field>>, 0)]
           own == [i \in Own |-> lines[i].value]
           m == [i \in Own |-> lines[i].key[2]]
<1>0. \A i \in Own : lines[i].value \in Nat
  BY DEF OwnLines
<1>1. /\ Len(lines) \in Nat /\ DOMAIN lines = 1..Len(lines)
      /\ \A i \in DOMAIN lines : lines[i].key = [n \in 1..Len(lines[i].key) |-> lines[i].key[n]]
      /\ \A i, j \in DOMAIN lines : lines[i].key = lines[j].key => i = j
  BY DEF TableShape
<1>2. ASSUME NEW i \in Own
      PROVE  lines[i].key = <<d, m[i], field>> /\ i \in DOMAIN lines /\ lines[i].value \in Nat
  <2> DEFINE key == lines[i].key
  <2>1. key = [n \in 1..Len(key) |-> key[n]] /\ Len(key) = 3 /\ key[1] = d /\ key[3] = field
    BY <1>1
  <2>2. m[i] = key[2] /\ lines[i].value \in Nat
    BY <1>0
  <2> HIDE DEF key, m
  <2>3. key = [n \in 1..3 |-> key[n]]
    BY <2>1
  <2>4. key = <<d, m[i], field>>
    BY <2>1, <2>2, <2>3
  <2>. QED
    BY <2>2, <2>4 DEF key
<1>3. ASSUME NEW i \in DOMAIN lines, NEW p, lines[i].key = <<d, p, field>> PROVE i \in Own /\ m[i] = p
  <2>1. /\ Len(<<d, p, field>>) = 3 /\ <<d, p, field>>[1] = d /\ <<d, p, field>>[2] = p
        /\ <<d, p, field>>[3] = field
    OBVIOUS
  <2>2. Len(lines[i].key) = 3 /\ lines[i].key[1] = d /\ lines[i].key[2] = p /\ lines[i].key[3] = field
    BY <1>3, <2>1, Zenon
  <2>. QED
    BY <2>2
<1>4. IsFiniteSet(Own) /\ IsFiniteSet(parts)
  <2>1. IsFiniteSet(1..Len(lines))
    BY <1>1, FS_Interval
  <2>2. Own \in SUBSET (1..Len(lines))
    BY <1>1
  <2> DEFINE D == {i \in DOMAIN lines : lines[i].key[1] = d /\ Len(lines[i].key) = 3}
             f == [i \in D |-> lines[i].key[2]]
  <2>3. D \in SUBSET (1..Len(lines))
    BY <1>1
  <2>4. f \in Surjection(D, parts)
    <3>1. \A p \in parts : \E i \in D : lines[i].key[2] = p
      BY TableFacts
    <3>2. \A i \in D : lines[i].key[2] \in parts
      BY TableFacts
    <3>. QED
      BY <3>1, <3>2 DEF Surjection
  <2>5. IsFiniteSet(D)
    BY <2>1, <2>3, FS_Subset
  <2>6. IsFiniteSet(Own)
    BY <2>1, <2>2, FS_Subset
  <2>7. IsFiniteSet(parts)
    BY <2>4, <2>5, FS_Surjection
  <2>. QED
    BY <2>6, <2>7
<1>5. ASSUME NEW i \in Own
      PROVE  /\ m[i] \in parts /\ each[m[i]] = lines[i].value /\ own[i] = lines[i].value
             /\ lines[i].value \in Nat
  <2>1. m[i] \in parts
    BY TableFacts
  <2>2. Value(kv, lines[i].key, 0) = lines[i].value
    BY TableFacts
  <2>3. each[m[i]] = Value(kv, <<d, m[i], field>>, 0)
    BY <2>1
  <2>. QED
    BY <1>2, <2>1, <2>2, <2>3
<1>6. ASSUME NEW p \in parts, \A i \in Own : m[i] # p PROVE each[p] = 0
  <2>1. \A i \in DOMAIN lines : lines[i].key # <<d, p, field>>
    BY <1>3, <1>6
  <2>. QED
    BY <2>1, TableFacts
<1>7. ASSUME NEW i \in Own, NEW j \in Own, m[i] = m[j] PROVE i = j
  <2>1. lines[i].key = <<d, m[i], field>> /\ lines[j].key = <<d, m[j], field>>
        /\ i \in DOMAIN lines /\ j \in DOMAIN lines
    BY <1>2
  <2>2. lines[i].key = lines[j].key
    BY <1>7, <2>1, Zenon
  <2>. QED
    BY <1>1, <2>1, <2>2
<1> HIDE DEF each, own, m, Own
<1>8. each \in [parts -> Nat] /\ own \in [Own -> Nat] /\ m \in [Own -> parts]
  <2>1. \A p \in parts : each[p] \in Nat
    <3> SUFFICES ASSUME NEW p \in parts PROVE each[p] \in Nat
      OBVIOUS
    <3>1. CASE \E i \in Own : m[i] = p
      BY <1>5, <3>1
    <3>2. CASE \A i \in Own : m[i] # p
      BY <1>6, <3>2
    <3>. QED
      BY <3>1, <3>2
  <2>2. \A i \in Own : own[i] \in Nat /\ m[i] \in parts
    BY <1>5
  <2>. QED
    BY <2>1, <2>2 DEF each, own, m
<1>9. SumFunction(each) = SumFunction(own)
  BY <1>4, <1>5, <1>6, <1>7, <1>8, SumCarried
<1>. QED
  BY <1>4, <1>8, <1>9 DEF each, own, Own, PartsOf, OwnLines, PerPart, PerLine

\* An entry of a disk has the bytes and the errors of its own lines.
LEMMA DiskMade ==
  ASSUME NEW lines \in Storages, NEW n \in DOMAIN ParseStorageInfo(lines)
  PROVE  LET disk == ParseStorageInfo(lines)[n]
             index == CHOOSE i \in Indices(lines) : Rank(Indices(lines), i) = n
             Own(field) == {i \in DOMAIN lines :
                              LET key == lines[i].key
                              IN Len(key) = 3 /\ key[1] = index /\ key[3] = field}
         IN /\ disk.total = SumFunction([i \in Own("TotalBytes") |-> lines[i].value])
            /\ disk.used <= disk.total => disk.used + disk.free = disk.total
            /\ disk.healthy => \A i \in Own("IsError") : ~lines[i].value
<1> DEFINE S == Indices(lines)
           kv == ParseKv(lines)
           order == Ascending(S)
           d == order[n]
           P == {l.key[2] : l \in {k \in kv : k.key[1] = d /\ Len(k.key) = 3}}
           parts == [p \in P |->
                      [total    |-> Value(kv, <<d, p, "TotalBytes">>, 0),
                       used     |-> Value(kv, <<d, p, "UsedBytes">>, 0),
                       is_error |-> Value(kv, <<d, p, "IsError">>, FALSE)]]
           totals == [p \in P |-> Value(kv, <<d, p, "TotalBytes">>, 0)]
           useds  == [p \in P |-> Value(kv, <<d, p, "UsedBytes">>, 0)]
           disk == ParseStorageInfo(lines)[n]
<1>1. /\ TableShape(lines)
      /\ \A i \in DOMAIN lines : Len(lines[i].key) = 3 =>
           /\ lines[i].key[3] \in {"TotalBytes", "UsedBytes"} => lines[i].value \in Nat
           /\ lines[i].key[3] = "IsError" => lines[i].value \in BOOLEAN
  BY FormatsAssumption DEF PartitionShape
<1>2. S \in SUBSET Int /\ IsFiniteSet(S)
  BY <1>1, IndicesFinite
<1>3. /\ n \in 1..Cardinality(S) /\ d \in S /\ Rank(S, d) = n
      /\ disk = Disk(Value(kv, <<d, "State">>, "none"), parts)
  <2>1. DOMAIN order = 1..Cardinality(S) /\ order \in [1..Cardinality(S) -> S]
        /\ \A i \in 1..Cardinality(S) : Rank(S, order[i]) = i
    <3> HIDE DEF S
    <3>. QED
      BY <1>2, AscendingFacts
  <2>2. n \in DOMAIN order /\ disk = Disk(Value(kv, <<d, "State">>, "none"), parts)
    <3> HIDE DEF order
    <3>. QED
      BY DEF ParseStorageInfo, order
  <2> HIDE DEF S, order
  <2>. QED
    BY <2>1, <2>2
<1>4. (CHOOSE i \in S : Rank(S, i) = n) = d
  <2>1. \A i \in S : Rank(S, i) = n => i = d
    BY <1>2, <1>3, RankIsBijection
  <2> HIDE DEF S, d
  <2>. QED
    BY <1>3, <2>1
<1> DEFINE Own(field) == {i \in DOMAIN lines :
                            LET key == lines[i].key
                            IN Len(key) = 3 /\ key[1] = d /\ key[3] = field}
<1>5. /\ totals \in [P -> Nat] /\ useds \in [P -> Nat] /\ IsFiniteSet(P)
      /\ SumFunction(totals) = SumFunction([i \in Own("TotalBytes") |-> lines[i].value])
  <2> HIDE DEF d
  <2>1. /\ \A i \in OwnLines(lines, d, "TotalBytes") : lines[i].value \in Nat
        /\ \A i \in OwnLines(lines, d, "UsedBytes") : lines[i].value \in Nat
    BY <1>1 DEF OwnLines
  <2>2. /\ PerPart(lines, d, "TotalBytes") = totals /\ PerPart(lines, d, "UsedBytes") = useds
        /\ PartsOf(lines, d) = P
        /\ PerLine(lines, d, "TotalBytes") = [i \in Own("TotalBytes") |-> lines[i].value]
    BY DEF PerPart, PerLine, PartsOf, OwnLines
  <2> HIDE DEF totals, useds, P
  <2>3. /\ PerPart(lines, d, "TotalBytes") \in [PartsOf(lines, d) -> Nat] /\ IsFiniteSet(PartsOf(lines, d))
        /\ SumFunction(PerPart(lines, d, "TotalBytes")) = SumFunction(PerLine(lines, d, "TotalBytes"))
        /\ PerPart(lines, d, "UsedBytes") \in [PartsOf(lines, d) -> Nat]
    BY <1>1, <2>1, PartitionsAddUp
  <2>. QED
    BY <2>2, <2>3
<1>6. SumFunction(totals) \in Nat /\ SumFunction(useds) \in Nat
  <2> HIDE DEF totals, useds, P
  <2>1. PICK g \in [SUBSET P -> Nat] : SumFunction(totals) = g[P]
    BY <1>5, SumSteps
  <2>2. PICK h \in [SUBSET P -> Nat] : SumFunction(useds) = h[P]
    BY <1>5, SumSteps
  <2>. QED
    BY <2>1, <2>2
<1>7. /\ disk.total = SumFunction(totals) /\ disk.used = SumFunction(useds)
      /\ disk.free = IF disk.total > disk.used THEN disk.total - disk.used ELSE 0
      /\ disk.healthy => \A p \in P : ~Value(kv, <<d, p, "IsError">>, FALSE)
  <2>1. DOMAIN parts = P /\ \A p \in P : ~parts[p].is_error <=> ~Value(kv, <<d, p, "IsError">>, FALSE)
    OBVIOUS
  <2>2. [p \in DOMAIN parts |-> parts[p].total] = totals /\ [p \in DOMAIN parts |-> parts[p].used] = useds
    OBVIOUS
  <2> HIDE DEF parts, totals, useds, P, d, kv
  <2>3. /\ disk.total = SumFunction(totals) /\ disk.used = SumFunction(useds)
        /\ disk.free = IF disk.total > disk.used THEN disk.total - disk.used ELSE 0
    BY <1>3, <2>2 DEF Disk
  <2>4. disk.healthy = (Value(kv, <<d, "State">>, "none") = "Success"
                        /\ \A p \in DOMAIN parts : ~parts[p].is_error)
    BY <1>3 DEF Disk
  <2>. QED
    BY <2>1, <2>3, <2>4
<1>8. ASSUME NEW i \in Own("IsError"), disk.healthy PROVE ~lines[i].value
  <2> DEFINE key == lines[i].key
             p == lines[i].key[2]
  <2>1. /\ i \in DOMAIN lines /\ Len(key) = 3 /\ key[1] = d /\ key[2] = p /\ key[3] = "IsError"
        /\ key = [q \in 1..Len(key) |-> key[q]]
    BY <1>1 DEF TableShape
  <2>2. p \in P
    BY <1>1, <2>1, TableFacts
  <2>3. key = <<d, p, "IsError">>
    <3> HIDE DEF key, p, d
    <3>1. key = [q \in 1..3 |-> key[q]]
      BY <2>1
    <3>. QED
      BY <2>1, <3>1
  <2>4. Value(kv, key, FALSE) = lines[i].value
    <3>1. TableShape(lines) /\ i \in DOMAIN lines
      BY <1>1, <2>1
    <3> HIDE DEF d, p, disk
    <3>. QED
      BY <3>1, TableFacts
  <2>5. ~Value(kv, <<d, p, "IsError">>, FALSE)
    BY <1>7, <1>8, <2>2
  <2>6. lines[i].value = Value(kv, <<d, p, "IsError">>, FALSE)
    BY <2>3, <2>4, Zenon
  <2> HIDE DEF p, d, kv
  <2>. QED
    BY <2>5, <2>6, Zenon
<1>9. disk.used <= disk.total => disk.used + disk.free = disk.total
  <2> HIDE DEF disk, totals, useds
  <2>. QED
    BY <1>6, <1>7
<1>10. \A field : Own(field) = {i \in DOMAIN lines :
                                 LET key == lines[i].key
                                 IN /\ Len(key) = 3
                                    /\ key[1] = (CHOOSE j \in Indices(lines) : Rank(Indices(lines), j) = n)
                                    /\ key[3] = field}
  BY <1>4
<1> HIDE DEF disk, totals, d
<1>. QED
  BY <1>4, <1>5, <1>7, <1>8, <1>9 DEF disk

\* What is said of the disks is whole.
LEMMA DisksMade ==
  ASSUME NEW lines \in Storages, GetStorageInfo(lines)
  PROVE  DisksWhole(call')
<1>1. call'.op = "get_storage_info" /\ call'.lines = lines /\ call'.disks = ParseStorageInfo(lines)
  BY DEF GetStorageInfo, CalledAlone
<1> DEFINE disks == ParseStorageInfo(lines)
<1>2. ASSUME NEW n \in DOMAIN disks
      PROVE  DiskWhole(lines, n, disks[n])
  BY DiskMade DEF Rank, DiskWhole
<1>3. DOMAIN disks = 1..Cardinality(Indices(lines))
  <2> DEFINE S == Indices(lines)
             order == Ascending(S)
  <2>1. S \in SUBSET Int /\ IsFiniteSet(S)
    <3>1. TableShape(lines)
      BY FormatsAssumption
    <3>. QED
      BY <3>1, IndicesFinite
  <2>2. DOMAIN order = 1..Cardinality(S)
    <3> HIDE DEF S
    <3>. QED
      BY <2>1, AscendingFacts
  <2>3. DOMAIN disks = DOMAIN order
    BY DEF ParseStorageInfo
  <2>. QED
    BY <2>2, <2>3
<1>4. call'.lines = lines /\ call'.disks = disks
  BY <1>1
<1> HIDE DEF disks
<1>. QED
  BY <1>2, <1>3, <1>4 DEF DisksWhole

(***************************************************************************)
(* Folds and sections.                                                     *)
(***************************************************************************)

\* What parse_log_entries does with a line, the firmware with a character of a
\* query, and with a part of one.
SplitAt(parts, char) ==
  IF char = "&" THEN Append(parts, <<>>)
                ELSE [parts EXCEPT ![Len(parts)] = Append(@, char)]

Stepped(kind, so_far, x) ==
  IF kind = "log" THEN Parsed(so_far, x)
  ELSE IF kind = "query" THEN SplitAt(so_far, x) ELSE Assigned(so_far, x)

\* A fold, by the set of the places read, the last one first.
Folded(kind, base, xs, g, s) ==
  IF s = {} THEN base ELSE Stepped(kind, g[s \ {Max(s)}], xs[Max(s)])

\* Such a fold over the first n of xs.
Solves(kind, base, xs, n, g) == g = [s \in SUBSET (1..n) |-> Folded(kind, base, xs, g, s)]

\* Of numbers up to k the greatest is k, if it is one of them.
LEMMA LastOf ==
  ASSUME NEW k \in Nat, NEW s \in SUBSET (1..k), k \in s
  PROVE  Max(s) = k
<1>1. k >= k /\ \A x \in s : k >= x /\ (x >= k => x = k)
  OBVIOUS
<1>. QED
  BY <1>1 DEF Max

\* A fold over n elements is a function that exists.
LEMMA FoldExists ==
  ASSUME NEW n \in Nat, NEW kind, NEW base, NEW xs
  PROVE  \E g : Solves(kind, base, xs, n, g)
<1> DEFINE Done == {k \in 0..n : \E g : g = [s \in SUBSET (1..k) |-> Folded(kind, base, xs, g, s)]}
<1>1. 0 \in Done
  <2> DEFINE g == [s \in SUBSET (1..0) |-> base]
  <2>1. \A s \in SUBSET (1..0) : s = {}
    OBVIOUS
  <2>2. g = [s \in SUBSET (1..0) |-> Folded(kind, base, xs, g, s)]
    BY <2>1 DEF Folded
  <2> HIDE DEF g
  <2>. QED
    BY <2>2
<1>2. ASSUME NEW k \in 1..n, k - 1 \in Done PROVE k \in Done
  <2>1. PICK g : g = [s \in SUBSET (1..(k - 1)) |-> Folded(kind, base, xs, g, s)]
    BY <1>2
  <2> DEFINE h == [s \in SUBSET (1..k) |-> Folded(kind, base, xs, g, s)]
  <2>2. ASSUME NEW s \in SUBSET (1..(k - 1)) PROVE h[s] = g[s]
    <3>1. s \in SUBSET (1..k)
      BY <1>2
    <3>. QED
      BY <2>1, <3>1
  <2>3. ASSUME NEW s \in SUBSET (1..k), s # {} PROVE s \ {Max(s)} \in SUBSET (1..(k - 1))
    <3>1. CASE k \in s
      <4>1. Max(s) = k
        BY <3>1, LastOf
      <4>. QED
        BY <4>1
    <3>2. CASE k \notin s
      <4>1. \A x \in 1..k : x # k => x \in 1..(k - 1)
        OBVIOUS
      <4>. QED
        BY <3>2, <4>1
    <3>. QED
      BY <3>1, <3>2
  <2>4. \A s \in SUBSET (1..k) : Folded(kind, base, xs, g, s) = Folded(kind, base, xs, h, s)
    <3> HIDE DEF h
    <3>. QED
      BY <2>2, <2>3 DEF Folded
  <2>5. h = [s \in SUBSET (1..k) |-> Folded(kind, base, xs, h, s)]
    BY <2>4
  <2> HIDE DEF h
  <2>. QED
    BY <2>5
<1> HIDE DEF Done
<1>3. n \in Done
  <2>1. \A k \in 0..n : k \in Done
    BY <1>1, <1>2, Upward
  <2>. QED
    BY <2>1
<1>. QED
  BY <1>3 DEF Done, Solves

\* A fold goes from place to place.
LEMMA FoldSteps ==
  ASSUME NEW n \in Nat, NEW kind, NEW base, NEW xs,
         NEW f, Solves(kind, base, xs, n, f)
  PROVE  /\ f[1..0] = base
         /\ \A k \in 1..n : f[1..k] = Stepped(kind, f[1..(k - 1)], xs[k])
<1>1. f[1..0] = base
  <2>1. {} \in SUBSET (1..n) /\ 1..0 = {}
    OBVIOUS
  <2>. QED
    BY <2>1 DEF Folded, Solves
<1>2. ASSUME NEW k \in 1..n PROVE f[1..k] = Stepped(kind, f[1..(k - 1)], xs[k])
  <2>1. 1..k \in SUBSET (1..n) /\ k \in 1..k /\ 1..k # {} /\ (1..k) \ {k} = 1..(k - 1)
    OBVIOUS
  <2>2. Max(1..k) = k
    BY LastOf
  <2>. QED
    BY <2>1, <2>2 DEF Folded, Solves
<1>. QED
  BY <1>1, <1>2

\* A log is read line by line.
LEMMA LogSteps ==
  ASSUME NEW n \in Nat, NEW lines, DOMAIN lines = 1..n
  PROVE  \E g : /\ g[0] = NoEntries
                /\ \A k \in 1..n : g[k] = Parsed(g[k - 1], lines[k])
                /\ FoldLeft(Parsed, NoEntries, lines) = g[n]
<1> DEFINE Read(h) == h = [s \in SUBSET DOMAIN lines |->
                            IF s = {} THEN NoEntries ELSE Parsed(h[s \ {Max(s)}], lines[Max(s)])]
           f == CHOOSE h : Read(h)
           g == [k \in 0..n |-> f[1..k]]
<1>1. FoldLeft(Parsed, NoEntries, lines) = f[DOMAIN lines]
  BY Zenon DEF FoldLeft, MapThenFoldSet
<1>2. \A h : Read(h) <=> Solves("log", NoEntries, lines, n, h)
  BY DEF Folded, Stepped, Solves
<1>3. Read(f)
  <2>1. \E h : Solves("log", NoEntries, lines, n, h)
    BY FoldExists
  <2>. QED
    BY <1>2, <2>1
<1> HIDE DEF f
<1>4. Solves("log", NoEntries, lines, n, f)
  BY <1>2, <1>3
<1>5. f[1..0] = NoEntries /\ \A k \in 1..n : f[1..k] = Parsed(f[1..(k - 1)], lines[k])
  BY <1>4, FoldSteps DEF Stepped
<1>6. g[0] = NoEntries /\ g[n] = f[DOMAIN lines] /\ \A k \in 1..n : g[k] = Parsed(g[k - 1], lines[k])
  BY <1>5
<1> HIDE DEF g
<1>. QED
  BY <1>1, <1>6

\* A query is split character by character.
LEMMA SplitSteps ==
  ASSUME NEW n \in Nat, NEW text, DOMAIN text = 1..n
  PROVE  \E g : /\ g[0] = <<<<>>>>
                /\ \A k \in 1..n : g[k] = SplitAt(g[k - 1], text[k])
                /\ Split(text) = g[n]
<1> DEFINE Read(h) == h = [s \in SUBSET DOMAIN text |->
                            IF s = {} THEN <<<<>>>> ELSE SplitAt(h[s \ {Max(s)}], text[Max(s)])]
           f == CHOOSE h : Read(h)
           g == [k \in 0..n |-> f[1..k]]
<1>1. Split(text) = f[DOMAIN text]
  BY Zenon DEF Split, SplitAt, FoldLeft, MapThenFoldSet
<1>2. \A h : Read(h) <=> Solves("query", <<<<>>>>, text, n, h)
  BY DEF Folded, Stepped, Solves
<1>3. Read(f)
  <2>1. \E h : Solves("query", <<<<>>>>, text, n, h)
    BY FoldExists
  <2>. QED
    BY <1>2, <2>1
<1> HIDE DEF f
<1>4. Solves("query", <<<<>>>>, text, n, f)
  BY <1>2, <1>3
<1>5. f[1..0] = <<<<>>>> /\ \A k \in 1..n : f[1..k] = SplitAt(f[1..(k - 1)], text[k])
  BY <1>4, FoldSteps DEF Stepped
<1>6. g[0] = <<<<>>>> /\ g[n] = f[DOMAIN text] /\ \A k \in 1..n : g[k] = SplitAt(g[k - 1], text[k])
  BY <1>5
<1> HIDE DEF g
<1>. QED
  BY <1>1, <1>6

\* The fields when all parts have been taken.
AllTaken(was, parts) == FoldLeft(Assigned, was, parts)

\* g[k] is what the first k parts make of the fields.
TakesPartsBy(g, n, parts, was) ==
  /\ g[0] = was
  /\ \A k \in 1..n : g[k] = Assigned(g[k - 1], parts[k])
  /\ AllTaken(was, parts) = g[n]

\* The parts of a query are taken one after the other.
LEMMA TakenSteps ==
  ASSUME NEW n \in Nat, NEW parts, DOMAIN parts = 1..n, NEW was
  PROVE  \E g : TakesPartsBy(g, n, parts, was)
<1> DEFINE Read(h) == h = [s \in SUBSET DOMAIN parts |->
                            IF s = {} THEN was ELSE Assigned(h[s \ {Max(s)}], parts[Max(s)])]
           f == CHOOSE h : Read(h)
           g == [k \in 0..n |-> f[1..k]]
<1>1. AllTaken(was, parts) = f[DOMAIN parts]
  BY Zenon DEF AllTaken, FoldLeft, MapThenFoldSet
<1>2. \A h : Read(h) <=> Solves("fields", was, parts, n, h)
  BY DEF Folded, Stepped, Solves
<1>3. Read(f)
  <2>1. \E h : Solves("fields", was, parts, n, h)
    BY FoldExists
  <2>. QED
    BY <1>2, <2>1
<1> HIDE DEF f
<1>4. Solves("fields", was, parts, n, f)
  BY <1>2, <1>3
<1>5. f[1..0] = was /\ \A k \in 1..n : f[1..k] = Assigned(f[1..(k - 1)], parts[k])
  BY <1>4, FoldSteps DEF Stepped
<1>6. g[0] = was /\ g[n] = f[DOMAIN parts] /\ \A k \in 1..n : g[k] = Assigned(g[k - 1], parts[k])
  BY <1>5
<1> HIDE DEF g
<1>. QED
  BY <1>1, <1>6 DEF TakesPartsBy

\* The sections up to the ith, one after the other.
JoinedUpTo(seqs, h, i) == IF i = 1 THEN seqs[i] ELSE h[i - 1] \o seqs[i]

\* Sections are put one after the other.
LEMMA FlattenSteps ==
  ASSUME NEW n \in Nat \ {0}, NEW seqs, Len(seqs) = n
  PROVE  \E h : /\ h[1] = seqs[1]
                /\ \A i \in 2..n : h[i] = h[i - 1] \o seqs[i]
                /\ FlattenSeq(seqs) = h[n]
<1> DEFINE Joined(k, h) == h = [i \in 1..k |-> JoinedUpTo(seqs, h, i)]
           Done == {k \in 0..n : \E h : Joined(k, h)}
<1>1. 0 \in Done
  <2> DEFINE h == [i \in 1..0 |-> seqs[i]]
  <2>1. Joined(0, h)
    BY 1..0 = {}
  <2>2. 0 \in 0..n
    OBVIOUS
  <2> HIDE DEF h
  <2>. QED
    BY <2>1, <2>2
<1>2. ASSUME NEW k \in 1..n, k - 1 \in Done PROVE k \in Done
  <2>1. PICK g : Joined(k - 1, g)
    BY <1>2
  <2> DEFINE h == [i \in 1..k |-> JoinedUpTo(seqs, g, i)]
  <2>2. \A i \in 1..k : i # 1 => i - 1 \in 1..(k - 1)
    OBVIOUS
  <2>3. ASSUME NEW i \in 1..(k - 1) PROVE h[i] = g[i]
    <3>1. i \in 1..k
      OBVIOUS
    <3>. QED
      BY <2>1, <3>1
  <2>4. ASSUME NEW i \in 1..k PROVE JoinedUpTo(seqs, g, i) = JoinedUpTo(seqs, h, i)
    <3> HIDE DEF h
    <3>. QED
      BY <2>2, <2>3 DEF JoinedUpTo
  <2>5. Joined(k, h)
    BY <2>4
  <2> HIDE DEF h
  <2>. QED
    BY <2>5
<1> HIDE DEF Done
<1>3. n \in Done
  <2>1. \A k \in 0..n : k \in Done
    BY <1>1, <1>2, Upward
  <2>. QED
    BY <2>1
<1> DEFINE h == CHOOSE f : Joined(n, f)
<1>4. Joined(n, h)
  BY <1>3 DEF Done
<1>5. FlattenSeq(seqs) = h[n]
  BY Zenon DEF FlattenSeq, JoinedUpTo
<1> HIDE DEF h
<1>6. \A i \in 1..n : h[i] = JoinedUpTo(seqs, h, i)
  BY <1>4
<1>7. h[1] = seqs[1] /\ \A i \in 2..n : h[i] = h[i - 1] \o seqs[i]
  <2>1. 1 \in 1..n /\ \A i \in 2..n : i \in 1..n /\ i # 1
    OBVIOUS
  <2>. QED
    BY <1>6, <2>1 DEF JoinedUpTo
<1>. QED
  BY <1>5, <1>7

\* The ith of the n sections begins after place at[i].
SectionsAt(n, T, seqs, at) ==
  /\ at \in [1..(n + 1) -> Nat] /\ at[1] = 0
  /\ \A i \in 1..n : at[i + 1] = at[i] + Len(seqs[i])
  /\ FlattenSeq(seqs) \in Seq(T) /\ Len(FlattenSeq(seqs)) = at[n + 1]
  /\ \A i \in 1..n : \A j \in 1..Len(seqs[i]) :
       /\ at[i] + j \in 1..Len(FlattenSeq(seqs))
       /\ FlattenSeq(seqs)[at[i] + j] = seqs[i][j]

\* Every section is found at its place.
LEMMA FlattenPlaces ==
  ASSUME NEW n \in Nat, NEW T, NEW seqs \in [1..n -> Seq(T)]
  PROVE  \E at : SectionsAt(n, T, seqs, at)
<1>1. Len(seqs) = n /\ seqs \in Seq(Seq(T))
  OBVIOUS
<1>2. CASE n = 0
  <2>1. FlattenSeq(seqs) = seqs
    BY <1>1, <1>2, Zenon DEF FlattenSeq
  <2>2. seqs = <<>> /\ <<>> \in Seq(T) /\ Len(<<>>) = 0
    BY <1>1, <1>2
  <2> DEFINE at == [i \in 1..(n + 1) |-> 0]
  <2>3. at \in [1..(n + 1) -> Nat] /\ at[1] = 0 /\ at[n + 1] = 0
    BY <1>2
  <2>4. FlattenSeq(seqs) \in Seq(T) /\ Len(FlattenSeq(seqs)) = 0
    BY <2>1, <2>2, Zenon
  <2> HIDE DEF at
  <2>. QED
    BY <1>2, <2>3, <2>4 DEF SectionsAt
<1>3. CASE n # 0
  <2>1. PICK h : /\ h[1] = seqs[1]
                 /\ \A i \in 2..n : h[i] = h[i - 1] \o seqs[i]
                 /\ FlattenSeq(seqs) = h[n]
    <3>1. n \in Nat \ {0}
      BY <1>3
    <3>. QED
      BY <1>1, <3>1, FlattenSteps
  <2>2. \A i \in 1..n : seqs[i] \in Seq(T) /\ Len(seqs[i]) \in Nat
    OBVIOUS
  <2> DEFINE at == [i \in 1..(n + 1) |-> IF i = 1 THEN 0 ELSE Len(h[i - 1])]
             Placed(k) == /\ h[k] \in Seq(T) /\ Len(h[k]) \in Nat
                          /\ at[k] \in Nat /\ Len(h[k]) = at[k] + Len(seqs[k])
                          /\ \A i \in 1..k : \A j \in 1..Len(seqs[i]) :
                               at[i] + j \in 1..Len(h[k]) /\ h[k][at[i] + j] = seqs[i][j]
             Done == {k \in 0..n : \A i \in 1..k : Placed(i)}
  <2>3. 0 \in Done
    OBVIOUS
  <2>4. ASSUME NEW k \in 1..n, k - 1 \in Done PROVE k \in Done
    <3>1. CASE k = 1
      <4>1. at[1] = 0 /\ h[1] = seqs[1] /\ seqs[1] \in Seq(T)
        BY <2>1, <2>2, <3>1
      <4>2. Placed(1)
        <5>1. \A i \in 1..1 : i = 1
          OBVIOUS
        <5> HIDE DEF at
        <5>2. \A j \in 1..Len(seqs[1]) : at[1] + j \in 1..Len(h[1]) /\ h[1][at[1] + j] = seqs[1][j]
          BY <4>1
        <5>3. Len(h[1]) \in Nat /\ Len(h[1]) = at[1] + Len(seqs[1])
          BY <4>1
        <5>. QED
          BY <4>1, <5>1, <5>2, <5>3
      <4> HIDE DEF Placed
      <4>3. \A i \in 1..k : i = 1
        BY <3>1
      <4>4. \A i \in 1..k : Placed(i)
        BY <4>2, <4>3, Zenon
      <4>. QED
        BY <4>4
    <3>2. CASE k # 1
      <4>1. k \in 2..n /\ k - 1 \in 1..n /\ k - 1 \in 1..(k - 1)
        BY <3>2
      <4>2. Placed(k - 1)
        BY <2>4, <4>1
      <4>3. at[k] = Len(h[k - 1]) /\ h[k] = h[k - 1] \o seqs[k]
        <5>1. k \in 1..(n + 1) /\ k # 1
          BY <4>1
        <5>2. at[k] = Len(h[k - 1])
          BY <5>1
        <5> HIDE DEF at, Placed
        <5>. QED
          BY <2>1, <4>1, <5>2
      <4> HIDE DEF at
      <4>4. PICK r \in Seq(T) : r = h[k - 1] /\ Len(r) \in Nat
        BY <4>2
      <4>5. PICK s \in Seq(T) : s = seqs[k] /\ Len(s) \in Nat
        BY <2>2
      <4>6. PICK w : w = h[k] /\ w = r \o s
        BY <4>3, <4>4, <4>5
      <4>7. /\ w \in Seq(T) /\ Len(w) = Len(r) + Len(s)
            /\ \A i \in 1..(Len(r) + Len(s)) : w[i] = IF i <= Len(r) THEN r[i] ELSE s[i - Len(r)]
        <5>1. /\ r \o s \in Seq(T) /\ Len(r \o s) = Len(r) + Len(s)
              /\ \A i \in 1..(Len(r) + Len(s)) : (r \o s)[i] = IF i <= Len(r) THEN r[i] ELSE s[i - Len(r)]
          BY ConcatProperties, Zenon
        <5>. QED
          BY <4>6, <5>1, Zenon
      <4>8. \A j \in 1..Len(s) : Len(r) + j \in 1..Len(w) /\ w[Len(r) + j] = s[j]
        <5>1. \A j \in 1..Len(s) : /\ Len(r) + j \in 1..(Len(r) + Len(s))
                                   /\ ~(Len(r) + j <= Len(r)) /\ Len(r) + j - Len(r) = j
          BY <4>4, <4>5
        <5>2. PICK m \in Nat : m = Len(r)
          BY <4>4
        <5>3. PICK l \in Nat : l = Len(s)
          BY <4>5
        <5>4. /\ Len(w) = m + l
              /\ \A i \in 1..(m + l) : w[i] = IF i <= m THEN r[i] ELSE s[i - m]
              /\ \A j \in 1..l : m + j \in 1..(m + l) /\ ~(m + j <= m) /\ m + j - m = j
          BY <4>7, <5>1, <5>2, <5>3
        <5>5. \A j \in 1..l : m + j \in 1..Len(w) /\ w[m + j] = s[j]
          BY <5>4
        <5>. QED
          BY <5>2, <5>3, <5>5
      <4>9. ASSUME NEW i \in 1..k, NEW j \in 1..Len(seqs[i])
            PROVE  at[i] + j \in 1..Len(w) /\ w[at[i] + j] = seqs[i][j]
        <5>1. CASE i = k
          BY <4>3, <4>4, <4>5, <4>8, <5>1
        <5>2. CASE i # k
          <6>1. i \in 1..(k - 1)
            BY <5>2
          <6>2. at[i] + j \in 1..Len(r) /\ r[at[i] + j] = seqs[i][j]
            BY <4>2, <4>4, <6>1
          <6> DEFINE m == at[i] + j
          <6>3. m \in 1..Len(r) /\ r[m] = seqs[i][j]
            BY <6>2
          <6> HIDE DEF m
          <6>4. m \in 1..(Len(r) + Len(s)) /\ m <= Len(r)
            BY <4>4, <4>5, <6>3
          <6>5. m \in 1..Len(w) /\ w[m] = seqs[i][j]
            BY <4>7, <6>3, <6>4
          <6>. QED
            BY <6>5 DEF m
        <5>. QED
          BY <5>1, <5>2
      <4>10. Placed(k)
        BY <4>3, <4>4, <4>5, <4>6, <4>7, <4>9
      <4> HIDE DEF Placed
      <4>11. \A i \in 1..k : i = k \/ i \in 1..(k - 1)
        OBVIOUS
      <4>. QED
        BY <2>4, <4>10, <4>11
    <3>. QED
      BY <3>1, <3>2
  <2> HIDE DEF Done, Placed
  <2>5. n \in Done
    <3>1. \A k \in 0..n : k \in Done
      BY <2>3, <2>4, Upward
    <3>. QED
      BY <3>1
  <2>6. \A i \in 1..n : Placed(i)
    BY <2>5 DEF Done
  <2>7. \A i \in 1..n : at[i + 1] = Len(h[i])
    OBVIOUS
  <2>8. at[1] = 0 /\ DOMAIN at = 1..(n + 1)
    OBVIOUS
  <2>9. at \in [1..(n + 1) -> Nat]
    <3>1. \A i \in 1..(n + 1) : at[i] \in Nat
      <4>1. \A i \in 1..(n + 1) : i # 1 => i - 1 \in 1..n
        OBVIOUS
      <4>2. \A i \in 1..n : Len(h[i]) \in Nat
        BY <2>6 DEF Placed
      <4>. QED
        BY <4>1, <4>2
    <3>. QED
      BY <3>1
  <2> HIDE DEF at
  <2>10. n \in 1..n
    BY <1>3
  <2>11. /\ \A i \in 1..n : at[i + 1] = at[i] + Len(seqs[i])
         /\ h[n] \in Seq(T) /\ Len(h[n]) = at[n + 1]
         /\ \A i \in 1..n : \A j \in 1..Len(seqs[i]) :
              at[i] + j \in 1..Len(h[n]) /\ h[n][at[i] + j] = seqs[i][j]
    BY <2>6, <2>7, <2>10 DEF Placed
  <2>. QED
    <3>1. FlattenSeq(seqs) \in Seq(T) /\ Len(FlattenSeq(seqs)) = at[n + 1]
      BY <2>1, <2>11
    <3>2. \A i \in 1..n : at[i + 1] = at[i] + Len(seqs[i])
      BY <2>11
    <3>3. \A i \in 1..n : \A j \in 1..Len(seqs[i]) :
            /\ at[i] + j \in 1..Len(FlattenSeq(seqs))
            /\ FlattenSeq(seqs)[at[i] + j] = seqs[i][j]
      BY <2>1, <2>11, Zenon
    <3>4. SectionsAt(n, T, seqs, at)
      BY <2>8, <2>9, <3>1, <3>2, <3>3, Zenon DEF SectionsAt
    <3>. QED
      BY <3>4
<1>. QED
  BY <1>2, <1>3

(***************************************************************************)
(* Logs.                                                                   *)
(***************************************************************************)

Found == Bare("found", "none", NoPair)
Blank == Bare("blank", "none", NoPair)
TimeLine(entry) == Item(entry.index, "Time", entry.time)
DetailLine(entry) == Item(entry.index, "Detail", entry.detail)
MoreLine(entry, j) == Bare("text", entry.more[j].text, entry.more[j].pair)

\* The lines of an entry.
Section(entry) ==
  <<TimeLine(entry), DetailLine(entry)>> \o [j \in DOMAIN entry.more |-> MoreLine(entry, j)] \o <<Blank>>

LinesOf(entry) ==
  {Found, Blank, TimeLine(entry), DetailLine(entry)} \cup {MoreLine(entry, j) : j \in DOMAIN entry.more}

\* Which line of an entry is where.
LEMMA SectionFacts ==
  ASSUME NEW entry, NEW m \in Nat, m = Len(entry.more), DOMAIN entry.more = 1..m,
         NEW T, LinesOf(entry) \subseteq T
  PROVE  /\ Section(entry) \in Seq(T) /\ Len(Section(entry)) = m + 3
         /\ Section(entry)[1] = TimeLine(entry) /\ Section(entry)[2] = DetailLine(entry)
         /\ \A j \in 1..m : Section(entry)[j + 2] = MoreLine(entry, j)
         /\ Section(entry)[m + 3] = Blank
<1> DEFINE two == <<TimeLine(entry), DetailLine(entry)>>
           texts == [j \in DOMAIN entry.more |-> MoreLine(entry, j)]
           last == <<Blank>>
<1>1. PICK a \in T : a = TimeLine(entry)
  BY DEF LinesOf
<1>2. PICK b \in T : b = DetailLine(entry)
  BY DEF LinesOf
<1>3. PICK c \in T : c = Blank
  BY DEF LinesOf
<1>4. two \in Seq(T) /\ Len(two) = 2 /\ two[1] = a /\ two[2] = b
  <2>1. two = <<a, b>>
    BY <1>1, <1>2
  <2> HIDE DEF two
  <2>. QED
    BY <2>1
<1>5. last \in Seq(T) /\ Len(last) = 1 /\ last[1] = c
  <2>1. last = <<c>>
    BY <1>3
  <2> HIDE DEF last
  <2>. QED
    BY <2>1
<1>6. texts \in Seq(T) /\ Len(texts) = m /\ \A j \in 1..m : texts[j] = MoreLine(entry, j)
  <2>1. \A j \in 1..m : MoreLine(entry, j) \in T
    BY DEF LinesOf
  <2>2. texts = [j \in 1..m |-> MoreLine(entry, j)]
    OBVIOUS
  <2>3. texts \in [1..m -> T]
    BY <2>1, <2>2
  <2>4. \A j \in 1..m : texts[j] = MoreLine(entry, j)
    BY <2>2
  <2> HIDE DEF texts
  <2>. QED
    BY <2>3, <2>4
<1>7. Section(entry) = two \o texts \o last
  BY DEF Section
<1> HIDE DEF two, texts, last
<1>8. PICK u : u = two \o texts
  OBVIOUS
<1>9. /\ u \in Seq(T) /\ Len(u) = 2 + m
      /\ \A i \in 1..(2 + m) : u[i] = IF i <= 2 THEN two[i] ELSE texts[i - 2]
  <2>1. /\ two \o texts \in Seq(T)
        /\ Len(two \o texts) = Len(two) + Len(texts)
        /\ \A i \in 1..(Len(two) + Len(texts)) :
             (two \o texts)[i] = IF i <= Len(two) THEN two[i] ELSE texts[i - Len(two)]
    BY <1>4, <1>6, ConcatProperties, Zenon
  <2>. QED
    BY <1>4, <1>6, <1>8, <2>1, Zenon
<1>10. PICK w : w = u \o last
  OBVIOUS
<1>11. /\ w \in Seq(T) /\ Len(w) = 2 + m + 1
       /\ \A i \in 1..(2 + m + 1) : w[i] = IF i <= 2 + m THEN u[i] ELSE last[i - (2 + m)]
  <2>1. /\ u \o last \in Seq(T)
        /\ Len(u \o last) = Len(u) + Len(last)
        /\ \A i \in 1..(Len(u) + Len(last)) :
             (u \o last)[i] = IF i <= Len(u) THEN u[i] ELSE last[i - Len(u)]
    BY <1>5, <1>9, ConcatProperties, Zenon
  <2>. QED
    BY <1>5, <1>9, <1>10, <2>1, Zenon
<1>12. Section(entry) = w
  BY <1>7, <1>8, <1>10, Zenon
<1>13. /\ w \in Seq(T) /\ Len(w) = m + 3 /\ w[1] = a /\ w[2] = b /\ w[m + 3] = c
       /\ \A j \in 1..m : w[j + 2] = MoreLine(entry, j)
  <2>1. /\ 1 \in 1..(2 + m + 1) /\ 1 \in 1..(2 + m) /\ 2 \in 1..(2 + m + 1) /\ 2 \in 1..(2 + m)
        /\ m + 3 \in 1..(2 + m + 1) /\ ~(m + 3 <= 2 + m) /\ m + 3 - (2 + m) = 1
        /\ \A j \in 1..m : /\ j + 2 \in 1..(2 + m + 1) /\ j + 2 <= 2 + m /\ j + 2 \in 1..(2 + m)
                           /\ ~(j + 2 <= 2) /\ j + 2 - 2 = j
    OBVIOUS
  <2>2. ASSUME NEW j \in 1..m PROVE w[j + 2] = MoreLine(entry, j)
    <3>1. PICK k : k = j + 2 /\ k - 2 = j /\ k \in 1..(2 + m + 1) /\ k <= 2 + m /\ k \in 1..(2 + m) /\ ~(k <= 2)
      BY <2>1
    <3>2. w[k] = u[k]
      BY <1>11, <3>1, Zenon
    <3>3. u[k] = texts[k - 2]
      BY <1>9, <3>1, Zenon
    <3>. QED
      BY <1>6, <3>1, <3>2, <3>3, Zenon
  <2>3. w[1] = a /\ w[2] = b /\ w[m + 3] = c
    <3>1. w[1] = u[1] /\ w[2] = u[2]
      <4>1. 1 <= 2 + m /\ 2 <= 2 + m
        OBVIOUS
      <4>. QED
        BY <1>11, <2>1, <4>1, Zenon
    <3>2. u[1] = two[1] /\ u[2] = two[2]
      BY <1>9, <2>1
    <3>3. w[m + 3] = last[1]
      <4>1. PICK k : k = m + 3 /\ k \in 1..(2 + m + 1) /\ ~(k <= 2 + m) /\ k - (2 + m) = 1
        BY <2>1
      <4>2. w[k] = last[k - (2 + m)]
        BY <1>11, <4>1, Zenon
      <4>. QED
        BY <4>1, <4>2, Zenon
    <3>. QED
      BY <1>4, <1>5, <3>1, <3>2, <3>3
  <2>4. Len(w) = m + 3
    BY <1>11
  <2>. QED
    BY <1>11, <2>2, <2>3, <2>4
<1>. QED
  BY <1>1, <1>2, <1>3, <1>12, <1>13, Zenon

\* Where the lines of a log are: those of entry i begin after place at[i].
LogPlaced(log, lines, at) ==
  /\ DOMAIN lines = 1..(at[Len(log) + 1]) /\ Len(lines) = at[Len(log) + 1]
  /\ at \in [1..(Len(log) + 1) -> Nat] /\ at[1] = 1 /\ lines[1] = Found
  /\ \A i \in 1..Len(log) :
       LET m == Len(log[i].more)
       IN /\ at[i + 1] = at[i] + m + 3 /\ at[i + 1] <= at[Len(log) + 1]
          /\ lines[at[i] + 1] = TimeLine(log[i]) /\ lines[at[i] + 2] = DetailLine(log[i])
          /\ \A j \in 1..m : lines[at[i] + 2 + j] = MoreLine(log[i], j)
          /\ lines[at[i] + m + 3] = Blank

\* The lines of a log come entry by entry.
LEMMA LogInOrder ==
  ASSUME NEW log, LogShape(log)
  PROVE  \E at : LogPlaced(log, LogLines(log), at)
<1> DEFINE T == (UNION {LinesOf(log[i]) : i \in DOMAIN log}) \cup {Found}
           seqs == [i \in DOMAIN log |-> Section(log[i])]
           M(i) == Len(log[i].more)
<1>1. PICK n \in Nat : n = Len(log) /\ DOMAIN log = 1..n
  BY DEF LogShape
<1>2. \A i \in 1..n : Len(log[i].more) \in Nat /\ DOMAIN log[i].more = 1..Len(log[i].more)
  BY <1>1 DEF LogShape
<1>3. ASSUME NEW i \in 1..n
      PROVE  /\ seqs[i] \in Seq(T) /\ Len(seqs[i]) = M(i) + 3
             /\ seqs[i][1] = TimeLine(log[i]) /\ seqs[i][2] = DetailLine(log[i])
             /\ \A j \in 1..M(i) : seqs[i][j + 2] = MoreLine(log[i], j)
             /\ seqs[i][M(i) + 3] = Blank
  <2>1. LinesOf(log[i]) \subseteq T
    BY <1>1
  <2>2. seqs[i] = Section(log[i])
    BY <1>1
  <2>3. PICK m \in Nat : m = Len(log[i].more) /\ DOMAIN log[i].more = 1..m
    BY <1>2
  <2> HIDE DEF T, seqs
  <2>4. /\ Section(log[i]) \in Seq(T) /\ Len(Section(log[i])) = m + 3
        /\ Section(log[i])[1] = TimeLine(log[i]) /\ Section(log[i])[2] = DetailLine(log[i])
        /\ \A j \in 1..m : Section(log[i])[j + 2] = MoreLine(log[i], j)
        /\ Section(log[i])[m + 3] = Blank
    BY <2>1, <2>3, SectionFacts
  <2>. QED
    BY <2>2, <2>3, <2>4, Zenon
<1>4. seqs \in [1..n -> Seq(T)]
  BY <1>1, <1>3
<1>5. LogLines(log) = <<Found>> \o FlattenSeq(seqs)
  BY DEF LogLines, Section, TimeLine, DetailLine, MoreLine, Found, Blank
<1>6. Found \in T
  BY Zenon
<1> HIDE DEF T, seqs
<1>7. PICK at : SectionsAt(n, T, seqs, at)
  BY <1>4, FlattenPlaces
<1>8. PICK s \in Seq(T) : s = FlattenSeq(seqs)
  BY <1>7 DEF SectionsAt
<1>9. PICK lines : lines = LogLines(log) /\ lines = <<Found>> \o s
  BY <1>5, <1>8
<1>10. PICK l \in Nat : l = Len(s) /\ l = at[n + 1]
  BY <1>7, <1>8 DEF SectionsAt
<1>11. /\ Len(lines) = l + 1 /\ DOMAIN lines = 1..(l + 1) /\ lines[1] = Found
       /\ \A i \in 1..l : lines[i + 1] = s[i]
  <2>1. PICK f : f = <<Found>>
    OBVIOUS
  <2>2. f \in Seq(T) /\ Len(f) = 1 /\ f[1] = Found
    BY <1>6, <2>1
  <2>3. /\ f \o s \in Seq(T) /\ Len(f \o s) = Len(f) + Len(s)
        /\ \A i \in 1..(Len(f) + Len(s)) : (f \o s)[i] = IF i <= Len(f) THEN f[i] ELSE s[i - Len(f)]
    BY <2>2, ConcatProperties, Zenon
  <2>4. lines = f \o s
    BY <1>9, <2>1, Zenon
  <2>5. /\ lines \in Seq(T) /\ Len(lines) = 1 + l
        /\ \A i \in 1..(1 + l) : lines[i] = IF i <= 1 THEN f[i] ELSE s[i - 1]
    BY <1>10, <2>2, <2>3, <2>4, Zenon
  <2>6. DOMAIN lines = 1..(l + 1)
    BY <2>5
  <2>7. /\ 1 \in 1..(1 + l)
        /\ \A i \in 1..l : i + 1 \in 1..(1 + l) /\ ~(i + 1 <= 1) /\ i + 1 - 1 = i
    OBVIOUS
  <2>. QED
    BY <2>2, <2>5, <2>6, <2>7
<1> DEFINE to == [i \in 1..(n + 1) |-> at[i] + 1]
<1>12. to \in [1..(n + 1) -> Nat] /\ to[1] = 1 /\ to[n + 1] = l + 1
  BY <1>7, <1>10 DEF SectionsAt
<1>13. \A i \in 1..n : to[i] = at[i] + 1 /\ to[i + 1] = at[i + 1] + 1 /\ at[i] \in Nat
  BY <1>7 DEF SectionsAt
<1> HIDE DEF to
<1>14. ASSUME NEW i \in 1..n
       PROVE  /\ to[i + 1] = to[i] + M(i) + 3 /\ to[i + 1] <= to[Len(log) + 1]
              /\ lines[to[i] + 1] = TimeLine(log[i]) /\ lines[to[i] + 2] = DetailLine(log[i])
              /\ \A j \in 1..M(i) : lines[to[i] + 2 + j] = MoreLine(log[i], j)
              /\ lines[to[i] + M(i) + 3] = Blank
  <2>1. PICK m \in Nat : m = M(i)
    BY <1>2
  <2>2. PICK a \in Nat : a = at[i] /\ to[i] = a + 1
    BY <1>13
  <2>3. \A j \in 1..(m + 3) : lines[a + j + 1] = seqs[i][j]
    <3>1. Len(seqs[i]) = m + 3
      BY <1>3, <2>1
    <3>2. \A j \in 1..(m + 3) : a + j \in 1..l /\ s[a + j] = seqs[i][j]
      BY <1>7, <1>8, <1>10, <2>2, <3>1 DEF SectionsAt
    <3>. QED
      BY <1>11, <3>2
  <2>10. to[i + 1] <= to[Len(log) + 1]
    <3>1. Len(seqs[i]) = m + 3
      BY <1>3, <2>1
    <3>2. m + 3 \in 1..(m + 3)
      OBVIOUS
    <3>3. a + (m + 3) \in 1..l
      BY <1>7, <1>8, <1>10, <2>2, <3>1, <3>2 DEF SectionsAt
    <3>4. to[i + 1] = a + (m + 3) + 1
      BY <1>3, <1>7, <1>13, <2>1, <2>2 DEF SectionsAt
    <3>5. to[Len(log) + 1] = l + 1
      BY <1>1, <1>12
    <3>. QED
      BY <3>3, <3>4, <3>5
  <2>4. to[i + 1] = a + (m + 3) + 1
    BY <1>3, <1>7, <1>13, <2>1, <2>2 DEF SectionsAt
  <2>5. /\ 1 \in 1..(m + 3) /\ 2 \in 1..(m + 3) /\ m + 3 \in 1..(m + 3)
        /\ a + 1 + 1 = to[i] + 1 /\ a + 2 + 1 = to[i] + 2 /\ a + (m + 3) + 1 = to[i] + m + 3
        /\ \A j \in 1..m : j + 2 \in 1..(m + 3) /\ a + (j + 2) + 1 = to[i] + 2 + j
    <3>1. PICK b \in Nat : b = to[i] /\ b = a + 1
      BY <2>2
    <3>2. \A j \in 1..m : j + 2 \in 1..(m + 3) /\ a + (j + 2) + 1 = b + 2 + j
      BY <3>1
    <3>3. a + 1 + 1 = b + 1 /\ a + 2 + 1 = b + 2 /\ a + (m + 3) + 1 = b + m + 3
      BY <3>1
    <3>. QED
      BY <3>1, <3>2, <3>3
  <2>6. /\ seqs[i][1] = TimeLine(log[i]) /\ seqs[i][2] = DetailLine(log[i])
        /\ \A j \in 1..m : seqs[i][j + 2] = MoreLine(log[i], j)
        /\ seqs[i][m + 3] = Blank
    BY <1>3, <2>1
  <2>7. \A j \in 1..m : lines[to[i] + 2 + j] = MoreLine(log[i], j)
    BY <2>3, <2>5, <2>6
  <2>8. lines[to[i] + 1] = TimeLine(log[i]) /\ lines[to[i] + 2] = DetailLine(log[i])
        /\ lines[to[i] + m + 3] = Blank
    BY <2>3, <2>5, <2>6
  <2>9. to[i + 1] = to[i] + m + 3
    BY <2>2, <2>4
  <2>. QED
    BY <2>1, <2>7, <2>8, <2>9, <2>10, Zenon
<1>15. LogPlaced(log, lines, to)
  <2>1. PICK n1 \in Nat : n1 = n + 1 /\ n1 = Len(log) + 1
    BY <1>1
  <2>2. to[Len(log) + 1] = l + 1 /\ to \in [1..(Len(log) + 1) -> Nat]
    BY <1>1, <1>12
  <2>. QED
    BY <1>1, <1>11, <1>12, <1>14, <2>2, Zenon DEF LogPlaced
<1>. QED
  BY <1>9, <1>15, Zenon

\* A sequence of n elements, whatever they are.
Listed(s, n) == s = [q \in 1..n |-> s[q]]

\* What is listed is a sequence.
LEMMA ListedFacts ==
  ASSUME NEW n \in Nat, NEW s, Listed(s, n)
  PROVE  /\ DOMAIN s = 1..n /\ Len(s) = n
         /\ \A T : (\A q \in 1..n : s[q] \in T) => s \in Seq(T)
<1>1. PICK f : f = [q \in 1..n |-> s[q]]
  OBVIOUS
<1>2. s = f
  BY <1>1 DEF Listed
<1>3. DOMAIN f = 1..n /\ \A q \in 1..n : f[q] = s[q]
  BY <1>1
<1>4. Len(f) = n
  BY <1>1
<1>5. ASSUME NEW T, \A q \in 1..n : s[q] \in T PROVE f \in Seq(T)
  <2>1. f \in [1..n -> T]
    BY <1>1, <1>5
  <2>. QED
    BY <2>1
<1>. QED
  BY <1>2, <1>3, <1>4, <1>5

\* What has been read of an entry with j of its continuation lines.
Texts(entry, j) == [x \in 1..(j + 1) |-> IF x = 1 THEN entry.detail ELSE entry.more[x - 1].text]
FieldsOf(entry, j) == {entry.more[x].pair.key : x \in 1..j} \ {NoPair.key}

ReadEntry(e, entry, j) ==
  /\ e = [index |-> entry.index, time |-> entry.time, detail |-> Texts(entry, j),
          detail_fields |-> e.detail_fields]
  /\ {f.key : f \in e.detail_fields} = FieldsOf(entry, j)

\* The first i entries have been read, of the last one j continuation lines.
ReadUpTo(r, log, i, j) ==
  /\ r = [entries |-> r.entries, current |-> i]
  /\ Listed(r.entries, i)
  /\ \A q \in 1..i : ReadEntry(r.entries[q], log[q], IF q = i THEN j ELSE Len(log[q].more))

ReadWhole(r, log, i) ==
  /\ r = [entries |-> r.entries, current |-> i]
  /\ Listed(r.entries, i)
  /\ \A q \in 1..i : ReadEntry(r.entries[q], log[q], Len(log[q].more))

\* A sequence that goes up to p, with e there.
EndsIn(old, p, e) == [q \in 1..p |-> IF q = p THEN e ELSE old[q]]

\* An entry put in at the end, or in the last place.
LEMMA PutLast ==
  ASSUME NEW k \in Nat, NEW old, Listed(old, k),
         NEW p \in 1..(k + 1), p >= k, NEW e
  PROVE  SubSeq(old, 1, p - 1) \o <<e>> \o SubSeq(old, p + 1, Len(old)) = EndsIn(old, p, e)
<1> DEFINE T == {old[q] : q \in 1..k} \cup {e}
           before == SubSeq(old, 1, p - 1)
           after == SubSeq(old, p + 1, Len(old))
<1>1. old \in Seq(T) /\ Len(old) = k /\ DOMAIN old = 1..k
  <2>1. \A q \in 1..k : old[q] \in T
    OBVIOUS
  <2> HIDE DEF T
  <2>. QED
    BY <2>1, ListedFacts
<1>2. \A i \in 1..(p - 1) : old[i] \in T
  OBVIOUS
<1>3. \A i \in (p + 1)..Len(old) : old[i] \in T
  BY <1>1
<1> HIDE DEF T
<1>4. before \in Seq(T) /\ Len(before) = p - 1 /\ \A i \in 1..(p - 1) : before[i] = old[i]
  <2>1. PICK z \in Int : z = p - 1 /\ z >= 0
    OBVIOUS
  <2>2. PICK v : v = SubSeq(old, 1, z)
    OBVIOUS
  <2>3. /\ v \in Seq(T) /\ Len(v) = (IF 1 <= z THEN z - 1 + 1 ELSE 0)
        /\ \A i \in 1..(z - 1 + 1) : v[i] = old[1 + i - 1]
    <3>1. 1 \in Int /\ z \in Int /\ \A i \in 1..z : old[i] \in T
      BY <1>2, <2>1
    <3>. QED
      BY <2>2, <3>1, SubSeqProperties
  <2>4. Len(v) = z /\ \A i \in 1..z : v[i] = old[i]
    <3>1. z - 1 + 1 = z /\ Len(v) = z
      BY <2>1, <2>3
    <3>2. ASSUME NEW i \in 1..z PROVE v[i] = old[i]
      <4>1. 1 + i - 1 = i
        BY <2>1
      <4>2. i \in 1..(z - 1 + 1)
        BY <3>1
      <4>3. v[i] = old[1 + i - 1]
        BY <2>3, <4>2, Zenon
      <4>. QED
        BY <4>1, <4>3, Zenon
    <3>. QED
      BY <3>1, <3>2
  <2>5. before = v
    BY <2>1, <2>2
  <2> HIDE DEF before
  <2>. QED
    BY <2>1, <2>3, <2>4, <2>5
<1>5. after \in Seq(T) /\ Len(after) = 0
  <2>1. /\ after \in Seq(T) /\ Len(after) = (IF p + 1 <= Len(old) THEN Len(old) - (p + 1) + 1 ELSE 0)
    BY <1>1, <1>3, SubSeqProperties
  <2> HIDE DEF after
  <2>. QED
    BY <1>1, <2>1
<1> HIDE DEF before, after
<1>6. PICK one \in Seq(T) : one = <<e>> /\ Len(one) = 1 /\ one[1] = e
  <2>1. <<e>> \in Seq(T) /\ Len(<<e>>) = 1 /\ <<e>>[1] = e
    BY DEF T
  <2>. QED
    BY <2>1
<1>7. PICK u : u = before \o one
  OBVIOUS
<1>8. u \in Seq(T) /\ Len(u) = p /\ \A i \in 1..p : u[i] = IF i = p THEN e ELSE old[i]
  <2>1. /\ before \o one \in Seq(T) /\ Len(before \o one) = Len(before) + Len(one)
        /\ \A i \in 1..(Len(before) + Len(one)) :
             (before \o one)[i] = IF i <= Len(before) THEN before[i] ELSE one[i - Len(before)]
    BY <1>4, <1>6, ConcatProperties, Zenon
  <2>2. PICK b \in Nat : b = Len(before) /\ b = p - 1
    BY <1>4
  <2>3. /\ u \in Seq(T) /\ Len(u) = b + 1
        /\ \A i \in 1..(b + 1) : u[i] = IF i <= b THEN before[i] ELSE one[i - b]
    BY <1>6, <1>7, <2>1, <2>2, Zenon
  <2>4. Len(u) = p
    BY <2>2, <2>3
  <2>5. ASSUME NEW i \in 1..p PROVE u[i] = IF i = p THEN e ELSE old[i]
    <3>1. p = b + 1 /\ i \in 1..(b + 1)
      BY <2>2
    <3>2. u[i] = IF i <= b THEN before[i] ELSE one[i - b]
      BY <2>3, <3>1
    <3>3. CASE i = p
      <4>1. ~(i <= b) /\ i - b = 1
        BY <2>2, <3>1, <3>3
      <4>. QED
        BY <1>6, <3>2, <3>3, <4>1
    <3>4. CASE i # p
      <4>1. i <= b /\ i \in 1..(p - 1)
        BY <2>2, <3>1, <3>4
      <4>. QED
        BY <1>4, <3>2, <3>4, <4>1
    <3>. QED
      BY <3>3, <3>4
  <2>. QED
    BY <2>3, <2>4, <2>5
<1>9. PICK w : w = u \o after
  OBVIOUS
<1>10. w = u
  <2>1. /\ u \o after \in Seq(T) /\ Len(u \o after) = Len(u) + Len(after)
        /\ \A i \in 1..(Len(u) + Len(after)) :
             (u \o after)[i] = IF i <= Len(u) THEN u[i] ELSE after[i - Len(u)]
    BY <1>5, <1>8, ConcatProperties, Zenon
  <2>2. w \in Seq(T) /\ Len(w) = p + 0 /\ \A i \in 1..(p + 0) : w[i] = IF i <= p THEN u[i] ELSE after[i - p]
    BY <1>5, <1>8, <1>9, <2>1, Zenon
  <2>3. Len(w) = Len(u) /\ \A i \in 1..Len(w) : w[i] = u[i]
    BY <1>8, <2>2
  <2>. QED
    BY <1>8, <2>2, <2>3
<1>11. u = [q \in 1..p |-> IF q = p THEN e ELSE old[q]]
  <2>1. DOMAIN u = 1..p
    BY <1>8
  <2>2. u = [q \in 1..p |-> u[q]]
    BY <1>8, <2>1
  <2>3. \A q \in 1..p : u[q] = IF q = p THEN e ELSE old[q]
    BY <1>8
  <2>. QED
    BY <2>2, <2>3
<1>. QED
  BY <1>6, <1>7, <1>9, <1>10, <1>11 DEF before, after, EndsIn

\* The time and the detail of an entry that was not listed yet.
LEMMA EntryStarts ==
  ASSUME NEW log, LogShape(log), NEW i \in 1..Len(log), NEW r, ReadWhole(r, log, i - 1)
  PROVE  ReadUpTo(Parsed(Parsed(r, TimeLine(log[i])), DetailLine(log[i])), log, i, 0)
<1>1. PICK k \in Nat : k = i - 1 /\ i = k + 1
  BY DEF LogShape
<1>2. PICK old : old = r.entries /\ Listed(old, k) /\ Len(old) = k /\ DOMAIN old = 1..k
  <2>1. PICK o : o = r.entries /\ Listed(o, k)
    BY <1>1 DEF ReadWhole
  <2>. QED
    BY <2>1, ListedFacts
<1>3. \A q \in 1..k : ReadEntry(old[q], log[q], Len(log[q].more))
  BY <1>1, <1>2 DEF ReadWhole
<1>4. \A q \in 1..k : old[q].index = log[q].index /\ log[q].index # log[i].index
  <2>1. \A q \in 1..k : q \in DOMAIN log /\ i \in DOMAIN log /\ q # i
    BY <1>1 DEF LogShape
  <2>2. \A q \in 1..k : log[q].index # log[i].index
    BY <2>1 DEF LogShape
  <2>3. \A q \in 1..k : old[q].index = log[q].index
    <3>1. ASSUME NEW q \in 1..k PROVE old[q].index = log[q].index
      <4>1. PICK e : e = old[q] /\ ReadEntry(e, log[q], Len(log[q].more))
        BY <1>3
      <4>2. e.index = log[q].index
        BY <4>1 DEF ReadEntry
      <4>. QED
        BY <4>1, <4>2
    <3>. QED
      BY <3>1
  <2>. QED
    BY <2>2, <2>3
<1> DEFINE time == TimeLine(log[i])
           detail == DetailLine(log[i])
           fresh == [index |-> log[i].index, time |-> log[i].time, detail |-> <<>>, detail_fields |-> {}]
           begun == [q \in 1..i |-> IF q = i THEN fresh ELSE old[q]]
           entry == [fresh EXCEPT !.detail = <<log[i].detail>>]
           done == [q \in 1..i |-> IF q = i THEN entry ELSE old[q]]
<1>5. Parsed(r, time) = [entries |-> begun, current |-> i]
  <2>1. time.kind = "item" /\ time.index = log[i].index /\ time.field = "Time" /\ time.text = log[i].time
    BY DEF TimeLine, Item
  <2>2. Position(old, time.index) = i
    BY <1>1, <1>2, <1>4, <2>1 DEF Position
  <2>3. ~(i \in DOMAIN old)
    <3>1. ~(i \in 1..k)
      BY <1>1
    <3>. QED
      BY <1>2, <3>1, Zenon
  <2> DEFINE e0 == [index |-> time.index, time |-> "none", detail |-> <<>>, detail_fields |-> {}]
  <2>4. WithField(e0, time) = fresh
    BY <2>1 DEF WithField
  <2> HIDE DEF fresh
  <2>5. SubSeq(old, 1, i - 1) \o <<fresh>> \o SubSeq(old, i + 1, Len(old)) = begun
    <3>1. i \in 1..(k + 1) /\ i >= k
      BY <1>1
    <3>. QED
      BY <1>2, <3>1, PutLast DEF EndsIn
  <2> HIDE DEF begun, time
  <2>6. Parsed(r, time) =
          [entries |-> SubSeq(old, 1, i - 1) \o <<WithField(e0, time)>> \o SubSeq(old, i + 1, Len(old)),
           current |-> i]
    <3> HIDE DEF e0
    <3>1. time.kind \notin {"found", "blank"}
      BY <2>1
    <3>. QED
      BY <1>2, <2>1, <2>2, <2>3, <3>1, Zenon DEF Parsed, e0
  <2>. QED
    BY <2>4, <2>5, <2>6, Zenon
<1>6. Parsed([entries |-> begun, current |-> i], detail) = [entries |-> done, current |-> i]
  <2>1. detail.kind = "item" /\ detail.index = log[i].index /\ detail.field = "Detail" /\ detail.text = log[i].detail
    BY DEF DetailLine, Item
  <2>2. DOMAIN begun = 1..i /\ i \in 1..i /\ begun[i] = fresh /\ \A q \in 1..k : begun[q] = old[q]
    BY <1>1
  <2>3. fresh.index = log[i].index
    OBVIOUS
  <2>4. \A q \in DOMAIN begun : begun[q].index = log[i].index => q = i
    <3>1. \A q \in 1..i : q # i => q \in 1..k
      BY <1>1
    <3> HIDE DEF begun
    <3>. QED
      BY <1>4, <2>2, <3>1
  <2>5. WithField(fresh, detail) = entry
    BY <2>1 DEF WithField
  <2>6. Listed(begun, i) /\ Len(begun) = i
    <3>1. begun = [q \in 1..i |-> begun[q]]
      OBVIOUS
    <3>2. i \in Nat
      BY <1>1
    <3> HIDE DEF begun
    <3>3. Listed(begun, i)
      BY <3>1 DEF Listed
    <3>. QED
      BY <3>2, <3>3, ListedFacts
  <2>7. [q \in 1..i |-> IF q = i THEN entry ELSE begun[q]] = done
    OBVIOUS
  <2> HIDE DEF fresh, begun, entry, done, detail
  <2>8. Position(begun, detail.index) = i
    BY <2>1, <2>2, <2>3, <2>4 DEF Position
  <2>9. SubSeq(begun, 1, i - 1) \o <<entry>> \o SubSeq(begun, i + 1, Len(begun)) = done
    <3>1. PICK n \in Nat : n = i /\ n \in 1..(n + 1) /\ n >= n
      BY <1>1
    <3>2. SubSeq(begun, 1, n - 1) \o <<entry>> \o SubSeq(begun, n + 1, Len(begun))
            = EndsIn(begun, n, entry)
      <4>1. Listed(begun, n)
        BY <2>6, <3>1
      <4>. QED
        BY <3>1, <4>1, PutLast
    <3>. QED
      BY <2>7, <3>1, <3>2, Zenon DEF EndsIn
  <2>10. PICK b : b = [entries |-> begun, current |-> i] /\ b.entries = begun
    <3>1. [entries |-> begun, current |-> i].entries = begun
      OBVIOUS
    <3>. QED
      BY <3>1, Zenon
  <2>11. Parsed(b, detail) =
          [entries |-> SubSeq(begun, 1, i - 1) \o <<WithField(fresh, detail)>> \o SubSeq(begun, i + 1, Len(begun)),
           current |-> i]
    <3>1. detail.kind \notin {"found", "blank"} /\ i \in DOMAIN begun
      BY <2>1, <2>2
    <3>. QED
      BY <2>1, <2>2, <2>8, <2>10, <3>1, Zenon DEF Parsed
  <2>. QED
    BY <2>5, <2>9, <2>10, <2>11, Zenon
<1>7. ReadEntry(entry, log[i], 0)
  <2>1. Texts(log[i], 0) = <<log[i].detail>>
    BY DEF Texts
  <2>2. entry = [index |-> log[i].index, time |-> log[i].time, detail |-> <<log[i].detail>>, detail_fields |-> {}]
    <3>1. PICK t : t = <<log[i].detail>>
      OBVIOUS
    <3>2. \A a, b, c, d : [[index |-> a, time |-> b, detail |-> c, detail_fields |-> d] EXCEPT !.detail = t]
                            = [index |-> a, time |-> b, detail |-> t, detail_fields |-> d]
      OBVIOUS
    <3>3. entry = [fresh EXCEPT !.detail = t]
      BY <3>1, Zenon
    <3> HIDE DEF entry
    <3>4. entry = [index |-> log[i].index, time |-> log[i].time, detail |-> t, detail_fields |-> {}]
      BY <3>2, <3>3
    <3>. QED
      BY <3>1, <3>4, Zenon
  <2>3. FieldsOf(log[i], 0) = {}
    BY DEF FieldsOf
  <2> HIDE DEF entry
  <2>4. entry.detail_fields = {}
    BY <2>2
  <2>5. {f.key : f \in entry.detail_fields} = {}
    BY <2>4
  <2>6. entry = [index |-> log[i].index, time |-> log[i].time, detail |-> Texts(log[i], 0),
                 detail_fields |-> entry.detail_fields]
    BY <2>1, <2>2, <2>4, Zenon
  <2>. QED
    BY <2>3, <2>5, <2>6, Zenon DEF ReadEntry
<1>8. PICK d : d = [entries |-> done, current |-> i]
  OBVIOUS
<1>9. ReadUpTo(d, log, i, 0)
  <2>1. Listed(done, i)
    <3>1. done = [q \in 1..i |-> done[q]]
      OBVIOUS
    <3> HIDE DEF done
    <3>. QED
      BY <3>1 DEF Listed
  <2>4. i \in 1..i /\ done[i] = entry /\ \A q \in 1..k : done[q] = old[q]
    BY <1>1
  <2> HIDE DEF done, entry
  <2>2. d.entries = done /\ d = [entries |-> d.entries, current |-> i]
    BY <1>8
  <2>3. ASSUME NEW q \in 1..i
        PROVE  ReadEntry(done[q], log[q], IF q = i THEN 0 ELSE Len(log[q].more))
    <3>1. CASE q = i
      BY <1>7, <2>4, <3>1
    <3>2. CASE q # i
      <4>1. q \in 1..k
        BY <1>1, <3>2
      <4>. QED
        BY <1>3, <2>4, <3>2, <4>1
    <3>. QED
      BY <3>1, <3>2
  <2>. QED
    BY <2>1, <2>2, <2>3 DEF ReadUpTo
<1> HIDE DEF begun, done, time, detail
<1>. QED
  BY <1>5, <1>6, <1>8, <1>9, Zenon DEF time, detail

\* The pairs of an entry when a line like p has been read.
PairsWith(pairs, p) == IF p = NoPair THEN pairs ELSE {f \in pairs : f.key # p.key} \cup {p}

\* A line that continues the entry listed last.
LEMMA EntryGoesOn ==
  ASSUME NEW log, LogShape(log), NEW i \in 1..Len(log), NEW j \in 1..Len(log[i].more), NEW r,
         ReadUpTo(r, log, i, j - 1)
  PROVE  ReadUpTo(Parsed(r, MoreLine(log[i], j)), log, i, j)
<1>1. PICK m \in Nat : m = j - 1 /\ j = m + 1
  <2>1. Len(log[i].more) \in Nat
    BY DEF LogShape
  <2>. QED
    BY <2>1
<1>2. PICK n \in Nat : n = i /\ n # 0 /\ n \in 1..n
  BY DEF LogShape
<1>3. PICK s : s = r.entries /\ Listed(s, n) /\ r = [entries |-> s, current |-> n]
  BY <1>2 DEF ReadUpTo
<1>4. DOMAIN s = 1..n
  BY <1>3, ListedFacts
<1>5. PICK e : e = s[n]
  OBVIOUS
<1>6. ReadEntry(e, log[n], m)
  BY <1>1, <1>2, <1>3, <1>5 DEF ReadUpTo
<1>7. PICK line : line = MoreLine(log[i], j)
  OBVIOUS
<1>8. line.kind = "text" /\ line.text = log[n].more[j].text /\ line.pair = log[n].more[j].pair
  BY <1>2, <1>7 DEF MoreLine, Bare
<1>9. PICK pairs : pairs = e.detail_fields
  OBVIOUS
<1>10. e = [index |-> log[n].index, time |-> log[n].time, detail |-> Texts(log[n], m), detail_fields |-> pairs]
  BY <1>6, <1>9 DEF ReadEntry
<1>11. PICK e2 : e2 = [index |-> log[n].index, time |-> log[n].time, detail |-> Texts(log[n], j),
                       detail_fields |-> PairsWith(pairs, line.pair)]
  OBVIOUS
<1>12. Append(Texts(log[n], m), line.text) = Texts(log[n], j)
  <2>1. PICK t : t = Texts(log[n], m)
    OBVIOUS
  <2> DEFINE A == {t[x] : x \in 1..j} \cup {line.text}
  <2>2. DOMAIN t = 1..j /\ \A x \in 1..j : t[x] = IF x = 1 THEN log[n].detail ELSE log[n].more[x - 1].text
    <3>1. t = [x \in 1..j |-> IF x = 1 THEN log[n].detail ELSE log[n].more[x - 1].text]
      BY <1>1, <2>1 DEF Texts
    <3>. QED
      BY <3>1
  <2>3. t \in Seq(A) /\ Len(t) = j
    <3>1. Listed(t, j)
      <4>1. t = [x \in 1..j |-> IF x = 1 THEN log[n].detail ELSE log[n].more[x - 1].text]
        BY <1>1, <2>1 DEF Texts
      <4>. QED
        BY <4>1 DEF Listed
    <3>2. j \in Nat
      BY <1>1
    <3>3. \A x \in 1..j : t[x] \in A
      OBVIOUS
    <3> HIDE DEF A
    <3>. QED
      BY <3>1, <3>2, <3>3, ListedFacts
  <2>4. line.text \in A
    OBVIOUS
  <2> HIDE DEF A
  <2>5. PICK u : u = Append(t, line.text)
    OBVIOUS
  <2>6. /\ u \in Seq(A) /\ Len(u) = j + 1
        /\ \A x \in 1..j : u[x] = t[x]
        /\ u[j + 1] = line.text
    BY <2>3, <2>4, <2>5, AppendProperties
  <2>7. ASSUME NEW x \in 1..(j + 1)
        PROVE  u[x] = IF x = 1 THEN log[n].detail ELSE log[n].more[x - 1].text
    <3>1. CASE x = j + 1
      <4>1. x # 1 /\ x - 1 = j
        BY <1>1, <3>1
      <4>. QED
        BY <1>8, <2>6, <3>1, <4>1
    <3>2. CASE x # j + 1
      <4>1. x \in 1..j
        BY <1>1, <3>2
      <4>. QED
        BY <2>2, <2>6, <4>1
    <3>. QED
      BY <3>1, <3>2
  <2>8. DOMAIN u = 1..(j + 1) /\ u = [x \in DOMAIN u |-> u[x]]
    BY <2>6
  <2>9. u = [x \in 1..(j + 1) |-> IF x = 1 THEN log[n].detail ELSE log[n].more[x - 1].text]
    <3>1. PICK k \in Nat : k = j + 1
      BY <1>1
    <3>2. PICK v : v = [x \in 1..k |-> IF x = 1 THEN log[n].detail ELSE log[n].more[x - 1].text]
      OBVIOUS
    <3>3. DOMAIN v = 1..k /\ \A x \in 1..k : v[x] = u[x]
      BY <2>7, <3>1, <3>2
    <3>4. u = [x \in 1..k |-> u[x]] /\ v = [x \in 1..k |-> v[x]]
      BY <2>8, <3>1, <3>2
    <3>5. [x \in 1..k |-> u[x]] = [x \in 1..k |-> v[x]]
      BY <3>3
    <3>. QED
      BY <3>1, <3>2, <3>4, <3>5, Zenon
  <2>. QED
    BY <2>1, <2>5, <2>9, Zenon DEF Texts
<1>13. Parsed(r, line) = [entries |-> EndsIn(s, n, e2), current |-> n]
  <2>1. Continues(r) = n /\ line.kind \notin {"found", "blank"} /\ line.kind # "item"
    BY <1>3, <1>8 DEF Continues
  <2>2. Parsed(r, line) = [r EXCEPT !.entries[n] = WithText(@, line)]
    BY <1>2, <2>1, Zenon DEF Parsed
  <2>3. PICK t : t = Texts(log[n], j) /\ t = Append(e.detail, line.text)
    BY <1>10, <1>12
  <2>4. PICK p : p = PairsWith(pairs, line.pair) /\ p = PairsWith(e.detail_fields, line.pair)
    BY <1>9
  <2>5. WithText(e, line) = [[e EXCEPT !.detail = t] EXCEPT !.detail_fields = p]
    <3>1. WithText(e, line) = [e EXCEPT !.detail = t, !.detail_fields = p]
      BY <2>3, <2>4, Zenon DEF WithText, PairsWith
    <3>. QED
      BY <1>10, <3>1
  <2>6. WithText(e, line) = e2
    <3>1. [e EXCEPT !.detail = t] = [index |-> log[n].index, time |-> log[n].time, detail |-> t, detail_fields |-> pairs]
      BY <1>10
    <3>. QED
      BY <1>11, <2>3, <2>4, <2>5, <3>1
  <2>7. [r EXCEPT !.entries[n] = WithText(@, line)] = [r EXCEPT !.entries[n] = e2]
    <3>1. r.entries[n] = e
      BY <1>3, <1>5
    <3>. QED
      BY <2>6, <3>1, Zenon
  <2>8. [r EXCEPT !.entries[n] = e2] = [entries |-> EndsIn(s, n, e2), current |-> n]
    <3>1. r = [entries |-> s, current |-> n] /\ n \in 1..n
      BY <1>2, <1>3
    <3>2. [r EXCEPT !.entries[n] = e2] = [entries |-> [s EXCEPT ![n] = e2], current |-> n]
      BY <3>1
    <3>3. [s EXCEPT ![n] = e2] = EndsIn(s, n, e2)
      BY <1>4, <3>1 DEF EndsIn
    <3>. QED
      BY <3>2, <3>3, Zenon
  <2>. QED
    BY <2>2, <2>7, <2>8, Zenon
<1>14. ReadEntry(e2, log[n], j)
  <2>1. e2 = [index |-> log[n].index, time |-> log[n].time, detail |-> Texts(log[n], j),
              detail_fields |-> e2.detail_fields]
    BY <1>11
  <2>2. e2.detail_fields = PairsWith(pairs, line.pair)
    BY <1>11
  <2>3. {f.key : f \in pairs} = FieldsOf(log[n], m)
    BY <1>6, <1>9 DEF ReadEntry
  <2>4. line.pair.key = NoPair.key => line.pair = NoPair
    <3>1. n \in DOMAIN log /\ j \in DOMAIN log[n].more
      BY <1>2 DEF LogShape
    <3>. QED
      BY <1>8, <3>1 DEF LogShape
  <2>5. FieldsOf(log[n], j) = FieldsOf(log[n], m) \cup ({line.pair.key} \ {NoPair.key})
    <3>1. \A x : x \in 1..j <=> x \in 1..m \/ x = j
      BY <1>1
    <3>. QED
      BY <1>8, <3>1 DEF FieldsOf
  <2>6. PICK p : p = line.pair
    OBVIOUS
  <2>7. {f.key : f \in PairsWith(pairs, p)} = {f.key : f \in pairs} \cup ({p.key} \ {NoPair.key})
    <3>1. CASE p = NoPair
      BY <3>1 DEF PairsWith
    <3>2. CASE p # NoPair
      <4>1. p.key # NoPair.key
        BY <2>4, <2>6, <3>2
      <4>2. PairsWith(pairs, p) = {f \in pairs : f.key # p.key} \cup {p}
        BY <3>2 DEF PairsWith
      <4>. QED
        BY <4>1, <4>2
    <3>. QED
      BY <3>1, <3>2
  <2>. QED
    BY <2>1, <2>2, <2>3, <2>5, <2>6, <2>7 DEF ReadEntry
<1>15. PICK d : d = [entries |-> EndsIn(s, n, e2), current |-> n]
  OBVIOUS
<1>16. ReadUpTo(d, log, n, j)
  <2>1. PICK w : w = EndsIn(s, n, e2)
    OBVIOUS
  <2>2. Listed(w, n) /\ \A q \in 1..n : w[q] = IF q = n THEN e2 ELSE s[q]
    BY <2>1 DEF Listed, EndsIn
  <2>3. d.entries = w /\ d = [entries |-> d.entries, current |-> n]
    BY <1>15, <2>1
  <2>4. ASSUME NEW q \in 1..n PROVE ReadEntry(w[q], log[q], IF q = n THEN j ELSE Len(log[q].more))
    <3>1. CASE q = n
      BY <1>14, <2>2, <3>1
    <3>2. CASE q # n
      <4>1. ReadEntry(s[q], log[q], Len(log[q].more))
        BY <1>2, <1>3, <3>2 DEF ReadUpTo
      <4>. QED
        BY <2>2, <3>2, <4>1
    <3>. QED
      BY <3>1, <3>2
  <2>. QED
    BY <2>2, <2>3, <2>4 DEF ReadUpTo
<1>. QED
  BY <1>2, <1>7, <1>13, <1>15, <1>16

\* Blank lines and the count are passed over.
LEMMA PassedOver ==
  ASSUME NEW r, NEW line, line = Found \/ line = Blank
  PROVE  Parsed(r, line) = r
<1>1. line.kind \in {"found", "blank"}
  BY DEF Found, Blank, Bare
<1>. QED
  BY <1>1, Zenon DEF Parsed

\* All of a log is read.
LEMMA LogRead ==
  ASSUME NEW log, LogShape(log)
  PROVE  \E r : ParseLogEntries(LogLines(log)) = r.entries /\ ReadWhole(r, log, Len(log))
<1>1. PICK n \in Nat : n = Len(log)
  BY DEF LogShape
<1>2. PICK lines : lines = LogLines(log)
  OBVIOUS
<1>3. PICK at : LogPlaced(log, lines, at)
  BY <1>2, LogInOrder
<1>4. PICK N \in Nat : N = at[n + 1]
  BY <1>1, <1>3 DEF LogPlaced
<1>5. PICK g : /\ g[0] = NoEntries
               /\ \A k \in 1..N : g[k] = Parsed(g[k - 1], lines[k])
               /\ FoldLeft(Parsed, NoEntries, lines) = g[N]
  <2>1. DOMAIN lines = 1..N
    BY <1>1, <1>3, <1>4 DEF LogPlaced
  <2>. QED
    BY <2>1, LogSteps
<1> DEFINE Done == {i \in 0..n : ReadWhole(g[at[i + 1]], log, i)}
<1>6. at[1] = 1 /\ \A i \in 1..n : at[i] \in Nat /\ at[i + 1] \in Nat /\ at[i + 1] <= N
  <2>1. \A i \in 1..n : i \in 1..(n + 1) /\ i + 1 \in 1..(n + 1)
    OBVIOUS
  <2>2. at \in [1..(n + 1) -> Nat]
    BY <1>1, <1>3 DEF LogPlaced
  <2>3. \A i \in 1..n : at[i] \in Nat /\ at[i + 1] \in Nat
    BY <2>1, <2>2
  <2>4. \A i \in 1..n : at[i + 1] <= N
    BY <1>1, <1>3, <1>4 DEF LogPlaced
  <2>5. at[1] = 1
    BY <1>3 DEF LogPlaced
  <2>. QED
    BY <2>3, <2>4, <2>5
<1>7. 0 \in Done
  <2>1. N >= 1
    <3>1. CASE n = 0
      <4>1. n + 1 = 1
        BY <3>1
      <4>. QED
        BY <1>4, <1>6, <4>1
    <3>2. CASE n # 0
      <4>1. 1 \in 1..n
        BY <3>2
      <4>2. PICK m \in Nat : m = Len(log[1].more)
        BY <1>1, <4>1 DEF LogShape
      <4>3. at[1 + 1] = 1 + m + 3 /\ at[1 + 1] <= N
        <5>1. at[1 + 1] = at[1] + m + 3
          BY <1>1, <1>3, <4>1, <4>2 DEF LogPlaced
        <5>. QED
          BY <1>6, <4>1, <5>1
      <4>. QED
        BY <4>3
    <3>. QED
      BY <3>1, <3>2
  <2>2. g[1] = Parsed(g[0], lines[1])
    <3>1. 1 \in 1..N /\ 1 - 1 = 0
      BY <2>1
    <3>. QED
      BY <1>5, <3>1
  <2>3. lines[1] = Found
    BY <1>3 DEF LogPlaced
  <2>4. g[1] = NoEntries
    BY <1>5, <2>2, <2>3, PassedOver
  <2>5. ReadWhole(NoEntries, log, 0)
    <3>1. Listed(<<>>, 0)
      <4>1. <<>> = [q \in 1..0 |-> <<>>[q]]
        BY 1..0 = {}
      <4>. QED
        BY <4>1, Zenon DEF Listed
    <3>2. NoEntries.entries = <<>> /\ NoEntries = [entries |-> NoEntries.entries, current |-> 0]
      BY DEF NoEntries
    <3>3. 1..0 = {}
      OBVIOUS
    <3>. QED
      BY <3>1, <3>2, <3>3 DEF ReadWhole
  <2>6. at[0 + 1] = 1 /\ 0 \in 0..n
    BY <1>6
  <2>7. ReadWhole(g[at[0 + 1]], log, 0)
    BY <2>4, <2>5, <2>6
  <2>. QED
    BY <2>6, <2>7
<1>8. ASSUME NEW i \in 1..n, i - 1 \in Done PROVE i \in Done
  <2>1. PICK m \in Nat : m = Len(log[i].more)
    BY <1>1 DEF LogShape
  <2>2. PICK a \in Nat : a = at[i]
    BY <1>6
  <2>3. at[i + 1] = a + m + 3 /\ a + m + 3 <= N
    BY <1>1, <1>3, <1>6, <2>1, <2>2 DEF LogPlaced
  <2>4. /\ lines[a + 1] = TimeLine(log[i]) /\ lines[a + 2] = DetailLine(log[i])
        /\ \A j \in 1..m : lines[a + 2 + j] = MoreLine(log[i], j)
        /\ lines[a + m + 3] = Blank
    BY <1>1, <1>3, <2>1, <2>2 DEF LogPlaced
  <2>5. ReadWhole(g[a], log, i - 1)
    <3>1. i - 1 + 1 = i
      OBVIOUS
    <3>. QED
      BY <1>8, <2>2, <3>1
  <2>6. g[a + 1] = Parsed(g[a], TimeLine(log[i])) /\ g[a + 2] = Parsed(g[a + 1], DetailLine(log[i]))
    <3>1. a + 1 \in 1..N /\ a + 1 - 1 = a /\ a + 2 \in 1..N /\ a + 2 - 1 = a + 1
      BY <2>3
    <3>. QED
      BY <1>5, <2>4, <3>1
  <2>7. ReadUpTo(g[a + 2], log, i, 0)
    BY <1>1, <2>5, <2>6, EntryStarts
  <2> DEFINE More == {j \in 0..m : ReadUpTo(g[a + 2 + j], log, i, j)}
  <2>8. 0 \in More
    <3>1. a + 2 + 0 = a + 2 /\ 0 \in 0..m
      OBVIOUS
    <3>. QED
      BY <2>7, <3>1
  <2>9. ASSUME NEW j \in 1..m, j - 1 \in More PROVE j \in More
    <3>1. ReadUpTo(g[a + 2 + (j - 1)], log, i, j - 1)
      BY <2>9
    <3>2. a + 2 + j \in 1..N /\ a + 2 + j - 1 = a + 2 + (j - 1) /\ j \in 0..m
      BY <2>3
    <3>3. g[a + 2 + j] = Parsed(g[a + 2 + (j - 1)], MoreLine(log[i], j))
      <4>1. PICK k : k = a + 2 + j /\ k \in 1..N /\ k - 1 = a + 2 + (j - 1) /\ lines[k] = MoreLine(log[i], j)
        BY <2>4, <3>2
      <4>2. g[k] = Parsed(g[k - 1], lines[k])
        BY <1>5, <4>1
      <4>. QED
        BY <4>1, <4>2, Zenon
    <3>4. PICK r : r = g[a + 2 + (j - 1)] /\ ReadUpTo(r, log, i, j - 1)
      BY <3>1
    <3>5. ReadUpTo(Parsed(r, MoreLine(log[i], j)), log, i, j)
      BY <1>1, <2>1, <3>4, EntryGoesOn
    <3>6. ReadUpTo(g[a + 2 + j], log, i, j)
      BY <3>3, <3>4, <3>5, Zenon
    <3>. QED
      BY <3>2, <3>6
  <2> HIDE DEF More
  <2>10. m \in More
    <3>1. \A j \in 0..m : j \in More
      BY <2>8, <2>9, Upward
    <3>. QED
      BY <3>1
  <2>11. ReadUpTo(g[a + 2 + m], log, i, m)
    BY <2>10 DEF More
  <2>12. g[a + m + 3] = g[a + 2 + m]
    <3>1. PICK k : k = a + m + 3 /\ k \in 1..N /\ k - 1 = a + 2 + m
      BY <2>3
    <3>2. g[k] = Parsed(g[k - 1], Blank)
      BY <1>5, <2>4, <3>1
    <3>. QED
      BY <3>1, <3>2, PassedOver, Zenon
  <2>13. ReadWhole(g[at[i + 1]], log, i)
    <3>1. PICK r : r = g[at[i + 1]] /\ ReadUpTo(r, log, i, m)
      BY <2>3, <2>11, <2>12
    <3>2. ReadWhole(r, log, i)
      BY <2>1, <3>1 DEF ReadUpTo, ReadWhole
    <3>. QED
      BY <3>1, <3>2
  <2>. QED
    BY <2>13
<1> HIDE DEF Done
<1>9. n \in Done
  <2>1. \A i \in 0..n : i \in Done
    BY <1>7, <1>8, Upward
  <2>. QED
    BY <2>1
<1>10. ReadWhole(g[N], log, n)
  BY <1>4, <1>9 DEF Done
<1>11. ParseLogEntries(lines) = g[N].entries
  BY <1>5, Zenon DEF ParseLogEntries
<1>. QED
  BY <1>1, <1>2, <1>10, <1>11

\* What was read of an entry is its detail and all its lines.
LEMMA TextsWhole ==
  ASSUME NEW entry, NEW m \in Nat, m = Len(entry.more), DOMAIN entry.more = 1..m
  PROVE  /\ Texts(entry, m) = <<entry.detail>> \o [j \in DOMAIN entry.more |-> entry.more[j].text]
         /\ FieldsOf(entry, m) = {entry.more[j].pair.key : j \in DOMAIN entry.more} \ {NoPair.key}
<1>1. PICK t : t = [j \in 1..m |-> entry.more[j].text]
  OBVIOUS
<1> DEFINE A == {t[x] : x \in 1..m} \cup {entry.detail}
<1>2. \A j \in 1..m : t[j] = entry.more[j].text /\ t[j] \in A
  BY <1>1
<1>3. t \in Seq(A) /\ Len(t) = m
  <2>1. Listed(t, m)
    BY <1>1 DEF Listed
  <2> HIDE DEF A
  <2>. QED
    BY <1>2, <2>1, ListedFacts
<1>4. PICK one : one = <<entry.detail>> /\ one \in Seq(A) /\ Len(one) = 1 /\ one[1] = entry.detail
  <2>1. entry.detail \in A
    OBVIOUS
  <2> HIDE DEF A
  <2>2. PICK d \in A : d = entry.detail
    BY <2>1
  <2>3. <<d>> \in Seq(A) /\ Len(<<d>>) = 1 /\ <<d>>[1] = d
    OBVIOUS
  <2>. QED
    BY <2>2, <2>3
<1> HIDE DEF A
<1>5. PICK u : u = one \o t
  OBVIOUS
<1>6. u \in Seq(A) /\ Len(u) = m + 1 /\ \A i \in 1..(m + 1) : u[i] = IF i = 1 THEN entry.detail ELSE entry.more[i - 1].text
  <2>1. /\ one \o t \in Seq(A) /\ Len(one \o t) = Len(one) + Len(t)
        /\ \A i \in 1..(Len(one) + Len(t)) : (one \o t)[i] = IF i <= Len(one) THEN one[i] ELSE t[i - Len(one)]
    BY <1>3, <1>4, ConcatProperties, Zenon
  <2>2. /\ u \in Seq(A) /\ Len(u) = 1 + m
        /\ \A i \in 1..(1 + m) : u[i] = IF i <= 1 THEN one[i] ELSE t[i - 1]
    BY <1>3, <1>4, <1>5, <2>1, Zenon
  <2>3. 1 + m = m + 1 /\ \A i \in 1..(1 + m) : (i <= 1 <=> i = 1) /\ (i # 1 => i - 1 \in 1..m)
    OBVIOUS
  <2>. QED
    BY <1>2, <1>4, <2>2, <2>3
<1>7. u = Texts(entry, m)
  <2>1. PICK v : v = Texts(entry, m)
    OBVIOUS
  <2>2. DOMAIN v = 1..(m + 1) /\ v = [i \in 1..(m + 1) |-> v[i]]
        /\ \A i \in 1..(m + 1) : v[i] = IF i = 1 THEN entry.detail ELSE entry.more[i - 1].text
    BY <2>1 DEF Texts
  <2>3. u = [i \in 1..(m + 1) |-> u[i]]
    BY <1>6
  <2>4. \A i \in 1..(m + 1) : u[i] = v[i]
    BY <1>6, <2>2
  <2>5. [i \in 1..(m + 1) |-> u[i]] = [i \in 1..(m + 1) |-> v[i]]
    BY <2>4
  <2>. QED
    BY <2>1, <2>2, <2>3, <2>5, Zenon
<1>8. FieldsOf(entry, m) = {entry.more[j].pair.key : j \in DOMAIN entry.more} \ {NoPair.key}
  BY DEF FieldsOf
<1>. QED
  BY <1>1, <1>4, <1>5, <1>7, <1>8, Zenon

\* A search returns the log as the device holds it.
LEMMA LogMade ==
  ASSUME NEW log \in Logs, SearchLogs(log)
  PROVE  LogWhole(call')
<1>1. LogShape(log)
  BY FormatsAssumption
<1>2. PICK r : ParseLogEntries(LogLines(log)) = r.entries /\ ReadWhole(r, log, Len(log))
  BY <1>1, LogRead
<1>3. call' = [op |-> "search_logs", log |-> log, entries |-> r.entries]
  BY <1>2, Zenon DEF SearchLogs, CalledAlone
<1>4. call'.log = log /\ call'.entries = r.entries
  BY <1>3
<1>5. PICK n \in Nat : n = Len(log) /\ DOMAIN log = 1..n
  BY <1>1 DEF LogShape
<1>6. Len(r.entries) = n
  <2>1. Listed(r.entries, n)
    BY <1>2, <1>5 DEF ReadWhole
  <2>. QED
    BY <2>1, ListedFacts
<1>7. ASSUME NEW i \in 1..n
      PROVE  LET entry == log[i]
                 texts == [j \in DOMAIN entry.more |-> entry.more[j].text]
             IN /\ r.entries[i].time = entry.time
                /\ r.entries[i].detail = <<entry.detail>> \o texts
                /\ {f.key : f \in r.entries[i].detail_fields} =
                     {entry.more[j].pair.key : j \in DOMAIN entry.more} \ {NoPair.key}
  <2>1. PICK m \in Nat : m = Len(log[i].more) /\ DOMAIN log[i].more = 1..m
    BY <1>1, <1>5 DEF LogShape
  <2>2. PICK e : e = r.entries[i] /\ ReadEntry(e, log[i], m)
    BY <1>2, <1>5, <2>1 DEF ReadWhole
  <2>3. e.time = log[i].time /\ e.detail = Texts(log[i], m)
        /\ {f.key : f \in e.detail_fields} = FieldsOf(log[i], m)
    BY <2>2 DEF ReadEntry
  <2>4. /\ Texts(log[i], m) = <<log[i].detail>> \o [j \in DOMAIN log[i].more |-> log[i].more[j].text]
        /\ FieldsOf(log[i], m) = {log[i].more[j].pair.key : j \in DOMAIN log[i].more} \ {NoPair.key}
    BY <2>1, TextsWhole
  <2>. QED
    BY <2>2, <2>3, <2>4, Zenon
<1> DEFINE Held(held, entries) ==
             /\ Len(entries) = Len(held)
             /\ \A i \in DOMAIN held :
                  LET entry == held[i]
                      texts == [j \in DOMAIN entry.more |-> entry.more[j].text]
                  IN /\ entries[i].time = entry.time
                     /\ entries[i].detail = <<entry.detail>> \o texts
                     /\ {f.key : f \in entries[i].detail_fields} =
                          {entry.more[j].pair.key : j \in DOMAIN entry.more} \ {NoPair.key}
<1>8. Held(log, r.entries)
  BY <1>5, <1>6, <1>7, Zenon
<1>9. Held(call'.log, call'.entries) => LogWhole(call')
  BY Zenon DEF LogWhole
<1> HIDE DEF Held
<1>. QED
  BY <1>4, <1>8, <1>9

(***************************************************************************)
(* What is read is whole.                                                  *)
(***************************************************************************)

\* What the call made last returned, but for the exposure.
ReadInv == LogWhole(call) /\ RecordingsWhole(call) /\ DisksWhole(call) /\ ClipWhole(call)

\* Every call that reads returns what the device holds, and no other call claims to.
LEMMA ReadStep ==
  ASSUME ReadInv, [Next]_vars
  PROVE  ReadInv'
<1>1. ASSUME NEW params \in Params, SetConfig(params) PROVE ReadInv'
  <2>1. call'.op = "set_config"
    BY <1>1 DEF SetConfig, CalledAlone
  <2>. QED
    BY <2>1 DEF ReadInv, LogWhole, RecordingsWhole, DisksWhole, ClipWhole
<1>2. ASSUME NEW channel \in Channels, NEW slowest \in Speeds, NEW fastest \in Fastest,
             NEW chosen \in ProfileSets, SetShutterRange(slowest, fastest, channel, chosen)
      PROVE  ReadInv'
  <2>1. call'.op = "set_shutter_range"
    BY <1>2 DEF SetShutterRange, Called
  <2>. QED
    BY <2>1 DEF ReadInv, LogWhole, RecordingsWhole, DisksWhole, ClipWhole
<1>3. ASSUME NEW channel \in Channels, NEW chosen \in ProfileSets, SetExposureAuto(channel, chosen)
      PROVE  ReadInv'
  <2>1. call'.op = "set_exposure_auto"
    BY <1>3 DEF SetExposureAuto, Called
  <2>. QED
    BY <2>1 DEF ReadInv, LogWhole, RecordingsWhole, DisksWhole, ClipWhole
<1>4. ASSUME NEW channel \in Channels, GetExposure(channel) PROVE ReadInv'
  <2>1. call'.op = "get_exposure"
    BY <1>4 DEF GetExposure, Called
  <2>. QED
    BY <2>1 DEF ReadInv, LogWhole, RecordingsWhole, DisksWhole, ClipWhole
<1>5. ASSUME NEW log \in Logs, SearchLogs(log) PROVE ReadInv'
  <2>1. call'.op = "search_logs"
    BY <1>5 DEF SearchLogs, CalledAlone
  <2>2. LogWhole(call')
    BY <1>5, LogMade
  <2>. QED
    BY <2>1, <2>2 DEF ReadInv, RecordingsWhole, DisksWhole, ClipWhole
<1>6. ASSUME NEW lines \in Listings, FindRecordings(lines) PROVE ReadInv'
  <2>1. call'.op = "find_recordings"
    BY <1>6 DEF FindRecordings, CalledAlone
  <2>2. RecordingsWhole(call')
    BY <1>6, RecordingsMade
  <2>. QED
    BY <2>1, <2>2 DEF ReadInv, LogWhole, DisksWhole, ClipWhole
<1>7. ASSUME NEW lines \in Storages, GetStorageInfo(lines) PROVE ReadInv'
  <2>1. call'.op = "get_storage_info"
    BY <1>7 DEF GetStorageInfo, CalledAlone
  <2>2. DisksWhole(call')
    BY <1>7, DisksMade
  <2>. QED
    BY <2>1, <2>2 DEF ReadInv, LogWhole, RecordingsWhole, ClipWhole
<1>8. ASSUME NEW channel \in 0..1, NEW start \in 1..2, NEW end \in 1..2, NEW load \in Loads,
             DownloadClip(channel, start, end, load)
      PROVE  ReadInv'
  <2>1. call'.op = "download_clip"
    BY <1>8 DEF DownloadClip, CalledAlone
  <2>2. ClipWhole(call')
    BY <1>8, ClipMade
  <2>. QED
    BY <2>1, <2>2 DEF ReadInv, LogWhole, RecordingsWhole, DisksWhole
<1>9. CASE UNCHANGED vars
  <2>1. call' = call
    BY <1>9 DEF vars
  <2>. QED
    BY <2>1 DEF ReadInv
<1>. QED
  BY <1>1, <1>2, <1>3, <1>4, <1>5, <1>6, <1>7, <1>8, <1>9 DEF Next

\* ReadsAreWhole, for every log, listing, storage and load: what a reading call
\* returns is what the device holds, up to the two digits of a shutter.
THEOREM ReadsWhole == Spec => []ReadsAreWhole
<1>1. Init => ReadInv
  <2>1. Init => call.op = "none"
    BY DEF Init
  <2>. QED
    BY <2>1 DEF ReadInv, LogWhole, RecordingsWhole, DisksWhole, ClipWhole
<1>2. ReadInv /\ [Next]_vars => ReadInv'
  BY ReadStep
<1>3. ExposureInv /\ ReadInv => ReadsAreWhole
  BY ExposureRead DEF ReadInv, ReadsAreWhole
<1>. QED
  BY <1>1, <1>2, <1>3, ExposureInvariant, PTL DEF Spec

(***************************************************************************)
(* Texts.                                                                  *)
(***************************************************************************)

Pairs == [key : Keys, value : Seq(Char)]

\* What is sent for a text.
Sent(text) == IF text = <<>> THEN <<" ">> ELSE text

\* A part of a query: a key, "=", and what is sent for the text.
PartLen(pair) == Len(Sent(pair.value)) + 2
PartChar(pair, x) == IF x = 1 THEN pair.key ELSE IF x = 2 THEN "=" ELSE Sent(pair.value)[x - 2]

\* What is written of a query: nothing that would not arrive.
Arrives == {q \in [char : Keys \cup Char, encoded : BOOLEAN] : q.encoded \/ q.char \notin {"#", "+", "%"}}

\* The parts but the first come after a "&".
Skip(i) == IF i = 1 THEN 0 ELSE 1
Opening(i, pair) == IF i = 1 THEN <<pair.key, "=">> ELSE <<"&", pair.key, "=">>
Piece(i, pair) == Literally(Opening(i, pair)) \o EncodeConfigValue(pair.value)

\* What is sent for a text is not empty, and has a "&" only if the text does.
LEMMA SentFacts ==
  ASSUME NEW text \in Seq(Char)
  PROVE  /\ Sent(text) \in Seq(Char) /\ Len(Sent(text)) \in Nat \ {0}
         /\ "&" \notin Range(text) => \A x \in 1..Len(Sent(text)) : Sent(text)[x] # "&"
<1>1. CASE text = <<>>
  <2>1. PICK c \in Char : c = " " /\ c # "&"
    BY DEF Char, Special
  <2>2. PICK s : s = <<c>>
    OBVIOUS
  <2>3. s \in Seq(Char) /\ Len(s) = 1 /\ s[1] = c
    BY <2>2
  <2>4. Sent(text) = s
    BY <1>1, <2>1, <2>2 DEF Sent
  <2>5. \A x \in 1..Len(s) : s[x] # "&"
    <3>1. \A x \in 1..1 : x = 1
      OBVIOUS
    <3>. QED
      BY <2>1, <2>3, <3>1
  <2>6. Len(s) \in Nat \ {0}
    BY <2>3
  <2>. QED
    BY <2>3, <2>4, <2>5, <2>6
<1>2. CASE text # <<>>
  <2>1. Sent(text) = text
    BY <1>2 DEF Sent
  <2>2. Len(text) \in Nat \ {0} /\ DOMAIN text = 1..Len(text)
    BY <1>2
  <2>3. "&" \notin Range(text) => \A x \in 1..Len(text) : text[x] # "&"
    BY <2>2 DEF Range
  <2>. QED
    BY <2>1, <2>2, <2>3
<1>. QED
  BY <1>1, <1>2

\* A piece of a query arrives, and has the characters of a part, after a "&" or not.
LEMMA PieceFacts ==
  ASSUME NEW i \in Nat \ {0}, NEW pair \in Pairs
  PROVE  /\ Piece(i, pair) \in Seq(Arrives)
         /\ Len(Piece(i, pair)) = Skip(i) + PartLen(pair)
         /\ \A x \in 1..PartLen(pair) : Piece(i, pair)[Skip(i) + x].char = PartChar(pair, x)
         /\ i # 1 => Piece(i, pair)[1].char = "&"
<1>1. pair.key \in Keys /\ pair.value \in Seq(Char)
  BY DEF Pairs
<1>2. PICK s \in Seq(Char) : s = Sent(pair.value)
  BY <1>1, SentFacts
<1>3. PICK m \in Nat \ {0} : m = Len(s)
  BY <1>1, <1>2, SentFacts
<1>4. PICK b \in {0, 1} : b = Skip(i) /\ (b = 0 <=> i = 1)
  BY DEF Skip
<1>5. PICK h : h = Opening(i, pair)
  OBVIOUS
<1>6. /\ DOMAIN h = 1..(b + 2) /\ h[b + 1] = pair.key /\ h[b + 2] = "=" /\ (b = 1 => h[1] = "&")
  <2>1. CASE i = 1
    <3>1. h = <<pair.key, "=">>
      BY <1>5, <2>1 DEF Opening
    <3>2. DOMAIN h = 1..2 /\ h[1] = pair.key /\ h[2] = "="
      BY <3>1
    <3>3. b = 0 /\ b + 1 = 1 /\ b + 2 = 2
      BY <1>4, <2>1
    <3>. QED
      BY <3>2, <3>3
  <2>2. CASE i # 1
    <3>1. h = <<"&", pair.key, "=">>
      BY <1>5, <2>2 DEF Opening
    <3>2. DOMAIN h = 1..3 /\ h[1] = "&" /\ h[2] = pair.key /\ h[3] = "="
      BY <3>1
    <3>3. b = 1 /\ b + 1 = 2 /\ b + 2 = 3
      BY <1>4, <2>2
    <3>. QED
      BY <3>2, <3>3
  <2>. QED
    BY <2>1, <2>2
<1>7. PICK lit : lit = Literally(h)
  OBVIOUS
<1>8. /\ lit \in Seq(Arrives) /\ Len(lit) = b + 2
      /\ \A x \in 1..(b + 2) : lit[x].char = h[x]
  <2>1. lit = [x \in 1..(b + 2) |-> [char |-> h[x], encoded |-> FALSE]]
    BY <1>6, <1>7 DEF Literally
  <2>2. ASSUME NEW x \in 1..(b + 2) PROVE lit[x] \in Arrives /\ lit[x].char = h[x]
    <3>1. h[x] \in Keys \cup {"&", "="}
      <4>1. x = b + 1 \/ x = b + 2 \/ (b = 1 /\ x = 1)
        OBVIOUS
      <4>. QED
        BY <1>1, <1>6, <4>1
    <3>2. h[x] \in Keys \cup Char /\ h[x] \notin {"#", "+", "%"}
      BY <3>1, ConfigAssumption DEF Char, Special
    <3>3. PICK q : q = [char |-> h[x], encoded |-> FALSE]
      OBVIOUS
    <3>4. q \in Arrives /\ q.char = h[x]
      BY <3>2, <3>3 DEF Arrives
    <3>. QED
      BY <2>1, <3>3, <3>4
  <2>3. Listed(lit, b + 2) /\ b + 2 \in Nat
    BY <2>1 DEF Listed
  <2>. QED
    BY <2>2, <2>3, ListedFacts
<1>9. PICK enc : enc = EncodeConfigValue(pair.value)
  OBVIOUS
<1>10. enc \in Seq(Arrives) /\ Len(enc) = m /\ \A x \in 1..m : enc[x].char = s[x]
  <2>1. DOMAIN s = 1..m /\ \A x \in 1..m : s[x] \in Char
    BY <1>3
  <2>2. enc = [x \in 1..m |-> [char |-> s[x], encoded |-> s[x] \notin Safe]]
    <3>1. enc = [x \in DOMAIN s |-> [char |-> s[x], encoded |-> s[x] \notin Safe]]
      BY <1>2, <1>9, Zenon DEF EncodeConfigValue, Sent
    <3>. QED
      BY <2>1, <3>1
  <2>3. ASSUME NEW x \in 1..m PROVE enc[x] \in Arrives /\ enc[x].char = s[x]
    <3>1. PICK q : q = [char |-> s[x], encoded |-> s[x] \notin Safe]
      OBVIOUS
    <3>2. enc[x] = q
      BY <2>2, <3>1
    <3>3. q.char = s[x] /\ q.encoded = (s[x] \notin Safe) /\ q \in [char : Keys \cup Char, encoded : BOOLEAN]
      BY <2>1, <3>1
    <3>4. ~q.encoded => q.char \notin {"#", "+", "%"}
      BY <3>3 DEF Safe
    <3>. QED
      BY <3>2, <3>3, <3>4 DEF Arrives
  <2>4. Listed(enc, m)
    BY <2>2 DEF Listed
  <2>. QED
    BY <2>3, <2>4, ListedFacts
<1>11. PICK u : u = lit \o enc
  OBVIOUS
<1>12. /\ u \in Seq(Arrives) /\ Len(u) = b + 2 + m
       /\ \A x \in 1..(b + 2 + m) : u[x] = IF x <= b + 2 THEN lit[x] ELSE enc[x - (b + 2)]
  <2>1. /\ lit \o enc \in Seq(Arrives) /\ Len(lit \o enc) = Len(lit) + Len(enc)
        /\ \A x \in 1..(Len(lit) + Len(enc)) :
             (lit \o enc)[x] = IF x <= Len(lit) THEN lit[x] ELSE enc[x - Len(lit)]
    BY <1>8, <1>10, ConcatProperties, Zenon
  <2>. QED
    BY <1>8, <1>10, <1>11, <2>1, Zenon
<1>13. Piece(i, pair) = u
  BY <1>5, <1>7, <1>9, <1>11, Zenon DEF Piece
<1>14. PartLen(pair) = m + 2
  BY <1>2, <1>3 DEF PartLen
<1>15. ASSUME NEW x \in 1..(m + 2) PROVE u[b + x].char = PartChar(pair, x)
  <2>1. PICK y : y = b + x
    OBVIOUS
  <2>2. y \in 1..(b + 2 + m)
    BY <2>1
  <2>3. u[y] = IF y <= b + 2 THEN lit[y] ELSE enc[y - (b + 2)]
    BY <1>12, <2>2
  <2>4. CASE x = 1 \/ x = 2
    <3>1. y <= b + 2 /\ y \in 1..(b + 2)
      BY <2>1, <2>4
    <3>2. u[y].char = h[y]
      BY <1>8, <2>3, <3>1
    <3>3. h[y] = PartChar(pair, x)
      <4>1. CASE x = 1
        <5>1. h[y] = pair.key
          BY <1>6, <2>1, <4>1
        <5>. QED
          BY <4>1, <5>1 DEF PartChar
      <4>2. CASE x = 2
        <5>1. h[y] = "="
          BY <1>6, <2>1, <4>2
        <5>. QED
          BY <4>2, <5>1 DEF PartChar
      <4>. QED
        BY <2>4, <4>1, <4>2
    <3>. QED
      BY <2>1, <3>2, <3>3
  <2>5. CASE ~(x = 1 \/ x = 2)
    <3>1. ~(y <= b + 2) /\ y - (b + 2) = x - 2 /\ x - 2 \in 1..m
      BY <2>1, <2>5
    <3>2. PICK z \in 1..m : z = x - 2 /\ z = y - (b + 2)
      BY <3>1
    <3>3. u[y] = enc[z]
      BY <2>3, <3>1, <3>2
    <3>4. enc[z].char = s[z]
      BY <1>10
    <3>5. PartChar(pair, x) = s[z]
      BY <1>2, <2>5, <3>2 DEF PartChar
    <3>. QED
      BY <2>1, <3>3, <3>4, <3>5
  <2>. QED
    BY <2>4, <2>5
<1>16. i # 1 => u[1].char = "&"
  <2>1. ASSUME i # 1 PROVE u[1].char = "&"
    <3>1. b = 1 /\ 1 \in 1..(b + 2 + m) /\ 1 <= b + 2 /\ 1 \in 1..(b + 2)
      BY <1>4, <2>1
    <3>. QED
      BY <1>6, <1>8, <1>12, <3>1
  <2>. QED
    BY <2>1
<1>17. Len(u) = b + (m + 2)
  BY <1>12
<1>. QED
  BY <1>4, <1>12, <1>13, <1>14, <1>15, <1>16, <1>17

\* Where the parts of a query are in the text that the device makes of it: the
\* ith of n begins after place at[i].
QueryPlaced(params, n, text, at) ==
  /\ at \in [1..(n + 1) -> Nat] /\ at[1] = 0 /\ DOMAIN text = 1..(at[n + 1])
  /\ \A i \in 1..n :
       /\ at[i + 1] = at[i] + (Skip(i) + PartLen(params[i])) /\ at[i + 1] <= at[n + 1]
       /\ \A x \in 1..PartLen(params[i]) : text[at[i] + (Skip(i) + x)] = PartChar(params[i], x)
       /\ i # 1 => text[at[i] + 1] = "&"

\* A query arrives whole: nothing that is in it cuts it short or stops it.
LEMMA QueryArrives ==
  ASSUME NEW params \in Seq(Pairs), NEW n \in Nat, n = Len(params)
  PROVE  /\ Decodable(BuildConfigQuery(params))
         /\ \E at : QueryPlaced(params, n, Decoded(Carried(BuildConfigQuery(params))), at)
<1> DEFINE seqs == [i \in DOMAIN params |-> Piece(i, params[i])]
<1>1. DOMAIN params = 1..n /\ \A i \in 1..n : params[i] \in Pairs
  OBVIOUS
<1>2. ASSUME NEW i \in 1..n
      PROVE  /\ seqs[i] \in Seq(Arrives)
             /\ Len(seqs[i]) = Skip(i) + PartLen(params[i])
             /\ \A x \in 1..PartLen(params[i]) : seqs[i][Skip(i) + x].char = PartChar(params[i], x)
             /\ i # 1 => seqs[i][1].char = "&"
  <2>1. seqs[i] = Piece(i, params[i]) /\ i \in Nat \ {0} /\ params[i] \in Pairs
    BY <1>1
  <2> HIDE DEF seqs
  <2>. QED
    BY <2>1, PieceFacts
<1>3. seqs \in [1..n -> Seq(Arrives)]
  BY <1>1, <1>2
<1>4. BuildConfigQuery(params) = FlattenSeq(seqs)
  BY DEF BuildConfigQuery, Piece, Opening
<1> HIDE DEF seqs
<1>5. PICK at : SectionsAt(n, Arrives, seqs, at)
  BY <1>3, FlattenPlaces
<1>6. PICK query : query = BuildConfigQuery(params)
  OBVIOUS
<1>7. PICK N \in Nat : N = at[n + 1]
  BY <1>5 DEF SectionsAt
<1>8. query \in Seq(Arrives) /\ Len(query) = N /\ DOMAIN query = 1..N
  BY <1>4, <1>5, <1>6, <1>7 DEF SectionsAt
<1>9. \A l \in 1..N : query[l] \in Arrives
  BY <1>8
<1>10. \A q \in Arrives : \A c : q = [char |-> c, encoded |-> FALSE] => c \notin {"#", "+", "%"}
  BY DEF Arrives
<1>11. Decodable(query)
  BY <1>8, <1>9, <1>10 DEF Decodable
<1>12. Carried(query) = query
  <2>1. {l \in DOMAIN query : query[l] = [char |-> "#", encoded |-> FALSE]} = {}
    BY <1>8, <1>9, <1>10
  <2>. QED
    BY <2>1, Zenon DEF Carried
<1>13. PICK text : text = Decoded(query)
  OBVIOUS
<1>14. DOMAIN text = 1..N /\ \A l \in 1..N : text[l] = query[l].char
  <2>1. \A l \in 1..N : query[l] # [char |-> "+", encoded |-> FALSE]
    BY <1>9, <1>10
  <2>. QED
    BY <1>8, <1>13, <2>1 DEF Decoded
<1>15. \A i \in 1..n : \A j \in 1..Len(seqs[i]) : at[i] + j \in 1..N /\ query[at[i] + j] = seqs[i][j]
  BY <1>4, <1>5, <1>6, <1>7, <1>8 DEF SectionsAt
<1>16. ASSUME NEW i \in 1..n
       PROVE  /\ at[i + 1] = at[i] + (Skip(i) + PartLen(params[i])) /\ at[i + 1] <= N
              /\ \A x \in 1..PartLen(params[i]) : text[at[i] + (Skip(i) + x)] = PartChar(params[i], x)
              /\ i # 1 => text[at[i] + 1] = "&"
  <2>1. PICK m \in Nat \ {0} : m = PartLen(params[i])
    <3>1. Len(Sent(params[i].value)) \in Nat
      BY <1>1, SentFacts DEF Pairs
    <3>2. PICK k \in Nat : k = Len(Sent(params[i].value))
      BY <3>1
    <3>3. k + 2 \in Nat \ {0} /\ PartLen(params[i]) = k + 2
      BY <3>2 DEF PartLen
    <3>. QED
      BY <3>3
  <2>2. PICK b \in {0, 1} : b = Skip(i)
    BY DEF Skip
  <2>3. Len(seqs[i]) = b + m
    BY <1>2, <2>1, <2>2
  <2>4. PICK a \in Nat : a = at[i]
    BY <1>5 DEF SectionsAt
  <2>5. at[i + 1] = a + (b + m)
    BY <1>5, <2>3, <2>4 DEF SectionsAt
  <2>6. a + (b + m) \in 1..N
    <3>1. b + m \in 1..(b + m)
      OBVIOUS
    <3>. QED
      BY <1>15, <2>3, <2>4, <3>1
  <2>7. ASSUME NEW x \in 1..m PROVE text[a + (b + x)] = PartChar(params[i], x)
    <3>1. PICK j : j = b + x /\ j \in 1..(b + m)
      OBVIOUS
    <3>2. a + j \in 1..N /\ query[a + j] = seqs[i][j]
      BY <1>15, <2>3, <2>4, <3>1
    <3>3. seqs[i][j].char = PartChar(params[i], x)
      BY <1>2, <2>1, <2>2, <3>1
    <3>. QED
      BY <1>14, <3>1, <3>2, <3>3
  <2>8. ASSUME i # 1 PROVE text[a + 1] = "&"
    <3>1. 1 \in 1..(b + m)
      OBVIOUS
    <3>2. a + 1 \in 1..N /\ query[a + 1] = seqs[i][1]
      BY <1>15, <2>3, <2>4, <3>1
    <3>. QED
      BY <1>2, <1>14, <2>8, <3>2
  <2>9. at[i + 1] <= N
    BY <2>5, <2>6
  <2>. QED
    BY <2>1, <2>2, <2>4, <2>5, <2>7, <2>8, <2>9, Zenon
<1>17. QueryPlaced(params, n, text, at)
  <2>1. at \in [1..(n + 1) -> Nat] /\ at[1] = 0
    BY <1>5 DEF SectionsAt
  <2>. QED
    BY <1>7, <1>14, <1>16, <2>1, Zenon DEF QueryPlaced
<1>. QED
  BY <1>6, <1>11, <1>12, <1>13, <1>17, Zenon

\* The beginning of a part.
Upto(pair, j) == [x \in 1..j |-> PartChar(pair, x)]

\* The query has been split up to the jth character of part i.
SplitUpTo(parts, params, i, j) ==
  /\ Listed(parts, i)
  /\ \A q \in 1..i : parts[q] = Upto(params[q], IF q = i THEN j ELSE PartLen(params[q]))

\* What is appended is the last element.
LEMMA AppendLast ==
  ASSUME NEW k \in Nat, NEW t, Listed(t, k), NEW e
  PROVE  Append(t, e) = EndsIn(t, k + 1, e)
<1> DEFINE A == {t[x] : x \in 1..k} \cup {e}
<1>1. \A x \in 1..k : t[x] \in A
  OBVIOUS
<1>2. e \in A
  OBVIOUS
<1> HIDE DEF A
<1>3. t \in Seq(A) /\ Len(t) = k
  BY <1>1, ListedFacts
<1>4. PICK u : u = Append(t, e)
  OBVIOUS
<1>5. u \in Seq(A) /\ Len(u) = k + 1 /\ (\A x \in 1..k : u[x] = t[x]) /\ u[k + 1] = e
  BY <1>2, <1>3, <1>4, AppendProperties
<1>6. PICK v : v = EndsIn(t, k + 1, e)
  OBVIOUS
<1>7. DOMAIN v = 1..(k + 1) /\ v = [x \in 1..(k + 1) |-> v[x]]
      /\ \A x \in 1..(k + 1) : v[x] = IF x = k + 1 THEN e ELSE t[x]
  BY <1>6 DEF EndsIn
<1>8. u = [x \in 1..(k + 1) |-> u[x]]
  BY <1>5
<1>9. \A x \in 1..(k + 1) : u[x] = v[x]
  BY <1>5, <1>7
<1>10. [x \in 1..(k + 1) |-> u[x]] = [x \in 1..(k + 1) |-> v[x]]
  BY <1>9
<1>. QED
  BY <1>4, <1>6, <1>7, <1>8, <1>10, Zenon

\* A character is put to the last part.
LEMMA SplitGoesOn ==
  ASSUME NEW params, NEW i \in Nat \ {0}, NEW j \in Nat \ {0}, NEW parts,
         SplitUpTo(parts, params, i, j - 1), PartChar(params[i], j) # "&"
  PROVE  SplitUpTo(SplitAt(parts, PartChar(params[i], j)), params, i, j)
<1>1. Listed(parts, i) /\ parts[i] = Upto(params[i], j - 1)
  BY DEF SplitUpTo
<1>2. DOMAIN parts = 1..i /\ Len(parts) = i
  BY <1>1, ListedFacts
<1>3. PICK c : c = PartChar(params[i], j)
  OBVIOUS
<1>4. Append(parts[i], c) = Upto(params[i], j)
  <2>1. PICK k \in Nat : k = j - 1 /\ j = k + 1
    OBVIOUS
  <2>2. Listed(Upto(params[i], k), k)
    <3>1. PICK t : t = Upto(params[i], k)
      OBVIOUS
    <3>2. t = [x \in 1..k |-> PartChar(params[i], x)]
      BY <3>1 DEF Upto
    <3>3. Listed(t, k)
      BY <3>2 DEF Listed
    <3>. QED
      BY <3>1, <3>3
  <2>3. Append(Upto(params[i], k), c) = EndsIn(Upto(params[i], k), k + 1, c)
    BY <2>2, AppendLast
  <2>4. EndsIn(Upto(params[i], k), k + 1, c) = Upto(params[i], k + 1)
    <3>1. \A x \in 1..(k + 1) : x # k + 1 => x \in 1..k
      OBVIOUS
    <3>2. \A x \in 1..(k + 1) : (IF x = k + 1 THEN c ELSE Upto(params[i], k)[x]) = PartChar(params[i], x)
      BY <1>3, <2>1, <3>1 DEF Upto
    <3>. QED
      BY <3>2 DEF EndsIn, Upto
  <2>. QED
    BY <1>1, <2>1, <2>3, <2>4, Zenon
<1>5. SplitAt(parts, c) = [parts EXCEPT ![i] = Append(parts[i], c)]
  BY <1>2, <1>3, Zenon DEF SplitAt
<1>6. PICK w : w = SplitAt(parts, c)
  OBVIOUS
<1>7. DOMAIN w = 1..i /\ w[i] = Upto(params[i], j) /\ w = [q \in 1..i |-> w[q]]
      /\ \A q \in 1..i : q # i => w[q] = parts[q]
  <2>1. w = [q \in 1..i |-> IF q = i THEN Append(parts[i], c) ELSE parts[q]]
    BY <1>2, <1>5, <1>6
  <2>. QED
    BY <1>4, <2>1
<1>8. ASSUME NEW q \in 1..i
      PROVE  w[q] = Upto(params[q], IF q = i THEN j ELSE PartLen(params[q]))
  BY <1>7 DEF SplitUpTo
<1>9. Listed(w, i)
  BY <1>7, Zenon DEF Listed
<1>. QED
  BY <1>3, <1>6, <1>8, <1>9 DEF SplitUpTo

\* A "&" starts the next part.
LEMMA SplitStarts ==
  ASSUME NEW params, NEW i \in Nat \ {0}, NEW parts,
         SplitUpTo(parts, params, i, PartLen(params[i]))
  PROVE  SplitUpTo(SplitAt(parts, "&"), params, i + 1, 0)
<1>1. Listed(parts, i)
  BY DEF SplitUpTo
<1>2. SplitAt(parts, "&") = EndsIn(parts, i + 1, <<>>)
  BY <1>1, AppendLast DEF SplitAt
<1>3. PICK w : w = EndsIn(parts, i + 1, <<>>)
  OBVIOUS
<1>4. Listed(w, i + 1) /\ \A q \in 1..(i + 1) : w[q] = IF q = i + 1 THEN <<>> ELSE parts[q]
  BY <1>3 DEF Listed, EndsIn
<1>5. \A pair : Upto(pair, 0) = <<>>
  BY 1..0 = {} DEF Upto
<1>6. ASSUME NEW q \in 1..(i + 1)
      PROVE  w[q] = Upto(params[q], IF q = i + 1 THEN 0 ELSE PartLen(params[q]))
  <2>1. CASE q = i + 1
    BY <1>4, <1>5, <2>1
  <2>2. CASE q # i + 1
    <3>1. q \in 1..i
      BY <2>2
    <3>2. parts[q] = Upto(params[q], PartLen(params[q]))
      BY <3>1 DEF SplitUpTo
    <3>. QED
      BY <1>4, <2>2, <3>2
  <2>. QED
    BY <2>1, <2>2
<1>. QED
  BY <1>2, <1>3, <1>4, <1>6 DEF SplitUpTo

\* The query is split into its parts.
LEMMA SplitParts ==
  ASSUME NEW params, NEW n \in Nat \ {0}, NEW text, NEW at, QueryPlaced(params, n, text, at),
         \A i \in 1..n : /\ PartLen(params[i]) \in Nat
                         /\ \A x \in 1..PartLen(params[i]) : PartChar(params[i], x) # "&"
  PROVE  SplitUpTo(Split(text), params, n, PartLen(params[n]))
<1>1. PICK N \in Nat : N = at[n + 1] /\ DOMAIN text = 1..N
  BY DEF QueryPlaced
<1>2. PICK g : /\ g[0] = <<<<>>>>
               /\ \A k \in 1..N : g[k] = SplitAt(g[k - 1], text[k])
               /\ Split(text) = g[N]
  BY <1>1, SplitSteps
<1>3. ASSUME NEW i \in 1..n, NEW a \in Nat, a = at[i] + Skip(i), SplitUpTo(g[a], params, i, 0)
      PROVE  at[i + 1] = a + PartLen(params[i]) /\ SplitUpTo(g[at[i + 1]], params, i, PartLen(params[i]))
  <2>1. PICK m \in Nat : m = PartLen(params[i])
    OBVIOUS
  <2>2. at[i + 1] = a + m
    <3>1. PICK c \in Nat : c = at[i]
      BY DEF QueryPlaced
    <3>2. PICK b \in {0, 1} : b = Skip(i)
      BY DEF Skip
    <3>3. at[i + 1] = c + (b + m)
      BY <2>1, <3>1, <3>2 DEF QueryPlaced
    <3>. QED
      BY <1>3, <3>1, <3>2, <3>3
  <2>3. a + m <= N
    BY <1>1, <2>2 DEF QueryPlaced
  <2>4. ASSUME NEW x \in 1..m PROVE text[a + x] = PartChar(params[i], x)
    <3>1. PICK c \in Nat : c = at[i]
      BY DEF QueryPlaced
    <3>2. PICK b \in {0, 1} : b = Skip(i)
      BY DEF Skip
    <3>3. c + (b + x) = a + x
      BY <1>3, <3>1, <3>2
    <3>4. text[c + (b + x)] = PartChar(params[i], x)
      BY <2>1, <3>1, <3>2 DEF QueryPlaced
    <3>. QED
      BY <3>3, <3>4
  <2> DEFINE Done == {j \in 0..m : SplitUpTo(g[a + j], params, i, j)}
  <2>5. 0 \in Done
    <3>1. a + 0 = a /\ 0 \in 0..m
      OBVIOUS
    <3>. QED
      BY <1>3, <3>1
  <2>6. ASSUME NEW j \in 1..m, j - 1 \in Done PROVE j \in Done
    <3>1. PICK k : k = a + j /\ k \in 1..N /\ k - 1 = a + (j - 1)
      BY <2>3
    <3>2. g[k] = SplitAt(g[k - 1], PartChar(params[i], j))
      BY <1>2, <2>4, <3>1
    <3>3. PICK parts : parts = g[k - 1] /\ SplitUpTo(parts, params, i, j - 1)
      BY <2>6, <3>1
    <3>4. i \in Nat \ {0} /\ j \in Nat \ {0} /\ PartChar(params[i], j) # "&"
      BY <2>1
    <3>5. SplitUpTo(SplitAt(parts, PartChar(params[i], j)), params, i, j)
      BY <3>3, <3>4, SplitGoesOn
    <3>6. SplitUpTo(g[a + j], params, i, j)
      BY <3>1, <3>2, <3>3, <3>5
    <3>. QED
      BY <3>6
  <2> HIDE DEF Done
  <2>7. m \in Done
    <3>1. \A j \in 0..m : j \in Done
      BY <2>5, <2>6, Upward
    <3>. QED
      BY <3>1
  <2>. QED
    BY <2>1, <2>2, <2>7 DEF Done
<1> DEFINE Parts == {k \in 0..(n - 1) : SplitUpTo(g[at[k + 2]], params, k + 1, PartLen(params[k + 1]))}
<1>4. 0 \in Parts
  <2>1. 1 \in 1..n /\ at[1] = 0 /\ Skip(1) = 0 /\ 0 \in 0..(n - 1) /\ 0 + 2 = 1 + 1 /\ 0 + 1 = 1
    BY DEF QueryPlaced, Skip
  <2>2. SplitUpTo(g[0], params, 1, 0)
    <3>1. PICK w : w = <<<<>>>>
      OBVIOUS
    <3>2. Listed(w, 1) /\ w[1] = <<>>
      <4>1. w = [q \in 1..1 |-> w[q]] /\ w[1] = <<>>
        BY <3>1
      <4>. QED
        BY <4>1, Zenon DEF Listed
    <3>3. \A q \in 1..1 : q = 1
      OBVIOUS
    <3>4. \A pair : Upto(pair, 0) = <<>>
      BY 1..0 = {} DEF Upto
    <3>5. SplitUpTo(w, params, 1, 0)
      BY <3>2, <3>3, <3>4 DEF SplitUpTo
    <3>. QED
      BY <1>2, <3>1, <3>5, Zenon
  <2>3. SplitUpTo(g[at[1 + 1]], params, 1, PartLen(params[1]))
    <3>1. PICK a \in Nat : a = 0 /\ a = at[1] + Skip(1)
      BY <2>1
    <3>. QED
      BY <1>3, <2>1, <2>2, <3>1
  <2>. QED
    BY <2>1, <2>3
<1>5. ASSUME NEW k \in 1..(n - 1), k - 1 \in Parts PROVE k \in Parts
  <2>1. PICK i \in 1..n : i = k + 1 /\ i # 1 /\ i - 1 = k /\ i - 1 \in 1..n
    OBVIOUS
  <2>2. PICK c \in Nat : c = at[i]
    BY DEF QueryPlaced
  <2>3. SplitUpTo(g[c], params, k, PartLen(params[k]))
    <3>1. k - 1 + 2 = i /\ k - 1 + 1 = k
      BY <2>1
    <3>2. SplitUpTo(g[at[k - 1 + 2]], params, k - 1 + 1, PartLen(params[k - 1 + 1]))
      BY <1>5
    <3>. QED
      BY <2>2, <3>1, <3>2
  <2>4. text[c + 1] = "&"
    BY <2>1, <2>2 DEF QueryPlaced
  <2>5. c + 1 \in 1..N
    <3>1. PICK m \in Nat : m = PartLen(params[i])
      OBVIOUS
    <3>2. Skip(i) = 1
      BY <2>1 DEF Skip
    <3>3. at[i + 1] = c + (1 + m) /\ at[i + 1] <= N
      BY <1>1, <2>2, <3>1, <3>2 DEF QueryPlaced
    <3>. QED
      BY <3>3
  <2>6. SplitUpTo(g[c + 1], params, i, 0)
    <3>1. PICK l : l = c + 1 /\ l \in 1..N /\ l - 1 = c
      BY <2>5
    <3>2. g[l] = SplitAt(g[c], "&")
      BY <1>2, <2>4, <3>1
    <3>3. PICK parts : parts = g[c] /\ SplitUpTo(parts, params, k, PartLen(params[k]))
      BY <2>3
    <3>4. k \in Nat \ {0}
      OBVIOUS
    <3>5. SplitUpTo(SplitAt(parts, "&"), params, k + 1, 0)
      BY <3>3, <3>4, SplitStarts
    <3>. QED
      BY <2>1, <3>1, <3>2, <3>3, <3>5
  <2>7. c + 1 = at[i] + Skip(i)
    BY <2>1, <2>2 DEF Skip
  <2>8. SplitUpTo(g[at[i + 1]], params, i, PartLen(params[i]))
    BY <1>3, <2>6, <2>7
  <2>9. i + 1 = k + 2 /\ i = k + 1 /\ k \in 0..(n - 1)
    BY <2>1
  <2>. QED
    BY <2>8, <2>9
<1> HIDE DEF Parts
<1>6. n - 1 \in Parts
  <2>1. PICK l \in Nat : l = n - 1
    OBVIOUS
  <2>2. \A k \in 0..l : k \in Parts
    BY <1>4, <1>5, <2>1, Upward
  <2>. QED
    BY <2>1, <2>2
<1>7. n - 1 + 2 = n + 1 /\ n - 1 + 1 = n
  OBVIOUS
<1>8. SplitUpTo(g[at[n + 1]], params, n, PartLen(params[n]))
  BY <1>6, <1>7 DEF Parts
<1>. QED
  BY <1>1, <1>2, <1>8

\* A text that travels as a space is empty when it is trimmed.
LEMMA TrimSent ==
  ASSUME NEW text \in Seq(Char)
  PROVE  Trim(Sent(text)) = Trim(text)
<1>1. CASE text = <<>>
  <2>1. PICK s : s = <<" ">>
    OBVIOUS
  <2>2. Sent(text) = s
    BY <1>1, <2>1 DEF Sent
  <2>3. {i \in DOMAIN s : s[i] # " "} = {}
    <3>1. DOMAIN s = 1..1 /\ s[1] = " "
      <4>1. PICK c : c = " "
        OBVIOUS
      <4>2. s = <<c>>
        BY <2>1, <4>1
      <4>3. DOMAIN s = 1..1 /\ s[1] = c
        BY <4>2
      <4>. QED
        BY <4>1, <4>3
    <3>2. \A i \in 1..1 : i = 1
      OBVIOUS
    <3>. QED
      BY <3>1, <3>2
  <2>4. {i \in DOMAIN text : text[i] # " "} = {}
    BY <1>1
  <2>5. Trim(s) = <<>>
    BY <2>3, Zenon DEF Trim
  <2>6. Trim(text) = <<>>
    BY <2>4, Zenon DEF Trim
  <2>. QED
    BY <2>2, <2>5, <2>6
<1>2. CASE text # <<>>
  BY <1>2 DEF Sent
<1>. QED
  BY <1>1, <1>2

\* What the device takes a part for.
LEMMA PartFacts ==
  ASSUME NEW pair \in Pairs, NEW part, part = Upto(pair, PartLen(pair))
  PROVE  /\ Len(part) > 2 /\ part[1] = pair.key /\ part[2] = "="
         /\ Trim(SubSeq(part, 3, Len(part))) = Trim(pair.value)
<1>1. pair.key \in Keys /\ pair.value \in Seq(Char)
  BY DEF Pairs
<1>2. PICK s \in Seq(Char) : s = Sent(pair.value)
  BY <1>1, SentFacts
<1>3. PICK m \in Nat \ {0} : m = Len(s)
  BY <1>1, <1>2, SentFacts
<1>4. PICK n \in Nat : n = m + 2 /\ n = PartLen(pair)
  BY <1>2, <1>3 DEF PartLen
<1>5. part = [x \in 1..n |-> PartChar(pair, x)]
  BY <1>4 DEF Upto
<1>6. Len(part) = n /\ \A x \in 1..n : part[x] = PartChar(pair, x)
  BY <1>5
<1>7. part[1] = pair.key /\ part[2] = "="
  <2>1. 1 \in 1..n /\ 2 \in 1..n
    BY <1>4
  <2>. QED
    BY <1>6, <2>1 DEF PartChar
<1>8. ASSUME NEW i \in 3..n PROVE part[i] = s[i - 2] /\ i - 2 \in 1..m /\ part[i] \in Char
  <2>1. i \in 1..n /\ i # 1 /\ i # 2 /\ i - 2 \in 1..m
    BY <1>4
  <2>2. part[i] = s[i - 2]
    BY <1>2, <1>6, <2>1 DEF PartChar
  <2>3. s[i - 2] \in Char
    BY <1>3, <2>1
  <2>. QED
    BY <2>1, <2>2, <2>3
<1>9. PICK r : r = SubSeq(part, 3, n)
  OBVIOUS
<1>10. r = s
  <2>1. PICK low \in Int : low = 3
    OBVIOUS
  <2>2. \A i \in low..n : part[i] \in Char
    BY <1>8, <2>1
  <2>3. /\ r \in Seq(Char) /\ Len(r) = (IF low <= n THEN n - low + 1 ELSE 0)
        /\ \A i \in 1..(n - low + 1) : r[i] = part[low + i - 1]
    <3>1. n \in Int
      OBVIOUS
    <3>2. r = SubSeq(part, low, n)
      BY <1>9, <2>1
    <3>. QED
      BY <2>2, <3>1, <3>2, SubSeqProperties
  <2>4. Len(r) = m
    BY <1>4, <2>1, <2>3
  <2>5. ASSUME NEW i \in 1..m PROVE r[i] = s[i]
    <3>1. PICK k : k = low + i - 1 /\ k \in 3..n /\ k - 2 = i /\ i \in 1..(n - low + 1)
      BY <1>4, <2>1
    <3>2. r[i] = part[k]
      BY <2>3, <3>1
    <3>. QED
      BY <1>8, <3>1, <3>2
  <2>. QED
    BY <1>3, <2>3, <2>4, <2>5
<1>11. Trim(SubSeq(part, 3, Len(part))) = Trim(pair.value)
  BY <1>1, <1>2, <1>6, <1>9, <1>10, TrimSent
<1>12. Len(part) > 2
  BY <1>3, <1>4, <1>6
<1>. QED
  BY <1>7, <1>11, <1>12

\* The fields when i parts have been taken.
TakenUpTo(now, was, params, i) ==
  /\ DOMAIN now = Keys
  /\ \A k \in Keys :
       \/ now[k] = was[k] /\ \A q \in 1..i : params[q].key # k
       \/ \E q \in 1..i : params[q].key = k /\ now[k] = Trim(params[q].value)

\* The device takes one more part.
LEMMA PartTaken ==
  ASSUME NEW params, NEW i \in Nat \ {0}, params[i] \in Pairs, NEW was, NEW now,
         TakenUpTo(now, was, params, i - 1)
  PROVE  TakenUpTo(Assigned(now, Upto(params[i], PartLen(params[i]))), was, params, i)
<1>1. PICK pair \in Pairs : pair = params[i]
  OBVIOUS
<1>2. PICK part : part = Upto(pair, PartLen(pair))
  OBVIOUS
<1>3. /\ Len(part) > 2 /\ part[1] = pair.key /\ part[2] = "="
      /\ Trim(SubSeq(part, 3, Len(part))) = Trim(pair.value)
  BY <1>2, PartFacts
<1>4. pair.key \in Keys
  BY DEF Pairs
<1>5. PICK text : text = Trim(pair.value)
  OBVIOUS
<1>6. Assigned(now, part) = [now EXCEPT ![pair.key] = text]
  BY <1>3, <1>4, <1>5 DEF Assigned
<1>7. PICK then : then = Assigned(now, part)
  OBVIOUS
<1>8. DOMAIN then = Keys /\ \A k \in Keys : then[k] = IF k = pair.key THEN text ELSE now[k]
  <2>1. DOMAIN now = Keys
    BY DEF TakenUpTo
  <2>. QED
    BY <1>6, <1>7, <2>1
<1>9. i \in 1..i /\ \A q \in 1..i : q = i \/ q \in 1..(i - 1)
  OBVIOUS
<1>10. ASSUME NEW k \in Keys
       PROVE  \/ then[k] = was[k] /\ \A q \in 1..i : params[q].key # k
              \/ \E q \in 1..i : params[q].key = k /\ then[k] = Trim(params[q].value)
  <2>1. CASE k = pair.key
    BY <1>1, <1>5, <1>8, <1>9, <2>1
  <2>2. CASE k # pair.key
    <3>1. then[k] = now[k] /\ params[i].key # k
      BY <1>1, <1>8, <2>2
    <3>2. \A q \in 1..(i - 1) : q \in 1..i
      OBVIOUS
    <3>3. \/ now[k] = was[k] /\ \A q \in 1..(i - 1) : params[q].key # k
          \/ \E q \in 1..(i - 1) : params[q].key = k /\ now[k] = Trim(params[q].value)
      BY DEF TakenUpTo
    <3>. QED
      BY <1>9, <3>1, <3>2, <3>3
  <2>. QED
    BY <2>1, <2>2
<1>11. TakenUpTo(then, was, params, i)
  BY <1>8, <1>10 DEF TakenUpTo
<1>. QED
  BY <1>1, <1>2, <1>7, <1>11

\* The parts of a query are taken one by one.
LEMMA PartsTaken ==
  ASSUME NEW params, NEW n \in Nat, \A i \in 1..n : params[i] \in Pairs,
         NEW parts, SplitUpTo(parts, params, n, PartLen(params[n])), NEW was, DOMAIN was = Keys
  PROVE  TakenUpTo(AllTaken(was, parts), was, params, n)
<1>1. DOMAIN parts = 1..n
  BY ListedFacts DEF SplitUpTo
<1>2. PICK g : /\ g[0] = was
               /\ \A k \in 1..n : g[k] = Assigned(g[k - 1], parts[k])
               /\ AllTaken(was, parts) = g[n]
  <2>1. PICK g : TakesPartsBy(g, n, parts, was)
    BY <1>1, TakenSteps
  <2>. QED
    BY <2>1 DEF TakesPartsBy
<1> DEFINE Done == {i \in 0..n : TakenUpTo(g[i], was, params, i)}
<1>3. 0 \in Done
  <2>1. TakenUpTo(was, was, params, 0)
    BY 1..0 = {} DEF TakenUpTo
  <2>. QED
    BY <1>2, <2>1
<1>4. ASSUME NEW i \in 1..n, i - 1 \in Done PROVE i \in Done
  <2>1. parts[i] = Upto(params[i], PartLen(params[i]))
    <3>1. parts[i] = Upto(params[i], IF i = n THEN PartLen(params[n]) ELSE PartLen(params[i]))
      BY DEF SplitUpTo
    <3>. QED
      BY <3>1
  <2>2. PICK now : now = g[i - 1] /\ TakenUpTo(now, was, params, i - 1)
    BY <1>4
  <2>3. g[i] = Assigned(now, Upto(params[i], PartLen(params[i])))
    BY <1>2, <2>1, <2>2
  <2>4. i \in Nat \ {0} /\ params[i] \in Pairs
    OBVIOUS
  <2>5. TakenUpTo(Assigned(now, Upto(params[i], PartLen(params[i]))), was, params, i)
    BY <2>2, <2>4, PartTaken
  <2>. QED
    BY <2>3, <2>5
<1> HIDE DEF Done
<1>5. n \in Done
  <2>1. \A i \in 0..n : i \in Done
    BY <1>3, <1>4, Upward
  <2>. QED
    BY <2>1
<1>. QED
  BY <1>2, <1>5 DEF Done

\* A query without parts writes nothing.
LEMMA NothingTaken ==
  ASSUME NEW was
  PROVE  Decodable(BuildConfigQuery(<<>>)) /\ Taken(was, BuildConfigQuery(<<>>)) = was
<1>1. PICK params \in Seq(Pairs) : params = <<>> /\ Len(params) = 0
  <2>1. <<>> \in Seq(Pairs) /\ Len(<<>>) = 0
    OBVIOUS
  <2>. QED
    BY <2>1, Zenon
<1>2. PICK query : query = BuildConfigQuery(params)
  OBVIOUS
<1>3. PICK n \in Nat : n = 0 /\ n = Len(params)
  BY <1>1
<1>4. Decodable(query) /\ \E at : QueryPlaced(params, n, Decoded(Carried(query)), at)
  BY <1>2, <1>3, QueryArrives
<1>5. PICK text : text = Decoded(Carried(query))
  OBVIOUS
<1>6. DOMAIN text = 1..n
  <2>1. PICK at : QueryPlaced(params, n, text, at)
    BY <1>4, <1>5
  <2>2. n + 1 = 1
    BY <1>3
  <2>3. at[n + 1] = 0
    BY <2>1, <2>2 DEF QueryPlaced
  <2>. QED
    BY <1>3, <2>1, <2>3 DEF QueryPlaced
<1>7. PICK parts : parts = Split(text)
  OBVIOUS
<1>8. parts = <<<<>>>>
  <2>1. PICK g : g[0] = <<<<>>>> /\ Split(text) = g[n]
    BY <1>6, SplitSteps
  <2>. QED
    BY <1>3, <1>7, <2>1
<1>9. DOMAIN parts = 1..1 /\ Len(parts[1]) = 0
  <2>1. PICK none : none = <<>> /\ Len(none) = 0
    OBVIOUS
  <2>2. parts = <<none>>
    BY <1>8, <2>1
  <2>3. DOMAIN parts = 1..1 /\ parts[1] = none
    BY <2>2
  <2>. QED
    BY <2>1, <2>3
<1>10. PICK g : TakesPartsBy(g, 1, parts, was)
  <2>1. 1 \in Nat
    OBVIOUS
  <2>. QED
    BY <1>9, <2>1, TakenSteps
<1>11. AllTaken(was, parts) = Assigned(was, parts[1])
  <2>1. 1 \in 1..1 /\ 1 - 1 = 0
    OBVIOUS
  <2>. QED
    BY <1>10, <2>1 DEF TakesPartsBy
<1>12. AllTaken(was, parts) = was
  BY <1>9, <1>11 DEF Assigned
<1>13. Taken(was, query) = AllTaken(was, parts)
  BY <1>5, <1>7, Zenon DEF Taken, AllTaken
<1>. QED
  BY <1>1, <1>2, <1>4, <1>12, <1>13

\* A query with parts that can be represented writes every one of them.
LEMMA TextsTaken ==
  ASSUME NEW params \in Seq(Pairs), NEW n \in Nat \ {0}, n = Len(params),
         \A i \in 1..n : Representable(params[i].value), NEW was, DOMAIN was = Keys
  PROVE  Decodable(BuildConfigQuery(params)) /\ TakenUpTo(Taken(was, BuildConfigQuery(params)), was, params, n)
<1>1. PICK query : query = BuildConfigQuery(params)
  OBVIOUS
<1>2. Decodable(query) /\ \E at : QueryPlaced(params, n, Decoded(Carried(query)), at)
  BY <1>1, QueryArrives
<1>3. PICK text : text = Decoded(Carried(query))
  OBVIOUS
<1>4. PICK at : QueryPlaced(params, n, text, at)
  BY <1>2, <1>3
<1>5. \A i \in 1..n : params[i] \in Pairs
  OBVIOUS
<1>6. ASSUME NEW i \in 1..n
      PROVE  /\ PartLen(params[i]) \in Nat
             /\ \A x \in 1..PartLen(params[i]) : PartChar(params[i], x) # "&"
  <2>1. params[i].key \in Keys /\ params[i].value \in Seq(Char) /\ "&" \notin Range(params[i].value)
    BY <1>5 DEF Pairs, Representable
  <2>2. PICK s \in Seq(Char) : s = Sent(params[i].value)
    BY <2>1, SentFacts
  <2>3. PICK m \in Nat : m = Len(s)
    OBVIOUS
  <2>4. \A x \in 1..m : s[x] # "&"
    BY <2>1, <2>2, <2>3, SentFacts
  <2>5. PartLen(params[i]) = m + 2
    BY <2>2, <2>3 DEF PartLen
  <2>6. params[i].key # "&"
    BY <2>1, ConfigAssumption DEF Char, Special
  <2>7. ASSUME NEW x \in 1..(m + 2) PROVE PartChar(params[i], x) # "&"
    <3>1. CASE x = 1 \/ x = 2
      BY <2>6, <3>1 DEF PartChar
    <3>2. CASE ~(x = 1 \/ x = 2)
      <4>1. x - 2 \in 1..m
        BY <3>2
      <4>. QED
        BY <2>2, <2>4, <3>2, <4>1 DEF PartChar
    <3>. QED
      BY <3>1, <3>2
  <2>8. m + 2 \in Nat
    OBVIOUS
  <2>. QED
    BY <2>5, <2>7, <2>8
<1>7. SplitUpTo(Split(text), params, n, PartLen(params[n]))
  BY <1>4, <1>6, SplitParts
<1>8. PICK parts : parts = Split(text)
  OBVIOUS
<1>9. TakenUpTo(AllTaken(was, parts), was, params, n)
  BY <1>5, <1>7, <1>8, PartsTaken
<1>10. Taken(was, query) = AllTaken(was, parts)
  BY <1>3, <1>8, Zenon DEF Taken, AllTaken
<1>. QED
  BY <1>1, <1>2, <1>9, <1>10

\* A call that writes configuration does what it was asked, or nothing.
LEMMA TextsWritten ==
  ASSUME NEW params \in Params, SetConfig(params), DOMAIN fields = Keys
  PROVE  TextsArrive /\ DOMAIN fields' = Keys
<1>1. params \in Seq(Pairs)
  BY FormatsAssumption DEF Pairs
<1>2. PICK n \in Nat : n = Len(params) /\ DOMAIN params = 1..n
  BY <1>1
<1> DEFINE refused == \E i \in DOMAIN params : ~Representable(params[i].value)
           query == BuildConfigQuery(SentPairs(params))
<1>3. /\ call'.op = "set_config" /\ call'.params = params
      /\ call'.outcome = IF refused THEN "value_error" ELSE IF Decodable(query) THEN "ok" ELSE "refused"
      /\ fields' = IF Decodable(query) THEN Taken(fields, query) ELSE fields
  BY DEF SetConfig, CalledAlone
<1>4. refused <=> \E i \in DOMAIN params : "&" \in Range(params[i].value)
  BY DEF Representable
<1>5. CASE refused \/ n = 0
  <2>1. SentPairs(params) = <<>>
    <3>1. CASE refused
      BY <3>1, Zenon DEF SentPairs
    <3>2. CASE ~refused
      <4>1. params = <<>>
        BY <1>1, <1>2, <1>5, <3>2
      <4>. QED
        BY <3>2, <4>1, Zenon DEF SentPairs
    <3>. QED
      BY <3>1, <3>2
  <2>2. fields' = fields
    BY <1>3, <2>1, NothingTaken, Zenon
  <2>3. ~refused => \A k \in Keys : Says(params, k) = {}
    <3>1. ~refused => DOMAIN params = {}
      BY <1>2, <1>5
    <3>. QED
      BY <3>1 DEF Says
  <2> HIDE DEF refused
  <2>4. refused => call'.outcome = "value_error"
    BY <1>3
  <2>. QED
    BY <1>3, <1>4, <2>2, <2>3, <2>4 DEF TextsArrive
<1>6. CASE ~refused /\ n # 0
  <2>1. SentPairs(params) = params
    BY <1>6, Zenon DEF SentPairs
  <2>2. \A i \in 1..n : Representable(params[i].value)
    BY <1>2, <1>6
  <2>3. n \in Nat \ {0}
    BY <1>6
  <2>4. Decodable(BuildConfigQuery(params)) /\ TakenUpTo(Taken(fields, BuildConfigQuery(params)), fields, params, n)
    BY <1>1, <1>2, <2>2, <2>3, TextsTaken
  <2>5. TakenUpTo(fields', fields, params, n)
    BY <1>3, <2>1, <2>4, Zenon
  <2>6. ASSUME NEW k \in Keys
        PROVE  IF Says(params, k) = {} THEN fields'[k] = fields[k]
                                       ELSE fields'[k] \in {Trim(text) : text \in Says(params, k)}
    <3>1. \/ fields'[k] = fields[k] /\ \A q \in 1..n : params[q].key # k
          \/ \E q \in 1..n : params[q].key = k /\ fields'[k] = Trim(params[q].value)
      BY <2>5 DEF TakenUpTo
    <3>2. CASE \A q \in 1..n : params[q].key # k
      <4>1. Says(params, k) = {}
        BY <1>2, <3>2 DEF Says
      <4>. QED
        BY <3>1, <3>2, <4>1
    <3>3. CASE \E q \in 1..n : params[q].key = k /\ fields'[k] = Trim(params[q].value)
      <4>1. PICK q \in 1..n : params[q].key = k /\ fields'[k] = Trim(params[q].value)
        BY <3>3
      <4>2. params[q].value \in Says(params, k)
        BY <1>2, <4>1 DEF Says
      <4>. QED
        BY <4>1, <4>2
    <3>. QED
      BY <3>1, <3>2, <3>3
  <2>7. DOMAIN fields' = Keys
    BY <2>5 DEF TakenUpTo
  <2> HIDE DEF refused
  <2>. QED
    BY <1>3, <1>4, <1>6, <2>6, <2>7 DEF TextsArrive
<1>. QED
  BY <1>5, <1>6

\* Every field has a text, always.
FieldsKept == DOMAIN fields = Keys

\* Every call writes what it was asked, and nothing else.
LEMMA WritesStep ==
  ASSUME TypeInv, FieldsKept, Next
  PROVE  TextsArrive /\ ShutterArrives /\ ShutterReaches /\ FieldsKept'
<1>1. ShutterArrives /\ ShutterReaches
  BY ShutterWritten
<1>2. ASSUME fields' = fields, call'.op # "set_config" PROVE TextsArrive /\ FieldsKept'
  BY <1>2 DEF TextsArrive, FieldsKept
<1>3. ASSUME NEW params \in Params, SetConfig(params) PROVE TextsArrive /\ FieldsKept'
  BY <1>3, TextsWritten DEF FieldsKept
<1>4. ASSUME NEW channel \in Channels, NEW slowest \in Speeds, NEW fastest \in Fastest,
             NEW chosen \in ProfileSets, SetShutterRange(slowest, fastest, channel, chosen)
      PROVE  TextsArrive /\ FieldsKept'
  <2>1. call'.op = "set_shutter_range" /\ fields' = fields
    BY <1>4 DEF SetShutterRange, Called
  <2>. QED
    BY <1>2, <2>1
<1>5. ASSUME NEW channel \in Channels, NEW chosen \in ProfileSets, SetExposureAuto(channel, chosen)
      PROVE  TextsArrive /\ FieldsKept'
  <2>1. call'.op = "set_exposure_auto" /\ fields' = fields
    BY <1>5 DEF SetExposureAuto, Called
  <2>. QED
    BY <1>2, <2>1
<1>6. ASSUME NEW channel \in Channels, GetExposure(channel) PROVE TextsArrive /\ FieldsKept'
  <2>1. call'.op = "get_exposure" /\ fields' = fields
    BY <1>6 DEF GetExposure, Called
  <2>. QED
    BY <1>2, <2>1
<1>7. ASSUME NEW log \in Logs, SearchLogs(log) PROVE TextsArrive /\ FieldsKept'
  <2>1. call'.op = "search_logs" /\ fields' = fields
    BY <1>7 DEF SearchLogs, CalledAlone
  <2>. QED
    BY <1>2, <2>1
<1>8. ASSUME NEW lines \in Listings, FindRecordings(lines) PROVE TextsArrive /\ FieldsKept'
  <2>1. call'.op = "find_recordings" /\ fields' = fields
    BY <1>8 DEF FindRecordings, CalledAlone
  <2>. QED
    BY <1>2, <2>1
<1>9. ASSUME NEW lines \in Storages, GetStorageInfo(lines) PROVE TextsArrive /\ FieldsKept'
  <2>1. call'.op = "get_storage_info" /\ fields' = fields
    BY <1>9 DEF GetStorageInfo, CalledAlone
  <2>. QED
    BY <1>2, <2>1
<1>10. ASSUME NEW channel \in 0..1, NEW start \in 1..2, NEW end \in 1..2, NEW load \in Loads,
              DownloadClip(channel, start, end, load)
       PROVE  TextsArrive /\ FieldsKept'
  <2>1. call'.op = "download_clip" /\ fields' = fields
    BY <1>10 DEF DownloadClip, CalledAlone
  <2>. QED
    BY <1>2, <2>1
<1>. QED
  BY <1>1, <1>3, <1>4, <1>5, <1>6, <1>7, <1>8, <1>9, <1>10 DEF Next

\* WritesArrive, for every text, speed and profile: a write changes the device
\* to what was asked and nothing else, or is refused before anything is sent.
THEOREM WritesReach == Spec => WritesArrive
<1>1. Init => FieldsKept
  BY DEF Init, FieldsKept
<1>2. FieldsKept /\ TypeInv /\ [Next]_vars => FieldsKept' /\ [TextsArrive /\ ShutterArrives /\ ShutterReaches]_vars
  <2> SUFFICES ASSUME FieldsKept, TypeInv, [Next]_vars
               PROVE  FieldsKept' /\ [TextsArrive /\ ShutterArrives /\ ShutterReaches]_vars
    OBVIOUS
  <2>1. CASE Next
    BY <2>1, WritesStep
  <2>2. CASE UNCHANGED vars
    BY <2>2 DEF FieldsKept, vars
  <2>. QED
    BY <2>1, <2>2
<1>3. ExposureInv => TypeInv
  BY DEF ExposureInv
<1>. QED
  BY <1>1, <1>2, <1>3, ExposureInvariant, PTL DEF Spec, WritesArrive
=============================================================================
