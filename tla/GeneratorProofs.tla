-------------------------- MODULE GeneratorProofs --------------------------
(***************************************************************************)
(* Proofs about the generated records, for every total, every way to cut   *)
(* it into batches, every seed, number of threads and invocations.         *)
(***************************************************************************)
EXTENDS Generator, FiniteSetTheorems, WellFoundedInduction, TLAPS

Words == 0 .. Word - 1

-----------------------------------------------------------------------------
(* Keys *)

\* The quotient and the remainder.
LEMMA DivMod ==
  ASSUME NEW n \in Nat, NEW m \in Nat \ {0}
  PROVE  n = m * (n \div m) + (n % m) /\ n \div m \in Nat /\ n % m \in 0 .. m - 1
<1>1. n \div m \in Nat /\ n % m \in 0 .. m - 1
  BY Z3
<1>2. n = m * (n \div m) + (n % m)
  BY Z3
<1> QED
  BY <1>1, <1>2

\* The shift by log2(m) of what lies below m * k lies below k.
LEMMA ShiftBelow ==
  ASSUME NEW m \in Nat \ {0}, NEW k \in Nat, NEW x \in Nat, x < m * k
  PROVE  x \div m \in Nat /\ x \div m < k /\ x \div m <= x
<1> DEFINE q == x \div m
           r == x % m
<1>1. q \in Nat /\ r \in 0 .. m - 1 /\ x = m * q + r
  BY DivMod
<1> HIDE DEF q, r
<1>2. q < k
  <2>1. SUFFICES ASSUME q >= k PROVE FALSE
    BY <1>1
  <2>2. m * q >= m * k
    BY <1>1, <2>1, Z3
  <2> QED
    BY <1>1, <2>2
<1>3. q <= x
  <2>1. m * q >= q
    BY <1>1, Z3
  <2> QED
    BY <1>1, <2>1
<1> QED
  BY <1>1, <1>2, <1>3 DEF q

\* A word shifted down is a word, and shifted three times nothing.
LEMMA ShiftsOfWords ==
  ASSUME NEW m \in Shifts, NEW x \in Words
  PROVE  /\ x \div m \in Words
         /\ ((x \div m) \div m) \div m = 0
<1>1. m \in Nat \ {0} /\ Word <= m * m * m /\ Word \in Nat
  BY MixAssumption, ArgsAssumption
<1>2. x \in Nat /\ x < m * (m * m) /\ m * m \in Nat
  BY <1>1 DEF Words
<1>3. x \div m \in Nat /\ x \div m < m * m /\ x \div m <= x
  BY <1>1, <1>2, ShiftBelow
<1>4. (x \div m) \div m \in Nat /\ (x \div m) \div m < m * 1
  BY <1>1, <1>3, ShiftBelow
<1>5. ((x \div m) \div m) \div m \in Nat /\ ((x \div m) \div m) \div m < 1
  BY <1>1, <1>4, ShiftBelow
<1> QED
  BY <1>1, <1>3, <1>5 DEF Words

\* Cancellation of an exclusive or.
LEMMA XorCancels ==
  ASSUME NEW a \in Words, NEW b \in Words, NEW c \in Words, Xor(a, c) = Xor(b, c)
  PROVE  a = b
BY XorAssumption DEF Words

\* A word is known from its exclusive or with itself shifted: the shifts of the
\* one give back, from the topmost bits down, the shifts of the other.
LEMMA XorshiftInjective ==
  ASSUME NEW m \in Shifts, NEW x \in Words, NEW y \in Words,
         Xor(x, x \div m) = Xor(y, y \div m)
  PROVE  x = y
<1> DEFINE s(z) == z \div m
<1>1. \A z \in Words : s(z) \in Words /\ s(s(s(z))) = 0
  BY ShiftsOfWords
<1>2. \A z \in Words : Xor(z, s(z)) \in Words /\ s(Xor(z, s(z))) = Xor(s(z), s(s(z)))
  BY <1>1, XorAssumption DEF Words
<1>3. \A z \in Words : Xor(z, 0) = z
  BY XorAssumption DEF Words
<1>4. Xor(x, s(x)) = Xor(y, s(y))
  OBVIOUS
<1> HIDE DEF s
<1>5. Xor(s(x), s(s(x))) = Xor(s(y), s(s(y)))
  BY <1>2, <1>4
<1>6. Xor(s(s(x)), s(s(s(x)))) = Xor(s(s(y)), s(s(s(y))))
  BY <1>1, <1>2, <1>5
<1>7. s(s(x)) = s(s(y))
  BY <1>1, <1>3, <1>6
<1>8. s(x) = s(y)
  BY <1>1, <1>5, <1>7, XorCancels
<1> QED
  BY <1>1, <1>4, <1>8, XorCancels

\* Of two factors below Word, the same product modulo Word, with a multiplier
\* that has an inverse, makes equal factors.
LEMMA MulInjective ==
  ASSUME NEW mul \in {Mix.mul1, Mix.mul2}, NEW a \in Words, NEW b \in Words,
         wrapping_mul(a, mul) = wrapping_mul(b, mul)
  PROVE  a = b
<1>1. PICK inverse \in Words : (mul * inverse) % Word = 1 % Word
  BY MixAssumption DEF Words
<1>2. Word \in Nat \ {0} /\ mul \in Nat /\ inverse \in Nat /\ a \in Nat /\ b \in Nat
      /\ a < Word /\ b < Word
  BY <1>1, ArgsAssumption, MixAssumption DEF Words
<1>3. CASE Word = 1
  BY <1>2, <1>3
<1>4. CASE Word > 1
  <2>1. \A n \in Nat : n = Word * (n \div Word) + (n % Word) /\ n \div Word \in Nat /\ n % Word \in Nat
    <3> TAKE n \in Nat
    <3>1. n % Word \in 0 .. Word - 1
      BY <1>2, DivMod
    <3>2. n = Word * (n \div Word) + (n % Word) /\ n \div Word \in Nat
      BY <1>2, DivMod
    <3>3. n % Word \in Nat
      BY <1>2, <3>1
    <3> QED
      BY <3>2, <3>3
  <2>2. a * mul \in Nat /\ b * mul \in Nat /\ mul * inverse \in Nat
    BY <1>2, Z3
  <2> DEFINE p == (a * mul) \div Word
             q == (b * mul) \div Word
             r == (a * mul) % Word
             k == (mul * inverse) \div Word
  <2>3. /\ a * mul = Word * p + r /\ b * mul = Word * q + r
        /\ p \in Nat /\ q \in Nat /\ r \in Nat
    <3>1. r = (b * mul) % Word
      BY DEF wrapping_mul
    <3> QED
      BY <2>1, <2>2, <3>1
  <2>4. mul * inverse = Word * k + 1 /\ k \in Nat
    <3>1. 1 % Word = 1
      BY <1>2, <1>4, Z3
    <3> QED
      BY <1>1, <2>1, <2>2, <3>1
  <2> HIDE DEF p, q, r, k
  <2> DEFINE d == a - b
             t == (p - q) * inverse - d * k
  <2>5. d * mul = Word * (p - q)
    <3>1. d * mul = a * mul - b * mul
      BY <1>2, Z3
    <3>2. Word * (p - q) = Word * p - Word * q
      BY <1>2, <2>3, Z3
    <3> QED
      BY <1>2, <2>2, <2>3, <3>1, <3>2
  <2>6. d = Word * t
    <3>1. d \in Int /\ p - q \in Int
      BY <1>2, <2>3
    <3>2. (d * mul) * inverse = d * (mul * inverse)
      BY <1>2, <3>1, Z3
    <3>3. (Word * (p - q)) * inverse = Word * ((p - q) * inverse)
      BY <1>2, <3>1, Z3
    <3>4. d * (Word * k + 1) = Word * (d * k) + d
      BY <1>2, <2>4, <3>1, Z3
    <3>5. Word * ((p - q) * inverse) = Word * (d * k) + d
      BY <2>4, <2>5, <3>2, <3>3, <3>4
    <3>6. Word * t = Word * ((p - q) * inverse) - Word * (d * k)
      BY <1>2, <2>4, <3>1, Z3
    <3> HIDE DEF d, t
    <3> QED
      BY <1>2, <2>4, <3>1, <3>5, <3>6
  <2>7. t = 0
    <3>1. d < Word /\ -Word < d /\ t \in Int
      BY <1>2, <2>3, <2>4
    <3> HIDE DEF d, t
    <3>2. ASSUME t >= 1 PROVE FALSE
      <4>1. Word * t >= Word
        BY <1>2, <3>1, <3>2, Z3
      <4> QED
        BY <1>2, <2>6, <3>1, <4>1
    <3>3. ASSUME t <= -1 PROVE FALSE
      <4>1. Word * t <= -Word
        BY <1>2, <3>1, <3>3, Z3
      <4> QED
        BY <1>2, <2>6, <3>1, <4>1
    <3> QED
      BY <3>1, <3>2, <3>3
  <2>8. d = 0
    <3> HIDE DEF d, t
    <3> QED
      BY <1>2, <2>6, <2>7
  <2> QED
    BY <1>2, <2>8
<1> QED
  BY <1>2, <1>3, <1>4

\* Words stay words, and the product of one is one.
LEMMA WordsStay ==
  ASSUME NEW x \in Words
  PROVE  /\ \A m \in Shifts : Xor(x, x \div m) \in Words
         /\ \A mul \in {Mix.mul1, Mix.mul2} : wrapping_mul(x, mul) \in Words
         /\ (x + Mix.golden) % Word \in Words
<1>1. Word \in Nat \ {0} /\ Mix.golden \in Nat /\ x \in Nat
  BY ArgsAssumption, MixAssumption DEF Words
<1>2. \A n \in Nat : n % Word \in Words
  BY <1>1 DEF Words
<1>3. ASSUME NEW m \in Shifts PROVE Xor(x, x \div m) \in Words
  BY ShiftsOfWords, XorAssumption DEF Words
<1>4. ASSUME NEW mul \in {Mix.mul1, Mix.mul2} PROVE wrapping_mul(x, mul) \in Words
  <2>1. mul \in Nat
    BY MixAssumption
  <2>2. x * mul \in Nat
    BY <1>1, <2>1, Z3
  <2> QED
    BY <1>2, <2>2 DEF wrapping_mul
<1>5. x + Mix.golden \in Nat
  BY <1>1
<1> QED
  BY <1>2, <1>3, <1>4, <1>5

\* splitmix64() maps words to words and no two to one.
LEMMA Splitmix64Injective ==
  /\ \A x \in Words : splitmix64(x) \in Words
  /\ \A x, y \in Words : splitmix64(x) = splitmix64(y) => x = y
<1> DEFINE x0(n) == (n + Mix.golden) % Word
           x1(n) == xorshift(x0(n), Mix.shift1)
           y1(n) == wrapping_mul(x1(n), Mix.mul1)
           x2(n) == xorshift(y1(n), Mix.shift2)
           y2(n) == wrapping_mul(x2(n), Mix.mul2)
<1>1. \A n : splitmix64(n) = xorshift(y2(n), Mix.shift3)
  BY DEF splitmix64
<1>2. {2 ^ Mix.shift1, 2 ^ Mix.shift2, 2 ^ Mix.shift3} \subseteq Shifts
  BY DEF Shifts
<1>3. \A a \in Words : \A bits \in {Mix.shift1, Mix.shift2, Mix.shift3} : xorshift(a, bits) \in Words
  BY <1>2, WordsStay DEF xorshift
<1>4. \A a, b \in Words : \A bits \in {Mix.shift1, Mix.shift2, Mix.shift3} :
        xorshift(a, bits) = xorshift(b, bits) => a = b
  BY <1>2, XorshiftInjective DEF xorshift
<1>5. \A n \in Words : x0(n) \in Words
  BY WordsStay
<1>6. \A a, b \in Words : x0(a) = x0(b) => a = b
  <2> TAKE a, b \in Words
  <2>1. Word \in Nat \ {0} /\ Mix.golden \in Nat /\ a \in 0 .. Word - 1 /\ b \in 0 .. Word - 1
    BY ArgsAssumption, MixAssumption DEF Words
  <2> DEFINE c == a + Mix.golden
             d == b + Mix.golden
  <2>2. c \in Nat /\ d \in Nat /\ c - d = a - b
    BY <2>1
  <2>3. ASSUME c % Word = d % Word PROVE a = b
    <3> DEFINE p == c \div Word
               q == d \div Word
               r == c % Word
    <3> HIDE DEF c, d
    <3>1. /\ c = Word * p + r /\ d = Word * q + r
          /\ p \in Nat /\ q \in Nat /\ r \in Int
      <4>1. c = Word * p + r /\ p \in Nat /\ r \in 0 .. Word - 1
        BY <2>1, <2>2, DivMod
      <4>2. d = Word * q + (d % Word) /\ q \in Nat
        BY <2>1, <2>2, DivMod
      <4> QED
        BY <2>3, <4>1, <4>2
    <3> HIDE DEF p, q, r
    <3>2. c - d = Word * (p - q) /\ p - q \in Int
      BY <2>1, <3>1, Z3
    <3>3. ASSUME p - q >= 1 PROVE FALSE
      <4>1. Word * (p - q) >= Word
        BY <2>1, <3>1, <3>3, Z3
      <4> QED
        BY <2>1, <2>2, <3>1, <3>2, <4>1
    <3>4. ASSUME p - q <= -1 PROVE FALSE
      <4>1. Word * (p - q) <= -Word
        BY <2>1, <3>1, <3>4, Z3
      <4> QED
        BY <2>1, <2>2, <3>1, <3>2, <4>1
    <3>5. p - q = 0
      BY <3>2, <3>3, <3>4
    <3> QED
      BY <2>1, <2>2, <3>2, <3>5
  <2> QED
    BY <2>3
<1> HIDE DEF x0
<1>7. \A n \in Words : x1(n) \in Words /\ y1(n) \in Words /\ x2(n) \in Words /\ y2(n) \in Words
  BY <1>3, <1>5, WordsStay
<1>8. ASSUME NEW x \in Words, NEW y \in Words, splitmix64(x) = splitmix64(y) PROVE x = y
  <2> HIDE DEF x1, y1, x2, y2
  <2>1. y2(x) = y2(y)
    BY <1>1, <1>4, <1>7, <1>8
  <2>2. x2(x) = x2(y)
    BY <1>7, <2>1, MulInjective DEF y2
  <2>3. y1(x) = y1(y)
    BY <1>4, <1>7, <2>2 DEF x2
  <2>4. x1(x) = x1(y)
    BY <1>7, <2>3, MulInjective DEF y1
  <2>5. x0(x) = x0(y)
    BY <1>4, <1>5, <2>4 DEF x1
  <2> QED
    BY <1>6, <2>5
<1>9. ASSUME NEW x \in Words PROVE splitmix64(x) \in Words
  <2> HIDE DEF x1, y1, x2, y2
  <2> QED
    BY <1>1, <1>3, <1>7
<1> QED
  BY <1>8, <1>9

-----------------------------------------------------------------------------
(* Induction *)

\* A set of numbers with 0 and, with each, the next, is the set of all.
LEMMA SetInduction ==
  ASSUME NEW S \in SUBSET Nat, 0 \in S, \A n \in S : n + 1 \in S
  PROVE  S = Nat
<1> DEFINE R == {ss \in Nat \X Nat : ss[1] < ss[2]}
           T == Nat \ S
<1>1. IsWellFoundedOn(R, Nat)
  BY NatLessThanWellFounded DEF OpToRel
<1>2. SUFFICES ASSUME T # {} PROVE FALSE
  OBVIOUS
<1>3. PICK x \in T : \A y \in T : ~ (<<y, x>> \in R)
  <2> HIDE DEF R
  <2>1. T \subseteq Nat
    OBVIOUS
  <2> HIDE DEF T
  <2> QED
    BY <1>1, <1>2, <2>1, WFMin
<1>4. x \in Nat /\ x # 0
  OBVIOUS
<1>5. x - 1 \in Nat /\ x - 1 < x
  BY <1>4
<1>6. x - 1 \in S
  BY <1>3, <1>5
<1> QED
  BY <1>4, <1>6

\* The sums of weights.
LEMMA UptoSums ==
  ASSUME NEW weights \in Seq(Nat)
  PROVE  /\ Upto(weights) \in [0 .. Len(weights) -> Nat]
         /\ Upto(weights)[0] = 0
         /\ \A i \in DOMAIN weights : Upto(weights)[i] = Upto(weights)[i - 1] + weights[i]
<1> DEFINE N == Len(weights)
           Body(g, i) == IF i = 0 THEN 0 ELSE g[i - 1] + weights[i]
           Sums(g, n) == /\ g \in [0 .. n -> Nat] /\ g[0] = 0
                         /\ \A i \in 1 .. n : g[i] = g[i - 1] + weights[i]
           S == {n \in Nat : n <= N => \E g : Sums(g, n)}
<1>1. N \in Nat /\ DOMAIN weights = 1 .. N /\ \A i \in 1 .. N : weights[i] \in Nat
  OBVIOUS
<1>2. 0 \in S
  <2> DEFINE g == [i \in 0 .. 0 |-> 0]
  <2>1. Sums(g, 0)
    OBVIOUS
  <2> QED
    BY <2>1
<1>3. ASSUME NEW n \in S PROVE n + 1 \in S
  <2>0. n \in Nat /\ (n <= N => \E g : Sums(g, n))
    OBVIOUS
  <2>1. SUFFICES ASSUME n + 1 <= N PROVE \E g : Sums(g, n + 1)
    <3> HIDE DEF Sums, N
    <3> QED
      BY <2>0
  <2>2. n \in Nat /\ n <= N
    BY <1>1, <2>0, <2>1
  <2>3. PICK h : Sums(h, n)
    <3> HIDE DEF Sums, N
    <3> QED
      BY <2>0, <2>2
  <2> DEFINE g == [i \in 0 .. n + 1 |-> IF i = n + 1 THEN h[n] + weights[n + 1] ELSE h[i]]
  <2>4. n + 1 \in 1 .. N /\ h[n] + weights[n + 1] \in Nat
    BY <1>1, <2>1, <2>2, <2>3
  <2>5. g \in [0 .. n + 1 -> Nat] /\ g[0] = 0
    BY <2>2, <2>3, <2>4
  <2>6. ASSUME NEW i \in 1 .. n + 1 PROVE g[i] = g[i - 1] + weights[i]
    <3>1. CASE i = n + 1
      BY <2>2, <3>1
    <3>2. CASE i \in 1 .. n
      <4>1. g[i] = h[i] /\ g[i - 1] = h[i - 1]
        BY <2>2, <3>2
      <4> QED
        BY <2>3, <3>2, <4>1
    <3> QED
      BY <2>2, <3>1, <3>2
  <2>7. Sums(g, n + 1)
    BY <2>5, <2>6
  <2> QED
    BY <2>7
<1>4. S = Nat
  <2> HIDE DEF S
  <2>1. S \subseteq Nat
    BY DEF S
  <2> QED
    BY <1>2, <1>3, <2>1, SetInduction
<1>5. PICK g : Sums(g, N)
  <2> HIDE DEF Sums, N
  <2>1. N \in S
    BY <1>1, <1>4
  <2> QED
    BY <1>1, <2>1
<1>6. Upto(weights) = CHOOSE f : f = [i \in 0 .. N |-> Body(f, i)]
  BY DEF Upto
<1>7. g = [i \in 0 .. N |-> Body(g, i)]
  BY <1>1, <1>5
<1>8. Upto(weights) = [i \in 0 .. N |-> Body(Upto(weights), i)]
  <2> HIDE DEF N, Body
  <2> QED
    BY <1>6, <1>7
<1> DEFINE u == Upto(weights)
<1>9. u = [i \in 0 .. N |-> Body(u, i)]
  BY <1>8
<1> HIDE DEF u, N
<1>10. u[0] = 0
  BY <1>1, <1>9
<1>11. ASSUME NEW i \in 1 .. N PROVE u[i] = u[i - 1] + weights[i]
  BY <1>1, <1>9
<1>12. \A i \in 0 .. N : u[i] \in Nat
  <2> DEFINE U == {n \in Nat : n <= N => u[n] \in Nat}
  <2>1. 0 \in U
    BY <1>10
  <2>2. ASSUME NEW n \in U PROVE n + 1 \in U
    BY <1>1, <1>11
  <2>3. U = Nat
    <3> HIDE DEF U
    <3>1. U \subseteq Nat
      BY DEF U
    <3> QED
      BY <2>1, <2>2, <3>1, SetInduction
  <2> QED
    BY <1>1, <2>3
<1>13. u = [i \in 0 .. N |-> u[i]]
  BY <1>9
<1> QED
  BY <1>1, <1>10, <1>11, <1>12, <1>13 DEF u, N

-----------------------------------------------------------------------------
(* Lines *)

\* A draw below the sum of the weights falls into the share of one of them.
LEMMA WeightedPick ==
  ASSUME NEW weights \in Seq(Nat), NEW r \in Nat, r < Upto(weights)[Len(weights)]
  PROVE  weighted_pick(r, weights) \in DOMAIN weights
<1> DEFINE u == Upto(weights)
           N == Len(weights)
           Share_of(i) == u[i - 1] <= r /\ r < u[i]
           S == {n \in Nat : n <= N /\ r < u[n] => \E i \in 1 .. n : Share_of(i)}
<1>1. N \in Nat /\ DOMAIN weights = 1 .. N
  OBVIOUS
<1>2. u[0] = 0 /\ \A i \in 0 .. N : u[i] \in Nat
  BY UptoSums
<1> HIDE DEF u, N
<1>3. 0 \in S
  BY <1>2
<1>4. ASSUME NEW n \in S PROVE n + 1 \in S
  <2>1. SUFFICES ASSUME n + 1 <= N, r < u[n + 1] PROVE \E i \in 1 .. n + 1 : Share_of(i)
    OBVIOUS
  <2>2. n \in Nat /\ n \in 0 .. N
    BY <1>1, <2>1
  <2>3. CASE r < u[n]
    <3>1. PICK i \in 1 .. n : Share_of(i)
      BY <2>2, <2>3
    <3>2. i \in 1 .. n + 1
      BY <2>2
    <3> QED
      BY <3>1, <3>2
  <2>4. CASE ~ (r < u[n])
    <3>1. Share_of(n + 1)
      BY <1>2, <2>1, <2>2, <2>4
    <3>2. n + 1 \in 1 .. n + 1
      BY <2>2
    <3> QED
      BY <3>1, <3>2
  <2> QED
    BY <2>3, <2>4
<1>5. S = Nat
  <2> HIDE DEF S
  <2>1. S \subseteq Nat
    BY DEF S
  <2> QED
    BY <1>3, <1>4, <2>1, SetInduction
<1>6. \E i \in 1 .. N : Share_of(i)
  <2>1. N \in S /\ r < u[N]
    BY <1>1, <1>5 DEF u, N
  <2> QED
    BY <1>1, <2>1
<1>7. weighted_pick(r, weights) = CHOOSE i \in 1 .. N : Share_of(i)
  BY <1>1 DEF weighted_pick, u
<1> QED
  <2> HIDE DEF Share_of
  <2> QED
    BY <1>1, <1>6, <1>7

\* LongestLine is the largest length of a template.
LEMMA LongestOfLines ==
  /\ LongestLine \in Nat
  /\ \A i \in DOMAIN Lines : Lines[i][2] <= LongestLine
<1> DEFINE N == Len(Lines)
           Longest(n, j) == j \in 1 .. n /\ \A i \in 1 .. n : Lines[i][2] <= Lines[j][2]
           S == {n \in Nat : n + 1 <= N => \E j : Longest(n + 1, j)}
<1>1. /\ N \in Nat \ {0} /\ DOMAIN Lines = 1 .. N
      /\ \A i \in 1 .. N : Lines[i][2] \in Nat
  BY LinesAssumption
<1> HIDE DEF N
<1>2. 0 \in S
  <2>1. ASSUME 0 + 1 <= N PROVE Longest(0 + 1, 1)
    BY <1>1, <2>1
  <2> HIDE DEF Longest
  <2> QED
    BY <2>1
<1>3. ASSUME NEW n \in S PROVE n + 1 \in S
  <2>1. n \in Nat /\ (n + 1 <= N => \E j : Longest(n + 1, j))
    OBVIOUS
  <2>2. ASSUME n + 1 + 1 <= N PROVE \E j : Longest(n + 1 + 1, j)
    <3>1. PICK j : Longest(n + 1, j)
      <4> HIDE DEF Longest
      <4> QED
        BY <1>1, <2>1, <2>2
    <3>2. n + 2 \in 1 .. N /\ Lines[j][2] \in Nat /\ Lines[n + 2][2] \in Nat
      BY <1>1, <2>1, <2>2, <3>1
    <3>3. CASE Lines[n + 2][2] <= Lines[j][2]
      <4>1. Longest(n + 1 + 1, j)
        BY <2>1, <3>1, <3>2, <3>3
      <4> QED
        BY <4>1
    <3>4. CASE ~ (Lines[n + 2][2] <= Lines[j][2])
      <4>1. \A i \in 1 .. n + 1 : Lines[i][2] <= Lines[n + 2][2]
        BY <1>1, <2>1, <2>2, <3>1, <3>2, <3>4
      <4>2. Longest(n + 1 + 1, n + 2)
        BY <2>1, <3>2, <4>1
      <4> QED
        BY <4>2
    <3> QED
      BY <3>3, <3>4
  <2> HIDE DEF Longest
  <2> QED
    BY <2>1, <2>2
<1>4. S = Nat
  <2> HIDE DEF S
  <2>1. S \subseteq Nat
    BY DEF S
  <2> QED
    BY <1>2, <1>3, <2>1, SetInduction
<1>5. PICK j : Longest(N, j)
  <2>1. N - 1 \in Nat /\ N - 1 + 1 = N
    BY <1>1
  <2>2. N - 1 \in S
    <3> HIDE DEF S
    <3> QED
      BY <1>4, <2>1
  <2> HIDE DEF Longest
  <2> QED
    BY <1>1, <2>1, <2>2
<1> DEFINE Lengths == {Lines[i][2] : i \in DOMAIN Lines}
           Largest(n) == \A i \in DOMAIN Lines : Lines[i][2] <= n
<1>6. Lines[j][2] \in Lengths /\ Largest(Lines[j][2])
  BY <1>1, <1>5
<1>7. LongestLine = CHOOSE n \in Lengths : Largest(n)
  BY DEF LongestLine
<1>8. LongestLine \in Lengths /\ Largest(LongestLine)
  <2> HIDE DEF Lengths, Largest
  <2> QED
    BY <1>6, <1>7
<1> QED
  BY <1>1, <1>8

-----------------------------------------------------------------------------
(* Messages *)

\* A generator is a key and a position in its stream.
IsRng(g) == g = [key |-> g.key, pos |-> g.pos]

\* A message m after n more lines, whether it was long enough before or not.
Padded(m, n) ==
  LET grown[i \in 0 .. n] == IF i = 0 THEN m ELSE Longer(grown[i - 1])
  IN  grown[n]

\* The lines are added one after the other.
LEMMA PaddedStep ==
  ASSUME NEW m
  PROVE  Padded(m, 0) = m /\ \A n \in Nat : Padded(m, n + 1) = Longer(Padded(m, n))
<1> DEFINE Body(g, i) == IF i = 0 THEN m ELSE Longer(g[i - 1])
           Grown(g, n) == g = [i \in 0 .. n |-> Body(g, i)]
           S == {n \in Nat : \E g : Grown(g, n)}
           grown(n) == CHOOSE g : Grown(g, n)
<1>1. 0 \in S
  <2> DEFINE g == [i \in 0 .. 0 |-> m]
  <2>1. Grown(g, 0)
    OBVIOUS
  <2> HIDE DEF Grown
  <2> QED
    BY <2>1
<1>2. ASSUME NEW n \in S PROVE n + 1 \in S
  <2>1. n \in Nat
    OBVIOUS
  <2>2. PICK h : Grown(h, n)
    <3> HIDE DEF Grown
    <3> QED
      OBVIOUS
  <2> DEFINE g == [i \in 0 .. n + 1 |-> IF i = n + 1 THEN Longer(h[n]) ELSE h[i]]
  <2>3. ASSUME NEW i \in 0 .. n + 1 PROVE g[i] = Body(g, i)
    <3>1. CASE i = n + 1
      <4>1. g[i - 1] = h[n] /\ i # 0
        BY <2>1, <3>1
      <4> QED
        BY <3>1, <4>1
    <3>2. CASE i \in 1 .. n
      <4>1. g[i] = h[i] /\ g[i - 1] = h[i - 1] /\ i # 0
        BY <2>1, <3>2
      <4>2. h[i] = Longer(h[i - 1])
        BY <2>1, <2>2, <3>2
      <4> QED
        BY <4>1, <4>2
    <3>3. CASE i = 0
      <4>1. g[0] = h[0] /\ h[0] = m
        BY <2>1, <2>2
      <4> QED
        BY <3>3, <4>1
    <3> QED
      BY <2>1, <3>1, <3>2, <3>3
  <2>4. Grown(g, n + 1)
    <3> HIDE DEF Body
    <3>1. g = [i \in 0 .. n + 1 |-> g[i]]
      OBVIOUS
    <3> HIDE DEF g
    <3> QED
      BY <2>3, <3>1
  <2> HIDE DEF Grown
  <2> QED
    BY <2>1, <2>4
<1>3. S = Nat
  <2> HIDE DEF S
  <2>1. S \subseteq Nat
    BY DEF S
  <2> QED
    BY <1>1, <1>2, <2>1, SetInduction
<1>4. ASSUME NEW n \in Nat PROVE Grown(grown(n), n) /\ Padded(m, n) = grown(n)[n]
  <2>1. Grown(grown(n), n)
    <3>1. n \in S
      <4> HIDE DEF S
      <4> QED
        BY <1>3
    <3> HIDE DEF Grown
    <3> QED
      BY <3>1
  <2> QED
    BY <2>1 DEF Padded
<1>5. ASSUME NEW n \in Nat PROVE \A i \in 0 .. n : grown(n)[i] = Body(grown(n), i)
  <2> HIDE DEF grown, Body
  <2> QED
    BY <1>4
<1> HIDE DEF grown, Grown, S
<1>6. ASSUME NEW n \in Nat PROVE grown(n + 1)[n] = grown(n)[n]
  <2> DEFINE T == {i \in Nat : i <= n => grown(n + 1)[i] = grown(n)[i]}
             g == grown(n + 1)
             h == grown(n)
  <2>1. \A i \in 0 .. n : g[i] = Body(g, i) /\ h[i] = Body(h, i)
    BY <1>5
  <2> HIDE DEF g, h
  <2>2. 0 \in T
    BY <2>1 DEF g, h
  <2>3. ASSUME NEW i \in T PROVE i + 1 \in T
    <3>1. SUFFICES ASSUME i + 1 <= n PROVE g[i + 1] = h[i + 1]
      BY DEF g, h
    <3>2. g[i] = h[i] /\ i + 1 - 1 = i /\ i + 1 # 0
      BY <3>1 DEF g, h
    <3> QED
      BY <2>1, <3>1, <3>2
  <2>4. T = Nat
    <3> HIDE DEF T
    <3>1. T \subseteq Nat
      BY DEF T
    <3> QED
      BY <2>2, <2>3, <3>1, SetInduction
  <2> QED
    BY <2>4
<1>7. ASSUME NEW n \in Nat PROVE Padded(m, n + 1) = Longer(Padded(m, n))
  <2>1. Padded(m, n + 1) = Longer(grown(n + 1)[n])
    BY <1>4, <1>5
  <2> QED
    BY <1>4, <1>6, <2>1
<1>8. Padded(m, 0) = m
  BY <1>4, <1>5
<1> QED
  BY <1>7, <1>8

\* All the lines of a message come from one stream.
LEMMA PaddingKeepsKey ==
  ASSUME NEW m, IsRng(m.rng), NEW n \in Nat
  PROVE  IsRng(Padded(m, n).rng) /\ Padded(m, n).rng.key = m.rng.key
<1> DEFINE S == {i \in Nat : IsRng(Padded(m, i).rng) /\ Padded(m, i).rng.key = m.rng.key}
<1>1. 0 \in S
  <2>1. Padded(m, 0) = m
    BY PaddedStep
  <2> QED
    BY <2>1
<1>2. ASSUME NEW i \in S PROVE i + 1 \in S
  <2>0. i \in Nat /\ IsRng(Padded(m, i).rng) /\ Padded(m, i).rng.key = m.rng.key
    OBVIOUS
  <2>1. Padded(m, i + 1).rng = Skip(Padded(m, i).rng, 2)
    <3>1. Padded(m, i + 1) = Longer(Padded(m, i))
      BY <2>0, PaddedStep
    <3> QED
      BY <3>1 DEF Longer
  <2>2. ASSUME NEW g, IsRng(g) PROVE IsRng(Skip(g, 2)) /\ Skip(g, 2).key = g.key
    BY <2>2 DEF IsRng, Skip
  <2> HIDE DEF IsRng
  <2> QED
    BY <2>0, <2>1, <2>2
<1>3. S = Nat
  <2> HIDE DEF S
  <2>1. S \subseteq Nat
    BY DEF S
  <2> QED
    BY <1>1, <1>2, <2>1, SetInduction
<1> QED
  BY <1>3

-----------------------------------------------------------------------------
(* The progress of the threads *)

Working == {"seeding", "drawing", "message", "padding"}

TypeInv ==
  /\ seed \in Words /\ invocations \in Nat /\ dry \in BOOLEAN
  /\ batch_size \in Nat \ {0}
  /\ pc \in [Threads -> Working \cup {"idle", "done"}]
  /\ made \in [Threads -> Nat]
  /\ rng = [b \in Threads |-> rng[b]]
  /\ head = [b \in Threads |-> head[b]]
  /\ line = [b \in Threads |-> line[b]]
  /\ kept = [r \in Records |-> kept[r]]

Batches == 0 .. (IF dry THEN 1 ELSE total_batches) - 1

\* A thread works on a batch there is and has records left to make; one that is
\* done has made them all.
Placed(b) ==
  /\ pc[b] = "idle" => made[b] = 0
  /\ pc[b] # "idle" => b \in Batches
  /\ pc[b] \in Working => made[b] < this_batch(b)
  /\ pc[b] = "done" => made[b] = this_batch(b)

ThreadInv == \A b \in Threads : Placed(b)

\* Products of numbers are numbers.
LEMMA Products ==
  ASSUME NEW a \in Nat, NEW b \in Nat
  PROVE  a * b \in Nat /\ 0 * b = 0
OBVIOUS

\* Of no records there is none.
LEMMA NothingYet ==
  ASSUME NEW first \in Nat, NEW r \in Nat, NEW count, count = 0, first <= r, r < first + count
  PROVE  FALSE
OBVIOUS

\* Batch 0 is there, with records.
LEMMA FirstBatch ==
  ASSUME NEW d \in BOOLEAN, NEW count \in Nat \ {0}, NEW size \in Nat \ {0}
  PROVE  /\ 0 \in 0 .. (IF d THEN 1 ELSE count) - 1
         /\ (IF d THEN 1 ELSE SmallerOf(size, Total - 0)) > 0
BY ArgsAssumption DEF SmallerOf

\* A quotient that is rounded up counts the multiples of the divisor below t.
LEMMA RoundedUp ==
  ASSUME NEW t \in Nat \ {0}, NEW size \in Nat \ {0}
  PROVE  /\ (t + size - 1) \div size \in Nat \ {0}
         /\ \A b \in Nat : b < (t + size - 1) \div size <=> b * size < t
<1> DEFINE n == t + size - 1
           q == n \div size
           m == n % size
<1>1. size \in Nat \ {0} /\ t \in Nat \ {0}
  OBVIOUS
<1>2. n \in Nat /\ n >= size /\ n = t + size - 1
  OBVIOUS
<1>3. q \in Nat /\ m \in 0 .. size - 1 /\ n = size * q + m
  <2> HIDE DEF n
  <2> QED
    BY <1>1, <1>2, DivMod
<1> HIDE DEF n, q, m
<1>4. q # 0
  <2>1. SUFFICES ASSUME q = 0 PROVE FALSE
    OBVIOUS
  <2>2. size * q = 0
    BY <1>1, <2>1
  <2> QED
    BY <1>1, <1>2, <1>3, <2>2
<1>5. ASSUME NEW b \in Nat PROVE b < q <=> b * size < t
  <2>1. CASE b < q
    <3>1. b * size <= size * q - size
      <4>1. b + 1 <= q
        BY <1>3, <2>1
      <4>2. size * (b + 1) <= size * q
        BY <1>1, <1>3, <4>1, Z3
      <4>3. size * (b + 1) = b * size + size
        BY <1>1, Z3
      <4>4. b * size \in Int /\ size * q \in Int
        BY <1>1, <1>3, Z3
      <4> QED
        BY <1>1, <4>2, <4>3, <4>4
    <3>2. b * size \in Int /\ size * q \in Int
      BY <1>1, <1>3, Z3
    <3> QED
      BY <1>1, <1>2, <1>3, <2>1, <3>1, <3>2
  <2>2. CASE ~ (b < q)
    <3>1. b * size >= size * q
      BY <1>1, <1>3, <2>2, Z3
    <3>2. b * size \in Int /\ size * q \in Int
      BY <1>1, <1>3, Z3
    <3> QED
      BY <1>1, <1>2, <1>3, <2>2, <3>1, <3>2
  <2> QED
    BY <2>1, <2>2
<1> QED
  BY <1>3, <1>4, <1>5 DEF n, q

\* The batches are as many as it takes for the last to begin before Total.
LEMMA BatchCount ==
  ASSUME TypeInv
  PROVE  /\ total_batches \in Nat \ {0}
         /\ \A b \in Nat : b < total_batches <=> b * batch_size < Total
BY ArgsAssumption, RoundedUp DEF TypeInv, total_batches

\* A batch there is has records, of indices below Total.
LEMMA BatchesHaveRecords ==
  ASSUME TypeInv, NEW b \in Batches
  PROVE  /\ start_record_idx(b) \in Records /\ this_batch(b) \in Nat \ {0}
         /\ start_record_idx(b) + this_batch(b) <= Total
<1>1. b \in Nat /\ b < total_batches
  BY BatchCount DEF Batches, TypeInv
<1>2. b * batch_size < Total
  BY <1>1, BatchCount
<1>3. batch_size \in Nat \ {0} /\ Total \in Nat \ {0} /\ dry \in BOOLEAN
  BY ArgsAssumption DEF TypeInv
<1>4. b * batch_size \in Nat
  BY <1>1, <1>3, Z3
<1> DEFINE first == b * batch_size
<1> HIDE DEF first
<1>5. start_record_idx(b) = first /\ first \in Nat /\ first < Total
  BY <1>2, <1>4 DEF start_record_idx, first
<1> QED
  BY <1>3, <1>5 DEF Records, this_batch, SmallerOf

\* A thread at work makes a record there is; in a dry run it is record 0.
LEMMA RecordsOfThreads ==
  ASSUME TypeInv, ThreadInv, NEW b \in Threads, pc[b] \in Working
  PROVE  record_idx(b) \in Records /\ (dry => record_idx(b) = 0)
<1>1. b \in Batches /\ made[b] \in Nat /\ made[b] < this_batch(b)
  BY DEF TypeInv, ThreadInv, Placed, Working
<1>2. /\ start_record_idx(b) \in Nat /\ this_batch(b) \in Nat
      /\ start_record_idx(b) + this_batch(b) <= Total
  BY <1>1, BatchesHaveRecords DEF Records
<1>3. record_idx(b) \in Records
  BY <1>1, <1>2, ArgsAssumption DEF record_idx, Records
<1>4. ASSUME dry PROVE record_idx(b) = 0
  <2>1. b = 0 /\ made[b] = 0
    BY <1>1, <1>4 DEF Batches, this_batch
  <2>2. batch_size \in Nat
    BY DEF TypeInv
  <2> QED
    BY <2>1, <2>2 DEF record_idx, start_record_idx
<1> QED
  BY <1>3, <1>4

-----------------------------------------------------------------------------
(* What the threads make *)

\* What seed and index alone say of record r: its key, its generator before and
\* after the fields, the fields, and its message as the first line leaves it.
KeyFor(r) == splitmix64(Xor(seed, r))
Fresh(r) == [key |-> KeyFor(r), pos |-> 0]
Drawn(r) == Skip(Fresh(r), Len(HeadRanges))
HeadOf(r) == DrawAll(Fresh(r), HeadRanges)
Opened(r) == Opening(Drawn(r), HeadOf(r))

Long(m) == m.line.length >= MinLine

\* m is the message of r after n more lines, each of which it needed.
Reached(r, n, m) ==
  m = Padded(Opened(r), n) /\ \A i \in 0 .. n - 1 : ~ Long(Padded(Opened(r), i))

\* Record r with the message m.
RecordOf(r, m) ==
  [stream  |-> m.rng.key,
   head    |-> HeadOf(r),
   client  |-> client_ip(Field(HeadOf(r), "client")),
   message |-> [m.line EXCEPT !.length = @ + IdsLength],
   tail    |-> DrawAll(m.rng, TailRanges)]

MessageOf(b) == [line |-> line[b], rng |-> rng[b]]

\* A thread has what its record is made of, as far as it is.
Content(b) ==
  /\ pc[b] = "drawing" => rng[b] = Fresh(record_idx(b))
  /\ pc[b] = "message" => rng[b] = Drawn(record_idx(b)) /\ head[b] = HeadOf(record_idx(b))
  /\ pc[b] = "padding" =>
       /\ head[b] = HeadOf(record_idx(b))
       /\ \E n \in Nat : Reached(record_idx(b), n, MessageOf(b))

\* A record that was generated is the one of its seed and index.
Genuine(r, x) ==
  \E n \in Nat : \E m : Reached(r, n, m) /\ Long(m) /\ x = RecordOf(r, m)

\* A thread has generated the records it has counted.
Generated(b) ==
  \A r \in Records :
    start_record_idx(b) <= r /\ r < start_record_idx(b) + made[b] => kept[r] # {}

ContentInv == \A b \in Threads : Content(b)
KeptInv == \A r \in Records : \A x \in kept[r] : Genuine(r, x)
MadeInv == \A b \in Threads : Generated(b)

IInv == TypeInv /\ ThreadInv /\ ContentInv /\ KeptInv /\ MadeInv

\* No draw is from an empty range, however few records there are.
LEMMA AllDrawable == Drawable(HeadRanges)
<1>1. Word > 0 /\ trace_universe > 0 /\ ip_universe > 0 /\ ja3_universe > 0
  <2>1. \A n \in Nat : AtLeastOne(n) > 0
    BY DEF AtLeastOne, LargerOf
  <2>2. \A n \in Nat : n \div 156 \in Nat /\ n \div 2000000 \in Nat
    OBVIOUS
  <2>3. 20 * Total + 78 \in Nat
    BY ArgsAssumption
  <2>4. \A u \in Nat : 2 * Total * u + 1000000 \in Nat
    BY ArgsAssumption
  <2>5. Share(5127) \in Nat /\ Share(61733) \in Nat
    BY <2>2, <2>4 DEF Share
  <2> QED
    BY <2>1, <2>2, <2>3, <2>5, ArgsAssumption DEF trace_universe, ip_universe, ja3_universe
<1>2. \A i \in DOMAIN HeadRanges : HeadRanges[i] > 0
  <2>1. DOMAIN HeadRanges = 1 .. 17
    BY DEF HeadRanges
  <2> QED
    BY <1>1, <2>1 DEF HeadRanges
<1> QED
  BY <1>2 DEF Drawable

\* What a record is made of is fixed as long as the seed is.
LEMMA SeedFixesRecords ==
  ASSUME seed' = seed
  PROVE  \A r : /\ Fresh(r)' = Fresh(r) /\ Drawn(r)' = Drawn(r)
                /\ HeadOf(r)' = HeadOf(r) /\ Opened(r)' = Opened(r)
BY DEF KeyFor, Fresh, Drawn, HeadOf, Opened

LEMMA SeedFixesThread ==
  ASSUME seed' = seed, NEW b, record_idx(b)' = record_idx(b)
  PROVE  /\ Fresh(record_idx(b))' = Fresh(record_idx(b))
         /\ Drawn(record_idx(b))' = Drawn(record_idx(b))
         /\ HeadOf(record_idx(b))' = HeadOf(record_idx(b))
         /\ Opened(record_idx(b))' = Opened(record_idx(b))
BY DEF KeyFor, Fresh, Drawn, HeadOf, Opened

LEMMA SeedFixesGenuine ==
  ASSUME seed' = seed
  PROVE  /\ \A r, n, m : Reached(r, n, m)' <=> Reached(r, n, m)
         /\ \A r, x : Genuine(r, x)' <=> Genuine(r, x)
<1>1. \A r : HeadOf(r)' = HeadOf(r) /\ Opened(r)' = Opened(r)
  BY SeedFixesRecords
<1>2. \A r, n, m : Reached(r, n, m)' <=> Reached(r, n, m)
  BY <1>1 DEF Reached
<1>3. \A r, m : RecordOf(r, m)' = RecordOf(r, m)
  BY <1>1 DEF RecordOf
<1> QED
  BY <1>2, <1>3 DEF Genuine

\* A step leaves a thread as it is that it does not touch.
LEMMA OtherThreads ==
  ASSUME IInv, NEW b \in Threads,
         seed' = seed, dry' = dry, batch_size' = batch_size,
         pc'[b] = pc[b], made'[b] = made[b],
         rng'[b] = rng[b], head'[b] = head[b], line'[b] = line[b],
         \A r \in Records : kept[r] \subseteq kept'[r]
  PROVE  Placed(b)' /\ Content(b)' /\ Generated(b)'
<1>1. Placed(b) /\ Content(b) /\ Generated(b)
  BY DEF IInv, ThreadInv, ContentInv, MadeInv
<1>2. /\ Batches' = Batches /\ this_batch(b)' = this_batch(b)
      /\ start_record_idx(b)' = start_record_idx(b) /\ record_idx(b)' = record_idx(b)
      /\ MessageOf(b)' = MessageOf(b)
  BY DEF Batches, total_batches, this_batch, start_record_idx, record_idx, MessageOf
<1>3. Placed(b)'
  BY <1>1, <1>2 DEF Placed
<1>4. Content(b)'
  <2>1. \A r : Fresh(r)' = Fresh(r) /\ Drawn(r)' = Drawn(r) /\ HeadOf(r)' = HeadOf(r)
    BY SeedFixesRecords
  <2>2. \A r, n, m : Reached(r, n, m)' <=> Reached(r, n, m)
    BY SeedFixesGenuine
  <2> QED
    BY <1>1, <1>2, <2>1, <2>2 DEF Content
<1>5. Generated(b)'
  BY <1>1, <1>2 DEF Generated
<1> QED
  BY <1>3, <1>4, <1>5

-----------------------------------------------------------------------------
(* The inductive invariant *)

LEMMA InitEstablishes == Init => IInv
<1> SUFFICES ASSUME Init PROVE IInv
  OBVIOUS
<1>1. TypeInv
  BY ArgsAssumption DEF Init, TypeInv, Words, Working
<1>2. ThreadInv
  BY DEF Init, ThreadInv, Placed, Working
<1>3. ContentInv
  BY DEF Init, ContentInv, Content
<1>4. KeptInv
  BY DEF Init, KeptInv
<1>5. MadeInv
  <2>1. ASSUME NEW b \in Threads, NEW r \in Records,
               start_record_idx(b) <= r, r < start_record_idx(b) + made[b]
        PROVE  FALSE
    <3>1. made[b] = 0 /\ b \in Nat /\ batch_size \in Nat
      BY ArgsAssumption DEF Init, Threads, Records
    <3>2. start_record_idx(b) \in Nat
      BY <3>1, Z3 DEF start_record_idx
    <3> QED
      BY <2>1, <3>1, <3>2, ArgsAssumption DEF Records
  <2> QED
    BY <2>1 DEF MadeInv, Generated
<1> QED
  BY <1>1, <1>2, <1>3, <1>4, <1>5 DEF IInv

\* Each invocation starts its threads from nothing and keeps what there is.
LEMMA InvokeKeeps ==
  ASSUME IInv, Invoke
  PROVE  IInv'
<1>1. TypeInv'
  BY ArgsAssumption DEF IInv, Invoke, TypeInv, Working
<1>2. 0 \in Batches' /\ this_batch(0)' > 0
  <2>1. total_batches' \in Nat \ {0}
    BY <1>1, ArgsAssumption, RoundedUp DEF TypeInv, total_batches
  <2>2. batch_size' \in Nat \ {0} /\ dry' \in BOOLEAN
    BY <1>1 DEF TypeInv
  <2>3. start_record_idx(0)' = 0
    BY <2>2, Products DEF start_record_idx
  <2>4. this_batch(0)' = IF dry' THEN 1 ELSE SmallerOf(batch_size', Total - 0)
    BY <2>3 DEF this_batch
  <2> QED
    BY <2>1, <2>2, <2>4, FirstBatch DEF Batches
<1>3. ThreadInv'
  BY <1>2 DEF Invoke, ThreadInv, Placed, Working
<1>4. ContentInv'
  BY DEF Invoke, ContentInv, Content
<1>5. KeptInv'
  BY SeedFixesGenuine DEF IInv, Invoke, KeptInv
<1>6. MadeInv'
  <2>1. ASSUME NEW b \in Threads, NEW r \in Records,
               start_record_idx(b)' <= r, r < start_record_idx(b)' + made'[b]
        PROVE  FALSE
    <3>1. made'[b] = 0 /\ b \in Nat /\ batch_size' \in Nat
      BY <1>1 DEF Invoke, Threads, Records, TypeInv
    <3>2. b * batch_size' \in Nat /\ start_record_idx(b)' = b * batch_size'
      BY <3>1, Products DEF start_record_idx
    <3>3. r \in Nat
      BY ArgsAssumption DEF Records
    <3> QED
      BY <2>1, <3>1, <3>2, <3>3, NothingYet
  <2> QED
    BY <2>1 DEF MadeInv, Generated
<1> QED
  BY <1>1, <1>3, <1>4, <1>5, <1>6 DEF IInv

\* The step of one thread: it keeps the invariant if it does for that thread
\* and for the records kept.
LEMMA OneThread ==
  ASSUME IInv, NEW b \in Threads, TypeInv',
         seed' = seed, dry' = dry, batch_size' = batch_size,
         \A c \in Threads \ {b} :
           /\ pc'[c] = pc[c] /\ made'[c] = made[c]
           /\ rng'[c] = rng[c] /\ head'[c] = head[c] /\ line'[c] = line[c],
         \A r \in Records : kept[r] \subseteq kept'[r],
         Placed(b)', Content(b)', Generated(b)', KeptInv'
  PROVE  IInv'
<1>1. \A c \in Threads : Placed(c)' /\ Content(c)' /\ Generated(c)'
  <2>1. ASSUME NEW c \in Threads \ {b} PROVE Placed(c)' /\ Content(c)' /\ Generated(c)'
    BY OtherThreads
  <2> QED
    BY <2>1
<1> QED
  BY <1>1 DEF IInv, ThreadInv, ContentInv, MadeInv

\* A step that keeps no record keeps the ones there are genuine.
LEMMA KeptStays ==
  ASSUME IInv, seed' = seed, kept' = kept
  PROVE  KeptInv' /\ \A r \in Records : kept[r] \subseteq kept'[r]
BY SeedFixesGenuine DEF IInv, KeptInv

\* A step that counts no record leaves the counted ones generated.
LEMMA MadeStays ==
  ASSUME IInv, NEW b \in Threads, made' = made, kept' = kept, batch_size' = batch_size
  PROVE  Generated(b)'
BY DEF IInv, MadeInv, Generated, start_record_idx

\* A batch that is started has made nothing yet.
LEMMA StartBatchKeeps ==
  ASSUME IInv, NEW b \in Threads, StartBatch(b)
  PROVE  IInv'
<1>1. TypeInv'
  BY DEF IInv, StartBatch, TypeInv, Working
<1>2. Placed(b)'
  <2>1. b \in Batches /\ this_batch(b) > 0
    <3>1. b \in Batches
      BY BatchCount DEF IInv, StartBatch, Batches
    <3> QED
      BY <3>1, BatchesHaveRecords DEF IInv
  <2>2. Batches' = Batches /\ this_batch(b)' = this_batch(b)
    BY DEF StartBatch, Batches, total_batches, this_batch, start_record_idx
  <2>3. pc'[b] = "seeding" /\ made'[b] = 0
    BY DEF IInv, StartBatch, TypeInv, ThreadInv, Placed
  <2> QED
    BY <2>1, <2>2, <2>3 DEF Placed, Working
<1>3. Content(b)'
  BY DEF IInv, StartBatch, TypeInv, Content
<1>4. /\ seed' = seed /\ dry' = dry /\ batch_size' = batch_size /\ kept' = kept /\ made' = made
      /\ \A c \in Threads \ {b} :
           /\ pc'[c] = pc[c] /\ made'[c] = made[c]
           /\ rng'[c] = rng[c] /\ head'[c] = head[c] /\ line'[c] = line[c]
  BY DEF IInv, StartBatch, TypeInv
<1> QED
  BY <1>1, <1>2, <1>3, <1>4, KeptStays, MadeStays, OneThread

\* The generator is seeded from the index of the record, in a dry run as well.
LEMMA SeedKeeps ==
  ASSUME IInv, NEW b \in Threads, Seed(b)
  PROVE  IInv'
<1>1. TypeInv'
  BY DEF IInv, Seed, TypeInv, Working
<1>2. /\ seed' = seed /\ dry' = dry /\ batch_size' = batch_size /\ kept' = kept /\ made' = made
      /\ \A c \in Threads \ {b} :
           /\ pc'[c] = pc[c] /\ made'[c] = made[c]
           /\ rng'[c] = rng[c] /\ head'[c] = head[c] /\ line'[c] = line[c]
  BY DEF IInv, Seed, TypeInv
<1>3. pc[b] = "seeding" /\ pc'[b] = "drawing" /\ rng'[b] = [key |-> KeyOf(b), pos |-> 0]
  BY DEF IInv, Seed, TypeInv
<1>4. Placed(b)'
  <2>1. Batches' = Batches /\ this_batch(b)' = this_batch(b)
    BY <1>2 DEF Batches, total_batches, this_batch, start_record_idx
  <2> QED
    BY <1>2, <1>3, <2>1 DEF IInv, ThreadInv, Placed, Working
<1>5. Content(b)'
  <2>1. record_idx(b)' = record_idx(b)
    BY <1>2 DEF record_idx, start_record_idx
  <2>2. KeyOf(b) = KeyFor(record_idx(b))
    <3>1. dry => record_idx(b) = 0
      BY <1>3, RecordsOfThreads DEF IInv, Working
    <3>2. Xor(seed, 0) = seed
      BY XorAssumption DEF IInv, TypeInv, Words
    <3> QED
      BY <3>1, <3>2 DEF KeyOf, KeyFor
  <2>3. rng'[b] = Fresh(record_idx(b))
    BY <1>3, <2>2 DEF Fresh
  <2>4. Fresh(record_idx(b))' = Fresh(record_idx(b))
    BY <1>2, <2>1, SeedFixesThread
  <2> QED
    BY <1>3, <2>3, <2>4 DEF Content
<1> QED
  BY <1>1, <1>2, <1>4, <1>5, KeptStays, MadeStays, OneThread

\* The fields are the ones the seed and the index make.
LEMMA DrawHeadKeeps ==
  ASSUME IInv, NEW b \in Threads, DrawHead(b)
  PROVE  IInv'
<1>1. /\ pc[b] = "drawing"
      /\ head' = [head EXCEPT ![b] = DrawAll(rng[b], HeadRanges)]
      /\ rng' = [rng EXCEPT ![b] = Skip(@, Len(HeadRanges))]
      /\ pc' = [pc EXCEPT ![b] = "message"]
      /\ UNCHANGED <<seed, invocations, dry, batch_size, made, line, kept>>
  BY AllDrawable DEF DrawHead
<1>2. TypeInv'
  BY <1>1 DEF IInv, TypeInv, Working
<1>3. /\ seed' = seed /\ dry' = dry /\ batch_size' = batch_size /\ kept' = kept /\ made' = made
      /\ \A c \in Threads \ {b} :
           /\ pc'[c] = pc[c] /\ made'[c] = made[c]
           /\ rng'[c] = rng[c] /\ head'[c] = head[c] /\ line'[c] = line[c]
  BY <1>1 DEF IInv, TypeInv
<1>4. /\ pc'[b] = "message" /\ head'[b] = DrawAll(rng[b], HeadRanges)
      /\ rng'[b] = Skip(rng[b], Len(HeadRanges))
  BY <1>1 DEF IInv, TypeInv
<1>5. Placed(b)'
  <2>1. Batches' = Batches /\ this_batch(b)' = this_batch(b)
    BY <1>3 DEF Batches, total_batches, this_batch, start_record_idx
  <2> QED
    BY <1>1, <1>3, <1>4, <2>1 DEF IInv, ThreadInv, Placed, Working
<1>6. Content(b)'
  <2>1. record_idx(b)' = record_idx(b)
    BY <1>3 DEF record_idx, start_record_idx
  <2>2. rng[b] = Fresh(record_idx(b))
    BY <1>1 DEF IInv, ContentInv, Content
  <2>3. rng'[b] = Drawn(record_idx(b)) /\ head'[b] = HeadOf(record_idx(b))
    BY <1>4, <2>2 DEF Drawn, HeadOf
  <2>4. /\ Drawn(record_idx(b))' = Drawn(record_idx(b))
        /\ HeadOf(record_idx(b))' = HeadOf(record_idx(b))
    BY <1>3, <2>1, SeedFixesThread
  <2> QED
    BY <1>4, <2>3, <2>4 DEF Content
<1> QED
  BY <1>2, <1>3, <1>5, <1>6, KeptStays, MadeStays, OneThread

\* The first line opens the message.
LEMMA FirstLineKeeps ==
  ASSUME IInv, NEW b \in Threads, FirstLine(b)
  PROVE  IInv'
<1> DEFINE message == Opening(rng[b], head[b])
<1>1. /\ pc[b] = "message"
      /\ line' = [line EXCEPT ![b] = message.line]
      /\ rng' = [rng EXCEPT ![b] = message.rng]
      /\ pc' = [pc EXCEPT ![b] = "padding"]
      /\ UNCHANGED <<seed, invocations, dry, batch_size, made, head, kept>>
  BY DEF FirstLine
<1> HIDE DEF message
<1>2. TypeInv'
  BY <1>1 DEF IInv, TypeInv, Working
<1>3. /\ seed' = seed /\ dry' = dry /\ batch_size' = batch_size /\ kept' = kept /\ made' = made
      /\ \A c \in Threads \ {b} :
           /\ pc'[c] = pc[c] /\ made'[c] = made[c]
           /\ rng'[c] = rng[c] /\ head'[c] = head[c] /\ line'[c] = line[c]
  BY <1>1 DEF IInv, TypeInv
<1>4. /\ pc'[b] = "padding" /\ head'[b] = head[b]
      /\ rng'[b] = message.rng /\ line'[b] = message.line
  BY <1>1 DEF IInv, TypeInv
<1>5. Placed(b)'
  <2>1. Batches' = Batches /\ this_batch(b)' = this_batch(b)
    BY <1>3 DEF Batches, total_batches, this_batch, start_record_idx
  <2> QED
    BY <1>1, <1>3, <1>4, <2>1 DEF IInv, ThreadInv, Placed, Working
<1>6. Content(b)'
  <2> DEFINE r == record_idx(b)
  <2>1. record_idx(b)' = r
    BY <1>3 DEF record_idx, start_record_idx
  <2>2. rng[b] = Drawn(r) /\ head[b] = HeadOf(r)
    BY <1>1 DEF IInv, ContentInv, Content
  <2>3. message = Opened(r)
    BY <2>2 DEF message, Opened
  <2>4. message = [line |-> message.line, rng |-> message.rng]
    BY DEF message, Opening
  <2>5. MessageOf(b)' = Opened(r)
    BY <1>4, <2>3, <2>4 DEF MessageOf
  <2>6. Padded(Opened(r), 0) = Opened(r)
    BY PaddedStep
  <2>7. Reached(r, 0, Opened(r))
    BY <2>6 DEF Reached
  <2> HIDE DEF r
  <2>8. HeadOf(record_idx(b))' = HeadOf(r) /\ Opened(record_idx(b))' = Opened(r)
    BY <1>3, <2>1, SeedFixesThread DEF r
  <2>9. Reached(record_idx(b), 0, MessageOf(b))'
    BY <2>5, <2>7, <2>8 DEF Reached
  <2> QED
    BY <1>4, <2>2, <2>8, <2>9 DEF Content
<1> QED
  BY <1>2, <1>3, <1>5, <1>6, KeptStays, MadeStays, OneThread

\* A line is added only to a message that is too short.
LEMMA PadKeeps ==
  ASSUME IInv, NEW b \in Threads, Pad(b)
  PROVE  IInv'
<1> DEFINE message == Longer(MessageOf(b))
<1>1. /\ pc[b] = "padding" /\ ~LongEnough(b)
      /\ line' = [line EXCEPT ![b] = message.line]
      /\ rng' = [rng EXCEPT ![b] = message.rng]
      /\ UNCHANGED <<seed, invocations, dry, batch_size, pc, made, head, kept>>
  BY DEF Pad, MessageOf
<1> HIDE DEF message
<1>2. TypeInv'
  BY <1>1 DEF IInv, TypeInv, Working
<1>3. /\ seed' = seed /\ dry' = dry /\ batch_size' = batch_size /\ kept' = kept /\ made' = made
      /\ \A c \in Threads \ {b} :
           /\ pc'[c] = pc[c] /\ made'[c] = made[c]
           /\ rng'[c] = rng[c] /\ head'[c] = head[c] /\ line'[c] = line[c]
  BY <1>1 DEF IInv, TypeInv
<1>4. /\ pc'[b] = "padding" /\ head'[b] = head[b]
      /\ rng'[b] = message.rng /\ line'[b] = message.line
  BY <1>1 DEF IInv, TypeInv
<1>5. Placed(b)'
  <2>1. Batches' = Batches /\ this_batch(b)' = this_batch(b)
    BY <1>3 DEF Batches, total_batches, this_batch, start_record_idx
  <2> QED
    BY <1>1, <1>3, <1>4, <2>1 DEF IInv, ThreadInv, Placed, Working
<1>6. Content(b)'
  <2> DEFINE r == record_idx(b)
  <2>1. record_idx(b)' = r
    BY <1>3 DEF record_idx, start_record_idx
  <2>2. head[b] = HeadOf(r) /\ \E n \in Nat : Reached(r, n, MessageOf(b))
    BY <1>1 DEF IInv, ContentInv, Content
  <2> HIDE DEF r
  <2>3. PICK n \in Nat : Reached(r, n, MessageOf(b))
    BY <2>2
  <2>4. ~ Long(MessageOf(b))
    BY <1>1 DEF Long, LongEnough, MessageOf
  <2>5. message = [line |-> message.line, rng |-> message.rng]
    BY DEF message, Longer
  <2>6. MessageOf(b)' = message
    BY <1>4, <2>5 DEF MessageOf
  <2>7. message = Padded(Opened(r), n + 1)
    BY <2>3, PaddedStep DEF Reached, message
  <2>8. \A i \in 0 .. n : ~ Long(Padded(Opened(r), i))
    BY <2>3, <2>4 DEF Reached
  <2>9. Reached(r, n + 1, message)
    BY <2>7, <2>8 DEF Reached
  <2>10. HeadOf(record_idx(b))' = HeadOf(r) /\ Opened(record_idx(b))' = Opened(r)
    BY <1>3, <2>1, SeedFixesThread DEF r
  <2>11. Reached(record_idx(b), n + 1, MessageOf(b))'
    BY <2>6, <2>9, <2>10 DEF Reached
  <2>12. n + 1 \in Nat
    OBVIOUS
  <2> QED
    BY <1>4, <2>2, <2>10, <2>11, <2>12 DEF Content
<1> QED
  BY <1>2, <1>3, <1>5, <1>6, KeptStays, MadeStays, OneThread

\* A message that is long enough completes its record, at the index of that
\* record, and the thread goes on to the next one or is done.
LEMMA FinishRecordKeeps ==
  ASSUME IInv, NEW b \in Threads, FinishRecord(b)
  PROVE  IInv'
<1> DEFINE r == record_idx(b)
           count == made[b] + 1
<1>1. /\ pc[b] = "padding" /\ LongEnough(b)
      /\ kept' = [kept EXCEPT ![r] = @ \cup {Record(b)}]
      /\ made' = [made EXCEPT ![b] = @ + 1]
      /\ pc' = [pc EXCEPT ![b] = IF made'[b] = this_batch(b) THEN "done" ELSE "seeding"]
      /\ UNCHANGED <<seed, invocations, dry, batch_size, rng, head, line>>
  BY DEF FinishRecord
<1>2. TypeInv'
  <2>1. made[b] + 1 \in Nat
    BY DEF IInv, TypeInv
  <2> QED
    BY <1>1, <2>1 DEF IInv, TypeInv, Working
<1>3. r \in Records
  BY <1>1, RecordsOfThreads DEF IInv, Working
<1> HIDE DEF r
<1>4. /\ seed' = seed /\ dry' = dry /\ batch_size' = batch_size
      /\ \A c \in Threads \ {b} :
           /\ pc'[c] = pc[c] /\ made'[c] = made[c]
           /\ rng'[c] = rng[c] /\ head'[c] = head[c] /\ line'[c] = line[c]
  BY <1>1 DEF IInv, TypeInv
<1>5. /\ kept'[r] = kept[r] \cup {Record(b)}
      /\ \A q \in Records \ {r} : kept'[q] = kept[q]
  BY <1>1, <1>3 DEF IInv, TypeInv
<1>6. /\ made'[b] = count /\ made[b] \in Nat /\ made[b] < this_batch(b)
      /\ pc'[b] = IF count = this_batch(b) THEN "done" ELSE "seeding"
  BY <1>1 DEF IInv, TypeInv, ThreadInv, Placed, Working
<1>7. Placed(b)'
  <2>1. Batches' = Batches /\ this_batch(b)' = this_batch(b)
    BY <1>4 DEF Batches, total_batches, this_batch, start_record_idx
  <2>2. b \in Batches /\ this_batch(b) \in Nat
    BY <1>1, BatchesHaveRecords DEF IInv, ThreadInv, Placed
  <2>3. count # this_batch(b) => count < this_batch(b)
    BY <1>6, <2>2
  <2> HIDE DEF count
  <2> QED
    BY <1>6, <2>1, <2>2, <2>3 DEF Placed, Working
<1>8. Content(b)'
  BY <1>6 DEF Content
<1>9. Generated(b)'
  <2> DEFINE first == start_record_idx(b)
  <2>1. start_record_idx(b)' = first
    BY <1>4 DEF start_record_idx
  <2>2. r = first + made[b] /\ first \in Nat
    <3>1. b \in Batches
      BY <1>1 DEF IInv, ThreadInv, Placed
    <3> QED
      BY <3>1, BatchesHaveRecords DEF IInv, r, record_idx, Records
  <2> HIDE DEF first
  <2>3. ASSUME NEW q \in Records, first <= q, q < first + count PROVE kept'[q] # {}
    <3>1. CASE q = r
      BY <1>5, <3>1
    <3>2. CASE q # r
      <4>1. q < first + made[b]
        BY <1>6, <2>2, <2>3, <3>2, ArgsAssumption DEF Records
      <4>2. kept[q] # {}
        BY <2>3, <4>1 DEF IInv, MadeInv, Generated, first
      <4> QED
        BY <1>5, <3>2, <4>2
    <3> QED
      BY <3>1, <3>2
  <2> HIDE DEF count
  <2> QED
    BY <1>6, <2>1, <2>3 DEF Generated
<1>10. KeptInv'
  <2>1. Genuine(r, Record(b))
    <3>1. head[b] = HeadOf(r) /\ \E n \in Nat : Reached(r, n, MessageOf(b))
      BY <1>1 DEF IInv, ContentInv, Content, r
    <3>2. Long(MessageOf(b))
      BY <1>1 DEF Long, LongEnough, MessageOf
    <3>3. Record(b) = RecordOf(r, MessageOf(b))
      BY <3>1 DEF Record, RecordOf, MessageOf
    <3> QED
      BY <3>1, <3>2, <3>3 DEF Genuine
  <2>2. \A q \in Records : \A x \in kept'[q] : Genuine(q, x)
    BY <1>5, <2>1 DEF IInv, KeptInv
  <2> QED
    BY <1>4, <2>2, SeedFixesGenuine DEF KeptInv
<1>11. \A q \in Records : kept[q] \subseteq kept'[q]
  BY <1>5
<1> QED
  BY <1>2, <1>4, <1>7, <1>8, <1>9, <1>10, <1>11, OneThread

\* Whatever invocations, batches and threads there are: the records kept are
\* the ones of their seed and index, and those counted are kept.
THEOREM GeneratorInvariant == Spec => []IInv
<1>1. Init => IInv
  BY InitEstablishes
<1>2. IInv /\ [Next]_vars => IInv'
  <2> SUFFICES ASSUME IInv, [Next]_vars PROVE IInv'
    OBVIOUS
  <2>1. CASE Invoke
    BY <2>1, InvokeKeeps
  <2>2. ASSUME NEW b \in Threads, Thread(b) PROVE IInv'
    BY <2>2, StartBatchKeeps, SeedKeeps, DrawHeadKeeps, FirstLineKeeps, PadKeeps,
       FinishRecordKeeps DEF Thread
  <2>3. CASE UNCHANGED vars
    <3> USE <2>3 DEF vars
    <3>1. TypeInv'
      BY DEF IInv, TypeInv
    <3>2. ThreadInv'
      BY DEF IInv, ThreadInv, Placed, Batches, total_batches, this_batch, start_record_idx
    <3>3. ASSUME NEW b \in Threads PROVE Content(b)' /\ Generated(b)'
      BY OtherThreads DEF IInv
    <3>4. KeptInv'
      BY KeptStays
    <3> QED
      BY <3>1, <3>2, <3>3, <3>4 DEF IInv, ContentInv, MadeInv
  <2> QED
    BY <2>1, <2>2, <2>3 DEF Next, Stop
<1> QED
  BY <1>1, <1>2, PTL DEF Spec

-----------------------------------------------------------------------------
(* The properties *)

\* The first message of a record that is long enough is the only one.
LEMMA OneMessage ==
  ASSUME NEW r, NEW n \in Nat, NEW m, Reached(r, n, m), Long(m),
         NEW k \in Nat, NEW l, Reached(r, k, l), Long(l)
  PROVE  m = l
<1>1. n <= k
  <2>1. SUFFICES ASSUME n > k PROVE FALSE
    OBVIOUS
  <2> QED
    BY <2>1 DEF Reached
<1>2. k <= n
  <2>1. SUFFICES ASSUME k > n PROVE FALSE
    OBVIOUS
  <2> QED
    BY <2>1 DEF Reached
<1> QED
  BY <1>1, <1>2 DEF Reached

\* An index has one content, for every way to batch the records, every order of
\* the threads, dry runs and invocations that were cut short: what a thread has
\* drawn depends on the seed and the index alone, and so does how often it pads.
THEOREM RecordsAreReproducible == Spec => []Reproducible
<1>1. IInv => Reproducible
  <2> SUFFICES ASSUME IInv, NEW r \in Records PROVE Cardinality(kept[r]) <= 1
    BY DEF Reproducible
  <2>1. ASSUME NEW x \in kept[r], NEW y \in kept[r] PROVE x = y
    <3>1. Genuine(r, x) /\ Genuine(r, y)
      BY DEF IInv, KeptInv
    <3>2. PICK n \in Nat : \E m : Reached(r, n, m) /\ Long(m) /\ x = RecordOf(r, m)
      BY <3>1 DEF Genuine
    <3>3. PICK m : Reached(r, n, m) /\ Long(m) /\ x = RecordOf(r, m)
      BY <3>2
    <3>4. PICK k \in Nat : \E l : Reached(r, k, l) /\ Long(l) /\ y = RecordOf(r, l)
      BY <3>1 DEF Genuine
    <3>5. PICK l : Reached(r, k, l) /\ Long(l) /\ y = RecordOf(r, l)
      BY <3>4
    <3>6. m = l
      BY <3>3, <3>5, OneMessage
    <3> QED
      BY <3>3, <3>5, <3>6
  <2>2. CASE kept[r] = {}
    BY <2>2, FS_EmptySet
  <2>3. CASE kept[r] # {}
    <3>1. PICK x \in kept[r] : TRUE
      BY <2>3
    <3>2. kept[r] = {x}
      BY <2>1, <3>1
    <3>3. Cardinality({x}) = 1
      BY FS_Singleton
    <3> QED
      BY <3>2, <3>3
  <2> QED
    BY <2>2, <2>3
<1> QED
  BY <1>1, GeneratorInvariant, PTL

\* Draws move a generator on in its stream.
LEMMA SkipStays ==
  ASSUME NEW g, IsRng(g), NEW draws
  PROVE  IsRng(Skip(g, draws)) /\ Skip(g, draws).key = g.key
    /\ Skip(g, draws).pos = g.pos + draws
BY DEF IsRng, Skip

\* The first line of a message comes from the stream of its record.
LEMMA OpenedFromStream ==
  ASSUME NEW r
  PROVE  IsRng(Opened(r).rng) /\ Opened(r).rng.key = KeyFor(r)
<1>1. IsRng(Fresh(r)) /\ Fresh(r).key = KeyFor(r)
  BY DEF Fresh, IsRng
<1>2. IsRng(Drawn(r)) /\ Drawn(r).key = KeyFor(r)
  BY <1>1, SkipStays DEF Drawn
<1>3. ASSUME NEW g, IsRng(g), NEW fields
      PROVE  IsRng(Opening(g, fields).rng) /\ Opening(g, fields).rng.key = g.key
  <2>1. Opening(g, fields).rng \in {Skip(g, 2), Skip(Skip(g, 2), 1)}
    BY DEF Opening
  <2>2. IsRng(Skip(g, 2)) /\ Skip(g, 2).key = g.key
    BY <1>3, SkipStays
  <2>3. IsRng(Skip(Skip(g, 2), 1)) /\ Skip(Skip(g, 2), 1).key = g.key
    BY <2>2, SkipStays
  <2> QED
    BY <2>1, <2>2, <2>3
<1> QED
  BY <1>2, <1>3 DEF Opened

\* A record is drawn from the stream of its own key.
LEMMA StreamOfRecord ==
  ASSUME IInv, NEW r \in Records, NEW x \in kept[r]
  PROVE  x.stream = KeyFor(r)
<1>1. PICK n \in Nat : \E m : Reached(r, n, m) /\ x = RecordOf(r, m)
  BY DEF IInv, KeptInv, Genuine
<1>2. PICK m : Reached(r, n, m) /\ x = RecordOf(r, m)
  BY <1>1
<1>3. IsRng(Opened(r).rng) /\ Opened(r).rng.key = KeyFor(r)
  BY OpenedFromStream
<1>4. m.rng.key = KeyFor(r)
  BY <1>2, <1>3, PaddingKeepsKey DEF Reached
<1> QED
  BY <1>2, <1>4 DEF RecordOf

\* No two records are drawn from one stream: the keys mix seed and index without
\* losing a bit, for words, multipliers and shifts of any size that allow it.
THEOREM StreamsDiffer == Spec => []StreamsAreDistinct
<1>1. IInv => StreamsAreDistinct
  <2> SUFFICES ASSUME IInv, NEW q \in Records, NEW r \in Records, q # r,
                      NEW x \in kept[q], NEW y \in kept[r]
               PROVE  x.stream # y.stream
    BY DEF StreamsAreDistinct
  <2>1. seed \in Words /\ q \in Words /\ r \in Words
    BY ArgsAssumption DEF IInv, TypeInv, Records, Words
  <2>2. Xor(seed, q) \in Words /\ Xor(seed, r) \in Words
    BY <2>1, XorAssumption DEF Words
  <2>3. Xor(seed, q) # Xor(seed, r)
    <3>1. Xor(seed, q) = Xor(q, seed) /\ Xor(seed, r) = Xor(r, seed)
      BY <2>1, XorAssumption DEF Words
    <3> QED
      BY <2>1, <3>1, XorCancels
  <2>4. KeyFor(q) # KeyFor(r)
    BY <2>2, <2>3, Splitmix64Injective DEF KeyFor
  <2> QED
    BY <2>4, StreamOfRecord
<1> QED
  BY <1>1, GeneratorInvariant, PTL

\* A record that a batch leaves out would be missing for good: in an invocation
\* that has ended each index lies in a batch that is done.
THEOREM EveryRecordMade == Spec => []EveryRecordIsMade
<1>1. IInv => EveryRecordIsMade
  <2> SUFFICES ASSUME IInv, Over, NEW r \in (IF dry THEN {0} ELSE Records)
               PROVE  kept[r] # {}
    BY DEF EveryRecordIsMade
  <2>1. TypeInv /\ ThreadInv /\ MadeInv
    BY DEF IInv
  <2>2. batch_size \in Nat \ {0} /\ Total \in Nat \ {0} /\ dry \in BOOLEAN
    BY <2>1, ArgsAssumption DEF TypeInv
  <2>3. r \in Records /\ r \in Nat
    BY <2>2 DEF Records
  <2> DEFINE b == r \div batch_size
             first == b * batch_size
  <2>4. b \in Nat /\ first \in Nat /\ first <= r /\ r < first + batch_size
    <3>1. r = batch_size * b + (r % batch_size) /\ b \in Nat
          /\ r % batch_size \in 0 .. batch_size - 1
      BY <2>2, <2>3, DivMod
    <3> HIDE DEF b
    <3>2. batch_size * b = b * batch_size /\ b * batch_size \in Nat
      BY <2>2, <3>1, Z3
    <3> QED
      BY <2>2, <2>3, <3>1, <3>2
  <2>5. b <= first
    <3> HIDE DEF b
    <3> QED
      BY <2>2, <2>4, Z3
  <2>6. start_record_idx(b) = first
    BY DEF start_record_idx
  <2>7. dry => b = 0 /\ first = 0
    <3>1. 0 \div batch_size = 0
      BY <2>2
    <3> QED
      BY <2>2, <3>1
  <2>8. b < total_batches
    <3>1. first < Total
      BY <2>2, <2>3, <2>4 DEF Records
    <3> HIDE DEF b
    <3> QED
      BY <2>1, <2>4, <3>1, BatchCount
  <2> HIDE DEF b, first
  <2>9. b \in Threads /\ b \in Batches
    BY <2>1, <2>2, <2>3, <2>4, <2>5, <2>7, <2>8, BatchCount DEF Threads, Records, Batches
  <2>10. pc[b] = "done"
    BY <2>1, <2>9 DEF Over, TypeInv, Batches, Working
  <2>11. made[b] = this_batch(b)
    BY <2>1, <2>9, <2>10 DEF ThreadInv, Placed
  <2>12. r < first + made[b]
    BY <2>2, <2>3, <2>4, <2>6, <2>7, <2>11 DEF this_batch, SmallerOf, Records
  <2> QED
    BY <2>1, <2>3, <2>4, <2>6, <2>9, <2>12 DEF MadeInv, Generated
<1> QED
  BY <1>1, GeneratorInvariant, PTL

-----------------------------------------------------------------------------
(* The lengths of the messages *)

\* The stream of a key is a sequence of words, as numbers.
WordsAreNumbers == \A k \in Words, p \in Nat : Stream(k, p) \in Nat

\* A generator that is somewhere in the stream of a word.
InStream(g) == IsRng(g) /\ g.key \in Words /\ g.pos \in Nat

IsLine(l) == l = [length |-> l.length, pieces |-> l.pieces, exception |-> l.exception]

\* The length of a text is one of its template.
LEMMA LengthBetween ==
  ASSUME NEW template \in Nat \X Nat, template[1] <= template[2], NEW draw \in Nat
  PROVE  LengthOf(template, draw) \in template[1] .. template[2]
<1> DEFINE span == template[2] - template[1] + 1
<1>1. template[1] \in Nat /\ template[2] \in Nat /\ span \in Nat \ {0}
  OBVIOUS
<1>2. draw % span \in 0 .. span - 1
  <2> HIDE DEF span
  <2> QED
    BY <1>1, DivMod
<1> QED
  BY <1>1, <1>2 DEF LengthOf

\* What is drawn from a range is a number below its end.
LEMMA DrawBelow ==
  ASSUME WordsAreNumbers, NEW g, InStream(g), NEW n \in Nat \ {0}
  PROVE  gen_range(g, n) \in 0 .. n - 1
<1>1. Stream(g.key, g.pos) \in Nat
  BY DEF WordsAreNumbers, InStream
<1> QED
  BY <1>1, DivMod DEF gen_range

\* Draws move on in the stream.
LEMMA SkipInStream ==
  ASSUME NEW g, InStream(g), NEW n \in Nat
  PROVE  InStream(Skip(g, n))
BY SkipStays DEF InStream

\* A line is no longer than the longest template makes it.
LEMMA LineBelow ==
  ASSUME WordsAreNumbers, NEW g, InStream(g)
  PROVE  generate_log_line(g) \in 0 .. LongestLine
<1> DEFINE r == gen_range(g, 100)
           i == weighted_pick(r, LineWeights)
           draw == gen_range(Skip(g, 1), Word)
<1>1. r \in Nat /\ r < 100 /\ draw \in Nat
  <2>1. Word \in Nat \ {0} /\ 100 \in Nat \ {0}
    BY ArgsAssumption
  <2>2. InStream(Skip(g, 1))
    BY SkipInStream
  <2>3. r \in 0 .. 100 - 1 /\ draw \in 0 .. Word - 1
    BY <2>1, <2>2, DrawBelow
  <2> QED
    BY <2>1, <2>3
<1> HIDE DEF r, draw
<1>2. /\ LineWeights \in Seq(Nat) /\ DOMAIN LineWeights = DOMAIN Lines
      /\ Upto(LineWeights)[Len(LineWeights)] = 100
  <2>1. Len(Lines) \in Nat /\ DOMAIN Lines = 1 .. Len(Lines)
    BY LinesAssumption
  <2>2. LineWeights \in [1 .. Len(Lines) -> Nat]
    BY <2>1, LinesAssumption
  <2>3. LineWeights \in Seq(Nat) /\ Len(LineWeights) = Len(Lines)
    BY <2>1, <2>2
  <2> QED
    BY <2>1, <2>2, <2>3, LinesAssumption
<1>3. i \in DOMAIN Lines
  BY <1>1, <1>2, WeightedPick
<1> HIDE DEF i
<1>4. Lines[i] \in Nat \X Nat /\ Lines[i][1] <= Lines[i][2]
  BY <1>3, LinesAssumption
<1>5. LengthOf(Lines[i], draw) \in Lines[i][1] .. Lines[i][2]
  BY <1>1, <1>4, LengthBetween
<1>6. Lines[i][2] <= LongestLine /\ LongestLine \in Nat
  BY <1>3, LongestOfLines
<1>7. generate_log_line(g) = LengthOf(Lines[i], draw)
  BY DEF generate_log_line, i, r, draw
<1> QED
  BY <1>4, <1>5, <1>6, <1>7

\* The opening of a message is a line, with at most the exception after it.
LEMMA OpeningBelow ==
  ASSUME WordsAreNumbers, NEW g, InStream(g), NEW fields
  PROVE  LET m == Opening(g, fields)
         IN  /\ InStream(m.rng) /\ IsLine(m.line)
             /\ m.line.length \in 0 .. LongestLine + Separator + Exception[2]
<1> DEFINE m == Opening(g, fields)
           first == generate_log_line(g)
           next == Skip(g, 2)
           last == tpl_exception(next)
<1>1. first \in 0 .. LongestLine /\ LongestLine \in Nat
  BY LineBelow, LongestOfLines
<1>2. InStream(next) /\ InStream(Skip(next, 1))
  <2>1. InStream(next)
    BY SkipInStream
  <2> QED
    BY <2>1, SkipInStream
<1>3. last \in 0 .. Exception[2] /\ Exception[2] \in Nat
  <2>1. gen_range(next, Word) \in 0 .. Word - 1
    BY <1>2, DrawBelow, ArgsAssumption
  <2>2. gen_range(next, Word) \in Nat
    BY <2>1, ArgsAssumption
  <2>3. last \in Exception[1] .. Exception[2]
    BY <2>2, LengthBetween, LinesAssumption DEF tpl_exception
  <2> QED
    BY <2>3, LinesAssumption
<1>4. m.rng \in {next, Skip(next, 1)} /\ IsLine(m.line)
  BY DEF Opening, IsLine
<1>5. m.line.length \in {first + 0, first + (Separator + last)}
  BY DEF Opening
<1> HIDE DEF m, first, next, last
<1>6. m.line.length \in 0 .. LongestLine + Separator + Exception[2]
  BY <1>1, <1>3, <1>5 DEF Separator
<1> QED
  BY <1>2, <1>4, <1>6 DEF m

\* One line more makes a message longer, by a separator and a line.
LEMMA LongerBelow ==
  ASSUME WordsAreNumbers, NEW m, InStream(m.rng), m.line.length \in Nat
  PROVE  LET l == Longer(m)
         IN  /\ InStream(l.rng) /\ IsLine(l.line)
             /\ l.line.length \in Nat
             /\ l.line.length <= m.line.length + Separator + LongestLine
<1> DEFINE l == Longer(m)
           more == generate_log_line(m.rng)
<1>1. more \in 0 .. LongestLine /\ LongestLine \in Nat
  BY LineBelow, LongestOfLines
<1>2. l.rng = Skip(m.rng, 2) /\ IsLine(l.line)
      /\ l.line.length = m.line.length + Separator + more
  BY DEF Longer, IsLine
<1>3. InStream(l.rng)
  BY <1>2, SkipInStream
<1> HIDE DEF l, more
<1> QED
  BY <1>1, <1>2, <1>3 DEF l, Separator

\* The message of a record stays one, however often it is padded.
LEMMA PaddedIsMessage ==
  ASSUME WordsAreNumbers, NEW m, InStream(m.rng), IsLine(m.line), m.line.length \in Nat,
         NEW n \in Nat
  PROVE  InStream(Padded(m, n).rng) /\ IsLine(Padded(m, n).line)
         /\ Padded(m, n).line.length \in Nat
<1> DEFINE Sound(l) == InStream(l.rng) /\ IsLine(l.line) /\ l.line.length \in Nat
           S == {i \in Nat : Sound(Padded(m, i))}
<1>1. 0 \in S
  BY PaddedStep
<1>2. ASSUME NEW i \in S PROVE i + 1 \in S
  <2>1. i \in Nat /\ Sound(Padded(m, i))
    OBVIOUS
  <2>2. Sound(Longer(Padded(m, i)))
    BY <2>1, LongerBelow
  <2>3. Padded(m, i + 1) = Longer(Padded(m, i))
    BY <2>1, PaddedStep
  <2> HIDE DEF Sound
  <2> QED
    BY <2>1, <2>2, <2>3
<1>3. S = Nat
  <2> HIDE DEF S
  <2>1. S \subseteq Nat
    BY DEF S
  <2> QED
    BY <1>1, <1>2, <2>1, SetInduction
<1> QED
  BY <1>3

\* Bounds of a message that was padded no further than it had to be.
LEMMA MessageBounds ==
  ASSUME WordsAreNumbers, TypeInv, NEW r \in Records, NEW n \in Nat, NEW m,
         Reached(r, n, m), Long(m)
  PROVE  IsLine(m.line) /\ m.line.length + IdsLength \in MinLine + IdsLength .. LongestMessage
<1> DEFINE o == Opened(r)
           Size(k) == Padded(o, k).line.length
<1>1. InStream(Drawn(r))
  <2>1. seed \in Words /\ r \in Words
    BY ArgsAssumption DEF TypeInv, Records, Words
  <2>2. Xor(seed, r) \in Words
    BY <2>1, XorAssumption DEF Words
  <2>3. KeyFor(r) \in Words
    BY <2>2, Splitmix64Injective DEF KeyFor
  <2>4. InStream(Fresh(r))
    BY <2>3 DEF Fresh, InStream, IsRng
  <2>5. Len(HeadRanges) \in Nat
    BY DEF HeadRanges
  <2> QED
    BY <2>4, <2>5, SkipInStream DEF Drawn
<1>2. InStream(o.rng) /\ IsLine(o.line)
      /\ o.line.length \in 0 .. LongestLine + Separator + Exception[2]
  BY <1>1, OpeningBelow DEF Opened
<1>3. LongestLine \in Nat /\ Exception[2] \in Nat /\ MinLine \in Nat \ {0}
  BY LongestOfLines, LinesAssumption
<1>4. o.line.length \in Nat
  BY <1>2, <1>3 DEF Separator
<1> HIDE DEF o
<1>5. m = Padded(o, n) /\ \A i \in 0 .. n - 1 : ~ (Size(i) >= MinLine)
  BY DEF Reached, Long, o
<1>6. InStream(m.rng) /\ IsLine(m.line) /\ m.line.length \in Nat
  BY <1>2, <1>4, <1>5, PaddedIsMessage
<1>7. m.line.length >= MinLine
  BY DEF Long
<1>8. m.line.length <= LargerOf(MinLine - 1, LongestLine) + Separator
                         + LargerOf(LongestLine, Exception[2])
  <2>1. CASE n = 0
    <3>1. m = o
      BY <1>5, <2>1, PaddedStep
    <3> QED
      BY <1>2, <1>3, <3>1 DEF LargerOf, Separator
  <2>2. CASE n # 0
    <3>1. n - 1 \in Nat /\ n - 1 \in 0 .. n - 1 /\ n = n - 1 + 1
      BY <2>2
    <3>2. m = Longer(Padded(o, n - 1))
      BY <1>5, <3>1, PaddedStep
    <3>3. InStream(Padded(o, n - 1).rng) /\ Size(n - 1) \in Nat
      BY <1>2, <1>4, <3>1, PaddedIsMessage
    <3>4. m.line.length <= Size(n - 1) + Separator + LongestLine
      BY <3>2, <3>3, LongerBelow
    <3>5. Size(n - 1) <= MinLine - 1
      BY <1>3, <1>5, <3>1, <3>3
    <3> HIDE DEF Size
    <3> QED
      BY <1>3, <1>6, <3>3, <3>4, <3>5 DEF LargerOf, Separator
  <2> QED
    BY <2>1, <2>2
<1> QED
  BY <1>3, <1>6, <1>7, <1>8 DEF LongestMessage, IdsLength, LargerOf, Separator

\* Where the stream is one of words: a message has its least length, and what
\* it has beyond that one line or one exception accounts for, for all templates
\* and weights of them.
THEOREM MessagesAreBounded ==
  ASSUME WordsAreNumbers
  PROVE  Spec => []MessagesFit
<1>1. IInv => MessagesFit
  <2> SUFFICES ASSUME IInv, NEW r \in Records, NEW x \in kept[r]
               PROVE  x.message.length \in MinLine + IdsLength .. LongestMessage
    BY DEF MessagesFit
  <2>1. PICK n \in Nat : \E m : Reached(r, n, m) /\ Long(m) /\ x = RecordOf(r, m)
    BY DEF IInv, KeptInv, Genuine
  <2>2. PICK m : Reached(r, n, m) /\ Long(m) /\ x = RecordOf(r, m)
    BY <2>1
  <2>3. IsLine(m.line) /\ m.line.length + IdsLength \in MinLine + IdsLength .. LongestMessage
    BY <2>2, MessageBounds DEF IInv
  <2>4. x.message.length = m.line.length + IdsLength
    BY <2>2, <2>3 DEF RecordOf, IsLine
  <2> QED
    BY <2>3, <2>4
<1> QED
  BY <1>1, GeneratorInvariant, PTL
=============================================================================
