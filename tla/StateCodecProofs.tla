-------------------------- MODULE StateCodecProofs --------------------------
(***************************************************************************)
(* Proofs about the selectors in the URL, for every alphabet, every set of *)
(* names and every number of attempts to shorten one.                      *)
(***************************************************************************)
EXTENDS StateCodec, Integers, FiniteSetTheorems, WellFoundedInduction, TLAPS

-----------------------------------------------------------------------------
(* Recursion *)

\* A set of numbers with 0 and, with each, the next, is the set of all.
LEMMA SetInduction ==
  ASSUME NEW S \in SUBSET Nat, 0 \in S, \A n \in S : n + 1 \in S
  PROVE  S = Nat
<1> DEFINE R == {ss \in Nat \X Nat : ss[1] < ss[2]}
           T == Nat \ S
<1>1. IsWellFoundedOn(R, Nat)
  BY NatLessThanWellFounded DEF OpToRel
<1>2. SUFFICES ASSUME T # {} PROVE FALSE
  OBVIOUS
<1>3. PICK x \in T : \A y \in T : ~ (<<y, x>> \in R)
  <2> HIDE DEF R
  <2>1. T \subseteq Nat
    OBVIOUS
  <2> HIDE DEF T
  <2> QED
    BY <1>1, <1>2, <2>1, WFMin
<1>4. x \in Nat /\ x # 0
  OBVIOUS
<1>5. x - 1 \in Nat /\ x - 1 < x
  BY <1>4
<1>6. x - 1 \in S
  BY <1>3, <1>5
<1> QED
  BY <1>4, <1>6

\* g starts from a value and takes N steps, each from the value before it.
IsRun(g, X, start, N, step) ==
  g \in [0 .. N -> X] /\ g[0] = start /\ \A i \in 1 .. N : g[i] = step[i][g[i - 1]]

\* There is such a run.
LEMMA PassExists ==
  ASSUME NEW X, NEW start \in X, NEW N \in Nat,
         NEW step \in [1 .. N -> [X -> X]]
  PROVE  \E g : IsRun(g, X, start, N, step)
<1> DEFINE Pass(g, n) == /\ g \in [0 .. n -> X] /\ g[0] = start
                         /\ \A i \in 1 .. n : g[i] = step[i][g[i - 1]]
           S == {n \in Nat : n <= N => \E g : Pass(g, n)}
<1>1. 0 \in S
  <2>1. Pass([i \in 0 .. 0 |-> start], 0)
    OBVIOUS
  <2> HIDE DEF Pass
  <2> QED
    BY <2>1
<1>2. ASSUME NEW n \in S PROVE n + 1 \in S
  <2>0. n \in Nat /\ (n <= N => \E g : Pass(g, n))
    OBVIOUS
  <2>1. ASSUME n + 1 <= N PROVE \E g : Pass(g, n + 1)
    <3>1. PICK h : Pass(h, n)
      <4> HIDE DEF Pass
      <4> QED
        BY <2>0, <2>1
    <3> DEFINE g == [i \in 0 .. n + 1 |-> IF i = n + 1 THEN step[n + 1][h[n]] ELSE h[i]]
    <3>2. n + 1 \in 1 .. N /\ h[n] \in X
      BY <2>0, <2>1, <3>1
    <3>3. g \in [0 .. n + 1 -> X] /\ g[0] = start
      BY <2>0, <3>1, <3>2
    <3>4. ASSUME NEW i \in 1 .. n + 1 PROVE g[i] = step[i][g[i - 1]]
      <4>1. CASE i = n + 1
        <5>1. g[n + 1] = step[n + 1][h[n]] /\ g[n] = h[n] /\ n + 1 - 1 = n
          BY <2>0
        <5> HIDE DEF g
        <5> QED
          BY <4>1, <5>1
      <4>2. CASE i \in 1 .. n
        <5>1. g[i] = h[i] /\ g[i - 1] = h[i - 1]
          BY <2>0, <4>2
        <5> QED
          BY <3>1, <4>2, <5>1
      <4> QED
        BY <2>0, <4>1, <4>2
    <3>5. Pass(g, n + 1)
      BY <3>3, <3>4
    <3> HIDE DEF Pass
    <3> QED
      BY <3>5
  <2> HIDE DEF Pass
  <2> QED
    BY <2>0, <2>1
<1>3. S = Nat
  <2> HIDE DEF S
  <2>1. S \subseteq Nat
    BY DEF S
  <2> QED
    BY <1>1, <1>2, <2>1, SetInduction
<1>4. PICK g : Pass(g, N)
  <2>1. N \in S
    BY <1>3
  <2> HIDE DEF Pass
  <2> QED
    BY <2>1
<1> QED
  BY <1>4 DEF IsRun

-----------------------------------------------------------------------------
(* Subsequences *)

\* j is the pass of isSubsequence over str.
IsPass(j, str, sub) ==
  /\ j \in [0 .. Len(str) -> 0 .. Len(sub)] /\ j[0] = 0
  /\ \A i \in 1 .. Len(str) :
       j[i] = IF j[i - 1] < Len(sub) /\ str[i] = sub[j[i - 1] + 1] THEN j[i - 1] + 1 ELSE j[i - 1]

\* isSubsequence() passes once over str.
LEMMA SubsequencePass ==
  ASSUME NEW str \in Seq(Char), NEW sub \in Seq(Char)
  PROVE  \E j : IsPass(j, str, sub) /\ (isSubsequence(str, sub) <=> j[Len(str)] = Len(sub))
<1> DEFINE N == Len(str)
           M == Len(sub)
           Next_(i, x) == IF x < M /\ str[i] = sub[x + 1] THEN x + 1 ELSE x
           Body(g, i) == IF i = 0 THEN 0
                         ELSE IF g[i - 1] < M /\ str[i] = sub[g[i - 1] + 1]
                              THEN g[i - 1] + 1
                              ELSE g[i - 1]
           pass == CHOOSE f : f = [i \in 0 .. N |-> Body(f, i)]
           step == [i \in 1 .. N |-> [x \in 0 .. M |-> Next_(i, x)]]
<1>1. N \in Nat /\ M \in Nat
  OBVIOUS
<1>2. isSubsequence(str, sub) <=> pass[N] = M
  BY DEF isSubsequence
<1> HIDE DEF N, M
<1>3. PICK g \in [0 .. N -> 0 .. M] : g[0] = 0 /\ \A i \in 1 .. N : g[i] = step[i][g[i - 1]]
  <2>1. step \in [1 .. N -> [0 .. M -> 0 .. M]]
    BY <1>1
  <2>2. 0 \in 0 .. M
    BY <1>1
  <2> HIDE DEF step
  <2>3. PICK h : IsRun(h, 0 .. M, 0, N, step)
    BY <1>1, <2>1, <2>2, PassExists
  <2> QED
    BY <2>3 DEF IsRun
<1>4. ASSUME NEW i \in 1 .. N PROVE g[i] = Next_(i, g[i - 1])
  <2>1. g[i - 1] \in 0 .. M
    BY <1>1
  <2>2. step[i][g[i - 1]] = Next_(i, g[i - 1])
    BY <2>1
  <2> HIDE DEF step, Next_
  <2>3. g[i] = step[i][g[i - 1]]
    BY <1>3
  <2> QED
    BY <2>2, <2>3
<1>5. g = [i \in 0 .. N |-> Body(g, i)]
  <2>1. \A i \in 0 .. N : g[i] = Body(g, i)
    <3> TAKE i \in 0 .. N
    <3>1. CASE i = 0
      BY <1>3, <3>1
    <3>2. CASE i # 0
      <4>1. i \in 1 .. N
        BY <1>1, <3>2
      <4>2. g[i] = Next_(i, g[i - 1])
        BY <1>4, <4>1
      <4> HIDE DEF step
      <4> QED
        BY <3>2, <4>2
    <3> QED
      BY <3>1, <3>2
  <2> HIDE DEF Body
  <2> QED
    BY <2>1
<1>6. pass = [i \in 0 .. N |-> Body(pass, i)]
  <2> HIDE DEF Body
  <2> QED
    BY <1>5
<1> HIDE DEF pass
<1>7. pass[0] = 0 /\ \A i \in 1 .. N : pass[i] = Next_(i, pass[i - 1])
  BY <1>1, <1>6
<1>8. \A i \in 0 .. N : pass[i] \in 0 .. M
  <2> DEFINE S == {i \in Nat : i <= N => pass[i] \in 0 .. M}
  <2>1. 0 \in S
    BY <1>1, <1>7
  <2>2. ASSUME NEW i \in S PROVE i + 1 \in S
    <3>1. SUFFICES ASSUME i + 1 <= N PROVE pass[i + 1] \in 0 .. M
      OBVIOUS
    <3>2. i \in Nat /\ i + 1 \in 1 .. N /\ i + 1 - 1 = i /\ pass[i] \in 0 .. M
      BY <1>1, <3>1
    <3>3. pass[i + 1] = Next_(i + 1, pass[i])
      BY <1>7, <3>2
    <3> QED
      BY <1>1, <3>2, <3>3
  <2>3. S = Nat
    <3> HIDE DEF S
    <3>1. S \subseteq Nat
      BY DEF S
    <3> QED
      BY <2>1, <2>2, <3>1, SetInduction
  <2> TAKE i \in 0 .. N
  <2>4. i \in Nat /\ i <= N
    BY <1>1
  <2>5. i \in S
    BY <2>3, <2>4
  <2> QED
    BY <2>4, <2>5
<1>9. pass \in [0 .. N -> 0 .. M]
  <2>1. pass = [i \in 0 .. N |-> pass[i]]
    BY <1>6
  <2> QED
    BY <1>8, <2>1
<1>10. IsPass(pass, str, sub)
  BY <1>7, <1>9 DEF IsPass, N, M
<1> QED
  BY <1>2, <1>10 DEF N, M

\* No more characters are found than there were to search.
LEMMA PassBound ==
  ASSUME NEW str \in Seq(Char), NEW sub \in Seq(Char), NEW j, IsPass(j, str, sub)
  PROVE  \A i \in 0 .. Len(str) : j[i] <= i
<1> DEFINE S == {i \in Nat : i <= Len(str) => j[i] <= i}
<1>1. 0 \in S
  BY DEF IsPass
<1>2. ASSUME NEW i \in S PROVE i + 1 \in S
  <2>1. SUFFICES ASSUME i + 1 <= Len(str) PROVE j[i + 1] <= i + 1
    OBVIOUS
  <2>2. i + 1 \in 1 .. Len(str) /\ i \in 0 .. Len(str) /\ i + 1 - 1 = i /\ j[i] <= i
    BY <2>1
  <2>3. j[i] \in Nat /\ (j[i + 1] = j[i] + 1 \/ j[i + 1] = j[i])
    BY <2>2 DEF IsPass
  <2> QED
    BY <2>2, <2>3
<1>3. S = Nat
  <2> HIDE DEF S
  <2>1. S \subseteq Nat
    BY DEF S
  <2> QED
    BY <1>1, <1>2, <2>1, SetInduction
<1> QED
  BY <1>3

\* Every name has itself.
LEMMA SubsequenceOfItself ==
  ASSUME NEW str \in Seq(Char)
  PROVE  isSubsequence(str, str)
<1>1. PICK j : IsPass(j, str, str) /\ (isSubsequence(str, str) <=> j[Len(str)] = Len(str))
  BY SubsequencePass
<1> DEFINE S == {i \in Nat : i <= Len(str) => j[i] = i}
<1>2. 0 \in S
  BY <1>1 DEF IsPass
<1>3. ASSUME NEW i \in S PROVE i + 1 \in S
  <2>1. SUFFICES ASSUME i + 1 <= Len(str) PROVE j[i + 1] = i + 1
    OBVIOUS
  <2>2. i + 1 \in 1 .. Len(str) /\ i + 1 - 1 = i /\ j[i] = i /\ i < Len(str)
    BY <2>1
  <2> QED
    BY <1>1, <2>2 DEF IsPass
<1>4. S = Nat
  <2> HIDE DEF S
  <2>1. S \subseteq Nat
    BY DEF S
  <2> QED
    BY <1>2, <1>3, <2>1, SetInduction
<1> QED
  BY <1>1, <1>4

\* What a name has is shorter or the name.
LEMMA SubsequenceIsShorter ==
  ASSUME NEW str \in Seq(Char), NEW sub \in Seq(Char), isSubsequence(str, sub)
  PROVE  Len(sub) <= Len(str) /\ (Len(sub) = Len(str) => sub = str)
<1> DEFINE N == Len(str)
<1>1. PICK j : IsPass(j, str, sub) /\ j[N] = Len(sub)
  BY SubsequencePass
<1>2. N \in Nat /\ \A i \in 0 .. N : j[i] <= i /\ j[i] \in Nat
  <2>1. \A i \in 0 .. N : j[i] <= i
    BY <1>1, PassBound
  <2>2. \A i \in 0 .. N : j[i] \in 0 .. Len(sub)
    BY <1>1 DEF IsPass
  <2> QED
    BY <2>1, <2>2
<1>3. Len(sub) <= N
  BY <1>1, <1>2
<1>4. ASSUME Len(sub) = N PROVE sub = str
  <2> DEFINE S == {k \in Nat : k <= N => j[N - k] = N - k}
  <2>1. 0 \in S
    BY <1>1, <1>2, <1>4
  <2>2. ASSUME NEW k \in S PROVE k + 1 \in S
    <3>1. SUFFICES ASSUME k + 1 <= N PROVE j[N - (k + 1)] = N - (k + 1)
      OBVIOUS
    <3> DEFINE i == N - k
    <3>2. i \in 1 .. N /\ i - 1 \in 0 .. N /\ N - (k + 1) = i - 1 /\ j[i] = i
      BY <1>2, <3>1
    <3> HIDE DEF i
    <3>3. j[i] = j[i - 1] + 1 \/ j[i] = j[i - 1]
      BY <1>1, <3>2 DEF IsPass
    <3> QED
      BY <1>2, <3>2, <3>3
  <2>3. S = Nat
    <3> HIDE DEF S
    <3>1. S \subseteq Nat
      BY DEF S
    <3> QED
      BY <2>1, <2>2, <3>1, SetInduction
  <2>4. \A i \in 0 .. N : j[i] = i
    <3> TAKE i \in 0 .. N
    <3>1. N - i \in Nat /\ N - i <= N /\ N - (N - i) = i
      BY <1>2
    <3>2. N - i \in S
      BY <2>3, <3>1
    <3> QED
      BY <3>1, <3>2
  <2>5. \A i \in 1 .. N : str[i] = sub[i]
    <3> TAKE i \in 1 .. N
    <3>1. j[i] = i /\ j[i - 1] = i - 1 /\ i - 1 + 1 = i /\ i # i - 1
      BY <1>2, <2>4
    <3> QED
      BY <1>1, <3>1 DEF IsPass
  <2> QED
    BY <1>4, <2>5
<1> QED
  BY <1>3, <1>4

\* Every name has the empty code.
LEMMA EmptyIsSubsequence ==
  ASSUME NEW str \in Seq(Char)
  PROVE  isSubsequence(str, Empty)
<1>1. Empty \in Seq(Char) /\ Len(Empty) = 0
  BY DEF Empty
<1>2. PICK j : IsPass(j, str, Empty) /\ (isSubsequence(str, Empty) <=> j[Len(str)] = Len(Empty))
  BY <1>1, SubsequencePass
<1>3. j[Len(str)] \in 0 .. 0
  BY <1>1, <1>2 DEF IsPass
<1> QED
  BY <1>1, <1>2, <1>3

\* A code without one of its characters.
LEMMA RemoveAtSequence ==
  ASSUME NEW c \in Seq(Char), NEW p \in 1 .. Len(c)
  PROVE  /\ RemoveAt(c, p) \in Seq(Char) /\ Len(RemoveAt(c, p)) = Len(c) - 1
         /\ \A i \in 1 .. Len(c) - 1 : RemoveAt(c, p)[i] = IF i < p THEN c[i] ELSE c[i + 1]
<1> DEFINE M == Len(c)
           a == SubSeq(c, 1, p - 1)
           b == SubSeq(c, p + 1, M)
<1>1. M \in Nat /\ p \in 1 .. M /\ \A i \in 1 .. M : c[i] \in Char
  OBVIOUS
<1>2. a \in Seq(Char) /\ Len(a) = p - 1 /\ \A i \in 1 .. p - 1 : a[i] = c[i]
  OBVIOUS
<1>3. b \in Seq(Char) /\ Len(b) = M - p /\ \A i \in 1 .. M - p : b[i] = c[p + i]
  OBVIOUS
<1>4. RemoveAt(c, p) = a \o b
  BY Zenon DEF RemoveAt
<1> HIDE DEF a, b, M
<1>5. a \o b \in Seq(Char) /\ Len(a \o b) = M - 1
  <2>1. a \o b \in Seq(Char) /\ Len(a \o b) = Len(a) + Len(b)
    <3>1. a \in Seq(Char) /\ b \in Seq(Char)
      BY <1>2, <1>3
    <3> QED
      BY <3>1
  <2>2. Len(a) + Len(b) = M - 1
    BY <1>1, <1>2, <1>3
  <2> QED
    BY <2>1, <2>2
<1>6. ASSUME NEW i \in 1 .. M - 1 PROVE (a \o b)[i] = IF i < p THEN c[i] ELSE c[i + 1]
  <2>1. CASE i < p
    <3>1. i \in 1 .. Len(a)
      BY <1>1, <1>2, <2>1
    <3>2. (a \o b)[i] = a[i]
      BY <1>2, <1>3, <3>1
    <3> QED
      BY <1>1, <1>2, <2>1, <3>2
  <2>2. CASE ~ (i < p)
    <3> DEFINE k == i - (p - 1)
    <3>1. k \in 1 .. M - p /\ i = Len(a) + k /\ p + k = i + 1
      BY <1>1, <1>2, <2>2
    <3>2. (a \o b)[i] = b[k]
      BY <1>1, <1>2, <1>3, <3>1
    <3> HIDE DEF k
    <3>3. b[k] = c[i + 1]
      BY <1>3, <3>1
    <3> QED
      BY <2>2, <3>2, <3>3
  <2> QED
    BY <2>1, <2>2
<1> QED
  BY <1>4, <1>5, <1>6 DEF M

\* A name that has a code has what is left of it without one of its characters:
\* the pass for the shorter code is never more than that character behind.
LEMMA CutMatchesMore ==
  ASSUME NEW str \in Seq(Char), NEW c \in Seq(Char), NEW p \in 1 .. Len(c),
         isSubsequence(str, c)
  PROVE  isSubsequence(str, RemoveAt(c, p))
<1> DEFINE d == RemoveAt(c, p)
           N == Len(str)
           M == Len(c)
           Behind(x) == IF x >= p THEN x - 1 ELSE x
<1>1. /\ d \in Seq(Char) /\ Len(d) = M - 1 /\ M \in Nat /\ N \in Nat /\ p \in 1 .. M
      /\ \A i \in 1 .. M - 1 : d[i] = IF i < p THEN c[i] ELSE c[i + 1]
  <2>1. /\ d \in Seq(Char) /\ Len(d) = M - 1
        /\ \A i \in 1 .. M - 1 : d[i] = IF i < p THEN c[i] ELSE c[i + 1]
    BY RemoveAtSequence
  <2>2. M \in Nat /\ N \in Nat /\ p \in 1 .. M
    OBVIOUS
  <2> QED
    BY <2>1, <2>2
<1>2. PICK j : IsPass(j, str, c) /\ j[N] = M
  BY SubsequencePass
<1> HIDE DEF d
<1>3. PICK k : IsPass(k, str, d) /\ (isSubsequence(str, d) <=> k[N] = M - 1)
  BY <1>1, SubsequencePass
<1>4. /\ j[0] = 0 /\ k[0] = 0
      /\ \A i \in 0 .. N : j[i] \in 0 .. M /\ k[i] \in 0 .. M - 1
  BY <1>1, <1>2, <1>3 DEF IsPass
<1> HIDE DEF N, M
<1> DEFINE S == {i \in Nat : i <= N => k[i] >= Behind(j[i])}
<1>5. 0 \in S
  BY <1>1, <1>4
<1>6. ASSUME NEW i \in S PROVE i + 1 \in S
  <2>1. SUFFICES ASSUME i + 1 <= N PROVE k[i + 1] >= Behind(j[i + 1])
    OBVIOUS
  <2>2. i \in Nat /\ i + 1 \in 1 .. N /\ i \in 0 .. N /\ i + 1 - 1 = i
    BY <1>1, <2>1
  <2> DEFINE x == j[i]
             y == k[i]
             e == str[i + 1]
  <2>3. x \in 0 .. M /\ y \in 0 .. M - 1 /\ y >= Behind(x)
    BY <1>1, <1>4, <2>1, <2>2
  <2>4. j[i + 1] = IF x < M /\ e = c[x + 1] THEN x + 1 ELSE x
    BY <1>2, <2>2 DEF IsPass, N, M
  <2>5. k[i + 1] = IF y < M - 1 /\ e = d[y + 1] THEN y + 1 ELSE y
    <3>1. k[i + 1] = IF k[i] < Len(d) /\ str[i + 1] = d[k[i] + 1] THEN k[i] + 1 ELSE k[i]
      <4>1. i + 1 \in 1 .. Len(str)
        BY <2>2 DEF N
      <4> QED
        BY <1>3, <2>2, <4>1 DEF IsPass
    <3>2. Len(d) = M - 1
      BY <1>1
    <3> QED
      BY <3>1, <3>2
  <2> HIDE DEF x, y, e
  <2>6. CASE j[i + 1] = x
    BY <1>1, <2>3, <2>5, <2>6
  <2>7. CASE j[i + 1] # x
    <3>1. j[i + 1] = x + 1 /\ x < M /\ e = c[x + 1]
      BY <2>4, <2>7
    <3>2. CASE x + 1 = p
      BY <1>1, <2>3, <2>5, <3>1, <3>2
    <3>3. CASE x + 1 < p
      <4>1. CASE y > x
        BY <1>1, <2>3, <2>5, <3>1, <3>3, <4>1
      <4>2. CASE y = x
        <5>1. y + 1 \in 1 .. M - 1 /\ d[y + 1] = c[x + 1]
          BY <1>1, <2>3, <3>3, <4>2
        <5> QED
          BY <1>1, <2>3, <2>5, <3>1, <3>3, <4>2, <5>1
      <4> QED
        BY <1>1, <2>3, <3>3, <4>1, <4>2
    <3>4. CASE x >= p
      <4>1. CASE y > x - 1
        BY <1>1, <2>3, <2>5, <3>1, <3>4, <4>1
      <4>2. CASE y = x - 1
        <5>1. y + 1 \in 1 .. M - 1 /\ ~ (y + 1 < p) /\ y + 1 + 1 = x + 1
          BY <1>1, <2>3, <3>1, <3>4, <4>2
        <5>2. d[y + 1] = c[x + 1]
          BY <1>1, <5>1
        <5>3. k[i + 1] = y + 1
          BY <1>1, <2>3, <2>5, <3>1, <4>2, <5>1, <5>2
        <5> QED
          BY <1>1, <2>3, <3>1, <3>4, <4>2, <5>3
      <4>3. y > x - 1 \/ y = x - 1
        <5>1. x \in Int /\ y \in Int /\ p \in Int /\ y >= x - 1
          BY <1>1, <2>3, <3>4
        <5> QED
          BY <5>1
      <4> QED
        BY <4>1, <4>2, <4>3
    <3> QED
      BY <1>1, <2>3, <3>2, <3>3, <3>4
  <2> QED
    BY <2>6, <2>7
<1>7. S = Nat
  <2> HIDE DEF S
  <2>1. S \subseteq Nat
    BY DEF S
  <2> QED
    BY <1>5, <1>6, <2>1, SetInduction
<1>8. k[N] >= Behind(j[N])
  <2>1. N \in S
    BY <1>1, <1>7
  <2> QED
    BY <1>1, <2>1
<1> QED
  BY <1>1, <1>2, <1>3, <1>4, <1>8 DEF M, d

-----------------------------------------------------------------------------
(* Codes *)

\* The names are sequences, finitely many, and those selected are among them.
TypeInv ==
  /\ stage \in {"selected", "shared", "opened"}
  /\ names \subseteq Name /\ IsFiniteSet(names)
  /\ chosen \subseteq names /\ restored \subseteq names
  /\ url.sign \in {"+", "-"}

LEMMA NamesAreSequences ==
  ASSUME TypeInv, NEW s \in names
  PROVE  s \in Seq(Char)
<1>1. PICK n \in 1 .. MaxLength : s \in [1 .. n -> Char]
  BY DEF TypeInv, Name
<1>2. n \in Nat
  BY <1>1, BoundsAssumption
<1> QED
  BY <1>1, <1>2

\* A cut that leaves as many names with the code as there were leaves the same.
LEMMA CutKeepsNames ==
  ASSUME TypeInv, NEW c \in Seq(Char), NEW p \in 1 .. Len(c),
         Cardinality(Having(RemoveAt(c, p))) = Cardinality(Having(c))
  PROVE  Having(RemoveAt(c, p)) = Having(c)
<1> DEFINE A == Having(c)
           B == Having(RemoveAt(c, p))
<1>1. A \subseteq B
  BY CutMatchesMore, NamesAreSequences DEF Having
<1>2. IsFiniteSet(B)
  <2>1. B \subseteq names /\ IsFiniteSet(names)
    BY DEF Having, TypeInv
  <2> HIDE DEF B
  <2> QED
    BY <2>1, FS_Subset
<1> HIDE DEF A, B
<1>3. Cardinality(A) = Cardinality(B)
  BY DEF A, B
<1>4. A = B
  BY <1>1, <1>2, <1>3, FS_Subset
<1> QED
  BY <1>4 DEF A, B

\* However often a character was cut, the code has the names its name has.
LEMMA CodeKeepsNames ==
  ASSUME TypeInv, NEW target \in names
  PROVE  /\ findUniqueSubsequence(target) \in Seq(Char)
         /\ Having(findUniqueSubsequence(target)) = Having(target)
<1> DEFINE X == [code : Seq(Char), failures : Nat]
           Shorter(s, i) == RemoveAt(s, (((i + 123) * 67601) % Len(s)) + 1)
           Next_(i, last) ==
             IF last.code = Empty \/ last.failures = Len(last.code) THEN last
             ELSE LET cut == Shorter(last.code, i - 1)
                  IN  IF Cardinality(Having(cut)) = Cardinality(Having(target))
                      THEN [code |-> cut, failures |-> 0]
                      ELSE [last EXCEPT !.failures = @ + 1]
           start == [code |-> target, failures |-> 0]
           Body(g, i) == IF i = 0 THEN start ELSE Next_(i, g[i - 1])
           attempt == CHOOSE f : f = [i \in 0 .. Rounds |-> Body(f, i)]
           step == [i \in 1 .. Rounds |-> [x \in X |-> Next_(i, x)]]
           Good(x) == x \in X /\ Having(x.code) = Having(target)
<1>1. Rounds \in Nat /\ target \in Seq(Char)
  BY BoundsAssumption, NamesAreSequences
<1>2. findUniqueSubsequence(target) = attempt[Rounds].code
  BY DEF findUniqueSubsequence
<1>3. start \in X /\ Good(start)
  BY <1>1
<1>4. ASSUME NEW i \in Nat \ {0}, NEW x \in X
      PROVE  Next_(i, x) \in X /\ (Good(x) => Good(Next_(i, x)))
  <2>1. x.code \in Seq(Char) /\ x.failures \in Nat
    OBVIOUS
  <2>2. CASE x.code = Empty \/ x.failures = Len(x.code)
    BY <2>2
  <2>3. CASE ~ (x.code = Empty \/ x.failures = Len(x.code))
    <3> DEFINE l == Len(x.code)
               q == (i - 1 + 123) * 67601
               place == (q % l) + 1
               cut == RemoveAt(x.code, place)
    <3>1. l \in Nat \ {0} /\ q \in Nat
      BY <2>1, <2>3 DEF Empty
    <3>2. place \in 1 .. l
      <4> HIDE DEF l, q
      <4>1. q % l \in 0 .. l - 1
        BY <3>1, Z3
      <4> QED
        BY <3>1, <4>1
    <3>3. cut \in Seq(Char)
      <4> HIDE DEF place
      <4> QED
        BY <2>1, <3>2, RemoveAtSequence
    <3>4. Next_(i, x) = IF Cardinality(Having(cut)) = Cardinality(Having(target))
                        THEN [code |-> cut, failures |-> 0]
                        ELSE [x EXCEPT !.failures = @ + 1]
      BY <2>3
    <3>5. ASSUME Good(x), Cardinality(Having(cut)) = Cardinality(Having(target))
          PROVE  Having(cut) = Having(target)
      <4> HIDE DEF place
      <4> QED
        BY <2>1, <3>2, <3>5, CutKeepsNames
    <3> HIDE DEF cut, Next_
    <3>6. CASE Cardinality(Having(cut)) = Cardinality(Having(target))
      BY <3>3, <3>4, <3>5, <3>6
    <3>7. CASE Cardinality(Having(cut)) # Cardinality(Having(target))
      BY <2>1, <3>4, <3>7
    <3> QED
      BY <3>6, <3>7
  <2> QED
    BY <2>2, <2>3
<1> HIDE DEF Next_, start, X
<1>5. PICK g : IsRun(g, X, start, Rounds, step)
  <2>1. step \in [1 .. Rounds -> [X -> X]]
    <3>1. \A i \in 1 .. Rounds : \A x \in X : Next_(i, x) \in X
      BY <1>1, <1>4
    <3> QED
      BY <3>1
  <2> HIDE DEF step
  <2> QED
    BY <1>1, <1>3, <2>1, PassExists
<1>6. g = [i \in 0 .. Rounds |-> Body(g, i)]
  <2>1. ASSUME NEW i \in 0 .. Rounds PROVE g[i] = Body(g, i)
    <3>1. CASE i = 0
      BY <1>5, <3>1 DEF IsRun
    <3>2. CASE i # 0
      <4>1. i \in 1 .. Rounds /\ g[i - 1] \in X
        BY <1>1, <1>5, <3>2 DEF IsRun
      <4>2. step[i][g[i - 1]] = Next_(i, g[i - 1])
        BY <4>1
      <4> HIDE DEF step
      <4>3. g[i] = step[i][g[i - 1]]
        BY <1>5, <4>1 DEF IsRun
      <4> QED
        BY <3>2, <4>2, <4>3
    <3> QED
      BY <3>1, <3>2
  <2>2. g = [i \in 0 .. Rounds |-> g[i]]
    BY <1>5 DEF IsRun
  <2> HIDE DEF Body
  <2> QED
    BY <2>1, <2>2
<1>7. attempt = [i \in 0 .. Rounds |-> Body(attempt, i)]
  <2> HIDE DEF Body
  <2> QED
    BY <1>6
<1> HIDE DEF attempt
<1>8. attempt[0] = start /\ \A i \in 1 .. Rounds : attempt[i] = Next_(i, attempt[i - 1])
  BY <1>1, <1>7
<1> DEFINE S == {i \in Nat : i <= Rounds => Good(attempt[i])}
<1> HIDE DEF Good
<1>9. 0 \in S
  BY <1>3, <1>8
<1>10. ASSUME NEW i \in S PROVE i + 1 \in S
  <2>1. SUFFICES ASSUME i + 1 <= Rounds PROVE Good(attempt[i + 1])
    OBVIOUS
  <2>2. i \in Nat /\ i + 1 \in 1 .. Rounds /\ i + 1 - 1 = i /\ Good(attempt[i])
    BY <1>1, <2>1
  <2>3. attempt[i + 1] = Next_(i + 1, attempt[i])
    BY <1>8, <2>2
  <2>4. attempt[i] \in X
    BY <2>2 DEF Good
  <2> QED
    BY <1>4, <2>2, <2>3, <2>4
<1>11. S = Nat
  <2> HIDE DEF S
  <2>1. S \subseteq Nat
    BY DEF S
  <2> QED
    BY <1>9, <1>10, <2>1, SetInduction
<1>12. Good(attempt[Rounds])
  <2>1. Rounds \in S
    BY <1>1, <1>11
  <2> QED
    BY <1>1, <2>1
<1> QED
  BY <1>2, <1>12 DEF Good, X

\* How a code is read: as one name, if there is a code at all.
ReadAs(code, s) == IF code = Empty THEN Contained(s) ELSE Shortest(code) = {s}

\* The code of a name has the name itself, and every other name it has is
\* longer; no code is left only of a name that all names have.
LEMMA CodeIsRead ==
  ASSUME TypeInv, NEW s \in names
  PROVE  ReadAs(findUniqueSubsequence(s), s)
<1> DEFINE code == findUniqueSubsequence(s)
<1>1. code \in Seq(Char) /\ Having(code) = Having(s)
  BY CodeKeepsNames
<1> HIDE DEF code
<1>2. \A t \in names : t \in Seq(Char) /\ Len(t) \in Nat
  BY NamesAreSequences
<1>3. CASE code = Empty
  <2>1. Having(Empty) = names
    BY <1>2, EmptyIsSubsequence DEF Having
  <2>2. Having(s) = names
    BY <1>1, <1>3, <2>1
  <2>3. Contained(s)
    BY <2>2 DEF Having, Contained
  <2> QED
    BY <1>3, <2>3 DEF ReadAs, code
<1>4. CASE code # Empty
  <2>1. \A t \in Having(s) : t \in names /\ Len(s) <= Len(t) /\ (Len(s) = Len(t) => s = t)
    BY <1>2, SubsequenceIsShorter DEF Having
  <2>2. s \in Having(s)
    BY <1>2, SubsequenceOfItself DEF Having
  <2>3. s \in Shortest(code)
    BY <1>1, <2>1, <2>2 DEF Shortest
  <2>4. ASSUME NEW t \in Shortest(code) PROVE t = s
    <3>1. t \in Having(s) /\ Len(t) <= Len(s)
      BY <1>1, <2>2, <2>4 DEF Shortest
    <3>2. t \in names /\ Len(s) <= Len(t) /\ (Len(s) = Len(t) => s = t)
      BY <2>1, <3>1
    <3>3. Len(s) \in Nat /\ Len(t) \in Nat
      BY <1>2, <3>2
    <3>4. Len(s) = Len(t)
      BY <3>1, <3>2, <3>3
    <3> QED
      BY <3>2, <3>4
  <2>5. Shortest(code) = {s}
    BY <2>3, <2>4
  <2> QED
    BY <1>4, <2>5 DEF ReadAs, code
<1> QED
  BY <1>3, <1>4

-----------------------------------------------------------------------------
(* The URL *)

\* The names whose codes the URL lists.
Listed == IF url.sign = "+" THEN chosen ELSE names \ chosen

\* Every listed name has a code in the URL, and every code is of a listed name.
UrlInv ==
  stage # "selected" =>
    /\ \A s \in Listed : \E c \in url.codes : ReadAs(c, s)
    /\ \A c \in url.codes : \E s \in Listed : ReadAs(c, s)

IInv == TypeInv /\ UrlInv /\ SelectionSurvives

LEMMA InitEstablishes == Init => IInv
<1> SUFFICES ASSUME Init PROVE IInv
  OBVIOUS
<1>1. TypeInv
  BY DEF Init, TypeInv
<1>2. stage = "selected"
  BY DEF Init
<1> QED
  BY <1>1, <1>2 DEF IInv, UrlInv, SelectionSurvives

\* Either half of the names may be listed: the codes are those of the names in it.
LEMMA ShareKeeps == IInv /\ Share => IInv'
<1> SUFFICES ASSUME IInv, Share PROVE IInv'
  OBVIOUS
<1> DEFINE f(s) == findUniqueSubsequence(s)
<1>1. TypeInv /\ names' = names /\ chosen' = chosen /\ restored' = restored
      /\ stage' = "shared" /\ url' = encode(chosen)
  BY DEF IInv, Share
<1>2. \A s \in names : ReadAs(f(s), s)
  BY <1>1, CodeIsRead
<1>3. PICK L : /\ L = IF url'.sign = "+" THEN chosen ELSE names \ chosen
               /\ url'.codes = {f(s) : s \in L} /\ url'.sign \in {"+", "-"}
  BY <1>1 DEF encode
<1>4. TypeInv'
  BY <1>1, <1>3 DEF TypeInv
<1>5. L \subseteq names /\ Listed' = L
  BY <1>1, <1>3 DEF TypeInv, Listed
<1>6. \A c, s : ReadAs(c, s)' <=> ReadAs(c, s)
  BY <1>1 DEF ReadAs, Contained, Shortest, Having
<1> HIDE DEF f
<1>7. UrlInv'
  BY <1>1, <1>2, <1>3, <1>5, <1>6 DEF UrlInv
<1>8. SelectionSurvives'
  BY <1>1 DEF SelectionSurvives
<1> QED
  BY <1>4, <1>7, <1>8 DEF IInv

\* Opening the URL reads the listed names back, but for one without a code.
LEMMA OpenKeeps == IInv /\ Open => IInv'
<1> SUFFICES ASSUME IInv, Open PROVE IInv'
  OBVIOUS
<1>1. /\ TypeInv /\ UrlInv /\ stage # "selected"
      /\ names' = names /\ chosen' = chosen /\ url' = url
      /\ stage' = "opened" /\ restored' = decode(url)
  BY DEF IInv, Open
<1> DEFINE read(c) == CHOOSE s \in Shortest(c) : TRUE
           filtered == {read(c) : c \in url.codes \ {Empty}}
<1>2. restored' = IF url.sign = "+" THEN filtered ELSE names \ filtered
  BY <1>1 DEF decode
<1>3. \A c, s : c # Empty /\ ReadAs(c, s) => read(c) = s
  BY DEF ReadAs
<1> HIDE DEF read
<1>4. filtered \subseteq Listed
  BY <1>1, <1>3 DEF UrlInv
<1>5. \A s \in Listed : s \in filtered \/ Contained(s)
  <2> TAKE s \in Listed
  <2>1. PICK c \in url.codes : ReadAs(c, s)
    BY <1>1 DEF UrlInv
  <2>2. CASE c = Empty
    BY <2>1, <2>2 DEF ReadAs
  <2>3. CASE c # Empty
    BY <1>3, <2>1, <2>3
  <2> QED
    BY <2>2, <2>3
<1> HIDE DEF filtered
<1>6. TypeInv'
  BY <1>1, <1>2, <1>4 DEF TypeInv, Listed
<1>7. \A s : Contained(s)' <=> Contained(s)
  BY <1>1 DEF Contained
<1>8. \A c, s : ReadAs(c, s)' <=> ReadAs(c, s)
  BY <1>1 DEF ReadAs, Contained, Shortest, Having
<1>9. UrlInv'
  <2>1. Listed' = Listed
    BY <1>1 DEF Listed
  <2> QED
    BY <1>1, <1>8, <2>1 DEF UrlInv
<1>10. ASSUME NEW s \in names
       PROVE  \/ s \in restored' <=> s \in chosen
              \/ Contained(s) /\ (s \in chosen <=> url.sign = "+")
  <2>1. CASE url.sign = "+"
    <3>1. restored' = filtered /\ Listed = chosen
      BY <1>2, <2>1 DEF Listed
    <3> QED
      BY <1>4, <1>5, <2>1, <3>1
  <2>2. CASE url.sign # "+"
    <3>1. restored' = names \ filtered /\ Listed = names \ chosen
      BY <1>2, <2>2 DEF Listed
    <3> QED
      BY <1>4, <1>5, <1>10, <2>2, <3>1
  <2> QED
    BY <2>1, <2>2
<1>11. SelectionSurvives'
  BY <1>1, <1>7, <1>10 DEF SelectionSurvives
<1> QED
  BY <1>6, <1>9, <1>11 DEF IInv

\* Whatever was shared and opened: the URL has the codes of the listed half.
THEOREM CodecInvariant == Spec => []IInv
<1>1. IInv /\ UNCHANGED vars => IInv'
  <2> SUFFICES ASSUME IInv, UNCHANGED vars PROVE IInv'
    OBVIOUS
  <2> USE DEF vars
  <2>1. TypeInv'
    BY DEF IInv, TypeInv
  <2>2. UrlInv'
    <3>1. \A c, s : ReadAs(c, s)' <=> ReadAs(c, s)
      BY DEF ReadAs, Contained, Shortest, Having
    <3>2. Listed' = Listed
      BY DEF Listed
    <3> QED
      BY <3>1, <3>2 DEF IInv, UrlInv
  <2>3. SelectionSurvives'
    BY DEF IInv, SelectionSurvives, Contained
  <2> QED
    BY <2>1, <2>2, <2>3 DEF IInv
<1>2. IInv /\ [Next]_vars => IInv'
  BY <1>1, ShareKeeps, OpenKeeps DEF Next
<1> QED
  BY <1>2, InitEstablishes, PTL DEF Spec

\* The code of a name, cut as often as attempts allow, is read back as that name
\* and no other, in every set of names.
THEOREM CodesReadBack == Spec => []CodesAreRead
<1>1. IInv => CodesAreRead
  <2> SUFFICES ASSUME IInv, NEW s \in names PROVE ReadAs(findUniqueSubsequence(s), s)
    BY DEF CodesAreRead, ReadAs
  <2> QED
    BY CodeIsRead DEF IInv
<1> QED
  BY <1>1, CodecInvariant, PTL

\* The page opened from the URL has the selection the URL was made from, but for
\* a name that every other contains.
THEOREM SelectionsSurvive == Spec => []SelectionSurvives
<1>1. IInv => SelectionSurvives
  BY DEF IInv
<1> QED
  BY <1>1, CodecInvariant, PTL
=============================================================================
