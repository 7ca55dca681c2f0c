---------------------------- MODULE PageDataProofs ----------------------------
(***************************************************************************)
(* Proofs about the data of the results page, for every number of files,   *)
(* of queries in them and of orders they may stand in.                     *)
(***************************************************************************)
EXTENDS PageData, Integers, FiniteSetTheorems, WellFoundedInduction, TLAPS

-----------------------------------------------------------------------------
(* Recursion *)

\* A set of numbers with 0 and, with each, the next, is the set of all.
LEMMA SetInduction ==
  ASSUME NEW S \in SUBSET Nat, 0 \in S, \A n \in S : n + 1 \in S
  PROVE  S = Nat
<1> DEFINE R == {ss \in Nat \X Nat : ss[1] < ss[2]}
           T == Nat \ S
<1>1. IsWellFoundedOn(R, Nat)
  BY NatLessThanWellFounded DEF OpToRel
<1>2. SUFFICES ASSUME T # {} PROVE FALSE
  OBVIOUS
<1>3. PICK x \in T : \A y \in T : ~ (<<y, x>> \in R)
  <2> HIDE DEF R
  <2>1. T \subseteq Nat
    OBVIOUS
  <2> HIDE DEF T
  <2> QED
    BY <1>1, <1>2, <2>1, WFMin
<1>4. x \in Nat /\ x # 0
  OBVIOUS
<1>5. x - 1 \in Nat /\ x - 1 < x
  BY <1>4
<1>6. x - 1 \in S
  BY <1>3, <1>5
<1> QED
  BY <1>4, <1>6

\* g starts from a value and takes N steps, each from the value before it.
IsRun(g, X, start, N, step) ==
  g \in [0 .. N -> X] /\ g[0] = start /\ \A i \in 1 .. N : g[i] = step[i][g[i - 1]]

\* There is such a run.
LEMMA PassExists ==
  ASSUME NEW X, NEW start \in X, NEW N \in Nat,
         NEW step \in [1 .. N -> [X -> X]]
  PROVE  \E g : IsRun(g, X, start, N, step)
<1> DEFINE Pass(g, n) == /\ g \in [0 .. n -> X] /\ g[0] = start
                         /\ \A i \in 1 .. n : g[i] = step[i][g[i - 1]]
           S == {n \in Nat : n <= N => \E g : Pass(g, n)}
<1>1. 0 \in S
  <2>1. Pass([i \in 0 .. 0 |-> start], 0)
    OBVIOUS
  <2> HIDE DEF Pass
  <2> QED
    BY <2>1
<1>2. ASSUME NEW n \in S PROVE n + 1 \in S
  <2>0. n \in Nat /\ (n <= N => \E g : Pass(g, n))
    OBVIOUS
  <2>1. ASSUME n + 1 <= N PROVE \E g : Pass(g, n + 1)
    <3>1. PICK h : Pass(h, n)
      <4> HIDE DEF Pass
      <4> QED
        BY <2>0, <2>1
    <3> DEFINE g == [i \in 0 .. n + 1 |-> IF i = n + 1 THEN step[n + 1][h[n]] ELSE h[i]]
    <3>2. n + 1 \in 1 .. N /\ h[n] \in X
      BY <2>0, <2>1, <3>1
    <3>3. g \in [0 .. n + 1 -> X] /\ g[0] = start
      BY <2>0, <3>1, <3>2
    <3>4. ASSUME NEW i \in 1 .. n + 1 PROVE g[i] = step[i][g[i - 1]]
      <4>1. CASE i = n + 1
        <5>1. g[n + 1] = step[n + 1][h[n]] /\ g[n] = h[n] /\ n + 1 - 1 = n
          BY <2>0
        <5> HIDE DEF g
        <5> QED
          BY <4>1, <5>1
      <4>2. CASE i \in 1 .. n
        <5>1. g[i] = h[i] /\ g[i - 1] = h[i - 1]
          BY <2>0, <4>2
        <5> QED
          BY <3>1, <4>2, <5>1
      <4> QED
        BY <2>0, <4>1, <4>2
    <3>5. Pass(g, n + 1)
      BY <3>3, <3>4
    <3> HIDE DEF Pass
    <3> QED
      BY <3>5
  <2> HIDE DEF Pass
  <2> QED
    BY <2>0, <2>1
<1>3. S = Nat
  <2> HIDE DEF S
  <2>1. S \subseteq Nat
    BY DEF S
  <2> QED
    BY <1>1, <1>2, <2>1, SetInduction
<1>4. PICK g : Pass(g, N)
  <2>1. N \in S
    BY <1>3
  <2> HIDE DEF Pass
  <2> QED
    BY <2>1
<1> QED
  BY <1>4 DEF IsRun

-----------------------------------------------------------------------------
(* Sequences without repetition *)

IsList(s, S) == s \in Seq(S) /\ IsInjective(s)

\* A list of nothing.
LEMMA EmptyList ==
  ASSUME NEW S
  PROVE  IsList(<<>>, S) /\ ToSet(<<>>) = {} /\ Len(<<>>) = 0
BY DEF IsList, IsInjective, ToSet

\* A new member at the end.
LEMMA AppendToList ==
  ASSUME NEW S, NEW s, IsList(s, S), NEW e \in S, e \notin ToSet(s)
  PROVE  IsList(Append(s, e), S) /\ ToSet(Append(s, e)) = ToSet(s) \union {e}
<1> DEFINE n == Len(s)
           t == Append(s, e)
<1>1. s \in Seq(S) /\ n \in Nat /\ DOMAIN s = 1 .. n
  BY DEF IsList
<1>2. t \in Seq(S) /\ DOMAIN t = 1 .. n + 1 /\ t[n + 1] = e /\ \A i \in 1 .. n : t[i] = s[i]
  BY <1>1
<1>3. \A i \in 1 .. n : s[i] \in ToSet(s)
  BY <1>1 DEF ToSet
<1> HIDE DEF n, t
<1>4. ASSUME NEW a \in 1 .. n + 1, NEW b \in 1 .. n + 1, t[a] = t[b] PROVE a = b
  <2>1. \A i \in 1 .. n + 1 : i \in 1 .. n \/ i = n + 1
    BY <1>1
  <2>2. CASE a = n + 1 /\ b = n + 1
    BY <2>2
  <2>3. CASE a \in 1 .. n /\ b = n + 1
    BY <1>2, <1>3, <1>4, <2>3
  <2>4. CASE a = n + 1 /\ b \in 1 .. n
    BY <1>2, <1>3, <1>4, <2>4
  <2>5. CASE a \in 1 .. n /\ b \in 1 .. n
    BY <1>1, <1>2, <1>4, <2>5 DEF IsList, IsInjective
  <2> QED
    BY <2>1, <2>2, <2>3, <2>4, <2>5
<1>5. IsInjective(t)
  BY <1>2, <1>4 DEF IsInjective
<1>6. ToSet(t) = ToSet(s) \union {e}
  <2>1. ToSet(t) \subseteq ToSet(s) \union {e}
    <3>1. \A i \in 1 .. n + 1 : i \in 1 .. n \/ i = n + 1
      BY <1>1
    <3> QED
      BY <1>2, <1>3, <3>1 DEF ToSet
  <2>2. e \in ToSet(t)
    <3>1. n + 1 \in 1 .. n + 1
      BY <1>1
    <3> QED
      BY <1>2, <3>1 DEF ToSet
  <2>3. ToSet(s) \subseteq ToSet(t)
    <3>1. \A i \in 1 .. n : i \in 1 .. n + 1
      BY <1>1
    <3> QED
      BY <1>1, <1>2, <3>1 DEF ToSet
  <2> QED
    BY <2>1, <2>2, <2>3
<1> QED
  BY <1>2, <1>5, <1>6 DEF t, IsList

\* u holds s, then t.
IsJoined(u, s, t, S) ==
  /\ IsList(u, S) /\ ToSet(u) = ToSet(s) \union ToSet(t)
  /\ Len(u) = Len(s) + Len(t)
  /\ \A i \in 1 .. Len(s) : u[i] = s[i]
  /\ \A i \in 1 .. Len(t) : u[Len(s) + i] = t[i]

\* One list after another that shares no member with it.
LEMMA ListAfterList ==
  ASSUME NEW S, NEW s, NEW t, IsList(s, S), IsList(t, S), ToSet(s) \cap ToSet(t) = {}
  PROVE  IsJoined(s \o t, s, t, S)
<1> DEFINE m == Len(s)
           n == Len(t)
           u == s \o t
<1>1. s \in Seq(S) /\ t \in Seq(S) /\ m \in Nat /\ n \in Nat
      /\ DOMAIN s = 1 .. m /\ DOMAIN t = 1 .. n
  BY DEF IsList
<1>2. u \in Seq(S) /\ Len(u) = m + n /\ DOMAIN u = 1 .. m + n
  BY <1>1
<1>3. \A i \in 1 .. m : u[i] = s[i]
  BY <1>1
<1>4. \A i \in 1 .. n : u[m + i] = t[i]
  BY <1>1
<1>5. /\ \A i \in 1 .. m : s[i] \in ToSet(s)
      /\ \A i \in 1 .. n : t[i] \in ToSet(t)
  BY <1>1 DEF ToSet
<1> HIDE DEF m, n, u
<1>6. \A i \in 1 .. m + n : i \in 1 .. m \/ \E k \in 1 .. n : i = m + k
  <2> TAKE i \in 1 .. m + n
  <2>1. CASE i <= m
    BY <1>1, <2>1
  <2>2. CASE i > m
    <3>1. i - m \in 1 .. n /\ i = m + (i - m)
      BY <1>1, <2>2
    <3> QED
      BY <3>1
  <2> QED
    BY <1>1, <2>1, <2>2
<1>7. ASSUME NEW a \in 1 .. m + n, NEW b \in 1 .. m + n, u[a] = u[b] PROVE a = b
  <2>1. CASE a \in 1 .. m /\ b \in 1 .. m
    BY <1>1, <1>3, <1>7, <2>1 DEF IsList, IsInjective
  <2>2. CASE a \in 1 .. m /\ \E k \in 1 .. n : b = m + k
    BY <1>3, <1>4, <1>5, <1>7, <2>2
  <2>3. CASE b \in 1 .. m /\ \E k \in 1 .. n : a = m + k
    BY <1>3, <1>4, <1>5, <1>7, <2>3
  <2>4. CASE (\E k \in 1 .. n : a = m + k) /\ \E k \in 1 .. n : b = m + k
    <3>1. PICK k \in 1 .. n : a = m + k
      BY <2>4
    <3>2. PICK l \in 1 .. n : b = m + l
      BY <2>4
    <3>3. t[k] = t[l]
      BY <1>4, <1>7, <3>1, <3>2
    <3>4. k = l
      BY <1>1, <3>3 DEF IsList, IsInjective
    <3> QED
      BY <3>1, <3>2, <3>4
  <2> QED
    BY <1>6, <2>1, <2>2, <2>3, <2>4
<1>8. IsInjective(u)
  BY <1>2, <1>7 DEF IsInjective
<1>9. ToSet(u) = ToSet(s) \union ToSet(t)
  <2>1. ToSet(u) \subseteq ToSet(s) \union ToSet(t)
    BY <1>2, <1>3, <1>4, <1>5, <1>6 DEF ToSet
  <2>2. ToSet(s) \subseteq ToSet(u)
    <3>1. \A i \in 1 .. m : i \in 1 .. m + n
      BY <1>1
    <3> QED
      BY <1>1, <1>2, <1>3, <3>1 DEF ToSet
  <2>3. ToSet(t) \subseteq ToSet(u)
    <3>1. \A i \in 1 .. n : m + i \in 1 .. m + n
      BY <1>1
    <3> QED
      BY <1>1, <1>2, <1>4, <3>1 DEF ToSet
  <2> QED
    BY <2>1, <2>2, <2>3
<1> QED
  BY <1>2, <1>3, <1>4, <1>8, <1>9 DEF m, n, u, IsList, IsJoined

-----------------------------------------------------------------------------
(* The order of the queries *)

Entry == [id : Id, ok : BOOLEAN]

\* A file's entries, and the page once it is built.
TypeInv == file \in [Systems -> Seq(Entry)]

\* A file adds the ids that are not there yet, each once, whatever it repeats.
LEMMA FileAdds ==
  ASSUME TypeInv, NEW s \in Systems, NEW seen, IsList(seen, Id)
  PROVE  /\ IsList(AddFile(seen, s), Id)
         /\ ToSet(AddFile(seen, s)) = ToSet(seen) \union ToSet(Ids(file[s]))
<1> DEFINE ids == Ids(file[s])
           n == Len(ids)
           X == {l \in Seq(Id) : IsInjective(l)}
           Body(f, i) == IF i = 0 THEN seen ELSE AddNew(f[i - 1], ids[i])
           added == CHOOSE f : f = [i \in 0 .. n |-> Body(f, i)]
           step == [i \in 1 .. n |-> [l \in X |-> AddNew(l, ids[i])]]
           Met(i) == {ids[k] : k \in 1 .. i}
           Good(i, l) == IsList(l, Id) /\ ToSet(l) = ToSet(seen) \union Met(i)
<1>1. ids \in Seq(Id) /\ n \in Nat /\ DOMAIN ids = 1 .. n /\ \A i \in 1 .. n : ids[i] \in Id
  <2>1. file[s] \in Seq(Entry)
    BY DEF TypeInv
  <2>2. ids = [i \in 1 .. Len(file[s]) |-> file[s][i].id] /\ Len(file[s]) \in Nat
    BY <2>1 DEF Ids
  <2>3. \A i \in 1 .. Len(file[s]) : file[s][i].id \in Id
    <3>1. \A i \in 1 .. Len(file[s]) : file[s][i] \in Entry
      BY <2>1
    <3>2. \A e \in Entry : e.id \in Id
      BY DEF Entry
    <3> QED
      BY <3>1, <3>2
  <2> HIDE DEF ids
  <2>4. ids \in Seq(Id)
    BY <2>2, <2>3
  <2> QED
    BY <2>4
<1>2. AddFile(seen, s) = added[n]
  BY DEF AddFile
<1> HIDE DEF ids, n
<1>3. \A l : l \in X <=> IsList(l, Id)
  BY DEF IsList
<1>4. ASSUME NEW l \in X, NEW e \in Id
      PROVE  AddNew(l, e) \in X /\ ToSet(AddNew(l, e)) = ToSet(l) \union {e}
  <2>1. IsList(l, Id)
    BY <1>3
  <2>2. Contains(l, e) <=> e \in ToSet(l)
    BY DEF Contains, ToSet
  <2>3. CASE e \in ToSet(l)
    BY <2>2, <2>3 DEF AddNew
  <2>4. CASE e \notin ToSet(l)
    <3>1. AddNew(l, e) = Append(l, e)
      BY <2>2, <2>4 DEF AddNew
    <3> QED
      BY <1>3, <2>1, <2>4, <3>1, AppendToList
  <2> QED
    BY <2>3, <2>4
<1>5. seen \in X
  BY <1>3
<1> HIDE DEF X
<1>6. PICK g : IsRun(g, X, seen, n, step)
  <2>1. step \in [1 .. n -> [X -> X]]
    BY <1>1, <1>4
  <2> HIDE DEF step
  <2> QED
    BY <1>1, <1>5, <2>1, PassExists
<1>7. g = [i \in 0 .. n |-> Body(g, i)]
  <2>1. ASSUME NEW i \in 0 .. n PROVE g[i] = Body(g, i)
    <3>1. CASE i = 0
      BY <1>6, <3>1 DEF IsRun
    <3>2. CASE i # 0
      <4>1. i \in 1 .. n /\ g[i - 1] \in X
        BY <1>1, <1>6, <3>2 DEF IsRun
      <4>2. step[i][g[i - 1]] = AddNew(g[i - 1], ids[i])
        BY <4>1
      <4> HIDE DEF step
      <4>3. g[i] = step[i][g[i - 1]]
        BY <1>6, <4>1 DEF IsRun
      <4> QED
        BY <3>2, <4>2, <4>3
    <3> QED
      BY <3>1, <3>2
  <2>2. g = [i \in 0 .. n |-> g[i]]
    BY <1>6 DEF IsRun
  <2> HIDE DEF Body
  <2> QED
    BY <2>1, <2>2
<1>8. added = [i \in 0 .. n |-> Body(added, i)]
  <2> HIDE DEF Body
  <2> QED
    BY <1>7
<1> HIDE DEF added
<1>9. added[0] = seen /\ \A i \in 1 .. n : added[i] = AddNew(added[i - 1], ids[i])
  BY <1>1, <1>8
<1> DEFINE S == {i \in Nat : i <= n => Good(i, added[i])}
<1>10. 0 \in S
  BY <1>1, <1>9
<1>11. ASSUME NEW i \in S PROVE i + 1 \in S
  <2>1. SUFFICES ASSUME i + 1 <= n PROVE Good(i + 1, added[i + 1])
    OBVIOUS
  <2>2. i \in Nat /\ i + 1 \in 1 .. n /\ i + 1 - 1 = i /\ Good(i, added[i])
    BY <1>1, <2>1
  <2>3. added[i + 1] = AddNew(added[i], ids[i + 1])
    BY <1>9, <2>2
  <2>4. Met(i + 1) = Met(i) \union {ids[i + 1]}
    <3>1. 1 .. i + 1 = (1 .. i) \union {i + 1}
      BY <2>2
    <3> QED
      BY <3>1
  <2>5. added[i] \in X /\ ids[i + 1] \in Id
    BY <1>1, <1>3, <2>2
  <2>6. added[i + 1] \in X /\ ToSet(added[i + 1]) = ToSet(added[i]) \union {ids[i + 1]}
    BY <1>4, <2>3, <2>5
  <2> HIDE DEF Met
  <2> QED
    BY <1>3, <2>2, <2>4, <2>6
<1>12. S = Nat
  <2> HIDE DEF S
  <2>1. S \subseteq Nat
    BY DEF S
  <2> QED
    BY <1>10, <1>11, <2>1, SetInduction
<1>13. Good(n, added[n])
  <2>1. n \in S
    BY <1>1, <1>12
  <2> HIDE DEF Good
  <2> QED
    BY <1>1, <2>1
<1>14. Met(n) = ToSet(ids)
  BY <1>1 DEF ToSet
<1> QED
  BY <1>2, <1>13, <1>14 DEF ids

\* The ids of all files are merged into one list of them.
LEMMA MergedHasAll ==
  ASSUME TypeInv
  PROVE  /\ IsList(Merged, Id)
         /\ ToSet(Merged) = UNION {ToSet(Ids(file[s])) : s \in Systems}
<1> DEFINE n == Len(System)
           X == {l \in Seq(Id) : IsInjective(l)}
           Body(f, k) == IF k = 0 THEN <<>> ELSE AddFile(f[k - 1], System[k])
           merged == CHOOSE f : f = [k \in 0 .. n |-> Body(f, k)]
           step == [k \in 1 .. n |-> [l \in X |-> AddFile(l, System[k])]]
           Met(k) == UNION {ToSet(Ids(file[System[j]])) : j \in 1 .. k}
           Good(k, l) == IsList(l, Id) /\ ToSet(l) = Met(k)
<1>1. /\ System \in Seq(Systems) /\ n \in Nat /\ DOMAIN System = 1 .. n
      /\ \A k \in 1 .. n : System[k] \in Systems
  <2>1. System \in Seq(Systems)
    BY PageAssumption DEF Systems
  <2> QED
    BY <2>1
<1>2. Merged = merged[n]
  BY DEF Merged
<1> HIDE DEF n
<1>3. \A l : l \in X <=> IsList(l, Id)
  BY DEF IsList
<1>4. ASSUME NEW l \in X, NEW s \in Systems
      PROVE  AddFile(l, s) \in X /\ ToSet(AddFile(l, s)) = ToSet(l) \union ToSet(Ids(file[s]))
  BY <1>3, FileAdds
<1>5. <<>> \in X
  BY <1>3, EmptyList
<1> HIDE DEF X
<1>6. PICK g : IsRun(g, X, <<>>, n, step)
  <2>1. step \in [1 .. n -> [X -> X]]
    BY <1>1, <1>4
  <2> HIDE DEF step
  <2> QED
    BY <1>1, <1>5, <2>1, PassExists
<1>7. g = [k \in 0 .. n |-> Body(g, k)]
  <2>1. ASSUME NEW k \in 0 .. n PROVE g[k] = Body(g, k)
    <3>1. CASE k = 0
      BY <1>6, <3>1 DEF IsRun
    <3>2. CASE k # 0
      <4>1. k \in 1 .. n /\ g[k - 1] \in X
        BY <1>1, <1>6, <3>2 DEF IsRun
      <4>2. step[k][g[k - 1]] = AddFile(g[k - 1], System[k])
        BY <4>1
      <4> HIDE DEF step
      <4>3. g[k] = step[k][g[k - 1]]
        BY <1>6, <4>1 DEF IsRun
      <4> QED
        BY <3>2, <4>2, <4>3
    <3> QED
      BY <3>1, <3>2
  <2>2. g = [k \in 0 .. n |-> g[k]]
    BY <1>6 DEF IsRun
  <2> HIDE DEF Body
  <2> QED
    BY <2>1, <2>2
<1>8. merged = [k \in 0 .. n |-> Body(merged, k)]
  <2> HIDE DEF Body
  <2> QED
    BY <1>7
<1> HIDE DEF merged
<1>9. merged[0] = <<>> /\ \A k \in 1 .. n : merged[k] = AddFile(merged[k - 1], System[k])
  BY <1>1, <1>8
<1> DEFINE S == {k \in Nat : k <= n => Good(k, merged[k])}
<1>10. 0 \in S
  <2>1. Met(0) = {}
    OBVIOUS
  <2> QED
    BY <1>9, <2>1, EmptyList
<1>11. ASSUME NEW k \in S PROVE k + 1 \in S
  <2>1. SUFFICES ASSUME k + 1 <= n PROVE Good(k + 1, merged[k + 1])
    OBVIOUS
  <2>2. k \in Nat /\ k + 1 \in 1 .. n /\ k + 1 - 1 = k /\ Good(k, merged[k])
    BY <1>1, <2>1
  <2>3. merged[k + 1] = AddFile(merged[k], System[k + 1])
    BY <1>9, <2>2
  <2>4. Met(k + 1) = Met(k) \union ToSet(Ids(file[System[k + 1]]))
    <3>1. 1 .. k + 1 = (1 .. k) \union {k + 1}
      BY <2>2
    <3> QED
      BY <3>1
  <2>5. merged[k] \in X /\ System[k + 1] \in Systems
    BY <1>1, <1>3, <2>2
  <2>6. merged[k + 1] \in X
        /\ ToSet(merged[k + 1]) = ToSet(merged[k]) \union ToSet(Ids(file[System[k + 1]]))
    BY <1>4, <2>3, <2>5
  <2> HIDE DEF Met
  <2> QED
    BY <1>3, <2>2, <2>4, <2>6
<1>12. S = Nat
  <2> HIDE DEF S
  <2>1. S \subseteq Nat
    BY DEF S
  <2> QED
    BY <1>10, <1>11, <2>1, SetInduction
<1>13. Good(n, merged[n])
  <2>1. n \in S
    BY <1>1, <1>12
  <2> HIDE DEF Good
  <2> QED
    BY <1>1, <2>1
<1>14. Met(n) = UNION {ToSet(Ids(file[s])) : s \in Systems}
  <2>1. Systems = {System[k] : k \in 1 .. n}
    BY <1>1 DEF Systems, ToSet
  <2> QED
    BY <2>1
<1> QED
  BY <1>2, <1>13, <1>14

\* A group has the queries that belong to it.
LEMMA GroupHasItsOwn ==
  ASSUME NEW order, IsList(order, Id), NEW group
  PROVE  /\ IsList(OfGroup(order, group), Id)
         /\ ToSet(OfGroup(order, group)) = {q \in ToSet(order) : Group(q) = group}
<1> DEFINE n == Len(order)
           X == Seq(Id)
           Pick(l, q) == IF Group(q) = group THEN Append(l, q) ELSE l
           Body(f, i) == IF i = 0 THEN <<>>
                         ELSE IF Group(order[i]) = group THEN Append(f[i - 1], order[i])
                         ELSE f[i - 1]
           picked == CHOOSE f : f = [i \in 0 .. n |-> Body(f, i)]
           step == [i \in 1 .. n |-> [l \in X |-> Pick(l, order[i])]]
           Met(i) == {q \in {order[k] : k \in 1 .. i} : Group(q) = group}
           Good(i, l) == IsList(l, Id) /\ ToSet(l) = Met(i)
<1>1. /\ order \in Seq(Id) /\ n \in Nat /\ DOMAIN order = 1 .. n
      /\ \A i \in 1 .. n : order[i] \in Id
  BY DEF IsList
<1>2. OfGroup(order, group) = picked[n]
  BY DEF OfGroup
<1> HIDE DEF n
<1>3. \A l \in X, q \in Id : Pick(l, q) \in X
  OBVIOUS
<1>4. <<>> \in X
  OBVIOUS
<1> HIDE DEF X
<1>5. PICK g : IsRun(g, X, <<>>, n, step)
  <2>1. step \in [1 .. n -> [X -> X]]
    <3> HIDE DEF Pick
    <3> QED
      BY <1>1, <1>3
  <2> HIDE DEF step
  <2> QED
    BY <1>1, <1>4, <2>1, PassExists
<1>6. g = [i \in 0 .. n |-> Body(g, i)]
  <2>1. ASSUME NEW i \in 0 .. n PROVE g[i] = Body(g, i)
    <3>1. CASE i = 0
      BY <1>5, <3>1 DEF IsRun
    <3>2. CASE i # 0
      <4>1. i \in 1 .. n /\ g[i - 1] \in X
        BY <1>1, <1>5, <3>2 DEF IsRun
      <4>2. step[i][g[i - 1]] = Pick(g[i - 1], order[i])
        <5> HIDE DEF Pick
        <5> QED
          BY <4>1
      <4> HIDE DEF step
      <4>3. g[i] = step[i][g[i - 1]]
        BY <1>5, <4>1 DEF IsRun
      <4> QED
        BY <3>2, <4>2, <4>3
    <3> QED
      BY <3>1, <3>2
  <2>2. g = [i \in 0 .. n |-> g[i]]
    BY <1>5 DEF IsRun
  <2> HIDE DEF Body
  <2> QED
    BY <2>1, <2>2
<1>7. picked = [i \in 0 .. n |-> Body(picked, i)]
  <2> HIDE DEF Body
  <2> QED
    BY <1>6
<1> HIDE DEF picked
<1>8. picked[0] = <<>> /\ \A i \in 1 .. n : picked[i] = Pick(picked[i - 1], order[i])
  <2>1. \A i \in 0 .. n : picked[i] = Body(picked, i)
    <3> HIDE DEF Body
    <3> QED
      BY <1>7
  <2>2. 0 \in 0 .. n /\ \A i \in 1 .. n : i \in 0 .. n /\ i # 0
    BY <1>1
  <2> QED
    BY <2>1, <2>2
<1> DEFINE S == {i \in Nat : i <= n => Good(i, picked[i])}
<1>9. 0 \in S
  <2>1. Met(0) = {}
    OBVIOUS
  <2> QED
    BY <1>8, <2>1, EmptyList
<1>10. ASSUME NEW i \in S PROVE i + 1 \in S
  <2>1. SUFFICES ASSUME i + 1 <= n PROVE Good(i + 1, picked[i + 1])
    OBVIOUS
  <2>2. i \in Nat /\ i + 1 \in 1 .. n /\ i + 1 - 1 = i /\ Good(i, picked[i])
    BY <1>1, <2>1
  <2> DEFINE q == order[i + 1]
             l == picked[i]
  <2>3. picked[i + 1] = Pick(l, q)
    BY <1>8, <2>2
  <2>4. Met(i + 1) = IF Group(q) = group THEN Met(i) \union {q} ELSE Met(i)
    <3>1. 1 .. i + 1 = (1 .. i) \union {i + 1}
      BY <2>2
    <3> QED
      BY <3>1
  <2>5. q \notin Met(i) /\ q \in Id
    <3>1. \A k \in 1 .. i : k \in 1 .. n /\ k # i + 1
      BY <1>1, <2>2
    <3>2. \A k \in 1 .. i : order[k] # order[i + 1]
      BY <1>1, <2>2, <3>1 DEF IsList, IsInjective
    <3> QED
      BY <1>1, <2>2, <3>2
  <2> HIDE DEF q, l, Met
  <2>6. IsList(l, Id) /\ ToSet(l) = Met(i)
    BY <2>2 DEF l
  <2>7. CASE Group(q) = group
    <3>1. picked[i + 1] = Append(l, q)
      BY <2>3, <2>7
    <3>2. IsList(Append(l, q), Id) /\ ToSet(Append(l, q)) = Met(i) \union {q}
      BY <2>5, <2>6, AppendToList
    <3> QED
      BY <2>4, <2>7, <3>1, <3>2
  <2>8. CASE Group(q) # group
    BY <2>3, <2>4, <2>6, <2>8
  <2> QED
    BY <2>7, <2>8
<1>11. S = Nat
  <2> HIDE DEF S
  <2>1. S \subseteq Nat
    BY DEF S
  <2> QED
    BY <1>9, <1>10, <2>1, SetInduction
<1>12. Good(n, picked[n])
  <2>1. n \in S
    BY <1>1, <1>11
  <2> HIDE DEF Good
  <2> QED
    BY <1>1, <2>1
<1>13. {order[k] : k \in 1 .. n} = ToSet(order)
  BY <1>1 DEF ToSet
<1> QED
  BY <1>2, <1>12, <1>13

\* The groups one after the other hold every query once.
LEMMA RegroupingKeepsAll ==
  ASSUME NEW order, IsList(order, Id)
  PROVE  LET count == Len(CountIds(order))
             agg == Len(AggIds(order))
             rows == Len(RowsIds(order))
             all == Regrouped(order)
         IN  /\ count \in Nat /\ agg \in Nat /\ rows \in Nat
             /\ IsList(all, Id) /\ ToSet(all) = ToSet(order)
             /\ DOMAIN all = 1 .. count + agg + rows
             /\ \A i \in 1 .. count : Group(all[i]) = "count"
             /\ \A i \in 1 .. agg : Group(all[count + i]) = "aggregation"
             /\ \A i \in 1 .. rows : Group(all[count + agg + i]) = "rows"
<1> DEFINE c == CountIds(order)
           a == AggIds(order)
           r == RowsIds(order)
           ca == c \o a
           all == Regrouped(order)
<1>1. /\ IsList(c, Id) /\ ToSet(c) = {q \in ToSet(order) : Group(q) = "count"}
      /\ IsList(a, Id) /\ ToSet(a) = {q \in ToSet(order) : Group(q) = "aggregation"}
      /\ IsList(r, Id) /\ ToSet(r) = {q \in ToSet(order) : Group(q) = "rows"}
  BY GroupHasItsOwn DEF CountIds, AggIds, RowsIds
<1>2. all = ca \o r
  BY DEF Regrouped
<1> HIDE DEF c, a, r, all
<1>3. /\ Len(c) \in Nat /\ Len(a) \in Nat /\ Len(r) \in Nat
      /\ \A i \in 1 .. Len(c) : c[i] \in ToSet(c)
      /\ \A i \in 1 .. Len(a) : a[i] \in ToSet(a)
      /\ \A i \in 1 .. Len(r) : r[i] \in ToSet(r)
  BY <1>1 DEF IsList, ToSet
<1>4. IsJoined(ca, c, a, Id)
  <2>1. ToSet(c) \cap ToSet(a) = {}
    BY <1>1
  <2>2. IsList(c, Id) /\ IsList(a, Id)
    BY <1>1
  <2> QED
    BY <2>1, <2>2, ListAfterList
<1> HIDE DEF ca
<1>5. IsJoined(all, ca, r, Id)
  <2>1. ToSet(ca) \cap ToSet(r) = {}
    BY <1>1, <1>4 DEF IsJoined
  <2>2. IsList(ca, Id) /\ IsList(r, Id)
    BY <1>1, <1>4 DEF IsJoined
  <2> QED
    BY <1>2, <2>1, <2>2, ListAfterList
<1>6. ToSet(all) = ToSet(order)
  BY <1>1, <1>4, <1>5 DEF Group, IsJoined
<1>7. DOMAIN all = 1 .. Len(c) + Len(a) + Len(r)
  BY <1>3, <1>4, <1>5 DEF IsList, IsJoined
<1>8. \A i \in 1 .. Len(c) : Group(all[i]) = "count"
  <2>1. \A i \in 1 .. Len(c) : i \in 1 .. Len(ca)
    BY <1>3, <1>4 DEF IsJoined
  <2>2. \A i \in 1 .. Len(c) : all[i] = c[i]
    BY <1>4, <1>5, <2>1 DEF IsJoined
  <2>3. \A i \in 1 .. Len(c) : Group(c[i]) = "count"
    BY <1>1, <1>3
  <2> QED
    BY <2>2, <2>3
<1>9. \A i \in 1 .. Len(a) : Group(all[Len(c) + i]) = "aggregation"
  <2>1. \A i \in 1 .. Len(a) : Len(c) + i \in 1 .. Len(ca)
    BY <1>3, <1>4 DEF IsJoined
  <2> QED
    BY <1>1, <1>3, <1>4, <1>5, <2>1 DEF IsJoined
<1>10. \A i \in 1 .. Len(r) : Group(all[Len(c) + Len(a) + i]) = "rows"
  BY <1>1, <1>3, <1>4, <1>5 DEF IsJoined
<1> QED
  BY <1>3, <1>5, <1>6, <1>7, <1>8, <1>9, <1>10 DEF IsJoined, c, a, r, all

\* The last of the headings above line i.
IsHeaded(order, sections, i) ==
  LET above == {k \in DOMAIN sections : k < i}
      last == CHOOSE k \in above : \A j \in above : j <= k
  IN  sections[last] = Group(order[i])

\* It is the one of the line's group.
LEMMA LinesAreHeaded ==
  ASSUME NEW order, IsList(order, Id)
  PROVE  \A i \in DOMAIN Regrouped(order) : IsHeaded(Regrouped(order), Sections(order), i)
<1> TAKE i \in DOMAIN Regrouped(order)
<1> DEFINE count == Len(CountIds(order))
           agg == Len(AggIds(order))
           rows == Len(RowsIds(order))
           all == Regrouped(order)
           sections == Sections(order)
           aggHeads == IF agg # 0 THEN {count} ELSE {}
           rowsHeads == IF rows # 0 THEN {count + agg} ELSE {}
           above == {k \in DOMAIN sections : k < i}
           last == CHOOSE k \in above : \A j \in above : j <= k
<1> SUFFICES sections[last] = Group(all[i])
  BY DEF IsHeaded
<1>1. /\ count \in Nat /\ agg \in Nat /\ rows \in Nat
      /\ DOMAIN all = 1 .. count + agg + rows
      /\ \A k \in 1 .. count : Group(all[k]) = "count"
      /\ \A k \in 1 .. agg : Group(all[count + k]) = "aggregation"
      /\ \A k \in 1 .. rows : Group(all[count + agg + k]) = "rows"
  BY RegroupingKeepsAll
<1>2. RowsIds(order) # <<>> <=> rows # 0
  <2>1. RowsIds(order) \in Seq(Id)
    BY GroupHasItsOwn DEF RowsIds, IsList
  <2> QED
    BY <2>1
<1>3. sections = [k \in {0} \union aggHeads \union rowsHeads |->
                    IF k \in rowsHeads THEN "rows" ELSE IF k \in aggHeads THEN "aggregation" ELSE "count"]
  BY <1>2 DEF Sections
<1>4. i \in 1 .. count + agg + rows
  BY <1>1
<1> HIDE DEF count, agg, rows, all, sections
<1>5. ASSUME NEW k \in above, \A j \in above : j <= k PROVE last = k
  <2>1. above \subseteq Nat
    BY <1>1, <1>3
  <2>2. last \in above /\ \A j \in above : j <= last
    BY <1>5
  <2> HIDE DEF last, above
  <2>3. last <= k /\ k <= last /\ last \in Nat /\ k \in Nat
    BY <1>5, <2>1, <2>2
  <2> QED
    BY <2>3
<1>6. CASE i <= count
  <2>1. Group(all[i]) = "count"
    BY <1>1, <1>4, <1>6
  <2>2. 0 \in above /\ \A j \in above : j <= 0
    BY <1>1, <1>3, <1>4, <1>6
  <2>3. last = 0
    <3> HIDE DEF last, above
    <3> QED
      BY <1>5, <2>2
  <2>4. sections[0] = "count"
    BY <1>1, <1>3, <1>4, <1>6
  <2> QED
    BY <2>1, <2>3, <2>4
<1>7. CASE i > count /\ i <= count + agg
  <2>1. Group(all[i]) = "aggregation"
    <3>1. i - count \in 1 .. agg /\ count + (i - count) = i
      BY <1>1, <1>4, <1>7
    <3> QED
      BY <1>1, <3>1
  <2>2. agg # 0
    BY <1>1, <1>4, <1>7
  <2>3. count \in above /\ \A j \in above : j <= count
    BY <1>1, <1>3, <1>4, <1>7, <2>2
  <2>4. last = count
    <3> HIDE DEF last, above
    <3> QED
      BY <1>5, <2>3
  <2>5. sections[count] = "aggregation"
    BY <1>1, <1>3, <2>2
  <2> QED
    BY <2>1, <2>4, <2>5
<1>8. CASE i > count + agg
  <2>1. Group(all[i]) = "rows"
    <3>1. i - (count + agg) \in 1 .. rows /\ count + agg + (i - (count + agg)) = i
      BY <1>1, <1>4, <1>8
    <3> QED
      BY <1>1, <3>1
  <2>2. rows # 0
    BY <1>1, <1>4, <1>8
  <2>3. count + agg \in above /\ \A j \in above : j <= count + agg
    BY <1>1, <1>3, <1>4, <1>8, <2>2
  <2>4. last = count + agg
    <3> HIDE DEF last, above
    <3> QED
      BY <1>5, <2>3
  <2>5. sections[count + agg] = "rows"
    BY <1>1, <1>3, <2>2
  <2> QED
    BY <2>1, <2>4, <2>5
<1> QED
  BY <1>1, <1>4, <1>6, <1>7, <1>8

-----------------------------------------------------------------------------
(* The page *)

\* A page that is built is the one of the files.
Built(order) ==
  page = [order |-> order,
          result |-> [s \in Systems |-> Result(s, order)],
          sections |-> Sections(Merged)]

\* The page is made of all files at once, of as many as there are.
IInv == TypeInv /\ (page # Null => Built(Regrouped(Merged)))

\* Every file of the initial states has the entries the code writes.
LEMMA InitHolds ==
  ASSUME Init
  PROVE  IInv
<1> DEFINE F == {f \in BoundedSeq(Entry, MaxQueries) : IsInjective(Ids(f))}
<1>1. file \in [Systems -> F]
  BY DEF Init, Entry
<1>2. F \subseteq Seq(Entry)
  <2>1. BoundedSeq(Entry, MaxQueries) \subseteq Seq(Entry)
    BY PageAssumption DEF BoundedSeq, SeqOf
  <2> QED
    BY <2>1
<1> HIDE DEF F
<1>3. TypeInv
  BY <1>1, <1>2 DEF TypeInv
<1> QED
  BY <1>3 DEF IInv, Init

\* A step leaves the files, and what their ids are merged to.
LEMMA StepHolds ==
  ASSUME IInv, [Next]_vars
  PROVE  IInv'
<1>1. CASE BuildPage
  <2>1. file' = file
    BY <1>1 DEF BuildPage
  <2>2. TypeInv'
    BY <2>1 DEF IInv, TypeInv, Systems
  <2>3. Merged' = Merged
    BY <2>1 DEF Merged, AddFile, Ids
  <2>4. page' = [order |-> Regrouped(Merged),
                 result |-> [s \in Systems |-> Result(s, Regrouped(Merged))],
                 sections |-> Sections(Merged)]
    BY <1>1 DEF BuildPage
  <2>5. Built(Regrouped(Merged))'
    BY <2>1, <2>3, <2>4 DEF Built, Result
  <2> QED
    BY <2>2, <2>5 DEF IInv
<1>2. CASE UNCHANGED vars
  <2>1. file' = file /\ page' = page
    BY <1>2 DEF vars
  <2>2. TypeInv'
    BY <2>1 DEF IInv, TypeInv, Systems
  <2>3. Merged' = Merged
    BY <2>1 DEF Merged, AddFile, Ids
  <2>4. Built(Regrouped(Merged))' <=> Built(Regrouped(Merged))
    BY <2>1, <2>3 DEF Built, Result
  <2> QED
    BY <2>1, <2>2, <2>4 DEF IInv
<1> QED
  BY <1>1, <1>2 DEF Next

\* The page is always the one of the files, merged and regrouped.
THEOREM PageDataInvariant == Spec => []IInv
<1>1. Init => IInv
  BY InitHolds
<1>2. IInv /\ [Next]_vars => IInv'
  BY StepHolds
<1> QED
  BY <1>1, <1>2, PTL DEF Spec

\* Every query of every file has one line of the page and no line has two; the
\* line stands under the heading of its group (build-report.py, the order of the
\* queries), for any number of files, of queries in them and any orders.
THEOREM QueriesAreKept == Spec => []NoQueryIsLost
<1>1. IInv => NoQueryIsLost
  <2> SUFFICES ASSUME IInv, page # Null PROVE NoQueryIsLost
    BY DEF NoQueryIsLost
  <2> DEFINE order == Regrouped(Merged)
  <2>1. page.order = order /\ page.sections = Sections(Merged)
    BY DEF IInv, Built
  <2>2. IsList(Merged, Id) /\ ToSet(Merged) = UNION {ToSet(Ids(file[s])) : s \in Systems}
    BY MergedHasAll DEF IInv
  <2>3. IsList(order, Id) /\ ToSet(order) = ToSet(Merged)
    BY <2>2, RegroupingKeepsAll
  <2>4. \A i \in DOMAIN order : IsHeaded(order, Sections(Merged), i)
    BY <2>2, LinesAreHeaded
  <2> HIDE DEF order
  <2>5. UnderItsHeading
    BY <2>1, <2>4 DEF UnderItsHeading, IsHeaded
  <2> QED
    BY <2>1, <2>2, <2>3, <2>5 DEF NoQueryIsLost, IsList
<1> QED
  BY <1>1, PageDataInvariant, PTL

\* The samples of a system are each shown once, at the line of their query, and a
\* line is of one query for all systems (build-report.py, the results by index).
THEOREM SamplesAreKept == Spec => []SamplesStayWithTheirQuery
<1>1. IInv => SamplesStayWithTheirQuery
  <2> SUFFICES ASSUME IInv, page # Null PROVE SamplesStayWithTheirQuery
    BY DEF SamplesStayWithTheirQuery
  <2> DEFINE order == Regrouped(Merged)
  <2>1. page.order = order /\ page.result = [s \in Systems |-> Result(s, order)]
    BY DEF IInv, Built
  <2>2. IsList(Merged, Id) /\ ToSet(Merged) = UNION {ToSet(Ids(file[s])) : s \in Systems}
    BY MergedHasAll DEF IInv
  <2>3. IsList(order, Id) /\ ToSet(order) = ToSet(Merged)
    BY <2>2, RegroupingKeepsAll
  <2> HIDE DEF order
  <2>4. ASSUME NEW s \in Systems, NEW i \in DOMAIN order
        PROVE  page.result[s][i] =
                 IF \E e \in ToSet(file[s]) : e.id = order[i] /\ e.ok
                 THEN <<s, order[i]>> ELSE Null
    BY <2>1 DEF Result
  <2>5. ASSUME NEW s \in Systems, NEW e \in ToSet(file[s]), e.ok
        PROVE  Cardinality({i \in DOMAIN order : page.result[s][i] = <<s, e.id>>}) = 1
    <3>1. e.id \in ToSet(Ids(file[s]))
      BY DEF ToSet, Ids
    <3>2. e.id \in ToSet(order)
      BY <2>2, <2>3, <3>1
    <3>3. PICK k \in DOMAIN order : order[k] = e.id
      BY <3>2 DEF ToSet
    <3>4. \A i \in DOMAIN order : order[i] = e.id <=> i = k
      BY <2>3, <3>3 DEF IsList, IsInjective
    <3>5. ASSUME NEW i \in DOMAIN order PROVE page.result[s][i] = <<s, e.id>> <=> i = k
      <4>1. CASE i = k
        BY <2>4, <2>5, <3>3, <4>1
      <4>2. CASE i # k
        <5>1. order[i] # e.id
          BY <3>4, <4>2
        <5>2. <<s, order[i]>> # <<s, e.id>>
          BY <5>1
        <5>3. Null # <<s, e.id>>
          BY DEF Null
        <5> QED
          BY <2>4, <4>2, <5>2, <5>3
      <4> QED
        BY <4>1, <4>2
    <3>6. {i \in DOMAIN order : page.result[s][i] = <<s, e.id>>} = {k}
      BY <3>3, <3>5
    <3> QED
      BY <3>6, FS_Singleton
  <2>6. ASSUME NEW s \in Systems, NEW t \in Systems, NEW i \in DOMAIN order,
               page.result[s][i] # Null, page.result[t][i] # Null
        PROVE  page.result[s][i][2] = page.result[t][i][2]
    <3>1. page.result[s][i] = <<s, order[i]>>
      BY <2>4, <2>6
    <3>2. page.result[t][i] = <<t, order[i]>>
      BY <2>4, <2>6
    <3> QED
      BY <3>1, <3>2
  <2> QED
    BY <2>1, <2>5, <2>6 DEF SamplesStayWithTheirQuery
<1> QED
  BY <1>1, PageDataInvariant, PTL

=============================================================================
