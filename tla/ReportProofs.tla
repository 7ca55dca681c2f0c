---------------------------- MODULE ReportProofs ----------------------------
(***************************************************************************)
(* Proofs about the combined report, for every set of backends, all row    *)
(* counts and medians, and passes in any order and number.                 *)
(***************************************************************************)
EXTENDS Report, FiniteSetTheorems, TLAPS

-----------------------------------------------------------------------------
(* What a pass leaves behind *)

TypeInv ==
    /\ held \in [Backends -> Nat \ {0}]
    /\ dir \in [O2 -> {"none", "list", "files"}]
    /\ storage \in [Backends -> Nat \union {Null, NoStorage, NoRows}]
    /\ medians \in [Backends -> Nat \union {Error}]

\* A file holds an answer its own backend can give.
FileInv == \A b \in Backends : storage[b] # Null => storage[b] \in StorageOf(b)

\* The report is the one of the files there are.
ReportInv == check = RowCheck(storage) /\ fastest \in Winners(storage, medians)

IInv == TypeInv /\ FileInv /\ ReportInv

\* All of this is about finitely many backends.
LEMMA SubsetsAreFinite ==
    ASSUME NEW S, S \subseteq Backends
    PROVE  IsFiniteSet(S)
<1>1. IsFiniteSet(Backends)
    BY BackendsAssumption, FS_Singleton, FS_Union DEF Backends
<1> QED
    BY <1>1, FS_Subset

\* The values a finite set of backends reports are as many as one exactly if
\* the set has a member and all report the same.
LEMMA OneValue ==
    ASSUME NEW S, S \subseteq Backends, S # {}, NEW st
    PROVE  Cardinality({st[b] : b \in S}) = 1 <=> \A b, c \in S : st[b] = st[c]
<1> DEFINE V == {st[b] : b \in S}
<1>1. PICK b \in S : IsFiniteSet(S)
    BY SubsetsAreFinite
<1>2. ASSUME \A c \in S : st[b] = st[c] PROVE Cardinality(V) = 1
    <2>1. V = {st[b]}
        BY <1>2
    <2> QED
        BY <2>1, FS_Singleton
<1>3. ASSUME Cardinality(V) = 1 PROVE \A c, d \in S : st[c] = st[d]
    <2>1. IsFiniteSet(V)
        <3> DEFINE f == [d \in S |-> st[d]]
        <3>1. f \in Surjection(S, V)
            BY DEF Surjection
        <3> QED
            BY <1>1, <3>1, FS_Surjection
    <2>2. PICK v : V = {v}
        BY <1>3, <2>1, FS_Singleton
    <2>3. \A c \in S : st[c] = v
        BY <2>2
    <2> QED
        BY <2>3
<1> QED
    BY <1>1, <1>2, <1>3

\* Two backends in a set make it larger than one.
LEMMA MoreThanOne ==
    ASSUME NEW S, S \subseteq Backends
    PROVE  /\ Cardinality(S) \in Nat
           /\ Cardinality(S) > 1 <=> \E b, c \in S : b # c
<1>1. IsFiniteSet(S) /\ Cardinality(S) \in Nat
    BY SubsetsAreFinite, FS_CardinalityType
<1>2. ASSUME NEW b \in S, NEW c \in S, b # c PROVE Cardinality(S) > 1
    <2>1. Cardinality(S \ {b}) = Cardinality(S) - 1 /\ IsFiniteSet(S \ {b})
        BY <1>1, FS_RemoveElement
    <2>2. Cardinality(S \ {b}) # 0
        BY <1>2, <2>1, FS_EmptySet
    <2>3. Cardinality(S \ {b}) \in Nat
        BY <2>1, FS_CardinalityType
    <2> QED
        BY <1>1, <2>1, <2>2, <2>3
<1>3. ASSUME Cardinality(S) > 1 PROVE \E b, c \in S : b # c
    <2>1. S # {}
        BY <1>1, <1>3, FS_EmptySet
    <2>2. PICK b \in S : TRUE
        BY <2>1
    <2>3. S # {b}
        BY <1>3, FS_Singleton
    <2> QED
        BY <2>2, <2>3
<1> QED
    BY <1>1, <1>2, <1>3

\* The files keep to what backends answer, and the report to the files, through
\* every pass.
THEOREM ReportInvariant == Spec => []IInv
<1>1. Init => IInv
    <2> SUFFICES ASSUME Init PROVE IInv
        OBVIOUS
    <2>1. TypeInv
        BY RowsAssumption DEF Init, TypeInv
    <2>2. FileInv
        BY DEF Init, FileInv
    <2>3. Present(storage) = {} /\ Reported(storage) = {}
        BY DEF Init, Present, Reported
    <2>4. Cardinality({}) = 0
        BY FS_EmptySet
    <2>5. check = RowCheck(storage)
        BY <2>3, <2>4 DEF Init, RowCheck
    <2>6. fastest \in Winners(storage, medians)
        <3> DEFINE valid == {b \in Present(storage) : medians[b] # Error /\ medians[b] > 0}
        <3>1. valid = {} /\ Cardinality(valid) = 0
            BY <2>3, <2>4
        <3> QED
            BY <3>1 DEF Init, Winners
    <2> QED
        BY <2>1, <2>2, <2>5, <2>6 DEF IInv, ReportInv
<1>2. IInv /\ [Next]_vars => IInv'
    <2> SUFFICES ASSUME IInv, [Next]_vars PROVE IInv'
        OBVIOUS
    <2> USE DEF IInv
    <2>1. ASSUME NEW b \in Backends, Pass(b) PROVE IInv'
        <3>1. PICK s \in StorageOf(b) : storage' = [storage EXCEPT ![b] = s]
            BY <2>1 DEF Pass
        <3>2. PICK m \in (0 .. MaxMedian) \union {Error} : medians' = [medians EXCEPT ![b] = m]
            BY <2>1 DEF Pass
        <3>3. held' = held /\ dir' = dir
            BY <2>1 DEF Pass
        <3>4. StorageOf(b) \subseteq Nat \union {NoStorage, NoRows}
            BY DEF StorageOf, StorageOfO2, LocalRows, TypeInv
        <3>5. TypeInv'
            BY <3>1, <3>2, <3>3, <3>4, RowsAssumption DEF TypeInv
        <3>6. FileInv'
            <4>1. \A c \in Backends : StorageOf(c)' = StorageOf(c)
                BY <3>3 DEF StorageOf, StorageOfO2, LocalRows
            <4> QED
                BY <3>1, <4>1 DEF FileInv, TypeInv
        <3>7. ReportInv'
            BY <2>1 DEF Pass, ReportInv
        <3> QED
            BY <3>5, <3>6, <3>7
    <2>2. CASE UNCHANGED vars
        <3> USE <2>2 DEF vars
        <3>1. TypeInv'
            BY DEF TypeInv
        <3>2. FileInv'
            BY DEF FileInv, StorageOf, StorageOfO2, LocalRows
        <3>3. ReportInv'
            BY DEF ReportInv
        <3> QED
            BY <3>1, <3>2, <3>3
    <2> QED
        BY <2>1, <2>2 DEF Next
<1> QED
    BY <1>1, <1>2, PTL DEF Spec

-----------------------------------------------------------------------------
(* What the report says *)

\* A count in a file is what its backend holds, or the zero of an OpenObserve
\* that was just restarted and has no usable file list beside the runner.
LEMMA CountsInFiles ==
    ASSUME IInv, NEW b \in Reported(storage)
    PROVE  /\ b \in Backends /\ storage[b] \in Nat
           /\ \/ storage[b] = held[b] /\ held[b] # 0
              \/ storage[b] = 0 /\ b \in O2 /\ dir[b] # "list"
<1>1. b \in Backends /\ storage[b] \notin {Null, NoStorage, NoRows}
    BY DEF Reported
<1>2. storage[b] \in Nat /\ storage[b] \in StorageOf(b)
    BY <1>1 DEF IInv, TypeInv, FileInv
<1>3. held[b] \in Nat \ {0}
    BY <1>1 DEF IInv, TypeInv
<1>4. held[b] # NoRows
    BY <1>3, MarksAssumption
<1>5. CASE b = ClickHouse
    BY <1>1, <1>2, <1>3, <1>5 DEF StorageOf
<1>6. CASE b # ClickHouse
    <2>1. b \in O2
        BY <1>1, <1>6 DEF Backends
    <2>2. CASE dir[b] = "none"
        BY <1>1, <1>2, <1>3, <1>6, <2>1, <2>2 DEF StorageOf, StorageOfO2
    <2>3. CASE dir[b] = "list"
        BY <1>1, <1>2, <1>3, <1>4, <1>6, <2>1, <2>3 DEF StorageOf, StorageOfO2, LocalRows
    <2>4. CASE dir[b] \notin {"none", "list"}
        BY <1>1, <1>2, <1>3, <1>6, <2>1, <2>4 DEF StorageOf, StorageOfO2, LocalRows
    <2> QED
        BY <2>2, <2>3, <2>4
<1> QED
    BY <1>5, <1>6, <1>2, <1>1

\* The report says "matched" only of backends that hold the same rows, or that
\* all stand at zero after a restart: a missing count never passes for an equal
\* one, for any number of backends (run-benchmark.py, the row-count check).
THEOREM MatchedRowsHeld == Spec => []MatchedRowsAreHeld
<1>1. IInv => MatchedRowsAreHeld
    <2> SUFFICES ASSUME IInv, check = "matched"
                 PROVE  \/ \A b, c \in Present(storage) : held[b] = held[c]
                        \/ \A b \in Present(storage) : storage[b] = 0
        BY DEF MatchedRowsAreHeld
    <2> DEFINE P == Present(storage)
               R == Reported(storage)
    <2>1. R \subseteq P /\ P \subseteq Backends
        BY DEF Present, Reported
    <2>2. /\ ~(Cardinality(P) > 1 /\ R # P)
          /\ ~(Cardinality(R) < 2)
          /\ Cardinality({storage[b] : b \in R}) = 1
        BY DEF IInv, ReportInv, RowCheck
    <2>3. R # {} /\ R = P
        <3>1. Cardinality(R) \in Nat /\ Cardinality(R) > 1
            BY <2>1, <2>2, MoreThanOne
        <3>2. PICK b \in R, c \in R : b # c
            BY <2>1, <3>1, MoreThanOne
        <3>3. Cardinality(P) > 1
            BY <2>1, <3>2, MoreThanOne
        <3> QED
            BY <2>2, <3>2, <3>3
    <2>4. \A b, c \in R : storage[b] = storage[c]
        <3> HIDE DEF R
        <3> QED
            BY <2>1, <2>2, <2>3, OneValue
    <2>5. \A b \in R : storage[b] = held[b] \/ storage[b] = 0
        BY CountsInFiles
    <2> QED
        BY <2>3, <2>4, <2>5
<1> QED
    BY <1>1, ReportInvariant, PTL

\* Of equal datasets the report says "mismatch" only when a restarted OpenObserve
\* answered zero rows and its file list was of no use (run-benchmark.py:233-236).
THEOREM MismatchIsCaused == Spec => []MismatchHasACause
<1>1. IInv => MismatchHasACause
    <2> SUFFICES ASSUME IInv, check = "mismatch"
                 PROVE  \/ \E b, c \in Present(storage) : held[b] # held[c]
                        \/ \E b \in O2 : storage[b] = 0 /\ dir[b] # "list"
        BY DEF MismatchHasACause
    <2> DEFINE R == Reported(storage)
    <2>1. R \subseteq Present(storage) /\ R \subseteq Backends
        BY DEF Present, Reported
    <2>2. ~(Cardinality(R) < 2) /\ Cardinality({storage[b] : b \in R}) # 1
        BY DEF IInv, ReportInv, RowCheck
    <2>3. R # {}
        BY <2>2, FS_EmptySet
    <2>4. PICK b \in R, c \in R : storage[b] # storage[c]
        <3> HIDE DEF R
        <3>1. ~ \A b, c \in R : storage[b] = storage[c]
            BY <2>1, <2>2, <2>3, OneValue
        <3> QED
            BY <3>1
    <2>5. \A d \in R : \/ storage[d] = held[d]
                       \/ storage[d] = 0 /\ d \in O2 /\ dir[d] # "list"
        BY CountsInFiles
    <2> QED
        BY <2>1, <2>4, <2>5
<1> QED
    BY <1>1, ReportInvariant, PTL

\* The backend the report names the fastest has the least positive median of
\* those with a file, and nobody is named only if fewer than two have one.
THEOREM FastestIsTheFastest == Spec => []FastestIsFastest
<1>1. IInv => FastestIsFastest
    <2> SUFFICES ASSUME IInv PROVE FastestIsFastest
        OBVIOUS
    <2> DEFINE valid == {b \in Present(storage) : medians[b] # Error /\ medians[b] > 0}
    <2>1. valid \subseteq Present(storage) /\ Present(storage) \subseteq Backends
        BY DEF Present
    <2>2. \A b \in Present(storage) \ valid : medians[b] \in {0, Error}
        BY <2>1 DEF IInv, TypeInv
    <2>3. CASE Cardinality(valid) > 1
        <3>1. fastest \in valid /\ \A c \in valid : medians[fastest] <= medians[c]
            BY <2>3 DEF IInv, ReportInv, Winners
        <3>2. fastest # Null
            BY <2>1, <3>1, BackendsAssumption
        <3> QED
            BY <2>1, <2>2, <3>1, <3>2 DEF FastestIsFastest
    <2>4. CASE ~(Cardinality(valid) > 1)
        <3>1. fastest = Null
            BY <2>4 DEF IInv, ReportInv, Winners
        <3>2. \A b, c \in valid : b = c
            <4> HIDE DEF valid
            <4> QED
                BY <2>1, <2>4, MoreThanOne
        <3> QED
            BY <2>2, <3>1, <3>2 DEF FastestIsFastest
    <2> QED
        BY <2>3, <2>4
<1> QED
    BY <1>1, ReportInvariant, PTL
=============================================================================
