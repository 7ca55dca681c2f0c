-------------------------------- MODULE Report --------------------------------
(***************************************************************************)
(* What the combined report says of the backends it compares: whether they *)
(* hold the same rows, and which one answers a query fastest.  A pass over *)
(* a backend asks it for its storage, keeps the answer in its result file  *)
(* and rebuilds the report from all files.  Ingestion is frozen.           *)
(***************************************************************************)
EXTENDS Naturals, FiniteSets

CONSTANTS
    ClickHouse,   \* the backend whose row count comes from system.parts
    O2,           \* the OpenObserve backends
    RowCounts,    \* numbers of rows a backend may hold
    MaxMedian,    \* bound on a median, in ms
    Null,         \* no file, no backend
    NoStorage,    \* storage: null
    NoRows,       \* storage without a row count
    Error         \* an entry with an error

Backends == {ClickHouse} \union O2

ASSUME RowsAssumption == RowCounts \subseteq Nat \ {0} /\ MaxMedian \in Nat

ASSUME BackendsAssumption ==
    /\ IsFiniteSet(O2) /\ ClickHouse \notin O2 /\ Null \notin Backends

\* What stands for no number is none.
ASSUME MarksAssumption ==
    /\ Null \notin Nat /\ NoStorage \notin Nat /\ NoRows \notin Nat /\ Error \notin Nat
    /\ Null \notin {NoStorage, NoRows} /\ NoStorage # NoRows

VARIABLES
    held,     \* held[b]: the rows backend b holds
    dir,      \* dir[b]: what the runner finds at the path of b's data directory:
              \* "none", its file "list", or its "files" without a usable list
    storage,  \* storage[b]: Null, NoStorage, NoRows or the rows in b's file
    medians,  \* medians[b]: the median of the query, or Error
    check,    \* the row-count check of the report
    fastest   \* the backend named the fastest, or Null

vars == <<held, dir, storage, medians, check, fastest>>

Init ==
    /\ held \in [Backends -> RowCounts]
    /\ dir \in [O2 -> {"none", "list", "files"}]
    /\ storage = [b \in Backends |-> Null]
    /\ medians = [b \in Backends |-> Error]
    /\ check = "none"
    /\ fastest = Null

\* _collect_storage_local: the file list if it can be read and is not empty,
\* else the sizes of the files, without rows.
LocalRows(b) == IF dir[b] = "list" THEN {held[b]} ELSE {NoRows}

\* Mutant: what the API says is taken.
TrustApi(b) == {held[b], 0} \union IF dir[b] = "none" THEN {NoStorage} ELSE LocalRows(b)

\* collect_storage of an OpenObserve backend whose API answers, fails, or, just
\* after a restart, answers zero rows.
StorageOfO2(b) ==
    {held[b]} \union
    IF dir[b] = "none" THEN {NoStorage, 0}
    ELSE LocalRows(b) \union {IF r = NoRows THEN 0 ELSE r : r \in LocalRows(b)}

StorageOf(b) == IF b = ClickHouse THEN {held[b], NoStorage} ELSE StorageOfO2(b)

Present(st) == {b \in Backends : st[b] # Null}
Reported(st) == {b \in Backends : st[b] \notin {Null, NoStorage, NoRows}}

\* Mutant: backends without a count are passed over.
CheckOfReported(st) ==
    IF Cardinality(Reported(st)) < 2 THEN "none"
    ELSE IF Cardinality({st[b] : b \in Reported(st)}) = 1 THEN "matched" ELSE "mismatch"

\* The dataset row-count check.
RowCheck(st) ==
    IF Cardinality(Present(st)) > 1 /\ Reported(st) # Present(st) THEN "incomplete"
    ELSE IF Cardinality(Reported(st)) < 2 THEN "none"
    ELSE IF Cardinality({st[b] : b \in Reported(st)}) = 1 THEN "matched" ELSE "mismatch"

\* Mutant: an entry with an error counts as 0 ms, and is compared.
WinnerOfAll(st, md) ==
    LET ms(b) == IF md[b] = Error THEN 0 ELSE md[b]
        best == {b \in Present(st) : \A c \in Present(st) : ms(b) <= ms(c)}
    IN  IF Cardinality(Present(st)) > 1 THEN best ELSE {Null}

\* Who may be called the fastest: the least of the positive medians, if there
\* are two of them.  (Of a tie the code takes the first in BACKEND_ORDER.)
Winners(st, md) ==
    LET valid == {b \in Present(st) : md[b] # Error /\ md[b] > 0}
    IN  IF Cardinality(valid) > 1
        THEN {b \in valid : \A c \in valid : md[b] <= md[c]}
        ELSE {Null}

\* One pass: its storage, its file, the report over every file.
Pass(b) ==
    /\ \E s \in StorageOf(b) : storage' = [storage EXCEPT ![b] = s]
    /\ \E m \in (0..MaxMedian) \union {Error} : medians' = [medians EXCEPT ![b] = m]
    /\ check' = RowCheck(storage')
    /\ fastest' \in Winners(storage', medians')
    /\ UNCHANGED <<held, dir>>

Next == \E b \in Backends : Pass(b)
Spec == Init /\ [][Next]_vars

-----------------------------------------------------------------------------
(* Properties                                                              *)

\* The report calls the datasets matched only if every backend it compares holds
\* the same rows: a backend whose count is missing, or stands at zero after a
\* restart, must not pass for an equal one.  (Two backends both just restarted
\* "match" at zero rows.)
MatchedRowsAreHeld ==
    check = "matched" =>
        \/ \A b, c \in Present(storage) : held[b] = held[c]
        \/ \A b \in Present(storage) : storage[b] = 0

\* Equal datasets are called a mismatch only after a restarted OpenObserve
\* answered zero rows and there was no usable file list beside the runner
\* (run-benchmark.py:233-236).
MismatchHasACause ==
    check = "mismatch" =>
        \/ \E b, c \in Present(storage) : held[b] # held[c]
        \/ \E b \in O2 : storage[b] = 0 /\ dir[b] # "list"

\* A backend named the fastest has answered, and no other has a smaller median,
\* but for one of 0 ms; somebody is named once two have positive medians.
FastestIsFastest ==
    /\ fastest # Null =>
          /\ fastest \in Present(storage) /\ medians[fastest] # Error
          /\ \A b \in Present(storage) :
                medians[b] # Error => medians[b] = 0 \/ medians[fastest] <= medians[b]
    /\ fastest = Null =>
          \A b, c \in Present(storage) :
             b # c => medians[b] \in {0, Error} \/ medians[c] \in {0, Error}
=============================================================================
