------------------------------- MODULE PageData -------------------------------
(***************************************************************************)
(* build-report.py: the data of the results page from the result files.    *)
(* Files measured with different queries.json are merged: a file has some  *)
(* of the queries, in its own order, each measured or failed.              *)
(***************************************************************************)
EXTENDS Naturals, FiniteSets, SequencesExt

CONSTANTS
    System,      \* the backends with a file, as a sequence: SYSTEMS' order
    Base,        \* ids of queries.json
    Aggregation, \* the ones of category "aggregation"
    MaxQueries   \* bound on the entries of a file

\* The id of a variant, its row-fetching one with the suffix "__rows".
Id == [base: Base, rows: BOOLEAN]
is_agg(q) == q.base \in Aggregation

ASSUME PageAssumption ==
    /\ IsFiniteSet(Base) /\ Aggregation \subseteq Base /\ MaxQueries \in Nat
    /\ System \in Seq(ToSet(System)) /\ System # <<>> /\ IsInjective(System)

VARIABLES
    file, \* file[s]: its entries, [id, ok]
    page  \* [order, result, sections], Null before the page is built

vars == <<file, page>>
Null == <<>>

Systems == ToSet(System)
Ids(entries) == [i \in DOMAIN entries |-> entries[i].id]

\* Ids of all files, each where it is first met.
AddNew(seen, id) == IF Contains(seen, id) THEN seen ELSE Append(seen, id)
AddFile(seen, s) ==
    LET ids == Ids(file[s])
        added[i \in 0..Len(ids)] == IF i = 0 THEN seen ELSE AddNew(added[i - 1], ids[i])
    IN  added[Len(ids)]
Merged ==
    LET merged[k \in 0..Len(System)] ==
            IF k = 0 THEN <<>> ELSE AddFile(merged[k - 1], System[k])
    IN  merged[Len(System)]

Group(q) == IF q.rows THEN "rows" ELSE IF is_agg(q) THEN "aggregation" ELSE "count"
OfGroup(order, group) ==
    LET picked[i \in 0..Len(order)] ==
            IF i = 0 THEN <<>>
            ELSE IF Group(order[i]) = group THEN Append(picked[i - 1], order[i])
            ELSE picked[i - 1]
    IN  picked[Len(order)]
CountIds(order) == OfGroup(order, "count")
AggIds(order) == OfGroup(order, "aggregation")
RowsIds(order) == OfGroup(order, "rows")

\* Mutant: the rows of an aggregation belong to neither group.
RegroupRowsApart(order) ==
    CountIds(order) \o AggIds(order) \o SelectSeq(RowsIds(order), LAMBDA q : ~is_agg(q))

\* Counts first, then aggregations, then the row-fetching variants.
Regrouped(order) == CountIds(order) \o AggIds(order) \o RowsIds(order)

\* query_sections: the position, from 0, at which each group is headed; a later
\* group takes the place of an empty one before it.
Sections(order) ==
    LET count == Len(CountIds(order))
        agg == Len(AggIds(order))
        aggHeads == IF agg # 0 THEN {count} ELSE {}
        rowsHeads == IF RowsIds(order) # <<>> THEN {count + agg} ELSE {}
    IN  [k \in {0} \union aggHeads \union rowsHeads |->
            IF k \in rowsHeads THEN "rows" ELSE IF k \in aggHeads THEN "aggregation" ELSE "count"]

\* Mutant: the samples in the order of the file.
InFileOrder(s, order) ==
    [i \in DOMAIN order |->
        IF i \in DOMAIN file[s] /\ file[s][i].ok THEN <<s, file[s][i].id>> ELSE Null]

\* The samples of a system, one place per query: its own, Null if it failed or
\* was not run there.  They are known by the system and the query they are of.
Result(s, order) ==
    [i \in DOMAIN order |->
        IF \E e \in ToSet(file[s]) : e.id = order[i] /\ e.ok THEN <<s, order[i]>> ELSE Null]

Init ==
    /\ file \in [Systems -> {f \in BoundedSeq([id: Id, ok: BOOLEAN], MaxQueries) :
                                IsInjective(Ids(f))}]
    /\ page = Null

BuildPage ==
    /\ page = Null
    /\ LET order == Regrouped(Merged)
       IN  page' = [order |-> order,
                    result |-> [s \in Systems |-> Result(s, order)],
                    sections |-> Sections(Merged)]
    /\ UNCHANGED file

Next == BuildPage
Spec == Init /\ [][Next]_vars

-----------------------------------------------------------------------------
(* Properties                                                              *)

\* A line belongs to the group whose heading is the last at or above it.
UnderItsHeading ==
    \A i \in DOMAIN page.order :
        LET above == {k \in DOMAIN page.sections : k < i}
            last == CHOOSE k \in above : \A j \in above : j <= k
        IN  page.sections[last] = Group(page.order[i])

\* Every query of every file has one line of the page, under the heading of
\* its group, and no line has two.
NoQueryIsLost ==
    page # Null =>
        /\ ToSet(page.order) = UNION {ToSet(Ids(file[s])) : s \in Systems}
        /\ IsInjective(page.order)
        /\ UnderItsHeading

\* Every measurement of every file is shown once, and the numbers of one line are
\* of one query, whatever the files lack and however they order their queries.
SamplesStayWithTheirQuery ==
    page # Null =>
        /\ \A s \in Systems : \A e \in ToSet(file[s]) :
              e.ok => Cardinality({i \in DOMAIN page.order : page.result[s][i] = <<s, e.id>>}) = 1
        /\ \A s, t \in Systems : \A i \in DOMAIN page.order :
              LET here == page.result[s][i]
                  there == page.result[t][i]
              IN  here # Null /\ there # Null => here[2] = there[2]

=============================================================================
