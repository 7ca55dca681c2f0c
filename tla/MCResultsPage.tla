--------------------------- MODULE MCResultsPage ---------------------------
(***************************************************************************)
(* Two systems and three entries, all on a CPU: one of ClickHouse, two of   *)
(* OpenObserve, of which the second has two tags.  The metric "size" cannot *)
(* compare the first; the query q1 fails on the other two, so that "hot"    *)
(* has no ratio once the first is off the table and q1 alone is checked.    *)
(***************************************************************************)
EXTENDS ResultsPage

CONSTANTS system, type, hardware, clickhouse, o2, columnar, rust, cpu, e1, e2, e3,
          q0, q1

MCDimOf == [o \in Option |-> CASE o \in {clickhouse, o2} -> system
                               [] o \in {columnar, rust} -> type
                               [] OTHER -> hardware]

MCTraits == [e \in Data |-> CASE e = e1 -> {clickhouse, columnar, cpu}
                              [] e = e2 -> {o2, rust, cpu}
                              [] e = e3 -> {o2, rust, columnar, cpu}]

MCLeftOut == [m \in Metric |-> IF m = "size" THEN {e1} ELSE {}]

MCTimed == [e \in Data |-> [m \in Relative |-> IF e = e1 THEN {q0, q1} ELSE {q0}]]

MCDefault == [on |-> [o \in Option |-> TRUE],
              metric |-> "hot",
              queries |-> [q \in Query |-> TRUE]]

MCShared == {[on |-> [o \in Option |-> o # o2],
              metric |-> "size",
              queries |-> [q \in Query |-> FALSE]]}
=============================================================================
