------------------------------ MODULE MCPageData ------------------------------
(* Two of the backends, in the order of SYSTEMS. *)
EXTENDS PageData
CONSTANTS scan, histogram
MCSystem == <<"clickhouse", "o2-parquet">>
=============================================================================
