-------------------------- MODULE IngestRefinement --------------------------
(***************************************************************************)
(* Ingest implements IngestContract, in the runs where stderr holds.       *)
(***************************************************************************)
EXTENDS Ingest

HeldEverywhere == {r \in Records : \A t \in Enabled : r \in stored[t]}

Outcome ==
  CASE exit = Unset -> "running"
    [] exit = 0     -> "complete"
    [] OTHER        -> "incomplete"

Contract == INSTANCE IngestContract WITH
  held <- HeldEverywhere,
  delivered <- RecordsOfAll(AcceptedBatches),
  rejected <- RecordsOfAll(FailedBatches),
  outcome <- Outcome

\* The driver of main.rs, seen through its counters, its backends' contents and
\* its exit status, does only what the contract allows.
ImplementsContract == Contract!Spec
=============================================================================
