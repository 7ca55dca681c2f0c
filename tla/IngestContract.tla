--------------------------- MODULE IngestContract ---------------------------
(***************************************************************************)
(* What an ingest run promises to the benchmark that follows it, with no   *)
(* tasks, requests or counters: whole batches are delivered or rejected    *)
(* once, a delivered record is one that every backend holds, nothing       *)
(* follows a first batch that is rejected, and the run calls itself        *)
(* complete exactly when it has delivered every record.                    *)
(***************************************************************************)
EXTENDS Integers

CONSTANT Records    \* what the run has to deliver

VARIABLES
  held,       \* records that every enabled backend holds
  delivered,  \* records of the batches counted as sent
  rejected,   \* records of the batches counted as failed
  outcome     \* what the exit status says

vars == <<held, delivered, rejected, outcome>>

Init ==
  /\ held = {} /\ delivered = {} /\ rejected = {}
  /\ outcome = "running"

\* The last backend that lacked these rows has stored them: at any time, even
\* after the run has given up on them or has ended.
Arrive(rows) ==
  /\ held' = held \cup rows
  /\ UNCHANGED <<delivered, rejected, outcome>>

Unsettled(batch) ==
  /\ batch # {}
  /\ batch \cap (delivered \cup rejected) = {}

\* The first batch was rejected.
FailedToPrime == delivered = {} /\ rejected # {}

Deliver(batch) ==
  /\ outcome = "running" /\ ~FailedToPrime
  /\ Unsettled(batch) /\ batch \subseteq held
  /\ delivered' = delivered \cup batch
  /\ UNCHANGED <<held, rejected, outcome>>

Reject(batch) ==
  /\ outcome = "running" /\ ~FailedToPrime
  /\ Unsettled(batch)
  /\ rejected' = rejected \cup batch
  /\ UNCHANGED <<held, delivered, outcome>>

End ==
  /\ outcome = "running"
  /\ FailedToPrime \/ delivered \cup rejected = Records
  /\ outcome' = IF delivered = Records THEN "complete" ELSE "incomplete"
  /\ UNCHANGED <<held, delivered, rejected>>

Next ==
  \/ \E rows \in SUBSET Records : Arrive(rows) \/ Deliver(rows) \/ Reject(rows)
  \/ End

Spec == Init /\ [][Next]_vars
=============================================================================
