------------------------------- MODULE Ingest -------------------------------
(***************************************************************************)
(* The ingest driver (datagen/src/main.rs): one process splits Total       *)
(* records into batches, ships batch 0 alone to fix the stream's creation  *)
(* time, then fans the other batches out to tasks bounded by a semaphore.  *)
(* A task sends one body to every enabled backend at once, waits for all   *)
(* of the answers, and adds the batch to shared counters that a progress   *)
(* reporter reads while they move.                                         *)
(*                                                                         *)
(* A record is its global index.  The backends and the network belong to   *)
(* the environment: a request may land before or after the client gives up *)
(* on it, a reply may be lost after the rows were stored, and OpenObserve  *)
(* may refuse some rows inside an HTTP 200.                                *)
(***************************************************************************)
EXTENDS Integers, FiniteSets

CONSTANTS
  Enabled,       \* the backends --target selects
  Total,         \* --total
  BatchSize,     \* --batch-size
  Concurrency,   \* --concurrency
  Anchor,        \* --start-timestamp-us, the event time of the run's start
  U64Max,        \* where event times saturate; also the empty minimum
  MaxClock,      \* bound on the wall clock, in steps
  StderrBreaks   \* whether writes to stderr may start to fail

OpenObserve == {"o2_parquet", "o2_vortex"}
Targets == OpenObserve \cup {"clickhouse"}

ASSUME EnabledAssumption == Enabled \subseteq Targets /\ Enabled # {}
ASSUME SizeAssumption ==
  /\ Total \in Nat \ {0}
  /\ BatchSize \in Nat \ {0}
  /\ Concurrency \in Nat \ {0}
ASSUME TimeAssumption ==
  /\ U64Max \in Nat
  /\ Anchor \in 0 .. U64Max
  /\ MaxClock \in Nat
ASSUME StderrAssumption == StderrBreaks \in BOOLEAN

VARIABLES
  main,          \* where main() is
  batch_idx,     \* the next batch the fan-out loop takes
  remaining,     \* records not yet given to a batch
  permits,       \* free permits of the semaphore
  exit,          \* the process's exit status, Unset while it runs
  stats,         \* what --stats-out holds
  pc,            \* where the ship() of each batch is
  size,          \* this_batch of each batch
  stamp,         \* batch_timestamp_us of each batch
  net,           \* each request as its backend sees it
  result,        \* each request as the driver sees it
  stored,        \* the records each backend holds
  created_at,    \* the creation time of each OpenObserve stream
  sent, failed, target_failed, timestamp_min, timestamp_max,  \* Sink's atomics
  clock,         \* wall clock elapsed since the start
  rpc, seen_sent, seen_failed, shown, progress_done           \* the reporter

exitVars == <<exit, stats>>
mainVars == <<main, batch_idx, remaining, exitVars, progress_done>>
taskVars == <<pc, size, stamp>>
backendVars == <<net, result, stored, created_at, clock>>
runCounters == <<sent, failed, timestamp_min, timestamp_max>>
counterVars == <<runCounters, target_failed>>
reporterVars == <<rpc, seen_sent, seen_failed, shown>>
vars == <<mainVars, permits, taskVars, backendVars, counterVars, reporterVars>>

Unset == -1
SmallerOf(a, b) == IF a <= b THEN a ELSE b
LargerOf(a, b) == IF a <= b THEN b ELSE a

-----------------------------------------------------------------------------
(* Batches, records and event times *)

\* Mutant: the division rounds down.
FlooredBatches == Total \div BatchSize
total_batches == (Total + BatchSize - 1) \div BatchSize
Batches == 0 .. total_batches - 1
Records == 0 .. Total - 1

start_record_idx(i) == i * BatchSize
RecordsOf(i) == start_record_idx(i) .. start_record_idx(i) + size[i] - 1

\* Mutant: the addition wraps.
wrapping_add(a, b) == (a + b) % (U64Max + 1)
saturating_add(a, b) == SmallerOf(a + b, U64Max)
timestamp_from_elapsed(elapsed) == saturating_add(Anchor, elapsed)
EventTime(i, r) == saturating_add(stamp[i], r - start_record_idx(i))
LastEventTime(i) == saturating_add(stamp[i], size[i] - 1)

Init ==
  /\ main = "start" /\ batch_idx = 0 /\ remaining = Total /\ permits = Concurrency
  /\ exit = Unset /\ stats = [written |-> FALSE]
  /\ pc = [i \in Batches |-> "unspawned"]
  /\ size = [i \in Batches |-> 0]
  /\ stamp = [i \in Batches |-> 0]
  /\ net = [i \in Batches |-> [t \in Enabled |-> "idle"]]
  /\ result = [i \in Batches |-> [t \in Enabled |-> "pending"]]
  /\ stored = [t \in Enabled |-> {}]
  /\ created_at = [t \in Enabled |-> Unset]
  /\ sent = 0 /\ failed = 0 /\ target_failed = [t \in Targets |-> 0]
  /\ timestamp_min = U64Max /\ timestamp_max = 0
  /\ clock = 0
  /\ rpc = "ticking" /\ seen_sent = 0 /\ seen_failed = 0 /\ shown = 0
  /\ progress_done = FALSE

Running == exit = Unset

-----------------------------------------------------------------------------
(* main(): prime, fan out, join, report *)

\* Mutant: the last batch is not cut to what remains.
UncutBatch == BatchSize
this_batch == SmallerOf(remaining, BatchSize)

\* Hands the next batch its records and starts its ship().
StartBatch(i) ==
  /\ batch_idx' = i + 1
  /\ remaining' = remaining - this_batch
  /\ size' = [size EXCEPT ![i] = this_batch]
  /\ pc' = [pc EXCEPT ![i] = "spawned"]

StartPriming ==
  /\ main = "start"
  /\ main' = "priming"
  /\ StartBatch(0)
  /\ UNCHANGED <<exitVars, permits, stamp, backendVars, counterVars,
                 reporterVars, progress_done>>

\* Mutant: one answer is taken for all of them.
AcceptedBySome(i) == \E t \in Enabled : result[i][t] = "ok"
\* ship() returns true only when every enabled target accepted the batch.
Accepted(i) == \A t \in Enabled : result[i][t] = "ok"

\* The process stops with a status: nothing else of it runs any more.
Exit(status) == main' = "exited" /\ exit' = status

\* Mutants: the priming batch is not waited for; its outcome is ignored.
FanOutUnprimed ==
  /\ main = "priming"
  /\ main' = "spawning"
  /\ UNCHANGED <<batch_idx, remaining, exitVars, permits, taskVars, backendVars,
                 counterVars, reporterVars, progress_done>>
PrimeRegardless ==
  /\ main = "priming" /\ pc[0] = "done"
  /\ main' = "spawning"
  /\ UNCHANGED <<batch_idx, remaining, exitVars, permits, taskVars, backendVars,
                 counterVars, reporterVars, progress_done>>
\* Batch 0 has been answered: go on, or bail out before another batch is sent.
FinishPriming ==
  /\ main = "priming" /\ pc[0] = "done"
  /\ IF Accepted(0) THEN main' = "spawning" /\ UNCHANGED exit ELSE Exit(1)
  /\ UNCHANGED <<batch_idx, remaining, stats, permits, taskVars, backendVars,
                 counterVars, reporterVars, progress_done>>

\* Batch 0 is shipped by main's own task, so a panic there ends the process.
PrimingPanics ==
  /\ main = "priming" /\ pc[0] = "panicked"
  /\ Exit(101)
  /\ UNCHANGED <<batch_idx, remaining, stats, permits, taskVars, backendVars,
                 counterVars, reporterVars, progress_done>>

\* One turn of the fan-out loop: wait for a permit, spawn the batch with it.
SpawnNext ==
  /\ main = "spawning" /\ batch_idx < total_batches
  /\ permits > 0
  /\ permits' = permits - 1
  /\ StartBatch(batch_idx)
  /\ UNCHANGED <<main, exitVars, stamp, backendVars, counterVars,
                 reporterVars, progress_done>>

StopSpawning ==
  /\ main = "spawning" /\ batch_idx = total_batches
  /\ main' = "joining"
  /\ UNCHANGED <<batch_idx, remaining, exitVars, permits, taskVars,
                 backendVars, counterVars, reporterVars, progress_done>>

\* Mutant: only the last handle is kept and awaited.
JoinLast ==
  /\ main = "joining"
  /\ pc[total_batches - 1] \in {"done", "panicked"}
  /\ main' = "joined"
  /\ UNCHANGED <<batch_idx, remaining, exitVars, permits, taskVars,
                 backendVars, counterVars, reporterVars, progress_done>>
\* Every handle has been awaited; a handle whose task panicked is ignored.
JoinAll ==
  /\ main = "joining"
  /\ \A i \in Batches : pc[i] \in {"done", "panicked"}
  /\ main' = "joined"
  /\ UNCHANGED <<batch_idx, remaining, exitVars, permits, taskVars,
                 backendVars, counterVars, reporterVars, progress_done>>

StopReporter ==
  /\ main = "joined"
  /\ main' = "awaiting_reporter"
  /\ progress_done' = TRUE
  /\ UNCHANGED <<batch_idx, remaining, exitVars, permits, taskVars,
                 backendVars, counterVars, reporterVars>>

\* What --stats-out gets; an extreme no batch has moved is written as null.
ReportedStats ==
  [written |-> TRUE, records_sent |-> sent, records_failed |-> failed,
   target_failed |-> target_failed,
   timestamp_min_us |-> IF timestamp_min = U64Max THEN Unset ELSE timestamp_min,
   timestamp_max_us |-> IF timestamp_max = 0 THEN Unset ELSE timestamp_max]

\* Mutant: the status does not tell of the failures.
ReportClean ==
  /\ main = "awaiting_reporter" /\ rpc = "stopped"
  /\ stats' \in {stats, ReportedStats}
  /\ Exit(0)
  /\ UNCHANGED <<batch_idx, remaining, permits, taskVars, backendVars,
                 counterVars, reporterVars, progress_done>>
\* The counters are read, the stats written (or not: it only warns), and the
\* status says whether any record failed.  The warning, like those of ship(),
\* panics when stderr is broken, and the status is then that of a panic.
Report ==
  /\ main = "awaiting_reporter" /\ rpc = "stopped"
  /\ \/ /\ stats' \in {stats, ReportedStats}
        /\ Exit(IF failed > 0 THEN 1 ELSE 0)
     \/ StderrBreaks /\ stats' = stats /\ Exit(101)
  /\ UNCHANGED <<batch_idx, remaining, permits, taskVars, backendVars,
                 counterVars, reporterVars, progress_done>>

Main ==
  \/ StartPriming \/ FinishPriming \/ PrimingPanics \/ SpawnNext
  \/ StopSpawning \/ JoinAll \/ StopReporter \/ Report

-----------------------------------------------------------------------------
(* ship(): one batch, from its timestamp to the counters *)

Stamp(i) ==
  /\ pc[i] = "spawned"
  /\ stamp' = [stamp EXCEPT ![i] = timestamp_from_elapsed(clock)]
  /\ pc' = [pc EXCEPT ![i] = "generating"]
  /\ UNCHANGED <<mainVars, permits, size, backendVars, counterVars,
                 reporterVars>>

\* The one body is ready and goes to every enabled backend at once.
Send(i) ==
  /\ pc[i] = "generating"
  /\ pc' = [pc EXCEPT ![i] = "sending"]
  /\ net' = [net EXCEPT ![i] = [t \in Enabled |-> "queued"]]
  /\ UNCHANGED <<mainVars, permits, size, stamp, result, stored, created_at,
                 counterVars, clock, reporterVars>>

Answered(i) == \A t \in Enabled : result[i][t] # "pending"

\* tokio::join! returns when the last of the answers is in.
Join(i) ==
  /\ pc[i] = "sending" /\ Answered(i)
  /\ pc' = [pc EXCEPT ![i] = "o2_parquet"]
  /\ UNCHANGED <<mainVars, permits, size, stamp, backendVars, counterVars,
                 reporterVars>>

\* Mutant: ClickHouse's answer is not looked at.
AfterO2Target(t) == IF t = "o2_parquet" THEN "o2_vortex" ELSE "settling"
\* The order in which ship() looks at the three answers.
AfterTarget(t) == CASE t = "o2_parquet" -> "o2_vortex"
                    [] t = "o2_vortex"  -> "clickhouse"
                    [] t = "clickhouse" -> "settling"

Rejected(i, t) == t \in Enabled /\ result[i][t] = "err"

CountRejection(i, t) ==
  target_failed' = [target_failed EXCEPT ![t] =
                      IF Rejected(i, t) THEN @ + size[i] ELSE @]

CountTarget(i, t) ==
  /\ pc[i] = t
  /\ CountRejection(i, t)
  /\ pc' = [pc EXCEPT ![i] = AfterTarget(t)]
  /\ UNCHANGED <<mainVars, permits, size, stamp, backendVars, runCounters,
                 reporterVars>>

\* Mutants: batch 0 gives back a permit it never took; no permit comes back.
ReleaseAlways(i) == permits' = permits + 1
ReleaseNever(i) == UNCHANGED permits
\* Batch 0 holds no permit; any other gives its own back, panic or not.
Release(i) == permits' = IF i = 0 THEN permits ELSE permits + 1

\* eprintln! panics when stderr cannot be written (the reader of its pipe is
\* gone, its disk is full): the target's counter has moved, failed has not.
Panic(i, t) ==
  /\ StderrBreaks
  /\ pc[i] = t /\ Rejected(i, t)
  /\ CountRejection(i, t)
  /\ pc' = [pc EXCEPT ![i] = "panicked"]
  /\ Release(i)
  /\ UNCHANGED <<mainVars, size, stamp, backendVars, runCounters,
                 reporterVars>>

Settle(i) ==
  /\ pc[i] = "settling"
  /\ IF Accepted(i)
     THEN /\ sent' = sent + size[i]
          /\ timestamp_min' = SmallerOf(timestamp_min, stamp[i])
          /\ timestamp_max' = LargerOf(timestamp_max, LastEventTime(i))
          /\ UNCHANGED failed
     ELSE /\ failed' = failed + size[i]
          /\ UNCHANGED <<sent, timestamp_min, timestamp_max>>
  /\ pc' = [pc EXCEPT ![i] = "done"]
  /\ Release(i)
  /\ UNCHANGED <<mainVars, size, stamp, backendVars, target_failed,
                 reporterVars>>

Task(i) ==
  \/ Stamp(i) \/ Send(i) \/ Join(i) \/ Settle(i)
  \/ \E t \in Targets : CountTarget(i, t) \/ Panic(i, t)

-----------------------------------------------------------------------------
(* The backends and the network between *)

\* OpenObserve may refuse single rows; a ClickHouse INSERT is all or nothing.
Keepable(i, t) ==
  IF t \in OpenObserve THEN SUBSET RecordsOf(i) ELSE {{}, RecordsOf(i)}

\* An OpenObserve stream is created by the first rows it is given, and dated
\* by the earliest of them.
CreateStream(i, t, kept) ==
  IF t \in OpenObserve /\ created_at[t] = Unset /\ kept # {}
  THEN \E first \in kept :
         /\ \A r \in kept : first <= r
         /\ created_at' = [created_at EXCEPT ![t] = EventTime(i, first)]
  ELSE UNCHANGED created_at

\* The backend handles a request, whether or not the driver still waits.
Land(i, t) ==
  /\ net[i][t] = "queued"
  /\ \E kept \in Keepable(i, t) :
       /\ stored' = [stored EXCEPT ![t] = @ \cup kept]
       /\ CreateStream(i, t, kept)
  /\ net' = [net EXCEPT ![i] = [@ EXCEPT ![t] = "landed"]]
  /\ UNCHANGED <<mainVars, permits, taskVars, result, counterVars, clock,
                 reporterVars>>

Kept(i, t) == stored[t] \cap RecordsOf(i)

\* Mutant: the rows are added up but a refused row is not a failure.
CountsAddUp(successful, rejected, expected) == successful + rejected = expected
\* A 200 of OpenObserve is an acceptance only if every row succeeded.
validate_o2_ingest_body(successful, rejected, expected) ==
  rejected = 0 /\ successful = expected

\* ClickHouse says 2xx or an error status for the whole INSERT.
Accepts(i, t) ==
  IF t \in OpenObserve
  THEN LET successful == Cardinality(Kept(i, t))
       IN  validate_o2_ingest_body(successful, size[i] - successful, size[i])
  ELSE Kept(i, t) = RecordsOf(i)

Answer(i, t) ==
  /\ net[i][t] = "landed" /\ result[i][t] = "pending"
  /\ result' = [result EXCEPT ![i] =
                  [@ EXCEPT ![t] = IF Accepts(i, t) THEN "ok" ELSE "err"]]
  /\ UNCHANGED <<mainVars, permits, taskVars, net, stored, created_at,
                 counterVars, clock, reporterVars>>

\* A connection error, an error status or an unusable body: the driver learns
\* nothing of the rows, which may be stored already or be stored later.
Break(i, t) ==
  /\ net[i][t] \in {"queued", "landed"} /\ result[i][t] = "pending"
  /\ result' = [result EXCEPT ![i] = [@ EXCEPT ![t] = "err"]]
  /\ UNCHANGED <<mainVars, permits, taskVars, net, stored, created_at,
                 counterVars, clock, reporterVars>>

Backend(i, t) == Land(i, t) \/ Answer(i, t) \/ Break(i, t)

Tick ==
  /\ Running /\ clock < MaxClock
  /\ clock' = clock + 1
  /\ UNCHANGED <<mainVars, permits, taskVars, net, result, stored,
                 created_at, counterVars, reporterVars>>

-----------------------------------------------------------------------------
(* The progress reporter: two loads, then the flag, then the line *)

\* Mutant: the load is a swap with zero.
SwapSent ==
  /\ Running /\ rpc = "ticking"
  /\ seen_sent' = sent /\ sent' = 0
  /\ rpc' = "loaded_sent"
  /\ UNCHANGED <<mainVars, permits, taskVars, backendVars, failed,
                 timestamp_min, timestamp_max, target_failed, seen_failed, shown>>
LoadSent ==
  /\ Running /\ rpc = "ticking"
  /\ seen_sent' = sent
  /\ rpc' = "loaded_sent"
  /\ UNCHANGED <<mainVars, permits, taskVars, backendVars, counterVars,
                 seen_failed, shown>>

\* Mutant: a target's counter, which moves first, stands for failed.
LoadTargetFailed ==
  /\ Running /\ rpc = "loaded_sent"
  /\ seen_failed' = target_failed["clickhouse"]
  /\ rpc' = "loaded_failed"
  /\ UNCHANGED <<mainVars, permits, taskVars, backendVars, counterVars,
                 seen_sent, shown>>
LoadFailed ==
  /\ Running /\ rpc = "loaded_sent"
  /\ seen_failed' = failed
  /\ rpc' = "loaded_failed"
  /\ UNCHANGED <<mainVars, permits, taskVars, backendVars, counterVars,
                 seen_sent, shown>>

PrintLine ==
  /\ Running /\ rpc = "loaded_failed"
  /\ shown' = SmallerOf(seen_sent + seen_failed, Total)
  /\ rpc' = IF progress_done THEN "stopped" ELSE "ticking"
  /\ UNCHANGED <<mainVars, permits, taskVars, backendVars, counterVars,
                 seen_sent, seen_failed>>

Reporter == LoadSent \/ LoadFailed \/ PrintLine

-----------------------------------------------------------------------------
\* The process has exited and no request is left on the way to a backend.
Finished ==
  /\ ~Running
  /\ \A i \in Batches, t \in Enabled : net[i][t] # "queued"
  /\ UNCHANGED vars

Next ==
  \/ Main
  \/ \E i \in Batches : Task(i)
  \/ \E i \in Batches, t \in Enabled : Backend(i, t)
  \/ Tick
  \/ Reporter
  \/ Finished

Spec == Init /\ [][Next]_vars

\* The runtime keeps polling what is ready, and every request the driver waits
\* for is answered or breaks in the end: the client has no timeout of its own.
Fairness ==
  /\ WF_vars(Main)
  /\ WF_vars(Reporter)
  /\ \A i \in Batches : WF_vars(Task(i))
  /\ \A i \in Batches, t \in Enabled : WF_vars(Answer(i, t) \/ Break(i, t))

FairSpec == Spec /\ Fairness

-----------------------------------------------------------------------------
(* Properties *)

PCs == Targets \cup {"unspawned", "spawned", "generating", "sending",
                     "settling", "done", "panicked"}

TypeOK ==
  /\ main \in {"start", "priming", "spawning", "joining", "joined",
               "awaiting_reporter", "exited"}
  /\ batch_idx \in 0 .. total_batches /\ remaining \in 0 .. Total
  /\ permits \in 0 .. Concurrency /\ exit \in {Unset, 0, 1, 101}
  /\ pc \in [Batches -> PCs] /\ size \in [Batches -> 0 .. BatchSize]
  /\ stamp \in [Batches -> 0 .. U64Max]
  /\ net \in [Batches -> [Enabled -> {"idle", "queued", "landed"}]]
  /\ result \in [Batches -> [Enabled -> {"pending", "ok", "err"}]]
  /\ stored \in [Enabled -> SUBSET Records]
  /\ created_at \in [Enabled -> {Unset} \cup 0 .. U64Max]
  /\ sent \in Nat /\ failed \in Nat /\ target_failed \in [Targets -> Nat]
  /\ timestamp_min \in 0 .. U64Max /\ timestamp_max \in 0 .. U64Max
  /\ clock \in 0 .. MaxClock
  /\ rpc \in {"ticking", "loaded_sent", "loaded_failed", "stopped"}
  /\ seen_sent \in Nat /\ seen_failed \in Nat /\ shown \in Nat
  /\ progress_done \in BOOLEAN

InFlight == {i \in Batches : pc[i] \notin {"unspawned", "done", "panicked"}}
RecordsOfAll(S) == UNION {RecordsOf(i) : i \in S}
AcceptedBatches == {i \in Batches : pc[i] = "done" /\ Accepted(i)}
FailedBatches == {i \in Batches : pc[i] = "done" /\ ~Accepted(i)}
PanickedBatches == {i \in Batches : pc[i] = "panicked"}
Joined == main \in {"joined", "awaiting_reporter"} \/ exit = 0 \/ stats.written

\* The semaphore never leaks or invents a permit, so at most --concurrency
\* batches of the fan-out are in flight; batch 0 is in flight alone.
FanOutBounded ==
  /\ permits + Cardinality(InFlight \ {0}) = Concurrency
  /\ 0 \in InFlight => InFlight = {0}

\* The batches started so far cut the first records off, without a gap, an
\* overlap or an empty batch, and remaining is what they have left.
BatchesPartition ==
  /\ RecordsOfAll(Batches) = 0 .. Total - remaining - 1
  /\ \A i, j \in Batches : i # j => RecordsOf(i) \cap RecordsOf(j) = {}
  /\ \A i \in Batches : i < batch_idx <=> size[i] > 0
  /\ batch_idx = total_batches <=> remaining = 0

\* Whatever was lost, refused or answered late: at least `sent` records are
\* held by every enabled backend, those of the accepted batches.
SentIsStored ==
  /\ \A i \in AcceptedBatches, t \in Enabled : RecordsOf(i) \subseteq stored[t]
  /\ sent <= Cardinality({r \in Records : \A t \in Enabled : r \in stored[t]})

\* Once every task is joined, each record is in sent, in failed, or in a batch
\* whose task panicked, and in one of them only.
RecordsAccountedFor ==
  Joined => sent + failed + Cardinality(RecordsOfAll(PanickedBatches)) = Total

\* The per-target counters break the failures down: none exceeds the records
\* the run lost, and a run that lost records blames a target for them.
TargetFailuresAgree ==
  Joined =>
    /\ \A t \in Targets :
         target_failed[t] <= failed + Cardinality(RecordsOfAll(PanickedBatches))
    /\ failed > 0 => \E t \in Enabled : target_failed[t] > 0
    /\ \A t \in Targets \ Enabled : target_failed[t] = 0

\* Exit status 0 of a run with no panic: every backend holds the same records,
\* all of them, although each was asked in its own order and at its own time.
CleanExitIsComplete ==
  exit = 0 /\ PanickedBatches = {} =>
    \A t \in Enabled : stored[t] = Records

\* A stream's creation time is its earliest event time, whichever batch lands
\* first; and after priming it is the event time of record 0.
CreatedAtIsEarliest ==
  \A t \in Enabled \cap OpenObserve :
    /\ \A i \in Batches : \A r \in Kept(i, t) :
         created_at[t] # Unset /\ created_at[t] <= EventTime(i, r)
    /\ batch_idx > 1 => created_at[t] = stamp[0]

\* No backend holds a record of a later batch unless every backend has all of
\* batch 0: a run whose priming failed leaves nothing but rows of batch 0.
PrimedFirst ==
  \A i \in Batches \ {0} :
    (\E t \in Enabled : net[i][t] # "idle" \/ Kept(i, t) # {}) =>
      \A t \in Enabled : RecordsOf(0) \subseteq stored[t]

\* The event-time range of the stats file is one every backend really holds:
\* its start is the earliest time stored, its end is a stored one.  The start is
\* null only when the clock had saturated before the first batch, the end only
\* when every accepted record is at time 0.
StoredTimes(t) ==
  UNION {{EventTime(i, r) : r \in Kept(i, t)} : i \in Batches}

EventRangeIsStored ==
  stats.written =>
    \A t \in Enabled :
      /\ IF stats.timestamp_min_us = Unset
         THEN StoredTimes(t) = {U64Max}
         ELSE /\ stats.timestamp_min_us \in StoredTimes(t)
              /\ \A e \in StoredTimes(t) : stats.timestamp_min_us <= e
      /\ IF stats.timestamp_max_us = Unset
         THEN \A i \in AcceptedBatches : LastEventTime(i) = 0
         ELSE stats.timestamp_max_us \in StoredTimes(t)

\* The reporter's two loads are not atomic, yet no line claims more than has
\* been settled, and no line claims less than the one before.
ProgressHonest == shown <= sent + failed /\ sent + failed <= Total
ProgressNeverGoesBack == [][shown <= shown']_vars

\* The comment on the counters (main.rs:831-832): failed is the number of
\* records that failed on at least one target.
FailedCountsFailures ==
  Joined => failed = Cardinality(RecordsOfAll(
              {i \in Batches : \E t \in Enabled : Rejected(i, t)}))

\* A run ends, whatever fails, if every request is answered or breaks.
Terminates == <>(~Running)
=============================================================================
