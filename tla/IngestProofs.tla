----------------------------- MODULE IngestProofs -----------------------------
(***************************************************************************)
(* Proofs about the ingest driver, for every set of backends, every Total, *)
(* BatchSize and Concurrency, every anchor and every length of the run: how *)
(* the main task cuts the records and starts the batches, what the counters *)
(* say of what the backends hold, and the account a run gives of itself:   *)
(* the records in its counters, the failures it blames on each target, the *)
(* times of the events it has stored, and the contract it implements.      *)
(***************************************************************************)
EXTENDS IngestRefinement, FiniteSetTheorems, TLAPS

-----------------------------------------------------------------------------
(* How main() cuts the records into batches *)

\* The number of batches is the rounded-up quotient: the last batch begins
\* before Total and ends at or after it (main.rs:806).
LEMMA BatchCount ==
  /\ total_batches \in Nat \ {0}
  /\ (total_batches - 1) * BatchSize < Total
  /\ Total <= total_batches * BatchSize
<1> DEFINE n == Total + BatchSize - 1
           q == n \div BatchSize
           m == n % BatchSize
<1>1. /\ n \in Nat /\ BatchSize \in Nat /\ BatchSize > 0 /\ n >= BatchSize
      /\ total_batches = q
  BY SizeAssumption DEF total_batches
<1>2. q \in Int /\ m \in 0 .. BatchSize - 1 /\ n = BatchSize * q + m
  BY <1>1
<1> HIDE DEF q, m
<1>3. q > 0
  <2>1. SUFFICES ASSUME q <= 0 PROVE FALSE
    BY <1>2
  <2>2. BatchSize * q <= 0
    BY <1>1, <1>2, <2>1, Z3
  <2> QED
    BY <1>1, <1>2, <2>2
<1>4. (q - 1) * BatchSize = BatchSize * q - BatchSize /\ q * BatchSize = BatchSize * q
  BY <1>1, <1>2, Z3
<1>5. n = Total + BatchSize - 1 /\ Total \in Nat
  BY SizeAssumption
<1> QED
  BY <1>1, <1>2, <1>3, <1>4, <1>5

\* Batches begin at increasing records, each before Total, a whole BatchSize
\* apart; only the last one can reach Total.
LEMMA BatchStarts ==
  /\ \A i \in Nat : start_record_idx(i) \in Nat
  /\ \A i, j \in Nat : i < j => start_record_idx(i) + BatchSize <= start_record_idx(j)
  /\ \A i \in Nat : start_record_idx(i + 1) = start_record_idx(i) + BatchSize
  /\ \A i \in Batches : i \in Nat /\ start_record_idx(i) < Total
  /\ \A i \in Batches : i + 1 = total_batches => Total <= start_record_idx(i) + BatchSize
  /\ start_record_idx(0) = 0 /\ 0 \in Batches
<1> USE DEF start_record_idx
<1>0. BatchSize \in Nat \ {0} /\ Total \in Nat
  BY SizeAssumption
<1>1. \A i \in Nat : i * BatchSize \in Nat
  BY <1>0
<1>2. \A i \in Nat : (i + 1) * BatchSize = i * BatchSize + BatchSize
  BY <1>0, Z3
<1>3. ASSUME NEW i \in Nat, NEW j \in Nat, i < j
      PROVE  i * BatchSize + BatchSize <= j * BatchSize
  <2> DEFINE d == j - i
  <2>1. d \in Nat /\ d >= 1 /\ j = i + d
    BY <1>3
  <2> HIDE DEF d
  <2>2. (i + d) * BatchSize = i * BatchSize + d * BatchSize
    BY <1>0, <2>1, Z3
  <2>3. d * BatchSize >= BatchSize
    BY <1>0, <2>1, Z3
  <2> QED
    BY <1>0, <1>1, <2>1, <2>2, <2>3
<1>4. ASSUME NEW i \in Batches
      PROVE  i \in Nat /\ i * BatchSize < Total
  <2>1. i \in Nat /\ total_batches \in Nat /\ i <= total_batches - 1
    BY BatchCount DEF Batches
  <2>2. i * BatchSize <= (total_batches - 1) * BatchSize
    <3>1. CASE i = total_batches - 1
      BY <1>0, <1>1, <2>1, <3>1
    <3>2. CASE i < total_batches - 1
      <4>1. i * BatchSize + BatchSize <= (total_batches - 1) * BatchSize
        BY <1>3, <2>1, <3>2
      <4> QED
        BY <1>0, <1>1, <2>1, <4>1
    <3> QED
      BY <2>1, <3>1, <3>2
  <2> QED
    BY <1>0, <1>1, <2>1, <2>2, BatchCount
<1>5. ASSUME NEW i \in Batches, i + 1 = total_batches
      PROVE  Total <= i * BatchSize + BatchSize
  BY <1>2, <1>4, <1>5, BatchCount
<1>6. 0 * BatchSize = 0 /\ 0 \in Batches
  BY <1>0, BatchCount DEF Batches
<1> QED
  BY <1>1, <1>2, <1>3, <1>4, <1>5, <1>6

-----------------------------------------------------------------------------
(* The inductive invariant, in layers *)

\* Batches before batch_idx have their records, the others have none yet.
CutInv ==
  /\ remaining = IF batch_idx < total_batches
                 THEN Total - start_record_idx(batch_idx) ELSE 0
  /\ \A i \in Batches :
       /\ size[i] = IF i < batch_idx
                    THEN SmallerOf(Total - start_record_idx(i), BatchSize) ELSE 0
       /\ pc[i] = "unspawned" <=> i >= batch_idx

\* Where main() is tells which batches have been started and which are over.
PhaseInv ==
  /\ main = "start" <=> batch_idx = 0
  /\ main = "priming" => batch_idx = 1
  /\ main \in {"spawning", "joining", "joined", "awaiting_reporter"} =>
       pc[0] = "done" /\ Accepted(0)
  /\ batch_idx > 1 => pc[0] = "done" /\ Accepted(0)
  /\ main = "exited" => \A i \in Batches : pc[i] \in {"unspawned", "done", "panicked"}
  /\ main \in {"joined", "awaiting_reporter"} =>
       \A i \in Batches : pc[i] \in {"done", "panicked"}
  /\ main = "exited" <=> exit # Unset

PermitsInv == permits + Cardinality(InFlight \ {0}) = Concurrency

MainInv == TypeOK /\ CutInv /\ PhaseInv /\ PermitsInv

\* A batch that has been started has between one record and BatchSize of them,
\* all below Total.
LEMMA StartedBatch ==
  ASSUME TypeOK, CutInv, NEW i \in Batches
  PROVE  /\ RecordsOf(i) \subseteq Records
         /\ size[i] \in Nat
         /\ pc[i] # "unspawned" => size[i] >= 1 /\ start_record_idx(i) \in RecordsOf(i)
         /\ RecordsOf(i) = {r \in Int : start_record_idx(i) <= r /\ r < start_record_idx(i) + size[i]}
<1>1. /\ i \in Nat /\ start_record_idx(i) \in Nat /\ start_record_idx(i) < Total
      /\ BatchSize \in Nat \ {0} /\ Total \in Nat
  BY BatchStarts, SizeAssumption
<1>2. size[i] \in Nat
  BY SizeAssumption DEF TypeOK
<1>3. size[i] <= Total - start_record_idx(i)
  BY <1>1, <1>2 DEF CutInv, SmallerOf
<1>4. pc[i] # "unspawned" => size[i] >= 1
  BY <1>1, BatchCount DEF CutInv, SmallerOf, TypeOK
<1> QED
  BY <1>1, <1>2, <1>3, <1>4 DEF RecordsOf, Records

\* Batches are finitely many, and so is any set of them.
LEMMA FiniteBatches ==
  \A S : S \subseteq Batches => IsFiniteSet(S) /\ Cardinality(S) \in Nat
<1>1. IsFiniteSet(Batches)
  BY FS_Interval, BatchCount DEF Batches
<1>2. ASSUME NEW S, S \subseteq Batches
      PROVE  IsFiniteSet(S) /\ Cardinality(S) \in Nat
  <2>1. IsFiniteSet(S)
    BY <1>1, <1>2, FS_Subset
  <2> QED
    BY <2>1, FS_CardinalityType
<1> QED
  BY <1>2

\* What main takes for the next batch is what CutInv says it holds.
LEMMA NextCut ==
  ASSUME TypeOK, CutInv, NEW i \in Batches, i = batch_idx, StartBatch(i)
  PROVE  CutInv' /\ batch_idx' \in 0 .. total_batches /\ remaining' \in 0 .. Total
         /\ size' \in [Batches -> 0 .. BatchSize] /\ pc' \in [Batches -> PCs]
<1> USE DEF StartBatch, TypeOK, CutInv, this_batch, SmallerOf, PCs
<1>1. /\ i \in Nat /\ start_record_idx(i) \in Nat /\ start_record_idx(i) < Total
      /\ start_record_idx(i + 1) = start_record_idx(i) + BatchSize
      /\ i + 1 = total_batches => Total <= start_record_idx(i) + BatchSize
      /\ i + 1 < total_batches => start_record_idx(i + 1) < Total
      /\ BatchSize \in Nat \ {0} /\ Total \in Nat /\ total_batches \in Nat
      /\ i + 1 <= total_batches /\ start_record_idx(i + 1) \in Nat
  <2>1. i \in Nat /\ i + 1 \in Nat /\ total_batches \in Nat /\ i + 1 <= total_batches
    BY BatchCount DEF Batches
  <2>2. i + 1 < total_batches => i + 1 \in Batches
    BY <2>1 DEF Batches
  <2>3. /\ start_record_idx(i) \in Nat /\ start_record_idx(i) < Total
        /\ start_record_idx(i + 1) \in Nat
        /\ start_record_idx(i + 1) = start_record_idx(i) + BatchSize
        /\ i + 1 = total_batches => Total <= start_record_idx(i) + BatchSize
    BY <2>1, BatchStarts
  <2>4. i + 1 < total_batches => start_record_idx(i + 1) < Total
    BY <2>2, BatchStarts
  <2> QED
    BY <2>1, <2>3, <2>4, SizeAssumption
<1>2. remaining = Total - start_record_idx(i)
  BY <1>1
<1>3. this_batch = SmallerOf(Total - start_record_idx(i), BatchSize)
  BY <1>2
<1>4. remaining' = IF i + 1 < total_batches THEN Total - start_record_idx(i + 1) ELSE 0
  BY <1>1, <1>2
<1>5. \A j \in Batches : /\ size'[j] = IF j < i + 1 THEN SmallerOf(Total - start_record_idx(j), BatchSize) ELSE 0
                         /\ pc'[j] = "unspawned" <=> j >= i + 1
  <2>1. /\ size' = [size EXCEPT ![i] = this_batch]
        /\ pc' = [pc EXCEPT ![i] = "spawned"]
        /\ \A j \in Batches : j \in Nat
    BY BatchStarts
  <2>2. ASSUME NEW j \in Batches, j # i
        PROVE  /\ size'[j] = size[j] /\ pc'[j] = pc[j]
               /\ j < i + 1 <=> j < i
               /\ j >= i + 1 <=> j >= i
    BY <1>1, <2>1, <2>2
  <2>3. size'[i] = this_batch /\ pc'[i] = "spawned"
    BY <2>1
  <2> HIDE DEF this_batch, SmallerOf, StartBatch
  <2> QED
    BY <1>1, <1>3, <2>2, <2>3
<1>6. remaining' \in 0 .. Total
  BY <1>1, <1>4
<1> QED
  BY <1>1, <1>4, <1>5, <1>6 DEF start_record_idx

-----------------------------------------------------------------------------
(* Permits and batches in flight *)

Waiting == {"unspawned", "done", "panicked"}

\* A batch starts, with a permit unless it is batch 0.
Starts(i) ==
  /\ pc[i] = "unspawned" /\ i = batch_idx
  /\ StartBatch(i)
  /\ permits' = IF i = 0 THEN permits ELSE permits - 1
  /\ permits' >= 0

cutVars == <<batch_idx, remaining, size>>

\* A batch in flight goes on to another stage of its flight.
Continues(i) ==
  /\ pc[i] \notin Waiting
  /\ \E p \in PCs \ Waiting : pc' = [pc EXCEPT ![i] = p]
  /\ permits' = permits
  /\ UNCHANGED cutVars

\* A batch in flight ends, and gives its permit back unless it is batch 0.
Ends(i) ==
  /\ pc[i] \notin Waiting
  /\ \E p \in {"done", "panicked"} : pc' = [pc EXCEPT ![i] = p]
  /\ permits' = IF i = 0 THEN permits ELSE permits + 1
  /\ UNCHANGED cutVars

\* Every step does one of these to one batch, or leaves batches and permits be.
LEMMA FlightSteps ==
  ASSUME MainInv, [Next]_vars
  PROVE  \/ pc' = pc /\ permits' = permits /\ UNCHANGED cutVars
         \/ \E i \in Batches : Starts(i) \/ Continues(i) \/ Ends(i)
<1> USE DEF MainInv, Waiting, PCs, Targets, OpenObserve, cutVars, mainVars
<1>1. CASE StartPriming
  <2>1. 0 \in Batches /\ batch_idx = 0 /\ pc[0] = "unspawned"
    BY <1>1, BatchStarts DEF StartPriming, PhaseInv, CutInv
  <2>2. Starts(0)
    BY <1>1, <2>1 DEF StartPriming, StartBatch, Starts, TypeOK
  <2> QED
    BY <2>1, <2>2
<1>2. CASE SpawnNext
  <2>1. batch_idx \in Batches /\ batch_idx # 0 /\ pc[batch_idx] = "unspawned"
    BY <1>2, BatchCount DEF SpawnNext, PhaseInv, CutInv, TypeOK, Batches
  <2>2. Starts(batch_idx)
    BY <1>2, <2>1 DEF SpawnNext, StartBatch, Starts, TypeOK
  <2> QED
    BY <2>1, <2>2
<1>3. CASE FinishPriming \/ PrimingPanics \/ StopSpawning \/ JoinAll \/ StopReporter \/ Report
  BY <1>3 DEF FinishPriming, PrimingPanics, StopSpawning, JoinAll, StopReporter, Report, taskVars
<1>4. ASSUME NEW i \in Batches, Stamp(i) \/ Send(i) \/ Join(i)
      PROVE  Continues(i)
  BY <1>4 DEF Stamp, Send, Join, Continues
<1>5. ASSUME NEW i \in Batches, NEW t \in Targets, CountTarget(i, t)
      PROVE  Continues(i)
  BY <1>5 DEF CountTarget, AfterTarget, Continues
<1>6. ASSUME NEW i \in Batches, NEW t \in Targets, Panic(i, t)
      PROVE  Ends(i)
  BY <1>6 DEF Panic, Release, Ends
<1>7. ASSUME NEW i \in Batches, Settle(i)
      PROVE  Ends(i)
  BY <1>7 DEF Settle, Release, Ends
<1>8. ASSUME NEW i \in Batches, NEW t \in Enabled, Backend(i, t)
      PROVE  pc' = pc /\ permits' = permits /\ UNCHANGED cutVars
  BY <1>8 DEF Backend, Land, Answer, Break, taskVars
<1>9. CASE Tick \/ Reporter \/ Finished \/ UNCHANGED vars
  BY <1>9 DEF Tick, Reporter, LoadSent, LoadFailed, PrintLine, Finished, vars, taskVars
<1> QED
  BY <1>1, <1>2, <1>3, <1>4, <1>5, <1>6, <1>7, <1>8, <1>9 DEF Next, Main, Task

\* The permits taken are the fan-out batches in flight.
LEMMA PermitsStep ==
  ASSUME MainInv, [Next]_vars
  PROVE  PermitsInv' /\ permits' \in 0 .. Concurrency
<1> DEFINE F == InFlight \ {0}
<1>0. /\ IsFiniteSet(F) /\ Cardinality(F) \in Nat /\ InFlight \subseteq Batches
      /\ permits \in Nat /\ Concurrency \in Nat /\ permits + Cardinality(F) = Concurrency
  BY FiniteBatches, SizeAssumption DEF MainInv, TypeOK, PermitsInv, InFlight
<1>1. CASE pc' = pc /\ permits' = permits
  BY <1>0, <1>1 DEF PermitsInv, InFlight
<1>2. ASSUME NEW i \in Batches, Starts(i)
      PROVE  permits' + Cardinality(F') = Concurrency /\ permits' \in Nat
  <2>1. F' = (IF i = 0 THEN F ELSE F \cup {i}) /\ i \notin F
    BY <1>2 DEF Starts, StartBatch, InFlight, MainInv, TypeOK
  <2>2. Cardinality(F') = IF i = 0 THEN Cardinality(F) ELSE Cardinality(F) + 1
    <3> HIDE DEF F
    <3>1. Cardinality(F \cup {i}) = Cardinality(F) + 1
      BY <1>0, <2>1, FS_AddElement
    <3> QED
      BY <2>1, <3>1
  <2> QED
    BY <1>0, <1>2, <2>2 DEF Starts
<1>3. ASSUME NEW i \in Batches, Continues(i)
      PROVE  F' = F /\ permits' = permits
  BY <1>3 DEF Continues, InFlight, Waiting, MainInv, TypeOK
<1>4. ASSUME NEW i \in Batches, Ends(i)
      PROVE  permits' + Cardinality(F') = Concurrency /\ permits' \in Nat
  <2>1. F' = (IF i = 0 THEN F ELSE F \ {i}) /\ (i # 0 => i \in F)
    BY <1>4 DEF Ends, InFlight, Waiting, MainInv, TypeOK
  <2>2. Cardinality(F') = IF i = 0 THEN Cardinality(F) ELSE Cardinality(F) - 1
    <3> HIDE DEF F
    <3>1. i # 0 => Cardinality(F \ {i}) = Cardinality(F) - 1
      BY <1>0, <2>1, FS_RemoveElement
    <3> QED
      BY <2>1, <3>1
  <2> QED
    BY <1>0, <1>4, <2>2 DEF Ends
<1>5. F' \subseteq Batches /\ Cardinality(F') \in Nat
  BY FiniteBatches DEF InFlight
<1>6. permits' + Cardinality(F') = Concurrency /\ permits' \in Nat
  BY <1>0, <1>1, <1>2, <1>3, <1>4, FlightSteps DEF InFlight
<1> QED
  BY <1>0, <1>5, <1>6 DEF PermitsInv

-----------------------------------------------------------------------------
(* Types *)

\* Event times stay within what u64 holds.
LEMMA EventTimes ==
  ASSUME TypeOK, CutInv
  PROVE  /\ timestamp_from_elapsed(clock) \in 0 .. U64Max
         /\ \A i \in Batches : \A r \in RecordsOf(i) : EventTime(i, r) \in 0 .. U64Max
         /\ \A i \in Batches : pc[i] # "unspawned" => LastEventTime(i) \in 0 .. U64Max
<1> USE TimeAssumption DEF saturating_add, SmallerOf
<1>1. timestamp_from_elapsed(clock) \in 0 .. U64Max
  BY DEF timestamp_from_elapsed, TypeOK
<1>2. ASSUME NEW i \in Batches, NEW r \in RecordsOf(i)
      PROVE  EventTime(i, r) \in 0 .. U64Max
  <2>1. r \in Int /\ start_record_idx(i) \in Nat /\ r >= start_record_idx(i)
    BY <1>2, StartedBatch, BatchStarts
  <2> QED
    BY <2>1 DEF EventTime, TypeOK
<1>3. ASSUME NEW i \in Batches, pc[i] # "unspawned"
      PROVE  LastEventTime(i) \in 0 .. U64Max
  <2>1. size[i] \in Nat /\ size[i] >= 1
    BY <1>3, StartedBatch
  <2> QED
    BY <2>1 DEF LastEventTime, TypeOK
<1> QED
  BY <1>1, <1>2, <1>3

LEMMA TypeStep ==
  ASSUME MainInv, [Next]_vars
  PROVE  TypeOK'
<1>0. permits' \in 0 .. Concurrency
  BY PermitsStep
<1> USE <1>0, SizeAssumption, TimeAssumption
<1> USE DEF MainInv, TypeOK, PCs
<1>1. CASE StartPriming
  <2>1. 0 \in Batches /\ 0 = batch_idx
    BY <1>1, BatchStarts DEF StartPriming, PhaseInv
  <2>2. StartBatch(0)
    BY <1>1 DEF StartPriming
  <2> QED
    BY <1>1, <2>1, <2>2, NextCut
       DEF StartPriming, exitVars, backendVars, counterVars, runCounters, reporterVars
<1>2. CASE SpawnNext
  <2>1. batch_idx \in Batches /\ StartBatch(batch_idx)
    BY <1>2, BatchCount DEF SpawnNext, Batches
  <2> QED
    BY <1>2, <2>1, NextCut
       DEF SpawnNext, exitVars, backendVars, counterVars, runCounters, reporterVars
<1>3. CASE FinishPriming \/ PrimingPanics \/ StopSpawning \/ JoinAll \/ StopReporter \/ Report
  <2>1. /\ main' \in {"spawning", "joining", "joined", "awaiting_reporter", "exited"}
        /\ exit' \in {Unset, 0, 1, 101}
        /\ progress_done' \in BOOLEAN
    BY <1>3, Zenon DEF FinishPriming, PrimingPanics, StopSpawning, JoinAll, StopReporter,
       Report, Exit, exitVars
  <2>2. UNCHANGED <<batch_idx, remaining, taskVars, backendVars, counterVars, reporterVars>>
    BY <1>3 DEF FinishPriming, PrimingPanics, StopSpawning, JoinAll, StopReporter, Report
  <2> QED
    BY <2>1, <2>2 DEF taskVars, backendVars, counterVars, runCounters, reporterVars
<1>4. ASSUME NEW i \in Batches, Stamp(i) \/ Send(i) \/ Join(i)
      PROVE  TypeOK'
  <2>1. stamp' \in [Batches -> 0 .. U64Max]
    BY <1>4, EventTimes DEF Stamp, Send, Join
  <2>2. pc' \in [Batches -> PCs]
    <3>1. PICK p \in {"generating", "sending", "o2_parquet"} : pc' = [pc EXCEPT ![i] = p]
      BY <1>4 DEF Stamp, Send, Join
    <3>2. p \in PCs
      BY DEF Targets, OpenObserve
    <3> QED
      BY <3>1, <3>2
  <2>3. /\ net' \in [Batches -> [Enabled -> {"idle", "queued", "landed"}]]
        /\ result' = result
    BY <1>4 DEF Stamp, Send, Join, backendVars
  <2>4. UNCHANGED <<mainVars, permits, size, stored, created_at, clock, counterVars, reporterVars>>
    BY <1>4 DEF Stamp, Send, Join, backendVars
  <2> QED
    BY <2>1, <2>2, <2>3, <2>4 DEF mainVars, exitVars, counterVars, runCounters, reporterVars
<1>5. ASSUME NEW i \in Batches, NEW t \in Targets, CountTarget(i, t) \/ Panic(i, t)
      PROVE  TypeOK'
  <2>1. size[i] \in Nat
    OBVIOUS
  <2>2. target_failed' \in [Targets -> Nat]
    BY <1>5, <2>1 DEF CountTarget, Panic, CountRejection
  <2>3. pc' \in [Batches -> PCs]
    <3>1. AfterTarget(t) \in PCs
      BY <1>5 DEF AfterTarget, Targets, OpenObserve
    <3>2. PICK next \in {AfterTarget(t), "panicked"} : pc' = [pc EXCEPT ![i] = next]
      BY <1>5 DEF CountTarget, Panic
    <3>3. next \in PCs
      BY <3>1, <3>2
    <3> QED
      BY <3>2, <3>3
  <2> QED
    BY <1>5, <2>2, <2>3 DEF CountTarget, Panic, mainVars, exitVars, backendVars,
       runCounters, reporterVars
<1>6. ASSUME NEW i \in Batches, Settle(i)
      PROVE  TypeOK'
  <2>1. LastEventTime(i) \in 0 .. U64Max
    BY <1>6, EventTimes DEF Settle
  <2>2. /\ sent' \in Nat /\ failed' \in Nat
        /\ timestamp_min' \in 0 .. U64Max /\ timestamp_max' \in 0 .. U64Max
    BY <1>6, <2>1 DEF Settle, SmallerOf, LargerOf
  <2> QED
    BY <1>6, <2>2 DEF Settle, mainVars, exitVars, backendVars, reporterVars
<1>7. ASSUME NEW i \in Batches, NEW t \in Enabled, Land(i, t)
      PROVE  TypeOK'
  <2>1. PICK kept \in Keepable(i, t) :
          /\ stored' = [stored EXCEPT ![t] = @ \cup kept]
          /\ CreateStream(i, t, kept)
    BY <1>7 DEF Land
  <2>2. kept \subseteq RecordsOf(i) /\ RecordsOf(i) \subseteq Records
    BY <2>1, StartedBatch DEF Keepable
  <2>3. created_at' \in [Enabled -> {Unset} \cup 0 .. U64Max]
    BY <2>1, <2>2, EventTimes DEF CreateStream
  <2>4. stored' \in [Enabled -> SUBSET Records]
    BY <2>1, <2>2
  <2> QED
    BY <1>7, <2>3, <2>4 DEF Land, mainVars, exitVars, taskVars, counterVars,
       runCounters, reporterVars
<1>8. ASSUME NEW i \in Batches, NEW t \in Enabled, Answer(i, t) \/ Break(i, t)
      PROVE  TypeOK'
  <2>1. PICK v \in {"ok", "err"} : result' = [result EXCEPT ![i] = [@ EXCEPT ![t] = v]]
    BY <1>8 DEF Answer, Break
  <2>2. result' \in [Batches -> [Enabled -> {"pending", "ok", "err"}]]
    BY <2>1
  <2> QED
    BY <1>8, <2>2 DEF Answer, Break, mainVars, exitVars, taskVars, counterVars,
       runCounters, reporterVars
<1>9. CASE Tick
  BY <1>9 DEF Tick, mainVars, exitVars, taskVars, counterVars, runCounters, reporterVars
<1>10. CASE Reporter
  BY <1>10 DEF Reporter, LoadSent, LoadFailed, PrintLine, SmallerOf, mainVars, exitVars,
     taskVars, backendVars, counterVars, runCounters
<1>11. CASE Finished \/ UNCHANGED vars
  BY <1>11 DEF Finished, vars, mainVars, exitVars, taskVars, backendVars, counterVars,
     runCounters, reporterVars
<1> QED
  BY <1>1, <1>2, <1>3, <1>4, <1>5, <1>6, <1>7, <1>8, <1>9, <1>10, <1>11
  DEF Next, Main, Task, Backend

-----------------------------------------------------------------------------
(* Records and phases *)

LEMMA CutStep ==
  ASSUME MainInv, [Next]_vars
  PROVE  CutInv'
<1> USE DEF MainInv
<1>1. ASSUME NEW i \in Batches, Starts(i)
      PROVE  CutInv'
  BY <1>1, NextCut DEF Starts
<1>2. CASE pc' = pc /\ permits' = permits /\ UNCHANGED cutVars
  BY <1>2 DEF CutInv, cutVars, start_record_idx, SmallerOf
<1>3. ASSUME NEW i \in Batches, Continues(i) \/ Ends(i)
      PROVE  CutInv'
  <2>1. \A j \in Batches : pc'[j] = "unspawned" <=> pc[j] = "unspawned"
    BY <1>3 DEF Continues, Ends, Waiting, TypeOK
  <2>2. UNCHANGED cutVars
    BY <1>3 DEF Continues, Ends
  <2> QED
    BY <2>1, <2>2 DEF CutInv, cutVars, start_record_idx, SmallerOf
<1> QED
  BY <1>1, <1>2, <1>3, FlightSteps

LEMMA PhaseStep ==
  ASSUME MainInv, [Next]_vars
  PROVE  PhaseInv'
<1> USE DEF MainInv, PhaseInv, Unset
<1>0. /\ 0 \in Batches /\ \A i \in Batches : i \in Nat
      /\ pc \in [Batches -> PCs] /\ batch_idx \in Nat
      /\ result \in [Batches -> [Enabled -> {"pending", "ok", "err"}]]
  <2>1. 0 \in Batches /\ (\A i \in Batches : i \in Nat) /\ total_batches \in Nat
    BY BatchStarts, BatchCount
  <2> QED
    BY <2>1 DEF TypeOK
<1>1. CASE StartPriming
  BY <1>0, <1>1 DEF StartPriming, StartBatch, exitVars
<1>2. CASE FinishPriming
  <2>1. batch_idx = 1 /\ pc[0] = "done" /\ UNCHANGED <<batch_idx, pc, result>>
    BY <1>2 DEF FinishPriming, taskVars, backendVars
  <2>2. \A i \in Batches : i = 0 \/ pc[i] = "unspawned"
    BY <1>0, <2>1 DEF CutInv
  <2>3. \/ main' = "spawning" /\ exit' = exit /\ Accepted(0)
        \/ main' = "exited" /\ exit' = 1
    BY <1>2 DEF FinishPriming, Exit
  <2> QED
    BY <1>2, <2>1, <2>2, <2>3 DEF Accepted, FinishPriming
<1>3. CASE PrimingPanics
  <2>1. batch_idx = 1 /\ pc[0] = "panicked" /\ UNCHANGED <<batch_idx, pc, result>>
    BY <1>3 DEF PrimingPanics, taskVars, backendVars
  <2>2. \A i \in Batches : i = 0 \/ pc[i] = "unspawned"
    BY <1>0, <2>1 DEF CutInv
  <2> QED
    BY <1>3, <2>1, <2>2 DEF PrimingPanics, Exit, Accepted
<1>4. CASE SpawnNext
  <2>1. batch_idx # 0 /\ pc[0] = "done" /\ Accepted(0) /\ result' = result
    BY <1>4 DEF SpawnNext, backendVars
  <2>2. pc'[0] = "done" /\ main' = "spawning" /\ batch_idx' = batch_idx + 1 /\ exit' = exit
    BY <1>0, <1>4, <2>1 DEF SpawnNext, StartBatch, exitVars
  <2> QED
    BY <1>0, <1>4, <2>1, <2>2 DEF SpawnNext, Accepted
<1>5. CASE StopSpawning \/ JoinAll \/ StopReporter \/ Report
  <2>1. UNCHANGED <<batch_idx, pc, result>>
    BY <1>5 DEF StopSpawning, JoinAll, StopReporter, Report, taskVars, backendVars
  <2>2. CASE StopSpawning \/ JoinAll \/ StopReporter
    BY <2>1, <2>2 DEF StopSpawning, JoinAll, StopReporter, exitVars, Accepted
  <2>3. CASE Report
    <3>1. main' = "exited" /\ exit' \in {0, 1, 101} /\ main = "awaiting_reporter"
      BY <2>3 DEF Report, Exit
    <3> QED
      BY <2>1, <3>1 DEF Accepted
  <2> QED
    BY <1>5, <2>2, <2>3
<1>6. ASSUME NEW i \in Batches, Task(i)
      PROVE  PhaseInv'
  <2>1. Continues(i) \/ Ends(i)
    BY <1>6 DEF Task, Stamp, Send, Join, CountTarget, AfterTarget, Panic, Settle, Release,
       Continues, Ends, Waiting, PCs, Targets, OpenObserve, cutVars, mainVars
  <2>2. UNCHANGED <<main, batch_idx, exit, result>>
    BY <1>6 DEF Task, Stamp, Send, Join, CountTarget, Panic, Settle, mainVars, exitVars, backendVars
  <2>3. pc[i] \notin Waiting /\ pc' \in [Batches -> PCs] /\ \A j \in Batches \ {i} : pc'[j] = pc[j]
    BY <1>0, <2>1 DEF Continues, Ends, Waiting, PCs
  <2>4. main # "exited" /\ main \notin {"joined", "awaiting_reporter"}
    BY <2>3 DEF Waiting
  <2>5. pc[0] = "done" => i # 0
    BY <2>3 DEF Waiting
  <2> QED
    BY <1>0, <2>2, <2>3, <2>4, <2>5 DEF Accepted
<1>7. ASSUME NEW i \in Batches, NEW t \in Enabled, Backend(i, t)
      PROVE  PhaseInv'
  <2>1. UNCHANGED <<main, batch_idx, exit, pc>>
    BY <1>7 DEF Backend, Land, Answer, Break, mainVars, exitVars, taskVars
  <2>2. \/ result' = result
        \/ /\ result[i][t] = "pending"
           /\ \E v \in {"ok", "err"} : result' = [result EXCEPT ![i] = [@ EXCEPT ![t] = v]]
    BY <1>7 DEF Backend, Land, Answer, Break
  <2>3. Accepted(0) => Accepted(0)'
    BY <1>0, <2>2 DEF Accepted
  <2> QED
    BY <2>1, <2>3
<1>8. CASE Tick \/ Reporter \/ Finished \/ UNCHANGED vars
  <2>1. UNCHANGED <<main, batch_idx, exit, pc, result>>
    BY <1>8 DEF Tick, Reporter, LoadSent, LoadFailed, PrintLine, Finished, vars, mainVars,
       exitVars, taskVars, backendVars
  <2> QED
    BY <2>1 DEF Accepted
<1> QED
  BY <1>1, <1>2, <1>3, <1>4, <1>5, <1>6, <1>7, <1>8 DEF Next, Main

LEMMA MainInit == Init => MainInv
<1> SUFFICES ASSUME Init PROVE MainInv
  OBVIOUS
<1>0. /\ Total \in Nat /\ BatchSize \in Nat /\ Concurrency \in Nat
      /\ U64Max \in Nat /\ MaxClock \in Nat /\ total_batches \in Nat /\ 0 < total_batches
      /\ start_record_idx(0) = 0 /\ \A i \in Batches : i \in Nat
  BY SizeAssumption, TimeAssumption, BatchStarts, BatchCount
<1> USE <1>0 DEF Init
<1>1. TypeOK
  <2>1. /\ main \in {"start", "priming", "spawning", "joining", "joined",
                     "awaiting_reporter", "exited"}
        /\ batch_idx \in 0 .. total_batches /\ remaining \in 0 .. Total
        /\ permits \in 0 .. Concurrency /\ exit \in {Unset, 0, 1, 101}
    OBVIOUS
  <2>2. pc \in [Batches -> PCs] /\ size \in [Batches -> 0 .. BatchSize]
        /\ stamp \in [Batches -> 0 .. U64Max]
    BY DEF PCs
  <2>3. /\ net \in [Batches -> [Enabled -> {"idle", "queued", "landed"}]]
        /\ result \in [Batches -> [Enabled -> {"pending", "ok", "err"}]]
        /\ stored \in [Enabled -> SUBSET Records]
        /\ created_at \in [Enabled -> {Unset} \cup 0 .. U64Max]
    OBVIOUS
  <2>4. /\ sent \in Nat /\ failed \in Nat /\ target_failed \in [Targets -> Nat]
        /\ timestamp_min \in 0 .. U64Max /\ timestamp_max \in 0 .. U64Max
        /\ clock \in 0 .. MaxClock
        /\ rpc \in {"ticking", "loaded_sent", "loaded_failed", "stopped"}
        /\ seen_sent \in Nat /\ seen_failed \in Nat /\ shown \in Nat
        /\ progress_done \in BOOLEAN
    <3>1. timestamp_min = U64Max /\ timestamp_max = 0 /\ clock = 0 /\ target_failed = [t \in Targets |-> 0]
      OBVIOUS
    <3>2. timestamp_min \in 0 .. U64Max /\ timestamp_max \in 0 .. U64Max /\ clock \in 0 .. MaxClock
      BY <3>1
    <3>3. target_failed \in [Targets -> Nat]
      BY <3>1
    <3> QED
      BY <3>2, <3>3
  <2> QED
    BY <2>1, <2>2, <2>3, <2>4 DEF TypeOK
<1>2. CutInv
  <2>1. remaining = IF batch_idx < total_batches
                    THEN Total - start_record_idx(batch_idx) ELSE 0
    OBVIOUS
  <2>2. \A i \in Batches : size[i] = 0 /\ pc[i] = "unspawned" /\ i >= batch_idx /\ ~(i < batch_idx)
    OBVIOUS
  <2> QED
    BY <2>1, <2>2 DEF CutInv
<1>3. PhaseInv
  BY DEF PhaseInv, Unset
<1>4. PermitsInv
  <2>1. InFlight \ {0} = {}
    BY DEF InFlight
  <2>2. Cardinality(InFlight \ {0}) = 0
    BY <2>1, FS_EmptySet
  <2> QED
    BY <2>2 DEF PermitsInv
<1> QED
  BY <1>1, <1>2, <1>3, <1>4 DEF MainInv

\* Where main is, how it has cut the records and what is in flight always agree.
THEOREM MainInvariant == Spec => []MainInv
<1>1. Init => MainInv
  BY MainInit
<1>2. MainInv /\ [Next]_vars => MainInv'
  BY PermitsStep, TypeStep, CutStep, PhaseStep DEF MainInv
<1> QED
  BY <1>1, <1>2, PTL DEF Spec

\* Every variable of the driver and of its backends keeps its type.
THEOREM TypeCorrect == Spec => []TypeOK
<1>1. MainInv => TypeOK
  BY DEF MainInv
<1> QED
  BY <1>1, MainInvariant, PTL

\* At most Concurrency batches of the fan-out are in flight, whatever panics;
\* and the priming batch flies alone.
THEOREM FanOutIsBounded == Spec => []FanOutBounded
<1>1. ASSUME MainInv PROVE FanOutBounded
  <2>1. ASSUME 0 \in InFlight, NEW i \in InFlight, i # 0
        PROVE  FALSE
    <3>1. batch_idx <= 1
      BY <2>1, <1>1 DEF MainInv, PhaseInv, TypeOK, InFlight
    <3>2. i \in Nat /\ i < batch_idx
      BY <2>1, <1>1, BatchStarts DEF MainInv, CutInv, TypeOK, InFlight
    <3> QED
      BY <2>1, <3>1, <3>2, <1>1 DEF MainInv, TypeOK
  <2> QED
    BY <1>1, <2>1 DEF FanOutBounded, MainInv, PermitsInv
<1> QED
  BY <1>1, MainInvariant, PTL

\* Two batches never share a record.
LEMMA BatchesDisjoint ==
  ASSUME TypeOK, CutInv, NEW i \in Batches, NEW j \in Batches, i # j
  PROVE  RecordsOf(i) \cap RecordsOf(j) = {}
<1>1. /\ i \in Nat /\ j \in Nat
      /\ start_record_idx(i) \in Nat /\ start_record_idx(j) \in Nat
      /\ i < j => start_record_idx(i) + BatchSize <= start_record_idx(j)
      /\ j < i => start_record_idx(j) + BatchSize <= start_record_idx(i)
  BY BatchStarts
<1>2. size[i] \in Nat /\ size[j] \in Nat /\ size[i] <= BatchSize /\ size[j] <= BatchSize
      /\ BatchSize \in Nat
  BY SizeAssumption DEF TypeOK
<1>3. i < j \/ j < i
  BY <1>1
<1> QED
  BY <1>1, <1>2, <1>3 DEF RecordsOf

\* Every record before the ones that remain is in a batch: the batch whose
\* index is the record's divided by BatchSize.
LEMMA BatchesCover ==
  ASSUME TypeOK, CutInv, NEW r \in 0 .. Total - remaining - 1
  PROVE  \E i \in Batches : r \in RecordsOf(i)
<1> DEFINE i == r \div BatchSize
           m == r % BatchSize
<1>0. /\ r \in Nat /\ r < Total - remaining /\ Total \in Nat /\ BatchSize \in Nat
      /\ BatchSize > 0 /\ remaining \in Nat /\ batch_idx \in Nat
      /\ total_batches \in Nat /\ batch_idx <= total_batches
  BY SizeAssumption, BatchCount DEF TypeOK
<1>1. i \in Int /\ m \in 0 .. BatchSize - 1 /\ r = BatchSize * i + m
  BY <1>0
<1> HIDE DEF i, m
<1>2. i >= 0
  <2>1. SUFFICES ASSUME i <= -1 PROVE FALSE
    BY <1>1
  <2>2. BatchSize * i <= -BatchSize
    BY <1>0, <1>1, <2>1, Z3
  <2> QED
    BY <1>0, <1>1, <2>2
<1>3. i \in Nat /\ start_record_idx(i) = BatchSize * i /\ start_record_idx(i) \in Nat
  <2>1. i * BatchSize = BatchSize * i
    BY <1>0, <1>1, Z3
  <2> QED
    BY <1>1, <1>2, <2>1, BatchStarts DEF start_record_idx
<1>4. i < batch_idx
  <2>1. SUFFICES ASSUME i >= batch_idx PROVE FALSE
    BY <1>0, <1>3
  <2>2. start_record_idx(batch_idx) \in Nat /\ start_record_idx(batch_idx) <= start_record_idx(i)
    <3>1. CASE i = batch_idx
      BY <1>3, <3>1
    <3>2. CASE i > batch_idx
      <4>1. /\ start_record_idx(batch_idx) \in Nat
            /\ start_record_idx(batch_idx) + BatchSize <= start_record_idx(i)
        BY <1>0, <1>3, <3>2, BatchStarts
      <4> QED
        BY <1>0, <1>3, <4>1
    <3> QED
      BY <1>0, <1>3, <2>1, <3>1, <3>2
  <2>3. CASE batch_idx < total_batches
    BY <1>0, <1>1, <1>3, <2>2, <2>3 DEF CutInv
  <2>4. CASE batch_idx = total_batches
    <3>1. Total <= start_record_idx(batch_idx)
      BY <2>4, BatchCount DEF start_record_idx
    <3> QED
      BY <1>0, <1>1, <1>3, <2>2, <3>1
  <2> QED
    BY <1>0, <2>3, <2>4
<1>5. i \in Batches
  BY <1>0, <1>3, <1>4 DEF Batches
<1>6. r \in RecordsOf(i)
  <2>1. size[i] = SmallerOf(Total - start_record_idx(i), BatchSize)
    BY <1>4, <1>5 DEF CutInv
  <2>2. size[i] \in Int /\ r < start_record_idx(i) + size[i]
    BY <1>0, <1>1, <1>3, <2>1 DEF SmallerOf
  <2> QED
    BY <1>0, <1>1, <1>3, <2>2 DEF RecordsOf
<1> QED
  BY <1>5, <1>6

\* What the batches have taken and what remains make up Total.
LEMMA CutOff ==
  ASSUME TypeOK, CutInv
  PROVE  /\ \A i \in Batches : i < batch_idx <=> size[i] > 0
         /\ batch_idx = total_batches <=> remaining = 0
         /\ \A i \in Batches : RecordsOf(i) \subseteq 0 .. Total - remaining - 1
<1>0. /\ Total \in Nat /\ BatchSize \in Nat /\ BatchSize > 0 /\ remaining \in Nat
      /\ batch_idx \in Nat /\ total_batches \in Nat /\ batch_idx <= total_batches
  BY SizeAssumption, BatchCount DEF TypeOK
<1>1. ASSUME NEW i \in Batches
      PROVE  /\ i \in Nat /\ start_record_idx(i) \in Nat /\ start_record_idx(i) < Total
             /\ i < batch_idx => size[i] = SmallerOf(Total - start_record_idx(i), BatchSize)
             /\ ~(i < batch_idx) => size[i] = 0
  BY BatchStarts DEF CutInv
<1>2. ASSUME NEW i \in Batches
      PROVE  i < batch_idx <=> size[i] > 0
  BY <1>0, <1>1 DEF SmallerOf
<1>3. batch_idx = total_batches <=> remaining = 0
  <2>1. CASE batch_idx < total_batches
    <3>1. batch_idx \in Batches
      BY <1>0, <2>1 DEF Batches
    <3> QED
      BY <1>0, <1>1, <2>1, <3>1 DEF CutInv
  <2>2. CASE batch_idx = total_batches
    BY <1>0, <2>2 DEF CutInv
  <2> QED
    BY <1>0, <2>1, <2>2
<1>4. ASSUME NEW i \in Batches
      PROVE  RecordsOf(i) \subseteq 0 .. Total - remaining - 1
  <2>1. CASE i < batch_idx /\ batch_idx < total_batches
    <3>1. /\ start_record_idx(batch_idx) \in Nat
          /\ start_record_idx(i) + BatchSize <= start_record_idx(batch_idx)
      BY <1>0, <1>1, <2>1, BatchStarts
    <3>2. Total - remaining = start_record_idx(batch_idx)
      BY <1>0, <2>1, <3>1 DEF CutInv
    <3>3. size[i] \in Nat /\ size[i] <= BatchSize
      BY <1>0 DEF TypeOK
    <3> QED
      BY <1>0, <1>1, <3>1, <3>2, <3>3 DEF RecordsOf
  <2>2. CASE i < batch_idx /\ batch_idx = total_batches
    <3>1. remaining = 0
      BY <1>3, <2>2
    <3> QED
      BY <1>0, <3>1, StartedBatch DEF Records
  <2>3. CASE ~(i < batch_idx)
    BY <1>0, <1>1, <2>3 DEF RecordsOf
  <2> QED
    BY <1>0, <2>1, <2>2, <2>3
<1> QED
  BY <1>2, <1>3, <1>4

\* The batches started so far cut the first records off without gap or overlap,
\* for every Total and BatchSize.
THEOREM BatchesArePartition == Spec => []BatchesPartition
<1>1. ASSUME MainInv PROVE BatchesPartition
  <2>1. TypeOK /\ CutInv
    BY <1>1 DEF MainInv
  <2>2. RecordsOfAll(Batches) = 0 .. Total - remaining - 1
    BY <2>1, BatchesCover, CutOff DEF RecordsOfAll
  <2>3. \A i, j \in Batches : i # j => RecordsOf(i) \cap RecordsOf(j) = {}
    BY <2>1, BatchesDisjoint
  <2> QED
    BY <2>1, <2>2, <2>3, CutOff DEF BatchesPartition
<1> QED
  BY <1>1, MainInvariant, PTL

-----------------------------------------------------------------------------
(* Requests and rows *)

Unsent == {"unspawned", "spawned", "generating"}

\* A request is on its way, stored or answered in step with its batch, and a
\* stored row belongs to a request that has landed.
WireInv ==
  /\ \A i \in Batches, t \in Enabled :
       /\ net[i][t] = "idle" <=> pc[i] \in Unsent
       /\ net[i][t] = "idle" => result[i][t] = "pending"
       /\ pc[i] \in Targets \cup {"settling", "done", "panicked"} => result[i][t] # "pending"
       /\ result[i][t] = "ok" => RecordsOf(i) \subseteq stored[t]
  /\ \A t \in Enabled : \A r \in stored[t] :
       \E i \in Batches : r \in RecordsOf(i) /\ net[i][t] = "landed"

\* A row of a batch is stored by a backend only after that request landed there.
LEMMA KeptIsLanded ==
  ASSUME TypeOK, CutInv, WireInv, NEW i \in Batches, NEW t \in Enabled,
         Kept(i, t) # {}
  PROVE  net[i][t] = "landed"
<1>1. PICK r \in RecordsOf(i) : r \in stored[t]
  BY DEF Kept
<1>2. PICK j \in Batches : r \in RecordsOf(j) /\ net[j][t] = "landed"
  BY <1>1 DEF WireInv
<1>3. i = j
  BY <1>1, <1>2, BatchesDisjoint
<1> QED
  BY <1>2, <1>3

\* A batch has as many records as its size says.
LEMMA BatchSizeIs ==
  ASSUME TypeOK, CutInv, NEW i \in Batches
  PROVE  IsFiniteSet(RecordsOf(i)) /\ Cardinality(RecordsOf(i)) = size[i] /\ size[i] \in Nat
<1> DEFINE a == start_record_idx(i)
           b == start_record_idx(i) + size[i] - 1
<1>0. start_record_idx(i) \in Nat /\ size[i] \in Nat
  BY StartedBatch, BatchStarts
<1>1. a \in Int /\ b \in Int /\ RecordsOf(i) = a .. b
      /\ (IF a > b THEN 0 ELSE b - a + 1) = size[i]
  BY <1>0 DEF RecordsOf
<1> HIDE DEF a, b
<1>2. IsFiniteSet(a .. b) /\ Cardinality(a .. b) = IF a > b THEN 0 ELSE b - a + 1
  BY <1>1, FS_Interval
<1> QED
  BY <1>0, <1>1, <1>2

\* main starts a batch that no task has.
LEMMA BatchStart ==
  ASSUME MainInv, StartPriming \/ SpawnNext
  PROVE  \E i \in Batches : pc[i] = "unspawned" /\ pc' = [pc EXCEPT ![i] = "spawned"]
<1> USE DEF MainInv
<1>1. CASE StartPriming
  <2>1. 0 \in Batches /\ pc[0] = "unspawned" /\ pc' = [pc EXCEPT ![0] = "spawned"]
    BY <1>1, BatchStarts DEF StartPriming, StartBatch, PhaseInv, CutInv
  <2> QED
    BY <2>1
<1>2. CASE SpawnNext
  <2>1. batch_idx \in Batches /\ pc[batch_idx] = "unspawned"
        /\ pc' = [pc EXCEPT ![batch_idx] = "spawned"]
    BY <1>2, BatchCount DEF SpawnNext, StartBatch, CutInv, TypeOK, Batches
  <2> QED
    BY <2>1
<1> QED
  BY <1>1, <1>2

\* A backend that accepts a request has stored all of its rows: the row counts
\* of an OpenObserve reply can only match when nothing is missing.
LEMMA AcceptsMeansStored ==
  ASSUME TypeOK, CutInv, NEW i \in Batches, NEW t \in Enabled, Accepts(i, t)
  PROVE  RecordsOf(i) \subseteq stored[t]
<1>1. CASE t \in OpenObserve
  <2>2. IsFiniteSet(RecordsOf(i)) /\ Cardinality(RecordsOf(i)) = size[i]
    BY BatchSizeIs
  <2>3. Kept(i, t) \in SUBSET RecordsOf(i)
    BY DEF Kept
  <2>4. Cardinality(Kept(i, t)) = size[i]
    BY <1>1 DEF Accepts, validate_o2_ingest_body
  <2>5. Kept(i, t) = RecordsOf(i)
    BY <2>2, <2>3, <2>4, FS_Subset
  <2> QED
    BY <2>5 DEF Kept
<1>2. CASE t \notin OpenObserve
  BY <1>2 DEF Accepts, Kept
<1> QED
  BY <1>1, <1>2

\* A batch that has started keeps its records.
LEMMA RecordsStay ==
  ASSUME MainInv, [Next]_vars, NEW i \in Batches, pc[i] # "unspawned"
  PROVE  RecordsOf(i)' = RecordsOf(i) /\ size'[i] = size[i]
<1>1. size'[i] = size[i]
  <2>1. ASSUME NEW j \in Batches, Starts(j)
        PROVE  size'[i] = size[i]
    BY <2>1 DEF Starts, StartBatch, MainInv, TypeOK
  <2>2. ASSUME NEW j \in Batches, Continues(j) \/ Ends(j)
        PROVE  size'[i] = size[i]
    BY <2>2 DEF Continues, Ends, cutVars
  <2> QED
    BY <2>1, <2>2, FlightSteps DEF cutVars
<1> QED
  BY <1>1 DEF RecordsOf, start_record_idx

LEMMA WireStep ==
  ASSUME MainInv, WireInv, [Next]_vars
  PROVE  WireInv'
<1> USE DEF MainInv, Unsent
<1>0. /\ pc \in [Batches -> PCs]
      /\ net \in [Batches -> [Enabled -> {"idle", "queued", "landed"}]]
      /\ result \in [Batches -> [Enabled -> {"pending", "ok", "err"}]]
      /\ stored \in [Enabled -> SUBSET Records]
  BY DEF TypeOK
\* The steps that touch neither a request nor what is stored.
<1>1. ASSUME UNCHANGED <<net, result, stored>>,
             \A i \in Batches :
               /\ pc'[i] \in Unsent <=> pc[i] \in Unsent
               /\ pc'[i] = pc[i] \/ pc'[i] \in Unsent \/ \A t \in Enabled : result[i][t] # "pending"
      PROVE  WireInv'
  <2>1. ASSUME NEW i \in Batches, NEW t \in Enabled, net[i][t] # "idle"
        PROVE  RecordsOf(i)' = RecordsOf(i)
    BY <2>1, RecordsStay DEF WireInv
  <2>2. ASSUME NEW i \in Batches, NEW t \in Enabled
        PROVE  /\ net'[i][t] = "idle" <=> pc'[i] \in Unsent
               /\ net'[i][t] = "idle" => result'[i][t] = "pending"
               /\ pc'[i] \in Targets \cup {"settling", "done", "panicked"} => result'[i][t] # "pending"
               /\ result'[i][t] = "ok" => RecordsOf(i)' \subseteq stored'[t]
    BY <1>1, <2>1, <2>2 DEF WireInv, Unsent, Targets, OpenObserve
  <2>3. ASSUME NEW t \in Enabled, NEW r \in stored'[t]
        PROVE  \E i \in Batches : r \in RecordsOf(i)' /\ net'[i][t] = "landed"
    BY <1>1, <2>1, <2>3 DEF WireInv
  <2> QED
    BY <2>2, <2>3 DEF WireInv
<1>2. CASE StartPriming \/ SpawnNext
  <2>1. PICK i \in Batches : pc[i] = "unspawned" /\ pc' = [pc EXCEPT ![i] = "spawned"]
    BY <1>2, BatchStart
  <2>2. UNCHANGED <<net, result, stored>>
    BY <1>2 DEF StartPriming, SpawnNext, backendVars
  <2> QED
    BY <1>0, <1>1, <2>1, <2>2
<1>3. CASE FinishPriming \/ PrimingPanics \/ StopSpawning \/ JoinAll \/ StopReporter \/ Report
           \/ Tick \/ Reporter \/ Finished \/ UNCHANGED vars
  <2>1. UNCHANGED <<net, result, stored, pc>>
    BY <1>3 DEF FinishPriming, PrimingPanics, StopSpawning, JoinAll, StopReporter, Report,
       Tick, Reporter, LoadSent, LoadFailed, PrintLine, Finished, vars, taskVars, backendVars
  <2> QED
    BY <1>1, <2>1
<1>4. ASSUME NEW i \in Batches, Stamp(i)
      PROVE  WireInv'
  BY <1>0, <1>1, <1>4 DEF Stamp, backendVars
<1>5. ASSUME NEW i \in Batches, Send(i)
      PROVE  WireInv'
  <2>1. /\ pc[i] = "generating" /\ pc' = [pc EXCEPT ![i] = "sending"]
        /\ net' = [net EXCEPT ![i] = [t \in Enabled |-> "queued"]]
        /\ UNCHANGED <<result, stored>>
        /\ \A j \in Batches : RecordsOf(j)' = RecordsOf(j)
    BY <1>5 DEF Send, RecordsOf, start_record_idx
  <2>2. \A t \in Enabled : net[i][t] = "idle" /\ result[i][t] = "pending"
    BY <2>1 DEF WireInv
  <2> QED
    BY <1>0, <2>1, <2>2 DEF WireInv, Unsent, Targets, OpenObserve
<1>6. ASSUME NEW i \in Batches, Join(i)
      PROVE  WireInv'
  BY <1>0, <1>1, <1>6 DEF Join, Answered, backendVars
<1>7. ASSUME NEW i \in Batches, NEW t \in Targets, CountTarget(i, t) \/ Panic(i, t)
      PROVE  WireInv'
  <2>1. /\ pc[i] \in Targets /\ UNCHANGED <<net, result, stored>>
        /\ \E p \in Targets \cup {"settling", "panicked"} : pc' = [pc EXCEPT ![i] = p]
    BY <1>7 DEF CountTarget, Panic, AfterTarget, backendVars, Targets, OpenObserve
  <2>2. \A u \in Enabled : result[i][u] # "pending"
    BY <2>1 DEF WireInv
  <2> QED
    BY <1>0, <1>1, <2>1, <2>2 DEF Targets, OpenObserve
<1>8. ASSUME NEW i \in Batches, Settle(i)
      PROVE  WireInv'
  <2>1. /\ pc[i] = "settling" /\ UNCHANGED <<net, result, stored>>
        /\ pc' = [pc EXCEPT ![i] = "done"]
    BY <1>8 DEF Settle, backendVars
  <2>2. \A u \in Enabled : result[i][u] # "pending"
    BY <2>1 DEF WireInv
  <2> QED
    BY <1>0, <1>1, <2>1, <2>2
<1>9. ASSUME NEW i \in Batches, NEW t \in Enabled, Land(i, t)
      PROVE  WireInv'
  <2>1. PICK kept \in Keepable(i, t) : stored' = [stored EXCEPT ![t] = @ \cup kept]
    BY <1>9 DEF Land
  <2>2. /\ kept \subseteq RecordsOf(i)
        /\ net[i][t] = "queued" /\ net' = [net EXCEPT ![i] = [@ EXCEPT ![t] = "landed"]]
        /\ UNCHANGED <<result, pc>>
        /\ \A j \in Batches : RecordsOf(j)' = RecordsOf(j)
    BY <1>9, <2>1 DEF Land, Keepable, taskVars, RecordsOf, start_record_idx
  <2>3. \A j \in Batches, u \in Enabled :
          net'[j][u] = IF j = i /\ u = t THEN "landed" ELSE net[j][u]
    BY <1>0, <2>2
  <2>4. \A u \in Enabled : stored[u] \subseteq stored'[u]
    BY <1>0, <2>1
  <2>5. ASSUME NEW u \in Enabled, NEW r \in stored'[u]
        PROVE  \E j \in Batches : r \in RecordsOf(j)' /\ net'[j][u] = "landed"
    <3>1. CASE r \in stored[u]
      BY <2>2, <2>3, <3>1 DEF WireInv
    <3>2. CASE r \notin stored[u]
      <4>1. u = t /\ r \in kept
        BY <1>0, <2>1, <2>5, <3>2
      <4> QED
        BY <2>2, <2>3, <4>1
    <3> QED
      BY <3>1, <3>2
  <2>6. ASSUME NEW j \in Batches, NEW u \in Enabled
        PROVE  /\ net'[j][u] = "idle" <=> pc'[j] \in Unsent
               /\ net'[j][u] = "idle" => result'[j][u] = "pending"
               /\ pc'[j] \in Targets \cup {"settling", "done", "panicked"} => result'[j][u] # "pending"
               /\ result'[j][u] = "ok" => RecordsOf(j)' \subseteq stored'[u]
    BY <2>2, <2>3, <2>4, <2>6 DEF WireInv
  <2> QED
    BY <2>5, <2>6 DEF WireInv
<1>10. ASSUME NEW i \in Batches, NEW t \in Enabled, Answer(i, t) \/ Break(i, t)
       PROVE  WireInv'
  <2>1. PICK v \in {"ok", "err"} : /\ result' = [result EXCEPT ![i] = [@ EXCEPT ![t] = v]]
                                   /\ v = "ok" => Accepts(i, t)
    BY <1>10 DEF Answer, Break
  <2>2. /\ net[i][t] # "idle" /\ UNCHANGED <<net, stored, pc>>
        /\ \A j \in Batches : RecordsOf(j)' = RecordsOf(j)
    BY <1>10 DEF Answer, Break, taskVars, RecordsOf, start_record_idx
  <2>3. v = "ok" => RecordsOf(i) \subseteq stored[t]
    BY <2>1, AcceptsMeansStored
  <2>4. \A j \in Batches, u \in Enabled :
          result'[j][u] = IF j = i /\ u = t THEN v ELSE result[j][u]
    BY <1>0, <2>1
  <2>5. ASSUME NEW j \in Batches, NEW u \in Enabled
        PROVE  /\ net'[j][u] = "idle" <=> pc'[j] \in Unsent
               /\ net'[j][u] = "idle" => result'[j][u] = "pending"
               /\ pc'[j] \in Targets \cup {"settling", "done", "panicked"} => result'[j][u] # "pending"
               /\ result'[j][u] = "ok" => RecordsOf(j)' \subseteq stored'[u]
    BY <2>1, <2>2, <2>3, <2>4, <2>5 DEF WireInv
  <2> QED
    BY <2>2, <2>5 DEF WireInv
<1> QED
  BY <1>2, <1>3, <1>4, <1>5, <1>6, <1>7, <1>8, <1>9, <1>10 DEF Next, Main, Task, Backend

DeliveryInv == MainInv /\ WireInv

\* Rows are stored only by requests that were sent, and a request is accepted
\* only once its rows are stored, in whatever order answers and rows arrive.
THEOREM DeliveryInvariant == Spec => []DeliveryInv
<1>1. Init => WireInv
  <2>1. SUFFICES ASSUME Init PROVE WireInv
    OBVIOUS
  <2>2. ASSUME NEW i \in Batches, NEW t \in Enabled
        PROVE  net[i][t] = "idle" /\ result[i][t] = "pending" /\ pc[i] = "unspawned"
    BY <2>1 DEF Init
  <2>3. \A t \in Enabled : stored[t] = {}
    BY <2>1 DEF Init
  <2> QED
    BY <2>2, <2>3 DEF WireInv, Unsent, Targets, OpenObserve
<1>2. DeliveryInv /\ [Next]_vars => WireInv'
  BY WireStep DEF DeliveryInv
<1> QED
  BY <1>1, <1>2, MainInvariant, PTL DEF Spec, DeliveryInv

\* No backend has seen a request of the fan-out unless every backend holds all
\* of batch 0, however requests and replies are lost or delayed.
THEOREM PrimingComesFirst == Spec => []PrimedFirst
<1>1. ASSUME DeliveryInv PROVE PrimedFirst
  <2> USE <1>1 DEF DeliveryInv, MainInv
  <2>1. ASSUME NEW i \in Batches \ {0}, NEW t \in Enabled, net[i][t] # "idle" \/ Kept(i, t) # {}
        PROVE  \A u \in Enabled : RecordsOf(0) \subseteq stored[u]
    <3>1. net[i][t] # "idle"
      BY <2>1, KeptIsLanded
    <3>2. pc[i] # "unspawned"
      BY <3>1 DEF WireInv, Unsent
    <3>3. i < batch_idx /\ i \in Nat /\ i # 0 /\ batch_idx \in Nat
      BY <3>2, BatchStarts, BatchCount DEF CutInv, TypeOK
    <3>4. Accepted(0) /\ 0 \in Batches
      BY <3>3, BatchStarts DEF PhaseInv
    <3> QED
      BY <3>4 DEF WireInv, Accepted
  <2> QED
    BY <2>1 DEF PrimedFirst
<1> QED
  BY <1>1, DeliveryInvariant, PTL

-----------------------------------------------------------------------------
(* Counters *)

\* The records of a run are finitely many.
LEMMA FiniteRecords == IsFiniteSet(Records)
<1>1. 0 \in Int /\ Total - 1 \in Int
  BY SizeAssumption
<1> QED
  BY <1>1, FS_Interval DEF Records

CountersInv ==
  /\ sent = Cardinality(RecordsOfAll(AcceptedBatches))
  /\ failed = Cardinality(RecordsOfAll(FailedBatches))

\* The records of some batches are finitely many, and one more batch adds as
\* many records as it has.
LEMMA AddBatch ==
  ASSUME TypeOK, CutInv, NEW S \in SUBSET Batches, NEW i \in Batches \ S
  PROVE  /\ IsFiniteSet(RecordsOfAll(S)) /\ RecordsOfAll(S) \subseteq Records
         /\ Cardinality(RecordsOfAll(S)) \in Nat
         /\ Cardinality(RecordsOfAll(S \cup {i})) = Cardinality(RecordsOfAll(S)) + size[i]
<1>1. RecordsOfAll(S) \subseteq Records
  BY StartedBatch DEF RecordsOfAll
<1>2. IsFiniteSet(Records)
  BY FiniteRecords
<1>3. IsFiniteSet(RecordsOfAll(S)) /\ Cardinality(RecordsOfAll(S)) \in Nat
  <2>1. IsFiniteSet(RecordsOfAll(S))
    BY <1>1, <1>2, FS_Subset
  <2> QED
    BY <2>1, FS_CardinalityType
<1>4. IsFiniteSet(RecordsOf(i)) /\ Cardinality(RecordsOf(i)) = size[i] /\ size[i] \in Nat
  BY BatchSizeIs
<1>5. RecordsOfAll(S) \cap RecordsOf(i) = {}
  BY BatchesDisjoint DEF RecordsOfAll
<1>6. RecordsOfAll(S \cup {i}) = RecordsOfAll(S) \cup RecordsOf(i)
  BY DEF RecordsOfAll
<1>7. Cardinality(RecordsOfAll(S) \cap RecordsOf(i)) = 0
  BY <1>5, FS_EmptySet
<1>8. Cardinality(RecordsOfAll(S) \cup RecordsOf(i)) =
        Cardinality(RecordsOfAll(S)) + Cardinality(RecordsOf(i))
        - Cardinality(RecordsOfAll(S) \cap RecordsOf(i))
  BY <1>3, <1>4, FS_Union
<1>9. Cardinality(RecordsOfAll(S \cup {i})) = Cardinality(RecordsOfAll(S)) + size[i] - 0
  BY <1>4, <1>6, <1>7, <1>8
<1> HIDE DEF RecordsOfAll
<1>10. Cardinality(RecordsOfAll(S \cup {i})) = Cardinality(RecordsOfAll(S)) + size[i]
  BY <1>3, <1>4, <1>9
<1> QED
  BY <1>1, <1>3, <1>10

\* Only Settle moves a counter, and it moves one batch to one side.
LEMMA Sides ==
  ASSUME DeliveryInv, [Next]_vars
  PROVE  \/ /\ AcceptedBatches' = AcceptedBatches /\ FailedBatches' = FailedBatches
            /\ UNCHANGED <<sent, failed>>
         \/ \E i \in Batches :
              /\ i \notin AcceptedBatches \cup FailedBatches /\ pc[i] # "unspawned"
              /\ \/ /\ AcceptedBatches' = AcceptedBatches \cup {i} /\ FailedBatches' = FailedBatches
                    /\ sent' = sent + size[i] /\ failed' = failed
                 \/ /\ AcceptedBatches' = AcceptedBatches /\ FailedBatches' = FailedBatches \cup {i}
                    /\ sent' = sent /\ failed' = failed + size[i]
<1> USE DEF DeliveryInv, MainInv, AcceptedBatches, FailedBatches
<1>0. /\ pc \in [Batches -> PCs]
      /\ result \in [Batches -> [Enabled -> {"pending", "ok", "err"}]]
  BY DEF TypeOK
<1>1. ASSUME UNCHANGED <<sent, failed, result>>,
             \A i \in Batches : pc'[i] = "done" <=> pc[i] = "done"
      PROVE  /\ AcceptedBatches' = AcceptedBatches /\ FailedBatches' = FailedBatches
             /\ UNCHANGED <<sent, failed>>
  BY <1>1 DEF Accepted
<1>2. CASE Main \/ Tick \/ Reporter \/ Finished \/ UNCHANGED vars
  <2>1. UNCHANGED <<sent, failed, result>>
    BY <1>2 DEF Main, StartPriming, SpawnNext, FinishPriming, PrimingPanics, StopSpawning, JoinAll,
       StopReporter, Report, Tick, Reporter, LoadSent, LoadFailed, PrintLine, Finished, vars,
       backendVars, counterVars, runCounters
  <2>2. ASSUME NEW i \in Batches
        PROVE  pc'[i] = "done" <=> pc[i] = "done"
    <3>1. CASE StartPriming \/ SpawnNext
      <4>1. PICK j \in Batches : pc[j] = "unspawned" /\ pc' = [pc EXCEPT ![j] = "spawned"]
        BY <3>1, BatchStart
      <4> QED
        BY <1>0, <4>1
    <3>2. CASE ~(StartPriming \/ SpawnNext)
      <4>1. pc' = pc
        BY <1>2, <3>2 DEF Main, FinishPriming, PrimingPanics, StopSpawning, JoinAll, StopReporter,
           Report, Tick, Reporter, LoadSent, LoadFailed, PrintLine, Finished, vars, taskVars
      <4> QED
        BY <4>1
    <3> QED
      BY <3>1, <3>2
  <2> QED
    BY <1>1, <2>1, <2>2
<1>3. ASSUME NEW i \in Batches, Stamp(i) \/ Send(i) \/ Join(i) \/
             \E t \in Targets : CountTarget(i, t) \/ Panic(i, t)
      PROVE  /\ AcceptedBatches' = AcceptedBatches /\ FailedBatches' = FailedBatches
             /\ UNCHANGED <<sent, failed>>
  <2>1. UNCHANGED <<sent, failed, result>>
    BY <1>3 DEF Stamp, Send, Join, CountTarget, Panic, backendVars, counterVars, runCounters
  <2>2. PICK p \in PCs \ {"done"} : pc' = [pc EXCEPT ![i] = p] /\ pc[i] # "done"
    BY <1>3 DEF Stamp, Send, Join, CountTarget, Panic, AfterTarget, PCs, Targets, OpenObserve
  <2> QED
    BY <1>0, <1>1, <2>1, <2>2
<1>4. ASSUME NEW i \in Batches, Settle(i)
      PROVE  /\ i \notin AcceptedBatches \cup FailedBatches /\ pc[i] # "unspawned"
             /\ \/ /\ AcceptedBatches' = AcceptedBatches \cup {i} /\ FailedBatches' = FailedBatches
                   /\ sent' = sent + size[i] /\ failed' = failed
                \/ /\ AcceptedBatches' = AcceptedBatches /\ FailedBatches' = FailedBatches \cup {i}
                   /\ sent' = sent /\ failed' = failed + size[i]
  <2>1. /\ pc[i] = "settling" /\ pc' = [pc EXCEPT ![i] = "done"] /\ result' = result
    BY <1>4 DEF Settle, backendVars
  <2>2. \A j \in Batches : Accepted(j)' <=> Accepted(j)
    BY <2>1 DEF Accepted
  <2>3. \A j \in Batches : pc'[j] = "done" <=> j = i \/ pc[j] = "done"
    BY <1>0, <2>1
  <2>4. CASE Accepted(i)
    BY <1>4, <2>1, <2>2, <2>3, <2>4 DEF Settle
  <2>5. CASE ~Accepted(i)
    BY <1>4, <2>1, <2>2, <2>3, <2>5 DEF Settle
  <2> QED
    BY <2>4, <2>5
<1>5. ASSUME NEW i \in Batches, NEW t \in Enabled, Backend(i, t)
      PROVE  /\ AcceptedBatches' = AcceptedBatches /\ FailedBatches' = FailedBatches
             /\ UNCHANGED <<sent, failed>>
  <2>1. UNCHANGED <<pc, sent, failed>>
    BY <1>5 DEF Backend, Land, Answer, Break, taskVars, counterVars, runCounters
  <2>2. \/ result' = result
        \/ /\ result[i][t] = "pending"
           /\ \E v \in {"ok", "err"} : result' = [result EXCEPT ![i] = [@ EXCEPT ![t] = v]]
    BY <1>5 DEF Backend, Land, Answer, Break
  <2>3. ASSUME NEW j \in Batches, pc[j] = "done"
        PROVE  Accepted(j)' <=> Accepted(j)
    BY <1>0, <2>2, <2>3 DEF WireInv, Accepted
  <2> QED
    BY <2>1, <2>3
<1> QED
  BY <1>2, <1>3, <1>4, <1>5 DEF Next, Task

CountingInv == DeliveryInv /\ CountersInv

\* sent and failed are the numbers of records of the batches on each side.
THEOREM CountingInvariant == Spec => []CountingInv
<1>1. Init => CountersInv
  <2>1. SUFFICES ASSUME Init PROVE CountersInv
    OBVIOUS
  <2>2. AcceptedBatches = {} /\ FailedBatches = {} /\ sent = 0 /\ failed = 0
    BY <2>1 DEF Init, AcceptedBatches, FailedBatches
  <2>3. RecordsOfAll({}) = {}
    BY DEF RecordsOfAll
  <2> QED
    BY <2>2, <2>3, FS_EmptySet DEF CountersInv
<1>2. ASSUME CountingInv, DeliveryInv', [Next]_vars
      PROVE  CountersInv'
  <2> USE DEF CountingInv, DeliveryInv, MainInv
  <2>1. \A S \in SUBSET (AcceptedBatches \cup FailedBatches) :
          UNION {RecordsOf(i)' : i \in S} = RecordsOfAll(S)
    <3>1. ASSUME NEW i \in AcceptedBatches \cup FailedBatches
          PROVE  RecordsOf(i)' = RecordsOf(i)
      BY <1>2, <3>1, RecordsStay DEF AcceptedBatches, FailedBatches
    <3> QED
      BY <3>1 DEF RecordsOfAll
  <2>2. CASE /\ AcceptedBatches' = AcceptedBatches /\ FailedBatches' = FailedBatches
             /\ UNCHANGED <<sent, failed>>
    <3>1. RecordsOfAll(AcceptedBatches)' = RecordsOfAll(AcceptedBatches)
      BY <2>1, <2>2 DEF RecordsOfAll
    <3>2. RecordsOfAll(FailedBatches)' = RecordsOfAll(FailedBatches)
      BY <2>1, <2>2 DEF RecordsOfAll
    <3> QED
      BY <1>2, <2>2, <3>1, <3>2 DEF CountersInv
  <2>3. ASSUME NEW i \in Batches, i \notin AcceptedBatches \cup FailedBatches,
               pc[i] # "unspawned",
               \/ /\ AcceptedBatches' = AcceptedBatches \cup {i} /\ FailedBatches' = FailedBatches
                  /\ sent' = sent + size[i] /\ failed' = failed
               \/ /\ AcceptedBatches' = AcceptedBatches /\ FailedBatches' = FailedBatches \cup {i}
                  /\ sent' = sent /\ failed' = failed + size[i]
        PROVE  CountersInv'
    <3>1. RecordsOf(i)' = RecordsOf(i)
      BY <1>2, <2>3, RecordsStay
    <3>2. \A S \in SUBSET (AcceptedBatches \cup FailedBatches) :
            /\ UNION {RecordsOf(j)' : j \in S} = RecordsOfAll(S)
            /\ UNION {RecordsOf(j)' : j \in S \cup {i}} = RecordsOfAll(S \cup {i})
      BY <2>1, <3>1 DEF RecordsOfAll
    <3>3. RecordsOfAll(AcceptedBatches)' = UNION {RecordsOf(j)' : j \in AcceptedBatches'}
          /\ RecordsOfAll(FailedBatches)' = UNION {RecordsOf(j)' : j \in FailedBatches'}
      BY DEF RecordsOfAll
    <3>4. /\ AcceptedBatches \in SUBSET Batches /\ FailedBatches \in SUBSET Batches
          /\ i \in Batches \ AcceptedBatches /\ i \in Batches \ FailedBatches
      BY <2>3 DEF AcceptedBatches, FailedBatches
    <3>5. /\ Cardinality(RecordsOfAll(AcceptedBatches \cup {i})) =
               Cardinality(RecordsOfAll(AcceptedBatches)) + size[i]
          /\ Cardinality(RecordsOfAll(FailedBatches \cup {i})) =
               Cardinality(RecordsOfAll(FailedBatches)) + size[i]
      BY <1>2, <3>4, AddBatch
    <3> HIDE DEF RecordsOfAll, AcceptedBatches, FailedBatches
    <3>6. CASE AcceptedBatches' = AcceptedBatches \cup {i} /\ FailedBatches' = FailedBatches
               /\ sent' = sent + size[i] /\ failed' = failed
      <4>1. RecordsOfAll(AcceptedBatches)' = RecordsOfAll(AcceptedBatches \cup {i})
            /\ RecordsOfAll(FailedBatches)' = RecordsOfAll(FailedBatches)
        BY <3>2, <3>3, <3>6
      <4> QED
        BY <1>2, <3>5, <3>6, <4>1 DEF CountersInv
    <3>7. CASE AcceptedBatches' = AcceptedBatches /\ FailedBatches' = FailedBatches \cup {i}
               /\ sent' = sent /\ failed' = failed + size[i]
      <4>1. RecordsOfAll(FailedBatches)' = RecordsOfAll(FailedBatches \cup {i})
            /\ RecordsOfAll(AcceptedBatches)' = RecordsOfAll(AcceptedBatches)
        BY <3>2, <3>3, <3>7
      <4> QED
        BY <1>2, <3>5, <3>7, <4>1 DEF CountersInv
    <3> QED
      BY <2>3, <3>6, <3>7
  <2> QED
    BY <1>2, <2>2, <2>3, Sides
<1> QED
  BY <1>1, <1>2, DeliveryInvariant, PTL DEF Spec, CountingInv

\* A record counted as sent is stored by every enabled backend, and at least
\* `sent` records are.
THEOREM SentRecordsAreStored == Spec => []SentIsStored
<1>1. ASSUME CountingInv PROVE SentIsStored
  <2> USE <1>1 DEF CountingInv, DeliveryInv, MainInv
  <2>1. ASSUME NEW i \in AcceptedBatches, NEW t \in Enabled
        PROVE  RecordsOf(i) \subseteq stored[t]
    BY DEF AcceptedBatches, Accepted, WireInv
  <2> DEFINE held == {r \in Records : \A t \in Enabled : r \in stored[t]}
  <2>2. RecordsOfAll(AcceptedBatches) \in SUBSET held
    BY <2>1, StartedBatch DEF RecordsOfAll, AcceptedBatches
  <2>3. IsFiniteSet(held)
    <3>1. IsFiniteSet(Records)
      BY FiniteRecords
    <3>2. held \in SUBSET Records
      OBVIOUS
    <3> QED
      BY <3>1, <3>2, FS_Subset
  <2>4. Cardinality(RecordsOfAll(AcceptedBatches)) <= Cardinality(held)
    BY <2>2, <2>3, FS_Subset
  <2> QED
    BY <2>1, <2>4 DEF SentIsStored, CountersInv
<1> QED
  BY <1>1, CountingInvariant, PTL

-----------------------------------------------------------------------------
(* The progress reporter and the exit status *)

\* Settled batches of the two sides share no record, so the counters stay
\* within Total.
LEMMA CountersFit ==
  ASSUME CountingInv
  PROVE  sent \in Nat /\ failed \in Nat /\ Total \in Nat /\ sent + failed <= Total
<1> USE DEF CountingInv, DeliveryInv, MainInv
<1> DEFINE A == RecordsOfAll(AcceptedBatches)
           F == RecordsOfAll(FailedBatches)
<1>1. Total \in Nat /\ IsFiniteSet(Records) /\ Cardinality(Records) = Total
  <2> DEFINE b == Total - 1
  <2>1. 0 \in Int /\ b \in Int /\ ~(0 > b) /\ b - 0 + 1 = Total /\ Total \in Nat /\ Records = 0 .. b
    BY SizeAssumption DEF Records
  <2> HIDE DEF b
  <2>2. IsFiniteSet(0 .. b) /\ Cardinality(0 .. b) = IF 0 > b THEN 0 ELSE b - 0 + 1
    BY <2>1, FS_Interval
  <2> QED
    BY <2>1, <2>2
<1>2. A \subseteq Records /\ F \subseteq Records
  BY StartedBatch DEF RecordsOfAll, AcceptedBatches, FailedBatches
<1>3. A \cap F = {}
  <2>1. AcceptedBatches \subseteq Batches /\ FailedBatches \subseteq Batches
        /\ AcceptedBatches \cap FailedBatches = {}
    BY DEF AcceptedBatches, FailedBatches
  <2>2. \A i \in AcceptedBatches, j \in FailedBatches : RecordsOf(i) \cap RecordsOf(j) = {}
    BY <2>1, BatchesDisjoint
  <2> QED
    BY <2>2 DEF RecordsOfAll
<1> HIDE DEF A, F
<1>4. IsFiniteSet(A) /\ IsFiniteSet(F) /\ IsFiniteSet(A \cup F) /\ A \cup F \in SUBSET Records
  BY <1>1, <1>2, FS_Subset
<1>5. Cardinality(A) \in Nat /\ Cardinality(F) \in Nat /\ Cardinality(A \cup F) \in Nat
  BY <1>4, FS_CardinalityType
<1>6. Cardinality(A \cap F) = 0
  BY <1>3, FS_EmptySet
<1>7. Cardinality(A \cup F) = Cardinality(A) + Cardinality(F) - Cardinality(A \cap F)
  BY <1>4, FS_Union
<1>8. Cardinality(A \cup F) <= Total
  BY <1>1, <1>4, FS_Subset
<1>9. sent = Cardinality(A) /\ failed = Cardinality(F)
  BY DEF CountersInv, A, F
<1> QED
  BY <1>1, <1>5, <1>6, <1>7, <1>8, <1>9

\* What the reporter has loaded is never ahead of the counters, and what it has
\* printed is never ahead of what it has loaded since.
ReporterInv ==
  /\ seen_sent <= sent
  /\ rpc # "loaded_sent" => seen_sent + seen_failed <= sent + failed
  /\ rpc = "loaded_sent" => shown <= seen_sent + failed
  /\ rpc = "loaded_failed" => shown <= seen_sent + seen_failed
  /\ shown <= sent + failed /\ shown <= Total

ReportingInv == CountingInv /\ ReporterInv

\* The counters only grow.
LEMMA CountersGrow ==
  ASSUME DeliveryInv, [Next]_vars
  PROVE  sent' \in Nat /\ failed' \in Nat /\ sent <= sent' /\ failed <= failed'
<1> USE DEF DeliveryInv, MainInv
<1>1. sent \in Nat /\ failed \in Nat /\ \A i \in Batches : size[i] \in Nat
  BY StartedBatch DEF TypeOK
<1> QED
  BY <1>1, Sides

LEMMA ReporterStep ==
  ASSUME ReportingInv, [Next]_vars
  PROVE  ReporterInv' /\ shown <= shown'
<1> USE DEF ReportingInv, CountingInv, DeliveryInv, MainInv
<1>0. /\ sent \in Nat /\ failed \in Nat /\ Total \in Nat /\ sent + failed <= Total
      /\ sent' \in Nat /\ failed' \in Nat /\ sent <= sent' /\ failed <= failed'
      /\ seen_sent \in Nat /\ seen_failed \in Nat /\ shown \in Nat
      /\ rpc \in {"ticking", "loaded_sent", "loaded_failed", "stopped"}
  BY CountersFit, CountersGrow DEF TypeOK
<1>1. CASE LoadSent
  BY <1>0, <1>1 DEF LoadSent, ReporterInv, counterVars, runCounters
<1>2. CASE LoadFailed
  BY <1>0, <1>2 DEF LoadFailed, ReporterInv, counterVars, runCounters
<1>3. CASE PrintLine
  BY <1>0, <1>3 DEF PrintLine, ReporterInv, SmallerOf, counterVars, runCounters
<1>4. CASE UNCHANGED reporterVars
  <2>1. rpc' = rpc /\ seen_sent' = seen_sent /\ seen_failed' = seen_failed /\ shown' = shown
    BY <1>4 DEF reporterVars
  <2>2. /\ seen_sent <= sent'
        /\ rpc # "loaded_sent" => seen_sent + seen_failed <= sent' + failed'
        /\ rpc = "loaded_sent" => shown <= seen_sent + failed'
        /\ rpc = "loaded_failed" => shown <= seen_sent + seen_failed
        /\ shown <= sent' + failed' /\ shown <= Total
    <3>1. ReporterInv
      OBVIOUS
    <3>2. sent \in Nat /\ failed \in Nat /\ sent' \in Nat /\ failed' \in Nat
          /\ seen_sent \in Nat /\ seen_failed \in Nat /\ shown \in Nat
      BY <1>0
    <3>3. sent <= sent' /\ failed <= failed'
      BY <1>0
    <3>4. /\ \A a, b, c, d, x \in Nat : a <= c /\ b <= d /\ x <= a + b => x <= c + d
          /\ \A a, b, c \in Nat : a <= b /\ b <= c => a <= c
          /\ \A a, b, d, x \in Nat : b <= d /\ x <= a + b => x <= a + d
          /\ \A a, b \in Nat : a + b \in Nat
      OBVIOUS
    <3> QED
      BY <3>1, <3>2, <3>3, <3>4 DEF ReporterInv
  <2>3. ReporterInv'
    BY <2>1, <2>2 DEF ReporterInv
  <2>4. shown \in Nat
    BY <1>0
  <2> QED
    BY <2>1, <2>3, <2>4
<1>5. Reporter \/ UNCHANGED reporterVars
  BY DEF Next, Main, StartPriming, SpawnNext, FinishPriming, PrimingPanics, StopSpawning, JoinAll,
     StopReporter, Report, Task, Stamp, Send, Join, CountTarget, Panic, Settle, Backend, Land,
     Answer, Break, Tick, Finished, vars
<1> QED
  BY <1>1, <1>2, <1>3, <1>4, <1>5 DEF Reporter

\* What the reporter has loaded (main.rs:695-700), at whatever moments, is never
\* more than the counters hold.
THEOREM ReportingInvariant == Spec => []ReportingInv
<1>1. Init => ReporterInv
  BY SizeAssumption DEF Init, ReporterInv
<1>2. ReportingInv /\ [Next]_vars => ReporterInv'
  BY ReporterStep
<1> QED
  BY <1>1, <1>2, CountingInvariant, PTL DEF Spec, ReportingInv

\* No progress line claims more records than have been settled.
THEOREM ProgressIsHonest == Spec => []ProgressHonest
<1>1. ReportingInv => ProgressHonest
  BY CountersFit DEF ReportingInv, ReporterInv, ProgressHonest
<1> QED
  BY <1>1, ReportingInvariant, PTL

\* No progress line claims fewer records than the one before.
THEOREM ProgressIsMonotone == Spec => ProgressNeverGoesBack
<1>1. ReportingInv /\ [Next]_vars => [shown <= shown']_vars
  BY ReporterStep
<1> QED
  BY <1>1, ReportingInvariant, PTL DEF Spec, ProgressNeverGoesBack

\* A run that ends with status 0 has joined every task and counted no failure.
ExitInv ==
  exit = 0 => failed = 0 /\ \A i \in Batches : pc[i] \in {"done", "panicked"}

EndingInv == CountingInv /\ ExitInv

\* Status 0 needs every task joined and a counter failed of 0 (main.rs:998).
THEOREM EndingInvariant == Spec => []EndingInv
<1>1. Init => ExitInv
  BY DEF Init, ExitInv, Unset
<1>2. ASSUME EndingInv, [Next]_vars PROVE ExitInv'
  <2> USE <1>2 DEF EndingInv, CountingInv, DeliveryInv, MainInv
  <2>1. CASE Report
    <3>1. \A i \in Batches : pc[i] \in {"done", "panicked"}
      BY <2>1 DEF Report, PhaseInv
    <3>2. pc' = pc /\ failed' = failed /\ exit' \in {IF failed > 0 THEN 1 ELSE 0, 101}
      BY <2>1 DEF Report, Exit, taskVars, counterVars, runCounters
    <3>3. failed \in Nat
      BY DEF TypeOK
    <3> QED
      BY <3>1, <3>2, <3>3 DEF ExitInv
  <2>2. CASE FinishPriming \/ PrimingPanics
    <3>1. exit = Unset /\ (exit' = exit \/ exit' \in {1, 101})
      BY <2>2 DEF FinishPriming, PrimingPanics, Exit, PhaseInv
    <3> QED
      BY <3>1 DEF ExitInv, Unset
  <2>3. CASE ~Report /\ ~FinishPriming /\ ~PrimingPanics /\ exit # 0
    <3>1. exit' = exit
      BY <2>3 DEF Next, Main, StartPriming, SpawnNext, StopSpawning, JoinAll, StopReporter, Task,
         Stamp, Send, Join, CountTarget, Panic, Settle, Backend, Land, Answer, Break, Tick, Reporter,
         LoadSent, LoadFailed, PrintLine, Finished, vars, mainVars, exitVars
    <3> QED
      BY <2>3, <3>1 DEF ExitInv
  <2>4. CASE ~Report /\ ~FinishPriming /\ ~PrimingPanics /\ exit = 0
    <3>1. failed = 0 /\ main = "exited" /\ \A i \in Batches : pc[i] \in {"done", "panicked"}
      BY <2>4 DEF ExitInv, PhaseInv, Unset
    <3>2. \A i \in Batches : ~Task(i)
      BY <3>1 DEF Task, Stamp, Send, Join, CountTarget, Panic, Settle, Targets, OpenObserve
    <3>3. pc' = pc /\ failed' = failed
      BY <2>4, <3>1, <3>2 DEF Next, Main, StartPriming, SpawnNext, StopSpawning, JoinAll,
         StopReporter, Backend, Land, Answer, Break, Tick, Reporter, LoadSent, LoadFailed, PrintLine,
         Finished, vars, taskVars, counterVars, runCounters
    <3> QED
      BY <3>1, <3>3 DEF ExitInv
  <2> QED
    BY <2>1, <2>2, <2>3, <2>4
<1> QED
  BY <1>1, <1>2, CountingInvariant, PTL DEF Spec, EndingInv

\* A run that ends with status 0, and in which no task panicked, leaves every
\* enabled backend with the same records: all of them.
THEOREM CleanExitMeansComplete == Spec => []CleanExitIsComplete
<1>1. ASSUME EndingInv PROVE CleanExitIsComplete
  <2> USE <1>1 DEF EndingInv, CountingInv, DeliveryInv, MainInv
  <2> SUFFICES ASSUME exit = 0, PanickedBatches = {}, NEW t \in Enabled
               PROVE  stored[t] = Records
    BY DEF CleanExitIsComplete
  <2>1. \A i \in Batches : pc[i] = "done"
    BY DEF ExitInv, PanickedBatches
  <2>2. FailedBatches = {}
    <3>1. RecordsOfAll(FailedBatches) = {}
      <4>1. FailedBatches \in SUBSET Batches
        BY DEF FailedBatches
      <4>2. RecordsOfAll(FailedBatches) \subseteq Records
        BY <4>1, StartedBatch DEF RecordsOfAll
      <4>3. IsFiniteSet(RecordsOfAll(FailedBatches))
        BY <4>2, FiniteRecords, FS_Subset
      <4> QED
        BY <4>3, FS_EmptySet DEF CountersInv, ExitInv
    <3>2. \A i \in FailedBatches : start_record_idx(i) \in RecordsOf(i)
      BY <2>1, StartedBatch DEF FailedBatches
    <3> QED
      BY <3>1, <3>2 DEF RecordsOfAll
  <2>3. \A i \in Batches : RecordsOf(i) \subseteq stored[t]
    BY <2>1, <2>2 DEF FailedBatches, Accepted, WireInv
  <2>4. Records \subseteq RecordsOfAll(Batches)
    <3>1. batch_idx = total_batches
      <4>1. total_batches - 1 \in Batches /\ total_batches \in Nat
        BY BatchCount DEF Batches
      <4>2. ~(total_batches - 1 >= batch_idx)
        BY <2>1, <4>1 DEF CutInv
      <4> QED
        BY <4>1, <4>2 DEF TypeOK
    <3>2. remaining = 0
      BY <3>1, CutOff
    <3>3. Records = 0 .. Total - remaining - 1
      BY <3>2, SizeAssumption DEF Records
    <3> QED
      BY <3>3, BatchesCover DEF RecordsOfAll
  <2>5. stored[t] \subseteq Records
    BY DEF TypeOK
  <2> QED
    BY <2>3, <2>4, <2>5 DEF RecordsOfAll
<1> QED
  BY <1>1, EndingInvariant, PTL

-----------------------------------------------------------------------------
(* The end of a run *)

Over == \A i \in Batches : pc[i] \in {"done", "panicked"}

\* Stats are written, and status 0 is returned, in one step with the exit, when
\* every task is over and batch 0 was accepted; nothing of this moves again.
StatsInv ==
  exit = 0 \/ stats.written =>
    /\ main = "exited" /\ Over /\ pc[0] = "done" /\ Accepted(0)
    /\ stats.written =>
         /\ stats.timestamp_min_us = IF timestamp_min = U64Max THEN Unset ELSE timestamp_min
         /\ stats.timestamp_max_us = IF timestamp_max = 0 THEN Unset ELSE timestamp_max

JoinedInv == CountingInv /\ StatsInv

\* No batch starts before batch 0 was accepted.
LEMMA ZeroFirst ==
  ASSUME TypeOK, CutInv, PhaseInv, NEW i \in Batches, i # 0, pc[i] # "unspawned"
  PROVE  pc[0] = "done" /\ Accepted(0) /\ batch_idx > 1
<1>1. i < batch_idx /\ i \in Nat /\ batch_idx \in Nat
  BY BatchStarts, BatchCount DEF CutInv, TypeOK
<1> QED
  BY <1>1 DEF PhaseInv

\* Once all tasks are over only requests still on their way move.
LEMMA OverStays ==
  ASSUME DeliveryInv, [Next]_vars, main = "exited", Over
  PROVE  /\ UNCHANGED <<mainVars, pc, size, stamp, counterVars>>
         /\ \A i \in Batches : Accepted(i)' <=> Accepted(i)
<1> USE DEF DeliveryInv, MainInv, Over
<1>1. \A i \in Batches : ~Task(i)
  BY DEF Task, Stamp, Send, Join, CountTarget, Panic, Settle, Targets, OpenObserve
<1>2. ~Main
  BY DEF Main, StartPriming, FinishPriming, PrimingPanics, SpawnNext, StopSpawning, JoinAll,
     StopReporter, Report
<1>3. CASE Tick \/ Reporter \/ Finished \/ UNCHANGED vars
  BY <1>3 DEF Tick, Reporter, LoadSent, LoadFailed, PrintLine, Finished, vars, mainVars, taskVars,
     backendVars, counterVars, runCounters, Accepted
<1>4. ASSUME NEW i \in Batches, NEW t \in Enabled, Backend(i, t)
      PROVE  /\ UNCHANGED <<mainVars, pc, size, stamp, counterVars>>
             /\ \A j \in Batches : Accepted(j)' <=> Accepted(j)
  <2>1. result' = result
    <3>1. \A j \in Batches, u \in Enabled : result[j][u] # "pending"
      BY DEF WireInv
    <3> QED
      BY <1>4, <3>1 DEF Backend, Land, Answer, Break
  <2> QED
    BY <1>4, <2>1 DEF Backend, Land, Answer, Break, taskVars, mainVars, counterVars, runCounters, Accepted
<1> QED
  BY <1>1, <1>2, <1>3, <1>4 DEF Next

\* The stats file and status 0 come with the exit, after every task was joined
\* (main.rs:929-1001), and say what the counters then say.
THEOREM JoinedInvariant == Spec => []JoinedInv
<1>1. Init => StatsInv
  BY DEF Init, StatsInv, Unset
<1>2. ASSUME JoinedInv, [Next]_vars PROVE StatsInv'
  <2> USE <1>2 DEF JoinedInv, CountingInv, DeliveryInv, MainInv
  <2>1. CASE exit = 0 \/ stats.written
    <3>1. /\ UNCHANGED <<mainVars, pc, counterVars>>
          /\ \A i \in Batches : Accepted(i)' <=> Accepted(i)
      BY <2>1, OverStays DEF StatsInv
    <3> QED
      BY <2>1, <3>1, BatchStarts DEF StatsInv, Over, mainVars, exitVars, counterVars, runCounters
  <2>2. CASE Report /\ ~(exit = 0 \/ stats.written)
    <3>1. /\ main' = "exited" /\ pc' = pc /\ result' = result
          /\ timestamp_min' = timestamp_min /\ timestamp_max' = timestamp_max
          /\ stats' = stats \/ stats' = ReportedStats
      BY <2>2 DEF Report, Exit, taskVars, backendVars, counterVars, runCounters
    <3>2. Over /\ pc[0] = "done" /\ Accepted(0)
      BY <2>2 DEF Report, PhaseInv, Over
    <3>3. Over' /\ pc'[0] = "done" /\ Accepted(0)'
      BY <3>1, <3>2 DEF Over, Accepted
    <3>4. stats'.written =>
            /\ stats'.timestamp_min_us = IF timestamp_min' = U64Max THEN Unset ELSE timestamp_min'
            /\ stats'.timestamp_max_us = IF timestamp_max' = 0 THEN Unset ELSE timestamp_max'
      BY <2>2, <3>1 DEF ReportedStats
    <3> QED
      BY <3>1, <3>3, <3>4 DEF StatsInv
  <2>3. CASE ~Report /\ ~(exit = 0 \/ stats.written)
    <3>1. stats' = stats /\ (exit' = exit \/ exit' \in {1, 101})
      BY <2>3 DEF Next, Main, StartPriming, FinishPriming, PrimingPanics, SpawnNext, StopSpawning,
         JoinAll, StopReporter, Exit, Task, Stamp, Send, Join, CountTarget, Panic, Settle, Backend,
         Land, Answer, Break, Tick, Reporter, LoadSent, LoadFailed, PrintLine, Finished, vars,
         mainVars, exitVars
    <3> QED
      BY <2>3, <3>1 DEF StatsInv
  <2> QED
    BY <2>1, <2>2, <2>3
<1> QED
  BY <1>1, <1>2, CountingInvariant, PTL DEF Spec, JoinedInv

\* Once a run says how it ended, all its tasks are over.
LEMMA JoinedIsOver ==
  ASSUME JoinedInv, Joined
  PROVE  Over /\ batch_idx = total_batches /\ RecordsOfAll(Batches) = Records
<1> USE DEF JoinedInv, CountingInv, DeliveryInv, MainInv
<1>1. Over
  BY DEF Joined, StatsInv, PhaseInv, Over
<1>2. batch_idx = total_batches
  <2>1. total_batches - 1 \in Batches /\ total_batches \in Nat
    BY BatchCount DEF Batches
  <2>2. ~(total_batches - 1 >= batch_idx)
    BY <1>1, <2>1 DEF CutInv, Over
  <2> QED
    BY <2>1, <2>2 DEF TypeOK
<1>3. Records = 0 .. Total - remaining - 1
  BY <1>2, CutOff, SizeAssumption DEF Records
<1> QED
  BY <1>1, <1>2, <1>3, BatchesCover, StartedBatch DEF RecordsOfAll

\* Sets of batches that share no batch share no record.
LEMMA ApartAdds ==
  ASSUME TypeOK, CutInv, NEW S \in SUBSET Batches, NEW T \in SUBSET Batches, S \cap T = {}
  PROVE  /\ Cardinality(RecordsOfAll(S)) \in Nat /\ Cardinality(RecordsOfAll(T)) \in Nat
         /\ Cardinality(RecordsOfAll(S \cup T)) =
              Cardinality(RecordsOfAll(S)) + Cardinality(RecordsOfAll(T))
<1>1. RecordsOfAll(S) \subseteq Records /\ RecordsOfAll(T) \subseteq Records
  BY StartedBatch DEF RecordsOfAll
<1>2. IsFiniteSet(RecordsOfAll(S)) /\ IsFiniteSet(RecordsOfAll(T))
  BY <1>1, FiniteRecords, FS_Subset
<1>3. RecordsOfAll(S) \cap RecordsOfAll(T) = {}
  BY BatchesDisjoint DEF RecordsOfAll
<1>4. RecordsOfAll(S \cup T) = RecordsOfAll(S) \cup RecordsOfAll(T)
  BY DEF RecordsOfAll
<1> HIDE DEF RecordsOfAll
<1>5. /\ Cardinality(RecordsOfAll(S)) \in Nat /\ Cardinality(RecordsOfAll(T)) \in Nat
  BY <1>2, FS_CardinalityType
<1>6. Cardinality(RecordsOfAll(S) \cap RecordsOfAll(T)) = 0
  BY <1>3, FS_EmptySet
<1>7. Cardinality(RecordsOfAll(S) \cup RecordsOfAll(T)) =
        Cardinality(RecordsOfAll(S)) + Cardinality(RecordsOfAll(T))
        - Cardinality(RecordsOfAll(S) \cap RecordsOfAll(T))
  BY <1>2, FS_Union
<1>8. Cardinality(RecordsOfAll(S \cup T)) = Cardinality(RecordsOfAll(S)) + Cardinality(RecordsOfAll(T)) - 0
  BY <1>4, <1>6, <1>7
<1> QED
  BY <1>5, <1>8

\* A run that has ended has put every record into sent, into failed, or into a
\* batch whose task panicked (main.rs:929-931 joins them all).
THEOREM AllRecordsAreAccountedFor == Spec => []RecordsAccountedFor
<1>1. ASSUME JoinedInv PROVE RecordsAccountedFor
  <2> USE <1>1 DEF JoinedInv, CountingInv, DeliveryInv, MainInv
  <2> SUFFICES ASSUME Joined
               PROVE  sent + failed + Cardinality(RecordsOfAll(PanickedBatches)) = Total
    BY DEF RecordsAccountedFor
  <2> DEFINE A == AcceptedBatches
             F == FailedBatches
             P == PanickedBatches
  <2>1. A \cup F \cup P = Batches
    BY JoinedIsOver DEF Over, AcceptedBatches, FailedBatches, PanickedBatches
  <2>2. A \in SUBSET Batches /\ F \in SUBSET Batches /\ P \in SUBSET Batches
    BY DEF AcceptedBatches, FailedBatches, PanickedBatches
  <2>3. A \cap F = {} /\ (A \cup F) \cap P = {}
    BY DEF AcceptedBatches, FailedBatches, PanickedBatches
  <2>4. sent = Cardinality(RecordsOfAll(A)) /\ failed = Cardinality(RecordsOfAll(F))
    BY DEF CountersInv
  <2> HIDE DEF A, F, P
  <2>5. Cardinality(RecordsOfAll(A \cup F)) = Cardinality(RecordsOfAll(A)) + Cardinality(RecordsOfAll(F))
    BY <2>2, <2>3, ApartAdds
  <2>6. A \cup F \in SUBSET Batches
    BY <2>2
  <2>7. Cardinality(RecordsOfAll((A \cup F) \cup P)) =
          Cardinality(RecordsOfAll(A \cup F)) + Cardinality(RecordsOfAll(P))
    BY <2>2, <2>3, <2>6, ApartAdds
  <2>8. RecordsOfAll((A \cup F) \cup P) = Records /\ Cardinality(Records) = Total
    <3>1. Cardinality(Records) = Total
      <4>1. 0 \in Int /\ Total - 1 \in Int /\ ~(0 > Total - 1) /\ Total \in Nat /\ Total - 1 - 0 + 1 = Total
        BY SizeAssumption
      <4> QED
        BY <4>1, FS_Interval DEF Records
    <3> QED
      BY <2>1, <3>1, JoinedIsOver
  <2> QED
    BY <2>4, <2>5, <2>7, <2>8 DEF P
<1> QED
  BY <1>1, JoinedInvariant, PTL

-----------------------------------------------------------------------------
(* Which target is blamed *)

\* ship() has come past target t with batch i.
Past(i, t) ==
  pc[i] \in CASE t = "o2_parquet" -> {"o2_vortex", "clickhouse", "settling", "done", "panicked"}
              [] t = "o2_vortex"  -> {"clickhouse", "settling", "done", "panicked"}
              [] t = "clickhouse" -> {"settling", "done", "panicked"}
Blamed(t) == {i \in Batches : Rejected(i, t) /\ Past(i, t)}

\* A target's counter holds no records but of batches it rejected, and some of
\* them as soon as such a batch has passed it without a panic.
BlameInv ==
  \A t \in Targets :
    /\ target_failed[t] <= Cardinality(RecordsOfAll(Blamed(t)))
    /\ \A i \in Blamed(t) : pc[i] # "panicked" => target_failed[t] > 0
    /\ t \notin Enabled => target_failed[t] = 0

BlamingInv == JoinedInv /\ BlameInv

\* More batches, more records.
LEMMA MoreBatches ==
  ASSUME TypeOK, CutInv, NEW S \in SUBSET Batches, NEW T \in SUBSET Batches, S \subseteq T
  PROVE  /\ Cardinality(RecordsOfAll(S)) \in Nat /\ Cardinality(RecordsOfAll(T)) \in Nat
         /\ Cardinality(RecordsOfAll(S)) <= Cardinality(RecordsOfAll(T))
<1>1. RecordsOfAll(T) \subseteq Records /\ RecordsOfAll(S) \subseteq RecordsOfAll(T)
  BY StartedBatch DEF RecordsOfAll
<1> HIDE DEF RecordsOfAll
<1>2. IsFiniteSet(RecordsOfAll(T))
  BY <1>1, FiniteRecords, FS_Subset
<1>3. IsFiniteSet(RecordsOfAll(S)) /\ Cardinality(RecordsOfAll(S)) <= Cardinality(RecordsOfAll(T))
  BY <1>1, <1>2, FS_Subset
<1> QED
  BY <1>2, <1>3, FS_CardinalityType

\* A step adds nothing to what target t is blamed for, or a batch whose task
\* panics, or a batch that moves the target's counter.
BlameStays(t) ==
  /\ Blamed(t) \subseteq Blamed(t)'
  /\ \A i \in Blamed(t) : pc[i] = "panicked" => pc'[i] = "panicked"
  /\ \A i \in Blamed(t)' \ Blamed(t) : pc'[i] = "panicked"
  /\ target_failed'[t] = target_failed[t]
BlameGrows(t) ==
  /\ \A i \in Blamed(t) : pc[i] = "panicked" => pc'[i] = "panicked"
  /\ \E i \in Batches \ Blamed(t) :
       /\ pc[i] # "unspawned" /\ Blamed(t)' = Blamed(t) \cup {i}
       /\ target_failed'[t] = target_failed[t] + size[i]

LEMMA BlameSteps ==
  ASSUME BlamingInv, [Next]_vars, NEW t \in Targets
  PROVE  BlameStays(t) \/ BlameGrows(t)
<1> USE DEF BlamingInv, JoinedInv, CountingInv, DeliveryInv, MainInv
<1>0. /\ pc \in [Batches -> PCs]
      /\ result \in [Batches -> [Enabled -> {"pending", "ok", "err"}]]
      /\ target_failed \in [Targets -> Nat]
  BY DEF TypeOK
<1>1. ASSUME UNCHANGED <<target_failed, result>>,
             \A i \in Batches : /\ Past(i, t)' <=> Past(i, t)
                                /\ pc'[i] = "panicked" <=> pc[i] = "panicked"
      PROVE  BlameStays(t)
  BY <1>1 DEF BlameStays, Blamed, Rejected
<1>2. CASE StartPriming \/ SpawnNext
  <2>1. PICK i \in Batches : pc[i] = "unspawned" /\ pc' = [pc EXCEPT ![i] = "spawned"]
    BY <1>2, BatchStart
  <2>2. UNCHANGED <<target_failed, result>>
    BY <1>2 DEF StartPriming, SpawnNext, backendVars, counterVars
  <2> QED
    BY <1>0, <1>1, <2>1, <2>2 DEF Past, Targets, OpenObserve
<1>3. CASE FinishPriming \/ PrimingPanics \/ StopSpawning \/ JoinAll \/ StopReporter \/ Report
           \/ Tick \/ Reporter \/ Finished \/ UNCHANGED vars
  <2>1. UNCHANGED <<target_failed, result, pc>>
    BY <1>3 DEF FinishPriming, PrimingPanics, StopSpawning, JoinAll, StopReporter, Report, Tick,
       Reporter, LoadSent, LoadFailed, PrintLine, Finished, vars, taskVars, backendVars, counterVars
  <2> QED
    BY <1>1, <2>1 DEF Past
<1>4. ASSUME NEW i \in Batches, Stamp(i) \/ Send(i) \/ Join(i) \/ Settle(i)
      PROVE  BlameStays(t)
  <2>1. /\ UNCHANGED <<target_failed, result>>
        /\ \/ pc[i] \in {"spawned", "generating", "sending"}
              /\ \E p \in {"generating", "sending", "o2_parquet"} : pc' = [pc EXCEPT ![i] = p]
           \/ pc[i] = "settling" /\ pc' = [pc EXCEPT ![i] = "done"]
    BY <1>4 DEF Stamp, Send, Join, Settle, backendVars, counterVars
  <2> QED
    BY <1>0, <1>1, <2>1 DEF Past, Targets, OpenObserve
<1>5. ASSUME NEW i \in Batches, NEW u \in Enabled, Backend(i, u)
      PROVE  BlameStays(t)
  <2>1. UNCHANGED <<pc, target_failed>>
    BY <1>5 DEF Backend, Land, Answer, Break, taskVars, counterVars
  <2>2. \/ result' = result
        \/ /\ result[i][u] = "pending"
           /\ \E v \in {"ok", "err"} : result' = [result EXCEPT ![i] = [@ EXCEPT ![u] = v]]
    BY <1>5 DEF Backend, Land, Answer, Break
  <2>3. ASSUME NEW j \in Batches, Past(j, t)
        PROVE  Rejected(j, t)' <=> Rejected(j, t)
    <3>1. pc[j] \in Targets \cup {"settling", "done", "panicked"}
      BY <2>3 DEF Past, Targets, OpenObserve
    <3>2. \A w \in Enabled : result[j][w] # "pending"
      BY <3>1 DEF WireInv
    <3> QED
      BY <1>0, <2>2, <3>2 DEF Rejected
  <2> QED
    BY <2>1, <2>3 DEF BlameStays, Blamed, Past
<1>6. ASSUME NEW i \in Batches, NEW u \in Targets, CountTarget(i, u) \/ Panic(i, u)
      PROVE  BlameStays(t) \/ BlameGrows(t)
  <2>1. /\ pc[i] = u /\ result' = result
        /\ \/ pc' = [pc EXCEPT ![i] = AfterTarget(u)]
           \/ pc' = [pc EXCEPT ![i] = "panicked"] /\ Rejected(i, u)
        /\ target_failed' = [target_failed EXCEPT ![u] = IF Rejected(i, u) THEN @ + size[i] ELSE @]
    BY <1>6 DEF CountTarget, Panic, CountRejection, backendVars
  <2>2. \A j \in Batches : Rejected(j, t)' <=> Rejected(j, t)
    BY <2>1 DEF Rejected
  <2>3. /\ \A j \in Batches : j # i => pc'[j] = pc[j]
        /\ pc'[i] = AfterTarget(u) \/ pc'[i] = "panicked"
    BY <1>0, <2>1
  <2>4. \A j \in Batches : pc[j] = "panicked" => pc'[j] = "panicked"
    BY <2>1, <2>3 DEF Targets, OpenObserve
  <2>5. \A j \in Batches : j # i => (Past(j, t)' <=> Past(j, t))
    BY <2>3 DEF Past
  <2>6. Past(i, t) => Past(i, t)'
    BY <2>1, <2>3 DEF Past, AfterTarget, Targets, OpenObserve
  <2>7. CASE t # u
    <3>1. Past(i, t)' => Past(i, t) \/ pc'[i] = "panicked"
      BY <2>1, <2>3, <2>7 DEF Past, AfterTarget, Targets, OpenObserve
    <3>2. target_failed'[t] = target_failed[t]
      BY <1>0, <2>1, <2>7
    <3> QED
      BY <2>2, <2>4, <2>5, <2>6, <3>1, <3>2 DEF Blamed, BlameStays
  <2>8. CASE t = u /\ ~Rejected(i, t)
    <3>1. target_failed'[t] = target_failed[t]
      BY <1>0, <2>1, <2>8
    <3> QED
      BY <2>2, <2>4, <2>5, <2>8, <3>1 DEF Blamed, BlameStays
  <2>9. CASE t = u /\ Rejected(i, t)
    <3>1. ~Past(i, t) /\ Past(i, t)' /\ pc[i] # "unspawned"
      BY <2>1, <2>3, <2>9 DEF Past, AfterTarget, Targets, OpenObserve
    <3>2. target_failed'[t] = target_failed[t] + size[i]
      BY <1>0, <2>1, <2>9
    <3>3. Blamed(t)' = Blamed(t) \cup {i} /\ i \notin Blamed(t)
      BY <2>2, <2>5, <2>9, <3>1 DEF Blamed
    <3>4. \A j \in Blamed(t) : pc[j] = "panicked" => pc'[j] = "panicked"
      BY <2>4 DEF Blamed
    <3> QED
      BY <3>1, <3>2, <3>3, <3>4 DEF BlameGrows
  <2> QED
    BY <2>7, <2>8, <2>9
<1> QED
  BY <1>2, <1>3, <1>4, <1>5, <1>6 DEF Next, Main, Task

\* No task ends in the step that starts it.
LEMMA Unstarted ==
  ASSUME MainInv, [Next]_vars, NEW i \in Batches, pc[i] = "unspawned"
  PROVE  pc'[i] \in {"unspawned", "spawned"}
<1>0. pc \in [Batches -> PCs]
  BY DEF MainInv, TypeOK
<1>1. CASE StartPriming \/ SpawnNext
  <2>1. PICK j \in Batches : pc' = [pc EXCEPT ![j] = "spawned"]
    BY <1>1, BatchStart
  <2> QED
    BY <1>0, <2>1
<1>2. ASSUME NEW j \in Batches, Task(j)
      PROVE  pc'[i] = "unspawned"
  <2>1. pc[j] # "unspawned" /\ \E p \in PCs : pc' = [pc EXCEPT ![j] = p]
    BY <1>2 DEF Task, Stamp, Send, Join, CountTarget, Panic, Settle, AfterTarget, PCs, Targets, OpenObserve
  <2> QED
    BY <1>0, <2>1
<1>3. CASE ~(StartPriming \/ SpawnNext) /\ ~(\E j \in Batches : Task(j))
  BY <1>3 DEF Next, Main, FinishPriming, PrimingPanics, StopSpawning, JoinAll, StopReporter, Report,
     Backend, Land, Answer, Break, Tick, Reporter, LoadSent, LoadFailed, PrintLine, Finished, vars, taskVars
<1> QED
  BY <1>1, <1>2, <1>3

\* Each target is blamed for batches it rejected and for no others, along the
\* Err arms of ship() (main.rs:648-665) in their order, panics included.
THEOREM BlamingInvariant == Spec => []BlamingInv
<1>1. ASSUME Init PROVE BlameInv
  <2>1. ASSUME NEW t \in Targets PROVE Blamed(t) = {} /\ target_failed[t] = 0
    BY <1>1 DEF Init, Blamed, Past, Targets, OpenObserve
  <2>2. RecordsOfAll({}) = {} /\ Cardinality({}) = 0
    BY FS_EmptySet DEF RecordsOfAll
  <2> QED
    BY <2>1, <2>2 DEF BlameInv
<1>2. ASSUME BlamingInv, [Next]_vars, JoinedInv' PROVE BlameInv'
  <2> USE <1>2 DEF BlamingInv, JoinedInv, CountingInv, DeliveryInv, MainInv
  <2> SUFFICES ASSUME NEW t \in Targets
               PROVE  /\ target_failed'[t] <= Cardinality(RecordsOfAll(Blamed(t)))'
                      /\ \A i \in Blamed(t)' : pc'[i] # "panicked" => target_failed'[t] > 0
                      /\ t \notin Enabled => target_failed'[t] = 0
    BY DEF BlameInv
  <2>0. target_failed[t] \in Nat /\ target_failed'[t] \in Nat
    BY DEF TypeOK
  <2>1. Blamed(t) \in SUBSET Batches /\ Blamed(t)' \in SUBSET Batches
    BY DEF Blamed, Batches, total_batches
  <2>2. \A i \in Blamed(t) : pc[i] # "unspawned"
    BY DEF Blamed, Past, Targets, OpenObserve
  <2>4. /\ target_failed[t] <= Cardinality(RecordsOfAll(Blamed(t)))
        /\ \A i \in Blamed(t) : pc[i] # "panicked" => target_failed[t] > 0
        /\ t \notin Enabled => target_failed[t] = 0
    BY DEF BlameInv
  <2>5. CASE BlameStays(t)
    <3>1. target_failed'[t] <= Cardinality(RecordsOfAll(Blamed(t)))'
      <4> DEFINE S == Blamed(t)
                 T == Blamed(t)'
      <4>1. S \in SUBSET Batches /\ T \in SUBSET Batches /\ S \subseteq T
        BY <2>1, <2>5 DEF BlameStays
      <4>2. \A i \in Batches : RecordsOf(i)' = RecordsOf(i) \/ pc[i] = "unspawned"
        BY RecordsStay
      <4>3. \A i \in T : pc[i] # "unspawned"
        <5>1. \A i \in T \ S : pc'[i] = "panicked"
          BY <2>5 DEF BlameStays
        <5>2. \A i \in Batches : pc[i] = "unspawned" => pc'[i] \in {"unspawned", "spawned"}
          BY Unstarted
        <5> QED
          BY <2>2, <4>1, <5>1, <5>2
      <4>4. RecordsOfAll(Blamed(t))' = RecordsOfAll(T)
        BY <4>1, <4>2, <4>3 DEF RecordsOfAll
      <4> HIDE DEF S, T
      <4>5. /\ Cardinality(RecordsOfAll(S)) \in Nat /\ Cardinality(RecordsOfAll(T)) \in Nat
            /\ Cardinality(RecordsOfAll(S)) <= Cardinality(RecordsOfAll(T))
        BY <4>1, MoreBatches
      <4>6. target_failed'[t] = target_failed[t] /\ target_failed[t] <= Cardinality(RecordsOfAll(S))
        BY <2>4, <2>5 DEF BlameStays, S
      <4> QED
        BY <2>0, <4>4, <4>5, <4>6
    <3> QED
      BY <2>4, <2>5, <3>1 DEF BlameStays
  <2>6. CASE BlameGrows(t)
    <3>1. PICK i \in Batches \ Blamed(t) :
            /\ pc[i] # "unspawned" /\ Blamed(t)' = Blamed(t) \cup {i}
            /\ target_failed'[t] = target_failed[t] + size[i]
      BY <2>6 DEF BlameGrows
    <3>2. size[i] \in Nat /\ size[i] >= 1
      BY <3>1, StartedBatch
    <3>3. target_failed'[t] <= Cardinality(RecordsOfAll(Blamed(t)))'
      <4>1. /\ Cardinality(RecordsOfAll(Blamed(t))) \in Nat
            /\ Cardinality(RecordsOfAll(Blamed(t) \cup {i})) = Cardinality(RecordsOfAll(Blamed(t))) + size[i]
        BY <2>1, <3>1, AddBatch
      <4>2. RecordsOfAll(Blamed(t))' = RecordsOfAll(Blamed(t) \cup {i})
        <5> DEFINE T == Blamed(t) \cup {i}
        <5>1. T \in SUBSET Batches /\ \A j \in T : pc[j] # "unspawned"
          BY <2>1, <2>2, <3>1
        <5>2. \A j \in Batches : RecordsOf(j)' = RecordsOf(j) \/ pc[j] = "unspawned"
          BY RecordsStay
        <5>3. Blamed(t)' = T
          BY <3>1
        <5> HIDE DEF T
        <5>4. UNION {RecordsOf(j)' : j \in T} = UNION {RecordsOf(j) : j \in T}
          BY <5>1, <5>2
        <5> QED
          BY <5>3, <5>4 DEF RecordsOfAll, T
      <4> QED
        BY <2>0, <2>4, <3>1, <3>2, <4>1, <4>2
    <3>4. t \in Enabled
      <4>1. i \in Blamed(t)'
        BY <3>1
      <4> QED
        BY <4>1 DEF Blamed, Rejected
    <3> QED
      BY <2>0, <3>1, <3>2, <3>3, <3>4
  <2> QED
    BY <2>5, <2>6, BlameSteps
<1> QED
  BY <1>1, <1>2, JoinedInvariant, PTL DEF Spec, BlamingInv

\* The per-target counters of a run that has ended break its failures down
\* (main.rs:648-665): none exceeds what the run lost, a run that lost records
\* blames a target, and a target that was not asked has no failures.
THEOREM TargetFailuresDoAgree == Spec => []TargetFailuresAgree
<1>1. ASSUME BlamingInv PROVE TargetFailuresAgree
  <2> USE <1>1 DEF BlamingInv, JoinedInv, CountingInv, DeliveryInv, MainInv
  <2> SUFFICES ASSUME Joined
               PROVE  /\ \A t \in Targets :
                           target_failed[t] <= failed + Cardinality(RecordsOfAll(PanickedBatches))
                      /\ failed > 0 => \E t \in Enabled : target_failed[t] > 0
                      /\ \A t \in Targets \ Enabled : target_failed[t] = 0
    BY DEF TargetFailuresAgree
  <2> DEFINE F == FailedBatches
             P == PanickedBatches
  <2>1. F \in SUBSET Batches /\ P \in SUBSET Batches /\ F \cap P = {} /\ F \cup P \in SUBSET Batches
    BY DEF FailedBatches, PanickedBatches
  <2>2. failed = Cardinality(RecordsOfAll(F))
    BY DEF CountersInv
  <2>3. \A i \in Batches : pc[i] \in {"done", "panicked"}
    BY JoinedIsOver DEF Over
  <2>4. ASSUME NEW t \in Targets
        PROVE  target_failed[t] <= failed + Cardinality(RecordsOfAll(P))
    <3>1. Blamed(t) \in SUBSET Batches /\ Blamed(t) \subseteq F \cup P
      BY <2>3 DEF Blamed, FailedBatches, PanickedBatches, Rejected, Accepted
    <3> HIDE DEF F, P
    <3>2. /\ Cardinality(RecordsOfAll(Blamed(t))) \in Nat
          /\ Cardinality(RecordsOfAll(F \cup P)) \in Nat
          /\ Cardinality(RecordsOfAll(Blamed(t))) <= Cardinality(RecordsOfAll(F \cup P))
      BY <2>1, <3>1, MoreBatches
    <3>3. /\ Cardinality(RecordsOfAll(F)) \in Nat /\ Cardinality(RecordsOfAll(P)) \in Nat
          /\ Cardinality(RecordsOfAll(F \cup P)) =
               Cardinality(RecordsOfAll(F)) + Cardinality(RecordsOfAll(P))
      BY <2>1, ApartAdds
    <3>4. target_failed[t] \in Nat /\ target_failed[t] <= Cardinality(RecordsOfAll(Blamed(t)))
      BY DEF BlameInv, TypeOK
    <3> QED
      BY <2>2, <3>2, <3>3, <3>4
  <2>5. ASSUME failed > 0 PROVE \E t \in Enabled : target_failed[t] > 0
    <3>1. F # {}
      <4>1. RecordsOfAll({}) = {} /\ Cardinality({}) = 0
        BY FS_EmptySet DEF RecordsOfAll
      <4> QED
        BY <2>2, <2>5, <4>1
    <3>2. PICK i \in Batches : pc[i] = "done" /\ ~Accepted(i)
      BY <3>1 DEF FailedBatches
    <3>3. PICK t \in Enabled : result[i][t] # "ok"
      BY <3>2 DEF Accepted
    <3>4. result[i][t] = "err" /\ t \in Targets
      BY <3>2, <3>3, EnabledAssumption DEF WireInv, TypeOK
    <3>5. i \in Blamed(t)
      BY <3>2, <3>4 DEF Blamed, Rejected, Past, Targets, OpenObserve
    <3> QED
      BY <3>2, <3>4, <3>5 DEF BlameInv
  <2> QED
    BY <2>4, <2>5 DEF BlameInv
<1> QED
  BY <1>1, BlamingInvariant, PTL

-----------------------------------------------------------------------------
(* Without broken writes to stderr *)

NoPanic == \A i \in Batches : pc[i] # "panicked"

\* Only a write to stderr that fails makes a task panic.
THEOREM OnlyStderrPanics ==
  ASSUME StderrBreaks = FALSE
  PROVE  Spec => []NoPanic
<1>1. Init => NoPanic
  BY DEF Init, NoPanic
<1>2. ASSUME MainInv, NoPanic, [Next]_vars PROVE NoPanic'
  <2> USE <1>2 DEF MainInv, TypeOK, NoPanic
  <2>1. CASE StartPriming \/ SpawnNext
    <3>1. \E i \in Batches : pc' = [pc EXCEPT ![i] = "spawned"]
      BY <2>1, BatchStart
    <3> QED
      BY <3>1
  <2>2. ASSUME NEW i \in Batches, Task(i) PROVE NoPanic'
    <3>1. \E p \in PCs \ {"panicked"} : pc' = [pc EXCEPT ![i] = p]
      BY <2>2 DEF Task, Stamp, Send, Join, CountTarget, Panic, Settle, AfterTarget, PCs, Targets, OpenObserve
    <3> QED
      BY <3>1
  <2>3. CASE ~(StartPriming \/ SpawnNext) /\ ~(\E i \in Batches : Task(i))
    BY <2>3 DEF Next, Main, FinishPriming, PrimingPanics, StopSpawning, JoinAll, StopReporter, Report,
       Backend, Land, Answer, Break, Tick, Reporter, LoadSent, LoadFailed, PrintLine, Finished, vars, taskVars
  <2> QED
    BY <2>1, <2>2, <2>3
<1> QED
  BY <1>1, <1>2, MainInvariant, PTL DEF Spec

\* As long as stderr can be written, the failures of a run that has ended are
\* the records of the batches that a target rejected: what the comment on the
\* counters says (main.rs:831-832).
THEOREM FailuresAreRejections ==
  ASSUME StderrBreaks = FALSE
  PROVE  Spec => []FailedCountsFailures
<1>1. ASSUME JoinedInv, NoPanic PROVE FailedCountsFailures
  <2> USE <1>1 DEF JoinedInv, CountingInv, DeliveryInv, MainInv
  <2> SUFFICES ASSUME Joined
               PROVE  FailedBatches = {i \in Batches : \E t \in Enabled : Rejected(i, t)}
    BY DEF FailedCountsFailures, CountersInv
  <2>1. ASSUME NEW i \in Batches
        PROVE  pc[i] = "done" /\ \A t \in Enabled : result[i][t] \in {"ok", "err"}
    BY JoinedIsOver DEF Over, NoPanic, WireInv, TypeOK
  <2> QED
    BY <2>1 DEF FailedBatches, Accepted, Rejected
<1> QED
  BY <1>1, JoinedInvariant, OnlyStderrPanics, PTL

-----------------------------------------------------------------------------
(* Batch timestamps *)

Stamped(i) == pc[i] \notin {"unspawned", "spawned"}

\* Batch 0 is stamped before any other batch, and the clock goes on from there.
StampInv ==
  \A i \in Batches : Stamped(i) =>
    stamp[i] <= timestamp_from_elapsed(clock) /\ stamp[0] <= stamp[i]

TimeInv == JoinedInv /\ StampInv

\* A later time stands for a later event time, up to where event times saturate.
LEMMA LaterTimes ==
  ASSUME NEW a \in Nat, NEW b \in Nat, a <= b
  PROVE  /\ timestamp_from_elapsed(b) \in 0 .. U64Max
         /\ timestamp_from_elapsed(a) <= timestamp_from_elapsed(b)
BY TimeAssumption DEF timestamp_from_elapsed, saturating_add, SmallerOf

\* Time goes on, and so do the event times it stands for.
LEMMA TimeGoesOn ==
  ASSUME TypeOK, [Next]_vars, clock' \in 0 .. MaxClock
  PROVE  /\ timestamp_from_elapsed(clock') \in 0 .. U64Max
         /\ timestamp_from_elapsed(clock) <= timestamp_from_elapsed(clock')
<1>1. clock <= clock'
  BY DEF Next, Main, StartPriming, FinishPriming, PrimingPanics, SpawnNext, StopSpawning, JoinAll,
     StopReporter, Report, Task, Stamp, Send, Join, CountTarget, Panic, Settle, Backend, Land, Answer,
     Break, Tick, Reporter, LoadSent, LoadFailed, PrintLine, Finished, vars, backendVars, TypeOK
<1>2. clock \in Nat /\ clock' \in Nat
  BY TimeAssumption DEF TypeOK
<1> QED
  BY <1>1, <1>2, LaterTimes

\* A batch is stamped once, by the clock.
LEMMA StampSteps ==
  ASSUME MainInv, [Next]_vars
  PROVE  \/ stamp' = stamp /\ \A i \in Batches : Stamped(i)' <=> Stamped(i)
         \/ \E i \in Batches :
              /\ pc[i] = "spawned" /\ pc' = [pc EXCEPT ![i] = "generating"]
              /\ stamp' = [stamp EXCEPT ![i] = timestamp_from_elapsed(clock)]
              /\ clock' = clock
<1> USE DEF MainInv, Stamped
<1>0. pc \in [Batches -> PCs]
  BY DEF TypeOK
<1>1. CASE StartPriming \/ SpawnNext
  <2>1. PICK i \in Batches : pc[i] = "unspawned" /\ pc' = [pc EXCEPT ![i] = "spawned"]
    BY <1>1, BatchStart
  <2> QED
    BY <1>0, <1>1, <2>1 DEF StartPriming, SpawnNext
<1>2. ASSUME NEW i \in Batches, Stamp(i)
      PROVE  /\ pc[i] = "spawned" /\ pc' = [pc EXCEPT ![i] = "generating"]
             /\ stamp' = [stamp EXCEPT ![i] = timestamp_from_elapsed(clock)]
             /\ clock' = clock
  BY <1>2 DEF Stamp, backendVars
<1>3. ASSUME NEW i \in Batches, Task(i), ~Stamp(i)
      PROVE  stamp' = stamp /\ \A j \in Batches : Stamped(j)' <=> Stamped(j)
  <2>1. /\ stamp' = stamp /\ Stamped(i)
        /\ \E p \in PCs \ {"unspawned", "spawned"} : pc' = [pc EXCEPT ![i] = p]
    BY <1>3 DEF Task, Send, Join, CountTarget, Panic, Settle, AfterTarget, PCs, Targets, OpenObserve
  <2> QED
    BY <1>0, <2>1
<1>4. CASE ~(StartPriming \/ SpawnNext) /\ ~(\E i \in Batches : Task(i))
  BY <1>4 DEF Next, Main, FinishPriming, PrimingPanics, StopSpawning, JoinAll, StopReporter, Report,
     Backend, Land, Answer, Break, Tick, Reporter, LoadSent, LoadFailed, PrintLine, Finished, vars, taskVars
<1> QED
  BY <1>1, <1>2, <1>3, <1>4

\* Batch 0 is stamped no later than any other batch.
THEOREM TimeInvariant == Spec => []TimeInv
<1>1. Init => StampInv
  BY DEF Init, StampInv, Stamped
<1>2. ASSUME TimeInv, [Next]_vars, JoinedInv' PROVE StampInv'
  <2> USE <1>2 DEF TimeInv, JoinedInv, CountingInv, DeliveryInv, MainInv
  <2>0. /\ timestamp_from_elapsed(clock) \in 0 .. U64Max /\ timestamp_from_elapsed(clock') \in 0 .. U64Max
        /\ timestamp_from_elapsed(clock) <= timestamp_from_elapsed(clock')
        /\ stamp \in [Batches -> 0 .. U64Max] /\ pc \in [Batches -> PCs] /\ 0 \in Batches
    <3>1. timestamp_from_elapsed(clock) \in 0 .. U64Max
      BY EventTimes
    <3>2. clock' \in 0 .. MaxClock
      BY DEF TypeOK
    <3>3. /\ timestamp_from_elapsed(clock') \in 0 .. U64Max
          /\ timestamp_from_elapsed(clock) <= timestamp_from_elapsed(clock')
      BY <3>2, TimeGoesOn
    <3> QED
      BY <3>1, <3>3, BatchStarts DEF TypeOK
  <2>3. timestamp_from_elapsed(clock)' = timestamp_from_elapsed(clock')
    OBVIOUS
  <2>1. CASE stamp' = stamp /\ \A i \in Batches : Stamped(i)' <=> Stamped(i)
    <3>1. ASSUME NEW i \in Batches, Stamped(i)'
          PROVE  stamp'[i] <= timestamp_from_elapsed(clock') /\ stamp'[0] <= stamp'[i]
      <4>1. stamp[i] <= timestamp_from_elapsed(clock) /\ stamp[0] <= stamp[i] /\ stamp[i] \in 0 .. U64Max
        BY <2>0, <2>1, <3>1 DEF StampInv
      <4> QED
        BY <2>0, <2>1, <4>1
    <3> QED
      BY <2>3, <3>1 DEF StampInv
  <2>2. ASSUME NEW i \in Batches,
               pc[i] = "spawned", pc' = [pc EXCEPT ![i] = "generating"],
               stamp' = [stamp EXCEPT ![i] = timestamp_from_elapsed(clock)], clock' = clock
        PROVE  StampInv'
    <3>1. timestamp_from_elapsed(clock') = timestamp_from_elapsed(clock)
      BY <2>2 DEF timestamp_from_elapsed
    <3>2. ASSUME NEW j \in Batches, Stamped(j)'
          PROVE  stamp'[j] <= timestamp_from_elapsed(clock) /\ stamp'[0] <= stamp'[j]
      <4>1. CASE i = 0
        <5>1. j = 0
          BY <2>0, <2>2, <3>2, <4>1, ZeroFirst DEF Stamped
        <5> QED
          BY <2>0, <2>2, <4>1, <5>1
      <4>2. CASE i # 0
        <5>1. pc[0] = "done"
          BY <2>2, <4>2, ZeroFirst
        <5>2. stamp'[0] = stamp[0] /\ stamp[0] <= timestamp_from_elapsed(clock)
          BY <2>0, <2>2, <4>2, <5>1 DEF StampInv, Stamped
        <5>3. j # i => stamp'[j] = stamp[j] /\ Stamped(j)
          BY <2>0, <2>2, <3>2 DEF Stamped
        <5> QED
          BY <2>0, <2>2, <5>2, <5>3 DEF StampInv
      <4> QED
        BY <4>1, <4>2
    <3> QED
      BY <2>3, <3>1, <3>2 DEF StampInv
  <2> QED
    BY <2>1, <2>2, StampSteps
<1> QED
  BY <1>1, <1>2, JoinedInvariant, PTL DEF Spec, TimeInv

-----------------------------------------------------------------------------
(* The creation time of a stream *)

\* A stream is created by rows it holds, no earlier than batch 0, and holds no
\* row that is earlier than its creation.
CreatedInv ==
  \A t \in Enabled \cap OpenObserve :
    /\ created_at[t] # Unset => stored[t] # {} /\ stamp[0] <= created_at[t]
    /\ \A i \in Batches : net[i][t] = "landed" => \A r \in Kept(i, t) :
         created_at[t] # Unset /\ created_at[t] <= EventTime(i, r)

CreationInv == TimeInv /\ CreatedInv

\* A batch's first record has the batch's event time, its others no earlier one
\* and each one no later than the next.
LEMMA RowTimes ==
  ASSUME TypeOK, CutInv, NEW i \in Batches
  PROVE  /\ pc[i] # "unspawned" => EventTime(i, start_record_idx(i)) = stamp[i]
         /\ \A r \in RecordsOf(i) : EventTime(i, r) \in 0 .. U64Max /\ stamp[i] <= EventTime(i, r)
         /\ \A q, r \in RecordsOf(i) : q <= r => EventTime(i, q) <= EventTime(i, r)
<1>1. stamp[i] \in 0 .. U64Max /\ U64Max \in Nat /\ start_record_idx(i) \in Nat
  BY TimeAssumption, BatchStarts DEF TypeOK
<1>2. \A r \in RecordsOf(i) : r \in Int /\ start_record_idx(i) <= r
  BY StartedBatch
<1> QED
  BY <1>1, <1>2 DEF EventTime, saturating_add, SmallerOf

\* Batch 0 is stamped before a backend hears of any batch.
LEMMA ZeroIsStamped ==
  ASSUME DeliveryInv, NEW i \in Batches, NEW t \in Enabled, net[i][t] # "idle"
  PROVE  Stamped(0) /\ Stamped(i) /\ (i # 0 => Accepted(0) /\ batch_idx > 1)
<1> USE DEF DeliveryInv, MainInv
<1>1. Stamped(i)
  BY DEF WireInv, Unsent, Stamped
<1>2. i # 0 => pc[0] = "done" /\ Accepted(0) /\ batch_idx > 1
  BY <1>1, ZeroFirst DEF Stamped
<1> QED
  BY <1>1, <1>2 DEF Stamped

\* A stream that holds rows has seen batch 0 or holds all of it, so a creation
\* time that is there when a request lands is no later than the request's rows.
LEMMA CreatedEarlier ==
  ASSUME CreationInv, NEW i \in Batches, NEW t \in Enabled \cap OpenObserve,
         net[i][t] = "queued", created_at[t] # Unset
  PROVE  created_at[t] <= stamp[i]
<1> USE DEF CreationInv, TimeInv, JoinedInv, CountingInv, DeliveryInv, MainInv
<1>1. PICK r \in stored[t], j \in Batches : r \in RecordsOf(j) /\ net[j][t] = "landed"
  BY DEF CreatedInv, WireInv
<1>2. i # 0 \/ j # 0
  BY <1>1
<1>3. Accepted(0) /\ 0 \in Batches /\ pc[0] # "unspawned"
  BY <1>1, <1>2, ZeroIsStamped, BatchStarts DEF Stamped
<1>4. start_record_idx(0) \in Kept(0, t)
  BY <1>3, StartedBatch DEF Kept, Accepted, WireInv
<1>5. net[0][t] = "landed"
  BY <1>3, <1>4, KeptIsLanded
<1>6. created_at[t] <= EventTime(0, start_record_idx(0))
  BY <1>3, <1>4, <1>5 DEF CreatedInv
<1>7. created_at[t] <= stamp[0] /\ stamp[0] <= stamp[i]
  BY <1>3, <1>6, RowTimes, ZeroIsStamped DEF StampInv
<1> QED
  BY <1>3, <1>7, TimeAssumption DEF TypeOK

\* The creation times stay right in a step in which no request lands.
LEMMA NothingLands ==
  ASSUME CreationInv, [Next]_vars,
         UNCHANGED <<created_at, stored>>,
         \A i \in Batches, t \in Enabled : net'[i][t] = "landed" => net[i][t] = "landed"
  PROVE  CreatedInv'
<1> USE DEF CreationInv, TimeInv, JoinedInv, CountingInv, DeliveryInv, MainInv
<1>1. ASSUME NEW i \in Batches, Stamped(i)
      PROVE  stamp'[i] = stamp[i] /\ RecordsOf(i)' = RecordsOf(i)
  <2>1. stamp'[i] = stamp[i]
    BY <1>1, StampSteps DEF TypeOK, Stamped
  <2> QED
    BY <1>1, <2>1, RecordsStay DEF Stamped
<1>2. ASSUME NEW t \in Enabled \cap OpenObserve, NEW i \in Batches, net'[i][t] = "landed",
             NEW r \in Kept(i, t)'
      PROVE  created_at'[t] # Unset /\ created_at'[t] <= EventTime(i, r)'
  <2>1. net[i][t] = "landed" /\ Stamped(i)
    BY <1>2, ZeroIsStamped
  <2>2. r \in Kept(i, t) /\ EventTime(i, r)' = EventTime(i, r)
    BY <1>1, <1>2, <2>1 DEF Kept, EventTime, saturating_add, SmallerOf, start_record_idx
  <2> QED
    BY <2>1, <2>2 DEF CreatedInv
<1>3. ASSUME NEW t \in Enabled \cap OpenObserve, created_at'[t] # Unset
      PROVE  stored'[t] # {} /\ stamp'[0] <= created_at'[t]
  <2>1. stored[t] # {} /\ stamp[0] <= created_at[t]
    BY <1>3 DEF CreatedInv
  <2>2. \E j \in Batches : net[j][t] = "landed"
    BY <2>1 DEF WireInv
  <2>3. stamp'[0] = stamp[0]
    BY <1>1, <2>2, ZeroIsStamped, BatchStarts
  <2> QED
    BY <2>1, <2>3
<1> QED
  BY <1>2, <1>3 DEF CreatedInv

\* The creation times stay right when a request lands, whichever it is.
LEMMA OneLands ==
  ASSUME CreationInv, [Next]_vars, NEW i \in Batches, NEW u \in Enabled, Land(i, u)
  PROVE  CreatedInv'
<1> USE DEF CreationInv, TimeInv, JoinedInv, CountingInv, DeliveryInv, MainInv
<1>1. PICK kept \in Keepable(i, u) :
        stored' = [stored EXCEPT ![u] = @ \cup kept] /\ CreateStream(i, u, kept)
  BY DEF Land
<1>2. /\ kept \subseteq RecordsOf(i)
      /\ net[i][u] = "queued" /\ net' = [net EXCEPT ![i] = [@ EXCEPT ![u] = "landed"]]
      /\ stamp' = stamp /\ \A j \in Batches : RecordsOf(j)' = RecordsOf(j)
  BY <1>1 DEF Land, Keepable, taskVars, RecordsOf, start_record_idx
<1>3. /\ net \in [Batches -> [Enabled -> {"idle", "queued", "landed"}]]
      /\ stored \in [Enabled -> SUBSET Records]
      /\ created_at \in [Enabled -> {Unset} \cup 0 .. U64Max]
      /\ stamp \in [Batches -> 0 .. U64Max]
      /\ 0 \in Batches
  BY BatchStarts DEF TypeOK
<1>4. \A j \in Batches : \A r : EventTime(j, r)' = EventTime(j, r)
  BY <1>2 DEF EventTime, saturating_add, SmallerOf, start_record_idx
\* The other streams do not move.
<1>5. ASSUME NEW t \in Enabled \cap OpenObserve, t # u
      PROVE  /\ created_at'[t] # Unset => stored'[t] # {} /\ stamp'[0] <= created_at'[t]
             /\ \A j \in Batches : net'[j][t] = "landed" => \A r \in Kept(j, t)' :
                  created_at'[t] # Unset /\ created_at'[t] <= EventTime(j, r)'
  <2>1. /\ created_at'[t] = created_at[t] /\ stored'[t] = stored[t]
        /\ \A j \in Batches : net'[j][t] = net[j][t] /\ Kept(j, t)' = Kept(j, t)
    BY <1>1, <1>2, <1>3, <1>5 DEF CreateStream, Kept
  <2> QED
    BY <1>2, <1>4, <2>1 DEF CreatedInv
\* The stream that the rows reach is created by the first of them, unless it
\* had been created before.
<1>6. ASSUME u \in OpenObserve
      PROVE  /\ created_at'[u] # Unset => stored'[u] # {} /\ stamp'[0] <= created_at'[u]
             /\ \A j \in Batches : net'[j][u] = "landed" => \A r \in Kept(j, u)' :
                  created_at'[u] # Unset /\ created_at'[u] <= EventTime(j, r)'
  <2>1. stored'[u] = stored[u] \cup kept
    BY <1>1, <1>3
  <2>2. \A j \in Batches : \A r \in Kept(j, u)' :
          r \in Kept(j, u) \/ (j = i /\ r \in kept)
    <3>1. ASSUME NEW j \in Batches, NEW r \in Kept(j, u)'
          PROVE  r \in Kept(j, u) \/ (j = i /\ r \in kept)
      <4>1. r \in stored[u] \cup kept /\ r \in RecordsOf(j)
        BY <1>2, <2>1, <3>1 DEF Kept
      <4>2. r \in kept => j = i
        BY <1>2, <4>1, BatchesDisjoint
      <4> QED
        BY <4>1, <4>2 DEF Kept
    <3> QED
      BY <3>1
  <2>3. \A j \in Batches : Kept(j, u) # {} => net[j][u] = "landed"
    BY KeptIsLanded
  <2>4. \A j \in Batches : \A r \in Kept(j, u) :
          created_at[u] # Unset /\ created_at[u] <= EventTime(j, r)
    BY <1>6, <2>3 DEF CreatedInv
  <2>5. CASE created_at[u] = Unset /\ kept # {}
    <3>1. PICK first \in kept : /\ \A r \in kept : first <= r
                                /\ created_at' = [created_at EXCEPT ![u] = EventTime(i, first)]
      BY <1>1, <1>6, <2>5 DEF CreateStream
    <3>2. created_at'[u] = EventTime(i, first) /\ EventTime(i, first) \in 0 .. U64Max
          /\ stamp[i] <= EventTime(i, first)
      BY <1>2, <1>3, <3>1, RowTimes
    <3>3. stamp[0] <= stamp[i]
      BY <1>2, ZeroIsStamped DEF StampInv
    <3>4. \A j \in Batches : Kept(j, u) = {}
      BY <2>4, <2>5
    <3>5. \A r \in kept : EventTime(i, first) <= EventTime(i, r)
      BY <1>2, <3>1, RowTimes
    <3>6. created_at'[u] # Unset /\ stamp[0] <= created_at'[u]
      BY <1>3, <3>2, <3>3, TimeAssumption DEF Unset
    <3> QED
      BY <1>2, <1>4, <2>1, <2>2, <2>5, <3>2, <3>4, <3>5, <3>6
  <2>6. CASE created_at[u] # Unset
    <3>1. created_at'[u] = created_at[u]
      BY <1>1, <2>6 DEF CreateStream
    <3>2. created_at[u] <= stamp[i] /\ created_at[u] \in 0 .. U64Max
      BY <1>2, <1>3, <1>6, <2>6, CreatedEarlier
    <3>3. \A r \in kept : created_at[u] <= EventTime(i, r)
      <4>1. \A r \in kept : EventTime(i, r) \in 0 .. U64Max /\ stamp[i] <= EventTime(i, r)
        BY <1>2, RowTimes
      <4> QED
        BY <1>3, <3>2, <4>1, TimeAssumption
    <3> QED
      BY <1>2, <1>4, <1>6, <2>1, <2>2, <2>4, <2>6, <3>1, <3>3 DEF CreatedInv
  <2>7. CASE created_at[u] = Unset /\ kept = {}
    <3>1. created_at'[u] = Unset
      BY <1>1, <2>7 DEF CreateStream
    <3> QED
      BY <2>2, <2>4, <2>7, <3>1
  <2> QED
    BY <2>5, <2>6, <2>7
<1> QED
  BY <1>5, <1>6 DEF CreatedInv

\* A stream is dated by rows it holds, none of which is earlier.
THEOREM CreationInvariant == Spec => []CreationInv
<1>1. Init => CreatedInv
  BY DEF Init, CreatedInv
<1>2. ASSUME CreationInv, [Next]_vars PROVE CreatedInv'
  <2>1. ASSUME NEW i \in Batches, NEW u \in Enabled, Land(i, u)
        PROVE  CreatedInv'
    BY <1>2, <2>1, OneLands
  <2>2. CASE ~(\E i \in Batches, u \in Enabled : Land(i, u))
    <3>1. UNCHANGED <<created_at, stored>>
      BY <1>2, <2>2 DEF Next, Main, StartPriming, FinishPriming, PrimingPanics, SpawnNext, StopSpawning,
         JoinAll, StopReporter, Report, Task, Stamp, Send, Join, CountTarget, Panic, Settle, Backend,
         Answer, Break, Tick, Reporter, LoadSent, LoadFailed, PrintLine, Finished, vars, backendVars
    <3>2. \/ net' = net
          \/ \E i \in Batches : net' = [net EXCEPT ![i] = [t \in Enabled |-> "queued"]]
      BY <1>2, <2>2 DEF Next, Main, StartPriming, FinishPriming, PrimingPanics, SpawnNext, StopSpawning,
         JoinAll, StopReporter, Report, Task, Stamp, Send, Join, CountTarget, Panic, Settle, Backend,
         Answer, Break, Tick, Reporter, LoadSent, LoadFailed, PrintLine, Finished, vars, backendVars
    <3>3. \A i \in Batches, t \in Enabled : net'[i][t] = "landed" => net[i][t] = "landed"
      <4>1. net \in [Batches -> [Enabled -> {"idle", "queued", "landed"}]]
        BY <1>2 DEF CreationInv, TimeInv, JoinedInv, CountingInv, DeliveryInv, MainInv, TypeOK
      <4> QED
        BY <3>2, <4>1
    <3> QED
      BY <1>2, <3>1, <3>3, NothingLands
  <2> QED
    BY <2>1, <2>2
<1> QED
  BY <1>1, <1>2, TimeInvariant, PTL DEF Spec, CreationInv

\* A stream's creation time is no later than any event it holds, whichever
\* batch reached the backend first; and once batch 0 was accepted it is the time
\* of record 0, which is what the priming of main.rs:896-914 is for.
THEOREM CreationIsEarliest == Spec => []CreatedAtIsEarliest
<1>1. ASSUME CreationInv PROVE CreatedAtIsEarliest
  <2> USE <1>1 DEF CreationInv, TimeInv, JoinedInv, CountingInv, DeliveryInv, MainInv
  <2> SUFFICES ASSUME NEW t \in Enabled \cap OpenObserve
               PROVE  /\ \A i \in Batches : \A r \in Kept(i, t) :
                           created_at[t] # Unset /\ created_at[t] <= EventTime(i, r)
                      /\ batch_idx > 1 => created_at[t] = stamp[0]
    BY DEF CreatedAtIsEarliest
  <2>1. \A i \in Batches : \A r \in Kept(i, t) :
          created_at[t] # Unset /\ created_at[t] <= EventTime(i, r)
    BY KeptIsLanded DEF CreatedInv
  <2>2. ASSUME batch_idx > 1 PROVE created_at[t] = stamp[0]
    <3>1. pc[0] = "done" /\ Accepted(0) /\ 0 \in Batches
      BY <2>2, BatchStarts DEF PhaseInv
    <3>2. start_record_idx(0) \in Kept(0, t) /\ EventTime(0, start_record_idx(0)) = stamp[0]
      BY <3>1, StartedBatch, RowTimes DEF Kept, Accepted, WireInv
    <3>3. created_at[t] # Unset /\ created_at[t] <= stamp[0]
      BY <2>1, <3>1, <3>2
    <3>4. created_at[t] \in 0 .. U64Max /\ stamp[0] \in 0 .. U64Max /\ stamp[0] <= created_at[t]
      BY <3>1, <3>3 DEF CreatedInv, TypeOK
    <3> QED
      BY <3>3, <3>4, TimeAssumption
  <2> QED
    BY <2>1, <2>2
<1> QED
  BY <1>1, CreationInvariant, PTL

-----------------------------------------------------------------------------
(* The range of event times *)

\* The extremes bound the accepted batches, and each is one of theirs as soon
\* as one has moved it.
RangeInv ==
  /\ \A i \in AcceptedBatches : timestamp_min <= stamp[i] /\ LastEventTime(i) <= timestamp_max
  /\ timestamp_min = U64Max \/ \E i \in AcceptedBatches : timestamp_min = stamp[i]
  /\ timestamp_max = 0 \/ \E i \in AcceptedBatches : timestamp_max = LastEventTime(i)

ExtremesInv == TimeInv /\ RangeInv

\* Only a batch that is accepted moves the extremes, and it moves both.
LEMMA RangeSteps ==
  ASSUME CountingInv, [Next]_vars
  PROVE  \/ AcceptedBatches' = AcceptedBatches /\ UNCHANGED <<timestamp_min, timestamp_max>>
         \/ \E i \in Batches :
              /\ pc[i] = "settling" /\ AcceptedBatches' = AcceptedBatches \cup {i}
              /\ timestamp_min' = SmallerOf(timestamp_min, stamp[i])
              /\ timestamp_max' = LargerOf(timestamp_max, LastEventTime(i))
<1> USE DEF CountingInv, DeliveryInv, MainInv
<1>1. ASSUME NEW i \in Batches, Settle(i), Accepted(i)
      PROVE  /\ pc[i] = "settling" /\ AcceptedBatches' = AcceptedBatches \cup {i}
             /\ timestamp_min' = SmallerOf(timestamp_min, stamp[i])
             /\ timestamp_max' = LargerOf(timestamp_max, LastEventTime(i))
  <2>1. pc' = [pc EXCEPT ![i] = "done"] /\ result' = result
    BY <1>1 DEF Settle, backendVars
  <2> QED
    BY <1>1, <2>1 DEF Settle, AcceptedBatches, Accepted, TypeOK
<1>2. CASE ~(\E i \in Batches : Settle(i) /\ Accepted(i))
  <2>1. UNCHANGED <<sent, timestamp_min, timestamp_max>>
    BY <1>2 DEF Next, Main, StartPriming, FinishPriming, PrimingPanics, SpawnNext, StopSpawning,
       JoinAll, StopReporter, Report, Task, Stamp, Send, Join, CountTarget, Panic, Settle, Backend, Land,
       Answer, Break, Tick, Reporter, LoadSent, LoadFailed, PrintLine, Finished, vars, counterVars, runCounters
  <2>2. \A i \in Batches : pc[i] # "unspawned" => sent + size[i] # sent
    BY StartedBatch DEF TypeOK
  <2> QED
    BY <2>1, <2>2, Sides
<1> QED
  BY <1>1, <1>2

\* The extremes kept by fetch_min and fetch_max (main.rs:666-674) bound the times
\* of the accepted batches and are times of theirs.
THEOREM ExtremesInvariant == Spec => []ExtremesInv
<1>1. Init => RangeInv
  BY DEF Init, RangeInv, AcceptedBatches
<1>2. ASSUME ExtremesInv, [Next]_vars PROVE RangeInv'
  <2> USE <1>2 DEF ExtremesInv, TimeInv, JoinedInv, CountingInv, DeliveryInv, MainInv
  <2>1. ASSUME NEW i \in Batches, Stamped(i)
        PROVE  /\ stamp'[i] = stamp[i] /\ LastEventTime(i)' = LastEventTime(i)
               /\ stamp[i] \in 0 .. U64Max /\ LastEventTime(i) \in 0 .. U64Max
    <3>1. stamp'[i] = stamp[i]
      BY <2>1, StampSteps DEF TypeOK, Stamped
    <3>2. size'[i] = size[i]
      BY <2>1, RecordsStay DEF Stamped
    <3> QED
      BY <2>1, <3>1, <3>2, EventTimes
         DEF LastEventTime, saturating_add, SmallerOf, Stamped, TypeOK
  <2>2. \A i \in AcceptedBatches : i \in Batches /\ Stamped(i)
    BY DEF AcceptedBatches, Stamped
  <2>3. U64Max \in Nat /\ timestamp_min \in 0 .. U64Max /\ timestamp_max \in 0 .. U64Max
    BY TimeAssumption DEF TypeOK
  <2>4. CASE AcceptedBatches' = AcceptedBatches /\ UNCHANGED <<timestamp_min, timestamp_max>>
    BY <2>1, <2>2, <2>4 DEF RangeInv
  <2>5. ASSUME NEW i \in Batches,
               pc[i] = "settling", AcceptedBatches' = AcceptedBatches \cup {i},
               timestamp_min' = SmallerOf(timestamp_min, stamp[i]),
               timestamp_max' = LargerOf(timestamp_max, LastEventTime(i))
        PROVE  RangeInv'
    <3>1. Stamped(i)
      BY <2>5 DEF Stamped
    <3> DEFINE a == stamp[i]
               z == LastEventTime(i)
    <3>2. a \in 0 .. U64Max /\ z \in 0 .. U64Max /\ stamp'[i] = a /\ LastEventTime(i)' = z
      BY <2>1, <3>1
    <3> HIDE DEF a, z
    <3>3. /\ timestamp_min' <= timestamp_min /\ timestamp_min' <= a
          /\ timestamp_min' = timestamp_min \/ timestamp_min' = a
          /\ timestamp_max <= timestamp_max' /\ z <= timestamp_max'
          /\ timestamp_max' = timestamp_max \/ timestamp_max' = z
          /\ timestamp_min' \in 0 .. U64Max /\ timestamp_max' \in 0 .. U64Max
      BY <2>3, <2>5, <3>2 DEF SmallerOf, LargerOf, a, z
    <3>4. ASSUME NEW j \in AcceptedBatches'
          PROVE  timestamp_min' <= stamp'[j] /\ LastEventTime(j)' <= timestamp_max'
      <4>1. CASE j = i
        BY <3>2, <3>3, <4>1
      <4>2. CASE j # i
        <5>1. j \in AcceptedBatches /\ j \in Batches /\ Stamped(j)
          BY <2>2, <2>5, <3>4, <4>2
        <5>2. timestamp_min <= stamp[j] /\ LastEventTime(j) <= timestamp_max
          BY <5>1 DEF RangeInv
        <5> QED
          BY <2>1, <2>3, <3>3, <5>1, <5>2
      <4> QED
        BY <4>1, <4>2
    <3>5. timestamp_min' = U64Max \/ \E j \in AcceptedBatches' : timestamp_min' = stamp'[j]
      BY <2>1, <2>2, <2>5, <3>2, <3>3 DEF RangeInv
    <3>6. timestamp_max' = 0 \/ \E j \in AcceptedBatches' : timestamp_max' = LastEventTime(j)'
      BY <2>1, <2>2, <2>5, <3>2, <3>3 DEF RangeInv
    <3> QED
      BY <3>4, <3>5, <3>6 DEF RangeInv
  <2> QED
    BY <2>4, <2>5, RangeSteps
<1> QED
  BY <1>1, <1>2, TimeInvariant, PTL DEF Spec, ExtremesInv

\* The last record of an accepted batch is stored everywhere, with the batch's
\* last event time.
LEMMA LastIsStored ==
  ASSUME CountingInv, NEW i \in AcceptedBatches, NEW t \in Enabled
  PROVE  stamp[i] \in StoredTimes(t) /\ LastEventTime(i) \in StoredTimes(t)
<1> USE DEF CountingInv, DeliveryInv, MainInv
<1>1. i \in Batches /\ pc[i] # "unspawned" /\ RecordsOf(i) \subseteq Kept(i, t)
  BY DEF AcceptedBatches, Accepted, WireInv, Kept
<1> DEFINE last == start_record_idx(i) + size[i] - 1
<1>2. start_record_idx(i) \in RecordsOf(i) /\ EventTime(i, start_record_idx(i)) = stamp[i]
  BY <1>1, StartedBatch, RowTimes
<1>3. last \in RecordsOf(i) /\ EventTime(i, last) = LastEventTime(i)
  <2>1. size[i] \in Nat /\ size[i] >= 1 /\ start_record_idx(i) \in Nat
    BY <1>1, StartedBatch, BatchStarts
  <2>2. last \in RecordsOf(i)
    BY <2>1 DEF RecordsOf
  <2>3. last - start_record_idx(i) = size[i] - 1
    BY <2>1
  <2> QED
    BY <2>2, <2>3 DEF EventTime, LastEventTime
<1> QED
  BY <1>1, <1>2, <1>3 DEF StoredTimes

\* The range of event times in the stats file is one that every enabled backend
\* holds: its start is the earliest time stored, its end is a stored one.
THEOREM EventRangeIsHeld == Spec => []EventRangeIsStored
<1>1. ASSUME ExtremesInv PROVE EventRangeIsStored
  <2> USE <1>1 DEF ExtremesInv, TimeInv, JoinedInv, CountingInv, DeliveryInv, MainInv
  <2> SUFFICES ASSUME stats.written, NEW t \in Enabled
               PROVE  /\ IF stats.timestamp_min_us = Unset
                         THEN StoredTimes(t) = {U64Max}
                         ELSE /\ stats.timestamp_min_us \in StoredTimes(t)
                              /\ \A e \in StoredTimes(t) : stats.timestamp_min_us <= e
                      /\ IF stats.timestamp_max_us = Unset
                         THEN \A i \in AcceptedBatches : LastEventTime(i) = 0
                         ELSE stats.timestamp_max_us \in StoredTimes(t)
    BY DEF EventRangeIsStored
  <2> DEFINE MinIsStored ==
               IF stats.timestamp_min_us = Unset
               THEN StoredTimes(t) = {U64Max}
               ELSE /\ stats.timestamp_min_us \in StoredTimes(t)
                    /\ \A e \in StoredTimes(t) : stats.timestamp_min_us <= e
             MaxIsStored ==
               IF stats.timestamp_max_us = Unset
               THEN \A i \in AcceptedBatches : LastEventTime(i) = 0
               ELSE stats.timestamp_max_us \in StoredTimes(t)
  <2>1. /\ stats.timestamp_min_us = IF timestamp_min = U64Max THEN Unset ELSE timestamp_min
        /\ stats.timestamp_max_us = IF timestamp_max = 0 THEN Unset ELSE timestamp_max
        /\ 0 \in AcceptedBatches
    BY BatchStarts DEF StatsInv, AcceptedBatches
  <2>2. /\ timestamp_min \in 0 .. U64Max /\ timestamp_max \in 0 .. U64Max /\ U64Max \in Nat
        /\ 0 \in Batches /\ Unset \notin 0 .. U64Max
    BY TimeAssumption, BatchStarts DEF TypeOK, Unset
  <2>3. \A i \in AcceptedBatches : /\ stamp[i] \in 0 .. U64Max /\ LastEventTime(i) \in 0 .. U64Max
                                   /\ stamp[0] <= stamp[i]
    BY EventTimes DEF AcceptedBatches, TypeOK, StampInv, Stamped
  <2>4. ASSUME NEW e \in StoredTimes(t)
        PROVE  e \in 0 .. U64Max /\ stamp[0] <= e
    <3>1. PICK i \in Batches : \E r \in Kept(i, t) : e = EventTime(i, r)
      BY <2>4 DEF StoredTimes
    <3>2. stamp[0] <= stamp[i]
      BY <3>1, KeptIsLanded, ZeroIsStamped DEF StampInv
    <3>3. e \in 0 .. U64Max /\ stamp[i] <= e
      BY <3>1, RowTimes DEF Kept
    <3> QED
      BY <2>2, <3>2, <3>3 DEF TypeOK
  <2>5. stamp[0] \in StoredTimes(t) /\ stamp[0] \in 0 .. U64Max /\ timestamp_min <= stamp[0]
    BY <2>1, <2>3, LastIsStored DEF RangeInv
  <2>6. ASSUME timestamp_min = U64Max PROVE MinIsStored
    <3>1. stamp[0] = U64Max
      BY <2>2, <2>5, <2>6
    <3>2. \A e \in StoredTimes(t) : e = U64Max
      BY <2>2, <2>4, <3>1
    <3>3. StoredTimes(t) = {U64Max}
      BY <2>5, <3>1, <3>2
    <3> QED
      BY <2>1, <2>6, <3>3
  <2>7. ASSUME timestamp_min # U64Max PROVE MinIsStored
    <3>1. timestamp_min = stamp[0]
      BY <2>2, <2>3, <2>5, <2>7 DEF RangeInv
    <3> QED
      BY <2>1, <2>2, <2>4, <2>5, <2>7, <3>1
  <2>8. ASSUME timestamp_max = 0 PROVE MaxIsStored
    <3>1. \A i \in AcceptedBatches : LastEventTime(i) = 0
      BY <2>2, <2>3, <2>8 DEF RangeInv
    <3> QED
      BY <2>1, <2>8, <3>1
  <2>9. ASSUME timestamp_max # 0 PROVE MaxIsStored
    <3>1. timestamp_max \in StoredTimes(t)
      BY <2>9, LastIsStored DEF RangeInv
    <3> QED
      BY <2>1, <2>2, <2>9, <3>1
  <2> QED
    BY <2>6, <2>7, <2>8, <2>9
<1> QED
  BY <1>1, ExtremesInvariant, PTL

-----------------------------------------------------------------------------
(* The driver implements its contract, as long as stderr can be written *)

\* What the contract's steps rest on: the account of the run, and no panic.
BoundInv == JoinedInv /\ NoPanic

Delivered == RecordsOfAll(AcceptedBatches)
RejectedRecords == RecordsOfAll(FailedBatches)

\* Batches that were settled keep their side and their records, and a batch
\* that is settled joins one side with its records.
LEMMA SidesOfRecords ==
  ASSUME JoinedInv, [Next]_vars
  PROVE  /\ AcceptedBatches' = AcceptedBatches => Delivered' = Delivered
         /\ FailedBatches' = FailedBatches => RejectedRecords' = RejectedRecords
         /\ \A i \in Batches : pc[i] # "unspawned" =>
              /\ AcceptedBatches' = AcceptedBatches \cup {i} => Delivered' = Delivered \cup RecordsOf(i)
              /\ FailedBatches' = FailedBatches \cup {i} => RejectedRecords' = RejectedRecords \cup RecordsOf(i)
<1> USE DEF JoinedInv, CountingInv, DeliveryInv, MainInv
<1> DEFINE A == AcceptedBatches
           F == FailedBatches
<1>1. ASSUME NEW i \in Batches, pc[i] # "unspawned" PROVE RecordsOf(i)' = RecordsOf(i)
  BY <1>1, RecordsStay
<1>2. \A i \in A \cup F : i \in Batches /\ pc[i] # "unspawned"
  BY DEF AcceptedBatches, FailedBatches
<1>3. /\ Delivered = UNION {RecordsOf(i) : i \in A} /\ RejectedRecords = UNION {RecordsOf(i) : i \in F}
      /\ Delivered' = UNION {RecordsOf(i)' : i \in A'} /\ RejectedRecords' = UNION {RecordsOf(i)' : i \in F'}
  BY DEF Delivered, RejectedRecords, RecordsOfAll
<1> HIDE DEF A, F
<1>4. A' = A => Delivered' = Delivered
  BY <1>1, <1>2, <1>3
<1>5. F' = F => RejectedRecords' = RejectedRecords
  BY <1>1, <1>2, <1>3
<1>6. ASSUME NEW i \in Batches, pc[i] # "unspawned"
      PROVE  /\ A' = A \cup {i} => Delivered' = Delivered \cup RecordsOf(i)
             /\ F' = F \cup {i} => RejectedRecords' = RejectedRecords \cup RecordsOf(i)
  BY <1>1, <1>2, <1>3, <1>6
<1> QED
  BY <1>4, <1>5, <1>6 DEF A, F

\* What is rejected is not delivered, and both are records of the run.
LEMMA SidesApart ==
  ASSUME JoinedInv
  PROVE  /\ Delivered \subseteq Records /\ RejectedRecords \subseteq Records
         /\ Delivered \cap RejectedRecords = {}
         /\ failed > 0 <=> RejectedRecords # {}
<1> USE DEF JoinedInv, CountingInv, DeliveryInv, MainInv
<1>1. Delivered \subseteq Records /\ RejectedRecords \subseteq Records
  BY StartedBatch DEF Delivered, RejectedRecords, RecordsOfAll, AcceptedBatches, FailedBatches
<1>2. Delivered \cap RejectedRecords = {}
  <2>1. \A i \in AcceptedBatches, j \in FailedBatches : RecordsOf(i) \cap RecordsOf(j) = {}
    BY BatchesDisjoint DEF AcceptedBatches, FailedBatches
  <2> QED
    BY <2>1 DEF Delivered, RejectedRecords, RecordsOfAll
<1>3. failed > 0 <=> RejectedRecords # {}
  <2>1. failed = Cardinality(RejectedRecords)
    BY DEF CountersInv, RejectedRecords
  <2>2. IsFiniteSet(RejectedRecords)
    BY <1>1, FiniteRecords, FS_Subset
  <2>3. Cardinality(RejectedRecords) \in Nat /\ (Cardinality(RejectedRecords) = 0 <=> RejectedRecords = {})
    BY <2>2, FS_CardinalityType, FS_EmptySet
  <2> QED
    BY <2>1, <2>3
<1> QED
  BY <1>1, <1>2, <1>3

\* The driver settles a batch: the contract delivers or rejects its records.
LEMMA SettleSettles ==
  ASSUME JoinedInv, [Next]_vars, NEW i \in Batches, Settle(i)
  PROVE  \E rows \in SUBSET Records : Contract!Deliver(rows) \/ Contract!Reject(rows)
<1> USE DEF JoinedInv, CountingInv, DeliveryInv, MainInv
<1>1. /\ pc[i] = "settling" /\ pc' = [pc EXCEPT ![i] = "done"]
      /\ exit' = exit /\ stored' = stored /\ result' = result
  BY DEF Settle, mainVars, exitVars, backendVars
<1>2. /\ RecordsOf(i) \in SUBSET Records /\ RecordsOf(i) # {}
      /\ RecordsOf(i) \cap (Delivered \cup RejectedRecords) = {}
  <2>1. \A j \in AcceptedBatches \cup FailedBatches : j \in Batches /\ j # i
    BY <1>1 DEF AcceptedBatches, FailedBatches
  <2>2. \A j \in AcceptedBatches \cup FailedBatches : RecordsOf(i) \cap RecordsOf(j) = {}
    BY <2>1, BatchesDisjoint
  <2>3. RecordsOf(i) \in SUBSET Records /\ RecordsOf(i) # {}
    BY <1>1, StartedBatch
  <2> QED
    BY <2>2, <2>3 DEF Delivered, RejectedRecords, RecordsOfAll
<1>3. Outcome = "running" /\ Outcome' = "running"
  <2>1. exit = Unset
    BY <1>1 DEF PhaseInv
  <2> QED
    BY <1>1, <2>1 DEF Outcome, Unset
<1>4. HeldEverywhere' = HeldEverywhere
  BY <1>1 DEF HeldEverywhere
\* Batch 0 is the first to be settled, and it was not rejected if another is.
<1>5. Delivered # {} \/ RejectedRecords = {}
  <2>1. CASE i = 0
    <3>1. \A j \in Batches : pc[j] # "done"
      BY <1>1, <2>1, ZeroFirst
    <3> QED
      BY <3>1 DEF FailedBatches, RejectedRecords, RecordsOfAll
  <2>2. CASE i # 0
    <3>1. 0 \in AcceptedBatches /\ RecordsOf(0) # {}
      BY <1>1, <2>2, ZeroFirst, BatchStarts, StartedBatch DEF AcceptedBatches
    <3> QED
      BY <3>1 DEF Delivered, RecordsOfAll
  <2> QED
    BY <2>1, <2>2
<1>6. CASE Accepted(i)
  <2>1. AcceptedBatches' = AcceptedBatches \cup {i} /\ FailedBatches' = FailedBatches
    BY <1>1, <1>6 DEF AcceptedBatches, FailedBatches, Accepted, TypeOK
  <2>2. Delivered' = Delivered \cup RecordsOf(i) /\ RejectedRecords' = RejectedRecords
    BY <1>1, <2>1, SidesOfRecords
  <2>3. RecordsOf(i) \subseteq HeldEverywhere
    BY <1>2, <1>6 DEF HeldEverywhere, WireInv, Accepted
  <2>4. Contract!Deliver(RecordsOf(i))
    BY <1>2, <1>3, <1>4, <1>5, <2>2, <2>3
       DEF Contract!Deliver, Contract!FailedToPrime, Contract!Unsettled, Delivered, RejectedRecords
  <2> QED
    BY <1>2, <2>4
<1>7. CASE ~Accepted(i)
  <2>1. AcceptedBatches' = AcceptedBatches /\ FailedBatches' = FailedBatches \cup {i}
    BY <1>1, <1>7 DEF AcceptedBatches, FailedBatches, Accepted, TypeOK
  <2>2. Delivered' = Delivered /\ RejectedRecords' = RejectedRecords \cup RecordsOf(i)
    BY <1>1, <2>1, SidesOfRecords
  <2>3. Contract!Reject(RecordsOf(i))
    BY <1>2, <1>3, <1>4, <1>5, <2>2
       DEF Contract!Reject, Contract!FailedToPrime, Contract!Unsettled, Delivered, RejectedRecords
  <2> QED
    BY <1>2, <2>3
<1> QED
  BY <1>6, <1>7

\* Rows land: records of the contract arrive.
LEMMA LandArrives ==
  ASSUME JoinedInv, [Next]_vars, NEW i \in Batches, NEW t \in Enabled, Land(i, t)
  PROVE  \E rows \in SUBSET Records : Contract!Arrive(rows)
<1> USE DEF JoinedInv, CountingInv, DeliveryInv, MainInv
<1>1. /\ pc' = pc /\ exit' = exit /\ result' = result
      /\ \E kept : stored' = [stored EXCEPT ![t] = @ \cup kept]
  BY DEF Land, mainVars, exitVars, taskVars
<1>2. HeldEverywhere \subseteq HeldEverywhere' /\ HeldEverywhere' \in SUBSET Records
  <2>1. \A u \in Enabled : stored[u] \subseteq stored'[u]
    BY <1>1 DEF TypeOK
  <2> QED
    BY <2>1 DEF HeldEverywhere, Records
<1>3. AcceptedBatches' = AcceptedBatches /\ FailedBatches' = FailedBatches
  BY <1>1 DEF AcceptedBatches, FailedBatches, Accepted
<1>4. Delivered' = Delivered /\ RejectedRecords' = RejectedRecords
  BY <1>3, SidesOfRecords
<1>5. Outcome' = Outcome
  BY <1>1 DEF Outcome
<1>6. Contract!Arrive(HeldEverywhere')
  BY <1>2, <1>4, <1>5 DEF Contract!Arrive, Delivered, RejectedRecords
<1> QED
  BY <1>2, <1>6

\* The driver exits: the contract's run ends, with the outcome it says.
LEMMA ExitEnds ==
  ASSUME BoundInv, [Next]_vars, Report \/ (FinishPriming /\ ~Accepted(0)),
         StderrBreaks = FALSE
  PROVE  Contract!End
<1> USE DEF BoundInv, JoinedInv, CountingInv, DeliveryInv, MainInv
<1>1. pc' = pc /\ result' = result /\ stored' = stored
  BY DEF Report, FinishPriming, taskVars, backendVars
<1>2. HeldEverywhere' = HeldEverywhere /\ Delivered' = Delivered /\ RejectedRecords' = RejectedRecords
  <2>1. AcceptedBatches' = AcceptedBatches /\ FailedBatches' = FailedBatches
    BY <1>1 DEF AcceptedBatches, FailedBatches, Accepted
  <2> QED
    BY <1>1, <2>1, SidesOfRecords DEF HeldEverywhere
<1>3. Outcome = "running"
  <2>1. exit = Unset
    BY DEF Report, FinishPriming, PhaseInv
  <2> QED
    BY <2>1 DEF Outcome, Unset
<1>4. Records # {}
  BY SizeAssumption DEF Records
<1>5. CASE Report
  <2>1. \A i \in Batches : pc[i] = "done"
    BY <1>5 DEF Report, PhaseInv, NoPanic
  <2>2. Delivered \cup RejectedRecords = Records
    <3>1. RecordsOfAll(Batches) = Records
      BY <1>5, JoinedIsOver DEF Report, Joined
    <3>2. AcceptedBatches \cup FailedBatches = Batches
      BY <2>1 DEF AcceptedBatches, FailedBatches
    <3> QED
      BY <3>1, <3>2 DEF Delivered, RejectedRecords, RecordsOfAll
  <2>3. exit' = IF failed > 0 THEN 1 ELSE 0
    BY <1>5 DEF Report, Exit
  <2>4. Outcome' = IF Delivered = Records THEN "complete" ELSE "incomplete"
    <3>1. failed > 0 <=> Delivered # Records
      BY <2>2, SidesApart
    <3> QED
      BY <2>3, <3>1 DEF Outcome, Unset
  <2> QED
    BY <1>2, <1>3, <2>2, <2>4 DEF Contract!End, Delivered, RejectedRecords
<1>6. CASE FinishPriming /\ ~Accepted(0)
  <2>1. pc[0] = "done" /\ exit' = 1
    BY <1>6 DEF FinishPriming, Exit
  <2>2. Delivered = {}
    <3>1. \A i \in Batches : i # 0 => pc[i] = "unspawned"
      BY <1>6, ZeroFirst
    <3>2. AcceptedBatches = {}
      BY <1>6, <3>1 DEF AcceptedBatches
    <3> QED
      BY <3>2 DEF Delivered, RecordsOfAll
  <2>3. RejectedRecords # {}
    <3>1. 0 \in FailedBatches /\ RecordsOf(0) # {}
      BY <1>6, <2>1, BatchStarts, StartedBatch DEF FailedBatches
    <3> QED
      BY <3>1 DEF RejectedRecords, RecordsOfAll
  <2>4. Outcome' = "incomplete"
    BY <2>1 DEF Outcome, Unset
  <2> QED
    BY <1>2, <1>3, <1>4, <2>2, <2>3, <2>4 DEF Contract!End, Contract!FailedToPrime, Delivered, RejectedRecords
<1> QED
  BY <1>5, <1>6

\* Every other step is none of the contract's business.
LEMMA OthersStutter ==
  ASSUME BoundInv, [Next]_vars,
         ~Report, ~(FinishPriming /\ ~Accepted(0)), \A i \in Batches : ~Settle(i),
         \A i \in Batches, t \in Enabled : ~Land(i, t)
  PROVE  UNCHANGED Contract!vars
<1> USE DEF BoundInv, JoinedInv, CountingInv, DeliveryInv, MainInv
<1>1. stored' = stored /\ sent' = sent /\ failed' = failed
  BY DEF Next, Main, StartPriming, FinishPriming, PrimingPanics, SpawnNext, StopSpawning, JoinAll,
     StopReporter, Task, Stamp, Send, Join, CountTarget, Panic, Backend, Answer, Break, Tick, Reporter,
     LoadSent, LoadFailed, PrintLine, Finished, vars, backendVars, counterVars, runCounters
<1>2. exit' = exit
  BY BatchStarts DEF Next, Main, StartPriming, FinishPriming, PrimingPanics, NoPanic, SpawnNext, StopSpawning,
     JoinAll, StopReporter, Task, Stamp, Send, Join, CountTarget, Panic, Backend, Answer, Break, Tick,
     Reporter, LoadSent, LoadFailed, PrintLine, Finished, vars, mainVars, exitVars
<1>3. AcceptedBatches' = AcceptedBatches /\ FailedBatches' = FailedBatches
  <2>1. \A i \in Batches : pc[i] # "unspawned" => sent + size[i] # sent /\ failed + size[i] # failed
    BY StartedBatch DEF TypeOK
  <2> QED
    BY <1>1, <2>1, Sides
<1>4. HeldEverywhere' = HeldEverywhere /\ Outcome' = Outcome
  BY <1>1, <1>2 DEF HeldEverywhere, Outcome
<1> QED
  BY <1>3, <1>4, SidesOfRecords DEF Contract!vars, Delivered, RejectedRecords

\* Every behaviour of the driver is one of the contract: batches are delivered
\* or rejected whole and once, a delivered record is held by every backend,
\* nothing follows a rejected first batch, and the status tells whether every
\* record was delivered.
THEOREM DriverImplementsContract ==
  ASSUME StderrBreaks = FALSE
  PROVE  Spec => ImplementsContract
<1>1. ASSUME Init PROVE Contract!Init
  <2>1. AcceptedBatches = {} /\ FailedBatches = {} /\ HeldEverywhere = {}
    BY <1>1, EnabledAssumption DEF Init, AcceptedBatches, FailedBatches, HeldEverywhere
  <2>2. Outcome = "running"
    BY <1>1 DEF Init, Outcome, Unset
  <2> QED
    BY <2>1, <2>2 DEF Contract!Init, RecordsOfAll
<1>2. ASSUME BoundInv, [Next]_vars PROVE [Contract!Next]_Contract!vars
  <2>1. ASSUME NEW i \in Batches, Settle(i) PROVE Contract!Next
    BY <1>2, <2>1, SettleSettles DEF BoundInv, Contract!Next
  <2>2. ASSUME NEW i \in Batches, NEW t \in Enabled, Land(i, t) PROVE Contract!Next
    BY <1>2, <2>2, LandArrives DEF BoundInv, Contract!Next
  <2>3. ASSUME Report \/ (FinishPriming /\ ~Accepted(0)) PROVE Contract!Next
    BY <1>2, <2>3, ExitEnds DEF Contract!Next
  <2> QED
    BY <1>2, <2>1, <2>2, <2>3, OthersStutter
<1> QED
  BY <1>1, <1>2, JoinedInvariant, OnlyStderrPanics, PTL DEF Spec, BoundInv, ImplementsContract, Contract!Spec
=============================================================================
