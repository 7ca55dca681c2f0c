------------------------------ MODULE QueryRun ------------------------------
(***************************************************************************)
(* Measurement passes (scripts/run-benchmark.py) and what is claimed of    *)
(* them.  A pass measures one backend: for each query variant it drops, or *)
(* records somebody's word about, the OS page cache, takes Runs samples,   *)
(* and at its end rewrites the backend's result file and rebuilds the      *)
(* combined summary from every file there is.  The results page is built   *)
(* from the same files.  A pass may die at any step, between the opening of *)
(* a file, which empties it, and its writing too.                          *)
(*                                                                         *)
(* The page cache that matters is the one of the backend's host.  A sample *)
(* is "cold" when nothing was read from the backend since that cache was   *)
(* dropped, and "warm" otherwise; the times themselves are left out.       *)
(***************************************************************************)
EXTENDS Integers, Sequences

CONSTANTS
  Backends,       \* the backends measured
  Local,          \* those that share the driver's host
  NumVariants,    \* query variants (a query's count or rows shape) per pass
  Runs,           \* --runs
  Attestable,     \* those on whose node an operator drops the cache and says so
  Overlap,        \* whether passes and page builds may overlap, against the README
  MaxPasses       \* bound on the passes started

ASSUME BackendsAssumption == Local \subseteq Backends /\ Attestable \subseteq Backends
ASSUME CountsAssumption ==
  NumVariants \in Nat \ {0} /\ Runs \in Nat \ {0} /\ MaxPasses \in Nat
ASSUME OverlapAssumption == Overlap \in BOOLEAN

COLD_DROPPED == "dropped-locally"
COLD_ATTESTED == "dropped-on-backend"
COLD_REMOTE == "remote-backend"
COLD_NO_SUDO == "sudo-unavailable"
COLD_UNSUPPORTED == "unsupported-platform"
COLD_OK == {COLD_DROPPED, COLD_ATTESTED}

VARIABLES
  can_drop,    \* whether the driver's platform has a cache drop
  fresh,       \* backends nothing was read from since their cache was dropped
  pc,          \* where the pass of each backend is
  attested,    \* whether the pass got --cache-dropped-on-backend
  cold_state,  \* what drop_os_page_cache() returned for the current variant
  samples,     \* the current variant's samples
  run_entries, \* the entries recorded by the pass
  merged,      \* the files the pass has read for its summary
  file,        \* results/<backend>.json
  summary,     \* results/summary.md
  page,        \* data.generated.js
  passes,      \* passes started
  last         \* how the pass that ended last ended

passVars == <<pc, attested, cold_state, samples, run_entries, merged>>
outVars == <<file, summary, page>>
envVars == <<can_drop, passes, last>>
vars == <<fresh, passVars, outVars, envVars>>

Absent == [status |-> "absent"]
Torn == [status |-> "torn"]
Nothing == [data |-> <<>>, dropped |-> FALSE]

Init ==
  /\ can_drop \in BOOLEAN
  /\ fresh = {}
  /\ pc = [b \in Backends |-> "idle"]
  /\ attested = [b \in Backends |-> FALSE]
  /\ cold_state = [b \in Backends |-> "none"]
  /\ samples = [b \in Backends |-> <<>>]
  /\ run_entries = [b \in Backends |-> <<>>]
  /\ merged = [b \in Backends |-> <<>>]
  /\ file = [b \in Backends |-> Absent]
  /\ summary = Nothing /\ page = Nothing
  /\ passes = 0 /\ last = "none"

-----------------------------------------------------------------------------
(* The page cache *)

\* Dropping the driver's own cache drops it for every backend of its host.
OnHostOf(b) == IF b \in Local THEN Local ELSE {b}

\* The operator runs the drop command on the backend's node, between passes.
OperatorDrops(b) ==
  /\ b \in Attestable
  /\ \A x \in OnHostOf(b) : pc[x] = "idle"
  /\ fresh' = fresh \cup OnHostOf(b)
  /\ UNCHANGED <<passVars, outVars, envVars>>

\* Mutant: the exit status of the drop command is not looked at.
DropUnchecked(b) ==
  /\ cold_state' = [cold_state EXCEPT ![b] = COLD_DROPPED]
  /\ fresh' \in {fresh, fresh \cup Local}
\* What is recorded, and what is really dropped, before a variant's first run.
drop_os_page_cache(b) ==
  LET returns(state) == cold_state' = [cold_state EXCEPT ![b] = state]
  IN  \/ attested[b] /\ returns(COLD_ATTESTED) /\ UNCHANGED fresh
      \/ ~attested[b] /\ b \notin Local /\ returns(COLD_REMOTE) /\ UNCHANGED fresh
      \/ /\ ~attested[b] /\ b \in Local /\ ~can_drop
         /\ returns(COLD_UNSUPPORTED) /\ UNCHANGED fresh
      \/ /\ ~attested[b] /\ b \in Local /\ can_drop
         /\ \/ returns(COLD_NO_SUDO) /\ UNCHANGED fresh
            \/ returns(COLD_DROPPED) /\ fresh' = fresh \cup Local

-----------------------------------------------------------------------------
(* A pass: its query variants *)

\* The flag asserts that the cache was dropped immediately before this pass.
StartPass(b, att) ==
  /\ pc[b] = "idle" /\ passes < MaxPasses
  /\ Overlap \/ \A x \in Backends : pc[x] = "idle"
  /\ att => b \in Attestable /\ b \in fresh
  /\ pc' = [pc EXCEPT ![b] = "variant"]
  /\ attested' = [attested EXCEPT ![b] = att]
  /\ passes' = passes + 1
  /\ UNCHANGED <<fresh, cold_state, samples, run_entries, merged, outVars,
                 can_drop, last>>

\* The process is gone, and all it had in memory.
ProcessEnds(b, how) ==
  /\ pc' = [pc EXCEPT ![b] = "idle"]
  /\ attested' = [attested EXCEPT ![b] = FALSE]
  /\ cold_state' = [cold_state EXCEPT ![b] = "none"]
  /\ samples' = [samples EXCEPT ![b] = <<>>]
  /\ run_entries' = [run_entries EXCEPT ![b] = <<>>]
  /\ merged' = [merged EXCEPT ![b] = <<>>]
  /\ last' = how

DropCache(b) ==
  /\ pc[b] = "variant" /\ Len(run_entries[b]) < NumVariants
  /\ drop_os_page_cache(b)
  /\ pc' = [pc EXCEPT ![b] = "sampling"]
  /\ UNCHANGED <<attested, samples, run_entries, merged, outVars, envVars>>

\* Mutant: the cache is dropped before every sample.
SampleAfterDrop(b) ==
  /\ pc[b] = "sampling" /\ Len(samples[b]) < Runs
  /\ drop_os_page_cache(b)
  /\ samples' = [samples EXCEPT ![b] = Append(@, IF b \in fresh' THEN "cold" ELSE "warm")]
  /\ UNCHANGED <<pc, attested, run_entries, merged, outVars, envVars>>
Sample(b) ==
  /\ pc[b] = "sampling" /\ Len(samples[b]) < Runs
  /\ samples' = [samples EXCEPT ![b] =
                   Append(@, IF b \in fresh THEN "cold" ELSE "warm")]
  /\ fresh' = fresh \ {b}
  /\ UNCHANGED <<pc, attested, cold_state, run_entries, merged, outVars,
                 envVars>>

\* The loop goes on with the next variant, and its own state and samples.
AddEntry(b, entry) ==
  /\ run_entries' = [run_entries EXCEPT ![b] = Append(@, entry)]
  /\ cold_state' = [cold_state EXCEPT ![b] = "none"]
  /\ samples' = [samples EXCEPT ![b] = <<>>]
  /\ pc' = [pc EXCEPT ![b] = "variant"]

Measured(b) ==
  [error |-> FALSE, samples |-> samples[b], cold_state |-> cold_state[b]]

RecordEntry(b) ==
  /\ pc[b] = "sampling" /\ Len(samples[b]) = Runs
  /\ AddEntry(b, Measured(b))
  /\ UNCHANGED <<fresh, attested, merged, outVars, envVars>>

\* A URLError or RuntimeError: the samples are dropped, the error is recorded.
\* The backend may have read data before it failed.
RecordError(b) ==
  /\ pc[b] = "sampling" /\ Len(samples[b]) < Runs
  /\ fresh' \in {fresh, fresh \ {b}}
  /\ AddEntry(b, [error |-> TRUE])
  /\ UNCHANGED <<attested, merged, outVars, envVars>>

VariantsDone(b) ==
  /\ pc[b] = "variant" /\ Len(run_entries[b]) = NumVariants
  /\ pc' = [pc EXCEPT ![b] = "persisting"]
  /\ UNCHANGED <<fresh, attested, cold_state, samples, run_entries, merged,
                 outVars, envVars>>

-----------------------------------------------------------------------------
(* A pass: its result file and the summary *)

EntriesOf(queries) == {queries[i] : i \in 1 .. Len(queries)}
Completed(queries) == {e \in EntriesOf(queries) : ~e.error}
StatesOf(queries) == {e.cold_state : e \in Completed(queries)}

\* Mutant: one cold variant stands for all of them.
SomeDropped(queries) == StatesOf(queries) \cap COLD_OK # {}
cache_drop_ok(queries) ==
  StatesOf(queries) # {} /\ StatesOf(queries) \subseteq COLD_OK

payload(b) ==
  [status |-> "whole", queries |-> run_entries[b],
   dropped |-> cache_drop_ok(run_entries[b])]

\* write_text() opens the file, which empties it, and then writes.
OpenFile(b) ==
  /\ pc[b] = "persisting"
  /\ file' = [file EXCEPT ![b] = Torn]
  /\ pc' = [pc EXCEPT ![b] = "writing"]
  /\ UNCHANGED <<fresh, attested, cold_state, samples, run_entries, merged,
                 summary, page, envVars>>

WriteFile(b) ==
  /\ pc[b] = "writing"
  /\ file' = [file EXCEPT ![b] = payload(b)]
  /\ pc' = [pc EXCEPT ![b] = "merging"]
  /\ UNCHANGED <<fresh, attested, cold_state, samples, run_entries, merged,
                 summary, page, envVars>>

Present == {b \in Backends : file[b] # Absent}
AnyTorn == \E b \in Backends : file[b] = Torn

\* Mutants: a file that cannot be parsed is skipped; only the own one is read.
SkipTorn(b) ==
  /\ pc[b] = "merging"
  /\ merged' = [merged EXCEPT ![b] =
                  [x \in {y \in Present : file[y] # Torn} |-> file[x]]]
  /\ pc' = [pc EXCEPT ![b] = "summarising"]
  /\ UNCHANGED <<fresh, attested, cold_state, samples, run_entries, outVars,
                 envVars>>
ReadOwn(b) ==
  /\ pc[b] = "merging"
  /\ merged' = [merged EXCEPT ![b] = [x \in {b} |-> file[x]]]
  /\ pc' = [pc EXCEPT ![b] = "summarising"]
  /\ UNCHANGED <<fresh, attested, cold_state, samples, run_entries, outVars,
                 envVars>>
\* Every file there is; one that cannot be parsed kills the pass (see Die).
ReadFiles(b) ==
  /\ pc[b] = "merging" /\ ~AnyTorn
  /\ merged' = [merged EXCEPT ![b] = [x \in Present |-> file[x]]]
  /\ pc' = [pc EXCEPT ![b] = "summarising"]
  /\ UNCHANGED <<fresh, attested, cold_state, samples, run_entries, outVars,
                 envVars>>

AllDropped(data) == \A b \in DOMAIN data : data[b].dropped

\* Emptied, the summary shows nothing, until it is written.
OpenSummary(b) ==
  /\ pc[b] = "summarising"
  /\ summary' = Nothing
  /\ pc' = [pc EXCEPT ![b] = "reporting"]
  /\ UNCHANGED <<fresh, attested, cold_state, samples, run_entries, merged,
                 file, page, envVars>>

WriteSummary(b) ==
  /\ pc[b] = "reporting"
  /\ summary' = [data |-> merged[b], dropped |-> AllDropped(merged[b])]
  /\ ProcessEnds(b, "finished")
  /\ UNCHANGED <<fresh, file, page, can_drop, passes>>

\* The process is killed, or an exception leaves main(): a read that times out,
\* a body or a file that is no JSON, a write that fails.
Die(b) ==
  /\ pc[b] # "idle"
  /\ ProcessEnds(b, "died")
  /\ fresh' \in {fresh, fresh \ {b}}
  /\ UNCHANGED <<outVars, can_drop, passes>>

Pass(b) ==
  \/ \E att \in BOOLEAN : StartPass(b, att)
  \/ DropCache(b) \/ Sample(b) \/ RecordEntry(b) \/ RecordError(b)
  \/ VariantsDone(b) \/ OpenFile(b) \/ WriteFile(b) \/ ReadFiles(b)
  \/ OpenSummary(b) \/ WriteSummary(b) \/ Die(b)

-----------------------------------------------------------------------------
(* The results page *)

\* Mutant: the measured flag of one system stands for all of them.
DroppedSomewhere(data) == \E b \in DOMAIN data : data[b].dropped
os_page_cache_dropped(data) ==
  DOMAIN data # {} /\ \A b \in DOMAIN data : data[b].dropped

\* build-report.py, whenever the operator runs it; it gives up on a torn file, and
\* leaves an empty page if it dies while it writes.
BuildPage ==
  /\ Present # {} /\ ~AnyTorn
  /\ Overlap \/ \A b \in Backends : pc[b] = "idle"
  /\ LET data == [b \in Present |-> file[b]]
     IN  page' \in {Nothing, [data |-> data, dropped |-> os_page_cache_dropped(data)]}
  /\ UNCHANGED <<fresh, passVars, file, summary, envVars>>

\* The metric selectors say "cold" and "hot" only when the drop was recorded.
ColdLabelShown == page.dropped

Next ==
  \/ \E b \in Backends : Pass(b) \/ OperatorDrops(b)
  \/ BuildPage

Spec == Init /\ [][Next]_vars

-----------------------------------------------------------------------------
(* Properties *)

ColdStates ==
  {COLD_DROPPED, COLD_ATTESTED, COLD_REMOTE, COLD_NO_SUDO, COLD_UNSUPPORTED}
Samples == Seq({"cold", "warm"})
Entries ==
  {[error |-> TRUE]} \cup
  [error : {FALSE}, samples : Samples, cold_state : ColdStates]
Payloads == [status : {"whole"}, queries : Seq(Entries), dropped : BOOLEAN]
IsMerge(data) ==
  DOMAIN data \subseteq Backends /\ \A b \in DOMAIN data : data[b] \in Payloads

TypeOK ==
  /\ can_drop \in BOOLEAN /\ fresh \subseteq Backends
  /\ pc \in [Backends -> {"idle", "variant", "sampling", "persisting", "writing",
                          "merging", "summarising", "reporting"}]
  /\ attested \in [Backends -> BOOLEAN]
  /\ cold_state \in [Backends -> ColdStates \cup {"none"}]
  /\ \A b \in Backends : pc[b] = "sampling" => cold_state[b] # "none"
  /\ samples \in [Backends -> Samples]
  /\ run_entries \in [Backends -> Seq(Entries)]
  /\ DOMAIN merged = Backends /\ \A b \in Backends : IsMerge(merged[b])
  /\ file \in [Backends -> {Absent, Torn} \cup Payloads]
  /\ IsMerge(summary.data) /\ summary.dropped \in BOOLEAN
  /\ IsMerge(page.data) /\ page.dropped \in BOOLEAN
  /\ passes \in 0 .. MaxPasses /\ last \in {"none", "finished", "died"}

FirstIsCold(e) == e.samples[1] = "cold"
ColdThroughout(data) ==
  \A b \in DOMAIN data : \A e \in Completed(data[b].queries) :
    FirstIsCold(e) \/ e.cold_state = COLD_ATTESTED

\* The comments on COLD_OK and on the entry's flag (run-benchmark.py:52,
\* 614-616): a sample recorded as cold was read from a cold page cache.
ColdIsCold ==
  \A b \in Backends : \A e \in Completed(run_entries[b]) :
    e.cold_state \in COLD_OK => FirstIsCold(e)

\* What there is of it when operators attest drops: a variant recorded as
\* dropped locally was read cold, whatever overlaps, and so was the first
\* variant of a pass whose cache the operator had dropped.
DroppedIsCold ==
  \A b \in Backends : \A i \in DOMAIN run_entries[b] :
    LET e == run_entries[b][i]
    IN  ~e.error /\ (e.cold_state = COLD_DROPPED \/ (e.cold_state = COLD_ATTESTED /\ i = 1))
        => FirstIsCold(e)

\* The summary's "dropped at each query start: yes" holds of every variant of
\* every file merged into it, but for those somebody else's word is taken for.
SummaryColdClaim == summary.dropped => ColdThroughout(summary.data)

\* The page never calls run 1 cold when a drop failed (index.html:702-704),
\* whatever system it was for and whenever it was measured.
PageColdClaim == ColdLabelShown => ColdThroughout(page.data)

\* "1 cold + N-1 hot": no page cache is dropped between the samples of a
\* variant.
HotIsHot ==
  \A b \in Backends : \A e \in Completed(run_entries[b]) :
    \A i \in 2 .. Runs : e.samples[i] = "warm"

\* A variant that fails costs its own samples only: the file of a pass has an
\* entry for each variant, and the summary of a pass that finished shows the
\* latest file of every backend.
SummaryCurrent ==
  (\A b \in Backends : pc[b] = "idle") /\ last = "finished" =>
    /\ summary.data = [b \in Present |-> file[b]]
    /\ \A b \in Present : Len(summary.data[b].queries) = NumVariants

\* Single-target passes accumulate (run-benchmark.py:624-626), whichever of them
\* die and where: a result file that is there stays, a backend in the summary has
\* one, and a summary is only ever emptied, by a pass about to write it, or
\* written with every backend that has a file.  So a backend that was in one
\* summary is in each later one; a death inside write_text leaves none at all
\* until the next pass that finishes.
ResultsAccumulate ==
  [][/\ Present \subseteq Present'
     /\ DOMAIN summary.data \subseteq Present
     /\ summary' # summary => summary' = Nothing \/ DOMAIN summary'.data = Present']_vars
=============================================================================
