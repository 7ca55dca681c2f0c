# Specifications of o2-ck-benchmark

TLA+ modules, TLC configurations and TLAPS proofs about the benchmark that
loads one log dataset into ClickHouse and two OpenObserve instances and compares
their query times. Paths below are relative to the repository.

## 1. The system

| Component | Source | State | Operations | Correct when |
|---|---|---|---|---|
| Ingest driver | `datagen/src/main.rs` | batches left, semaphore, one `ship()` per batch, shared atomics, progress line, exit status | prime, spawn, ship, join, report | the backends hold the same records, and the counters and the exit status say so truthfully |
| OpenObserve response check | `main.rs:218-263` | none | `validate_o2_response` | a 200 with a refused row is a failure |
| Record generation | `main.rs:265-497`, `templates.rs` | none (a generator seeded with the record's index) | `make_batch`, `make_record`, `generate_log_line` | a record depends on seed and index only, and every one is made |
| Query runner | `scripts/run-benchmark.py:36-644` | OS page cache of the backend's host, samples, entries | drop caches, run, record | a sample called cold was read from a cold cache |
| Results and combined report | `run-benchmark.py:623-869` | `results/<backend>.json`, `machine.json`, `summary.md` | persist, merge, compare | what the summary claims holds of every merged file |
| Report builder | `scripts/build-report.py` | `data.generated.js` | merge, regroup, write | columns, queries and samples stay aligned |
| Results page | `index.html` (`index-v2.html` is the same code) | `selectors`, DOM classes, history | toggle, filter, render, navigate | the screen shows what the selectors select |
| URL state codec | `index.html:1213-1295` | `encoded_keys` | `encodeState`, `decodeState` | decode undoes encode |
| Installer | `scripts/install.sh` | `bin/` | check, download, verify, replace, confirm | success means the wanted versions; repeating it repairs `bin/` |
| Start scripts | `scripts/start-*.sh` | environment, data directories | read settings, start | the two formats share nothing but settings |

How they interact: the driver sends every batch, as one body, to the enabled
backends over HTTP and leaves `ingest.json`; the runner measures one backend per
invocation and leaves `<backend>.json` and `machine.json`; each invocation
merges the files present into `summary.md`; the report builder reads the same
files and writes the data the page shows.

What is hard: the driver is the only concurrent program (tokio tasks, atomics,
a reporter that reads them without a lock) and the only one with partial
failure (three backends answer one batch independently, requests land late,
replies are lost, rows are refused inside a success). The order in which batches
land matters to OpenObserve, which dates a stream by the first rows it gets.
The query side is sequential, but its claims ("cold", "isolated", "matched")
are about state of other machines and of files written by earlier runs.

## 2. Plan

1. **Ingest** - the driver with its backends; contract and refinement; proofs.
2. **QueryRun** - page cache, samples, result files, combined report.
3. **ResultsPage**, **StateCodec** - selectors, history, URL.
4. **Report**, **PageData** - row-count check, winner, regrouping.
5. **Generator**, **Templates**, **Install** - the making of records; the
   replacement of a pinned binary.
6. Proofs, in the order of what they need: the driver's control and permits,
   delivery and counters, its account at the end, event times, the refinement of
   the contract; cold and hot samples and the claims made of them; the results
   page; the installer; the report; the making of records; the codes in the URL;
   the data of the page.
7. Left: a module for the fold over a response's status array (`O2Response`).

Abstract specifications: `IngestContract` for the driver; for the page, the
derived screen (`Filtered`, `Hidden`, `Summary` of the selection) that the
handlers must keep up to date is stated as invariants instead.

Done: items 1 to 6.

## 3. Modules

### Ingest.tla - the driver

`main` is the control point of `main()`; `pc[i]` that of `ship()` for batch `i`;
`net[i][t]` and `result[i][t]` are the request of batch `i` to target `t` as
the backend and as the driver see it. A record is its global index: its content
is drawn from a generator seeded with that index (`main.rs:470-492`), so nothing
else distinguishes two records. Its event time is the batch's stamp plus its
offset, saturating.

| Action | Code | |
|---|---|---|
| `StartPriming`, `FinishPriming`, `PrimingPanics` | `main.rs:896-914` | batch 0 alone; its failure bails out |
| `SpawnNext`, `StopSpawning` | `916-927` | the loop, waiting for a permit |
| `JoinAll` | `929-931` | `let _ = h.await`: a panicked task is ignored |
| `StopReporter`, `Report` | `933-1001` | stats file (writing may fail, and warning of it too) and exit status |
| `Stamp`, `Send`, `Join` | `536-647` | timestamp, one body to all targets, `tokio::join!` |
| `CountTarget` | `648-665` | one target's `Err` arm, in the code's order |
| `Panic` | `652`, `658`, `664` | `eprintln!` panics on an unwritable stderr; the one of `992`, in `main()`, is part of `Report` |
| `Settle` | `666-678` | the shared counters, permit returned |
| `Land`, `Answer`, `Break` | environment; `218-263`, `634-642` | a backend stores rows, answers, or the exchange breaks |
| `LoadSent`, `LoadFailed`, `PrintLine` | `693-729` | the reporter's two loads, then the flag |
| `Tick` | `Instant::elapsed` | wall clock |

Merged steps: the four updates of `666-674` are one step, because only `sent`
and `failed` are read while they move and exactly one of the two moves;
`bytes_ok` moves with `sent` and is left out. The loads after the join
(`937-944`) are one step: nothing else runs then.

Assumed of the environment (it is outside `src/`): a backend that reports a row
as stored has stored it; a ClickHouse INSERT is all or nothing; OpenObserve
creates a stream with its first rows and dates it by the earliest of them
(what `main.rs:896-904` relies on); any request may land at any time after it
is sent, even after the driver has given it up or has ended, and any exchange
may break before or after the rows are stored. Not modelled: a panic of the
generator (`579`) or of `println!`, which end a task or the process as
`Panic` and `PrimingPanics` do but where no counter has moved.

### IngestContract.tla, IngestRefinement.tla

The contract has no tasks, requests or counters: batches are delivered or
rejected once and whole, a delivered record is held by every backend, nothing
follows a first batch that was rejected, and the run calls itself complete
exactly if it delivered everything. `IngestRefinement` maps the driver onto it:
`held` is the intersection of the backends' contents, `delivered` and `rejected`
the records of the settled batches, `outcome` the exit status.

### Generator.tla, Templates.tla - the records

`pc[b]` is the thread of batch `b`, `rng[b]` its generator as a key and a
position in the key's stream, `head[b]` and `line[b]` the record it is making.
`kept[r]` is the set of everything ever generated for index `r`, over all
invocations, so that two different contents show as two members.

| Action | Code | |
|---|---|---|
| `Invoke` | `main.rs:735-766`, `806` | the program is started: other batches, a dry run, or again after it was cut short |
| `StartBatch` | `905-927` | batch 0 first, then up to `--concurrency` at once |
| `Seed` | `481-482`, `748` | `splitmix64(seed ^ index)`; the dry run mixes the seed alone |
| `DrawHead` | `327-372` | the draws before the message; an empty range panics |
| `FirstLine`, `Pad` | `381-392` | the first line with its exception, then lines until it is long enough |
| `FinishRecord` | `393-491` | the ids, the draws after the message |

`splitmix64` is modelled as such with its constants as parameters: the code's
are for words of 64 bits, the run uses words of 8 with odd multipliers and
shifts of the same kind. The ChaCha stream is a function of key and position
(`Stream`), all that the code asks of it. Which member of a pool a number picks
is data; the universes that are shares of `--total` (`753-756`, `863-865`) are
computed. `Templates` gives every text and format string of `templates.rs` as the
pair of its least and largest length, from which the lengths of lines and
messages follow. The event time is part of Ingest.

### QueryRun.tla - measurement passes and what is claimed of them

One pass per backend (`pc[b]`), from the start of `run-benchmark.py --target b`
to its summary. `fresh` holds the backends nothing was read from since the page
cache of their host was dropped; a sample is recorded in the model as `"cold"`
or `"warm"` by what it really read, beside the `cold_state` the code records.

| Action | Code | |
|---|---|---|
| `StartPass` | `run-benchmark.py:499-571` | with or without `--cache-dropped-on-backend` |
| `DropCache` | `445-490` | once per variant; what is dropped and what is returned |
| `Sample`, `RecordEntry`, `RecordError` | `489-496`, `601-620` | samples, then an entry of either kind |
| `VariantsDone`, `OpenFile`, `WriteFile` | `577-644` | `write_text` empties the file, then writes it |
| `ReadFiles` | `651-703` | every file present; one that is no JSON kills the pass |
| `OpenSummary`, `WriteSummary` | `713-869` | `write_text` empties the summary, then writes it |
| `Die` | any uncaught exception, or a kill | leaves what was written, torn or not |
| `OperatorDrops` | `README.md:74-76` | by hand on the node of an attestable backend, between passes |
| `BuildPage`, `ColdLabelShown` | `build-report.py:41-154`, `index.html:702-708` | the page's claim |

A query "shape" (count or rows) is one variant. Left out: times and percentiles,
storage and the row-count check (Report), the engines' own caches, and
`machine.json`. A pass that dies in `write_text` leaves its result file `Torn`,
and a summary or page that shows nothing (`Nothing`); whatever part of one may
have been written counts as nothing too. `BuildPage` may end so in the one step
it is. `ResultsAccumulate` says what is left of "single-target passes
accumulate" then: a result file stays, a backend in the summary has one, and a
summary is emptied or written with every backend that has one. That a backend
once shown is never missing would be false. Assumed, as README.md says: the
dataset is frozen, nothing but the passes reads it, and an operator who passes
the flag has dropped the cache just before (`Attestable` names the backends on
whose node somebody does that). `Overlap` lifts the README's "one backend at a
time", and lets the page be built while a pass runs.

### Report.tla - row counts and the fastest

`held[b]` is what backend `b` really holds, `dir[b]` what is at the path of its
data directory on the runner's host. `Pass(b)` is `run-benchmark.py:623-648`:
one of the answers `StorageOf(b)` that `collect_storage` can give (`139-161`,
`216-335`: the API's count, zero just after a restart, a failure, the file list
or the bare files) goes into `storage[b]`, and the report is rebuilt from all
files: `RowCheck` (`752-767`) and `Winners` (`829-848`). Assumed: ingestion is
over and compaction finished, so an answering API counts every row. Among equal
medians the code names the first in `BACKEND_ORDER`; the model any of them.

### PageData.tla - what build-report.py writes

`file[s]` is a result file as its list of entries, `page` what is written.
`BuildPage` (`build-report.py:41-154`) merges the ids of all files (`66-71`),
regroups them (`76-79`), heads the groups (`80-85`) and places the samples by
position (`94-102`). The loops are recursive functions over the positions of a
list, so that they can be evaluated as well as reasoned about. The category of a
query is the same in all files. The comment at `build-report.py:65` says that
`query_sections` is rendered by `index.html`; that page never reads it, so what
`NoQueryIsLost` says of the headings is about the data only.

### ResultsPage.tla - the results page

`selectors` is the global of that name; `link`, `metricLink`, `hidden`,
`filtered`, `details` and `summary` are what is on the screen, each written where
the code writes the element; `history` and `at` are the browser's session
history. An option is one value of one dimension, an entry of the data the set
of its options.

| Action | Code (`index.html`) | |
|---|---|---|
| `Toggle`, `ToggleFlag`, `ToggleAll` | `528-543`, `621-690` | one link, one flag, the All link of a dimension |
| `SelectMetric`, `RemoveSystem` | `692-700`, `900-917` | |
| `CheckQuery`, `CheckAll` | `1082-1097`, `1168-1179` | redo the summary only |
| `Throws`, `Remember` | `793-816`, `939`; the end of each handler | a summary without a ratio throws, and nothing is pushed |
| `SetTheme`, `Render` | `482-490`, `1027-1211` | the whole of `render()` |
| `updateHistory`, `Navigate`, `Load`, `Reload` | `1297-1331`, `1365-1367` | push, back and forward, the script run anew |

An error path runs through all of it. With the metric cold or hot and queries
selected that fail on every system of the table, `relativeQueryTime` returns null
(`815`), and formatting the first ratio (`939`) throws out of `renderSummary`:
the summary is left without rows, `render()` does not get to the details and
`findPassiveSelectors`, and no handler to `updateHistory()`, although the
selection has changed. `Throws` is the condition, `Timed` which entry has a time
of which query; the properties say what holds then too. A handler's links and
the filter come before the summary and are always of the selection. The details
are cleared first, so they are missing if a rendering threw, and stay, with the
links as they were, if a checkbox did. An exception at the first `render()` skips
nothing else, as it is the last statement of the script.

Left out: the value of the ratios, bars and colours, highlighting on hovering,
the dataset line, the "raw JSON" row (it belongs to no system), and the content
of tables that are hidden. A hash comes from this page over the same data.

### StateCodec.tla - names in the URL

One map of the selectors: `findUniqueSubsequence` (`index.html:1222-1241`),
`encode` (`1243-1268`) and `decode` (`1270-1295`), over every small set of names.
`ResultsPage` takes a name as surviving its own code; this module shows when it
does. Names do not contain the URL's separators (`|`, `&`, `=`, `%`).

### Install.tla - the installer

`bin` is what is at `bin/clickhouse` and `bin/openobserve`, `todo` what this run
has still to install, `pc` where it is with the first of them.

| Action | Code (`install.sh`) | |
|---|---|---|
| `Start` | `166-171` | with the programs asked for and the version OPENOBSERVE_VERSION gives |
| `Check` | `89-97` and its OpenObserve twin | keep a binary that reports the version |
| `Download`, `DownloadFails` | `99-107` | `curl -f`; the file need not be genuine |
| `Verify` | `21-35` | sha256, ClickHouse only |
| `Extract`, `ExtractFails` | `109-118`, `149-156` | the binary in the archive |
| `Remove`, `Replace` | `120` | `install(1)`: the old file goes before the new one is whole |
| `Confirm` | `121-126` | asks the new binary for its version, which is in place already |
| `Kill`, `Meddle` | `set -euo pipefail`, environment | a run ends anywhere; `bin/` changes between runs |

A version is recognised as a part of what `--version` prints, so a version whose
text contains the wanted one passes for it (`Extends`); the properties say what
is reported, which is all the script can see. Left out: the temporary
directory, and the choice of the asset for a platform.

## 4. Runs

| Run | Instance | What it shows |
|---|---|---|
| `fanout` | 3 batches, the last one short, 2 backends, 2 permits, panics | permits, the cut of the records, accounting per run and per target, the reporter |
| `delivery` | 3 batches of one record on 2 backends, one permit, fairness | the driver implements its contract, and every run ends |
| `backends` | all three backends, partial refusal, lost replies, late landing | sent records are stored; a clean exit is a complete one; creation time and event range are those of the rows stored |
| `closed_stderr` | stderr may break | the counter `failed` misses a failed batch (finding below) |
| `passes` | 3 passes, 1 backend beside the driver and 1 remote, attestable one, 2 variants, 2 samples, a drop that may fail each time | hot samples are hot; dropped is cold; summary and page claim no more than the files; no file is lost, and the summary is emptied or made of all of them, whatever dies |
| `attested` | 1 remote backend, the flag, 2 variants | finding below |
| `page` | 2 link dimensions and a flag, 5 options, 3 entries, 2 metrics, 2 queries of which one fails on one system, 3 history entries | controls and tables show the selection, the selection is the current entry's unless its summary threw, its URL opens to the same screen |
| `codec` | all sets of 3 names of at most 3 characters | codes are unique and read back, but for a name all others contain |
| `rowcheck` | 3 backends, 2 row counts, medians of 0..2 | "matched" and "mismatch" have their causes; the fastest is |
| `pagedata` | 2 files of at most 2 of 4 variants | no query or sample is lost or misplaced |
| `generator` | 6 records in batches of 1, 2 or 4, 3 threads, 3 invocations, 2 seeds | an index has one content in all invocations and the dry run; no two share a stream; all are made; messages fit |
| `install` | 2 wanted versions, one containing the other, 3 troubles, fairness | success means the wanted versions; only a verified ClickHouse is installed; repeated runs repair `bin/` |

Bounds. The driver needs at most a priming batch, two batches that overlap and
a short last one (`fanout`), or one that waits for the permit of another
(`delivery`): three batches. Two backends are enough for one to
disagree with the other, three for the third to be left out by mistake. The
clock matters through the order of stamps and through saturation: two values, and
in `backends` a `U64Max` within reach, give both. A pass needs two variants for
one to warm the other's cache or to lose its drop, two samples for a hot one,
and three passes for one to die, another to follow and a third to repair. No run
lets passes overlap: what holds then is proved for both values of `Overlap`.
A page needs two dimensions for an entry to drop out of one because of the
other, an entry with two options of a dimension (a tag shared by systems), a
flag to hide links, a metric that leaves an entry out, and in the history room
to go back and branch off (3). One query fails on one of two systems, so that a
summary throws once the other system is off the table, by a link, an All link or
a ✕, and by a checkbox with the table as it is. A name can be
contained in two others of three characters; 20 rounds (1000 in the code) end
the shortening of every name of three. Two files and two categories let every
group be empty or filled from either file. Six records
cut by one, two and four give batches of one record, a short last batch, and
threads in flight beside each other; a second invocation may cut them otherwise
and a third may be the dry run; a total of six rounds two of the universes to
zero but for their floor of one. The installer needs a kill, a file put into
`bin/`, and one more trouble in the run that repairs it.

Fairness (`Fairness` in `Ingest`): the runtime polls what is ready, so the main
task, the reporter and each batch's task are weakly fair; each exchange the
driver waits for ends in an answer or an error. The last is an assumption about
the backends and TCP: the client sets no timeout (`main.rs:801-804`), so a
backend that accepts a request and never answers stops the run for good.
Nothing is assumed of `Land`. `Fairness` in
`Install` is the operator's: a run goes on, it is repeated for both programs
again and again, and a download tried for ever gets through; what the script
contributes is that it can be repeated at all.

### Findings

`closed_stderr`: a batch that fails is added to its target's counter, then
`eprintln!` is called (`main.rs:652`); if stderr cannot be written any more it
panics, `failed` is never incremented, the `JoinError` is dropped
(`main.rs:930`) and the process ends with status 0. The comment at
`main.rs:831-832` says `failed` counts the records that failed on at least one
target. The same property holds in the run `backends`, where stderr holds.

`attested`: with `--cache-dropped-on-backend` every variant is recorded as cold
(`run-benchmark.py:458`), although one drop before the pass makes only the first
variant's first sample cold; `run-benchmark.py:614-616` says the entry's flag is
"true only when run 1 is genuinely cold". What there is of it, `DroppedIsCold`,
holds in the run `passes` and is proved: a variant recorded as dropped locally was
read cold, and so was the first one of an attested pass.

Three more things met while modelling, which no run checks. The comment at
`index.html:805-806` says that queries which fail on every filtered system are
skipped because "otherwise the geometric mean collapses to 0 and no bars
render"; if all the selected ones are skipped, no bars render either: the
exception at `939` described above leaves an empty table and an address of the
selection before. The properties of the run `page` state what is true with it,
and the tables it leaves empty are those of `Throws`. `README.md:67-69` says
that without the flag a run against a remote backend "still reports success";
the code records `remote-backend` and `false` (`run-benchmark.py:460`). And
`collect_storage` (`237`, `246`) counts the rows of any directory at the data
directory's path, which has a default relative to the working directory,
without asking whether the backend is local; `Report` takes that directory to be
the backend's own, and `MatchedRowsAreHeld` rests on it.

## 5. Proofs

Every theorem holds for all values of the constants that the named assumptions
of the modules allow: any set of targets, positive total, batch size and
concurrency and any clock bound for the driver; any seed, total, templates and
number of invocations for the records; any backends, variants, samples and
passes for the runner; any dimensions, data, metrics and length of the history
for the page; any names for its URL, any files for its data; any versions for
the installer. No module trusts anything else. Each invariant is proved as one
that is inductive with what it needs, so that later ones extend earlier ones.

The driver, in `IngestProofs`:

1. `MainInvariant`: `TypeOK` together with how `remaining` follows from
   `batch_idx` (`CutInv`), which batches may be where in each phase of `main()`
   (`PhaseInv`), and permits plus batches in flight (`PermitsInv`). None of
   `TypeOK`, `FanOutBounded`, `BatchesPartition` is inductive alone: a permit
   count stays in range only because each task in flight holds one, and a
   batch size stays positive only because of how `remaining` is computed.
   From it: `TypeCorrect`, `FanOutIsBounded`, `BatchesArePartition`.
2. `DeliveryInvariant` (`WireInv`): requests exist only for batches that have
   sent them, an `ok` means the rows are stored, stored rows come from sent
   requests. From it `PrimingComesFirst`.
3. `CountingInvariant`: `sent` and `failed` are the sizes of the accepted and
   of the rejected batches. From it `SentRecordsAreStored`.
4. `ReportingInvariant`: what the reporter loaded is at most what the counters
   hold. From it `ProgressIsHonest` and the action property
   `ProgressIsMonotone`.
5. `EndingInvariant`: status 0 only after the join and with `failed` = 0. From
   it `CleanExitMeansComplete`.
6. `JoinedInvariant`: the exit comes after every task is over and nothing moves
   after it. With the partition of the records it gives
   `AllRecordsAreAccountedFor`: accepted, rejected and panicked batches are all
   the batches there are.
7. `BlamingInvariant` (`BlameInv`): a target's counter holds records of batches
   it rejected and has passed in `ship()`, and some as soon as one passed
   without a panic. From it `TargetFailuresDoAgree`.
8. `OnlyStderrPanics`, and from it `FailuresAreRejections`: assuming
   `StderrBreaks = FALSE`, `failed` is what the comment says, the statement the
   run `closed_stderr` refutes without that assumption.
9. `TimeInvariant`, `CreationInvariant`, `ExtremesInvariant`: batch 0 is stamped
   first; a stream is dated by a row it holds, none being earlier; the extremes
   bound the accepted batches and are theirs. From them `CreationIsEarliest` and
   `EventRangeIsHeld`, saturation included.
10. `DriverImplementsContract`: under the mapping of `IngestRefinement`, and
    assuming `StderrBreaks = FALSE`, the initial states map to initial ones, and a
    step of the driver to a delivery (`Settle` of an accepted batch), a
    rejection, the end, or a stutter. It rests on items 3 and 6.

The runner, in `QueryRunProofs`. `ColdInvariant` relates the cold state of a
pass to what its next sample reads, for passes that overlap, fail and die;
`ClaimInvariant` adds that memory, files, summary and page claim no more than
their entries. They give `DroppedMeansCold`, `SummaryClaimHolds` and
`PageClaimHolds`. Assuming `Overlap = FALSE`, as README.md asks of the operator,
`HotInvariant` says that a variant with a sample has warmed its backend, and
`FreshInvariant` that a pass which writes its summary has read the files as they
still are; they give `LaterSamplesAreHot`, `SummaryIsCurrent` and
`ResultsDoAccumulate`.

The page, in `ResultsPageProofs`. `PageInvariant` holds the screen as it follows
from the selection (`ScreenInv`) and a history in which each entry is made of
one selection (`HistoryInv`). It rests on two lemmas: `StateIsReadBack`,
decodeState undoes encodeState whichever half of a map is written, and
`PassiveAreFound`, findPassiveSelectors makes the right links passive whatever
it finds on the screen. `DetailsAreThere` and `EntryIsRemembered` keep the error
path apart: details exist only after a rendering that came to its end, and an
entry is pushed by every handler but one whose summary threw. From it all five
invariants of the run `page`. `HashAssumption` says that an encoded state is
never the empty hash.

The installer, in `InstallProofs`. `InstallInvariant`: what a run is done with
reports the wanted version, and what it has extracted for ClickHouse was
verified. From it `SuccessIsWanted` and the action property
`OnlyVerifiedIsInstalled`.

The report, in `ReportProofs`. `ReportInvariant`: a file has a count only as
one of the answers its backend could give, and the check and the fastest are
those of the files as they are. From it, for any number of backends,
`MatchedRowsHeld`, `MismatchIsCaused` and `FastestIsTheFastest`.
`MarksAssumption` keeps the marks for "no number" apart from numbers.

The records, in `GeneratorProofs`. A batch's thread is where its counts put it,
and works on records of its own batch only (`ThreadInv`); everything made or
kept for an index is a function of seed and index (`ContentInv`, `KeptInv`).
`Reproducible` is not inductive without the second: that two members of
`kept[r]` are equal says nothing of a record which is half made, in another
batch of another invocation. From `GeneratorInvariant`: `RecordsAreReproducible`;
`EveryRecordMade`, which also needs that no draw is from an empty range,
however small the total; and `MessagesAreBounded`, by the number of lines it
takes to reach the least length. `StreamsDiffer` rests on `splitmix64` being
one to one, which is proved from what the code's constants have in common with
those of the run: the multipliers have inverses modulo the size of a word, and
`x ^ (x >> s)` loses nothing because three shifts by `s` leave nothing of a word
(`MixAssumption`, `XorAssumption`). `Total <= Word` is the width of `u64`. The
code draws its numbers from a word; `MessagesAreBounded` alone needs it, as its
hypothesis `WordsAreNumbers` about `Stream`, which is external.

The URL, in `StateCodecProofs`. `findUniqueSubsequence` cuts a name at
pseudo-random places and takes a cut back if it lets another name match. The
code only compares how many names match; that it is the same ones follows
because whatever has a code has each shorter one too (`CutMatchesMore`, by a
run of `isSubsequence` for both codes at once, the shorter never more than one
character behind). So every attempt leaves a code that exactly the names
containing the target have (`CodeKeepsNames`), all but the target are longer
(`CodeIsRead`), and the shortest match is the target: `CodesReadBack`.
`CodecInvariant` carries this to the page that opens the URL and gives
`SelectionsSurvive`, for any names and any number of rounds.

The data of the page, in `PageDataProofs`. The merge of the files is a list of
their ids without repetition (`MergedHasAll`), each group of it holds its own
(`GroupHasItsOwn`), the groups one after the other hold all (`RegroupingKeepsAll`),
and of the headings above a line the last is its group's, whichever groups are
empty (`LinesAreHeaded`). They give `QueriesAreKept` and, with the lines being
different, `SamplesAreKept`.

Induction. The library's theorems of induction cannot be used, as they take an
operator as a parameter. Where a loop has to be followed to its end, the modules
prove `SetInduction` (a set of numbers with 0 and, with each, the next, is the
set of all) from the well-foundedness of `<`, and `PassExists` (a loop over the
positions 1 to N has a run) from that; a recursive function is then equal to
such a run.

Only model-checked: liveness (`Terminates`, `Repaired`), which is out of the
prover's reach. `ColdIsCold` is false (finding `attested`), and so is
`FailuresAreRejections` without the assumption of item 8 (finding
`closed_stderr`).

## 6. Not modelled

The fold over OpenObserve's status array has no module of its own: its outcomes
(accepted, a row refused, a body that cannot be used) are those of `Answer` and
`Break`. Of the runner: the engines' own caches, the requests, `machine.json`,
and in the report the storage sizes with their ratios, the machine and ingest
lines and a torn `ingest.json`. The driver's command line. Which member of a
pool a draw picks, and the words of the log templates, but for their length;
pod names carry 20 bits of a hash and may coincide, which nothing in the
repository excludes. `start-openobserve.sh` and `start-clickhouse.sh` are straight
lines without state of their own, `measure-storage.sh` prints read-only queries
to a file; SQL texts, the schema and the published result documents are data.
