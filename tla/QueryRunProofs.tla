--------------------------- MODULE QueryRunProofs ---------------------------
(***************************************************************************)
(* Proofs about measurement passes: what is recorded as cold was read from *)
(* a cold page cache, what is called hot was not, and the summary and the  *)
(* page claim no more than the result files they were made from.           *)
(***************************************************************************)
EXTENDS QueryRun, TLAPS

-----------------------------------------------------------------------------
(* Types *)

\* A new entry goes behind the others and leaves them be.
LEMMA Appended ==
  ASSUME NEW S, NEW s \in Seq(S), NEW e \in S
  PROVE  /\ Append(s, e) \in Seq(S) /\ Len(Append(s, e)) = Len(s) + 1
         /\ Append(s, e)[Len(s) + 1] = e
         /\ \A i \in 1 .. Len(s) : Append(s, e)[i] = s[i]
         /\ DOMAIN s = 1 .. Len(s) /\ DOMAIN Append(s, e) = 1 .. Len(s) + 1
         /\ Len(s) \in Nat /\ (Len(s) = 0 <=> s = <<>>) /\ Append(s, e) # <<>>
         /\ Append(s, e)[1] = IF s = <<>> THEN e ELSE s[1]
<1>1. /\ Len(s) \in Nat /\ (Len(s) = 0 <=> s = <<>>)
      /\ Append(s, e) \in Seq(S) /\ Len(Append(s, e)) = Len(s) + 1
      /\ Append(s, e)[Len(s) + 1] = e
      /\ \A i \in 1 .. Len(s) : Append(s, e)[i] = s[i]
      /\ DOMAIN s = 1 .. Len(s) /\ DOMAIN Append(s, e) = 1 .. Len(s) + 1
  OBVIOUS
<1>2. Len(<<>>) = 0
  OBVIOUS
<1>3. Append(s, e) # <<>>
  BY <1>1, <1>2
<1>4. Append(s, e)[1] = IF s = <<>> THEN e ELSE s[1]
  BY <1>1
<1> QED
  BY <1>1, <1>3, <1>4

\* The one step of a pass that adds an entry, whole.
Adds(b, entry) ==
  /\ pc[b] = "sampling" /\ entry \in Entries
  /\ AddEntry(b, entry)
  /\ \/ entry = Measured(b) /\ Len(samples[b]) = Runs /\ fresh' = fresh
     \/ entry.error /\ fresh' \in {fresh, fresh \ {b}}
  /\ UNCHANGED <<attested, merged, outVars, envVars>>

LEMMA EntriesAreAdded ==
  ASSUME TypeOK, NEW b \in Backends, RecordEntry(b) \/ RecordError(b)
  PROVE  \E entry \in Entries : Adds(b, entry)
<1>1. CASE RecordEntry(b)
  <2>1. Measured(b) \in Entries
    BY <1>1 DEF RecordEntry, Measured, Entries, TypeOK
  <2> QED
    BY <1>1, <2>1 DEF RecordEntry, Adds
<1>2. CASE RecordError(b)
  <2>1. [error |-> TRUE] \in Entries
    BY DEF Entries
  <2> QED
    BY <1>2, <2>1 DEF RecordError, Adds
<1> QED
  BY <1>1, <1>2

LEMMA TypeStep ==
  ASSUME TypeOK, [Next]_vars
  PROVE  TypeOK'
<1> USE DEF TypeOK
<1>1. ASSUME NEW b \in Backends, OperatorDrops(b) PROVE TypeOK'
  BY <1>1, BackendsAssumption DEF OperatorDrops, OnHostOf, passVars, outVars, envVars
<1>2. ASSUME NEW b \in Backends, NEW att \in BOOLEAN, StartPass(b, att) PROVE TypeOK'
  BY <1>2, CountsAssumption DEF StartPass, outVars
<1>3. ASSUME NEW b \in Backends, DropCache(b) PROVE TypeOK'
  <2>1. PICK state \in ColdStates : cold_state' = [cold_state EXCEPT ![b] = state]
    BY <1>3 DEF DropCache, drop_os_page_cache, ColdStates
  <2>2. fresh' \subseteq Backends
    BY <1>3, BackendsAssumption DEF DropCache, drop_os_page_cache
  <2>3. "none" \notin ColdStates
    BY DEF ColdStates, COLD_DROPPED, COLD_ATTESTED, COLD_REMOTE, COLD_NO_SUDO, COLD_UNSUPPORTED
  <2> QED
    BY <1>3, <2>1, <2>2, <2>3 DEF DropCache, outVars, envVars
<1>4. ASSUME NEW b \in Backends, Sample(b) PROVE TypeOK'
  <2>1. samples' \in [Backends -> Samples]
    BY <1>4 DEF Sample, Samples
  <2> QED
    BY <1>4, <2>1 DEF Sample, outVars, envVars
<1>5. ASSUME NEW b \in Backends, NEW entry \in Entries, Adds(b, entry) PROVE TypeOK'
  <2>1. run_entries' \in [Backends -> Seq(Entries)]
    BY <1>5 DEF Adds, AddEntry
  <2>2. samples' \in [Backends -> Samples]
    BY <1>5 DEF Adds, AddEntry, Samples
  <2> QED
    BY <1>5, <2>1, <2>2 DEF Adds, AddEntry, outVars, envVars
<1>6. ASSUME NEW b \in Backends, VariantsDone(b) PROVE TypeOK'
  BY <1>6 DEF VariantsDone, outVars, envVars
<1>7. ASSUME NEW b \in Backends, OpenFile(b) PROVE TypeOK'
  BY <1>7 DEF OpenFile, envVars
<1>8. ASSUME NEW b \in Backends, WriteFile(b) PROVE TypeOK'
  <2>1. payload(b) \in Payloads
    BY DEF payload, Payloads, cache_drop_ok
  <2> QED
    BY <1>8, <2>1 DEF WriteFile, envVars
<1>9. ASSUME NEW b \in Backends, ReadFiles(b) PROVE TypeOK'
  <2>1. IsMerge([x \in Present |-> file[x]])
    BY <1>9 DEF ReadFiles, IsMerge, Present, AnyTorn
  <2> QED
    BY <1>9, <2>1 DEF ReadFiles, outVars, envVars
<1>10. ASSUME NEW b \in Backends, NEW how \in {"finished", "died"}, ProcessEnds(b, how),
              IsMerge(summary'.data), summary'.dropped \in BOOLEAN, fresh' \subseteq Backends,
              UNCHANGED <<file, page, can_drop, passes>>
       PROVE  TypeOK'
  <2>1. samples' \in [Backends -> Samples] /\ run_entries' \in [Backends -> Seq(Entries)]
    BY <1>10 DEF ProcessEnds, Samples
  <2>2. IsMerge(<<>>)
    BY DEF IsMerge
  <2> QED
    BY <1>10, <2>1, <2>2 DEF ProcessEnds
<1>11. ASSUME NEW b \in Backends, WriteSummary(b) PROVE TypeOK'
  BY <1>10, <1>11 DEF WriteSummary, AllDropped
<1>15. ASSUME NEW b \in Backends, OpenSummary(b) PROVE TypeOK'
  <2>1. IsMerge(Nothing.data) /\ Nothing.dropped \in BOOLEAN
    BY DEF IsMerge, Nothing
  <2> QED
    BY <1>15, <2>1 DEF OpenSummary, envVars
<1>12. ASSUME NEW b \in Backends, Die(b) PROVE TypeOK'
  BY <1>10, <1>12 DEF Die, outVars
<1>13. CASE BuildPage
  <2>1. IsMerge([x \in Present |-> file[x]])
    BY <1>13 DEF BuildPage, IsMerge, Present, AnyTorn
  <2>2. IsMerge(Nothing.data) /\ Nothing.dropped \in BOOLEAN
    BY DEF IsMerge, Nothing
  <2>3. IsMerge(page'.data) /\ page'.dropped \in BOOLEAN
    <3>1. CASE page' = Nothing
      BY <2>2, <3>1
    <3>2. CASE page' # Nothing
      <4>1. page' = [data |-> [x \in Present |-> file[x]],
                     dropped |-> os_page_cache_dropped([x \in Present |-> file[x]])]
        BY <1>13, <3>2 DEF BuildPage
      <4> QED
        BY <2>1, <4>1 DEF os_page_cache_dropped
    <3> QED
      BY <3>1, <3>2
  <2>4. UNCHANGED <<fresh, passVars, file, summary, envVars>>
    BY <1>13 DEF BuildPage
  <2> QED
    BY <2>3, <2>4 DEF passVars, envVars
<1>14. CASE UNCHANGED vars
  BY <1>14 DEF vars, passVars, outVars, envVars
<1> QED
  BY <1>1, <1>2, <1>3, <1>4, <1>5, <1>6, <1>7, <1>8, <1>9, <1>11, <1>12, <1>13, <1>14, <1>15,
     EntriesAreAdded DEF Next, Pass

\* Every variable keeps its type, whatever overlaps and dies.
THEOREM TypeCorrect == Spec => []TypeOK
<1>1. Init => TypeOK
  BY CountsAssumption DEF Init, TypeOK, IsMerge, Nothing, Samples
<1> QED
  BY <1>1, TypeStep, PTL DEF Spec

-----------------------------------------------------------------------------
(* Cold samples *)

\* A backend's pass as it is, but that its page cache may have been dropped.
Untouched(x) ==
  /\ pc'[x] = pc[x] /\ attested'[x] = attested[x] /\ cold_state'[x] = cold_state[x]
  /\ samples'[x] = samples[x] /\ run_entries'[x] = run_entries[x]
  /\ merged'[x] = merged[x] /\ file'[x] = file[x]
  /\ x \in fresh => x \in fresh'

\* A pass touches nothing of another backend's, but for the shared page cache.
LEMMA PassesApart ==
  ASSUME TypeOK, NEW b \in Backends, Pass(b), NEW x \in Backends, x # b
  PROVE  Untouched(x)
<1> USE DEF TypeOK, Untouched
<1>1. ASSUME NEW att \in BOOLEAN, StartPass(b, att) PROVE Untouched(x)
  BY <1>1 DEF StartPass, outVars
<1>2. CASE DropCache(b)
  BY <1>2 DEF DropCache, drop_os_page_cache, outVars
<1>3. CASE Sample(b)
  BY <1>3 DEF Sample, outVars
<1>4. CASE RecordEntry(b) \/ RecordError(b)
  BY <1>4 DEF RecordEntry, RecordError, AddEntry, outVars
<1>5. CASE VariantsDone(b) \/ OpenFile(b) \/ WriteFile(b) \/ ReadFiles(b) \/ OpenSummary(b)
  BY <1>5 DEF VariantsDone, OpenFile, WriteFile, ReadFiles, OpenSummary, outVars
<1>6. CASE WriteSummary(b) \/ Die(b)
  BY <1>6 DEF WriteSummary, Die, ProcessEnds, outVars
<1> QED
  BY <1>1, <1>2, <1>3, <1>4, <1>5, <1>6 DEF Pass

\* An entry whose recorded state says that the first sample was read cold.
ClaimsCold(state, i) == state = COLD_DROPPED \/ (state = COLD_ATTESTED /\ i = 1)

\* The entries of a pass, the samples of its variant, and the cache before them.
ColdPass(b) ==
  /\ \A i \in 1 .. Len(run_entries[b]) :
       LET e == run_entries[b][i]
       IN  ~e.error => /\ Len(e.samples) = Runs
                       /\ ClaimsCold(e.cold_state, i) => FirstIsCold(e)
  /\ Len(run_entries[b]) <= NumVariants
  /\ pc[b] = "sampling" =>
       /\ Len(run_entries[b]) < NumVariants /\ Len(samples[b]) <= Runs
       /\ ClaimsCold(cold_state[b], Len(run_entries[b]) + 1) =>
            IF samples[b] = <<>> THEN b \in fresh ELSE samples[b][1] = "cold"
  /\ pc[b] = "variant" =>
       /\ samples[b] = <<>>
       /\ attested[b] /\ run_entries[b] = <<>> => b \in fresh
  /\ pc[b] = "idle" => samples[b] = <<>> /\ run_entries[b] = <<>>

ColdPasses == \A b \in Backends : ColdPass(b)

ColdInv == TypeOK /\ ColdPasses

LEMMA ColdUntouched ==
  ASSUME NEW b \in Backends, ColdPass(b), Untouched(b)
  PROVE  ColdPass(b)'
BY DEF ColdPass, Untouched, ClaimsCold, FirstIsCold

\* The part of the types that steps of a pass need.
PassTypes ==
  /\ pc \in [Backends -> {"idle", "variant", "sampling", "persisting", "writing",
                          "merging", "summarising", "reporting"}]
  /\ attested \in [Backends -> BOOLEAN]
  /\ cold_state \in [Backends -> ColdStates \cup {"none"}]
  /\ samples \in [Backends -> Samples]
  /\ run_entries \in [Backends -> Seq(Entries)]

LEMMA ColdStep ==
  ASSUME ColdInv, NEW b \in Backends, Pass(b)
  PROVE  ColdPass(b)'
<1>t. PassTypes
  BY DEF ColdInv, TypeOK, PassTypes
<1>0. ColdPass(b) /\ Runs \in Nat \ {0} /\ NumVariants \in Nat \ {0}
      /\ Len(run_entries[b]) \in Nat /\ Len(samples[b]) \in Nat
  BY <1>t, CountsAssumption DEF ColdInv, ColdPasses, PassTypes, Samples
<1>1. ASSUME NEW att \in BOOLEAN, StartPass(b, att) PROVE ColdPass(b)'
  <2>1. /\ pc'[b] = "variant" /\ attested'[b] = att /\ (att => b \in fresh')
        /\ samples'[b] = <<>> /\ run_entries'[b] = <<>>
    BY <1>t, <1>0, <1>1 DEF PassTypes, StartPass, ColdPass
  <2> QED
    BY <1>0, <2>1 DEF ColdPass
<1>2. CASE DropCache(b)
  <2>1. /\ pc[b] = "variant" /\ pc'[b] = "sampling" /\ Len(run_entries[b]) < NumVariants
        /\ run_entries'[b] = run_entries[b] /\ samples'[b] = <<>>
    BY <1>t, <1>0, <1>2 DEF PassTypes, DropCache, ColdPass
  <2>2. ASSUME ClaimsCold(cold_state'[b], Len(run_entries[b]) + 1)
        PROVE  b \in fresh'
    <3>1. CASE cold_state'[b] = COLD_DROPPED
      BY <1>t, <1>2, <3>1 DEF PassTypes, DropCache, drop_os_page_cache, COLD_DROPPED, COLD_ATTESTED, COLD_REMOTE,
         COLD_NO_SUDO, COLD_UNSUPPORTED
    <3>2. CASE cold_state'[b] = COLD_ATTESTED /\ Len(run_entries[b]) = 0
      <4>1. attested[b] /\ fresh' = fresh
        BY <1>t, <1>2, <3>2 DEF PassTypes, DropCache, drop_os_page_cache, COLD_DROPPED, COLD_ATTESTED, COLD_REMOTE,
           COLD_NO_SUDO, COLD_UNSUPPORTED
      <4>2. run_entries[b] = <<>>
        BY <3>2
      <4> QED
        BY <1>0, <2>1, <4>1, <4>2 DEF ColdPass
    <3> QED
      BY <1>0, <2>2, <3>1, <3>2 DEF ClaimsCold
  <2> QED
    BY <1>0, <2>1, <2>2 DEF ColdPass
<1>3. CASE Sample(b)
  <2> DEFINE S == {"cold", "warm"}
             s == IF b \in fresh THEN "cold" ELSE "warm"
  <2>1. /\ pc[b] = "sampling" /\ pc'[b] = "sampling" /\ Len(samples[b]) < Runs
        /\ run_entries'[b] = run_entries[b] /\ cold_state'[b] = cold_state[b]
        /\ samples'[b] = Append(samples[b], s)
    BY <1>t, <1>3 DEF PassTypes, Sample
  <2>2. samples[b] \in Seq(S) /\ s \in S
    BY <1>t DEF PassTypes, Samples
  <2> HIDE DEF s, S
  <2>3. /\ Len(samples'[b]) = Len(samples[b]) + 1 /\ samples'[b] # <<>>
        /\ samples'[b][1] = IF samples[b] = <<>> THEN s ELSE samples[b][1]
    <3>1. /\ Len(Append(samples[b], s)) = Len(samples[b]) + 1 /\ Append(samples[b], s) # <<>>
          /\ Append(samples[b], s)[1] = IF samples[b] = <<>> THEN s ELSE samples[b][1]
      BY <2>2, Appended
    <3> QED
      BY <2>1, <3>1
  <2> QED
    BY <1>0, <2>1, <2>3 DEF ColdPass, s
<1>4. ASSUME NEW entry \in Entries, Adds(b, entry) PROVE ColdPass(b)'
  <2>1. /\ pc[b] = "sampling" /\ pc'[b] = "variant" /\ samples'[b] = <<>>
        /\ run_entries'[b] = Append(run_entries[b], entry)
        /\ (entry = Measured(b) /\ Len(samples[b]) = Runs) \/ entry.error
    BY <1>t, <1>4 DEF PassTypes, Adds, AddEntry
  <2>2. /\ Len(run_entries'[b]) = Len(run_entries[b]) + 1 /\ run_entries'[b] # <<>>
        /\ run_entries'[b][Len(run_entries[b]) + 1] = entry
        /\ \A i \in 1 .. Len(run_entries[b]) : run_entries'[b][i] = run_entries[b][i]
    <3>1. run_entries[b] \in Seq(Entries) /\ entry \in Entries
      BY <1>t DEF PassTypes
    <3> QED
      BY <2>1, <3>1, Appended
  <2>3. ~entry.error => /\ Len(entry.samples) = Runs
                        /\ ClaimsCold(entry.cold_state, Len(run_entries[b]) + 1) => FirstIsCold(entry)
    <3>1. CASE entry = Measured(b) /\ Len(samples[b]) = Runs
      <4>1. samples[b] # <<>>
        BY <1>0, <3>1
      <4> QED
        BY <1>0, <2>1, <3>1, <4>1 DEF ColdPass, Measured, FirstIsCold
    <3> QED
      BY <2>1, <3>1
  <2>4. \A i \in 1 .. Len(run_entries'[b]) :
          i = Len(run_entries[b]) + 1 \/ i \in 1 .. Len(run_entries[b])
    BY <1>0, <2>2
  <2>5. ASSUME NEW i \in 1 .. Len(run_entries'[b])
        PROVE  LET e == run_entries'[b][i]
               IN  ~e.error => /\ Len(e.samples) = Runs
                               /\ ClaimsCold(e.cold_state, i) => FirstIsCold(e)
    BY <1>0, <2>2, <2>3, <2>4 DEF ColdPass
  <2> QED
    BY <1>0, <2>1, <2>2, <2>5 DEF ColdPass, ClaimsCold, FirstIsCold
<1>5. CASE VariantsDone(b) \/ OpenFile(b) \/ WriteFile(b) \/ ReadFiles(b) \/ OpenSummary(b)
  <2>1. pc'[b] \notin {"idle", "variant", "sampling"} /\ run_entries'[b] = run_entries[b]
    BY <1>t, <1>5 DEF PassTypes, VariantsDone, OpenFile, WriteFile, ReadFiles, OpenSummary
  <2> QED
    BY <1>0, <2>1 DEF ColdPass, ClaimsCold, FirstIsCold
<1>6. CASE WriteSummary(b) \/ Die(b)
  <2>1. pc'[b] = "idle" /\ run_entries'[b] = <<>> /\ samples'[b] = <<>>
    BY <1>t, <1>6 DEF PassTypes, WriteSummary, Die, ProcessEnds
  <2> QED
    BY <1>0, <2>1 DEF ColdPass
<1> QED
  BY <1>1, <1>2, <1>3, <1>4, <1>5, <1>6, EntriesAreAdded DEF Pass, ColdInv

\* The cold state of a pass (run-benchmark.py:445-486) tells what its next or its
\* first sample is read from.
THEOREM ColdInvariant == Spec => []ColdInv
<1>1. ASSUME Init PROVE ColdPasses
  <2>1. Len(<<>>) = 0 /\ NumVariants \in Nat /\ 1 .. 0 = {} /\ 0 <= NumVariants
    BY CountsAssumption
  <2>2. ASSUME NEW b \in Backends PROVE pc[b] = "idle" /\ run_entries[b] = <<>> /\ samples[b] = <<>>
    BY <1>1 DEF Init
  <2>3. ASSUME NEW b \in Backends PROVE 1 .. Len(run_entries[b]) = {} /\ Len(run_entries[b]) <= NumVariants
    BY <2>1, <2>2
  <2> QED
    BY <2>2, <2>3 DEF ColdPasses, ColdPass
<1>2. ASSUME ColdInv, [Next]_vars PROVE ColdPasses'
  <2>1. ASSUME NEW b \in Backends, Pass(b), NEW x \in Backends PROVE ColdPass(x)'
    BY <1>2, <2>1, ColdStep, PassesApart, ColdUntouched DEF ColdInv, ColdPasses
  <2>2. CASE BuildPage \/ UNCHANGED vars \/ \E b \in Backends : OperatorDrops(b)
    <3>1. \A x \in Backends : Untouched(x)
      BY <2>2 DEF BuildPage, OperatorDrops, Untouched, vars, passVars, outVars
    <3> QED
      BY <1>2, <3>1, ColdUntouched DEF ColdInv, ColdPasses
  <2> QED
    BY <1>2, <2>1, <2>2 DEF Next, ColdPasses
<1> QED
  BY <1>1, <1>2, TypeCorrect, PTL DEF Spec, ColdInv

\* A variant recorded as dropped locally was read cold, and so was the first
\* one of a pass whose cache the operator had dropped: whatever overlaps, fails
\* and dies, since nothing but the backend's own pass reads from it.
THEOREM DroppedMeansCold == Spec => []DroppedIsCold
<1>1. ASSUME ColdInv PROVE DroppedIsCold
  <2>1. \A b \in Backends : run_entries[b] \in Seq(Entries)
    BY <1>1 DEF ColdInv, TypeOK
  <2>2. ASSUME NEW b \in Backends, NEW i \in DOMAIN run_entries[b], ~run_entries[b][i].error,
               ClaimsCold(run_entries[b][i].cold_state, i)
        PROVE  FirstIsCold(run_entries[b][i])
    <3>1. i \in 1 .. Len(run_entries[b])
      BY <2>1, <2>2
    <3> QED
      BY <1>1, <2>2, <3>1 DEF ColdInv, ColdPasses, ColdPass
  <2> QED
    BY <2>2 DEF DroppedIsCold, ClaimsCold
<1> QED
  BY <1>1, ColdInvariant, PTL

-----------------------------------------------------------------------------
(* What the summary and the page claim *)

\* A result file that says dropped has cold variants only, but for those
\* somebody else's word is taken for.
Sound(result) ==
  result.dropped => \A e \in Completed(result.queries) : FirstIsCold(e) \/ e.cold_state = COLD_ATTESTED
SoundMerge(data) == \A b \in DOMAIN data : Sound(data[b])

ClaimsSound ==
  /\ \A b \in Backends : SoundMerge(merged[b]) /\ (file[b] \notin {Absent, Torn} => Sound(file[b]))
  /\ SoundMerge(summary.data) /\ (summary.dropped => AllDropped(summary.data))
  /\ SoundMerge(page.data) /\ (page.dropped => AllDropped(page.data))

ClaimInv == ColdInv /\ ClaimsSound

LEMMA PayloadIsSound ==
  ASSUME ColdInv, NEW b \in Backends
  PROVE  Sound(payload(b))
<1> SUFFICES ASSUME cache_drop_ok(run_entries[b]), NEW e \in Completed(run_entries[b])
             PROVE  FirstIsCold(e) \/ e.cold_state = COLD_ATTESTED
  BY DEF Sound, payload
<1>1. e.cold_state \in COLD_OK /\ ~e.error
  BY DEF cache_drop_ok, StatesOf, Completed
<1>2. PICK i \in 1 .. Len(run_entries[b]) : e = run_entries[b][i]
  BY DEF Completed, EntriesOf
<1>3. e.cold_state = COLD_DROPPED => FirstIsCold(e)
  BY <1>1, <1>2 DEF ColdInv, ColdPasses, ColdPass, ClaimsCold
<1> QED
  BY <1>1, <1>3 DEF COLD_OK

\* A pass or the page builder that reads the files reads sound ones.
LEMMA FilesAreSound ==
  ASSUME ClaimInv, ~AnyTorn
  PROVE  SoundMerge([x \in Present |-> file[x]])
BY DEF ClaimInv, ClaimsSound, SoundMerge, Present, AnyTorn

\* Whatever is kept in memory, in a file, in the summary or on the page claims
\* a dropped cache only for entries that say so.
THEOREM ClaimInvariant == Spec => []ClaimInv
<1>1. Init => ClaimsSound
  BY DEF Init, ClaimsSound, SoundMerge, Nothing
<1>2. ASSUME ClaimInv, [Next]_vars PROVE ClaimsSound'
  <2> USE <1>2 DEF ClaimInv, ColdInv, TypeOK
  <2>1. ASSUME NEW b \in Backends, WriteFile(b) PROVE ClaimsSound'
    <3>1. /\ file' = [file EXCEPT ![b] = payload(b)]
          /\ merged' = merged /\ summary' = summary /\ page' = page
      BY <2>1 DEF WriteFile
    <3>2. Sound(payload(b))
      BY PayloadIsSound
    <3>3. \A x \in Backends : file'[x] \notin {Absent, Torn} => Sound(file'[x])
      BY <3>1, <3>2 DEF ClaimsSound
    <3> QED
      BY <3>1, <3>3 DEF ClaimsSound, SoundMerge, AllDropped
  <2>2. ASSUME NEW b \in Backends, ReadFiles(b) PROVE ClaimsSound'
    <3>1. /\ merged' = [merged EXCEPT ![b] = [x \in Present |-> file[x]]] /\ ~AnyTorn
          /\ file' = file /\ summary' = summary /\ page' = page
      BY <2>2 DEF ReadFiles, outVars
    <3>2. SoundMerge([x \in Present |-> file[x]])
      BY <3>1, FilesAreSound
    <3>3. \A x \in Backends : SoundMerge(merged'[x])
      BY <3>1, <3>2 DEF ClaimsSound
    <3> QED
      BY <3>1, <3>3 DEF ClaimsSound, SoundMerge, AllDropped
  <2>3. ASSUME NEW b \in Backends, WriteSummary(b) \/ Die(b) PROVE ClaimsSound'
    <3>1. /\ merged' = [merged EXCEPT ![b] = <<>>] /\ file' = file /\ page' = page
          /\ \/ summary' = summary
             \/ summary'.data = merged[b] /\ summary'.dropped = AllDropped(merged[b])
      BY <2>3 DEF WriteSummary, Die, ProcessEnds, outVars
    <3>2. SoundMerge(<<>>)
      BY DEF SoundMerge
    <3>3. \A x \in Backends : SoundMerge(merged'[x])
      BY <3>1, <3>2 DEF ClaimsSound
    <3>4. SoundMerge(summary'.data) /\ (summary'.dropped => AllDropped(summary'.data))
      BY <3>1 DEF ClaimsSound
    <3> QED
      BY <3>1, <3>3, <3>4 DEF ClaimsSound, SoundMerge, AllDropped
  <2>4. ASSUME NEW b \in Backends, OpenFile(b) PROVE ClaimsSound'
    BY <2>4 DEF OpenFile, ClaimsSound, SoundMerge, AllDropped
  <2>0. SoundMerge(Nothing.data) /\ (Nothing.dropped => AllDropped(Nothing.data))
    BY DEF Nothing, SoundMerge
  <2>9. ASSUME NEW b \in Backends, OpenSummary(b) PROVE ClaimsSound'
    <3>1. summary' = Nothing /\ merged' = merged /\ file' = file /\ page' = page
      BY <2>9 DEF OpenSummary
    <3>2. SoundMerge(summary'.data) /\ (summary'.dropped => AllDropped(summary'.data))
      BY <2>0, <3>1
    <3> QED
      BY <3>1, <3>2 DEF ClaimsSound, SoundMerge, AllDropped
  <2>5. CASE BuildPage
    <3>1. ~AnyTorn /\ merged' = merged /\ file' = file /\ summary' = summary
      BY <2>5 DEF BuildPage, passVars
    <3>2. SoundMerge(page'.data) /\ (page'.dropped => AllDropped(page'.data))
      <4>1. CASE page' = Nothing
        BY <2>0, <4>1
      <4>2. CASE page' # Nothing
        <5>1. page' = [data |-> [x \in Present |-> file[x]],
                       dropped |-> os_page_cache_dropped([x \in Present |-> file[x]])]
          BY <2>5, <4>2 DEF BuildPage
        <5>2. SoundMerge([x \in Present |-> file[x]])
          BY <3>1, FilesAreSound
        <5> QED
          BY <5>1, <5>2 DEF os_page_cache_dropped, AllDropped
      <4> QED
        BY <4>1, <4>2
    <3> QED
      BY <3>1, <3>2 DEF ClaimsSound, SoundMerge, AllDropped
  <2>6. CASE UNCHANGED <<merged, file, summary, page>>
    BY <2>6 DEF ClaimsSound, SoundMerge, AllDropped
  <2>7. ASSUME NEW b \in Backends,
               \/ \E att \in BOOLEAN : StartPass(b, att)
               \/ DropCache(b) \/ Sample(b) \/ RecordEntry(b) \/ RecordError(b) \/ VariantsDone(b)
               \/ OperatorDrops(b)
        PROVE  UNCHANGED <<merged, file, summary, page>>
    BY <2>7 DEF StartPass, DropCache, Sample, RecordEntry, RecordError, VariantsDone, OperatorDrops,
       outVars, passVars
  <2>8. CASE UNCHANGED vars
    BY <2>6, <2>8 DEF vars, passVars, outVars
  <2> QED
    BY <2>1, <2>2, <2>3, <2>4, <2>5, <2>6, <2>7, <2>8, <2>9 DEF Next, Pass
<1> QED
  BY <1>1, <1>2, ColdInvariant, PTL DEF Spec, ClaimInv

\* The summary that says the cache was dropped at each query start was made from
\* files in which that holds of each variant that was measured, and so was the
\* page that labels the first run cold: whichever passes failed, died or
\* overlapped, however old each file is.
THEOREM SummaryClaimHolds == Spec => []SummaryColdClaim
<1>1. ClaimInv => SummaryColdClaim
  BY DEF ClaimInv, ClaimsSound, SoundMerge, Sound, AllDropped, SummaryColdClaim, ColdThroughout
<1> QED
  BY <1>1, ClaimInvariant, PTL

\* The page, like the summary.
THEOREM PageClaimHolds == Spec => []PageColdClaim
<1>1. ClaimInv => PageColdClaim
  BY DEF ClaimInv, ClaimsSound, SoundMerge, Sound, AllDropped, PageColdClaim, ColdLabelShown, ColdThroughout
<1> QED
  BY <1>1, ClaimInvariant, PTL

-----------------------------------------------------------------------------
(* Passes one at a time *)

Alone == \A x, y \in Backends : pc[x] # "idle" /\ pc[y] # "idle" => x = y

\* Once a variant has a sample its backend's cache is warm, and so are its
\* later samples; nothing else drops that cache while no other pass runs.
HotPass(b) ==
  /\ pc[b] = "sampling" =>
       /\ samples[b] # <<>> => b \notin fresh
       /\ \A i \in 2 .. Len(samples[b]) : samples[b][i] = "warm"
  /\ \A e \in Completed(run_entries[b]) : \A i \in 2 .. Runs : e.samples[i] = "warm"

HotPasses == Alone /\ \A b \in Backends : HotPass(b)
HotInv == ColdInv /\ HotPasses

LEMMA AloneStays ==
  ASSUME TypeOK, Overlap = FALSE, Alone, [Next]_vars
  PROVE  Alone'
<1> USE DEF TypeOK, Alone
<1>1. ASSUME NEW b \in Backends, NEW att \in BOOLEAN, StartPass(b, att) PROVE Alone'
  BY <1>1 DEF StartPass
<1>2. ASSUME NEW b \in Backends, Pass(b), pc[b] # "idle" PROVE Alone'
  <2>1. \A x \in Backends : x # b => pc'[x] = pc[x]
    BY <1>2, PassesApart DEF Untouched
  <2> QED
    BY <1>2, <2>1
<1>3. ASSUME NEW b \in Backends, Pass(b), pc[b] = "idle"
      PROVE  \E att \in BOOLEAN : StartPass(b, att)
  BY <1>3 DEF Pass, DropCache, Sample, RecordEntry, RecordError, VariantsDone, OpenFile, WriteFile,
     ReadFiles, OpenSummary, WriteSummary, Die
<1>4. CASE BuildPage \/ UNCHANGED vars \/ \E b \in Backends : OperatorDrops(b)
  BY <1>4 DEF BuildPage, OperatorDrops, vars, passVars
<1> QED
  BY <1>1, <1>2, <1>3, <1>4 DEF Next

\* The pass that moves keeps its later samples warm.
LEMMA HotStep ==
  ASSUME HotInv, ColdInv', NEW b \in Backends, Pass(b)
  PROVE  HotPass(b)'
<1>t. PassTypes
  BY DEF HotInv, ColdInv, TypeOK, PassTypes
<1>0. HotPass(b) /\ ColdPass(b)
  BY DEF HotInv, HotPasses, ColdInv, ColdPasses
<1>1. ASSUME NEW att \in BOOLEAN, StartPass(b, att) PROVE HotPass(b)'
  BY <1>0, <1>1 DEF StartPass, HotPass
<1>2. CASE DropCache(b)
  <2>1. samples'[b] = <<>> /\ run_entries'[b] = run_entries[b]
    BY <1>0, <1>t, <1>2 DEF PassTypes, DropCache, ColdPass
  <2>2. 2 .. Len(samples'[b]) = {}
    <3>1. Len(<<>>) = 0 /\ 2 .. 0 = {}
      OBVIOUS
    <3> QED
      BY <2>1, <3>1
  <2> QED
    BY <1>0, <2>1, <2>2 DEF HotPass
<1>3. CASE Sample(b)
  <2> DEFINE S == {"cold", "warm"}
             s == IF b \in fresh THEN "cold" ELSE "warm"
  <2>1. /\ pc[b] = "sampling" /\ samples'[b] = Append(samples[b], s)
        /\ run_entries'[b] = run_entries[b] /\ b \notin fresh'
    BY <1>t, <1>3 DEF PassTypes, Sample
  <2>2. samples[b] \in Seq(S) /\ s \in S
    BY <1>t DEF PassTypes, Samples
  <2>3. samples[b] # <<>> => s = "warm"
    BY <1>0, <2>1 DEF HotPass
  <2> HIDE DEF s, S
  <2>4. /\ Len(samples[b]) \in Nat /\ (Len(samples[b]) = 0 <=> samples[b] = <<>>)
        /\ Len(samples'[b]) = Len(samples[b]) + 1
        /\ samples'[b][Len(samples[b]) + 1] = s
        /\ \A i \in 1 .. Len(samples[b]) : samples'[b][i] = samples[b][i]
    BY <2>1, <2>2, Appended
  <2>5. ASSUME NEW i \in 2 .. Len(samples'[b]) PROVE samples'[b][i] = "warm"
    <3>1. CASE i = Len(samples[b]) + 1
      BY <2>3, <2>4, <2>5, <3>1
    <3>2. CASE i # Len(samples[b]) + 1
      <4>1. i \in 2 .. Len(samples[b]) /\ i \in 1 .. Len(samples[b])
        BY <2>4, <2>5, <3>2
      <4> QED
        BY <1>0, <2>1, <2>4, <4>1 DEF HotPass
    <3> QED
      BY <3>1, <3>2
  <2> QED
    BY <1>0, <2>1, <2>5 DEF HotPass
<1>4. ASSUME NEW entry \in Entries, Adds(b, entry) PROVE HotPass(b)'
  <2>1. /\ pc[b] = "sampling" /\ pc'[b] = "variant"
        /\ run_entries'[b] = Append(run_entries[b], entry)
        /\ (entry = Measured(b) /\ Len(samples[b]) = Runs) \/ entry.error
    BY <1>t, <1>4 DEF PassTypes, Adds, AddEntry
  <2>2. \A e \in Completed(run_entries'[b]) : e \in Completed(run_entries[b]) \/ e = entry
    <3>1. run_entries[b] \in Seq(Entries) /\ entry \in Entries
      BY <1>t DEF PassTypes
    <3>2. /\ Len(run_entries'[b]) = Len(run_entries[b]) + 1 /\ Len(run_entries[b]) \in Nat
          /\ run_entries'[b][Len(run_entries[b]) + 1] = entry
          /\ \A i \in 1 .. Len(run_entries[b]) : run_entries'[b][i] = run_entries[b][i]
      BY <2>1, <3>1, Appended
    <3>3. ASSUME NEW e \in Completed(run_entries'[b]), e # entry
          PROVE  e \in Completed(run_entries[b])
      <4>1. ~e.error
        BY DEF Completed
      <4>2. PICK i \in 1 .. Len(run_entries'[b]) : e = run_entries'[b][i]
        BY DEF Completed, EntriesOf
      <4>3. i \in 1 .. Len(run_entries[b])
        BY <3>2, <3>3, <4>2
      <4>4. e = run_entries[b][i]
        BY <3>2, <4>2, <4>3
      <4> QED
        BY <4>1, <4>3, <4>4 DEF Completed, EntriesOf
    <3> QED
      BY <3>3
  <2>3. ~entry.error => \A i \in 2 .. Runs : entry.samples[i] = "warm"
    BY <1>0, <2>1 DEF HotPass, Measured
  <2>4. ASSUME NEW e \in Completed(run_entries'[b]), NEW i \in 2 .. Runs
        PROVE  e.samples[i] = "warm"
    <3>1. CASE e = entry
      <4>1. ~e.error
        BY DEF Completed
      <4> QED
        BY <2>3, <3>1, <4>1
    <3>2. CASE e \in Completed(run_entries[b])
      BY <1>0, <3>2 DEF HotPass
    <3> QED
      BY <2>2, <3>1, <3>2
  <2>5. pc'[b] # "sampling"
    BY <2>1
  <2> QED
    BY <2>4, <2>5 DEF HotPass
<1>5. CASE VariantsDone(b) \/ OpenFile(b) \/ WriteFile(b) \/ ReadFiles(b) \/ OpenSummary(b)
  <2>1. pc'[b] # "sampling" /\ run_entries'[b] = run_entries[b]
    BY <1>t, <1>5 DEF PassTypes, VariantsDone, OpenFile, WriteFile, ReadFiles, OpenSummary
  <2> QED
    BY <1>0, <2>1 DEF HotPass
<1>6. CASE WriteSummary(b) \/ Die(b)
  <2>1. pc'[b] = "idle" /\ run_entries'[b] = <<>>
    BY <1>t, <1>6 DEF PassTypes, WriteSummary, Die, ProcessEnds
  <2>2. Completed(<<>>) = {}
    <3>1. Len(<<>>) = 0 /\ 1 .. 0 = {}
      OBVIOUS
    <3> QED
      BY <3>1 DEF Completed, EntriesOf
  <2> QED
    BY <2>1, <2>2 DEF HotPass
<1> QED
  BY <1>1, <1>2, <1>3, <1>4, <1>5, <1>6, EntriesAreAdded DEF Pass, ColdInv, HotInv

\* Passes one at a time: a variant that has a sample has warmed its backend.
THEOREM HotInvariant ==
  ASSUME Overlap = FALSE
  PROVE  Spec => []HotInv
<1>1. ASSUME Init PROVE HotPasses
  <2>1. Completed(<<>>) = {}
    <3>1. Len(<<>>) = 0 /\ 1 .. 0 = {}
      OBVIOUS
    <3> QED
      BY <3>1 DEF Completed, EntriesOf
  <2> QED
    BY <1>1, <2>1 DEF Init, HotPasses, Alone, HotPass
<1>2. ASSUME HotInv, [Next]_vars, ColdInv' PROVE HotPasses'
  <2> USE <1>2 DEF HotInv, HotPasses
  <2>1. Alone'
    BY AloneStays DEF ColdInv
  <2>2. ASSUME NEW x \in Backends,
               UNCHANGED <<pc[x], samples[x], run_entries[x]>>,
               pc[x] = "sampling" /\ x \notin fresh => x \notin fresh'
        PROVE  HotPass(x)'
    BY <2>2 DEF HotPass, Completed, EntriesOf
  <2>3. ASSUME NEW b \in Backends, Pass(b), NEW x \in Backends PROVE HotPass(x)'
    <3>1. CASE x = b
      BY <2>3, <3>1, HotStep
    <3>2. CASE x # b
      <4>1. UNCHANGED <<pc[x], samples[x], run_entries[x]>>
        BY <2>3, <3>2, PassesApart DEF Untouched, ColdInv
      <4>2. ASSUME pc[x] = "sampling" PROVE x \notin fresh => x \notin fresh'
        <5>1. pc[b] = "idle"
          BY <3>2, <4>2 DEF Alone
        <5>2. fresh' = fresh
          BY <2>3, <5>1 DEF Pass, StartPass, DropCache, Sample, RecordEntry, RecordError, VariantsDone,
             OpenFile, WriteFile, ReadFiles, OpenSummary, WriteSummary, Die
        <5> QED
          BY <5>2
      <4> QED
        BY <2>2, <4>1, <4>2
    <3> QED
      BY <3>1, <3>2
  <2>4. ASSUME NEW b \in Backends, OperatorDrops(b), NEW x \in Backends PROVE HotPass(x)'
    BY <2>2, <2>4 DEF OperatorDrops, passVars
  <2>5. ASSUME BuildPage \/ UNCHANGED vars, NEW x \in Backends PROVE HotPass(x)'
    BY <2>2, <2>5 DEF BuildPage, vars, passVars
  <2> QED
    BY <2>1, <2>3, <2>4, <2>5 DEF Next
<1> QED
  BY <1>1, <1>2, ColdInvariant, PTL DEF Spec, HotInv

\* The later samples of a variant are hot, as long as passes do not overlap: no
\* pass and no operator drops the cache between two of them.
THEOREM LaterSamplesAreHot ==
  ASSUME Overlap = FALSE
  PROVE  Spec => []HotIsHot
<1>1. HotInv => HotIsHot
  BY DEF HotInv, HotPasses, HotPass, HotIsHot
<1> QED
  BY <1>1, HotInvariant, PTL

\* What a reader of results/ finds there.
Files == [x \in Present |-> file[x]]

\* A file that is whole has all variants; what a pass has read is still there
\* when it writes the summary, and the last pass that finished left it current.
CurrentInv ==
  /\ \A b \in Backends :
       /\ file[b] \notin {Absent, Torn} => Len(file[b].queries) = NumVariants
       /\ pc[b] \in {"persisting", "writing"} => Len(run_entries[b]) = NumVariants
       /\ pc[b] \in {"summarising", "reporting"} => ~AnyTorn /\ merged[b] = Files
  /\ (\A b \in Backends : pc[b] = "idle") /\ last = "finished" => ~AnyTorn /\ summary.data = Files
  /\ DOMAIN summary.data \subseteq Present

FreshInv == HotInv /\ CurrentInv

\* A step that leaves the files as they are.
LEMMA FilesStay ==
  ASSUME file' = file
  PROVE  Present' = Present /\ Files' = Files /\ (AnyTorn' <=> AnyTorn)
BY DEF Present, Files, AnyTorn

\* Passes one at a time: what a pass has merged is still what the files hold.
THEOREM FreshInvariant ==
  ASSUME Overlap = FALSE
  PROVE  Spec => []FreshInv
<1>1. ASSUME Init PROVE CurrentInv
  <2>1. DOMAIN Nothing.data = {}
    BY DEF Nothing
  <2> QED
    BY <1>1, <2>1 DEF Init, CurrentInv
<1>2. ASSUME FreshInv, [Next]_vars PROVE CurrentInv'
  <2> USE <1>2 DEF FreshInv, HotInv, HotPasses, ColdInv, TypeOK
  <2>0. CurrentInv
    OBVIOUS
  \* The steps that touch no file and at most empty the summary, and leave the last
  \* end behind.
  <2>1. ASSUME NEW b \in Backends, file' = file, summary' \in {summary, Nothing}, pc'[b] # "idle" \/ last' # "finished",
               \A x \in Backends : x # b => pc[x] = "idle" /\ pc'[x] = "idle",
               pc'[b] \in {"persisting", "writing"} => Len(run_entries'[b]) = NumVariants,
               pc'[b] \in {"summarising", "reporting"} => ~AnyTorn /\ merged'[b] = Files
        PROVE  CurrentInv'
    <3>1. DOMAIN Nothing.data = {}
      BY DEF Nothing
    <3> QED
      BY <2>0, <2>1, <3>1, FilesStay DEF CurrentInv
  <2>2. ASSUME NEW b \in Backends, Pass(b), pc[b] # "idle" \/ pc'[b] # "idle"
        PROVE  \A x \in Backends : x # b => pc[x] = "idle" /\ pc'[x] = "idle"
    <3>1. Alone'
      BY AloneStays
    <3>2. \A x \in Backends : x # b => pc'[x] = pc[x]
      BY <2>2, PassesApart DEF Untouched
    <3> QED
      BY <2>2, <3>1, <3>2 DEF Alone
  <2>3. ASSUME NEW b \in Backends, NEW att \in BOOLEAN, StartPass(b, att) PROVE CurrentInv'
    BY <2>1, <2>2, <2>3 DEF StartPass, outVars, Pass
  <2>4. ASSUME NEW b \in Backends, DropCache(b) \/ Sample(b) PROVE CurrentInv'
    BY <2>1, <2>2, <2>4 DEF DropCache, Sample, outVars, Pass
  <2>5. ASSUME NEW b \in Backends, RecordEntry(b) \/ RecordError(b) PROVE CurrentInv'
    BY <2>1, <2>2, <2>5 DEF RecordEntry, RecordError, AddEntry, outVars, Pass
  <2>6. ASSUME NEW b \in Backends, VariantsDone(b) PROVE CurrentInv'
    BY <2>1, <2>2, <2>6 DEF VariantsDone, outVars, Pass
  <2>7. ASSUME NEW b \in Backends, ReadFiles(b) PROVE CurrentInv'
    <3>1. /\ merged'[b] = Files /\ ~AnyTorn /\ pc'[b] = "summarising" /\ pc[b] # "idle"
          /\ UNCHANGED <<file, summary>>
      BY <2>7 DEF ReadFiles, outVars, Files
    <3> QED
      BY <2>1, <2>2, <2>7, <3>1 DEF Pass
  <2>8. ASSUME NEW b \in Backends, Die(b) PROVE CurrentInv'
    BY <2>1, <2>2, <2>8 DEF Die, ProcessEnds, outVars, Pass
  <2>12. ASSUME NEW b \in Backends, OpenSummary(b) PROVE CurrentInv'
    <3>1. /\ pc[b] = "summarising" /\ pc'[b] = "reporting" /\ merged' = merged
          /\ file' = file /\ summary' = Nothing
      BY <2>12 DEF OpenSummary
    <3>2. ~AnyTorn /\ merged'[b] = Files
      BY <2>0, <3>1 DEF CurrentInv
    <3> QED
      BY <2>1, <2>2, <2>12, <3>1, <3>2 DEF Pass
  <2>9. ASSUME NEW b \in Backends, OpenFile(b) \/ WriteFile(b) PROVE CurrentInv'
    <3>1. /\ pc[b] \in {"persisting", "writing"} /\ pc'[b] \in {"writing", "merging"}
          /\ summary' = summary /\ run_entries' = run_entries
          /\ file' = [file EXCEPT ![b] = Torn] \/ file' = [file EXCEPT ![b] = payload(b)]
      BY <2>9 DEF OpenFile, WriteFile
    <3>2. \A x \in Backends : x # b => pc[x] = "idle" /\ pc'[x] = "idle"
      BY <2>2, <2>9, <3>1 DEF Pass
    <3>3. payload(b).queries = run_entries[b] /\ Len(run_entries[b]) = NumVariants
      BY <2>0, <3>1 DEF payload, CurrentInv
    <3>4. Torn # Absent /\ payload(b) # Absent
      BY DEF Torn, Absent, payload
    <3>5. Present \subseteq Present'
      BY <3>1, <3>4 DEF Present
    <3> HIDE DEF TypeOK
    <3>6. file \in [Backends -> {Absent, Torn} \cup Payloads]
      BY DEF TypeOK
    <3>7. \A x \in Backends : file'[x] \notin {Absent, Torn} => Len(file'[x].queries) = NumVariants
      BY <2>0, <3>1, <3>3, <3>6 DEF CurrentInv
    <3> QED
      BY <2>0, <3>1, <3>2, <3>3, <3>5, <3>7 DEF CurrentInv
  <2>10. ASSUME NEW b \in Backends, WriteSummary(b) PROVE CurrentInv'
    <3>1. /\ pc[b] = "reporting" /\ pc' = [pc EXCEPT ![b] = "idle"]
          /\ summary'.data = merged[b] /\ file' = file
      BY <2>10 DEF WriteSummary, ProcessEnds
    <3>2. ~AnyTorn /\ merged[b] = Files
      BY <2>0, <3>1 DEF CurrentInv
    <3>3. \A x \in Backends : pc'[x] = "idle"
      BY <2>2, <2>10, <3>1 DEF Pass
    <3>4. DOMAIN Files = Present
      BY DEF Files
    <3> QED
      BY <2>0, <3>1, <3>2, <3>3, <3>4, FilesStay DEF CurrentInv
  <2>11. CASE BuildPage \/ UNCHANGED vars \/ \E b \in Backends : OperatorDrops(b)
    <3>1. UNCHANGED <<pc, run_entries, merged, file, summary, last>>
      BY <2>11 DEF BuildPage, OperatorDrops, vars, passVars, outVars, envVars
    <3> QED
      BY <2>0, <3>1, FilesStay DEF CurrentInv
  <2> QED
    BY <2>3, <2>4, <2>5, <2>6, <2>7, <2>8, <2>9, <2>10, <2>11, <2>12 DEF Next, Pass
<1> QED
  BY <1>1, <1>2, HotInvariant, PTL DEF Spec, FreshInv

\* After a pass that finished, the summary is made of the files there are, and
\* each has an entry for every variant, those that failed included.
THEOREM SummaryIsCurrent ==
  ASSUME Overlap = FALSE
  PROVE  Spec => []SummaryCurrent
<1>1. FreshInv => SummaryCurrent
  BY DEF FreshInv, CurrentInv, SummaryCurrent, Files, Present, AnyTorn
<1> QED
  BY <1>1, FreshInvariant, PTL

\* No step of any pass, dying or not, loses a result file, and whatever passes
\* did before, a summary is written with every backend that has one: separate
\* passes accumulate, also over deaths that left the summary empty.
THEOREM ResultsDoAccumulate ==
  ASSUME Overlap = FALSE
  PROVE  Spec => ResultsAccumulate
<1> DEFINE A == /\ Present \subseteq Present'
                /\ DOMAIN summary.data \subseteq Present
                /\ summary' # summary => summary' = Nothing \/ DOMAIN summary'.data = Present'
<1>1. ASSUME FreshInv, [Next]_vars PROVE A
  <2>0. DOMAIN summary.data \subseteq Present
    BY <1>1 DEF FreshInv, CurrentInv
  <2>1. ASSUME NEW b \in Backends, WriteSummary(b) PROVE A
    <3>1. summary'.data = merged[b] /\ merged[b] = Files /\ file' = file
      BY <1>1, <2>1 DEF WriteSummary, FreshInv, CurrentInv
    <3> QED
      BY <2>0, <3>1, FilesStay DEF Files
  <2>2. ASSUME NEW b \in Backends, OpenFile(b) \/ WriteFile(b) PROVE A
    <3>1. /\ summary' = summary /\ file \in [Backends -> {Absent, Torn} \cup Payloads]
          /\ file' = [file EXCEPT ![b] = Torn] \/ file' = [file EXCEPT ![b] = payload(b)]
      BY <1>1, <2>2 DEF OpenFile, WriteFile, FreshInv, HotInv, ColdInv, TypeOK
    <3>2. Torn # Absent /\ payload(b) # Absent
      BY DEF Torn, Absent, payload
    <3> QED
      BY <2>0, <3>1, <3>2 DEF Present
  <2>3. CASE file' = file /\ summary' \in {summary, Nothing}
    BY <2>0, <2>3, FilesStay
  <2>4. CASE ~(\E b \in Backends : WriteSummary(b) \/ OpenFile(b) \/ WriteFile(b))
    <3>1. file' = file /\ summary' \in {summary, Nothing}
      BY <1>1, <2>4 DEF Next, Pass, StartPass, DropCache, Sample, RecordEntry, RecordError,
         VariantsDone, ReadFiles, OpenSummary, Die, OperatorDrops, BuildPage, vars, outVars
    <3> QED
      BY <2>3, <3>1
  <2> QED
    BY <2>1, <2>2, <2>4
<1>2. FreshInv /\ [Next]_vars => [A]_vars
  BY <1>1
<1> QED
  BY <1>2, FreshInvariant, PTL DEF Spec, ResultsAccumulate
=============================================================================
