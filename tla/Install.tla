------------------------------ MODULE Install ------------------------------
(***************************************************************************)
(* The installer (scripts/install.sh): for each requested program it keeps *)
(* the binary in bin/ that reports the wanted version, and downloads and   *)
(* replaces any other.  It runs under `set -euo pipefail`: the first       *)
(* command that fails ends it.  It may be killed at any step and is run    *)
(* again; between two runs anything may be put into bin/, a binary for     *)
(* another machine included.                                               *)
(***************************************************************************)
EXTENDS Integers, Sequences

CONSTANTS
  Versions,    \* versions of the two programs
  Extends,     \* pairs: the first version's text contains the second's
  Pin,         \* CLICKHOUSE_VERSION
  Wanted,      \* values OPENOBSERVE_VERSION may be given
  MaxTrouble   \* bound on the kills and on the changes made to bin/ between runs

ASSUME VersionsAssumption ==
  /\ Pin \in Versions /\ Wanted \subseteq Versions /\ Wanted # {}
  /\ Extends \subseteq Versions \X Versions
  /\ "none" \notin Versions
  /\ MaxTrouble \in Nat

Programs == {"clickhouse", "openobserve"}
\* What --version of an executable file may tell, or that it does not run.
Executables == Versions \cup {"unrunnable"}
\* Besides: no file, and one that is being written and not yet executable.
Files == Executables \cup {"absent", "partial"}

VARIABLES
  bin,      \* what is at bin/clickhouse and bin/openobserve
  want,     \* the version each of them should have in this run
  todo,     \* the programs this run has still to install
  asked,    \* the programs it was asked for
  pc,       \* where it is with the first of them
  fetched,  \* what it has downloaded: "genuine", or an altered archive
  source,   \* the binary found in it
  status,   \* how the last run ended
  trouble   \* kills and changes made to bin/ so far

runVars == <<want, todo, asked>>
vars == <<bin, runVars, pc, fetched, source, status, trouble>>

Init ==
  /\ bin \in [Programs -> Files]
  /\ want \in [clickhouse : {Pin}, openobserve : Wanted]
  /\ todo = <<>> /\ asked = {}
  /\ pc = "idle" /\ fetched = "none" /\ source = "none"
  /\ status = "none" /\ trouble = 0

\* [[ "$version_out" == *"$VERSION"* ]]
Reports(f, version) == f \in Versions /\ (f = version \/ <<f, version>> \in Extends)

Exit(how) == pc' = "idle" /\ status' = how

Start ==
  /\ pc = "idle"
  /\ want' \in [clickhouse : {Pin}, openobserve : Wanted]
  /\ todo' \in {<<"clickhouse", "openobserve">>, <<"clickhouse">>, <<"openobserve">>}
  /\ asked' = {todo'[i] : i \in DOMAIN todo'}
  /\ pc' = "checking"
  /\ status' = "running"
  /\ UNCHANGED <<bin, fetched, source, trouble>>

p == Head(todo)

\* The first program is there: go on with the next one.
Next_program ==
  /\ todo' = Tail(todo)
  /\ IF todo' = <<>> THEN Exit("success") ELSE pc' = "checking" /\ UNCHANGED status

\* Mutant: a binary that does not run ends the script under `set -e`.
CheckStrictly ==
  /\ pc = "checking"
  /\ IF bin[p] = "unrunnable" THEN Exit("failure") /\ UNCHANGED todo
     ELSE IF Reports(bin[p], want[p]) THEN Next_program
     ELSE pc' = "downloading" /\ UNCHANGED <<todo, status>>
  /\ UNCHANGED <<bin, want, asked, fetched, source, trouble>>
\* A binary that is not executable, does not run or tells another version is
\* to be replaced.
Check ==
  /\ pc = "checking"
  /\ IF Reports(bin[p], want[p]) THEN Next_program
     ELSE pc' = "downloading" /\ UNCHANGED <<todo, status>>
  /\ UNCHANGED <<bin, want, asked, fetched, source, trouble>>

\* curl -f ends with an error, or with a file that need not be the genuine one.
DownloadFails ==
  /\ pc = "downloading"
  /\ Exit("failure")
  /\ UNCHANGED <<bin, runVars, fetched, source, trouble>>
Download(file) ==
  /\ pc = "downloading"
  /\ fetched' = file
  /\ pc' = IF p = "clickhouse" THEN "verifying" ELSE "extracting"
  /\ UNCHANGED <<bin, runVars, source, status, trouble>>

\* Mutant: the checksum is not looked at.
VerifyNothing ==
  /\ pc = "verifying"
  /\ pc' = "extracting" /\ UNCHANGED status
  /\ UNCHANGED <<bin, runVars, fetched, source, trouble>>
\* verify_sha256, for ClickHouse only: OpenObserve's archives have no checksum.
Verify ==
  /\ pc = "verifying"
  /\ IF fetched = "genuine" THEN pc' = "extracting" /\ UNCHANGED status
                            ELSE Exit("failure")
  /\ UNCHANGED <<bin, runVars, fetched, source, trouble>>

\* The binary in the archive; an altered one holds any, or cannot be read.
ExtractFails ==
  /\ pc = "extracting" /\ fetched = "altered"
  /\ Exit("failure")
  /\ UNCHANGED <<bin, runVars, fetched, source, trouble>>
Extract(file) ==
  /\ pc = "extracting"
  /\ fetched = "genuine" => file = want[p]
  /\ source' = file
  /\ pc' = "installing"
  /\ UNCHANGED <<bin, runVars, fetched, status, trouble>>

\* install(1) removes the old file, writes the new one and then sets its mode.
Remove ==
  /\ pc = "installing" /\ bin[p] # "partial"
  /\ bin' = [bin EXCEPT ![p] = "partial"]
  /\ UNCHANGED <<runVars, pc, fetched, source, status, trouble>>
Replace ==
  /\ pc = "installing" /\ bin[p] = "partial"
  /\ bin' = [bin EXCEPT ![p] = source]
  /\ pc' = "confirming"
  /\ UNCHANGED <<runVars, fetched, source, status, trouble>>

\* Mutant: what the new binary tells is printed and not compared.
ConfirmNothing ==
  /\ pc = "confirming"
  /\ Next_program
  /\ UNCHANGED <<bin, want, asked, fetched, source, trouble>>
\* The new binary must tell the wanted version; it is in place already.
Confirm ==
  /\ pc = "confirming"
  /\ IF Reports(bin[p], want[p]) THEN Next_program ELSE Exit("failure") /\ UNCHANGED todo
  /\ UNCHANGED <<bin, want, asked, fetched, source, trouble>>

\* Killed, or a command of this step fails: no disk space, no permission.
Kill ==
  /\ pc # "idle" /\ trouble < MaxTrouble
  /\ Exit("killed")
  /\ trouble' = trouble + 1
  /\ UNCHANGED <<bin, runVars, fetched, source>>

\* Somebody changes bin/ between two runs.
Meddle(program, file) ==
  /\ pc = "idle" /\ trouble < MaxTrouble /\ bin[program] # file
  /\ bin' = [bin EXCEPT ![program] = file]
  /\ trouble' = trouble + 1
  /\ status' = "none"
  /\ UNCHANGED <<runVars, pc, fetched, source>>

Script ==
  \/ Check \/ DownloadFails \/ Verify \/ ExtractFails \/ Remove \/ Replace \/ Confirm
  \/ \E file \in {"genuine", "altered"} : Download(file)
  \/ \E file \in Executables : Extract(file)

Next == Start \/ Script \/ Kill \/ \E program \in Programs, file \in Files : Meddle(program, file)

Spec == Init /\ [][Next]_vars

\* A run goes on; it is repeated for both programs, and a download that is
\* tried again and again gets through.
Fairness ==
  /\ WF_vars(Script)
  /\ SF_vars(Start /\ asked' = Programs)
  /\ \A program \in Programs : SF_vars(Download("genuine") /\ p = program)
FairSpec == Spec /\ Fairness

-----------------------------------------------------------------------------
(* Properties *)

TypeOK ==
  /\ bin \in [Programs -> Files]
  /\ want \in [clickhouse : {Pin}, openobserve : Wanted]
  /\ todo \in {<<"clickhouse", "openobserve">>, <<"clickhouse">>, <<"openobserve">>, <<>>}
  /\ asked \subseteq Programs
  /\ pc \in {"idle", "checking", "downloading", "verifying", "extracting", "installing", "confirming"}
  /\ fetched \in {"none", "genuine", "altered"} /\ source \in Executables \cup {"none"}
  /\ status \in {"none", "running", "success", "failure", "killed"}
  /\ trouble \in 0 .. MaxTrouble

\* The script says success only when every program it was asked for is there in
\* the version of this run, whatever was in bin/ and whatever the archives held.
SuccessMeansWanted ==
  pc = "idle" /\ status = "success" =>
    \A program \in asked : Reports(bin[program], want[program])

\* verify_sha256: all the script ever puts at bin/clickhouse is the pinned
\* binary, which it was verified to be, or a part of it.
OnlyVerifiedClickHouse ==
  [][pc # "idle" /\ bin'["clickhouse"] # bin["clickhouse"]
     => bin'["clickhouse"] \in {Pin, "partial"}]_vars

\* Whatever was put into bin/, and wherever a run was killed: repeating it ends
\* with the pinned ClickHouse, and with the OpenObserve all runs then ask for.
Repaired ==
  /\ <>[]Reports(bin["clickhouse"], Pin)
  /\ \A version \in Wanted :
       <>[](want["openobserve"] = version) => <>[]Reports(bin["openobserve"], version)
=============================================================================
