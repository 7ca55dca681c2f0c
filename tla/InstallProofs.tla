--------------------------- MODULE InstallProofs ---------------------------
(***************************************************************************)
(* Proofs about the installer: what success means, and what it ever puts   *)
(* at bin/clickhouse.                                                      *)
(***************************************************************************)
EXTENDS Install, TLAPS

Left == {todo[i] : i \in DOMAIN todo}

\* What a run has dealt with is right, and what it has fetched of ClickHouse is
\* genuine from the moment it is verified.
RunInv ==
  /\ pc # "idle" =>
       /\ todo # <<>> /\ Left \subseteq asked
       /\ \A program \in asked \ Left : Reports(bin[program], want[program])
  /\ pc # "idle" /\ p = "clickhouse" =>
       /\ pc = "extracting" => fetched = "genuine"
       /\ pc = "installing" => source = Pin
  /\ pc \in {"installing", "confirming"} => source # "none"
  /\ SuccessMeansWanted

InstallInv == TypeOK /\ RunInv

\* What a list of one program holds.
LEMMA OneProgram ==
  ASSUME NEW t, NEW program, t = <<program>>
  PROVE  {t[i] : i \in DOMAIN t} = {program}
<1>1. DOMAIN t = {1} /\ t[1] = program
  OBVIOUS
<1> QED
  BY <1>1

\* The first program to install, and what is left when it is done.
LEMMA FirstOfTodo ==
  ASSUME TypeOK, todo # <<>>
  PROVE  /\ p \in Programs /\ Left = {p} \cup {Tail(todo)[i] : i \in DOMAIN Tail(todo)}
         /\ Tail(todo) \in {<<"openobserve">>, <<>>}
         /\ Tail(todo) = <<"openobserve">> => p = "clickhouse"
         /\ Tail(todo) = <<>> => {Tail(todo)[i] : i \in DOMAIN Tail(todo)} = {}
         /\ p \notin {Tail(todo)[i] : i \in DOMAIN Tail(todo)}
<1>1. CASE todo = <<"clickhouse", "openobserve">>
  <2>1. p = "clickhouse" /\ Tail(todo) = <<"openobserve">>
    BY <1>1 DEF p
  <2>2. Left = {"clickhouse", "openobserve"}
    <3>1. DOMAIN todo = {1, 2} /\ todo[1] = "clickhouse" /\ todo[2] = "openobserve"
      BY <1>1
    <3> QED
      BY <3>1 DEF Left
  <2>3. {Tail(todo)[i] : i \in DOMAIN Tail(todo)} = {"openobserve"}
    BY <2>1, OneProgram
  <2> QED
    BY <2>1, <2>2, <2>3 DEF Programs
<1>2. CASE \E program \in Programs : todo = <<program>>
  <2>1. PICK program \in Programs : todo = <<program>>
    BY <1>2
  <2>2. p = program /\ Tail(todo) = <<>> /\ DOMAIN Tail(todo) = {} /\ Left = {program}
    BY <2>1 DEF p, Left
  <2> QED
    BY <2>2
<1> QED
  BY <1>1, <1>2 DEF TypeOK, Programs

LEMMA TypeStep ==
  ASSUME InstallInv, [Next]_vars
  PROVE  TypeOK'
<1> USE DEF InstallInv, TypeOK, Programs, Files, Executables
<1>1. CASE Start
  <2>1. want' \in [clickhouse : {Pin}, openobserve : Wanted]
        /\ todo' \in {<<"clickhouse", "openobserve">>, <<"clickhouse">>, <<"openobserve">>}
        /\ asked' = {todo'[i] : i \in DOMAIN todo'}
    BY <1>1 DEF Start
  <2>2. asked' \subseteq Programs
    BY <2>1
  <2> QED
    BY <1>1, <2>1, <2>2 DEF Start
<1>2. CASE Check \/ Confirm
  <2>1. todo # <<>>
    BY <1>2 DEF RunInv, Check, Confirm
  <2>2. Tail(todo) \in {<<"openobserve">>, <<>>}
    BY <2>1, FirstOfTodo
  <2> QED
    BY <1>2, <2>2 DEF Check, Confirm, Next_program, Exit
<1>3. CASE DownloadFails \/ Verify \/ ExtractFails
  BY <1>3 DEF DownloadFails, Verify, ExtractFails, Exit, runVars
<1>4. CASE Remove \/ Replace
  <2>1. p \in Programs /\ source # "none"
    BY <1>4, FirstOfTodo DEF RunInv, Remove, Replace
  <2>2. bin' \in [Programs -> Files]
    BY <1>4, <2>1 DEF Remove, Replace
  <2> QED
    BY <1>4, <2>2 DEF Remove, Replace, runVars
<1>5. ASSUME NEW f \in {"genuine", "altered"}, Download(f) PROVE TypeOK'
  BY <1>5 DEF Download, runVars
<1>6. ASSUME NEW f \in Executables, Extract(f) PROVE TypeOK'
  BY <1>6 DEF Extract, runVars
<1>7. CASE Kill
  BY <1>7, VersionsAssumption DEF Kill, Exit, runVars
<1>8. ASSUME NEW program \in Programs, NEW f \in Files, Meddle(program, f) PROVE TypeOK'
  BY <1>8, VersionsAssumption DEF Meddle, runVars
<1>9. CASE UNCHANGED vars
  BY <1>9 DEF vars, runVars
<1> QED
  BY <1>1, <1>2, <1>3, <1>4, <1>5, <1>6, <1>7, <1>8, <1>9 DEF Next, Script

\* A program that tells the wanted version is dealt with.
LEMMA ProgramDone ==
  ASSUME InstallInv, pc # "idle", Reports(bin[p], want[p]), Next_program,
         UNCHANGED <<bin, want, asked, source>>
  PROVE  RunInv'
<1> USE DEF InstallInv, RunInv
<1>1. todo # <<>> /\ Left \subseteq asked
      /\ \A program \in asked \ Left : Reports(bin[program], want[program])
  OBVIOUS
<1>2. /\ todo' = Tail(todo) /\ Left' = {Tail(todo)[i] : i \in DOMAIN Tail(todo)}
      /\ IF todo' = <<>> THEN pc' = "idle" /\ status' = "success" ELSE pc' = "checking"
  BY DEF Next_program, Exit, Left
<1>3. Left = {p} \cup Left' /\ p \notin Left' /\ (todo' = <<>> => Left' = {})
  BY <1>1, <1>2, FirstOfTodo
<1>4. \A program \in asked' \ Left' : Reports(bin[program], want[program])
  BY <1>1, <1>3
<1>5. \A program : Reports(bin[program], want[program])' <=> Reports(bin[program], want[program])
  BY DEF Reports
<1>6. SuccessMeansWanted'
  BY <1>2, <1>3, <1>4, <1>5 DEF SuccessMeansWanted
<1> QED
  BY <1>1, <1>2, <1>3, <1>4, <1>5, <1>6 DEF RunInv

LEMMA RunStep ==
  ASSUME InstallInv, [Next]_vars
  PROVE  RunInv'
<1> USE DEF InstallInv
\* A step within a program.
<1>0. ASSUME pc # "idle", pc' # "idle", UNCHANGED <<todo, want, asked>>,
             \A program \in asked \ Left : bin'[program] = bin[program],
             p = "clickhouse" =>
               /\ pc' = "extracting" => fetched' = "genuine"
               /\ pc' = "installing" => source' = Pin,
             pc' \in {"installing", "confirming"} => source' # "none"
      PROVE  RunInv'
  <2>1. p' = p /\ Left' = Left
    BY <1>0 DEF p, Left
  <2>2. \A program \in asked \ Left : Reports(bin[program], want[program])'
    BY <1>0 DEF RunInv, Reports
  <2> QED
    BY <1>0, <2>1, <2>2 DEF RunInv, SuccessMeansWanted
\* A run that ends without success.
<1>1. ASSUME pc' = "idle", status' # "success" PROVE RunInv'
  BY <1>1 DEF RunInv, SuccessMeansWanted
<1>2. CASE Start
  <2>1. todo' # <<>> /\ Left' = asked' /\ pc' = "checking"
    BY <1>2 DEF Start, Left
  <2> QED
    BY <2>1 DEF RunInv, SuccessMeansWanted
<1>3. CASE Check
  <2>1. CASE Reports(bin[p], want[p])
    BY <1>3, <2>1, ProgramDone DEF Check
  <2>2. CASE ~Reports(bin[p], want[p])
    BY <1>0, <1>3, <2>2 DEF Check
  <2> QED
    BY <2>1, <2>2
<1>4. CASE Confirm
  <2>1. CASE Reports(bin[p], want[p])
    BY <1>4, <2>1, ProgramDone DEF Confirm
  <2>2. CASE ~Reports(bin[p], want[p])
    BY <1>1, <1>4, <2>2 DEF Confirm, Exit
  <2> QED
    BY <2>1, <2>2
<1>5. CASE DownloadFails \/ ExtractFails \/ Kill
  BY <1>1, <1>5 DEF DownloadFails, ExtractFails, Kill, Exit
<1>6. CASE Verify
  <2>1. CASE fetched = "genuine"
    BY <1>0, <1>6, <2>1 DEF Verify, runVars
  <2>2. CASE fetched # "genuine"
    BY <1>1, <1>6, <2>2 DEF Verify, Exit
  <2> QED
    BY <2>1, <2>2
<1>7. ASSUME NEW f \in {"genuine", "altered"}, Download(f) PROVE RunInv'
  BY <1>0, <1>7 DEF Download, runVars
<1>8. ASSUME NEW f \in Executables, Extract(f) PROVE RunInv'
  <2>1. f # "none"
    BY VersionsAssumption DEF Executables
  <2>2. p = "clickhouse" => f = Pin
    BY <1>8 DEF Extract, RunInv, TypeOK
  <2> QED
    BY <1>0, <1>8, <2>1, <2>2 DEF Extract, runVars
<1>9. CASE Remove \/ Replace
  <2>1. /\ p \in Left /\ UNCHANGED runVars /\ pc = "installing" /\ pc' \in {"installing", "confirming"}
        /\ \E f : bin' = [bin EXCEPT ![p] = f]
        /\ source' = source
    BY <1>9, FirstOfTodo DEF Remove, Replace, RunInv
  <2>2. \A program \in asked \ Left : bin'[program] = bin[program]
    BY <2>1 DEF TypeOK
  <2> QED
    BY <1>0, <2>1, <2>2 DEF runVars, RunInv
<1>10. ASSUME NEW program \in Programs, NEW f \in Files, Meddle(program, f) PROVE RunInv'
  BY <1>1, <1>10 DEF Meddle
<1>11. CASE UNCHANGED vars
  BY <1>11 DEF vars, runVars, RunInv, SuccessMeansWanted, Reports, p, Left
<1> QED
  BY <1>2, <1>3, <1>4, <1>5, <1>6, <1>7, <1>8, <1>9, <1>10, <1>11 DEF Next, Script

\* What a run has verified, extracted and installed so far, wherever it is
\* (install.sh:89-164), and what a program it is done with reports.
THEOREM InstallInvariant == Spec => []InstallInv
<1>1. Init => InstallInv
  BY VersionsAssumption DEF Init, InstallInv, TypeOK, RunInv, SuccessMeansWanted
<1>2. InstallInv /\ [Next]_vars => InstallInv'
  BY TypeStep, RunStep DEF InstallInv
<1> QED
  BY <1>1, <1>2, PTL DEF Spec

\* A run that says success leaves every program it was asked for in the version
\* of that run, whatever was in bin/, was killed before or was downloaded.
THEOREM SuccessIsWanted == Spec => []SuccessMeansWanted
<1>1. InstallInv => SuccessMeansWanted
  BY DEF InstallInv, RunInv
<1> QED
  BY <1>1, InstallInvariant, PTL

\* The script puts nothing at bin/clickhouse but the pinned binary, whose
\* archive it has verified, and the beginning of it.
THEOREM OnlyVerifiedIsInstalled == Spec => OnlyVerifiedClickHouse
<1>1. ASSUME InstallInv, Next, pc # "idle", bin'["clickhouse"] # bin["clickhouse"]
      PROVE  bin'["clickhouse"] \in {Pin, "partial"}
  <2> USE <1>1 DEF InstallInv, TypeOK
  <2>1. Remove \/ Replace
    BY DEF Next, Start, Script, Check, DownloadFails, Verify, ExtractFails, Confirm, Download, Extract,
       Kill, Meddle
  <2>2. p = "clickhouse"
    <3>1. p \in Programs
      BY <2>1, FirstOfTodo DEF Remove, Replace, RunInv
    <3> QED
      BY <2>1, <3>1 DEF Remove, Replace, Programs
  <2> QED
    BY <2>1, <2>2 DEF Remove, Replace, RunInv
<1>2. InstallInv /\ [Next]_vars =>
        [pc # "idle" /\ bin'["clickhouse"] # bin["clickhouse"]
         => bin'["clickhouse"] \in {Pin, "partial"}]_vars
  BY <1>1
<1> QED
  BY <1>2, InstallInvariant, PTL DEF Spec, OnlyVerifiedClickHouse
=============================================================================
