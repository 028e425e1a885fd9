--------------------------- MODULE HarnessBaseline ---------------------------
(***************************************************************************)
(* The regression harness: cmd/mnemosyne-harness runs the scenarios of a   *)
(* scope one after the other (RunScenario), each in a directory named after*)
(* the second it started in and its scenario; saves the runs under a root  *)
(* as the baseline (SaveBaselineWithScope), compares later runs with it    *)
(* (CheckBaselineWithScope, DiffReports) and sums runs up (BuildRollup).   *)
(*                                                                         *)
(* What a step does to the runtime is open: it ends in an outcome, which   *)
(* stands for all the fields of its report that are compared, how many     *)
(* observations it made included, and leaves artifacts, the files of the   *)
(* model, with some content.  A path is the sequence of its names and is   *)
(* absolute when it begins with "/"; the name of a run's directory counts  *)
(* as two, the second and the slug.  One command runs at a time; it may be *)
(* killed at any point, and users delete directories of runs.              *)
(***************************************************************************)
EXTENDS Naturals, Sequences, FiniteSets, SequencesExt

CONSTANTS
  ScenarioList,  \* the scenarios in order of their paths:
                 \* [name, tags, lane, steps, asserts], a step being [id, files]
                 \* and an assertion [kind, step, want]
  slugify,       \* the slug of each name of a scenario
  canonical,     \* each tag in lower case and without blanks around it
  StepResults,   \* how a step may end: its outcome and what its file holds,
                 \* [outcome, content], a content being [kind, value, layout]
  Scopes,        \* scopes of commands: [tags, lane]
  Seconds,       \* bound: the seconds runs start in, in order
  MaxRuns,       \* bound: runs
  MaxHarnessFaults \* bound: killed commands and deleted directories

ASSUME HarnessAssumption ==
  /\ ScenarioList \in Seq(ToSet(ScenarioList))
  /\ \A s \in ToSet(ScenarioList) :
       /\ s.name \in DOMAIN slugify
       /\ s.steps \in Seq(ToSet(s.steps)) /\ s.asserts \in Seq(ToSet(s.asserts))
  /\ Seconds \in Seq(ToSet(Seconds)) /\ Seconds # <<>>
  /\ MaxRuns \in Nat /\ MaxHarnessFaults \in Nat

VARIABLES
  absolute,   \* the root given on the command line is an absolute path
  second,     \* index of the second it is
  dirs,       \* the report in each run's directory, NoReport if there is none
  disk,       \* the contents of the files
  queue,      \* main: scenarios that are to be run
  running,    \* RunScenario: its report so far, NoReport outside
  saving,     \* SaveBaseline: the reports that are to be saved
  copied,     \* SaveBaseline: the copy that is to be written, NoReport if none
  base,       \* baseline reports, by slug
  runCount,   \* runs so far
  harnessFaults, \* faults so far
  truth,      \* ledger: what the run saved last for each slug showed
  doubtful    \* ledger: slugs whose last save was cut short or lost its run

harnessVars == <<absolute, second, dirs, disk, queue, running, saving, copied, base,
                 runCount, harnessFaults, truth, doubtful>>

NoReport == [name |-> ""]
Root == IF absolute THEN <<"/", "runs">> ELSE <<"runs">>
BaseDir(slug) == IF absolute THEN <<"/", "baselines", slug>> ELSE <<"baselines", slug>>
IsAbs(path) == path # <<>> /\ Head(path) = "/"
Put(f, x, y) == [z \in DOMAIN f \cup {x} |-> IF z = x THEN y ELSE f[z]]
HarnessIdle == queue = <<>> /\ running = NoReport /\ saving = <<>>
Fault == harnessFaults < MaxHarnessFaults /\ harnessFaults' = harnessFaults + 1

HarnessInit ==
  /\ absolute \in BOOLEAN
  /\ second = 1 /\ runCount = 0 /\ harnessFaults = 0
  /\ dirs = <<>> /\ disk = <<>> /\ base = <<>> /\ truth = <<>> /\ doubtful = {}
  /\ queue = <<>> /\ saving = <<>> /\ running = NoReport /\ copied = NoReport

-----------------------------------------------------------------------------
(* The scope of a command. *)

NormalizeTags(tags) == {canonical[t] : t \in tags} \ {""}

ScenarioMatchesTags(s, tags) ==
  NormalizeTags(tags) = {} \/ NormalizeTags(s.tags) \cap NormalizeTags(tags) # {}

FilterScenarioPathsByTags(list, tags) ==
  FlattenSeq([i \in DOMAIN list |->
                IF ScenarioMatchesTags(list[i], tags) THEN <<list[i]>> ELSE <<>>])

FilterScenarioPathsByLane(list, lane) ==
  FlattenSeq([i \in DOMAIN list |->
                IF lane = "" \/ list[i].lane = lane THEN <<list[i]>> ELSE <<>>])

\* A report without tags is looked up by the tags its scenario has.
reportMatchesTags(r, tags) ==
  LET own == NormalizeTags(r.tags)
      file == {s \in ToSet(ScenarioList) : s.name = r.name}
  IN \/ NormalizeTags(tags) = {}
     \/ NormalizeTags(tags) \cap
          (IF own # {} THEN own ELSE NormalizeTags(UNION {s.tags : s \in file})) # {}

-----------------------------------------------------------------------------
(* A run. *)

\* main without a flag of another command; a scope that matches nothing fails.
RunScenarios(scope) ==
  /\ HarnessIdle
  /\ queue' = FilterScenarioPathsByLane(
                FilterScenarioPathsByTags(ScenarioList, scope.tags), scope.lane)
  /\ queue' # <<>>
  /\ UNCHANGED <<absolute, second, dirs, disk, running, saving, copied, base, runCount,
                 harnessFaults, truth, doubtful>>

\* A second run of a scenario in one second uses the directory of the first.
StartRun(now) ==
  /\ running = NoReport /\ queue # <<>> /\ runCount < MaxRuns
  /\ now \in second..Len(Seconds)
  /\ LET s == Head(queue)
         dir == Root \o <<Seconds[now], slugify[s.name]>>
     IN /\ running' = [name |-> s.name, tags |-> s.tags, lane |-> s.lane, dir |-> dir,
                       second |-> now, started |-> runCount + 1, passed |-> FALSE,
                       error |-> FALSE, steps |-> <<>>, asserts |-> <<>>]
        /\ dirs' = IF dir \in DOMAIN dirs THEN dirs ELSE Put(dirs, dir, NoReport)
  /\ second' = now /\ runCount' = runCount + 1
  /\ UNCHANGED <<absolute, disk, queue, saving, copied, base, harnessFaults, truth, doubtful>>

NextStep == Head(queue).steps[Len(running.steps) + 1]
StepsLeft == running # NoReport /\ Len(running.steps) < Len(Head(queue).steps)

\* executeStep: the files are written as the step goes.
StepDone(result) ==
  /\ StepsLeft
  /\ LET path == running.dir \o <<"runtime", NextStep.id>>
         paths == IF NextStep.files = 0 THEN <<>> ELSE <<path>>
     IN /\ disk' = IF paths = <<>> THEN disk ELSE Put(disk, path, result.content)
        /\ running' = [running EXCEPT !.steps =
             Append(@, [id |-> NextStep.id, outcome |-> result.outcome, files |-> paths])]
  /\ UNCHANGED <<absolute, second, dirs, queue, saving, copied, base, runCount, harnessFaults,
                 truth, doubtful>>

writeRunArtifacts(report) ==
  /\ dirs' = Put(dirs, report.dir, report)
  /\ running' = NoReport /\ queue' = Tail(queue)
  /\ UNCHANGED <<absolute, second, disk, saving, copied, base, runCount, harnessFaults,
                 truth, doubtful>>

\* A step that fails ends the run: its report has no assertions.
StepFails ==
  /\ StepsLeft
  /\ writeRunArtifacts([running EXCEPT !.error = TRUE, !.steps =
       Append(@, [id |-> NextStep.id, outcome |-> "", files |-> <<>>])])

\* newRuntimeEnv fails: the report has no steps.
EnvFails ==
  /\ running # NoReport /\ running.steps = <<>>
  /\ writeRunArtifacts([running EXCEPT !.error = TRUE])

Verdict(a, passed, details, root) ==
  [kind |-> a.kind, step |-> a.step, passed |-> passed, details |-> details, root |-> root]

assertState(a, step) == Verdict(a, step.outcome = a.want, step.outcome, <<>>)

evaluateCountAssertion(a, actual) == Verdict(a, actual = a.want, actual, <<>>)

assertContains(a, step) ==
  LET holds == \E i \in DOMAIN step.files :
                 step.files[i] \in DOMAIN disk /\ disk[step.files[i]].value = a.want
  IN Verdict(a, holds, holds, <<>>)

\* file_contains tells the path, which holds the root of the runtime.
assertFile(a, step) ==
  [assertContains(a, step) EXCEPT !.root = running.dir]

evaluateAssertion(a) ==
  LET found == {i \in DOMAIN running.steps : running.steps[i].id = a.step}
      step == running.steps[CHOOSE i \in found : TRUE]
  IN IF found = {} THEN Verdict(a, FALSE, "step not found", <<>>)
     ELSE CASE a.kind = "state" -> assertState(a, step)
            [] a.kind = "count" -> evaluateCountAssertion(a, Len(step.files))
            [] a.kind = "contains" -> assertContains(a, step)
            [] a.kind = "file" -> assertFile(a, step)
            [] OTHER -> Verdict(a, FALSE, "unsupported", <<>>)

evaluateAssertions ==
  [i \in DOMAIN Head(queue).asserts |-> evaluateAssertion(Head(queue).asserts[i])]

FinishRun ==
  /\ running # NoReport /\ ~StepsLeft
  /\ writeRunArtifacts([running EXCEPT !.asserts = evaluateAssertions,
       !.passed = \A i \in DOMAIN evaluateAssertions : evaluateAssertions[i].passed])

-----------------------------------------------------------------------------
(* Reading reports. *)

\* A path of a report, looked for where it says and under the report's directory.
resolveReportFilePath(path, dir) ==
  LET under == dir \o <<"artifacts", Last(path)>>
      first == IF IsAbs(path) THEN path ELSE dir \o path
  IN IF first \notin DOMAIN disk /\ under \in DOMAIN disk THEN under ELSE first

resolveReportFileList(files, dir) ==
  [j \in DOMAIN files |-> resolveReportFilePath(files[j], dir)]

resolveReportPaths(r, dir) ==
  [r EXCEPT !.steps = [i \in DOMAIN r.steps |->
     [r.steps[i] EXCEPT !.files = resolveReportFileList(r.steps[i].files, dir)]]]

\* One directory without a report that can be read fails the whole command.
Collectable == \A d \in DOMAIN dirs : dirs[d] # NoReport

InScope(scope) ==
  {d \in DOMAIN dirs : /\ reportMatchesTags(dirs[d], scope.tags)
                       /\ scope.lane = "" \/ dirs[d].lane = scope.lane}

\* The report of the scope whose run was the n-th to start, if there is one.
StartedAt(scope, n) ==
  LET at == {d \in InScope(scope) : dirs[d].started = n}
      d == CHOOSE d \in at : TRUE
  IN  IF at = {} THEN <<>> ELSE <<resolveReportPaths(dirs[d], d)>>

\* The reports of the scope, sorted by the time they started at.
CollectRunReports(scope) == FlattenSeq([n \in 1..runCount |-> StartedAt(scope, n)])

normalizeArtifactContent(c) == <<c.kind, c.value>>

compareArtifactContents(l, r) ==
  \/ Len(l.files) # Len(r.files)
  \/ \E i \in DOMAIN l.files :
       \/ {l.files[i], r.files[i]} \ DOMAIN disk # {}
       \/ normalizeArtifactContent(disk[l.files[i]]) # normalizeArtifactContent(disk[r.files[i]])

\* The root of the run is not part of the details that are compared.
normalizeAssertionDetails(r, v) ==
  <<v.details, IF v.root = r.dir THEN <<>> ELSE v.root>>

DiffReports(l, r) ==
  \/ l.name # r.name \/ l.passed # r.passed
  \/ Len(l.asserts) # Len(r.asserts) \/ Len(l.steps) # Len(r.steps)
  \/ \E i \in DOMAIN l.steps :
       \/ l.steps[i].id # r.steps[i].id \/ l.steps[i].outcome # r.steps[i].outcome
       \/ compareArtifactContents(l.steps[i], r.steps[i])
  \/ \E i \in DOMAIN l.asserts :
       \/ l.asserts[i].kind # r.asserts[i].kind \/ l.asserts[i].step # r.asserts[i].step
       \/ l.asserts[i].passed # r.asserts[i].passed
       \/ normalizeAssertionDetails(l, l.asserts[i]) # normalizeAssertionDetails(r, r.asserts[i])

\* Whether a check of the scope passes; a baseline that cannot be read is a change.
CheckBaseline(scope) ==
  \A i \in DOMAIN CollectRunReports(scope) :
    LET r == CollectRunReports(scope)[i]
        slug == slugify[r.name]
    IN /\ slug \in DOMAIN base /\ base[slug] # NoReport
       /\ ~DiffReports(resolveReportPaths(base[slug], BaseDir(slug)), r)

-----------------------------------------------------------------------------
(* Saving a baseline. *)

SaveBaseline(scope) ==
  /\ HarnessIdle /\ Collectable
  /\ saving' = CollectRunReports(scope) /\ saving' # <<>>
  /\ UNCHANGED <<absolute, second, dirs, disk, queue, running, copied, base, runCount,
                 harnessFaults, truth, doubtful>>

\* The name an artifact gets in the baseline holds the step's id, and its place
\* in the report and its own name, which are left out: the file of an earlier
\* baseline is overwritten more often than in the code.
snapshotPath(step) == <<"artifacts", step.id>>

snapshotStepFilesInPlace(step) == step.files

\* A file that is not there keeps the path it had.
snapshotStepFiles(step) ==
  [j \in DOMAIN step.files |->
     IF step.files[j] \in DOMAIN disk THEN snapshotPath(step) ELSE step.files[j]]

\* What a run shows, whatever the paths are and however its files are laid out.
Shows(r) ==
  [name |-> r.name, passed |-> r.passed,
   steps |-> [i \in DOMAIN r.steps |->
     <<r.steps[i].id, r.steps[i].outcome, [j \in DOMAIN r.steps[i].files |->
         <<disk[r.steps[i].files[j]].kind, disk[r.steps[i].files[j]].value>>]>>],
   asserts |-> [i \in DOMAIN r.asserts |->
     <<r.asserts[i].kind, r.asserts[i].step, r.asserts[i].passed, r.asserts[i].details>>]]

snapshotBaselineReport ==
  /\ saving # <<>> /\ copied = NoReport
  /\ LET r == Head(saving)
         slug == slugify[r.name]
         from == {r.steps[i] : i \in {k \in DOMAIN r.steps : \E j \in DOMAIN r.steps[k].files :
                                        r.steps[k].files[j] \in DOMAIN disk}}
         dest == {BaseDir(slug) \o snapshotPath(s) : s \in from}
     IN /\ copied' = [r EXCEPT !.steps = [i \in DOMAIN r.steps |->
                        [r.steps[i] EXCEPT !.files = snapshotStepFiles(r.steps[i])]]]
        /\ disk' = [p \in DOMAIN disk \cup dest |->
                      IF p \in dest
                      THEN disk[(CHOOSE s \in from : s.id = Last(p)).files[1]] ELSE disk[p]]
        /\ IF r.dir \in DOMAIN dirs
           THEN /\ truth' = Put(truth, slug, Shows(dirs[r.dir]))
                /\ doubtful' = doubtful \ {slug}
           ELSE doubtful' = doubtful \cup {slug} /\ UNCHANGED truth
  /\ UNCHANGED <<absolute, second, dirs, queue, running, saving, base, runCount, harnessFaults>>

WriteBaseline ==
  /\ copied # NoReport
  /\ base' = Put(base, slugify[copied.name], copied)
  /\ saving' = Tail(saving) /\ copied' = NoReport
  /\ UNCHANGED <<absolute, second, dirs, disk, queue, running, runCount, harnessFaults, truth,
                 doubtful>>

-----------------------------------------------------------------------------
(* Faults. *)

\* The command is killed.  A report it was writing may be cut; the files it
\* copied over those of the baseline stay.
Kill ==
  /\ Fault /\ ~HarnessIdle
  /\ queue' = <<>> /\ running' = NoReport /\ saving' = <<>> /\ copied' = NoReport
  /\ IF copied = NoReport THEN UNCHANGED <<base, doubtful>>
     ELSE /\ base' \in {base, Put(base, slugify[copied.name], NoReport)}
          /\ doubtful' = doubtful \cup {slugify[copied.name]}
  /\ dirs' \in {dirs} \cup {Put(dirs, r.dir, NoReport) : r \in {running} \ {NoReport}}
  /\ UNCHANGED <<absolute, second, disk, runCount, truth>>

\* A run's directory is deleted (the scripts delete the runs they saved).
DeleteRun(d) ==
  /\ Fault /\ running = NoReport
  /\ dirs' = [e \in DOMAIN dirs \ {d} |-> dirs[e]]
  /\ disk' = [p \in {q \in DOMAIN disk : ~IsPrefix(d, q)} |-> disk[p]]
  /\ UNCHANGED <<absolute, second, queue, running, saving, copied, base, runCount, truth, doubtful>>

HarnessNext ==
  \/ \E scope \in Scopes : RunScenarios(scope) \/ SaveBaseline(scope)
  \/ \E now \in 1..Len(Seconds) : StartRun(now)
  \/ \E r \in StepResults : StepDone(r)
  \/ StepFails \/ EnvFails \/ FinishRun
  \/ snapshotBaselineReport \/ WriteBaseline \/ Kill
  \/ \E d \in DOMAIN dirs : DeleteRun(d)

-----------------------------------------------------------------------------
(* BuildRollup: one pass over the reports in the order they started. *)

NoStats == [runs |-> 0, passed |-> 0, failed |-> 0, asserts |-> 0, failedAsserts |-> 0,
            latest |-> <<>>, latestSecond |-> 0, latestError |-> FALSE]

CountFailed(r) == Cardinality({i \in DOMAIN r.asserts : ~r.asserts[i].passed})

\* The latest run so far is known by the second in its directory's name.
Newer(stats, r) == r.second >= stats.latestSecond

RollupOne(stats, r) ==
  LET newer == Newer(stats, r)
  IN [runs |-> stats.runs + 1,
      passed |-> stats.passed + IF r.passed THEN 1 ELSE 0,
      failed |-> stats.failed + IF r.passed THEN 0 ELSE 1,
      asserts |-> stats.asserts + Len(r.asserts),
      failedAsserts |-> stats.failedAsserts + CountFailed(r),
      latest |-> IF newer THEN r.dir ELSE stats.latest,
      latestSecond |-> IF newer THEN r.second ELSE stats.latestSecond,
      latestError |-> IF newer THEN r.error ELSE stats.latestError]

RollupAdd(rollup, r) ==
  Put(rollup, r.name,
      RollupOne(IF r.name \in DOMAIN rollup THEN rollup[r.name] ELSE NoStats, r))

RollupAll(reports) ==
  LET upTo[k \in 0..Len(reports)] ==
        IF k = 0 THEN <<>> ELSE RollupAdd(upTo[k - 1], reports[k])
  IN  upTo[Len(reports)]

BuildRollup(scope) == RollupAll(CollectRunReports(scope))
-----------------------------------------------------------------------------
HarnessTypeOK ==
  /\ absolute \in BOOLEAN /\ second \in 1..Len(Seconds)
  /\ runCount \in 0..MaxRuns /\ harnessFaults \in 0..MaxHarnessFaults
  /\ \A d \in DOMAIN dirs : dirs[d] = NoReport \/ dirs[d].dir = d
  /\ ToSet(queue) \subseteq ToSet(ScenarioList)
  /\ copied = NoReport \/ copied.name = Head(saving).name
  /\ DOMAIN base \cup DOMAIN truth \cup doubtful \subseteq Range(slugify)

\* CheckBaselineWithScope tells drift and nothing else: it passes exactly when
\* each run of the scope shows what the run saved last under its slug showed
\* (the same steps, outcomes, assertions and contents of files), although the
\* saved run may be gone, the other one lies elsewhere and files are laid out
\* differently.  Not claimed for a save that was killed or whose run was
\* deleted under it.  With a relative root a run with files never passes:
\* resolveReportFilePath looks for them below the directory of the report.
CheckHonest ==
  HarnessIdle /\ Collectable /\ dirs # <<>> =>
    \A scope \in Scopes :
      (\A d \in InScope(scope) : slugify[dirs[d].name] \notin doubtful) =>
        (CheckBaseline(scope) <=>
           \A d \in InScope(scope) :
             /\ slugify[dirs[d].name] \in DOMAIN truth
             /\ truth[slugify[dirs[d].name]] = Shows(dirs[d])
             /\ absolute \/ \A i \in DOMAIN dirs[d].steps : dirs[d].steps[i].files = <<>>)

\* BuildRollupWithScope counts every run of the scope once, a run that stopped
\* with an error as failed, and names the run that started last, although it
\* only keeps the second that run started in.
RollupHonest ==
  Collectable /\ dirs # <<>> => \A scope \in Scopes :
    LET rollup == BuildRollup(scope)
        Of(n) == {d \in InScope(scope) : dirs[d].name = n}
    IN /\ DOMAIN rollup = {dirs[d].name : d \in InScope(scope)}
       /\ \A n \in DOMAIN rollup :
            LET last == CHOOSE d \in Of(n) : \A e \in Of(n) : dirs[e].started <= dirs[d].started
            IN /\ rollup[n].runs = Cardinality(Of(n))
               /\ rollup[n].failed = Cardinality({d \in Of(n) :
                    dirs[d].error \/ \E i \in DOMAIN dirs[d].asserts : ~dirs[d].asserts[i].passed})
               /\ rollup[n].passed + rollup[n].failed = rollup[n].runs
               /\ rollup[n].latest = last /\ rollup[n].latestError = dirs[last].error

\* The harness reports what the runs showed: CheckHonest and RollupHonest,
\* over states of the right types.
ReportsHonest == HarnessTypeOK /\ CheckHonest /\ RollupHonest
=============================================================================
