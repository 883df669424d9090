--------------------------- MODULE SandboxOutput ---------------------------
(***************************************************************************)
(* What the worker believes of what happened in a sandbox.  A job plans,   *)
(* installs and tests a checkout (apps/worker/src/runners/runtest.ts       *)
(* #execute; agent-job.ts from the install to #runFinalTests) and knows    *)
(* only exit codes, a report file and output that was kept in part.  Apart *)
(* from that, an agent's edits leave the sandbox as a patch, read line by  *)
(* line (agent-job.ts exportPatch and checkPatch).                         *)
(***************************************************************************)
EXTENDS OutputBuffer, RepoPlan, TestReport, PatchRules, FiniteSets

(* What pip could not install is left out and named in the output. *)
Marker(file) == Item("skipped", file, Zero)

CONSTANTS
  Repos,       (* the checkouts looked at *)
  Truths,      (* what may become of a test suite *)
  Changes,     (* what may be changed in a file *)
  limits,      (* of files and lines changed *)
  MaxChanges   (* bound: files changed *)

(* A test script is one of these runners, or a command that tells nothing of tests. *)
ASSUME ReposAssumption ==
  Repos \subseteq
    [has : SUBSET STRING, broken : SUBSET STRING, options : SUBSET STRING, declared : STRING,
     bin : {"none", "placeholder", "vitest", "jest", "node", "other"},
     simple : BOOLEAN, pytest : BOOLEAN,
     config : [image : STRING, install : BOOLEAN, test : BOOLEAN, testReport : STRING]]

ASSUME TruthsAssumption ==
  Truths \subseteq [passed : Nat, failed : Nat, skipped : Nat, aside : Nat, unloaded : Nat]

(* What the commands print. *)
ASSUME ItemsAssumption ==
  /\ Log \in Items
  /\ \A n \in DOMAIN requirementFiles : Marker(requirementFiles[n]) \in Items
  /\ \A runner \in {"pytest", "unittest", "vitest", "jest", "node"}, t \in Truths :
       Item("summary", runner, t) \in Items

(* Git names the file on one side at least, and has no lines of binary data. *)
ASSUME ChangesAssumption ==
  /\ limits \in [maxFiles : Nat, maxChangedLines : Nat]
  /\ \A c \in Changes :
       /\ c \in [old : Seq(STRING), new : Seq(STRING), mode : STRING, binary : BOOLEAN,
                 body : Seq([sign : {"+", "-"}, text : {"plain", "secret", "marker"}])]
       /\ {c.old, c.new} # {devNull}
       /\ \A path \in {c.old, c.new} : ~(spaced(path) /\ escaped(path))
       /\ c.binary => c.body = <<>>

VARIABLES
  stage,
  caller,     (* "runtest", or the "agent" job *)
  repo,
  plan,
  pending,    (* what the running command has yet to print *)
  installed,  (* how the install ended: exit code 0, the commands that succeeded,
                 the requirements with packages left out, and of them those in the
                 result's notes; those with lines passed over; whether its output
                 was cut *)
  truth,      (* the suites that the test command ran, oldest first *)
  ended,      (* how the test command ended *)
  cleared,    (* whether the earlier reports could be removed, which nobody asks *)
  report,     (* the file at plan.testReport *)
  tests,      (* the summary that was read *)
  verdict,
  changes     (* what the agent changed *)

vars == <<buffer, stage, caller, repo, plan, pending, installed, truth, ended, cleared, report,
          tests, verdict, changes>>

NotInstalled ==
  [ok |-> FALSE, done |-> {}, skipped |-> {}, told |-> {}, options |-> {}, cut |-> FALSE]
Running == [how |-> "running", exit |-> 0]
Missing == [shape |-> "missing", counts |-> Zero, nested |-> FALSE, early |-> 0]

Init ==
  /\ BufferInit
  /\ stage \in {"planning", "editing"}
  /\ caller \in IF stage = "editing" THEN {"agent"} ELSE {"runtest", "agent"}
  /\ repo \in IF stage = "editing" THEN {CHOOSE r \in Repos : TRUE} ELSE Repos
  /\ plan = DetectionError("none")
  /\ pending = <<>>
  /\ installed = NotInstalled
  /\ truth = <<>>
  /\ ended = Running
  /\ cleared = FALSE
  /\ report = Missing
  /\ tests = NoSummary
  /\ verdict = "none"
  /\ changes = <<>>

-----------------------------------------------------------------------------
(* The plan.  Without a test command there is nothing to find out. *)
MakePlan ==
  /\ stage = "planning"
  /\ plan' = planRepo(repo)
  /\ IF plan'.error # "none" \/ plan'.test = "none"
     THEN stage' = "over" /\ verdict' = (IF caller = "runtest" THEN "error" ELSE "unknown")
     ELSE stage' = "planned" /\ UNCHANGED verdict
  /\ UNCHANGED <<buffer, caller, repo, pending, installed, truth, ended, cleared, report, tests,
                 changes>>

-----------------------------------------------------------------------------
(* Docker's exec: the command prints, and its output is kept in part. *)

ExecStarts(output) == BufferAnew /\ pending' = output

Prints ==
  /\ pending # <<>>
  /\ \E n \in 1 .. smaller(2, Len(pending)) :
       /\ push(SubSeq(pending, 1, n))
       /\ pending' = SubSeq(pending, n + 1, Len(pending))
  /\ UNCHANGED <<stage, caller, repo, plan, installed, truth, ended, cleared, report, tests,
                 verdict, changes>>

printedBy(command, failing) ==
  IF command[1] = "retry" /\ command \in failing THEN Marker(command[2]) ELSE Log

filesOf(commands) == {command[2] : command \in commands}

(* The commands that fail in this sandbox; of a retry, packages that do. *)
Install ==
  /\ stage = "planned"
  /\ \E failing \in SUBSET commandsOf(plan.install) :
       LET s == shell(plan.install, failing)
       IN /\ ExecStarts([n \in DOMAIN s.ran |-> printedBy(s.ran[n], failing)])
          /\ installed' = [NotInstalled EXCEPT
               !.ok = s.ok,
               !.done = {c \in ToSet(s.ran) : succeeds(c, failing)},
               !.skipped = filesOf({c \in ToSet(s.ran) \cap failing : c[1] = "retry"}),
               !.options = filesOf({c \in ToSet(s.ran) : passedOver(repo, c)})]
  /\ stage' = "installing"
  /\ UNCHANGED <<caller, repo, plan, truth, ended, cleared, report, tests, verdict, changes>>

skippedPackages(output) ==
  {item.from : item \in {i \in ToSet(output) : i.kind = "skipped"}}

(* `/runtest` ends with an install that failed; an agent makes do. *)
InstallEnds ==
  /\ stage = "installing" /\ pending = <<>>
  /\ installed' = [installed EXCEPT !.told = skippedPackages(shown), !.cut = dropped > 0]
  /\ IF ~installed.ok /\ caller = "runtest"
     THEN stage' = "over" /\ verdict' = "error"
     ELSE stage' = "installed" /\ UNCHANGED verdict
  /\ BufferAnew
  /\ UNCHANGED <<caller, repo, plan, pending, truth, ended, cleared, report, tests, changes>>

-----------------------------------------------------------------------------
(* The tests. *)

(* Reports of earlier runs: the agent's own in REPORT_DIR, or one that is part of
   the checkout, at a path of .agent.yml. *)
earlierReports ==
  {Missing} \cup
  (IF plan.testReport = "none" \/ (plan.testReport \in REPORT_DIR /\ caller = "runtest") THEN {}
   ELSE {[shape |-> "whole", counts |-> t, nested |-> FALSE, early |-> 0] : t \in Truths})

(* Mutant: the report of an earlier run stays. *)
preparedNot(before) == before

(* rm -rf REPORT_DIR *)
prepared(before) == IF plan.testReport \in REPORT_DIR THEN Missing ELSE before

(* Its exit code is not looked at: the directory may still be there. *)
Prepare ==
  /\ stage = "installed"
  /\ cleared' \in BOOLEAN
  /\ \E before \in earlierReports : report' = IF cleared' THEN prepared(before) ELSE before
  /\ stage' = "prepared"
  /\ UNCHANGED <<buffer, caller, repo, plan, pending, installed, truth, ended, tests, verdict,
                 changes>>

(* A script or a configured command may be anything: run a suite twice, or end
   with exit code 0 whatever happened. *)
anything == plan.test = "config" \/ (plan.test = "script" /\ ~repo.simple)

runners ==
  CASE plan.test \in {"pytest", "unittest"} -> {plan.test}
    [] plan.test = "config" -> IF plan.stack = "node" THEN {"jest", "node"} ELSE {"pytest"}
    [] OTHER -> {repo.bin}

exitsOf(runner, t) ==
  CASE Green(t) /\ collected(t) = 0 ->
         {CASE runner \in {"pytest", "unittest"} -> 5
            [] runner \in {"vitest", "jest"} -> 1
            [] OTHER -> 0}
    [] Green(t) /\ collected(t) > 0 -> {0}
    [] OTHER -> {IF runner \in {"pytest", "other"} /\ t.unloaded > 0 THEN 2 ELSE 1}

total(suites) == FoldLeft(plus, Zero, suites)

(* node:test tells about failures after its summary. *)
printed(runner, suites) ==
  FoldLeft(LAMBDA output, t : output \o <<Log>> \o summaryItems(runner, t)
                              \o (IF runner = "node" /\ ~Green(t) THEN <<Log, Log>> ELSE <<>>),
           <<>>, suites)

(* What the runner makes of the report file: a reporter that was asked for writes
   it; .agent.yml may promise one that nobody writes; one that is killed may be
   cut off in the middle of it. *)
reportsWritten(runner, suites) ==
  LET t == Last(suites)
      whole == {[shape |-> "whole", counts |-> t, nested |-> runner = "node", early |-> n] :
                  n \in IF runner = "jest" THEN 0 .. t.unloaded ELSE {0}}
  IN CASE plan.testReport = "none" -> {report}
       [] plan.testReport # "none" /\ (plan.test = "config" \/ collected(total(suites)) = 0) ->
            {report} \cup whole
       [] OTHER -> whole

TestsExit ==
  /\ stage = "prepared"
  /\ \E runner \in runners, suites \in {<<t>> : t \in Truths}
                                       \cup (IF anything THEN Truths \X Truths ELSE {}) :
       /\ truth' = suites
       /\ \E exit \in exitsOf(runner, total(suites)) \cup (IF anything THEN {0} ELSE {}) :
            ended' = [how |-> "exited", exit |-> exit]
       /\ report' \in reportsWritten(runner, suites)
       /\ ExecStarts(printed(runner, suites))
  /\ stage' = "testing"
  /\ UNCHANGED <<caller, repo, plan, installed, cleared, tests, verdict, changes>>

(* Killed for its memory, or by `timeout`; nobody knows how the tests would end. *)
TestsKilled ==
  /\ stage = "prepared"
  /\ \E how \in {"killed", "timed out"} :
       ended' = [how |-> how, exit |-> IF how = "killed" THEN 137 ELSE 124]
  /\ \/ UNCHANGED report
     \/ plan.testReport # "none" /\ report' = [Missing EXCEPT !.shape = "cut"]
  /\ truth' = <<>>
  /\ ExecStarts(<<Log>>)
  /\ stage' = "testing"
  /\ UNCHANGED <<caller, repo, plan, installed, cleared, tests, verdict, changes>>

verdictOf(exit, timedOut, summary) ==
  IF caller = "runtest" THEN runtestVerdict(exit, timedOut, summary)
  ELSE finalVerdict(exit, timedOut, summary)

Judge ==
  /\ stage = "testing" /\ pending = <<>>
  /\ LET timedOut == ended.how = "timed out"
         summary == IF timedOut THEN NoSummary ELSE readReport(report, plan.reportFormat, shown)
     IN tests' = summary /\ verdict' = verdictOf(ended.exit, timedOut, summary)
  /\ stage' = "over"
  /\ UNCHANGED <<buffer, caller, repo, plan, pending, installed, truth, ended, cleared, report,
                 changes>>

-----------------------------------------------------------------------------
(* The edits: every file is changed once, as the diff from the baseline is one. *)

pathsOf(c) == {c.old, c.new} \ {devNull}

Edit ==
  /\ stage = "editing" /\ Len(changes) < MaxChanges
  /\ \E c \in Changes :
       /\ \A n \in DOMAIN changes : pathsOf(changes[n]) \cap pathsOf(c) = {}
       /\ changes' = Append(changes, c)
  /\ UNCHANGED <<buffer, stage, caller, repo, plan, pending, installed, truth, ended, cleared,
                 report, tests, verdict>>

Next ==
  \/ MakePlan
  \/ Prints
  \/ Install
  \/ InstallEnds
  \/ Prepare
  \/ TestsExit
  \/ TestsKilled
  \/ Judge
  \/ Edit

Spec == Init /\ [][Next]_vars

-----------------------------------------------------------------------------
(* An install that ends well has made the environment, the project and pytest,
   and the packages that it could not install of the requirements are in the
   result's notes, unless it printed more than is kept.  What a file names in
   lines of options is left out as well, and told of nowhere; but of a file that
   was installed in one resolution nothing is left out. *)
InstallIsTold ==
  installed.ok /\ stage \notin {"installing", "planned"} /\ plan.stack = "python"
  /\ ~repo.config.install =>
    /\ <<"venv", "create">> \in installed.done
    /\ <<"install", "project">> \in commandsOf(plan.install) =>
         <<"install", "project">> \in installed.done
    /\ plan.test = "pytest" =>
         {<<"import", "pytest">>, <<"install", "pytest">>} \cap installed.done # {}
    /\ \A file \in ToSet(requirementFiles) :
         <<"install", file>> \in commandsOf(plan.install) =>
           {<<"install", file>>, <<"retry", file>>} \cap installed.done # {}
    /\ \A file \in installed.skipped \cup installed.options : <<"retry", file>> \in installed.done
    /\ installed.told \subseteq installed.skipped
    /\ installed.cut \/ installed.told = installed.skipped

exited == stage = "over" /\ ended.how = "exited"

(* A report that the run did not write: only at a path that nobody clears, or one
   that could not be removed. *)
stale ==
  /\ report.shape = "whole" /\ (plan.testReport \notin REPORT_DIR \/ ~cleared)
  /\ truth = <<>> \/ report.counts # Last(truth)

(* What can hide failures once the exit code does: output without a summary, a
   second suite, files that jest could not load. *)
hidden ==
  /\ ended.exit = 0
  /\ \/ tests.source = "none"
     \/ Len(truth) > 1
     \/ tests.source = "output" /\ total(truth).failed = 0 /\ total(truth).unloaded > 0
     \/ stale

misread == plan.test = "unittest" /\ total(truth).failed = 0 /\ total(truth).aside > 0

(* A verdict follows the tests.  "passed": none failed, unless a command that
   hides its exit code also hides the failures.  "failed": some did, or the
   command was stopped, or jest and vitest had no tests to run, or a report is
   none of this run's, or unittest's expected failures were taken for failures.
   Nothing is said of tests that were not there to run. *)
VerdictFollowsTests ==
  stage = "over" =>
    /\ verdict = "passed" => ended.how = "exited" /\ (Green(total(truth)) \/ hidden)
    /\ verdict = "failed" =>
         \/ ended.how \in {"killed", "timed out"}
         \/ ~Green(total(truth))
         \/ collected(total(truth)) = 0 /\ ended.exit = 1
         \/ stale \/ misread
    /\ ended.how = "running" => verdict \in {"error", "unknown"}
    /\ exited /\ ended.exit = 5 /\ ~stale => verdict \in {"error", "unknown"}

(* The numbers in the summary are those of the tests, whichever way they were
   read, if it was one suite that ran.  Failures are missing from a summary in the
   output, which may leave out files that could not be loaded, and from jest's
   report once it comes to MAX_FAILURES, as then the list it is corrected with
   ends early. *)
SummaryIsTrue ==
  exited /\ tests.source # "none" /\ ~stale /\ Len(truth) = 1 /\ ~misread =>
    LET t == total(truth)
    IN /\ tests.passed = t.passed
       /\ tests.failed \in t.failed .. t.failed + t.unloaded
       /\ tests.failed < t.failed + t.unloaded =>
            \/ tests.source = "output" /\ tests.failed = t.failed
               /\ (t.failed > 0 \/ "jest" \in runners)
            \/ tests.source = "jest-json" /\ tests.failed >= MAX_FAILURES
       /\ tests.skipped \in {t.skipped, t.skipped + t.aside}

(* What the /runtest job and the summaries of a /task job say of a test run. *)
ReportIsTrue == VerdictFollowsTests /\ SummaryIsTrue

-----------------------------------------------------------------------------
(* The patch. *)

forbiddenExamples ==
  {<<".env">>, <<".agent.yml">>, <<".github", "workflows", "ci">>, <<".github", "workflows", "accent">>}
allowedExamples == {<<"src", "a">>, <<".env.example">>}

statsOf(c) ==
  LET signs(sign) == Cardinality({n \in DOMAIN c.body : c.body[n].sign = sign})
  IN [path |-> IF c.new = devNull THEN c.old ELSE c.new,
      oldPath |-> IF c.old = c.new \/ c.new = devNull THEN devNull ELSE c.old,
      added |-> signs("+"), deleted |-> signs("-"),
      binary |-> c.binary,
      newMode |-> IF c.new = devNull THEN "same" ELSE c.mode]

named(c) == IF c.new = devNull THEN c.old ELSE c.new

hasSecret(c) ==
  \E n \in DOMAIN c.body : c.body[n].sign = "+" /\ c.body[n].text = "secret"

bodyLength(cs) == FoldLeft(LAMBDA sum, c : sum + Len(c.body), 0, cs)

plain(path) == ~spaced(path) /\ ~escaped(path)

(* What checkPatch finds in a patch is what the changes are: counts, renames,
   modes, paths that must not change on either side of a rename, text that looks
   like a secret.  Lines that look like the format are counted as text.  This is
   so of names that git writes as they are; any files are looked through for
   secrets, unless the name of one cannot be read. *)
PatchIsRead ==
  LET patch == patchOf(changes)
      files == parsePatch(patch)
      found == checkPatch(patch, limits)
  IN /\ throws(patch) \/ ((\E n \in DOMAIN changes : hasSecret(changes[n]))
                             <=> \E v \in found : v[2] = "secret")
     /\ (\A n \in DOMAIN changes : \A path \in pathsOf(changes[n]) : plain(path)) =>
          /\ \A n \in DOMAIN changes :
               hasSecret(changes[n]) <=> <<named(changes[n]), "secret">> \in found
          /\ files = [n \in DOMAIN changes |-> statsOf(changes[n])]
          /\ \A path \in UNION {pathsOf(changes[n]) : n \in DOMAIN changes} :
               LET stopped == \E v \in found : v[1] = path /\ v[2] \notin {"secret", "symbolic link",
                                                                             "submodule"}
               IN (path \in forbiddenExamples => stopped) /\ (path \in allowedExamples => ~stopped)
          /\ \A n \in DOMAIN changes :
               changes[n].new # devNull =>
                 /\ <<changes[n].new, "symbolic link">> \in found <=> changes[n].mode = "120000"
                 /\ <<changes[n].new, "submodule">> \in found <=> changes[n].mode = "160000"
          /\ <<devNull, "files">> \in found <=> Len(changes) > limits.maxFiles
          /\ <<devNull, "lines">> \in found <=> bodyLength(changes) > limits.maxChangedLines

(* Names in quotes come out as JSON makes of them, so that a path that must not
   change stops the patch under whatever name, or the patch cannot be checked, and
   is not pushed either.  (The PR then shows names that no file has.) *)
QuotedNamesAreJudged ==
  LET patch == patchOf(changes)
      found == checkPatch(patch, limits)
      names == UNION {pathsOf(changes[n]) : n \in DOMAIN changes}
      asRead(f) == [f EXCEPT !.path = unquote(@), !.oldPath = unquote(@)]
  IN /\ throws(patch) => \E path \in names : unparsable(path)
     /\ (\A path \in names : ~spaced(path)) =>
          /\ (\E path \in names : unparsable(path)) => throws(patch)
          /\ throws(patch) \/
               /\ parsePatch(patch) = [n \in DOMAIN changes |-> asRead(statsOf(changes[n]))]
               /\ \A path \in names \cap forbiddenExamples :
                    \E v \in found : v[1] = unquote(path) /\ v[2] # "secret"
=============================================================================
