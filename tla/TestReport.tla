----------------------------- MODULE TestReport -----------------------------
(***************************************************************************)
(* What is known of a test run (packages/test-report/src/index.ts): the    *)
(* report a test runner wrote, or else the summary in its output, and the  *)
(* verdicts the two kinds of job draw from it.                             *)
(*                                                                         *)
(* The truth about a run is a record of counts: tests that passed, failed, *)
(* were skipped, were put aside (todo, or expected to fail), and files     *)
(* that could not be loaded.  What the runners write of it is external.    *)
(***************************************************************************)
EXTENDS Integers, FiniteSets, SequencesExt

CONSTANT MAX_FAILURES   (* failed tests that are listed by name *)

ASSUME MaxFailuresAssumption == MAX_FAILURES \in Nat \ {0}

Zero == [passed |-> 0, failed |-> 0, skipped |-> 0, aside |-> 0, unloaded |-> 0]

plus(s, t) == [f \in DOMAIN s |-> s[f] + t[f]]

collected(t) == t.passed + t.failed + t.skipped + t.aside

Green(t) == t.failed + t.unloaded = 0

Summary(passed, failed, skipped, source) ==
  [passed |-> passed, failed |-> failed, skipped |-> skipped, source |-> source]

NoSummary == Summary(0, 0, 0, "none")

-----------------------------------------------------------------------------
(* JUnit.  A test case may hold test cases; one level stands for any. *)

times(n, result) == [k \in 1 .. n |-> [result |-> result, inner |-> <<>>]]

(* node:test puts subtests into their test, which fails with them. *)
junitOf(t, nested) ==
  LET cases == times(t.passed, "passed") \o times(t.failed, "failure")
               \o times(t.skipped + t.aside, "skipped") \o times(t.unloaded, "error")
  IN IF nested /\ cases # <<>>
     THEN <<[result |-> IF Green(t) THEN "passed" ELSE "failure", inner |-> cases]>>
     ELSE cases

leaves(cases) ==
  FoldLeft(LAMBDA s, case : IF case.inner = <<>> THEN Append(s, case) ELSE s \o case.inner,
           <<>>, cases)

count(cases, results) == Cardinality({n \in DOMAIN cases : cases[n].result \in results})

parseJUnit(cases) ==
  LET ended == leaves(cases)
  IN Summary(count(ended, {"passed"}), count(ended, {"failure", "error"}),
             count(ended, {"skipped"}), "junit")

-----------------------------------------------------------------------------
(* Jest's JSON: a file that could not be loaded has a message and no results.
   Some of those files come before the failed tests; in whatever order they come,
   as many failures are listed as in one of these. *)

jestJsonOf(t, early) ==
  [numPassedTests |-> t.passed, numFailedTests |-> t.failed,
   numPendingTests |-> t.skipped, numTodoTests |-> t.aside,
   messages |-> t.unloaded, before |-> early]

(* Failed tests are listed while there is room, messages always. *)
listed(data) ==
  LET room == MAX_FAILURES - data.before
  IN data.messages + (IF room < 0 THEN 0 ELSE IF data.numFailedTests < room
                      THEN data.numFailedTests ELSE room)

(* What is listed corrects the count. *)
parseJestJson(data) ==
  Summary(data.numPassedTests,
          IF data.numFailedTests > listed(data) THEN data.numFailedTests ELSE listed(data),
          data.numPendingTests + data.numTodoTests, "jest-json")

-----------------------------------------------------------------------------
(* The output, a sequence of items; a summary is one of them. *)

Item(kind, from, counts) == [kind |-> kind, from |-> from, counts |-> counts]
Log == Item("log", "any", Zero)

(* vitest ends without a count of tests if it came to none. *)
summaryItems(runner, t) ==
  CASE runner = "other" -> <<>>
    [] runner = "vitest" /\ collected(t) = 0 -> <<>>
    [] OTHER -> <<Item("summary", runner, t)>>

(* pytest says no more than "xfailed" of what was to fail; vitest counts files
   that could not be loaded apart from tests, jest does not count them. *)
readPytest(t) == Summary(t.passed, t.failed + t.unloaded, t.skipped, "output")

readVitest(t) ==
  Summary(t.passed, t.failed + (IF t.failed = 0 THEN t.unloaded ELSE 0), t.skipped + t.aside,
          "output")

readJest(t) == Summary(t.passed, t.failed, t.skipped + t.aside, "output")

readNode(t) == Summary(t.passed, t.failed + t.unloaded, t.skipped + t.aside, "output")

(* "expected failures=1" also matches the expression for failures. *)
readUnittest(t) ==
  LET total == collected(t) + t.unloaded
      failures == IF t.failed > 0 THEN t.failed ELSE t.aside
      failed == failures + t.unloaded
      rest == failed + t.skipped + t.aside
  IN [Summary(0, failed, t.skipped, "output") EXCEPT !.passed = total - rest]

(* Where a runner's summaries are. *)
summariesIn(output, runner) ==
  {n \in DOMAIN output : output[n].kind = "summary" /\ output[n].from = runner}

(* One runner's summary is looked for after the other, of some the last one and
   of some the first one. *)
parseOutput(output) ==
  LET by(runner) == summariesIn(output, runner) # {}
      first(runner) == output[Min(summariesIn(output, runner))].counts
      last(runner) == output[Max(summariesIn(output, runner))].counts
  IN CASE by("pytest") -> readPytest(last("pytest"))
       [] by("vitest") -> readVitest(last("vitest"))
       [] by("jest") -> readJest(last("jest"))
       [] by("node") -> readNode(first("node"))
       [] by("unittest") -> readUnittest(first("unittest"))
       [] OTHER -> NoSummary

-----------------------------------------------------------------------------
noTestsCollected(exit, tests) ==
  exit = 5 /\ (tests.source = "none" \/ tests.passed + tests.failed + tests.skipped = 0)

testsPass(exit, tests) == exit = 0 /\ tests.failed = 0

(* A report is [shape, counts, nested, early]: what the runner wrote completely, or
   cut off; JSON that is cut off does not parse, XML always does. *)
readReport(report, format, output) ==
  CASE format = "junit" /\ report.shape = "whole" -> parseJUnit(junitOf(report.counts, report.nested))
    [] format = "junit" /\ report.shape = "cut" -> Summary(0, 0, 0, "junit")
    [] format = "jest-json" /\ report.shape = "whole" -> 
         parseJestJson(jestJsonOf(report.counts, report.early))
    [] OTHER -> parseOutput(output)

(* `/runtest`. *)
runtestVerdict(exit, timedOut, tests) ==
  CASE timedOut -> "error"
    [] ~timedOut /\ noTestsCollected(exit, tests) -> "error"
    [] ~timedOut /\ tests.source = "none" /\ exit \notin {0, 1} -> "error"
    [] OTHER -> IF testsPass(exit, tests) THEN "passed" ELSE "failed"

(* The final tests of an agent job. *)
finalVerdict(exit, timedOut, tests) ==
  CASE timedOut -> "failed"
    [] ~timedOut /\ noTestsCollected(exit, tests) -> "unknown"
    [] OTHER -> IF testsPass(exit, tests) THEN "passed" ELSE "failed"
=============================================================================
