# Verification of discord-coding-assistant

TLA+ models of the parts of the assistant that carry its logic, model-checked
with TLC on small instances, and theorems about them proved with TLAPS for every
value of the constants. All line numbers refer to this commit; `PROJECT.json`
maps every modelling definition to the lines it stands for.

## 1. The system

Four kinds of process share one PostgreSQL database.

| Component | Code | State it keeps | Operations |
|---|---|---|---|
| job state machine | `packages/core/src/state-machine.ts`, `jobs.ts` | none | which status may follow which |
| jobs table | `packages/db/src/queries.ts` | a row per job (status, worker, heartbeat, cancel flag, error, pull request URL), its events (`job_events`, also the outbox of the bot), the calls to models | create, guarded transition, claim, heartbeat, reap, request cancel, spend of the month |
| api | `apps/api/src` | attachments on disk | submit (validate, spend cap, download attachments, insert), cancel, reads, dashboard sessions |
| worker | `apps/worker/src/worker.ts`, `main.ts` | the active jobs with their abort controllers | claim loop, execution, cancel poll, heartbeats, reaper, stop |
| runners | `apps/worker/src/runners` | a workspace, a sandbox, the result being built | `/task` and `/bugreport`: agent, checks, push, pull request; `/runtest`: install, test, report |
| agent loop | `packages/agent/src/loop.ts`, `apps/worker/src/agent-runtime.ts` | transcript, cost, fallback index | one model call and its tool calls per iteration, under limits and budgets |
| sandbox | `packages/sandbox/src/docker.ts` | containers and volumes of the host | create, exec, destroy, reap orphans |
| GitHub access | `packages/github/src` | branches, pull requests, comments | checkout, patch checks, push, pull request, status, comment |
| sandbox output | `packages/sandbox/src/output.ts`, `packages/test-report/src` | head and tail of an output; a report file | keep the ends of an output; parse JUnit, Jest and plain output |
| ecosystem detection | `packages/sandbox/src/detect.ts`, `agent-config.ts` | none | a checkout to its install and test commands |
| model calls | `packages/llm/src` | none | one step of a model, its messages and its price |
| bot | `apps/bot/src` | the creations of threads in flight | commands; the notifier, which turns events into forum posts |
| dashboard api | `apps/api/src/dashboard.ts`, `discord-oauth.ts` | the state cookie, sessions | sign in, list, job with its timeline, submit, cancel |
| dashboard | `apps/dashboard/src` | what a page shows, its requests in flight, its timer | pages, filter, older pages, cancel, new job |

They interact through rows. The api inserts a job, which is what enqueues it; a
worker claims it with a row lock, runs it, and records its end with guarded
updates; a cancel is either such an update or a flag that the worker polls;
every move writes an event in the same transaction, and the bot's notifier reads
the events and shows them in Discord. A worker that dies is noticed by the
heartbeats it no longer writes, and another worker fails its jobs.

What is hard: every worker, every api request and the notifier act on what an
earlier statement read; a worker crashes between any two statements; a statement
or a Discord call may be applied and its answer lost; users cancel whenever they
like, also after the code was pushed; stop, grace period and a claim in flight
overlap; budgets are compared before calls whose cost is not known; what happened in a
sandbox is known by exit codes, files and part of an output only; responses overtake each
other in a browser. The list of
hazards, each at its line, is in `PROJECT.json`.

## 2. What each component must keep

- **Jobs table**: a row only makes moves of the state machine; every move has its
  event; a terminal row never changes again, however late a worker, a cancel or a
  reaper comes.
- **Worker**: no job is in the hands of two workers; no worker takes more than its
  slots; an execution that ends leaves a terminal row; what a result says of the
  pull request is what GitHub has; a live worker's job is not reaped; a lost
  worker's job ends; the queue moves.
- **Agent loop**: budgets of the job and the month are exceeded by less than a call
  per run; every response paid for is booked once; a fallback costs no step; every
  transcript that is sent is one that providers accept, after invalid calls, nudges and
  compaction too, and has the last outputs whole; the loop ends.
- **Runners**: what is published was checked and is what was exported; a pull request
  is ready only if its tests passed; the stored result, the status and GitHub tell the
  same story; no push after an abort the runner could see; nothing stays on the host;
  a test verdict comes from a test run that means something.
- **Submission**: the answer tells what is in the table and on disk; a job that was
  admitted can spend its budget unless others spend.
- **What comes out of a sandbox**: the buffer keeps both ends of an output; an install that
  "succeeded" has installed what it says; verdict and summary are those of the tests that
  ran; the checks of a patch see every change, whatever its lines look like.
- **Users**: whoever submits or cancels, by command or form, reads what happened, and reads
  something.
- **Dashboard**: an error on the sign-in page has its cause; what is on screen together fits
  together; a page catches up with the table.
- **Notifier**: per job in order; one thread and one result, unless an answer or a
  statement was lost; the forum ends up showing the final state; no event waits
  for ever behind another job's.

## 3. Modules

| Module | Models | State ↔ code |
|---|---|---|
| `JobStates` | `state-machine.ts`, `jobs.ts` | the transition relation; `sourcesFor` as its converse |
| `JobLifecycle` | the table as its readers see it (abstract specification) | `status`, `owner`, `log`: creation, claim, guarded moves |
| `JobStore` | `queries.ts`, one operator per statement | a function per column; `rowLock` is the `FOR UPDATE` lock of an open claim, `sawQueued` the status a `requestCancel` call has read |
| `WorkerPool` | `worker.ts` over `JobStore` | `pc[w][j]` is where `#execute` stands, `claimed` the job between commit and launch, `pending` the snapshot of `stop()`, `reapList` the rows `reapStaleJobs` selected, `remote` what the job left on GitHub |
| `Notifier` | `notifier.ts`, `forum.ts`, over `JobLifecycle` | `batch` and `step` are the loop of `processOnce`, `task` is `#postLocks`, `outbox` is `job_events`, `posts` and `results` are the forum, `red` the jobs whose result is that of tests that did not pass |
| `Transcript` | the messages of `loop.ts` and `step.ts`, `compactToolResults` | a message is its role, the ids of its calls or results, and whether its outputs are elided; `Accepted` is what providers require |
| `AgentLoop` | `loop.ts`, `agent-runtime.ts`, the step of `step.ts`, over `Transcript` | the local variables of `runAgent`, the ledger (`llm_calls` and the job's cost) |
| `RunnerContract` | what `#execute` can see of a runner (abstract specification) | `phase`, the signal, `remote`, the returned `RunOutcome` |
| `RunnerBase` | what both runners share: checkout, `docker.ts`, the `finally` block, the sandbox reaper of `main.ts` | `at[r]` is the next await of a run, `ending` the return or throw that the `finally` block delays, `volume`/`container`/`workdir`/`pushdir` are on the host |
| `CodeJob` | `agent-job.ts`, `push.ts` | `diff` is what the agent changed, `patch` what the runner read of it, `result` is `result.outcome` |
| `TestJob` | `runtest.ts`, `runtest-analysis.ts`, `upsertIssueComment` | `statuses` and `comments` are on GitHub, `existing` is the comment a run found |
| `Submission` | `submitJob` of `app.ts`, `attachments.ts`, the spend checks | `at` is the next await of a request, `files`/`rows` the attachments on disk and in the table, `spent` the month's `llm_calls` |
| `Clients` | `handlers.ts`, `main.ts`, `api-client.ts` of the bot, `new-job.tsx`, the cancel route, over `Submission` | `command` is where a handler stands, `told` what the user reads, `broken` that Discord or the bot failed it, `cancel` a `requestCancel` in progress |
| `OutputBuffer` | `output.ts` | `head`, `tail`, `dropped` are the fields; `written` is the stream, which the code does not keep |
| `RepoPlan` | `detect.ts`, `agent-config.ts`; bash's `&&`, `\|\|` and braces (external) | a repository is what its files say, `options` those requirements with lines that the retry passes over; a plan is steps of commands |
| `TestReport` | `packages/test-report`; what test runners write (external) | a suite is counts of tests, a report a tree or a few lines; `MAX_FAILURES` cuts the list of failed tests, `early` says how many files that could not be loaded come before it is full |
| `PatchRules` | `patch.ts`; git's diff (external) | a patch is lines of a few kinds, among them text that looks like a header; a name with a space, beyond ASCII or with a bell is a path of its own, which git quotes and `unquote` decodes, or throws at |
| `SandboxOutput` | the parts of `runtest.ts` and `agent-job.ts` that believe an output, over the four above | `installed`, `truth`, `ended`, `cleared` and `changes` are what happened; `buffer`, `report`, `tests`, `verdict` what the worker makes of it |
| `SignIn` | the routes under `/auth`, `discord-oauth.ts` | `tabAt` where each tab is, `stateCookie` the one they share, which an answer takes away when it arrives, `why` what took a tab's state out of it, `session` whether the session cookie is good |
| `JobPages` | `hooks.ts`, `jobs.tsx`, `job-detail.tsx`, the routes and queries they call | `data`, `older`, `nextBefore` are React state, `loads` the requests in flight with what they were asked for |
| `Dashboard` | `app.tsx`, `api.ts`: `SignIn` and `JobPages` in one browser | `page` is what one of the tabs, `theTab`, shows; the session hook answers 401 |
| `WorkerPoolProofs`, `NotifierProofs`, `CodeJobProofs`, `TestJobProofs`, `SubmissionProofs`, `AgentLoopProofs`, `SandboxOutputProofs`, `DashboardProofs` | | theorems |
| `MCWorkerPool`, `MCNotifier`, `MCTestJob`, `MCAgentLoop`, `MCSandboxOutput`, `MCDashboard` | | sets and symmetry for TLC |

`WorkerPool` composes `JobStore` with the workers and implements `JobLifecycle`
(`LifecycleSpec`, checked and proved); `Notifier` composes the bot with
`JobLifecycle` instead of the whole pool, which is what that refinement is for.

The `Runner` action of `WorkerPool` has the disjuncts of `RunnerContract`'s `Next`;
`CodeJob` and `TestJob` implement `RunnerContract` (`KeepsContract`). So the pool is
checked with a runner in one variable, and the runners without the pool. `Clients` puts
the bot's handlers and the form on top of the requests of `Submission`; `Dashboard`
puts the session of `SignIn` in front of the pages of `JobPages`.

A worker's `#execute` is cut where it awaits: one action per database statement,
with the decisions that follow it. `RecordFails` is a statement that throws, with
or without having been applied. A restarted process is a new worker, since its id
is fresh and nothing is kept in memory. Handlers, submissions and runs of the agent
are cut in the same way.

`Mutant:` in a comment marks a variant of the definition below it, as a plausible
bug would have it; `PROJECT.json` names, for every property, the one that breaks it.

## 4. Runs, bounds, fairness

| Run | Shows | Bounds |
|---|---|---|
| `pool_safety` | see §2, one execution in all its interleavings | 1 code job, 3 workers (the executor, its reaper, one that crashes), one with failing heartbeats, statements fail |
| `pool_liveness` | exclusion, slots, no job stuck, queue moves | 2 jobs, 2 workers with one slot: one job waits while the other is held, claimed, or lost; claims commit without their answer, and the statements of one job fail, those of the catch block included; no cancels (`pool_safety` has them) |
| `notifier_safety` | order, one thread, one result, the forum shows the end | 2 jobs, each of which may be a test run that succeeds without passing, batches of 2, 5 events, so that a job can go through its whole life, 1 fault besides any number of refusals; nothing is given up (the proofs of §5 allow for it) |
| `notifier_liveness` | every event is delivered or given up | 2 jobs, batches of 1 (the worst case for starvation), 3 events, refusals for ever, hours that pass |
| `agent_loop` | budgets, bookkeeping, transcript, termination | 2 runs over a turn of the month, 3 iterations, 2 models, the first at 2 units a call and the fallback at 1, budget and cap of 3, so that runs end at the budget, at the cap and at the last iteration; 2 parallel calls, any of them invalid; one tool message kept whole, so that compaction happens; one of the runs is aborted, late, or has failing hooks and models; a tool call may never return |
| `code_runner` | a code job from the access check to the `finally` block: what is published, the result, the clean-up, the contract | 1 run, 2 removals or answers lost, crashes; runs share nothing, so one is enough |
| `test_runner` | verdicts, the report to the pull request, the shared comment, the contract | 2 overlapping runs on one pull request; no lost removals (`code_runner` has them) |
| `submission` | answers, attachments, the monthly cap, what users read, a `/cancel` that races a claim and then cancels a job that goes on | a command with attachments and a form; a job budget of 2, a cap of 3, calls of 1 or 2: one job fits, two do not |
| `artifacts` | output buffers, installs, reports, patches | 41 repositories that differ in what detection looks at; a buffer of 4 items, less than an install with skipped packages prints; suites with at most two kinds of result, and `MAX_FAILURES` = 2 (50 in the code), which a suite with files that could not be loaded exceeds; patches of at most 2 changes out of every kind, over 8 paths, one of them decoded to other text and one that cannot be decoded; limits of 1 file and 2 lines |
| `dashboard` | the sign-in, what pages show, that they catch up | 2 tabs, 3 jobs with one in the newest page, one filter besides "all", 2 requests besides the timer's: a response that overtakes another, a page behind the first; while one tab shows the pages the other rests (`Aside`), since all it could do to them is to end the session, which may end at any time |
| `cancel_race`, `lost_changes` | the code does not keep what a comment says (§6) | 1 job and worker; 1 run, nothing else fails |

`pool_safety` has one job because statements of different jobs touch different
rows and workers share nothing else; what relates jobs (oldest first, slots,
starvation) is in `pool_liveness`. Three workers are needed for a reap by a third
while a second one stops. Symmetry is used only in runs without liveness. Deadlock is
not checked where a behaviour may end: jobs that are over, a document that was read.

Fairness: the awaits of the pool's live processes settle (timeouts of statements and
commands; that a runner ends is an assumption, see §7), so the claim loop, an execution
and the timers are weakly fair. A claim may fail, or commit and lose its answer, but not
every time that it is tried (strong fairness). Nothing makes a user cancel, a process
start, stop or crash, or Discord accept a call. `ClaimedJobsEnd` and `QueuedJobsStart`
assume that some worker stays up.
`EveryEventSettles` assumes that hours pass, which is what the notifier's rule of
giving up needs. `ContainersGo` assumes that some worker's sandbox reaper keeps
running and that time passes; the runs of `CodeJob` are not assumed to end, since
`readFile`, `writeFile` and `copyIn` have no timeout. `RunsEnd` assumes that a model call
and a hook end or fail (weak fairness of all steps but tool calls); a tool call that reads
or writes a file may hang for ever, and the property says so. `PagesCatchUp` assumes that a visible tab's timer fires
(weak fairness), that requests are answered or fail (weak), and that the requests of the
timer do not fail for ever (strong fairness of their steps); nothing makes users or
workers do anything.

Abstractions worth knowing:

- `SKIP LOCKED` and the locks of open claims are kept, those of foreign keys are not;
  jobs are ordered by creation without ties; a worker's check of `#stopping` and the
  SELECT that follows are one step, and so is one heartbeat of all its jobs.
- Installs of a code job only leave notes, so they have no outcome in `CodeJob`
  (`SandboxOutput` has theirs); exit codes are 0, 1, 2 (any other), 5 (pytest's "no tests")
  and 124 (timed out); a summary is absent, empty, green or red (`TestReport` has the
  counts). The agent is one await there and has `AgentLoop` to itself.
- A lost removal (`docker rm` whose exit code nobody reads) or answer is a fault, and
  faults are bounded; failures that the code sees are not.
- No run lasts 45 minutes, the age at which the reaper takes a sandbox (jobs have at
  most 20; `main.ts:76` says so); the reaper could otherwise take one that is in use.
- A pull request has fewer than a hundred comments, the first page that
  `upsertIssueComment` reads.
- A job of `Submission` only reads its attachments and spends money; every call is
  booked (`AgentLoop` has bookings that fail).
- Outputs are sequences of lines, each an item that is kept or dropped whole; the buffer
  of the code counts characters and may cut one in two.
- The cancel route is one step in `JobPages`; its statements are in `JobStore` and `Clients`.
- A hidden tab is left out: it waits until it is visible again.
- The claims whose answer is lost are in the pool as jobs that name a worker which knows
  nothing of them; `SlotsBound` counts the claims a worker knows of.

## 5. Proofs

`WorkerPoolProofs` proves, for any jobs, workers, concurrency, flaky heartbeats
and failing statements, that `IInv` is inductive and that it implies
`OneExecutor`, `ResultMatchesGitHub`, `NoFalseReap`, `LateResultsDropped`,
`SettledIsTerminal`, the refinement of `JobLifecycle` and with it
`EventsTellHistory`. The invariant is needed because none of these is inductive:

- exclusion rests on `LockInv` (an open claim pins a queued row alone) and
  `HoldInv` (a worker that holds a job is named in its row, so two cannot);
- the result rests on `RemoteInv` (what an execution knows of GitHub at each
  step), which rests on `UnclaimedInv` (nothing is on GitHub before the claim);
- the refinement and `SettledIsTerminal` rest on `PhaseInv`, the statuses a row
  can have while its execution stands at a step;
- `NoFalseReap` rests on `StaleInv`, which covers rows the reaper has selected and
  not failed yet.

`SettledIsTerminal` has two exceptions, `LeftToTheReaper`, which the proof needs because
the code has them (§6). `SlotsBound` needs `SlotsInv`, which counts what a worker knows it
has in hand where it claims: below the limit, so that the job it claims is the last that
fits; a claim whose answer was lost is no worker's. `History` is about the
abstract table; `EventsAreHistory` carries it over the refinement to the pool.

`NotifierProofs` proves `SettledInOrder`, `DuplicatesArePaid` and `DeliveredShows` for any
jobs, batch size, faults and refusals. Its `IInv` follows an event from the table to the
forum:

- `OutboxInv`: the outbox has every event of every log once, oldest first per job;
- `NotifiedInv`: what is settled of a job is a prefix of its log;
- `BatchInv`: a batch is unsettled events in the same order, with a status and a thread
  that are still true where they matter, though both were read before other awaits;
- `StepInv`: where the loop stands tells what it has done for the event in hand;
- `ThreadsInv`, `PostsInv`: a thread belongs to its job, and each one beyond the first is
  paid for by a fault, the one that the command handler is recording included;
- `ResultsInv`, `ShownInv`: a result comes after all events before it, shows the final
  status, and is there when the last event is settled without being given up.

The order is the hard part: a tick fetches what `Only` keeps of the outbox and drops, event
by event, what is blocked or settled. `OnlyKeeps` says that a filter of a sequence keeps
the order and exactly the wanted events. `Only` is a recursive function, so that lemma is
an induction, and is proved as one by a least counterexample among the lengths
(`LeastNatural`, which rests on the well-foundedness of `<` on `Nat`).

`CodeJobProofs` proves, for any runs, faults and crashes, `PublishedIsChecked`,
`ReadyIsEarned`, `ResultIsTrue`, `KeepsContract` and `NothingLeft`. Two inductive
invariants carry them: `IInv` (by stage: nothing is decided while the run works,
nothing is on GitHub before the push, only a clean patch reaches the tests) and
`HostInv` (by stage, as long as there was no fault: what exists on the host and whether
the `finally` block has a sandbox to destroy). Most steps leave GitHub and the results
alone (`Quiet`) or the host (`Plain`), so each invariant is proved for those steps at
once. The contract then is a case per stage, since the phase of `RunnerContract` is a
function of stage and ending.

`SubmissionProofs` proves both properties of `Submission`: `Honest` says what is there
at each await of a request; `Budgets` says that until another job spends, what an
admitted job may still spend fits under the cap. For the users, `Informed` adds where a
command, a form and a cancel stand, what their user has read and what is true then; it is
inductive for `ClientsSpec`, implies `ToldIsTrue`, and the two properties of `Submission`
hold for its clients as well.

`TestJobProofs` proves `VerdictIsTrue`, `ReportsAgree`, `OneComment` and `KeepsContract` for
any number of runs of one pull request. By stage, a run has no result until its tests
ended, and reports only what its runner returned (of the row, which a later stop may change,
nothing is said); `SharedInv` relates the runs: while none looked
for the comment as another was about to post it, at most one is about to post, and then
there is no comment.

`AgentLoopProofs` proves all five safety properties of the agent loop, for any runs,
models, prices, budgets, numbers of calls and messages kept whole. `IInv` says by place
what a run has cost and what of it is booked (`Money`), how iterations, calls and models
relate (`Counts`), and what its transcript looks like (`Talk`: accepted, or ending in
questions whose answers are being collected). The lemmas on transcripts say what each
append and `compactToolResults` preserve; `OnlyTheAssistant` is where the choice of
`step.ts:138` matters, to return only the assistant's messages and none of those with which
the SDK answers invalid calls. `Overshoot` needs `Covered`: the spend, plus the most that
the calls in flight may still cost, stays below the cap plus a call per run.

`SandboxOutputProofs` proves what is believed of the output of a sandbox, for any
repositories, suites, outputs, capacity of the buffer and way for a command to end.
`OutputKeepsEnds` is inductive together with "the tail is empty until the head is full".
`SandboxInv` adds what is so at each stage of a run: the commands of the plan are those of
the repository (`PlanInv`), what a command has still to print is what it prints
(`PendingInv`), which steps of the install line failed, what was skipped and printed
(`InstallInv`), and which report is on disk, from which suite (`ReportInv`). It implies
`InstallIsTold`, whose exception are the lines of options that a retry passes over, and
`ReportIsTrue`, for any `MAX_FAILURES` and whether or not earlier reports could be removed;
and every run implements the abstract buffer
(`Buffers`). What the code computes there are folds over outputs, suites and install steps.
The fold of the library is the CHOOSE of a recursive function; the lemmas that come first
show that this function exists and what it does at each length, by the least
counterexample instead of induction (`Counting`), so that each fold of the model gets a
lemma that says what it is after one more item.

`PatchIsRead` (`PatchRead`) holds of any number of changes, of files with any lines; where
git does not write a name as it is, it promises only that a secret is told of unless
`checkPatch` throws. Its invariant is short: what was changed are changes, and none shares a path with
another (`ChangesInv`). The rest is what two loops make of a patch. `RunsTo` says that a
loop gets from one state to another over some lines; runs are joined where patches are, so
`ParseDiff` and `ScanDiff` follow the lines of one change, and `Counting` those of all.
`ParsedFiles` and `SecretsAre` say what `parsePatch` and the search for secrets return, and
`FoundInChanges` what `checkPatch` finds, one rule at a time.

`DashboardProofs` proves `SignInErrorsAreTrue` for any number of tabs, and for the dashboard
as a whole. It needs `LostHasReason`: a tab that may still come to the callback while
the cookie is not its own has something that took it (`why`). It also proves `ShownFitsTogether`, for any jobs, page size,
filters and requests in flight. `PagesInv` follows what is on screen back to the answers on
their way: a job's row has no more events than the table, and once its trace is read no more
than the trace (`TimelineInv`); unless `crossed`, one request for an older page is under way
at most, it is of the present filter, starts where the list ends, and its answer ends where
its cursor points (`OlderInv`). `ListPage` is what `listJobsPage` promises of an answer, and
rests on `SortedExists`, that a finite set of numbers can be sorted.

Assumptions: only those of the modules (`StoreAssumption`, `PoolAssumption`,
`RunnerAssumption`, `SubmissionAssumption`, `AgentAssumption`, and the like). For
`SandboxOutput` they say what repositories, suites, printed items and changes are records
of, that git names a file on one side at least and writes no lines for binary data.

Model-checked only: all liveness (`ClaimedJobsEnd`, `QueuedJobsStart`, `ContainersGo`,
`EveryEventSettles`, `RunsEnd`, `PagesCatchUp`), which is out of this prover's reach, and
`QuotedNamesAreJudged`, whose names are taken apart and put together by functions of
sequences. Every other invariant and action property of a passing run has a theorem.

## 6. Where the code and its texts disagree

`PROJECT.json` has two findings with a run each: a cancel racing a claim
(`cancel_race`), and `readFile`, by which a docker exec that fails while the patch is read
makes a successful job without changes (`lost_changes`).

Met while modelling and not given a run. In the worker and the notifier:

- a cancel that read the row as queued and comes after the claim is told as "cancelled",
  while the job goes on, spends, and may open a pull request (`queries.ts:160`; `ToldIsTrue`
  has the case as `cancelled late`, `BlockedOnlyByOthers` counts what it spends);
- a cancel or shutdown after the push is recorded as such and the pull request's URL is
  lost (`worker.ts:146`; `state-machine.test.ts:27` says "does not allow cancelling while
  finalizing (code may already be pushed)", but the push comes before `finalizing`);
- the same for a test run that has reported: a stop during the clean-up or the report
  (`runtest.ts:141-142`, 297) is looked at afterwards, so the pull request shows a verdict
  and the row says cancelled or failed, without a result (`worker.ts:146`);
- while `stop()` waits, `Promise.allSettled` (`worker.ts:80`) takes the rejection of an
  execution whose catch block failed: the process lives on and the row waits for the reaper;
- a claim that commits and loses its answer (`worker.ts:92`) leaves a row in `preparing`,
  with a worker that lives and does not know of it and so writes no heartbeat for it;
- `stop()` takes its snapshot while a claim is in flight (`worker.ts:97`); that job dies with
  the process (`worker.ts:71` says that jobs are waited for);
- the reaper re-checks nothing between its SELECT and the update (`queries.ts:127-143`), so
  a heartbeat in between does not save the job;
- `notifier.ts:22` says that events are not lost while the code drops them after an
  hour (`103-106`); nothing reads `discord_ack_message_id`;
- `docs/ARCHITECTURE.md:16` calls the monthly cap hard while concurrent runs may exceed it
  by a call each (`agent-runtime.ts:43-48`); `ARCHITECTURE.md:285` says orphaned sandboxes go
  after 30 minutes, `main.ts` says 45.

In the runners and the api:

- two overlapping test runs of a pull request post two comments
  (`packages/github/src/index.ts:160-177`; `ARCHITECTURE.md:337` says "updated in place
  on re-run"): `OneComment` says exactly when;
- attachment rows follow the job row (`app.ts:121-137`; `README.md:59` has it the other
  way round), so a worker that is quick works without the attachments, and a crash in
  between loses them;
- an api that dies or fails at `createJob` leaves the attachments on disk, and the task
  that would delete old files (`ARCHITECTURE.md:425`) does not exist;
- `#proxyIp` is awaited after the volume was made and outside of the `try` that removes it
  (`docker.ts:276`): when that docker cannot be started, `create` throws and the volume stays
  (`ARCHITECTURE.md:285` says of a sandbox "destroyed at job end"); `NothingLeft` excepts it;
- a volume without a container is never reaped (`docker.ts:337-357`);
- exit code 0 with no test at all in the report makes a ready pull request
  (`agent-job.ts:499-504`; `results.ts:60` says draft for "no tests");
- a submission can answer with an error although the job was created; the bot's `catch`
  then overwrites its own acknowledgement with "Something went wrong" when only the
  bookkeeping after it failed (`handlers.ts:105-110`).

In what comes out of a sandbox (`artifacts` names each as an exception of its property):

- package by package, the retry of a requirements file drops what lines of options name
  (`-r`, `-e`; the `grep` of `detect.ts:170`) without a marker, though `detect.ts:163` says
  "Skipped packages are printed with a marker.";
- the list of failed tests ends at `MAX_FAILURES` (`test-report/src/index.ts:6`), and jest's
  count is corrected with that list (154): beyond it, files that could not be loaded are
  missing from the count;
- nobody looks at the exit code of the `rm -rf` of the report directory (`runtest.ts:238`,
  `agent-job.ts:477`): what stays is read as this run's report if the tests write none;
- names that git quotes are decoded byte by byte (`patch.ts:29-45`): those beyond ASCII are
  shown as names that no file has, and at `\a` or `\v` `JSON.parse` throws, so that the
  patch is not pushed; the second loop (153) does not decode them at all;
- the header of `patch.ts:52` does not match names with a space: such a file is neither
  counted nor checked, and the name given with a secret found in it is garbled;
- unittest's `OK (expected failures=n)` is read as n failures (`test-report/src/index.ts:236-243`);
- jest's lines on the console say nothing of suites that fail to load, so a script that
  hides its exit code passes; of two suites in one script one summary is counted;
- vitest and jest without tests exit with 1, which is "failed" here, not "no tests";
- a report path of `.agent.yml` outside `REPORT_DIR` is not cleared, so a stale report is
  read (`runtest.ts:238`); a JUnit file that was cut off parses to zeros;
- the notes of skipped packages are lost when the output of the install exceeds the buffer;
- a command whose own exit code is 124 counts as timed out (`docker.ts:140-152`).

In the agent: `edit_file` counts occurrences without overlaps, so "aa" is unique in "aaa"
(`tools.ts`); a `readFile` that fails reads as "File not found"; `clipOutput` with a limit
below 2 keeps everything.

In the dashboard (`dashboard` allows for them):

- "Load older" in flight across a change of the filter appends rows of the old filter
  (`jobs.tsx:67-72`; `jobs.tsx:50` says "A new filter starts a fresh list"), and a double
  click appends a page twice: `OlderBelong` holds of all other cases;
- refreshing the first page makes gaps or repeats at the border to the older ones;
  `listJobsPage` compares a time that the cursor has cut to milliseconds;
- a job page whose first load fails is never loaded again (`job-detail.tsx:268`); an `api.me`
  that fails other than by 401 leaves a blank page; a failed logout shows `/login` although
  the session lives on;
- two tabs that sign in share one state cookie. A callback takes it away when its answer
  arrives (`dashboard.ts:125`), also from a tab that began meanwhile, and that tab reads
  "The sign-in link expired" although it did not; so does who loads the callback twice, or
  declines at Discord;
- a `createSession` that throws (`dashboard.ts:150`) answers 500 in place of the sign-in page.

## 7. What is left

Not modelled:

- agent tools (`tools.ts`): text edits and path checks of one call, without state of their
  own between awaits; to the loop a call succeeds or fails;
- embeds, texts, the rendering of pages, the costs page, `/status` and `/jobs`: they only
  read, and nothing depends on how they lay it out;
- prices, provider options and caching of model calls: a call costs some amount of a set;
- configuration, schemas, profiles, migrations, the start of processes: read once; their
  values are the constants of the models;
- HTTP clients below the calls named in the modules, flags and networks of containers;
- a docker that hangs in `readFile`, `writeFile` or `copyIn` (no timeout, `docker.ts:158`): a run
  that never returns while its heartbeats go on, which no part of the system notices. The
  agent loop allows for it (`RunsEnd`: a run ends, or hangs in a tool call), and `ContainersGo`
  assumes of no run that it ends; the liveness of the pool assumes that runners return.
