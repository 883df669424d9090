----------------------------- MODULE WorkerPool -----------------------------
(***************************************************************************)
(* The worker processes (apps/worker/src/worker.ts) over the jobs table:   *)
(* the claim loop, one execution per claimed job with the abort signal and *)
(* the cancel poll, heartbeats, the reaper, graceful stop and crash.  The  *)
(* runner is abstracted to what the other parts can see of it: when it     *)
(* marks the job running, the point of no return, the push, the pull       *)
(* request, and how it ends (runners/agent-job.ts, runners/runtest.ts).    *)
(***************************************************************************)
EXTENDS JobStore, FiniteSets

CONSTANTS
  CodeJobs,     (* the task and bugreport jobs; the others only run tests *)
  CancelJobs,   (* the jobs some user asks to cancel *)
  Concurrency,  (* WORKER_CONCURRENCY *)
  Flaky,        (* the workers whose heartbeats may fail for staleAfterMs *)
  FaultyJobs    (* the jobs in whose executions statements may fail, applied or not *)

ASSUME PoolAssumption ==
  /\ CodeJobs \subseteq Jobs
  /\ CancelJobs \subseteq Jobs
  /\ Concurrency \in Nat \ {0}
  /\ Flaky \subseteq Workers
  /\ FaultyJobs \subseteq Jobs

VARIABLES
  mode,      (* life of the process: "new", "up", "stopping", "down" *)
  claimed,   (* the job whose claim committed and which #loop has yet to launch *)
  pc,        (* pc[w][j]: where worker w's #execute of job j stands *)
  aborted,   (* aborted[w][j]: controller.signal.aborted *)
  byUser,    (* byUser[w][j]: cancelledByUser *)
  outcome,   (* outcome[w][j]: the RunOutcome the runner returned *)
  pending,   (* stop()'s snapshot of the active jobs *)
  reapList,  (* jobs a running reapStaleJobs selected and has not failed yet *)
  remote     (* what the job left on GitHub: "none", "branch", "pr" *)

execVars == <<pc, aborted, byUser, outcome>>
processVars == <<mode, claimed, pending, reapList>>
vars == <<storeVars, processVars, execVars, remote>>

Modes == {"new", "up", "stopping", "down"}

(* idle; then inside runner.run: setup, working, publishing, pushed; then in
   #execute after it: returned (line 146), marking (149), finalizing (150),
   finishing (159), and catching for the catch block. *)
InRunner == {"setup", "working", "publishing", "pushed"}
Steps == {"idle", "returned", "marking", "finalizing", "finishing", "catching"} \cup InRunner

Outcomes == [status : {"succeeded", "partial", "failed"}, prUrl : BOOLEAN]
Failure == [status |-> "failed", prUrl |-> FALSE]

TypeOK ==
  /\ StoreTypeOK
  /\ mode \in [Workers -> Modes]
  /\ claimed \in [Workers -> Jobs \cup {NoJob}]
  /\ pc \in [Workers -> [Jobs -> Steps]]
  /\ aborted \in [Workers -> [Jobs -> BOOLEAN]]
  /\ byUser \in [Workers -> [Jobs -> BOOLEAN]]
  /\ outcome \in [Workers -> [Jobs -> Outcomes]]
  /\ pending \in [Workers -> SUBSET Jobs]
  /\ reapList \in [Workers -> SUBSET Jobs]
  /\ remote \in [Jobs -> {"none", "branch", "pr"}]

Init ==
  /\ StoreInit
  /\ mode = [w \in Workers |-> "new"]
  /\ claimed = [w \in Workers |-> NoJob]
  /\ pc = [w \in Workers |-> [j \in Jobs |-> "idle"]]
  /\ aborted = [w \in Workers |-> [j \in Jobs |-> FALSE]]
  /\ byUser = [w \in Workers |-> [j \in Jobs |-> FALSE]]
  /\ outcome = [w \in Workers |-> [j \in Jobs |-> Failure]]
  /\ pending = [w \in Workers |-> {}]
  /\ reapList = [w \in Workers |-> {}]
  /\ remote = [j \in Jobs |-> "none"]

(* The keys of #active. *)
Active(w) == {j \in Jobs : pc[w][j] # "idle"}

Running(w) == mode[w] \in {"up", "stopping"}

(* A job is in a worker's hands from the commit of its claim. *)
Holds(w, j) == pc[w][j] # "idle" \/ claimed[w] = j

-----------------------------------------------------------------------------
(* The API: submit a job, and the statements of a cancel request. *)

CreateJob(j) == createJob(j) /\ UNCHANGED <<processVars, execVars, remote>>

CancelRead(j) ==
  j \in CancelJobs /\ cancelRead(j) /\ UNCHANGED <<processVars, execVars, remote>>

CancelQueued(j) == cancelQueued(j) /\ UNCHANGED <<processVars, execVars, remote>>

CancelFlag(j) ==
  j \in CancelJobs /\ cancelFlag(j) /\ UNCHANGED <<processVars, execVars, remote>>

-----------------------------------------------------------------------------
(* The claim loop. *)

Start(w) ==
  /\ mode[w] = "new"
  /\ mode' = [mode EXCEPT ![w] = "up"]
  /\ UNCHANGED <<storeVars, claimed, pending, reapList, execVars, remote>>

(* Mutant: one slot too many. *)
BeginClaimOffByOne(w) ==
  /\ mode[w] = "up"
  /\ rowLock[w] = NoJob
  /\ claimed[w] = NoJob
  /\ Cardinality(Active(w)) <= Concurrency
  /\ lockOldest(w)
  /\ UNCHANGED <<processVars, execVars, remote>>

(* `while (!this.#stopping)` with a free slot; one claim at a time. *)
BeginClaim(w) ==
  /\ mode[w] = "up"
  /\ rowLock[w] = NoJob
  /\ claimed[w] = NoJob
  /\ Cardinality(Active(w)) < Concurrency
  /\ lockOldest(w)
  /\ UNCHANGED <<processVars, execVars, remote>>

CommitClaim(w, j) ==
  /\ Running(w)
  /\ commitClaim(w, j)
  /\ claimed' = [claimed EXCEPT ![w] = j]
  /\ UNCHANGED <<mode, pending, reapList, execVars, remote>>

(* claimNextJob throws and the loop goes on.  Either nothing was committed, or the
   claim was and its answer is lost: then the row names a worker that will never
   launch the job, nor send a heartbeat for it. *)
ClaimFails(w, j) ==
  /\ Running(w)
  /\ j \in FaultyJobs
  /\ commitClaim(w, j) \/ rollbackClaim(w, j)
  /\ UNCHANGED <<processVars, execVars, remote>>

(* The loop does not look at #stopping again before it launches. *)
Launch(w, j) ==
  /\ Running(w)
  /\ claimed[w] = j
  /\ claimed' = [claimed EXCEPT ![w] = NoJob]
  /\ pc' = [pc EXCEPT ![w][j] = "setup"]
  /\ aborted' = [aborted EXCEPT ![w][j] = FALSE]
  /\ byUser' = [byUser EXCEPT ![w][j] = FALSE]
  /\ UNCHANGED <<storeVars, mode, pending, reapList, outcome, remote>>

-----------------------------------------------------------------------------
(* Inside runner.run. *)

Goto(w, j, step) == pc' = [pc EXCEPT ![w][j] = step]

(* #execute is over: its controller, its flag and its outcome go with it. *)
Settles(w, j) ==
  /\ Goto(w, j, "idle")
  /\ aborted' = [aborted EXCEPT ![w][j] = FALSE]
  /\ byUser' = [byUser EXCEPT ![w][j] = FALSE]
  /\ outcome' = [outcome EXCEPT ![w][j] = Failure]

Returns(w, j, out) ==
  /\ Goto(w, j, "returned")
  /\ outcome' = [outcome EXCEPT ![w][j] = out]
  /\ UNCHANGED <<aborted, byUser>>

UnchangedButRow == UNCHANGED <<owner, cancelRequested, fresh, rowLock, sawQueued>>

(* ctx.markRunning ignores a refused transition. *)
MarkRunning(w, j) ==
  /\ pc[w][j] = "setup"
  /\ moveJob(j, "running")
  /\ UnchangedButRow
  /\ Goto(w, j, "working")
  /\ UNCHANGED <<processVars, aborted, byUser, outcome, remote>>

(* `return fail(...)`, from any point before the push went through; a push
   whose answer is lost is a PushError too and leaves the branch behind. *)
RunnerFails(w, j) ==
  /\ \/ pc[w][j] \in {"setup", "working"} /\ UNCHANGED remote
     \/ pc[w][j] = "publishing" /\ \/ UNCHANGED remote
                                   \/ remote' = [remote EXCEPT ![j] = "branch"]
  /\ Returns(w, j, Failure)
  /\ UNCHANGED <<storeVars, processVars>>

(* A test run that finished, or an agent that had nothing to change. *)
RunnerSucceeds(w, j) ==
  /\ pc[w][j] = "working"
  /\ Returns(w, j, [status |-> "succeeded", prUrl |-> FALSE])
  /\ UNCHANGED <<storeVars, processVars, remote>>

(* The last throwIfAborted of a job that has changes to push. *)
PointOfNoReturn(w, j) ==
  /\ j \in CodeJobs
  /\ pc[w][j] = "working"
  /\ ~aborted[w][j]
  /\ Goto(w, j, "publishing")
  /\ UNCHANGED <<storeVars, processVars, aborted, byUser, outcome, remote>>

Push(w, j) ==
  /\ pc[w][j] = "publishing"
  /\ Goto(w, j, "pushed")
  /\ remote' = [remote EXCEPT ![j] = "branch"]
  /\ UNCHANGED <<storeVars, processVars, aborted, byUser, outcome>>

OpenPullRequest(w, j) ==
  /\ pc[w][j] = "pushed"
  /\ remote' = [remote EXCEPT ![j] = "pr"]
  /\ \E s \in {"succeeded", "partial"} : Returns(w, j, [status |-> s, prUrl |-> TRUE])
  /\ UNCHANGED <<storeVars, processVars>>

(* An AbortedError, a GitHub error, a git process that could not be started
   after the push, a pull request opened whose answer is lost. *)
RunnerThrows(w, j) ==
  /\ pc[w][j] \in InRunner
  /\ \/ UNCHANGED remote
     \/ pc[w][j] = "publishing" /\ remote' = [remote EXCEPT ![j] = "branch"]
     \/ pc[w][j] = "pushed" /\ remote' = [remote EXCEPT ![j] = "pr"]
  /\ Goto(w, j, "catching")
  /\ UNCHANGED <<storeVars, processVars, aborted, byUser, outcome>>

-----------------------------------------------------------------------------
(* #execute after the runner returned. *)

CheckAborted(w, j) ==
  /\ pc[w][j] = "returned"
  /\ Goto(w, j, IF aborted[w][j] THEN "catching" ELSE "marking")
  /\ UNCHANGED <<storeVars, processVars, aborted, byUser, outcome, remote>>

(* Mutant: without the `running` transition that a runner failing during setup needs. *)
RecordWithoutMarking(w, j) ==
  /\ \/ pc[w][j] = "marking" /\ UNCHANGED <<status, log, error, prUrl>>
     \/ pc[w][j] = "finalizing" /\ moveJob(j, "finalizing")
     \/ /\ pc[w][j] = "finishing"
        /\ transitionJob(j, outcome[w][j].status, error[j], outcome[w][j].prUrl)
  /\ UnchangedButRow

(* Mutant: the last patch leaves prUrl out. *)
RecordWithoutUrl(w, j) ==
  /\ \/ pc[w][j] = "marking" /\ moveJob(j, "running")
     \/ pc[w][j] = "finalizing" /\ moveJob(j, "finalizing")
     \/ pc[w][j] = "finishing" /\ moveJob(j, outcome[w][j].status)
  /\ UnchangedButRow

(* The statement each recording step sends to the database. *)
Record(w, j) ==
  /\ \/ pc[w][j] = "marking" /\ moveJob(j, "running")
     \/ pc[w][j] = "finalizing" /\ moveJob(j, "finalizing")
     \/ /\ pc[w][j] = "finishing"
        /\ transitionJob(j, outcome[w][j].status,
                         IF outcome[w][j].status = "failed" THEN "error" ELSE error[j],
                         outcome[w][j].prUrl)
  /\ UnchangedButRow

(* The result of the first transition is ignored, a refused second one skips
   the result, and after the third the execution is over whatever it returned. *)
RecordOutcome(w, j) ==
  /\ Record(w, j)
  /\ \/ /\ pc[w][j] = "marking"
        /\ Goto(w, j, "finalizing")
        /\ UNCHANGED <<aborted, byUser, outcome>>
     \/ /\ pc[w][j] = "finalizing"
        /\ transitionAllowed(j, "finalizing")
        /\ Goto(w, j, "finishing")
        /\ UNCHANGED <<aborted, byUser, outcome>>
     \/ /\ pc[w][j] = "finalizing"
        /\ ~transitionAllowed(j, "finalizing")
        /\ Settles(w, j)
     \/ /\ pc[w][j] = "finishing"
        /\ Settles(w, j)
  /\ UNCHANGED <<processVars, remote>>

(* A statement throws: it was not applied, or it was and the answer is lost. *)
RecordFails(w, j) ==
  /\ j \in FaultyJobs
  /\ pc[w][j] \in {"marking", "finalizing", "finishing"}
  /\ Record(w, j) \/ UNCHANGED storeVars
  /\ Goto(w, j, "catching")
  /\ UNCHANGED <<processVars, aborted, byUser, outcome, remote>>

(* Mutant: the entry of #active is not deleted after an error. *)
CatchKeepsSlot(w, j) ==
  /\ pc[w][j] = "catching"
  /\ transitionJob(j, "failed", "error", prUrl[j])
  /\ UnchangedButRow
  /\ UNCHANGED <<processVars, execVars, remote>>

(* The statement of the catch block. *)
RecordError(w, j) ==
  /\ pc[w][j] = "catching"
  /\ CASE aborted[w][j] /\ byUser[w][j] ->
            transitionJob(j, "cancelled", "cancelled_by_user", prUrl[j])
       [] aborted[w][j] /\ ~byUser[w][j] ->
            transitionJob(j, "failed", "shutting_down", prUrl[j])
       [] OTHER -> transitionJob(j, "failed", "error", prUrl[j])
  /\ UnchangedButRow

CatchError(w, j) ==
  /\ RecordError(w, j)
  /\ Settles(w, j)
  /\ UNCHANGED <<processVars, remote>>

(* That statement throws, applied or not.  stop() takes the rejection of a job of
   its snapshot with its allSettled, and the execution is over; any other rejection
   is handled by no one and ends the process (see Crash). *)
CatchFails(w, j) ==
  /\ j \in FaultyJobs \cap pending[w]
  /\ pc[w][j] = "catching"
  /\ RecordError(w, j) \/ UNCHANGED storeVars
  /\ Settles(w, j)
  /\ UNCHANGED <<processVars, remote>>

(* cancel_requested_at is never reset, so reading it and aborting is one step. *)
PollCancel(w, j) ==
  /\ pc[w][j] # "idle"
  /\ cancelRequested[j]
  /\ byUser' = [byUser EXCEPT ![w][j] = TRUE]
  /\ aborted' = [aborted EXCEPT ![w][j] = TRUE]
  /\ UNCHANGED <<storeVars, processVars, pc, outcome, remote>>

-----------------------------------------------------------------------------
(* Heartbeats and the reaper: timers of a worker that is not stopping. *)

Heartbeat(w) ==
  /\ mode[w] = "up"
  /\ heartbeatJobs(Active(w))
  /\ UNCHANGED <<processVars, execVars, remote>>

(* staleAfterMs passed without a heartbeat.  This does not happen to a job that
   a worker has in hand whose heartbeat timer is on and whose heartbeats get through. *)
Lapse(j) ==
  /\ status[j] \in ACTIVE_STATUSES
  /\ fresh[j]
  /\ \A w \in Workers \ Flaky : mode[w] = "up" => ~Holds(w, j)
  /\ fresh' = [fresh EXCEPT ![j] = FALSE]
  /\ UNCHANGED <<status, owner, cancelRequested, error, prUrl, log, rowLock, sawQueued,
                 processVars, execVars, remote>>

ReapSelect(w) ==
  /\ mode[w] = "up"
  /\ StaleJobs # {}
  /\ reapList' = [reapList EXCEPT ![w] = @ \cup StaleJobs]
  /\ UNCHANGED <<storeVars, mode, claimed, pending, execVars, remote>>

(* stop() clears the timer, not a reap that is under way. *)
ReapOne(w, j) ==
  /\ Running(w)
  /\ j \in reapList[w]
  /\ reapJob(j)
  /\ reapList' = [reapList EXCEPT ![w] = @ \ {j}]
  /\ UNCHANGED <<mode, claimed, pending, execVars, remote>>

-----------------------------------------------------------------------------
(* Stop, exit and crash. *)

Stop(w) ==
  /\ mode[w] = "up"
  /\ mode' = [mode EXCEPT ![w] = "stopping"]
  /\ pending' = [pending EXCEPT ![w] = Active(w)]
  /\ UNCHANGED <<storeVars, claimed, reapList, execVars, remote>>

(* graceMs is over: abort the snapshot, not what was launched after it. *)
GraceExpires(w) ==
  /\ mode[w] = "stopping"
  /\ \E j \in pending[w] \cap Active(w) : ~aborted[w][j]
  /\ aborted' = [aborted EXCEPT ![w] =
                   [j \in Jobs |-> @[j] \/ j \in pending[w] \cap Active(w)]]
  /\ UNCHANGED <<storeVars, processVars, pc, byUser, outcome, remote>>

(* The memory of the process is gone, its open claim rolled back. *)
Dies(w) ==
  /\ mode' = [mode EXCEPT ![w] = "down"]
  /\ rowLock' = [rowLock EXCEPT ![w] = NoJob]
  /\ claimed' = [claimed EXCEPT ![w] = NoJob]
  /\ pending' = [pending EXCEPT ![w] = {}]
  /\ reapList' = [reapList EXCEPT ![w] = {}]
  /\ pc' = [pc EXCEPT ![w] = [j \in Jobs |-> "idle"]]
  /\ aborted' = [aborted EXCEPT ![w] = [j \in Jobs |-> FALSE]]
  /\ byUser' = [byUser EXCEPT ![w] = [j \in Jobs |-> FALSE]]
  /\ outcome' = [outcome EXCEPT ![w] = [j \in Jobs |-> Failure]]
  /\ UNCHANGED <<rowVars, sawQueued, remote>>

(* stop() resolved: every job of its snapshot settled; then process.exit(0). *)
Exit(w) ==
  /\ mode[w] = "stopping"
  /\ pending[w] \cap Active(w) = {}
  /\ Dies(w)

Crash(w) == Running(w) /\ Dies(w)

-----------------------------------------------------------------------------
Api(j) == CreateJob(j) \/ CancelRead(j) \/ CancelQueued(j) \/ CancelFlag(j)

Runner(w, j) ==
  \/ MarkRunning(w, j)
  \/ RunnerFails(w, j)
  \/ RunnerSucceeds(w, j)
  \/ PointOfNoReturn(w, j)
  \/ Push(w, j)
  \/ OpenPullRequest(w, j)
  \/ RunnerThrows(w, j)

Execute(w, j) ==
  \/ Runner(w, j)
  \/ CheckAborted(w, j)
  \/ RecordOutcome(w, j)
  \/ RecordFails(w, j)
  \/ CatchError(w, j)
  \/ CatchFails(w, j)

Process(w) ==
  \/ Start(w)
  \/ BeginClaim(w)
  \/ Heartbeat(w)
  \/ ReapSelect(w)
  \/ Stop(w)
  \/ GraceExpires(w)
  \/ Exit(w)
  \/ Crash(w)

Next ==
  \/ \E j \in Jobs : Api(j) \/ Lapse(j)
  \/ \E w \in Workers : Process(w)
  \/ \E w \in Workers, j \in Jobs :
       \/ CommitClaim(w, j)
       \/ ClaimFails(w, j)
       \/ Launch(w, j)
       \/ Execute(w, j)
       \/ PollCancel(w, j)
       \/ ReapOne(w, j)

Spec == Init /\ [][Next]_vars

(***************************************************************************)
(* The event loop of a process that is alive runs what is ready: the claim *)
(* loop, each execution (a runner ends because its deadline, its command   *)
(* timeouts and its abort signal end it) and the timers.  Time passes, so  *)
(* an unrefreshed heartbeat gets stale.  A claim may fail, or commit and   *)
(* lose its answer, but not every time.  Nothing makes a user act, a       *)
(* process start, stop or crash.                                           *)
(***************************************************************************)
Fairness ==
  /\ \A j \in Jobs : WF_vars(Lapse(j))
  /\ \A w \in Workers :
       /\ WF_vars(BeginClaim(w))
       /\ SF_vars(\E j \in Jobs : CommitClaim(w, j))
       /\ WF_vars(\E j \in Jobs : Launch(w, j))
       /\ WF_vars(ReapSelect(w) \/ \E j \in Jobs : ReapOne(w, j))
  /\ \A w \in Workers, j \in Jobs : WF_vars(Execute(w, j))

FairSpec == Spec /\ Fairness

-----------------------------------------------------------------------------
(* What the pool must keep. *)

(* However many workers poll, crash and restart, a job is in the hands of at
   most one of them (claimNextJob's FOR UPDATE SKIP LOCKED and its comment). *)
OneExecutor ==
  \A j \in Jobs : \A v, w \in Workers : Holds(v, j) /\ Holds(w, j) => v = w

(* An execution that ends in a live process leaves its job terminal, whatever
   the reaper, a cancel or the runner did meanwhile.  Two exceptions wait for the
   reaper: the job was cancelled and a statement failed after `finalizing`, which
   refuses `cancelled`; or the process is stopping and a statement failed in the
   catch block itself, whose rejection stop() swallows. *)
LeftToTheReaper(w, j) ==
  /\ status'[j] \in ACTIVE_STATUSES
  /\ \/ status'[j] = "finalizing" /\ byUser[w][j]
     \/ mode[w] = "stopping" /\ pc[w][j] = "catching" /\ j \in FaultyJobs

SettledIsTerminal ==
  [][\A w \in Workers, j \in Jobs :
       pc[w][j] # "idle" /\ pc'[w][j] = "idle" /\ mode'[w] # "down"
         => isTerminal(status'[j]) \/ LeftToTheReaper(w, j)]_vars

(* A job reported succeeded or partial carries a pull request URL exactly when
   its run opened one; no failure of a push or of an answer gets in between. *)
ResultMatchesGitHub ==
  \A j \in Jobs : status[j] \in {"succeeded", "partial"} => (prUrl[j] <=> remote[j] = "pr")

(* Once a job is terminal its row says the same for ever: an execution that was
   reaped or cancelled under its worker cannot overwrite status, error or URL. *)
LateResultsDropped ==
  [][\A j \in Jobs : isTerminal(status[j]) =>
       status'[j] = status[j] /\ error'[j] = error[j] /\ prUrl'[j] = prUrl[j]]_vars

(* The claims a worker knows it has committed never exceed its slots. *)
InHand(w) == {j \in Jobs : Holds(w, j)}

SlotsBound == \A w \in Workers : Cardinality(InHand(w)) <= Concurrency

(* The reaper fails no job that a worker still has in hand whose heartbeat timer
   is on and whose heartbeats get through: reaping is only for lost workers. *)
NoFalseReap ==
  \A j \in Jobs : error[j] = "worker_lost" =>
    \A w \in Workers \ Flaky : mode[w] = "up" => ~Holds(w, j)

(* If some worker stays up, a job that was claimed reaches a terminal status,
   even if its own worker crashed, or exited with it, at the worst moment, or
   never learnt that it had claimed it. *)
SomeWorkerStays == \E w \in Workers : <>[](mode[w] = "up")

ClaimedJobsEnd ==
  SomeWorkerStays =>
    \A j \in Jobs : status[j] \in ACTIVE_STATUSES ~> isTerminal(status[j])

(* If some worker stays up, no job waits in the queue for ever. *)
QueuedJobsStart ==
  SomeWorkerStays => \A j \in Jobs : status[j] = "queued" ~> status[j] # "queued"

(* The pool implements the lifecycle: rows, owners and events read alike. *)
Lifecycle == INSTANCE JobLifecycle

LifecycleSpec == Lifecycle!Spec

(* The notifier reads job_events and never the history of the row: what it can
   post about a job is a walk of the state machine that ends where the row is. *)
EventsTellHistory == Lifecycle!EventsTellHistory

-----------------------------------------------------------------------------
(* Why the safety properties hold: the inductive invariant. *)

(* An open claim belongs to a live worker and pins a queued row no one else pins. *)
LockInv ==
  \A v \in Workers : rowLock[v] # NoJob =>
    /\ Running(v)
    /\ status[rowLock[v]] = "queued"
    /\ \A w \in Workers : rowLock[w] = rowLock[v] => v = w

(* A job before its claim has left no trace outside its row. *)
Unclaimed(j) == status[j] \in {Absent, "queued"}

UnclaimedInv ==
  \A j \in Jobs : Unclaimed(j) =>
    /\ owner[j] = NoWorker
    /\ error[j] = "none"
    /\ ~prUrl[j]
    /\ remote[j] = "none"
    /\ \A w \in Workers : j \notin reapList[w]

(* A job in hand names its worker, and a job is launched only once. *)
HoldInv ==
  \A w \in Workers, j \in Jobs :
    /\ Holds(w, j) => owner[j] = w /\ Running(w) /\ ~Unclaimed(j)
    /\ claimed[w] = j => pc[w][j] = "idle"

(* The slot is reserved by the order of the loop: while a claim is open there is
   no other and one slot is free.  (Of Jobs, which may be infinite, a worker has
   finitely many in hand.) *)
SlotsInv ==
  \A w \in Workers :
    /\ IsFiniteSet(InHand(w))
    /\ Cardinality(InHand(w)) <= Concurrency
    /\ rowLock[w] # NoJob => claimed[w] = NoJob /\ Cardinality(InHand(w)) < Concurrency

(* The statuses a job can have while its execution stands at a step. *)
PhaseOK(w, j) ==
  /\ claimed[w] = j => status[j] \in {"preparing", "failed", "cancelled"}
  /\ pc[w][j] \in InRunner \cup {"returned", "marking"} =>
       status[j] \in {"preparing", "running", "failed", "cancelled"}
  /\ pc[w][j] = "finalizing" => status[j] \in {"running", "failed", "cancelled"}
  /\ pc[w][j] = "finishing" => status[j] \in {"finalizing", "failed"}

PhaseInv == \A w \in Workers, j \in Jobs : PhaseOK(w, j)

(* What an execution knows of GitHub is what is there. *)
KnowsRemote(w, j) ==
  /\ claimed[w] = j \/ pc[w][j] \in {"setup", "working", "publishing"} => remote[j] = "none"
  /\ pc[w][j] = "pushed" => remote[j] = "branch"
  /\ pc[w][j] \in {"returned", "marking", "finalizing", "finishing"} =>
       /\ outcome[w][j].prUrl <=> remote[j] = "pr"
       /\ outcome[w][j].prUrl => outcome[w][j].status # "failed"

RemoteInv == \A w \in Workers, j \in Jobs : KnowsRemote(w, j)

(* Only the last transition of an execution writes a URL. *)
UrlOK(j) ==
  /\ prUrl[j] => status[j] \in {"succeeded", "partial"}
  /\ status[j] \in {"succeeded", "partial"} => (prUrl[j] <=> remote[j] = "pr")

UrlInv == \A j \in Jobs : UrlOK(j)

(* Only a stop() that is under way has a snapshot. *)
StopInv == \A w \in Workers : pending[w] # {} => mode[w] = "stopping"

(* Only jobs that no reliable heartbeat protects look stale. *)
Endangered(j) ==
  \/ ~fresh[j]
  \/ error[j] = "worker_lost"
  \/ \E v \in Workers : j \in reapList[v]

StaleInv ==
  \A j \in Jobs : Endangered(j) =>
    \A w \in Workers \ Flaky : mode[w] = "up" => ~Holds(w, j)

IInv ==
  /\ TypeOK
  /\ LockInv
  /\ UnclaimedInv
  /\ HoldInv
  /\ PhaseInv
  /\ RemoteInv
  /\ UrlInv
  /\ StaleInv

-----------------------------------------------------------------------------
(* What comments and tests of the repository say and the code does not keep. *)

(* "Queued jobs are cancelled immediately; running ones are flagged for the
   worker to stop." (packages/db/src/queries.ts, requestCancel): a job cancelled
   while a worker has it in hand carries the flag that worker polls. *)
CancelledRunIsFlagged ==
  \A w \in Workers, j \in Jobs :
    status[j] = "cancelled" /\ Holds(w, j) => cancelRequested[j]
=============================================================================
