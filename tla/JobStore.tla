------------------------------ MODULE JobStore ------------------------------
(***************************************************************************)
(* The jobs table and its queries (packages/db/src/queries.ts), with the   *)
(* cancel requests the API runs against it.  Every action and operator is  *)
(* one SQL transaction, except a claim, which holds a row lock between its *)
(* SELECT ... FOR UPDATE SKIP LOCKED and its commit, and requestCancel and *)
(* reapStaleJobs, which run several statements and act on what an earlier  *)
(* one read.                                                               *)
(***************************************************************************)
EXTENDS JobStates

CONSTANTS
  Jobs,       (* a job is named by the rank of its created_at *)
  Workers,    (* worker processes; a restarted process is a new one *)
  NoJob, NoWorker

ASSUME StoreAssumption ==
  /\ Jobs \subseteq Nat
  /\ NoJob \notin Jobs
  /\ NoWorker \notin Workers

VARIABLES
  status,           (* jobs.status, Absent before the insert *)
  owner,            (* jobs.worker_id *)
  cancelRequested,  (* jobs.cancel_requested_at is not null *)
  fresh,            (* jobs.heartbeat_at is not before now - staleAfterMs *)
  error,            (* jobs.error, by its kind *)
  prUrl,            (* jobs.pr_url is not null *)
  log,              (* job_events of the job, as statuses *)
  rowLock,          (* the row a worker's open claim transaction has locked *)
  sawQueued         (* a requestCancel call has read the row as queued *)

rowVars == <<status, owner, cancelRequested, fresh, error, prUrl, log>>
storeVars == <<status, owner, cancelRequested, fresh, error, prUrl, log,
               rowLock, sawQueued>>

Errors == {"none", "worker_lost", "cancelled_by_user", "shutting_down", "error"}

StoreTypeOK ==
  /\ status \in [Jobs -> JOB_STATUSES \cup {Absent}]
  /\ owner \in [Jobs -> Workers \cup {NoWorker}]
  /\ cancelRequested \in [Jobs -> BOOLEAN]
  /\ fresh \in [Jobs -> BOOLEAN]
  /\ error \in [Jobs -> Errors]
  /\ prUrl \in [Jobs -> BOOLEAN]
  /\ log \in [Jobs -> Seq(JOB_STATUSES)]
  /\ rowLock \in [Workers -> Jobs \cup {NoJob}]
  /\ sawQueued \in [Jobs -> BOOLEAN]

StoreInit ==
  /\ status = [j \in Jobs |-> Absent]
  /\ owner = [j \in Jobs |-> NoWorker]
  /\ cancelRequested = [j \in Jobs |-> FALSE]
  /\ fresh = [j \in Jobs |-> TRUE]
  /\ error = [j \in Jobs |-> "none"]
  /\ prUrl = [j \in Jobs |-> FALSE]
  /\ log = [j \in Jobs |-> <<>>]
  /\ rowLock = [w \in Workers |-> NoJob]
  /\ sawQueued = [j \in Jobs |-> FALSE]

Locked(j) == \E w \in Workers : rowLock[w] = j

(***************************************************************************)
(* transitionJob: the UPDATE touches the row only if its current status is *)
(* a source of `to`, and the event is inserted with it.                    *)
(***************************************************************************)
transitionAllowed(j, to) == status[j] \in sourcesFor(to)

(* Mutant: the patch is written by a statement of its own, before the guarded one. *)
transitionPatchFirst(j, to, err, url) ==
  /\ error' = [error EXCEPT ![j] = err]
  /\ prUrl' = [prUrl EXCEPT ![j] = url]
  /\ IF transitionAllowed(j, to)
     THEN /\ status' = [status EXCEPT ![j] = to]
          /\ log' = [log EXCEPT ![j] = Append(@, to)]
     ELSE UNCHANGED <<status, log>>

transitionJob(j, to, err, url) ==
  IF transitionAllowed(j, to)
  THEN /\ status' = [status EXCEPT ![j] = to]
       /\ log' = [log EXCEPT ![j] = Append(@, to)]
       /\ error' = [error EXCEPT ![j] = err]
       /\ prUrl' = [prUrl EXCEPT ![j] = url]
  ELSE UNCHANGED <<status, log, error, prUrl>>

(* A transition without an `error` or `prUrl` in its patch keeps both. *)
moveJob(j, to) == transitionJob(j, to, error[j], prUrl[j])

createJob(j) ==
  /\ status[j] = Absent
  /\ status' = [status EXCEPT ![j] = "queued"]
  /\ log' = [log EXCEPT ![j] = <<"queued">>]
  /\ UNCHANGED <<owner, cancelRequested, fresh, error, prUrl, rowLock, sawQueued>>

(***************************************************************************)
(* claimNextJob, first half: lock the oldest queued row that no other      *)
(* claim has locked.                                                       *)
(***************************************************************************)
Claimable == {j \in Jobs : status[j] = "queued" /\ ~Locked(j)}

(* Mutant: a plain SELECT, which takes no lock and sees rows other claims work on. *)
selectOldest(w) ==
  \E j \in Jobs :
    /\ status[j] = "queued"
    /\ \A k \in Jobs : status[k] = "queued" => j <= k
    /\ rowLock' = [rowLock EXCEPT ![w] = j]
    /\ UNCHANGED <<status, owner, cancelRequested, fresh, error, prUrl, log, sawQueued>>

lockOldest(w) ==
  \E j \in Claimable :
    /\ \A k \in Claimable : j <= k
    /\ rowLock' = [rowLock EXCEPT ![w] = j]
    /\ UNCHANGED <<status, owner, cancelRequested, fresh, error, prUrl, log, sawQueued>>

(* Mutant: the claim without its event. *)
commitClaimSilently(w, j) ==
  /\ rowLock[w] = j
  /\ status' = [status EXCEPT ![j] = "preparing"]
  /\ owner' = [owner EXCEPT ![j] = w]
  /\ fresh' = [fresh EXCEPT ![j] = TRUE]
  /\ rowLock' = [rowLock EXCEPT ![w] = NoJob]
  /\ UNCHANGED <<cancelRequested, error, prUrl, log, sawQueued>>

(* claimNextJob, second half: update the locked row, insert the event, commit. *)
commitClaim(w, j) ==
  /\ rowLock[w] = j
  /\ status' = [status EXCEPT ![j] = "preparing"]
  /\ owner' = [owner EXCEPT ![j] = w]
  /\ fresh' = [fresh EXCEPT ![j] = TRUE]
  /\ log' = [log EXCEPT ![j] = Append(@, "preparing")]
  /\ rowLock' = [rowLock EXCEPT ![w] = NoJob]
  /\ UNCHANGED <<cancelRequested, error, prUrl, sawQueued>>

(* A claim's transaction that fails before its commit lets go of the row. *)
rollbackClaim(w, j) ==
  /\ rowLock[w] = j
  /\ rowLock' = [rowLock EXCEPT ![w] = NoJob]
  /\ UNCHANGED <<status, owner, cancelRequested, fresh, error, prUrl, log, sawQueued>>

(* heartbeatJobs looks at no status and is one statement for all the ids. *)
heartbeatJobs(js) ==
  /\ fresh' = [j \in Jobs |-> fresh[j] \/ j \in js]
  /\ UNCHANGED <<status, owner, cancelRequested, error, prUrl, log, rowLock, sawQueued>>

(* Mutant: the reaper forgets that a job can die while finalizing. *)
StaleBeforeFinalizing == {j \in Jobs : status[j] \in {"preparing", "running"} /\ ~fresh[j]}

(* Mutant: the reaper forgets to compare heartbeat_at. *)
EveryActiveJob == {j \in Jobs : status[j] \in ACTIVE_STATUSES}

(* The rows the reaper's SELECT returns. *)
StaleJobs == {j \in Jobs : status[j] \in ACTIVE_STATUSES /\ ~fresh[j]}

(* reapStaleJobs fails a job it selected earlier without looking at heartbeat_at again. *)
reapJob(j) ==
  /\ transitionJob(j, "failed", "worker_lost", prUrl[j])
  /\ UNCHANGED <<owner, cancelRequested, fresh, rowLock, sawQueued>>

(***************************************************************************)
(* requestCancel reads the row, and what it read decides which statement   *)
(* comes next.  After a row that was not queued comes the flagging UPDATE; *)
(* its effect depends on the status it finds, so read and UPDATE are one   *)
(* step.  After a queued row comes a transition to cancelled, later: a     *)
(* worker may claim the row, mark it running or finish it in between, and  *)
(* an UPDATE of a row locked by a claim waits for the commit.  If that     *)
(* transition is refused the flagging UPDATE follows, in the same step: a  *)
(* row that refuses `cancelled` never becomes preparing or running again.  *)
(* A request that dies after its read is one that is very slow.            *)
(***************************************************************************)
Flagged(j) == cancelRequested[j] \/ status[j] \in {"preparing", "running"}

cancelRead(j) ==
  /\ ~sawQueued[j]
  /\ status[j] = "queued"
  /\ sawQueued' = [sawQueued EXCEPT ![j] = TRUE]
  /\ UNCHANGED <<status, owner, cancelRequested, fresh, error, prUrl, log, rowLock>>

cancelQueued(j) ==
  /\ sawQueued[j]
  /\ ~Locked(j)
  /\ moveJob(j, "cancelled")
  /\ cancelRequested' = [cancelRequested EXCEPT
                           ![j] = IF transitionAllowed(j, "cancelled") THEN @ ELSE Flagged(j)]
  /\ sawQueued' = [sawQueued EXCEPT ![j] = FALSE]
  /\ UNCHANGED <<owner, fresh, rowLock>>

cancelFlag(j) ==
  /\ status[j] \notin {Absent, "queued"}
  /\ cancelRequested' = [cancelRequested EXCEPT ![j] = Flagged(j)]
  /\ UNCHANGED <<status, owner, fresh, error, prUrl, log, rowLock, sawQueued>>
=============================================================================
