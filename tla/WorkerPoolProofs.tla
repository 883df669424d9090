--------------------------- MODULE WorkerPoolProofs ---------------------------
(***************************************************************************)
(* Proofs about WorkerPool, for any number of jobs and workers, any        *)
(* concurrency, with or without outages and database faults.               *)
(***************************************************************************)
EXTENDS WorkerPool, FiniteSetTheorems, TLAPS

(* transitionJob keeps the types of the columns it writes. *)
LEMMA TransitionTypes ==
  ASSUME StoreTypeOK, NEW j \in Jobs, NEW to \in JOB_STATUSES,
         NEW err \in Errors, NEW url \in BOOLEAN,
         transitionJob(j, to, err, url)
  PROVE  /\ status' \in [Jobs -> JOB_STATUSES \cup {Absent}]
         /\ log' \in [Jobs -> Seq(JOB_STATUSES)]
         /\ error' \in [Jobs -> Errors]
         /\ prUrl' \in [Jobs -> BOOLEAN]
<1>1. CASE transitionAllowed(j, to)
  <2>1. Append(log[j], to) \in Seq(JOB_STATUSES)
    BY DEF StoreTypeOK
  <2>2. QED
    BY <1>1, <2>1 DEF StoreTypeOK, transitionJob
<1>2. CASE ~transitionAllowed(j, to)
  BY <1>2 DEF StoreTypeOK, transitionJob
<1>3. QED
  BY <1>1, <1>2

(* Every step keeps the types. *)
LEMMA TypingStep == TypeOK /\ [Next]_vars => TypeOK'
<1> SUFFICES ASSUME TypeOK, [Next]_vars PROVE TypeOK'
  OBVIOUS
<1> USE DEF TypeOK, execVars, processVars
<1>s. /\ "queued" \in JOB_STATUSES /\ "preparing" \in JOB_STATUSES
      /\ "running" \in JOB_STATUSES /\ "finalizing" \in JOB_STATUSES
      /\ "cancelled" \in JOB_STATUSES /\ "failed" \in JOB_STATUSES
      /\ "succeeded" \in JOB_STATUSES /\ "partial" \in JOB_STATUSES
  BY DEF JOB_STATUSES, ACTIVE_STATUSES, TERMINAL_STATUSES
<1>1. ASSUME NEW j \in Jobs, Api(j) PROVE TypeOK'
  <2>1. CASE CreateJob(j)
    <3>1. <<"queued">> \in Seq(JOB_STATUSES)
      BY <1>s
    <3>2. QED
      BY <2>1, <3>1, <1>s DEF CreateJob, createJob, StoreTypeOK
  <2>2. CASE CancelRead(j)
    BY <2>2 DEF CancelRead, cancelRead, StoreTypeOK
  <2>3. CASE CancelQueued(j)
    <3>1. transitionJob(j, "cancelled", error[j], prUrl[j])
      BY <2>3 DEF CancelQueued, cancelQueued, moveJob
    <3>2. error[j] \in Errors /\ prUrl[j] \in BOOLEAN
      BY DEF StoreTypeOK
    <3>3. QED
      BY <2>3, <3>1, <3>2, <1>s, TransitionTypes
      DEF CancelQueued, cancelQueued, StoreTypeOK, Flagged
  <2>4. CASE CancelFlag(j)
    BY <2>4 DEF CancelFlag, cancelFlag, StoreTypeOK, Flagged
  <2>5. QED
    BY <1>1, <2>1, <2>2, <2>3, <2>4 DEF Api
<1>2. ASSUME NEW j \in Jobs, Lapse(j) PROVE TypeOK'
  BY <1>2 DEF Lapse, StoreTypeOK
<1>3. ASSUME NEW w \in Workers, Process(w) PROVE TypeOK'
  <2>1. CASE Start(w)
    BY <2>1 DEF Start, storeVars, StoreTypeOK, Modes
  <2>2. CASE BeginClaim(w)
    BY <2>2 DEF BeginClaim, lockOldest, Claimable, StoreTypeOK
  <2>3. CASE Heartbeat(w)
    BY <2>3 DEF Heartbeat, heartbeatJobs, StoreTypeOK
  <2>4. CASE ReapSelect(w)
    BY <2>4 DEF ReapSelect, StaleJobs, storeVars, StoreTypeOK
  <2>5. CASE Stop(w)
    BY <2>5 DEF Stop, Active, storeVars, StoreTypeOK, Modes
  <2>6. CASE GraceExpires(w)
    BY <2>6 DEF GraceExpires, storeVars, StoreTypeOK
  <2>7. CASE Dies(w)
    BY <2>7 DEF Dies, rowVars, StoreTypeOK, Modes, Steps, Outcomes, Failure
  <2>8. QED
    BY <1>3, <2>1, <2>2, <2>3, <2>4, <2>5, <2>6, <2>7 DEF Process, Exit, Crash
<1>4. ASSUME NEW w \in Workers, NEW j \in Jobs, CommitClaim(w, j) PROVE TypeOK'
  <2>1. Append(log[j], "preparing") \in Seq(JOB_STATUSES)
    BY <1>s DEF StoreTypeOK
  <2>2. QED
    BY <1>4, <1>s, <2>1 DEF CommitClaim, commitClaim, StoreTypeOK
<1>4a. ASSUME NEW w \in Workers, NEW j \in Jobs, ClaimFails(w, j) PROVE TypeOK'
  <2>1. Append(log[j], "preparing") \in Seq(JOB_STATUSES)
    BY <1>s DEF StoreTypeOK
  <2>2. CASE commitClaim(w, j)
    BY <1>4a, <1>s, <2>1, <2>2 DEF ClaimFails, commitClaim, StoreTypeOK
  <2>3. CASE rollbackClaim(w, j)
    BY <1>4a, <2>3 DEF ClaimFails, rollbackClaim, StoreTypeOK
  <2>4. QED
    BY <1>4a, <2>2, <2>3 DEF ClaimFails
<1>5. ASSUME NEW w \in Workers, NEW j \in Jobs, Launch(w, j) PROVE TypeOK'
  BY <1>5 DEF Launch, storeVars, StoreTypeOK, Steps, InRunner
<1>6. ASSUME NEW w \in Workers, NEW j \in Jobs, Execute(w, j) PROVE TypeOK'
  <2>a. error[j] \in Errors /\ prUrl[j] \in BOOLEAN /\ Errors = Errors
    BY DEF StoreTypeOK
  <2>b. /\ outcome[w][j] \in Outcomes
        /\ outcome[w][j].status \in JOB_STATUSES /\ outcome[w][j].prUrl \in BOOLEAN
    BY <1>s DEF Outcomes
  <2>c. {"error", "cancelled_by_user", "shutting_down"} \subseteq Errors
    BY DEF Errors
  <2>d. ASSUME Record(w, j) PROVE StoreTypeOK'
    <3>1. CASE pc[w][j] = "marking" /\ moveJob(j, "running")
      BY <2>d, <3>1, <2>a, <1>s, TransitionTypes
      DEF Record, moveJob, UnchangedButRow, StoreTypeOK
    <3>2. CASE pc[w][j] = "finalizing" /\ moveJob(j, "finalizing")
      BY <2>d, <3>2, <2>a, <1>s, TransitionTypes
      DEF Record, moveJob, UnchangedButRow, StoreTypeOK
    <3>3. ASSUME pc[w][j] = "finishing",
                 transitionJob(j, outcome[w][j].status,
                         IF outcome[w][j].status = "failed" THEN "error" ELSE error[j],
                         outcome[w][j].prUrl)
          PROVE StoreTypeOK'
      <4>1. (IF outcome[w][j].status = "failed" THEN "error" ELSE error[j]) \in Errors
        BY <2>a, <2>c
      <4>2. QED
        BY <2>d, <3>3, <4>1, <2>b, TransitionTypes
        DEF Record, UnchangedButRow, StoreTypeOK
    <3>4. QED
      BY <2>d, <3>1, <3>2, <3>3 DEF Record
  <2>1. CASE MarkRunning(w, j)
    BY <2>1, <2>a, <1>s, TransitionTypes
    DEF MarkRunning, moveJob, UnchangedButRow, Goto, StoreTypeOK, Steps, InRunner
  <2>2. CASE RunnerFails(w, j)
    BY <2>2 DEF RunnerFails, Returns, Goto, storeVars, StoreTypeOK, Steps, Outcomes, Failure
  <2>3. CASE RunnerSucceeds(w, j)
    BY <2>3 DEF RunnerSucceeds, Returns, Goto, storeVars, StoreTypeOK, Steps, Outcomes
  <2>4. CASE PointOfNoReturn(w, j)
    BY <2>4 DEF PointOfNoReturn, Goto, storeVars, StoreTypeOK, Steps, InRunner
  <2>5. CASE Push(w, j)
    BY <2>5 DEF Push, Goto, storeVars, StoreTypeOK, Steps, InRunner
  <2>6. CASE OpenPullRequest(w, j)
    BY <2>6 DEF OpenPullRequest, Returns, Goto, storeVars, StoreTypeOK, Steps, Outcomes
  <2>7. CASE RunnerThrows(w, j)
    BY <2>7 DEF RunnerThrows, Goto, storeVars, StoreTypeOK, Steps
  <2>8. CASE CheckAborted(w, j)
    BY <2>8 DEF CheckAborted, Goto, storeVars, StoreTypeOK, Steps
  <2>9. CASE RecordOutcome(w, j)
    <3>1. StoreTypeOK'
      BY <2>9, <2>d DEF RecordOutcome
    <3>2. ASSUME Settles(w, j) PROVE /\ pc' \in [Workers -> [Jobs -> Steps]]
                                     /\ aborted' \in [Workers -> [Jobs -> BOOLEAN]]
                                     /\ byUser' \in [Workers -> [Jobs -> BOOLEAN]]
                                     /\ outcome' \in [Workers -> [Jobs -> Outcomes]]
      BY <3>2 DEF Settles, Goto, Steps, Outcomes, Failure
    <3>3. ASSUME NEW step \in Steps, Goto(w, j, step), UNCHANGED <<aborted, byUser, outcome>>
          PROVE /\ pc' \in [Workers -> [Jobs -> Steps]]
                /\ aborted' \in [Workers -> [Jobs -> BOOLEAN]]
                /\ byUser' \in [Workers -> [Jobs -> BOOLEAN]]
                /\ outcome' \in [Workers -> [Jobs -> Outcomes]]
      BY <3>3 DEF Goto
    <3>4. "finalizing" \in Steps /\ "finishing" \in Steps
      BY DEF Steps
    <3>5. QED
      BY <2>9, <3>1, <3>2, <3>3, <3>4 DEF RecordOutcome
  <2>10. CASE RecordFails(w, j)
    <3>1. StoreTypeOK'
      BY <2>10, <2>d DEF RecordFails, storeVars, StoreTypeOK
    <3>2. QED
      BY <2>10, <3>1 DEF RecordFails, Goto, Steps
  <2>e. ASSUME RecordError(w, j) PROVE StoreTypeOK'
    <3>1. \E to \in JOB_STATUSES, err \in Errors : transitionJob(j, to, err, prUrl[j])
      BY <2>e, <2>c, <1>s DEF RecordError
    <3>2. QED
      BY <2>e, <3>1, <2>a, TransitionTypes DEF RecordError, UnchangedButRow, StoreTypeOK
  <2>11. CASE CatchError(w, j)
    BY <2>11, <2>e DEF CatchError, Settles, Goto, Steps, Outcomes, Failure
  <2>11a. CASE CatchFails(w, j)
    <3>1. StoreTypeOK'
      BY <2>11a, <2>e DEF CatchFails, storeVars, StoreTypeOK
    <3>2. QED
      BY <2>11a, <3>1 DEF CatchFails, Settles, Goto, Steps, Outcomes, Failure
  <2>12. QED
    BY <1>6, <2>1, <2>2, <2>3, <2>4, <2>5, <2>6, <2>7, <2>8, <2>9, <2>10, <2>11, <2>11a
    DEF Execute, Runner
<1>7. ASSUME NEW w \in Workers, NEW j \in Jobs, PollCancel(w, j) PROVE TypeOK'
  BY <1>7 DEF PollCancel, storeVars, StoreTypeOK
<1>8. ASSUME NEW w \in Workers, NEW j \in Jobs, ReapOne(w, j) PROVE TypeOK'
  <2>1. "worker_lost" \in Errors /\ prUrl[j] \in BOOLEAN
    BY DEF Errors, StoreTypeOK
  <2>2. QED
    BY <1>8, <2>1, <1>s, TransitionTypes DEF ReapOne, reapJob, StoreTypeOK
<1>9. CASE UNCHANGED vars
  BY <1>9 DEF vars, storeVars, StoreTypeOK
<1>10. QED
  BY <1>1, <1>2, <1>3, <1>4, <1>4a, <1>5, <1>6, <1>7, <1>8, <1>9 DEF Next

(* All variables keep their types in every behaviour of the pool. *)
THEOREM Typing == Spec => []TypeOK
<1>1. Init => TypeOK
  BY DEF Init, StoreInit, TypeOK, StoreTypeOK, Errors, Modes, Steps, Outcomes, Failure
<1>2. QED
  BY <1>1, TypingStep, PTL DEF Spec
-----------------------------------------------------------------------------
(* What the guarded UPDATE accepts for each target status. *)
LEMMA Sources ==
  /\ sourcesFor("running") = {"preparing"}
  /\ sourcesFor("finalizing") = {"running"}
  /\ sourcesFor("succeeded") = {"finalizing"}
  /\ sourcesFor("partial") = {"finalizing"}
  /\ sourcesFor("failed") = {"queued", "preparing", "running", "finalizing"}
  /\ sourcesFor("cancelled") = {"queued", "preparing", "running"}
BY DEF sourcesFor, canTransition, TRANSITIONS, JOB_STATUSES, ACTIVE_STATUSES, TERMINAL_STATUSES

(* What a transition does to the row it names, and that it touches no other row. *)
LEMMA TransitionEffect ==
  ASSUME StoreTypeOK, NEW j \in Jobs, NEW to, NEW err, NEW url,
         transitionJob(j, to, err, url)
  PROVE  /\ \A k \in Jobs : k # j => /\ status'[k] = status[k]
                                     /\ error'[k] = error[k]
                                     /\ prUrl'[k] = prUrl[k]
         /\ status[j] \in sourcesFor(to) =>
              status'[j] = to /\ error'[j] = err /\ prUrl'[j] = url
         /\ status[j] \notin sourcesFor(to) =>
              /\ status'[j] = status[j]
              /\ error'[j] = error[j]
              /\ prUrl'[j] = prUrl[j]
BY DEF transitionJob, transitionAllowed, StoreTypeOK

(* A cancel or a reap that moves a row under whoever works on it keeps the
   invariant: it never touches a locked row, and no execution is misled. *)
LEMMA EndedFromOutside ==
  ASSUME IInv, NEW j \in Jobs, NEW to \in {"cancelled", "failed"}, NEW err,
         transitionJob(j, to, err, prUrl[j]),
         ~Locked(j),
         err = error[j] \/ (err = "worker_lost" /\ \E v \in Workers : j \in reapList[v]),
         UNCHANGED <<owner, fresh, rowLock, mode, claimed, execVars, remote>>,
         \A v \in Workers : reapList'[v] \subseteq reapList[v]
  PROVE  /\ LockInv' /\ UnclaimedInv' /\ HoldInv' /\ PhaseInv'
         /\ RemoteInv' /\ UrlInv' /\ StaleInv'
<1> USE DEF IInv, execVars
<1>1. StoreTypeOK
  BY DEF TypeOK
<1>2. /\ \A k \in Jobs : k # j => /\ status'[k] = status[k]
                                 /\ error'[k] = error[k]
                                 /\ prUrl'[k] = prUrl[k]
      /\ \/ /\ status[j] \in {"queued", "preparing", "running", "finalizing"}
            /\ to = "cancelled" => status[j] # "finalizing"
            /\ status'[j] = to /\ error'[j] = err
         \/ status'[j] = status[j] /\ error'[j] = error[j]
      /\ prUrl'[j] = prUrl[j]
  BY <1>1, TransitionEffect, Sources
<1>3. \A k \in Jobs : Unclaimed(k)' => Unclaimed(k) /\ error'[k] = error[k] /\ prUrl'[k] = prUrl[k]
  BY <1>2 DEF Unclaimed, Absent
<1>4. \A k \in Jobs : ~Unclaimed(k) => ~Unclaimed(k)'
  BY <1>2 DEF Unclaimed, Absent
<1>5. LockInv'
  BY <1>1, <1>2 DEF LockInv, Running, Locked, StoreTypeOK
<1>6. UnclaimedInv'
  BY <1>3 DEF UnclaimedInv
<1>7. HoldInv'
  BY <1>4 DEF HoldInv, Holds, Running
<1>8. PhaseInv'
  BY <1>2 DEF PhaseInv, PhaseOK
<1>9. RemoteInv' /\ UrlInv'
  BY <1>2 DEF RemoteInv, KnowsRemote, UrlInv, UrlOK
<1>10. StaleInv'
  BY <1>2 DEF StaleInv, Endangered, Holds
<1>11. QED
  BY <1>5, <1>6, <1>7, <1>8, <1>9, <1>10

(* Requests of users keep the invariant. *)
LEMMA ApiStep ==
  ASSUME IInv, NEW j \in Jobs, Api(j), TypeOK'
  PROVE  IInv'
<1> USE DEF processVars, execVars, IInv
<1>1. CASE CreateJob(j)
  <2> USE <1>1 DEF CreateJob, createJob
  <2>a. /\ status' = [status EXCEPT ![j] = "queued"]
        /\ status[j] = Absent
        /\ status \in [Jobs -> JOB_STATUSES \cup {Absent}]
    BY DEF TypeOK, StoreTypeOK
  <2>b. \A k \in Jobs : Unclaimed(k)' <=> Unclaimed(k)
    BY <2>a DEF Unclaimed
  <2>1. LockInv'
    BY <2>a DEF LockInv, Running, TypeOK, StoreTypeOK
  <2>2. UnclaimedInv'
    BY <2>b DEF UnclaimedInv
  <2>3. HoldInv'
    BY <2>b DEF HoldInv, Holds, Running
  <2>4. PhaseInv'
    BY <2>a DEF PhaseInv, PhaseOK, HoldInv, Holds, Unclaimed, InRunner
  <2>5. RemoteInv' /\ UrlInv'
    BY <2>a DEF RemoteInv, KnowsRemote, UrlInv, UrlOK, UnclaimedInv, Unclaimed
  <2>6. StaleInv'
    BY <2>a DEF StaleInv, Endangered, Holds
  <2>7. QED
    BY <2>1, <2>2, <2>3, <2>4, <2>5, <2>6
<1>2. CASE CancelRead(j)
  BY <1>2 DEF CancelRead, cancelRead, LockInv, UnclaimedInv, HoldInv, PhaseInv, PhaseOK,
              RemoteInv, KnowsRemote, StaleInv, UrlInv, UrlOK, Unclaimed, Holds, Running,
              Endangered
<1>3. CASE CancelQueued(j)
  <2>1. /\ transitionJob(j, "cancelled", error[j], prUrl[j])
        /\ ~Locked(j)
        /\ UNCHANGED <<owner, fresh, rowLock, mode, claimed, execVars, remote, reapList>>
    BY <1>3 DEF CancelQueued, cancelQueued, moveJob
  <2>2. QED
    BY <2>1, EndedFromOutside
<1>4. CASE CancelFlag(j)
  BY <1>4 DEF CancelFlag, cancelFlag, LockInv, UnclaimedInv, HoldInv, PhaseInv, PhaseOK,
              RemoteInv, KnowsRemote, StaleInv, UrlInv, UrlOK, Unclaimed, Holds, Running,
              Endangered
<1>5. QED
  BY <1>1, <1>2, <1>3, <1>4 DEF Api

(* Starting, claiming and launching keep the invariant. *)
LEMMA ClaimStep ==
  ASSUME IInv, TypeOK', NEW w \in Workers,
         \/ Start(w)
         \/ BeginClaim(w)
         \/ \E j \in Jobs : CommitClaim(w, j) \/ ClaimFails(w, j) \/ Launch(w, j)
  PROVE  IInv'
<1> USE StoreAssumption DEF IInv, processVars, execVars
<1>1. CASE Start(w)
  <2> USE <1>1 DEF Start, storeVars
  <2>1. LockInv' /\ UnclaimedInv' /\ PhaseInv' /\ RemoteInv' /\ UrlInv'
    BY DEF LockInv, Running, UnclaimedInv, Unclaimed, PhaseInv, PhaseOK, RemoteInv, KnowsRemote, UrlInv, UrlOK,
           TypeOK
  <2>2. HoldInv'
    BY DEF HoldInv, Holds, Running, Unclaimed, TypeOK
  <2>3. StaleInv'
    <3>1. \A k \in Jobs : ~Holds(w, k)
      BY DEF HoldInv, Running
    <3>2. \A v \in Workers : mode'[v] = "up" => mode[v] = "up" \/ v = w
      BY DEF TypeOK
    <3>3. QED
      BY <3>1, <3>2 DEF StaleInv, Endangered, Holds
  <2>4. QED
    BY <2>1, <2>2, <2>3
<1>2. CASE BeginClaim(w)
  <2> USE <1>2 DEF BeginClaim, lockOldest
  <2>1. PICK j \in Claimable : rowLock' = [rowLock EXCEPT ![w] = j]
    OBVIOUS
  <2>2. LockInv'
    BY <2>1 DEF LockInv, Running, Claimable, Locked, TypeOK, StoreTypeOK
  <2>3. /\ UnclaimedInv' /\ HoldInv' /\ PhaseInv' /\ RemoteInv' /\ StaleInv'
        /\ UrlInv'
    BY DEF UnclaimedInv, Unclaimed, HoldInv, Holds, Running, PhaseInv, PhaseOK, RemoteInv, KnowsRemote, StaleInv,
           Endangered, UrlInv, UrlOK
  <2>4. QED
    BY <2>2, <2>3
<1>3. ASSUME NEW j \in Jobs, CommitClaim(w, j) PROVE IInv'
  <2> USE <1>3 DEF CommitClaim, commitClaim
  <2>0. StoreTypeOK
    BY DEF TypeOK
  <2>1. status[j] = "queued" /\ Running(w) /\ Unclaimed(j)
    BY DEF LockInv, Unclaimed
  <2>2. \A v \in Workers : ~Holds(v, j)
    BY <2>1 DEF HoldInv
  <2>3. \A k \in Jobs : Unclaimed(k)' <=> Unclaimed(k) /\ k # j
    BY <2>0 DEF Unclaimed, Absent, StoreTypeOK
  <2>4. LockInv'
    BY <2>0 DEF LockInv, Running, StoreTypeOK
  <2>5. UnclaimedInv'
    BY <2>0, <2>3 DEF UnclaimedInv, StoreTypeOK
  <2>6. HoldInv'
    <3>1. \A v \in Workers, k \in Jobs : Holds(v, k)' => Holds(v, k) \/ (v = w /\ k = j)
      BY DEF Holds, TypeOK
    <3>2. owner'[j] = w /\ \A k \in Jobs : k # j => owner'[k] = owner[k]
      BY <2>0 DEF StoreTypeOK
    <3>3. \A v \in Workers, k \in Jobs : Holds(v, k)' =>
            owner'[k] = v /\ Running(v)' /\ ~Unclaimed(k)'
      BY <2>1, <2>2, <2>3, <3>1, <3>2 DEF HoldInv, Running
    <3>4. \A v \in Workers, k \in Jobs : claimed'[v] = k => pc'[v][k] = "idle"
      BY <2>2 DEF HoldInv, Holds, TypeOK
    <3>5. QED
      BY <3>3, <3>4 DEF HoldInv
  <2>7. PhaseInv'
    BY <2>0, <2>2 DEF PhaseInv, PhaseOK, Holds, InRunner, TypeOK, StoreTypeOK
  <2>8. RemoteInv' /\ UrlInv'
    BY <2>0, <2>1, <2>2
    DEF RemoteInv, KnowsRemote, UrlInv, UrlOK, UnclaimedInv, Unclaimed, Holds, TypeOK, StoreTypeOK
  <2>9. StaleInv'
    BY <2>0, <2>1 DEF StaleInv, Endangered, Holds, UnclaimedInv, TypeOK, StoreTypeOK
  <2>10. QED
    BY <2>4, <2>5, <2>6, <2>7, <2>8, <2>9
<1>4. ASSUME NEW j \in Jobs, Launch(w, j) PROVE IInv'
  <2> USE <1>4 DEF Launch, storeVars
  <2>1. \A v \in Workers, k \in Jobs : Holds(v, k)' <=> Holds(v, k)
    BY DEF Holds, TypeOK
  <2>2. LockInv' /\ UnclaimedInv' /\ StaleInv' /\ UrlInv'
    BY <2>1 DEF LockInv, Running, UnclaimedInv, Unclaimed, StaleInv, Endangered,
                UrlInv, UrlOK
  <2>3. HoldInv'
    <3>1. HoldInv /\ UNCHANGED <<status, owner, mode>>
      OBVIOUS
    <3>2. \A v \in Workers, k \in Jobs :
            Holds(v, k)' => owner'[k] = v /\ Running(v)' /\ ~Unclaimed(k)'
      BY ONLY <2>1, <3>1 DEF HoldInv, Unclaimed, Running
    <3>3. \A v \in Workers, k \in Jobs : claimed'[v] = k => pc'[v][k] = "idle"
      BY DEF HoldInv, TypeOK
    <3>4. QED
      BY <3>2, <3>3 DEF HoldInv
  <2>4. PhaseInv' /\ RemoteInv'
    BY DEF PhaseInv, PhaseOK, RemoteInv, KnowsRemote, InRunner, TypeOK
  <2>5. QED
    BY <2>2, <2>3, <2>4
<1>5. ASSUME NEW j \in Jobs, ClaimFails(w, j), rollbackClaim(w, j) PROVE IInv'
  <2> USE <1>5 DEF ClaimFails, rollbackClaim
  <2>1. LockInv'
    BY DEF LockInv, Running, TypeOK, StoreTypeOK
  <2>2. /\ UnclaimedInv' /\ HoldInv' /\ PhaseInv' /\ RemoteInv' /\ StaleInv'
        /\ UrlInv'
    BY DEF UnclaimedInv, Unclaimed, HoldInv, Holds, Running, PhaseInv, PhaseOK, RemoteInv,
           KnowsRemote, StaleInv, Endangered, UrlInv, UrlOK
  <2>3. QED
    BY <2>1, <2>2
<1>6. ASSUME NEW j \in Jobs, ClaimFails(w, j), commitClaim(w, j) PROVE IInv'
  <2> USE <1>6 DEF ClaimFails, commitClaim
  <2>0. StoreTypeOK
    BY DEF TypeOK
  <2>1. status[j] = "queued" /\ Unclaimed(j)
    BY DEF LockInv, Unclaimed
  <2>2. \A v \in Workers : ~Holds(v, j)
    BY <2>1 DEF HoldInv
  <2>3. \A k \in Jobs : Unclaimed(k)' <=> Unclaimed(k) /\ k # j
    BY <2>0 DEF Unclaimed, Absent, StoreTypeOK
  <2>4. LockInv'
    BY <2>0 DEF LockInv, Running, StoreTypeOK
  <2>5. UnclaimedInv'
    BY <2>0, <2>3 DEF UnclaimedInv, StoreTypeOK
  <2>6. HoldInv'
    BY <2>0, <2>2, <2>3 DEF HoldInv, Holds, Running, StoreTypeOK
  <2>7. PhaseInv'
    BY <2>0, <2>2 DEF PhaseInv, PhaseOK, Holds, InRunner, StoreTypeOK
  <2>8. RemoteInv' /\ UrlInv'
    BY <2>0, <2>1 DEF RemoteInv, KnowsRemote, UrlInv, UrlOK, UnclaimedInv, Unclaimed, StoreTypeOK
  <2>9. StaleInv'
    BY <2>0, <2>1 DEF StaleInv, Endangered, Holds, UnclaimedInv, StoreTypeOK
  <2>10. QED
    BY <2>4, <2>5, <2>6, <2>7, <2>8, <2>9
<1>7. QED
  BY <1>1, <1>2, <1>3, <1>4, <1>5, <1>6 DEF ClaimFails

(* The timers, the reaper, stopping and dying keep the invariant. *)
LEMMA ProcessStep ==
  ASSUME IInv, TypeOK', NEW w \in Workers,
         \/ Heartbeat(w) \/ ReapSelect(w) \/ Stop(w) \/ GraceExpires(w) \/ Dies(w)
         \/ \E j \in Jobs : ReapOne(w, j) \/ PollCancel(w, j)
  PROVE  IInv'
<1> USE StoreAssumption DEF IInv, processVars, execVars
<1>1. CASE Heartbeat(w)
  <2> USE <1>1 DEF Heartbeat, heartbeatJobs
  <2>1. LockInv' /\ UnclaimedInv'
    BY DEF LockInv, Running, UnclaimedInv, Unclaimed
  <2>2. HoldInv'
    BY DEF HoldInv, Holds, Running, Unclaimed
  <2>3. StaleInv'
    BY DEF StaleInv, Endangered, Holds
  <2>4. PhaseInv'
    BY DEF PhaseInv, PhaseOK
  <2>5. RemoteInv'
    BY DEF RemoteInv, KnowsRemote
  <2>6. UrlInv'
    BY DEF UrlInv, UrlOK
  <2>7. QED
    BY <2>1, <2>2, <2>3, <2>4, <2>5, <2>6
<1>2. CASE ReapSelect(w)
  <2> USE <1>2 DEF ReapSelect, storeVars
  <2>1. \A v \in Workers, k \in Jobs :
          k \in reapList'[v] => k \in reapList[v] \/ (~fresh[k] /\ ~Unclaimed(k))
    BY DEF StaleJobs, Unclaimed, ACTIVE_STATUSES, Absent, TypeOK
  <2>2. UNCHANGED <<status, owner, prUrl, rowLock, mode, claimed, pc, outcome, remote>>
    OBVIOUS
  <2>3. LockInv /\ HoldInv /\ PhaseInv /\ RemoteInv /\ UrlInv
    OBVIOUS
  <2>4. LockInv' /\ HoldInv'
    BY ONLY <2>2, <2>3 DEF LockInv, HoldInv, Holds, Running, Unclaimed
  <2>5. PhaseInv' /\ RemoteInv' /\ UrlInv'
    BY ONLY <2>2, <2>3 DEF PhaseInv, PhaseOK, RemoteInv, KnowsRemote, UrlInv, UrlOK
  <2>6. UnclaimedInv'
    BY <2>1 DEF UnclaimedInv, Unclaimed
  <2>7. StaleInv'
    BY <2>1 DEF StaleInv, Endangered, Holds
  <2>8. QED
    BY <2>4, <2>5, <2>6, <2>7
<1>3. CASE Stop(w)
  <2> USE <1>3 DEF Stop, storeVars
  <2>1. /\ \A v \in Workers : Running(v)' <=> Running(v)
        /\ \A v \in Workers : mode'[v] = "up" => mode[v] = "up"
    BY DEF Running, TypeOK
  <2>2. QED
    BY <2>1 DEF LockInv, UnclaimedInv, Unclaimed, HoldInv, Holds, PhaseInv, PhaseOK, RemoteInv, KnowsRemote, StaleInv,
                Endangered, UrlInv, UrlOK
<1>4. CASE GraceExpires(w)
  BY <1>4 DEF GraceExpires, storeVars, LockInv, UnclaimedInv, Unclaimed, HoldInv, Holds,
              Running, PhaseInv, PhaseOK, RemoteInv, KnowsRemote, StaleInv, Endangered, UrlInv, UrlOK
<1>5. CASE Dies(w)
  <2> USE <1>5 DEF Dies, rowVars
  <2>1. /\ \A v \in Workers, k \in Jobs : Holds(v, k)' => Holds(v, k) /\ v # w
        /\ \A v \in Workers : v # w => (Running(v)' <=> Running(v))
        /\ \A v \in Workers : mode'[v] = "up" => mode[v] = "up"
        /\ \A v \in Workers, k \in Jobs : k \in reapList'[v] => k \in reapList[v]
    BY DEF Holds, Running, TypeOK
  <2>2. LockInv'
    BY <2>1 DEF LockInv, TypeOK, StoreTypeOK
  <2>3. UnclaimedInv'
    BY <2>1 DEF UnclaimedInv, Unclaimed
  <2>4. HoldInv'
    <3>1. HoldInv /\ UNCHANGED <<status, owner>>
      OBVIOUS
    <3>2. \A v \in Workers, k \in Jobs :
            Holds(v, k)' => owner'[k] = v /\ Running(v)' /\ ~Unclaimed(k)'
      BY ONLY <2>1, <3>1 DEF HoldInv, Unclaimed
    <3>3. \A v \in Workers, k \in Jobs : claimed'[v] = k => pc'[v][k] = "idle"
      BY DEF HoldInv, TypeOK
    <3>4. QED
      BY <3>2, <3>3 DEF HoldInv
  <2>5. PhaseInv' /\ RemoteInv' /\ UrlInv'
    BY DEF PhaseInv, PhaseOK, RemoteInv, KnowsRemote, UrlInv, UrlOK, InRunner, TypeOK
  <2>6. StaleInv'
    BY <2>1 DEF StaleInv, Endangered
  <2>7. QED
    BY <2>2, <2>3, <2>4, <2>5, <2>6
<1>6. ASSUME NEW j \in Jobs, ReapOne(w, j) PROVE IInv'
  <2>1. /\ transitionJob(j, "failed", "worker_lost", prUrl[j])
        /\ j \in reapList[w]
        /\ UNCHANGED <<owner, fresh, rowLock, mode, claimed, execVars, remote>>
        /\ \A v \in Workers : reapList'[v] \subseteq reapList[v]
    BY <1>6 DEF ReapOne, reapJob, TypeOK
  <2>2. ~Locked(j)
    BY <2>1 DEF Locked, LockInv, UnclaimedInv, Unclaimed
  <2>3. QED
    BY <2>1, <2>2, EndedFromOutside
<1>7. ASSUME NEW j \in Jobs, PollCancel(w, j) PROVE IInv'
  BY <1>7 DEF PollCancel, storeVars, LockInv, UnclaimedInv, Unclaimed, HoldInv, Holds,
              Running, PhaseInv, PhaseOK, RemoteInv, KnowsRemote, StaleInv, Endangered, UrlInv, UrlOK
<1>8. QED
  BY <1>1, <1>2, <1>3, <1>4, <1>5, <1>6, <1>7

(* A heartbeat that gets stale keeps the invariant. *)
LEMMA LapseStep ==
  ASSUME IInv, TypeOK', NEW j \in Jobs, Lapse(j)
  PROVE  IInv'
<1> USE DEF IInv, processVars, execVars, Lapse
<1>1. LockInv' /\ UnclaimedInv' /\ HoldInv' /\ PhaseInv' /\ RemoteInv' /\ UrlInv'
  BY DEF LockInv, Running, UnclaimedInv, Unclaimed, HoldInv, Holds, PhaseInv, PhaseOK,
         RemoteInv, KnowsRemote, UrlInv, UrlOK
<1>2. StaleInv'
  BY DEF StaleInv, Endangered, Holds, TypeOK, StoreTypeOK
<1>3. QED
  BY <1>1, <1>2

(* A step of one execution touches its own job alone, so what its job's row,
   its outcome and GitHub say after the step is all there is to check. *)
LEMMA OwnStep ==
  ASSUME IInv, TypeOK', NEW w \in Workers, NEW j \in Jobs, NEW step,
         pc[w][j] # "idle",
         Goto(w, j, step),
         \A v \in Workers, k \in Jobs : v # w \/ k # j => outcome'[v][k] = outcome[v][k],
         \A k \in Jobs : k # j => /\ status'[k] = status[k]
                                  /\ error'[k] = error[k]
                                  /\ prUrl'[k] = prUrl[k]
                                  /\ remote'[k] = remote[k],
         UNCHANGED <<owner, fresh, rowLock, processVars>>,
         ~Unclaimed(j)',
         error'[j] = "worker_lost" => error[j] = "worker_lost",
         PhaseOK(w, j)', KnowsRemote(w, j)', UrlOK(j)'
  PROVE  IInv'
<1> USE DEF IInv, processVars
<1>1. /\ \A v \in Workers, k \in Jobs : v # w \/ k # j => pc'[v][k] = pc[v][k]
      /\ \A v \in Workers, k \in Jobs : Holds(v, k)' => Holds(v, k)
  BY DEF Goto, Holds, TypeOK
<1>2. Holds(w, j) /\ ~Unclaimed(j) /\ owner[j] = w
  BY DEF HoldInv, Holds
<1>3. \A v \in Workers : v # w => claimed[v] # j /\ pc[v][j] = "idle"
  BY <1>2 DEF HoldInv, Holds
<1>4. \A k \in Jobs : Unclaimed(k)' <=> Unclaimed(k)
  BY <1>2 DEF Unclaimed
<1>5. LockInv'
  BY <1>2 DEF LockInv, Running, Unclaimed, TypeOK, StoreTypeOK
<1>6. UnclaimedInv'
  BY <1>2, <1>4 DEF UnclaimedInv
<1>7. HoldInv'
  <2>1. HoldInv /\ UNCHANGED <<owner, mode, claimed>>
    OBVIOUS
  <2>2. \A v \in Workers, k \in Jobs :
          Holds(v, k)' => owner'[k] = v /\ Running(v)' /\ ~Unclaimed(k)'
    BY ONLY <2>1, <1>1, <1>4 DEF HoldInv, Running
  <2>3. \A v \in Workers, k \in Jobs : claimed'[v] = k => pc'[v][k] = "idle"
    BY <1>1 DEF HoldInv
  <2>4. QED
    BY <2>2, <2>3 DEF HoldInv
<1>8. PhaseInv'
  <2>1. \A v \in Workers, k \in Jobs : k # j => PhaseOK(v, k)'
    BY <1>1 DEF PhaseInv, PhaseOK
  <2>2. \A v \in Workers : v # w => PhaseOK(v, j)'
    BY <1>1, <1>3 DEF PhaseOK, InRunner
  <2>3. QED
    BY <2>1, <2>2 DEF PhaseInv
<1>9. RemoteInv'
  <2>1. \A v \in Workers, k \in Jobs : k # j => KnowsRemote(v, k)'
    BY <1>1 DEF RemoteInv, KnowsRemote
  <2>2. \A v \in Workers : v # w => KnowsRemote(v, j)'
    BY <1>1, <1>3 DEF KnowsRemote
  <2>3. QED
    BY <2>1, <2>2 DEF RemoteInv
<1>10. UrlInv'
  BY DEF UrlInv, UrlOK
<1>11. StaleInv'
  <2>1. \A k \in Jobs : Endangered(k)' => Endangered(k)
    BY DEF Endangered
  <2>2. QED
    BY <1>1, <2>1 DEF StaleInv
<1>12. QED
  BY <1>5, <1>6, <1>7, <1>8, <1>9, <1>10, <1>11

(* What a recording step writes: nothing outside its row, no "worker_lost", no
   URL that contradicts GitHub, and a status that fits the step that follows. *)
LEMMA RecordEffect ==
  ASSUME IInv, NEW w \in Workers, NEW j \in Jobs, Record(w, j), UNCHANGED remote
  PROVE  /\ UNCHANGED <<owner, fresh, rowLock>>
         /\ \A k \in Jobs : k # j => /\ status'[k] = status[k]
                                     /\ error'[k] = error[k]
                                     /\ prUrl'[k] = prUrl[k]
         /\ ~Unclaimed(j)'
         /\ error'[j] = "worker_lost" => error[j] = "worker_lost"
         /\ UrlOK(j)'
         /\ pc[w][j] = "marking" => status'[j] \in {"running", "failed", "cancelled"}
         /\ pc[w][j] = "finalizing" /\ transitionAllowed(j, "finalizing") =>
              status'[j] = "finalizing"
<1> USE DEF IInv
<1>1. StoreTypeOK /\ ~Unclaimed(j) /\ PhaseOK(w, j) /\ KnowsRemote(w, j) /\ UrlOK(j)
  BY DEF Record, TypeOK, HoldInv, Holds, PhaseInv, RemoteInv, UrlInv
<1>2. UNCHANGED <<owner, fresh, rowLock>>
  BY DEF Record, UnchangedButRow
<1>3. CASE pc[w][j] = "marking" /\ transitionJob(j, "running", error[j], prUrl[j])
  BY <1>1, <1>2, <1>3, TransitionEffect, Sources DEF PhaseOK, UrlOK, Unclaimed, Absent
<1>4. CASE pc[w][j] = "finalizing" /\ transitionJob(j, "finalizing", error[j], prUrl[j])
  BY <1>1, <1>2, <1>4, TransitionEffect, Sources
  DEF PhaseOK, UrlOK, Unclaimed, Absent, transitionAllowed
<1>5. ASSUME NEW err, err = "error" \/ err = error[j],
             pc[w][j] = "finishing",
             transitionJob(j, outcome[w][j].status, err, outcome[w][j].prUrl)
      PROVE  /\ \A k \in Jobs : k # j => /\ status'[k] = status[k]
                                         /\ error'[k] = error[k]
                                         /\ prUrl'[k] = prUrl[k]
             /\ ~Unclaimed(j)'
             /\ error'[j] = "worker_lost" => error[j] = "worker_lost"
             /\ UrlOK(j)'
  <2>1. outcome[w][j].status \in {"succeeded", "partial", "failed"}
    BY DEF TypeOK, Outcomes
  <2>2. /\ \A k \in Jobs : k # j => /\ status'[k] = status[k]
                                    /\ error'[k] = error[k]
                                    /\ prUrl'[k] = prUrl[k]
        /\ \/ status'[j] = outcome[w][j].status /\ error'[j] = err
              /\ prUrl'[j] = outcome[w][j].prUrl
           \/ status'[j] = status[j] /\ error'[j] = error[j] /\ prUrl'[j] = prUrl[j]
    BY <1>1, <1>5, TransitionEffect
  <2>3. QED
    BY <1>1, <1>5, <2>1, <2>2 DEF KnowsRemote, UrlOK, Unclaimed, Absent
<1>6. QED
  BY <1>1, <1>2, <1>3, <1>4, <1>5 DEF Record, moveJob

(* The runner and what follows it in #execute keep the invariant. *)
LEMMA ExecuteStep ==
  ASSUME IInv, TypeOK', NEW w \in Workers, NEW j \in Jobs, Execute(w, j)
  PROVE  IInv'
<1> USE DEF processVars
<1>1. pc[w][j] # "idle"
  BY DEF Execute, Runner, MarkRunning, RunnerFails, RunnerSucceeds, PointOfNoReturn, Push,
         OpenPullRequest, RunnerThrows, CheckAborted, RecordOutcome, Record, RecordFails,
         CatchError, RecordError, CatchFails, InRunner
<1>2. /\ StoreTypeOK /\ ~Unclaimed(j) /\ claimed[w] # j
      /\ PhaseOK(w, j) /\ KnowsRemote(w, j) /\ UrlOK(j)
  BY <1>1 DEF IInv, TypeOK, HoldInv, Holds, PhaseInv, RemoteInv, UrlInv
<1>3. ASSUME NEW step, Goto(w, j, step)
      PROVE  pc'[w][j] = step
  BY <1>3 DEF Goto, IInv, TypeOK
<1>4. ASSUME NEW out, outcome' = [outcome EXCEPT ![w][j] = out]
      PROVE  /\ outcome'[w][j] = out
             /\ \A v \in Workers, k \in Jobs : v # w \/ k # j => outcome'[v][k] = outcome[v][k]
  BY <1>4 DEF IInv, TypeOK
<1>5. CASE MarkRunning(w, j)
  <2>1. /\ transitionJob(j, "running", error[j], prUrl[j])
        /\ pc[w][j] = "setup" /\ Goto(w, j, "working")
        /\ UNCHANGED <<owner, fresh, rowLock, processVars, outcome, remote>>
    BY <1>5 DEF MarkRunning, moveJob, UnchangedButRow
  <2>2. /\ \A k \in Jobs : k # j => /\ status'[k] = status[k]
                                    /\ error'[k] = error[k]
                                    /\ prUrl'[k] = prUrl[k]
        /\ \/ status'[j] = "running" /\ status[j] = "preparing"
           \/ status'[j] = status[j]
        /\ error'[j] = error[j] /\ prUrl'[j] = prUrl[j]
    BY <1>2, <2>1, TransitionEffect, Sources
  <2>3. ~Unclaimed(j)' /\ UrlOK(j)' /\ PhaseOK(w, j)' /\ KnowsRemote(w, j)'
    BY <1>2, <1>3, <2>1, <2>2 DEF Unclaimed, Absent, UrlOK, PhaseOK, KnowsRemote, InRunner
  <2>4. QED
    BY <1>1, <2>1, <2>2, <2>3, OwnStep
<1>6. ASSUME UNCHANGED storeVars, UNCHANGED processVars,
             NEW step, Goto(w, j, step),
             \A v \in Workers, k \in Jobs : v # w \/ k # j => outcome'[v][k] = outcome[v][k],
             \A k \in Jobs : k # j => remote'[k] = remote[k],
             PhaseOK(w, j)', KnowsRemote(w, j)', UrlOK(j)'
      PROVE  IInv'
  <2>1. ~Unclaimed(j)'
    BY <1>2, <1>6 DEF Unclaimed, storeVars
  <2>2. QED
    BY <1>1, <1>6, <2>1, OwnStep DEF storeVars
<1>7. CASE RunnerFails(w, j)
  <2>1. /\ Goto(w, j, "returned")
        /\ outcome' = [outcome EXCEPT ![w][j] = Failure]
        /\ UNCHANGED storeVars /\ UNCHANGED processVars
        /\ pc[w][j] \in InRunner
    BY <1>7 DEF RunnerFails, Returns, InRunner
  <2>2. /\ \A k \in Jobs : k # j => remote'[k] = remote[k]
        /\ remote'[j] \in {"none", "branch"}
    BY <1>2, <1>7 DEF RunnerFails, KnowsRemote, IInv, TypeOK
  <2>3. ~outcome'[w][j].prUrl
    BY <1>4, <2>1 DEF Failure
  <2>4. PhaseOK(w, j)' /\ KnowsRemote(w, j)' /\ UrlOK(j)'
    BY <1>2, <1>3, <2>1, <2>2, <2>3 DEF PhaseOK, KnowsRemote, UrlOK, storeVars, InRunner
  <2>5. QED
    BY <1>4, <1>6, <2>1, <2>2, <2>4
<1>8. CASE RunnerSucceeds(w, j)
  <2>1. /\ Goto(w, j, "returned")
        /\ outcome' = [outcome EXCEPT ![w][j] = [status |-> "succeeded", prUrl |-> FALSE]]
        /\ UNCHANGED storeVars /\ UNCHANGED processVars /\ UNCHANGED remote
        /\ pc[w][j] = "working"
    BY <1>8 DEF RunnerSucceeds, Returns
  <2>2. ~outcome'[w][j].prUrl
    BY <1>4, <2>1
  <2>3. PhaseOK(w, j)' /\ KnowsRemote(w, j)' /\ UrlOK(j)'
    BY <1>2, <1>3, <2>1, <2>2 DEF PhaseOK, KnowsRemote, UrlOK, storeVars, InRunner
  <2>4. QED
    BY <1>4, <1>6, <2>1, <2>3
<1>9. CASE PointOfNoReturn(w, j)
  <2>1. /\ Goto(w, j, "publishing")
        /\ UNCHANGED storeVars /\ UNCHANGED processVars /\ UNCHANGED <<remote, outcome>>
        /\ pc[w][j] = "working"
    BY <1>9 DEF PointOfNoReturn
  <2>2. PhaseOK(w, j)' /\ KnowsRemote(w, j)' /\ UrlOK(j)'
    BY <1>2, <1>3, <2>1 DEF PhaseOK, KnowsRemote, UrlOK, storeVars, InRunner
  <2>3. QED
    BY <1>6, <2>1, <2>2
<1>10. CASE Push(w, j)
  <2>1. /\ Goto(w, j, "pushed")
        /\ UNCHANGED storeVars /\ UNCHANGED processVars /\ UNCHANGED outcome
        /\ pc[w][j] = "publishing"
    BY <1>10 DEF Push
  <2>2. remote'[j] = "branch" /\ \A k \in Jobs : k # j => remote'[k] = remote[k]
    BY <1>10 DEF Push, IInv, TypeOK
  <2>3. PhaseOK(w, j)' /\ KnowsRemote(w, j)' /\ UrlOK(j)'
    BY <1>2, <1>3, <2>1, <2>2 DEF PhaseOK, KnowsRemote, UrlOK, storeVars, InRunner
  <2>4. QED
    BY <1>6, <2>1, <2>2, <2>3
<1>11. CASE OpenPullRequest(w, j)
  <2>1. PICK s \in {"succeeded", "partial"} :
          outcome' = [outcome EXCEPT ![w][j] = [status |-> s, prUrl |-> TRUE]]
    BY <1>11 DEF OpenPullRequest, Returns
  <2>2. /\ Goto(w, j, "returned")
        /\ UNCHANGED storeVars /\ UNCHANGED processVars
        /\ pc[w][j] = "pushed"
    BY <1>11 DEF OpenPullRequest, Returns
  <2>3. remote'[j] = "pr" /\ \A k \in Jobs : k # j => remote'[k] = remote[k]
    BY <1>11 DEF OpenPullRequest, IInv, TypeOK
  <2>4. outcome'[w][j].prUrl /\ outcome'[w][j].status # "failed"
    <3>1. outcome'[w][j] = [status |-> s, prUrl |-> TRUE]
      BY <1>4, <2>1
    <3>2. QED
      BY <2>1, <3>1
  <2>5. PhaseOK(w, j)' /\ KnowsRemote(w, j)' /\ UrlOK(j)'
    BY <1>2, <1>3, <2>2, <2>3, <2>4 DEF PhaseOK, KnowsRemote, UrlOK, storeVars, InRunner
  <2>6. QED
    BY <1>4, <1>6, <2>1, <2>2, <2>3, <2>5
<1>12. CASE RunnerThrows(w, j)
  <2>1. /\ Goto(w, j, "catching")
        /\ UNCHANGED storeVars /\ UNCHANGED processVars /\ UNCHANGED outcome
        /\ pc[w][j] \in InRunner
    BY <1>12 DEF RunnerThrows
  <2>2. \A k \in Jobs : k # j => remote'[k] = remote[k]
    BY <1>12 DEF RunnerThrows, IInv, TypeOK
  <2>3. PhaseOK(w, j)' /\ KnowsRemote(w, j)' /\ UrlOK(j)'
    BY <1>2, <1>3, <2>1 DEF PhaseOK, KnowsRemote, UrlOK, storeVars, InRunner
  <2>4. QED
    BY <1>6, <2>1, <2>2, <2>3
<1>13. CASE CheckAborted(w, j)
  <2>1. /\ \E step \in {"catching", "marking"} : Goto(w, j, step)
        /\ UNCHANGED storeVars /\ UNCHANGED processVars /\ UNCHANGED <<remote, outcome>>
        /\ pc[w][j] = "returned"
    BY <1>13 DEF CheckAborted
  <2>2. PhaseOK(w, j)' /\ KnowsRemote(w, j)' /\ UrlOK(j)'
    BY <1>2, <1>3, <2>1 DEF PhaseOK, KnowsRemote, UrlOK, storeVars, InRunner
  <2>3. QED
    BY <1>6, <2>1, <2>2
<1>14. CASE RecordOutcome(w, j)
  <2>1. Record(w, j) /\ UNCHANGED processVars /\ UNCHANGED remote
    BY <1>14 DEF RecordOutcome
  <2>2. CASE pc[w][j] = "marking" /\ Goto(w, j, "finalizing") /\ UNCHANGED outcome
    <3>1. PhaseOK(w, j)' /\ KnowsRemote(w, j)'
      BY <1>2, <1>3, <2>1, <2>2, RecordEffect DEF PhaseOK, KnowsRemote, InRunner
    <3>2. QED
      BY <1>1, <2>1, <2>2, <3>1, RecordEffect, OwnStep
  <2>3. CASE /\ pc[w][j] = "finalizing" /\ transitionAllowed(j, "finalizing")
             /\ Goto(w, j, "finishing") /\ UNCHANGED outcome
    <3>1. PhaseOK(w, j)' /\ KnowsRemote(w, j)'
      BY <1>2, <1>3, <2>1, <2>3, RecordEffect DEF PhaseOK, KnowsRemote, InRunner
    <3>2. QED
      BY <1>1, <2>1, <2>3, <3>1, RecordEffect, OwnStep
  <2>4. CASE Settles(w, j)
    <3>1. Goto(w, j, "idle") /\ outcome' = [outcome EXCEPT ![w][j] = Failure]
      BY <2>4 DEF Settles
    <3>2. PhaseOK(w, j)' /\ KnowsRemote(w, j)'
      BY <1>2, <1>3, <2>1, <3>1 DEF PhaseOK, KnowsRemote, InRunner
    <3>3. QED
      BY <1>1, <1>4, <2>1, <3>1, <3>2, RecordEffect, OwnStep
  <2>5. QED
    BY <1>14, <2>2, <2>3, <2>4 DEF RecordOutcome
<1>15. CASE RecordFails(w, j)
  <2>1. /\ Goto(w, j, "catching")
        /\ UNCHANGED processVars /\ UNCHANGED <<remote, outcome>>
        /\ Record(w, j) \/ UNCHANGED storeVars
    BY <1>15 DEF RecordFails
  <2>2. PhaseOK(w, j)' /\ KnowsRemote(w, j)'
    BY <1>2, <1>3, <2>1 DEF PhaseOK, KnowsRemote, InRunner
  <2>3. CASE Record(w, j)
    BY <1>1, <2>1, <2>2, <2>3, RecordEffect, OwnStep
  <2>4. CASE UNCHANGED storeVars
    <3>1. UrlOK(j)'
      BY <1>2, <2>1, <2>4 DEF UrlOK, storeVars
    <3>2. QED
      BY <1>6, <2>1, <2>2, <2>4, <3>1
  <2>5. QED
    BY <2>1, <2>3, <2>4
<1>16. ASSUME RecordError(w, j), Settles(w, j), UNCHANGED processVars, UNCHANGED remote
       PROVE  IInv'
  <2>1. /\ \E to \in {"cancelled", "failed"},
              err \in {"cancelled_by_user", "shutting_down", "error"} :
             transitionJob(j, to, err, prUrl[j])
        /\ Goto(w, j, "idle") /\ outcome' = [outcome EXCEPT ![w][j] = Failure]
        /\ UNCHANGED <<owner, fresh, rowLock>>
        /\ UNCHANGED processVars /\ UNCHANGED remote
    BY <1>16 DEF RecordError, Settles, UnchangedButRow
  <2>2. /\ \A k \in Jobs : k # j => /\ status'[k] = status[k]
                                    /\ error'[k] = error[k]
                                    /\ prUrl'[k] = prUrl[k]
        /\ prUrl'[j] = prUrl[j]
        /\ \/ /\ status[j] \in {"queued", "preparing", "running", "finalizing"}
              /\ status'[j] \in {"cancelled", "failed"}
              /\ error'[j] # "worker_lost"
           \/ status'[j] = status[j] /\ error'[j] = error[j]
    BY <1>2, <2>1, TransitionEffect, Sources
  <2>3. ~Unclaimed(j)' /\ UrlOK(j)' /\ PhaseOK(w, j)' /\ KnowsRemote(w, j)'
    BY <1>2, <1>3, <2>1, <2>2 DEF Unclaimed, Absent, UrlOK, PhaseOK, KnowsRemote, InRunner
  <2>4. QED
    BY <1>1, <1>4, <2>1, <2>2, <2>3, OwnStep
<1>17. CASE CatchError(w, j)
  BY <1>16, <1>17 DEF CatchError
<1>18. CASE CatchFails(w, j)
  <2>1. /\ Settles(w, j) /\ UNCHANGED processVars /\ UNCHANGED remote
        /\ RecordError(w, j) \/ UNCHANGED storeVars
    BY <1>18 DEF CatchFails
  <2>2. CASE UNCHANGED storeVars
    <3>1. Goto(w, j, "idle") /\ outcome' = [outcome EXCEPT ![w][j] = Failure]
      BY <2>1 DEF Settles
    <3>2. PhaseOK(w, j)' /\ KnowsRemote(w, j)' /\ UrlOK(j)'
      BY <1>2, <1>3, <2>1, <2>2, <3>1 DEF PhaseOK, KnowsRemote, UrlOK, storeVars, InRunner
    <3>3. QED
      BY <1>4, <1>6, <2>1, <2>2, <3>1, <3>2
  <2>3. QED
    BY <1>16, <2>1, <2>2
<1>19. QED
  BY <1>5, <1>7, <1>8, <1>9, <1>10, <1>11, <1>12, <1>13, <1>14, <1>15, <1>17, <1>18
  DEF Execute, Runner

(* Every step keeps the invariant. *)
LEMMA SafetyStep == IInv /\ [Next]_vars => IInv'
<1> SUFFICES ASSUME IInv, [Next]_vars PROVE IInv'
  OBVIOUS
<1>1. TypeOK'
  BY TypingStep DEF IInv
<1>2. CASE Next
  <2>1. ASSUME NEW j \in Jobs, Api(j) PROVE IInv'
    BY <1>1, <2>1, ApiStep
  <2>2. ASSUME NEW j \in Jobs, Lapse(j) PROVE IInv'
    BY <1>1, <2>2, LapseStep
  <2>3. ASSUME NEW w \in Workers, Process(w) PROVE IInv'
    <3>1. CASE Start(w) \/ BeginClaim(w)
      BY <1>1, <3>1, ClaimStep
    <3>2. CASE Heartbeat(w) \/ ReapSelect(w) \/ Stop(w) \/ GraceExpires(w) \/ Dies(w)
      BY <1>1, <3>2, ProcessStep
    <3>3. QED
      BY <2>3, <3>1, <3>2 DEF Process, Exit, Crash
  <2>4. ASSUME NEW w \in Workers, NEW j \in Jobs,
               CommitClaim(w, j) \/ ClaimFails(w, j) \/ Launch(w, j)
        PROVE IInv'
    BY <1>1, <2>4, ClaimStep
  <2>5. ASSUME NEW w \in Workers, NEW j \in Jobs, Execute(w, j) PROVE IInv'
    BY <1>1, <2>5, ExecuteStep
  <2>6. ASSUME NEW w \in Workers, NEW j \in Jobs, PollCancel(w, j) \/ ReapOne(w, j)
        PROVE IInv'
    BY <1>1, <2>6, ProcessStep
  <2>7. QED
    BY <1>2, <2>1, <2>2, <2>3, <2>4, <2>5, <2>6 DEF Next
<1>3. CASE UNCHANGED vars
  BY <1>1, <1>3
  DEF vars, storeVars, processVars, execVars, IInv, LockInv, UnclaimedInv, Unclaimed, HoldInv,
      Holds, Running, PhaseInv, PhaseOK, RemoteInv, KnowsRemote, UrlInv, UrlOK, StaleInv,
      Endangered
<1>4. QED
  BY <1>2, <1>3

(* The conjunction that makes the pool safe holds in every reachable state. *)
THEOREM Safety == Spec => []IInv
<1>1. ASSUME Init PROVE IInv
  <2>1. TypeOK
    BY <1>1
    DEF Init, StoreInit, TypeOK, StoreTypeOK, Errors, Modes, Steps, Outcomes, Failure
  <2>2. LockInv /\ UnclaimedInv
    BY <1>1 DEF Init, StoreInit, LockInv, UnclaimedInv, Unclaimed
  <2>3. HoldInv /\ PhaseInv /\ RemoteInv
    BY <1>1, StoreAssumption
    DEF Init, StoreInit, HoldInv, Holds, PhaseInv, PhaseOK, RemoteInv, KnowsRemote, InRunner
  <2>4. UrlInv /\ StaleInv
    BY <1>1, StoreAssumption
    DEF Init, StoreInit, UrlInv, UrlOK, StaleInv, Endangered, Holds, Absent
  <2>5. QED
    BY <2>1, <2>2, <2>3, <2>4 DEF IInv
<1>2. QED
  BY <1>1, SafetyStep, PTL DEF Spec
-----------------------------------------------------------------------------
(* No job is ever in the hands of two workers. *)
THEOREM Exclusion == Spec => []OneExecutor
<1>1. IInv => OneExecutor
  BY DEF IInv, HoldInv, OneExecutor
<1>2. QED
  BY <1>1, Safety, PTL

(* What the table reports of a job's pull request is what GitHub has. *)
THEOREM ResultsAreTrue == Spec => []ResultMatchesGitHub
<1>1. IInv => ResultMatchesGitHub
  BY DEF IInv, UrlInv, UrlOK, ResultMatchesGitHub
<1>2. QED
  BY <1>1, Safety, PTL

(* While heartbeats get through, only lost workers' jobs are reaped. *)
THEOREM ReapsOnlyLost == Spec => []NoFalseReap
<1>1. IInv => NoFalseReap
  BY DEF IInv, StaleInv, Endangered, NoFalseReap
<1>2. QED
  BY <1>1, Safety, PTL
-----------------------------------------------------------------------------
(* An execution only moves on from where it stands; the loop does not see it. *)
LEMMA ExecuteMoves ==
  ASSUME NEW w \in Workers, NEW j \in Jobs, Execute(w, j)
  PROVE  /\ pc[w][j] # "idle"
         /\ \E there : pc' = [pc EXCEPT ![w][j] = there]
         /\ UNCHANGED <<rowLock, claimed>>
<1>1. CASE Runner(w, j)
  BY <1>1
  DEF Runner, MarkRunning, UnchangedButRow, RunnerFails, RunnerSucceeds, PointOfNoReturn, Push,
      OpenPullRequest, RunnerThrows, InRunner, Returns, Goto, storeVars, processVars
<1>2. ASSUME Record(w, j) PROVE UNCHANGED rowLock
  BY <1>2 DEF Record, UnchangedButRow
<1>3. CASE RecordOutcome(w, j) \/ RecordFails(w, j)
  BY <1>2, <1>3 DEF RecordOutcome, RecordFails, Settles, Goto, storeVars, processVars
<1>4. CASE CheckAborted(w, j)
  BY <1>4 DEF CheckAborted, Goto, storeVars, processVars
<1>5. CASE CatchError(w, j) \/ CatchFails(w, j)
  <2>1. /\ pc[w][j] = "catching" /\ Settles(w, j) /\ UNCHANGED processVars
        /\ UnchangedButRow \/ UNCHANGED storeVars
    BY <1>5 DEF CatchError, CatchFails, RecordError
  <2>2. UNCHANGED rowLock
    BY <2>1 DEF UnchangedButRow, storeVars
  <2>3. QED
    BY <2>1, <2>2 DEF Settles, Goto, processVars
<1>6. QED
  BY <1>1, <1>3, <1>4, <1>5 DEF Execute

(* What a step does to the jobs a worker has in hand: they become fewer, or the
   worker opens a claim, or it commits the one it had open. *)
LEMMA HandStep ==
  ASSUME IInv, [Next]_vars, NEW v \in Workers
  PROVE  \/ /\ InHand(v)' \subseteq InHand(v)
            /\ rowLock'[v] \in {rowLock[v], NoJob}
            /\ claimed'[v] \in {claimed[v], NoJob}
         \/ BeginClaim(v) /\ UNCHANGED <<pc, claimed>>
         \/ \E j \in Jobs : /\ rowLock[v] = j
                            /\ rowLock'[v] = NoJob
                            /\ InHand(v)' \subseteq InHand(v) \cup {j}
<1> DEFINE Fewer == /\ InHand(v)' \subseteq InHand(v)
                    /\ rowLock'[v] \in {rowLock[v], NoJob}
                    /\ claimed'[v] \in {claimed[v], NoJob}
<1>t. /\ pc \in [Workers -> [Jobs -> Steps]]
      /\ claimed \in [Workers -> Jobs \cup {NoJob}]
      /\ rowLock \in [Workers -> Jobs \cup {NoJob}]
      /\ NoJob \notin Jobs
  BY StoreAssumption DEF IInv, TypeOK, StoreTypeOK
<1>0. ASSUME UNCHANGED <<pc, claimed, rowLock>> PROVE Fewer
  BY <1>0 DEF InHand, Holds
<1>1. ASSUME NEW j \in Jobs, Api(j) \/ Lapse(j) PROVE Fewer
  <2>1. UNCHANGED <<pc, claimed, rowLock>>
    BY <1>1
    DEF Api, CreateJob, createJob, CancelRead, cancelRead, CancelQueued, cancelQueued,
        CancelFlag, cancelFlag, Lapse, processVars, execVars
  <2>2. QED
    BY <1>0, <2>1
<1>2. ASSUME NEW w \in Workers, Process(w)
      PROVE  Fewer \/ (BeginClaim(v) /\ UNCHANGED <<pc, claimed>>)
  <2>1. CASE Start(w) \/ Heartbeat(w) \/ ReapSelect(w) \/ Stop(w) \/ GraceExpires(w)
    <3>1. UNCHANGED <<pc, claimed, rowLock>>
      BY <2>1
      DEF Start, Heartbeat, heartbeatJobs, ReapSelect, Stop, GraceExpires, storeVars,
          processVars, execVars
    <3>2. QED
      BY <1>0, <3>1
  <2>2. CASE BeginClaim(w)
    <3>1. UNCHANGED <<pc, claimed>>
      BY <2>2 DEF BeginClaim, processVars, execVars
    <3>2. CASE v # w
      <4>1. rowLock'[v] = rowLock[v]
        BY <1>t, <2>2, <3>2 DEF BeginClaim, lockOldest
      <4>2. QED
        BY <3>1, <4>1 DEF InHand, Holds
    <3>3. QED
      BY <2>2, <3>1, <3>2
  <2>3. CASE Dies(w)
    BY <1>t, <2>3 DEF Dies, InHand, Holds
  <2>4. QED
    BY <1>2, <2>1, <2>2, <2>3 DEF Process, Exit, Crash
<1>3. ASSUME NEW w \in Workers, NEW j \in Jobs, CommitClaim(w, j)
      PROVE  \/ Fewer
             \/ \E k \in Jobs : /\ rowLock[v] = k
                                /\ rowLock'[v] = NoJob
                                /\ InHand(v)' \subseteq InHand(v) \cup {k}
  <2>1. /\ rowLock[w] = j /\ rowLock' = [rowLock EXCEPT ![w] = NoJob]
        /\ claimed' = [claimed EXCEPT ![w] = j]
        /\ UNCHANGED pc
    BY <1>3 DEF CommitClaim, commitClaim, execVars
  <2>2. QED
    BY <1>t, <2>1 DEF InHand, Holds
<1>3a. ASSUME NEW w \in Workers, NEW j \in Jobs, ClaimFails(w, j) PROVE Fewer
  <2>1. rowLock' = [rowLock EXCEPT ![w] = NoJob] /\ UNCHANGED <<pc, claimed>>
    BY <1>3a DEF ClaimFails, commitClaim, rollbackClaim, processVars, execVars
  <2>2. QED
    BY <1>t, <2>1 DEF InHand, Holds
<1>4. ASSUME NEW w \in Workers, NEW j \in Jobs, Launch(w, j) PROVE Fewer
  <2>1. /\ claimed[w] = j /\ claimed' = [claimed EXCEPT ![w] = NoJob]
        /\ pc' = [pc EXCEPT ![w][j] = "setup"]
        /\ UNCHANGED rowLock
    BY <1>4 DEF Launch, storeVars
  <2>2. QED
    BY <1>t, <2>1 DEF InHand, Holds
<1>5. ASSUME NEW w \in Workers, NEW j \in Jobs, Execute(w, j) PROVE Fewer
  <2>1. PICK there : pc' = [pc EXCEPT ![w][j] = there]
    BY <1>5, ExecuteMoves
  <2>2. pc[w][j] # "idle" /\ UNCHANGED <<rowLock, claimed>>
    BY <1>5, ExecuteMoves
  <2>3. QED
    BY <1>t, <2>1, <2>2 DEF InHand, Holds
<1>6. ASSUME NEW w \in Workers, NEW j \in Jobs, PollCancel(w, j) \/ ReapOne(w, j) PROVE Fewer
  <2>1. UNCHANGED <<pc, claimed, rowLock>>
    BY <1>6 DEF PollCancel, ReapOne, reapJob, storeVars, processVars, execVars
  <2>2. QED
    BY <1>0, <2>1
<1>7. CASE UNCHANGED vars
  BY <1>0, <1>7 DEF vars, storeVars, processVars, execVars
<1>8. QED
  BY <1>1, <1>2, <1>3, <1>3a, <1>4, <1>5, <1>6, <1>7 DEF Next

(* A worker never has more jobs in hand than WORKER_CONCURRENCY: the slot of a
   claim is still free when the claim commits. *)
THEOREM SlotsAreBounded == Spec => []SlotsBound
<1>a. Concurrency \in Nat \ {0}
  BY PoolAssumption
<1>1. Init => SlotsInv
  <2>1. ASSUME Init, NEW w \in Workers PROVE InHand(w) = {}
    BY <2>1, StoreAssumption DEF Init, InHand, Holds
  <2>2. IsFiniteSet({}) /\ Cardinality({}) = 0
    BY FS_EmptySet
  <2>3. ASSUME Init, NEW w \in Workers PROVE rowLock[w] = NoJob
    BY <2>3 DEF Init, StoreInit
  <2>4. QED
    BY <1>a, <2>1, <2>2, <2>3 DEF SlotsInv
<1>2. ASSUME IInv, SlotsInv, [Next]_vars PROVE SlotsInv'
  <2> SUFFICES ASSUME NEW v \in Workers
               PROVE  /\ IsFiniteSet(InHand(v)')
                      /\ Cardinality(InHand(v)') <= Concurrency
                      /\ rowLock'[v] # NoJob => /\ claimed'[v] = NoJob
                                                /\ Cardinality(InHand(v)') < Concurrency
    BY DEF SlotsInv
  <2>1. /\ IsFiniteSet(InHand(v))
        /\ Cardinality(InHand(v)) \in Nat /\ Cardinality(InHand(v)) <= Concurrency
        /\ rowLock[v] # NoJob => claimed[v] = NoJob /\ Cardinality(InHand(v)) < Concurrency
    BY <1>2, FS_CardinalityType DEF SlotsInv
  <2>2. CASE /\ InHand(v)' \subseteq InHand(v)
             /\ rowLock'[v] \in {rowLock[v], NoJob}
             /\ claimed'[v] \in {claimed[v], NoJob}
    <3>1. /\ IsFiniteSet(InHand(v)')
          /\ Cardinality(InHand(v)') \in Nat
          /\ Cardinality(InHand(v)') <= Cardinality(InHand(v))
      BY <2>1, <2>2, FS_Subset, FS_CardinalityType
    <3>2. QED
      BY <1>a, <2>1, <2>2, <3>1
  <2>3. CASE BeginClaim(v) /\ UNCHANGED <<pc, claimed>>
    <3>1. InHand(v)' = InHand(v)
      BY <2>3 DEF InHand, Holds
    <3>2. claimed[v] = NoJob /\ Cardinality(Active(v)) < Concurrency
      BY <2>3 DEF BeginClaim
    <3>3. InHand(v) = Active(v)
      BY <3>2, StoreAssumption DEF InHand, Active, Holds
    <3>4. QED
      BY <2>1, <2>3, <3>1, <3>2, <3>3
  <2>4. ASSUME NEW j \in Jobs, rowLock[v] = j, rowLock'[v] = NoJob,
               InHand(v)' \subseteq InHand(v) \cup {j}
        PROVE  IsFiniteSet(InHand(v)') /\ Cardinality(InHand(v)') <= Concurrency
    <3>1. Cardinality(InHand(v)) < Concurrency
      BY <2>1, <2>4, StoreAssumption
    <3>2. /\ IsFiniteSet(InHand(v) \cup {j})
          /\ Cardinality(InHand(v) \cup {j}) \in {Cardinality(InHand(v)), Cardinality(InHand(v)) + 1}
      BY <2>1, FS_AddElement
    <3>3. /\ IsFiniteSet(InHand(v)')
          /\ Cardinality(InHand(v)') \in Nat
          /\ Cardinality(InHand(v)') <= Cardinality(InHand(v) \cup {j})
      BY <2>4, <3>2, FS_Subset, FS_CardinalityType
    <3>4. QED
      BY <1>a, <2>1, <3>1, <3>2, <3>3
  <2>5. QED
    BY <1>2, <2>2, <2>3, <2>4, HandStep
<1>3. SlotsInv => SlotsBound
  BY DEF SlotsInv, SlotsBound
<1>4. QED
  BY <1>1, <1>2, <1>3, Safety, PTL DEF Spec
-----------------------------------------------------------------------------
(* Whatever the step, the rows see a createJob, a claim of a queued job, one
   guarded transition of one job, or nothing. *)
LEMMA RowStep ==
  ASSUME IInv, [Next]_vars
  PROVE  \/ UNCHANGED <<status, owner, error, prUrl, log>>
         \/ \E j \in Jobs : createJob(j)
         \/ \E w \in Workers, j \in Jobs : commitClaim(w, j) /\ status[j] = "queued"
         \/ \E j \in Jobs, to \in JOB_STATUSES : \E err, url :
              /\ transitionJob(j, to, err, url)
              /\ to # "preparing"
              /\ UNCHANGED owner
<1> DEFINE Transition(j) ==
      \E to \in JOB_STATUSES : \E err, url :
        transitionJob(j, to, err, url) /\ to # "preparing" /\ UNCHANGED owner
           Still == UNCHANGED <<status, owner, error, prUrl, log>>
<1>s. {"running", "finalizing", "cancelled", "failed", "succeeded", "partial"}
        \subseteq JOB_STATUSES
  BY DEF JOB_STATUSES, ACTIVE_STATUSES, TERMINAL_STATUSES
<1>1. ASSUME NEW j \in Jobs, Api(j) PROVE createJob(j) \/ Transition(j) \/ Still
  <2>1. CASE CancelQueued(j)
    BY <2>1, <1>s DEF CancelQueued, cancelQueued, moveJob
  <2>2. CASE CreateJob(j) \/ CancelRead(j) \/ CancelFlag(j)
    BY <2>2 DEF CreateJob, CancelRead, cancelRead, CancelFlag, cancelFlag
  <2>3. QED
    BY <1>1, <2>1, <2>2 DEF Api
<1>2. ASSUME NEW w \in Workers, Process(w) PROVE Still
  BY <1>2
  DEF Process, Start, BeginClaim, lockOldest, Heartbeat, heartbeatJobs, ReapSelect, Stop,
      GraceExpires, Exit, Crash, Dies, storeVars, rowVars
<1>3. ASSUME NEW w \in Workers, NEW j \in Jobs, CommitClaim(w, j) \/ ClaimFails(w, j)
      PROVE (commitClaim(w, j) /\ status[j] = "queued") \/ Still
  <2>1. CASE commitClaim(w, j)
    <3>1. rowLock[w] = j /\ rowLock[w] # NoJob
      BY <2>1, StoreAssumption DEF commitClaim
    <3>2. QED
      BY <2>1, <3>1 DEF IInv, LockInv
  <2>2. CASE rollbackClaim(w, j)
    BY <2>2 DEF rollbackClaim
  <2>3. QED
    BY <1>3, <2>1, <2>2 DEF CommitClaim, ClaimFails
<1>4. ASSUME NEW w \in Workers, NEW j \in Jobs, Record(w, j) PROVE Transition(j)
  <2>1. UNCHANGED owner
    BY <1>4 DEF Record, UnchangedButRow
  <2>2. outcome[w][j].status \in {"succeeded", "partial", "failed"}
    BY DEF IInv, TypeOK, Outcomes
  <2>3. QED
    BY <1>4, <2>1, <2>2, <1>s DEF Record, moveJob
<1>5. ASSUME NEW w \in Workers, NEW j \in Jobs, Execute(w, j) PROVE Transition(j) \/ Still
  <2>1. CASE MarkRunning(w, j)
    BY <2>1, <1>s DEF MarkRunning, moveJob, UnchangedButRow
  <2>2. CASE RecordOutcome(w, j) \/ RecordFails(w, j)
    BY <2>2, <1>4 DEF RecordOutcome, RecordFails, storeVars
  <2>3. CASE CatchError(w, j) \/ CatchFails(w, j)
    <3>1. CASE UNCHANGED storeVars
      BY <3>1 DEF storeVars
    <3>2. CASE RecordError(w, j)
      <4>1. \E to \in {"failed", "cancelled"} : \E err : transitionJob(j, to, err, prUrl[j])
        BY <3>2 DEF RecordError
      <4>2. QED
        BY <3>2, <4>1, <1>s DEF RecordError, UnchangedButRow
    <3>3. QED
      BY <2>3, <3>1, <3>2 DEF CatchError, CatchFails
  <2>4. QED
    BY <1>5, <2>1, <2>2, <2>3
    DEF Execute, Runner, RunnerFails, RunnerSucceeds, PointOfNoReturn, Push, OpenPullRequest,
        RunnerThrows, CheckAborted, storeVars
<1>6. ASSUME NEW w \in Workers, NEW j \in Jobs, ReapOne(w, j) PROVE Transition(j)
  BY <1>6, <1>s DEF ReapOne, reapJob
<1>7. ASSUME NEW w \in Workers, NEW j \in Jobs, Launch(w, j) \/ PollCancel(w, j)
      PROVE Still
  BY <1>7 DEF Launch, PollCancel, storeVars
<1>8. ASSUME NEW j \in Jobs, Lapse(j) PROVE Still
  BY <1>8 DEF Lapse
<1>9. CASE UNCHANGED vars
  BY <1>9 DEF vars, storeVars
<1>10. QED
  BY <1>1, <1>2, <1>3, <1>5, <1>6, <1>7, <1>8, <1>9 DEF Next

(* A terminal row is final: the late result of an execution that was reaped or
   cancelled under its worker changes neither its status, its error nor its URL. *)
THEOREM TerminalRowsAreFinal == Spec => LateResultsDropped
<1> DEFINE Kept(j) == status'[j] = status[j] /\ error'[j] = error[j] /\ prUrl'[j] = prUrl[j]
<1>1. ASSUME IInv, [Next]_vars, NEW j \in Jobs, isTerminal(status[j])
      PROVE  Kept(j)
  <2>1. StoreTypeOK
    BY <1>1 DEF IInv, TypeOK
  <2>2. status[j] \notin {Absent, "queued", "preparing", "running", "finalizing"}
    BY <1>1 DEF isTerminal, TERMINAL_STATUSES, Absent
  <2>3. \A to \in JOB_STATUSES : status[j] \notin sourcesFor(to)
    BY <2>2 DEF sourcesFor, canTransition, TRANSITIONS
  <2>4. ASSUME NEW k \in Jobs, createJob(k) PROVE Kept(j)
    BY <2>1, <2>2, <2>4 DEF createJob, StoreTypeOK
  <2>5. ASSUME NEW w \in Workers, NEW k \in Jobs, commitClaim(w, k), status[k] = "queued"
        PROVE Kept(j)
    BY <2>1, <2>2, <2>5 DEF commitClaim, StoreTypeOK
  <2>6. ASSUME NEW k \in Jobs, NEW to \in JOB_STATUSES, NEW err, NEW url,
               transitionJob(k, to, err, url)
        PROVE Kept(j)
    BY <2>1, <2>3, <2>6, TransitionEffect
  <2>7. QED
    BY <1>1, <2>4, <2>5, <2>6, RowStep
<1>2. IInv /\ [Next]_vars =>
        [\A j \in Jobs : isTerminal(status[j]) =>
           status'[j] = status[j] /\ error'[j] = error[j] /\ prUrl'[j] = prUrl[j]]_vars
  BY <1>1
<1>3. QED
  BY <1>2, Safety, PTL DEF Spec, LateResultsDropped

-----------------------------------------------------------------------------
(* The lifecycle itself, for any sets of jobs and workers. *)

(* A walk that makes one more allowed move is a walk. *)
LEMMA WalkExtends ==
  ASSUME NEW path \in Seq(Lifecycle!JOB_STATUSES), NEW to \in Lifecycle!JOB_STATUSES,
         Lifecycle!IsWalk(path), Lifecycle!canTransition(path[Len(path)], to)
  PROVE  Lifecycle!IsWalk(Append(path, to)) /\ Append(path, to)[Len(Append(path, to))] = to
<1> DEFINE longer == Append(path, to)
<1>1. /\ Len(path) \in Nat
      /\ Len(longer) = Len(path) + 1
      /\ longer[Len(path) + 1] = to
      /\ \A i \in 1 .. Len(path) : longer[i] = path[i]
  OBVIOUS
<1>2. Len(longer) > 0 /\ longer[1] = "queued"
  BY <1>1 DEF Lifecycle!IsWalk
<1>3. ASSUME NEW i \in 1 .. Len(longer) - 1
      PROVE  Lifecycle!canTransition(longer[i], longer[i + 1])
  <2>1. CASE i = Len(path)
    BY <1>1, <2>1 DEF Lifecycle!IsWalk
  <2>2. CASE i # Len(path)
    <3>1. i \in 1 .. Len(path) - 1 /\ i + 1 \in 1 .. Len(path)
      BY <1>1, <2>2
    <3>2. QED
      BY <1>1, <3>1 DEF Lifecycle!IsWalk
  <2>3. QED
    BY <2>1, <2>2
<1>4. QED
  BY <1>1, <1>2, <1>3 DEF Lifecycle!IsWalk

(* What a move along the state machine does to its job and to the others. *)
LEMMA MoveKeeps ==
  ASSUME Lifecycle!IInv, NEW j \in Jobs, NEW to \in Lifecycle!JOB_STATUSES,
         Lifecycle!MoveTo(j, to)
  PROVE  /\ status' \in [Jobs -> Lifecycle!JOB_STATUSES \cup {Lifecycle!Absent}]
         /\ log' \in [Jobs -> Seq(Lifecycle!JOB_STATUSES)]
         /\ Lifecycle!EventsTellHistory'
<1> USE DEF Lifecycle!IInv, Lifecycle!TypeOK
<1>1. status[j] # Lifecycle!Absent /\ to # Lifecycle!Absent
  BY DEF Lifecycle!MoveTo, Lifecycle!canTransition, Lifecycle!TRANSITIONS, Lifecycle!Absent,
         Lifecycle!JOB_STATUSES, Lifecycle!ACTIVE_STATUSES, Lifecycle!TERMINAL_STATUSES
<1>2. Lifecycle!IsWalk(log[j]) /\ log[j][Len(log[j])] = status[j]
  BY <1>1 DEF Lifecycle!EventsTellHistory
<1>3. Lifecycle!IsWalk(Append(log[j], to)) /\ Append(log[j], to)[Len(Append(log[j], to))] = to
  BY <1>2, WalkExtends DEF Lifecycle!MoveTo
<1>4. /\ status'[j] = to
      /\ log'[j] = Append(log[j], to)
      /\ \A k \in Jobs : k # j => status'[k] = status[k] /\ log'[k] = log[k]
  BY DEF Lifecycle!MoveTo
<1>5. Lifecycle!EventsTellHistory'
  BY <1>1, <1>3, <1>4 DEF Lifecycle!EventsTellHistory
<1>6. QED
  BY <1>5 DEF Lifecycle!MoveTo

(* The events of a job are always the history of its row. *)
THEOREM History == Lifecycle!Spec => []Lifecycle!EventsTellHistory
<1>1. Lifecycle!Init => Lifecycle!IInv
  BY DEF Lifecycle!Init, Lifecycle!IInv, Lifecycle!TypeOK, Lifecycle!EventsTellHistory
<1>2. ASSUME Lifecycle!IInv, [Lifecycle!Next]_(Lifecycle!lifecycleVars) PROVE Lifecycle!IInv'
  <2>1. ASSUME NEW j \in Jobs, Lifecycle!Create(j) PROVE Lifecycle!IInv'
    <3>1. <<"queued">> \in Seq(Lifecycle!JOB_STATUSES) /\ "queued" # Lifecycle!Absent
      BY DEF Lifecycle!JOB_STATUSES, Lifecycle!Absent
    <3>2. Lifecycle!IsWalk(<<"queued">>) /\ <<"queued">>[Len(<<"queued">>)] = "queued"
      BY DEF Lifecycle!IsWalk
    <3>3. /\ status'[j] = "queued" /\ log'[j] = <<"queued">>
          /\ \A k \in Jobs : k # j => status'[k] = status[k] /\ log'[k] = log[k]
      BY <1>2, <2>1 DEF Lifecycle!Create, Lifecycle!IInv, Lifecycle!TypeOK
    <3>4. Lifecycle!EventsTellHistory'
      BY <1>2, <3>1, <3>2, <3>3 DEF Lifecycle!EventsTellHistory, Lifecycle!IInv
    <3>5. Lifecycle!TypeOK'
      BY <1>2, <2>1, <3>1
      DEF Lifecycle!Create, Lifecycle!IInv, Lifecycle!TypeOK, Lifecycle!JOB_STATUSES
    <3>6. QED
      BY <3>4, <3>5 DEF Lifecycle!IInv
  <2>2. ASSUME NEW j \in Jobs, NEW w \in Workers, Lifecycle!Claim(j, w)
        PROVE  Lifecycle!IInv'
    <3>1. "preparing" \in Lifecycle!JOB_STATUSES
      BY DEF Lifecycle!JOB_STATUSES, Lifecycle!ACTIVE_STATUSES
    <3>2. QED
      BY <1>2, <2>2, <3>1, MoveKeeps DEF Lifecycle!Claim, Lifecycle!IInv, Lifecycle!TypeOK
  <2>3. ASSUME NEW j \in Jobs, NEW to \in Lifecycle!JOB_STATUSES, Lifecycle!Advance(j, to)
        PROVE  Lifecycle!IInv'
    BY <1>2, <2>3, MoveKeeps DEF Lifecycle!Advance, Lifecycle!IInv, Lifecycle!TypeOK
  <2>4. CASE UNCHANGED Lifecycle!lifecycleVars
    BY <1>2, <2>4
    DEF Lifecycle!lifecycleVars, Lifecycle!IInv, Lifecycle!TypeOK, Lifecycle!EventsTellHistory
  <2>5. QED
    BY <1>2, <2>1, <2>2, <2>3, <2>4 DEF Lifecycle!Next
<1>3. Lifecycle!IInv => Lifecycle!EventsTellHistory
  BY DEF Lifecycle!IInv
<1>4. QED
  BY <1>1, <1>2, <1>3, PTL DEF Lifecycle!Spec

(* The pool, seen through the columns of the table that others read, is the
   lifecycle: every behaviour of the one is a behaviour of the other. *)
THEOREM Refinement == Spec => LifecycleSpec
<1>1. Init => Lifecycle!Init
  BY DEF Init, StoreInit, Absent, Lifecycle!Init, Lifecycle!Absent
<1>2. ASSUME IInv, [Next]_vars PROVE [Lifecycle!Next]_(Lifecycle!lifecycleVars)
  <2>1. StoreTypeOK
    BY <1>2 DEF IInv, TypeOK
  <2>2. ASSUME NEW j \in Jobs, createJob(j) PROVE Lifecycle!Create(j)
    BY <2>2 DEF createJob, Absent, Lifecycle!Create, Lifecycle!Absent
  <2>3. ASSUME NEW w \in Workers, NEW j \in Jobs, commitClaim(w, j), status[j] = "queued"
        PROVE Lifecycle!Claim(j, w)
    <3>1. owner[j] = NoWorker
      BY <1>2, <2>3 DEF IInv, UnclaimedInv, Unclaimed
    <3>2. Lifecycle!canTransition(status[j], "preparing")
      BY <2>3 DEF Lifecycle!canTransition, Lifecycle!TRANSITIONS
    <3>3. QED
      BY <2>3, <3>1, <3>2 DEF commitClaim, Lifecycle!Claim, Lifecycle!MoveTo
  <2>4. ASSUME NEW j \in Jobs, NEW to \in JOB_STATUSES, NEW err, NEW url,
               transitionJob(j, to, err, url), to # "preparing", UNCHANGED owner
        PROVE [Lifecycle!Advance(j, to)]_(Lifecycle!lifecycleVars)
    <3>1. CASE status[j] \in sourcesFor(to)
      <4>1. Lifecycle!canTransition(status[j], to)
        BY <3>1 DEF sourcesFor, canTransition, TRANSITIONS, Lifecycle!canTransition,
                    Lifecycle!TRANSITIONS
      <4>2. QED
        BY <2>4, <3>1, <4>1
        DEF transitionJob, transitionAllowed, Lifecycle!Advance, Lifecycle!MoveTo
    <3>2. CASE status[j] \notin sourcesFor(to)
      BY <2>4, <3>2 DEF transitionJob, transitionAllowed, Lifecycle!lifecycleVars
    <3>3. QED
      BY <3>1, <3>2
  <2>5. JOB_STATUSES = Lifecycle!JOB_STATUSES
    BY DEF JOB_STATUSES, ACTIVE_STATUSES, TERMINAL_STATUSES, Lifecycle!JOB_STATUSES,
           Lifecycle!ACTIVE_STATUSES, Lifecycle!TERMINAL_STATUSES
  <2>6. QED
    BY <1>2, <2>2, <2>3, <2>4, <2>5, RowStep DEF Lifecycle!Next, Lifecycle!lifecycleVars
<1>3. QED
  BY <1>1, <1>2, Safety, PTL DEF Spec, LifecycleSpec, Lifecycle!Spec

(* The events of a job are the history of its row: the pool implements the
   lifecycle, where that holds. *)
THEOREM EventsAreHistory == Spec => []EventsTellHistory
BY Refinement, History, PTL DEF LifecycleSpec, EventsTellHistory

(* The snapshot of stop() lives as long as stop() does. *)
LEMMA StopStep ==
  ASSUME IInv, StopInv, [Next]_vars
  PROVE  StopInv'
<1> USE DEF StopInv, processVars
<1>t. mode \in [Workers -> Modes] /\ pending \in [Workers -> SUBSET Jobs]
  BY DEF IInv, TypeOK
<1>0. ASSUME UNCHANGED <<mode, pending>> PROVE StopInv'
  BY <1>0
<1>1. ASSUME NEW j \in Jobs, Api(j) \/ Lapse(j) PROVE StopInv'
  BY <1>0, <1>1 DEF Api, CreateJob, CancelRead, CancelQueued, CancelFlag, Lapse
<1>2. ASSUME NEW w \in Workers, Process(w) PROVE StopInv'
  <2>1. CASE Start(w) \/ Stop(w) \/ Dies(w)
    BY <1>t, <2>1 DEF Start, Stop, Dies
  <2>2. CASE BeginClaim(w) \/ Heartbeat(w) \/ ReapSelect(w) \/ GraceExpires(w)
    BY <1>0, <2>2 DEF BeginClaim, Heartbeat, ReapSelect, GraceExpires
  <2>3. QED
    BY <1>2, <2>1, <2>2 DEF Process, Exit, Crash
<1>3. ASSUME NEW w \in Workers, NEW j \in Jobs,
             \/ CommitClaim(w, j) \/ ClaimFails(w, j) \/ Launch(w, j)
             \/ PollCancel(w, j) \/ ReapOne(w, j)
      PROVE  StopInv'
  BY <1>0, <1>3 DEF CommitClaim, ClaimFails, Launch, PollCancel, ReapOne
<1>4. ASSUME NEW w \in Workers, NEW j \in Jobs, Execute(w, j) PROVE StopInv'
  BY <1>0, <1>4
  DEF Execute, Runner, MarkRunning, RunnerFails, RunnerSucceeds, PointOfNoReturn, Push,
      OpenPullRequest, RunnerThrows, CheckAborted, RecordOutcome, RecordFails, CatchError,
      CatchFails
<1>5. CASE UNCHANGED vars
  BY <1>0, <1>5 DEF vars
<1>6. QED
  BY <1>1, <1>2, <1>3, <1>4, <1>5 DEF Next

(* An execution that ends in a live process leaves its job terminal, or to the
   reaper after a failed statement: finalizing after a cancel, or in whatever status
   when the process is stopping and the catch block itself failed. *)
THEOREM ExecutionsSettle == Spec => SettledIsTerminal
<1> DEFINE Ends(w, j) == pc[w][j] # "idle" /\ pc'[w][j] = "idle" /\ mode'[w] # "down"
           Settled(w, j) == isTerminal(status'[j]) \/ LeftToTheReaper(w, j)
<1>f. "finalizing" \in ACTIVE_STATUSES
  BY DEF ACTIVE_STATUSES
<1>1. ASSUME IInv, StopInv, Next, NEW w \in Workers, NEW j \in Jobs, Ends(w, j)
      PROVE  Settled(w, j)
  <2>1. StoreTypeOK /\ ~Unclaimed(j) /\ PhaseOK(w, j) /\ status[j] \in JOB_STATUSES
    BY <1>1 DEF IInv, TypeOK, StoreTypeOK, HoldInv, Holds, PhaseInv, Unclaimed
  <2>2. outcome[w][j].status \in {"succeeded", "partial", "failed"}
    BY <1>1 DEF IInv, TypeOK, Outcomes
  <2>3. ASSUME RecordOutcome(w, j) PROVE Settled(w, j)
    <3>1. CASE pc[w][j] = "finalizing"
      <4>1. transitionJob(j, "finalizing", error[j], prUrl[j])
        BY <2>3, <3>1 DEF RecordOutcome, Record, moveJob
      <4>2. ~transitionAllowed(j, "finalizing")
        BY <1>1, <2>3, <3>1 DEF RecordOutcome, Goto, IInv, TypeOK
      <4>3. status[j] \in {"failed", "cancelled"}
        BY <2>1, <3>1, <4>2, Sources DEF PhaseOK, transitionAllowed
      <4>4. QED
        BY <4>1, <4>2, <4>3 DEF transitionJob, isTerminal, TERMINAL_STATUSES
    <3>2. CASE pc[w][j] = "finishing"
      <4>1. \E err : transitionJob(j, outcome[w][j].status, err, outcome[w][j].prUrl)
        BY <2>3, <3>2 DEF RecordOutcome, Record
      <4>2. status[j] \in {"finalizing", "failed"}
        BY <2>1, <3>2 DEF PhaseOK
      <4>3. \/ status'[j] = outcome[w][j].status
            \/ status'[j] = status[j] /\ status[j] # "finalizing"
        BY <2>1, <2>2, <4>1, <4>2, TransitionEffect, Sources
      <4>4. QED
        BY <2>2, <4>2, <4>3 DEF isTerminal, TERMINAL_STATUSES
    <3>3. CASE pc[w][j] = "marking"
      BY <1>1, <2>3, <3>3 DEF RecordOutcome, Goto, IInv, TypeOK
    <3>4. QED
      BY <2>3, <3>1, <3>2, <3>3 DEF RecordOutcome
  <2>4. ASSUME RecordError(w, j) PROVE Settled(w, j)
    <3>1. \/ byUser[w][j] /\ transitionJob(j, "cancelled", "cancelled_by_user", prUrl[j])
          \/ \E err : transitionJob(j, "failed", err, prUrl[j])
      BY <2>4 DEF RecordError
    <3>2. status[j] \in {"preparing", "running", "finalizing"} \/ isTerminal(status[j])
      BY <2>1 DEF Unclaimed, JOB_STATUSES, ACTIVE_STATUSES, isTerminal
    <3>3. CASE byUser[w][j] /\ transitionJob(j, "cancelled", "cancelled_by_user", prUrl[j])
      <4>1. \/ status'[j] = "cancelled"
            \/ status'[j] = status[j] /\ status[j] \notin {"preparing", "running"}
        BY <2>1, <3>3, TransitionEffect, Sources
      <4>2. QED
        BY <3>2, <3>3, <4>1, <1>f DEF isTerminal, TERMINAL_STATUSES, LeftToTheReaper
    <3>4. CASE \E err : transitionJob(j, "failed", err, prUrl[j])
      <4>1. \/ status'[j] = "failed"
            \/ status'[j] = status[j] /\ status[j] \notin {"preparing", "running", "finalizing"}
        BY <2>1, <3>4, TransitionEffect, Sources
      <4>2. QED
        BY <3>2, <4>1 DEF isTerminal, TERMINAL_STATUSES
    <3>5. QED
      BY <3>1, <3>3, <3>4
  <2>4a. ASSUME CatchFails(w, j) PROVE Settled(w, j)
    <3>1. j \in FaultyJobs /\ pc[w][j] = "catching" /\ (RecordError(w, j) \/ UNCHANGED storeVars)
      BY <2>4a DEF CatchFails
    <3>2. mode[w] = "stopping"
      <4>1. pending[w] = {} \/ mode[w] = "stopping"
        BY <1>1 DEF StopInv
      <4>2. QED
        BY <2>4a, <4>1 DEF CatchFails
    <3>3. CASE UNCHANGED storeVars
      <4>1. status'[j] = status[j] /\ (status[j] \in ACTIVE_STATUSES \/ isTerminal(status[j]))
        BY <2>1, <3>3
        DEF storeVars, Unclaimed, JOB_STATUSES, ACTIVE_STATUSES, isTerminal
      <4>2. QED
        BY <3>1, <3>2, <4>1 DEF LeftToTheReaper
    <3>4. QED
      BY <2>4, <3>1, <3>3
  <2>5. RecordOutcome(w, j) \/ CatchError(w, j) \/ CatchFails(w, j)
    <3>1. ASSUME NEW v \in Workers, Process(v) PROVE FALSE
      BY <1>1, <3>1
      DEF Process, Start, BeginClaim, lockOldest, Heartbeat, ReapSelect, Stop, GraceExpires,
          Exit, Crash, Dies, execVars, IInv, TypeOK
    <3>2. ASSUME NEW v \in Workers, NEW k \in Jobs, Execute(v, k)
          PROVE v = w /\ k = j /\ (RecordOutcome(w, j) \/ CatchError(w, j) \/ CatchFails(w, j))
      <4>1. ASSUME Runner(v, k) PROVE FALSE
        <5>1. \E there \in {"working", "publishing", "pushed", "returned", "catching"} :
                pc' = [pc EXCEPT ![v][k] = there]
          BY <4>1
          DEF Runner, MarkRunning, RunnerFails, RunnerSucceeds, PointOfNoReturn, Push,
              OpenPullRequest, RunnerThrows, Returns, Goto
        <5>2. QED
          BY <1>1, <5>1 DEF IInv, TypeOK
      <4>2. ASSUME CheckAborted(v, k) \/ RecordFails(v, k) PROVE FALSE
        <5>1. \E there \in {"marking", "catching"} : pc' = [pc EXCEPT ![v][k] = there]
          BY <4>2 DEF CheckAborted, RecordFails, Goto
        <5>2. QED
          BY <1>1, <5>1 DEF IInv, TypeOK
      <4>3. ASSUME RecordOutcome(v, k) \/ CatchError(v, k) \/ CatchFails(v, k)
            PROVE v = w /\ k = j
        <5>1. \E there \in Steps : pc' = [pc EXCEPT ![v][k] = there]
          BY <4>3 DEF RecordOutcome, CatchError, CatchFails, Settles, Goto, Steps
        <5>2. QED
          BY <1>1, <5>1 DEF IInv, TypeOK
      <4>4. QED
        BY <3>2, <4>1, <4>2, <4>3 DEF Execute
    <3>3. ASSUME NEW v \in Workers, NEW k \in Jobs,
                 \/ CommitClaim(v, k) \/ ClaimFails(v, k) \/ Launch(v, k)
                 \/ PollCancel(v, k) \/ ReapOne(v, k)
          PROVE FALSE
      <4>1. ASSUME Launch(v, k) PROVE FALSE
        <5>1. pc \in [Workers -> [Jobs -> Steps]] /\ pc' = [pc EXCEPT ![v][k] = "setup"]
          BY <1>1, <4>1 DEF Launch, IInv, TypeOK
        <5>2. pc'[w][j] = pc[w][j] \/ pc'[w][j] = "setup"
          BY <5>1
        <5>3. QED
          BY <1>1, <5>2
      <4>2. ~PollCancel(v, k)
        BY <1>1 DEF PollCancel
      <4>3. ~CommitClaim(v, k) /\ ~ClaimFails(v, k) /\ ~ReapOne(v, k)
        BY <1>1 DEF CommitClaim, ClaimFails, ReapOne, execVars
      <4>4. QED
        BY <3>3, <4>1, <4>2, <4>3
    <3>4. ASSUME NEW k \in Jobs, Api(k) \/ Lapse(k) PROVE FALSE
      BY <1>1, <3>4
      DEF Api, CreateJob, CancelRead, CancelQueued, CancelFlag, Lapse, execVars
    <3>5. QED
      BY <1>1, <3>1, <3>2, <3>3, <3>4 DEF Next
  <2>6. QED
    BY <2>3, <2>4, <2>4a, <2>5 DEF CatchError
<1>2. ASSUME IInv, StopInv, [Next]_vars
      PROVE [\A w \in Workers, j \in Jobs :
               pc[w][j] # "idle" /\ pc'[w][j] = "idle" /\ mode'[w] # "down"
                 => isTerminal(status'[j]) \/ LeftToTheReaper(w, j)]_vars
  BY <1>1, <1>2
<1>3. QED
  <2>1. Init => StopInv
    BY DEF Init, StopInv
  <2>2. QED
    BY <1>2, <2>1, StopStep, Safety, PTL DEF Spec, SettledIsTerminal
=============================================================================
