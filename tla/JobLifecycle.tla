---------------------------- MODULE JobLifecycle ----------------------------
(***************************************************************************)
(* What the jobs table promises to everything that reads it (the bot, the  *)
(* API, the dashboard): a job is created queued, is taken by one worker    *)
(* once, moves only along the state machine, stops at a terminal status,   *)
(* and its event log is the list of the moves it made.  No worker, no      *)
(* heartbeat, no cancel flag and no GitHub here: WorkerPool implements it. *)
(***************************************************************************)
EXTENDS JobStates

CONSTANTS Jobs, Workers, NoWorker

VARIABLES status, owner, log

lifecycleVars == <<status, owner, log>>

Init ==
  /\ status = [j \in Jobs |-> Absent]
  /\ owner = [j \in Jobs |-> NoWorker]
  /\ log = [j \in Jobs |-> <<>>]

Create(j) ==
  /\ status[j] = Absent
  /\ status' = [status EXCEPT ![j] = "queued"]
  /\ log' = [log EXCEPT ![j] = <<"queued">>]
  /\ UNCHANGED owner

(* A move and its event are one step: one SQL transaction writes both. *)
MoveTo(j, to) ==
  /\ canTransition(status[j], to)
  /\ status' = [status EXCEPT ![j] = to]
  /\ log' = [log EXCEPT ![j] = Append(@, to)]

Claim(j, w) ==
  /\ owner[j] = NoWorker
  /\ MoveTo(j, "preparing")
  /\ owner' = [owner EXCEPT ![j] = w]

Advance(j, to) ==
  /\ to # "preparing"
  /\ MoveTo(j, to)
  /\ UNCHANGED owner

Next ==
  \E j \in Jobs :
    \/ Create(j)
    \/ \E w \in Workers : Claim(j, w)
    \/ \E to \in JOB_STATUSES : Advance(j, to)

Spec == Init /\ [][Next]_lifecycleVars

TypeOK ==
  /\ status \in [Jobs -> JOB_STATUSES \cup {Absent}]
  /\ owner \in [Jobs -> Workers \cup {NoWorker}]
  /\ log \in [Jobs -> Seq(JOB_STATUSES)]

(* The notifier reads job_events and never the history of the row: what it can
   post about a job is a walk of the state machine that ends where the row is. *)
EventsTellHistory ==
  \A j \in Jobs :
    IF status[j] = Absent
    THEN log[j] = <<>>
    ELSE IsWalk(log[j]) /\ log[j][Len(log[j])] = status[j]

IInv == TypeOK /\ EventsTellHistory
=============================================================================
