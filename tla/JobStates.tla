----------------------------- MODULE JobStates -----------------------------
(***************************************************************************)
(* The job state machine of packages/core: the statuses a row of the jobs  *)
(* table can hold and the moves the guarded SQL updates allow.             *)
(***************************************************************************)
EXTENDS Naturals, Sequences

TERMINAL_STATUSES == {"succeeded", "partial", "failed", "cancelled"}

ACTIVE_STATUSES == {"preparing", "running", "finalizing"}

JOB_STATUSES == {"queued"} \cup ACTIVE_STATUSES \cup TERMINAL_STATUSES

(* TRANSITIONS as a relation: each status with the statuses it may become. *)
TRANSITIONS ==
  ({"queued"}       \X {"preparing", "cancelled", "failed"}) \cup
  ({"preparing"}    \X {"running", "failed", "cancelled"})   \cup
  ({"running"}      \X {"finalizing", "failed", "cancelled"}) \cup
  ({"finalizing"}   \X {"succeeded", "partial", "failed"})

canTransition(from, to) == <<from, to>> \in TRANSITIONS

sourcesFor(to) == {from \in JOB_STATUSES : canTransition(from, to)}

isTerminal(s) == s \in TERMINAL_STATUSES

(* A row that createJob has not inserted yet has no status. *)
Absent == "absent"

(* The statuses of a job, oldest first, as its job_events rows record them:
   `created` stands for "queued" and `status.x` for x. *)
IsWalk(path) ==
  /\ Len(path) > 0
  /\ path[1] = "queued"
  /\ \A i \in 1 .. Len(path) - 1 : canTransition(path[i], path[i + 1])
=============================================================================
