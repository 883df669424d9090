--------------------------- MODULE RunnerContract ---------------------------
(***************************************************************************)
(* What a worker's #execute can see of a runner (apps/worker/src/          *)
(* runner.ts): the abstract specification of runner.run, step for step the *)
(* one the Runner action of WorkerPool assumes of every execution.         *)
(***************************************************************************)

CONSTANTS Publishes   (* the runner may change code: it is not a test run *)

VARIABLES
  phase,     (* "gone" after the process died *)
  aborted,   (* ctx.signal.aborted *)
  remote,    (* what the job left on GitHub *)
  outcome    (* the RunOutcome it returned *)

vars == <<phase, aborted, remote, outcome>>

Outcomes == [status : {"succeeded", "partial", "failed"}, prUrl : BOOLEAN]
Failure == [status |-> "failed", prUrl |-> FALSE]

InRunner == {"setup", "working", "publishing", "pushed"}

TypeOK ==
  /\ phase \in InRunner \cup {"returned", "catching", "gone"}
  /\ aborted \in BOOLEAN
  /\ remote \in {"none", "branch", "pr"}
  /\ outcome \in Outcomes

Init ==
  /\ phase = "setup"
  /\ aborted = FALSE
  /\ remote = "none"
  /\ outcome = Failure

Abort ==
  /\ aborted' = TRUE
  /\ UNCHANGED <<phase, remote, outcome>>

Returns(out) ==
  /\ phase' = "returned"
  /\ outcome' = out
  /\ UNCHANGED aborted

MarkRunning ==
  /\ phase = "setup"
  /\ phase' = "working"
  /\ UNCHANGED <<aborted, remote, outcome>>

(* A failed push is a PushError, whether or not the branch got there. *)
Fails ==
  /\ \/ phase \in {"setup", "working"} /\ UNCHANGED remote
     \/ phase = "publishing" /\ remote' \in {"none", "branch"}
  /\ Returns(Failure)

Succeeds ==
  /\ phase = "working"
  /\ Returns([status |-> "succeeded", prUrl |-> FALSE])
  /\ UNCHANGED remote

PointOfNoReturn ==
  /\ Publishes
  /\ phase = "working"
  /\ ~aborted
  /\ phase' = "publishing"
  /\ UNCHANGED <<aborted, remote, outcome>>

Push ==
  /\ phase = "publishing"
  /\ phase' = "pushed"
  /\ remote' = "branch"
  /\ UNCHANGED <<aborted, outcome>>

OpenPullRequest ==
  /\ phase = "pushed"
  /\ remote' = "pr"
  /\ \E s \in {"succeeded", "partial"} : Returns([status |-> s, prUrl |-> TRUE])

Throws ==
  /\ phase \in InRunner
  /\ \/ UNCHANGED remote
     \/ phase = "publishing" /\ remote' = "branch"
     \/ phase = "pushed" /\ remote' = "pr"
  /\ phase' = "catching"
  /\ UNCHANGED <<aborted, outcome>>

Dies ==
  /\ phase' = "gone"
  /\ UNCHANGED <<aborted, remote, outcome>>

Next ==
  \/ Abort
  \/ MarkRunning
  \/ Fails
  \/ Succeeds
  \/ PointOfNoReturn
  \/ Push
  \/ OpenPullRequest
  \/ Throws
  \/ Dies

Spec == Init /\ [][Next]_vars
=============================================================================
