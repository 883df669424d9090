------------------------------ MODULE CodeJob ------------------------------
(***************************************************************************)
(* AgentJobRunner (apps/worker/src/runners/agent-job.ts): `/task` and      *)
(* `/bugreport`.  The agent edits the checkout in the sandbox; the runner  *)
(* exports the patch, checks it, runs the tests, pushes a branch and opens *)
(* a pull request.  The agent loop is AgentLoop; here it is one await.     *)
(* Installs only leave notes, and a second one belongs to the test run.    *)
(***************************************************************************)
EXTENDS RunnerBase

VARIABLES
  remote,    (* what is on GitHub: "none", "branch", "pr" *)
  draft,     (* the pull request is a draft *)
  complete,  (* the agent finished and says so *)
  diff,      (* what the agent changed: "none" yet, "empty", "forbidden", "clean" *)
  patch,     (* the patch as the runner read it *)
  ran,       (* the final test command's exit code and summary, once it ran *)
  passed,    (* result.tests.passed: "unknown" for null *)
  result     (* result.outcome *)

resultVars == <<complete, diff, patch, ran, passed, result>>
vars == <<baseVars, remote, draft, resultVars>>

NotRun == [exit |-> 0, summary |-> "not run"]

PullRequest(status) == [status |-> status, prUrl |-> TRUE]
NoChanges == [status |-> "succeeded", prUrl |-> FALSE]

Init ==
  /\ BaseInit
  /\ remote = [r \in Runs |-> "none"]
  /\ draft = [r \in Runs |-> FALSE]
  /\ complete = [r \in Runs |-> FALSE]
  /\ diff = [r \in Runs |-> "none"]
  /\ patch = [r \in Runs |-> "none"]
  /\ ran = [r \in Runs |-> NotRun]
  /\ passed = [r \in Runs |-> "unknown"]
  /\ result = [r \in Runs |-> "error"]

-----------------------------------------------------------------------------
(* Setup. *)

(* checkRepoAccess and the checks around it. *)
Access(r) ==
  /\ at[r] = "access"
  /\ GoesOn(r, "checkout") \/ Fails(r) \/ Throws(r)
  /\ UNCHANGED <<aborted, hostVars, remote, draft, resultVars>>

(* A repository that cannot be planned is worked on without commands. *)
Checkout(r) ==
  /\ CheckoutFails(r) \/ (CheckedOut(r) /\ GoesOnUnlessAborted(r, "creating"))
  /\ UNCHANGED <<remote, draft, resultVars>>

(* excludes, .env and install: a failed install is only noted. *)
Install(r) ==
  /\ at[r] = "installing"
  /\ GoesOnUnlessAborted(r, "baseline") \/ Throws(r)
  /\ UNCHANGED <<aborted, hostVars, remote, draft, resultVars>>

Baseline(r) ==
  /\ at[r] = "baseline"
  /\ GoesOn(r, "prompt") \/ Fails(r) \/ Throws(r)
  /\ UNCHANGED <<aborted, hostVars, remote, draft, resultVars>>

(* The prompt with its attachments, and the last look at the clock. *)
Prompt(r) ==
  /\ at[r] = "prompt"
  /\ GoesOn(r, "agent") \/ Fails(r) \/ Throws(r)
  /\ UNCHANGED <<aborted, hostVars, remote, draft, resultVars>>

-----------------------------------------------------------------------------
(* The agent and its changes. *)

(* It is aborted, blocked, throws, or leaves changes behind; only a finish call
   can say that the work is complete. *)
RunAgent(r) ==
  /\ at[r] = "agent"
  /\ \/ /\ GoesOn(r, "export")
        /\ \E c \in BOOLEAN : complete' = [complete EXCEPT ![r] = c]
        /\ \E d \in {"empty", "forbidden", "clean"} : diff' = [diff EXCEPT ![r] = d]
     \/ (Fails(r) \/ Throws(r)) /\ UNCHANGED <<complete, diff>>
  /\ UNCHANGED <<aborted, hostVars, remote, draft, patch, ran, passed, result>>

(* readFile gives null, which stands for an empty patch, when docker fails. *)
Reads(r) ==
  \/ patch' = [patch EXCEPT ![r] = diff[r]]
  \/ patch' = [patch EXCEPT ![r] = "empty"]

(* Mutant: violations are recorded and the run goes on. *)
ExportNoted(r) ==
  /\ at[r] = "export"
  /\ Reads(r)
  /\ GoesOn(r, "testing")
  /\ UNCHANGED <<aborted, hostVars, remote, draft, complete, diff, ran, passed, result>>

(* Exports the patch and checks it. *)
Export(r) ==
  /\ at[r] = "export"
  /\ \/ (Fails(r) \/ Throws(r)) /\ UNCHANGED <<patch, result>>
     \/ /\ Reads(r)
        /\ \/ /\ patch'[r] = "empty"
              /\ result' = [result EXCEPT ![r] = "no_changes"]
              /\ IF complete[r] THEN Ends(r, "returned", NoChanges) ELSE Fails(r)
           \/ /\ patch'[r] = "forbidden"
              /\ result' = [result EXCEPT ![r] = "rejected"]
              /\ Fails(r)
           \/ /\ patch'[r] = "clean"
              /\ GoesOn(r, "testing")
              /\ UNCHANGED result
  /\ UNCHANGED <<aborted, hostVars, remote, draft, complete, diff, ran, passed>>

(* No command or no time, a run that timed out, or a run's exit code and summary. *)
Judges(r) ==
  \/ /\ UNCHANGED <<ran, passed>>
  \/ /\ ran' = [ran EXCEPT ![r] = [exit |-> 124, summary |-> "absent"]]
     /\ passed' = [passed EXCEPT ![r] = "no"]
  \/ \E exit \in Exits, summary \in Summaries :
       /\ ran' = [ran EXCEPT ![r] = [exit |-> exit, summary |-> summary]]
       /\ passed' = [passed EXCEPT ![r] =
            IF noTestsCollected(exit, summary) THEN "unknown"
            ELSE IF testsPassed(exit, summary) THEN "yes" ELSE "no"]

(* Mutant: the signal is not looked at after the tests. *)
FinalTestsUnchecked(r) ==
  /\ at[r] = "testing"
  /\ \/ Throws(r) /\ UNCHANGED <<ran, passed>>
     \/ GoesOn(r, "author") /\ Judges(r)
  /\ UNCHANGED <<aborted, hostVars, remote, draft, complete, diff, patch, result>>

(* #replan may find a test command, lose it or fall back to the one there was;
   a second install only leaves notes.  Then the last look at the signal. *)
FinalTests(r) ==
  /\ at[r] = "testing"
  /\ \/ Throws(r) /\ UNCHANGED <<ran, passed>>
     \/ GoesOnUnlessAborted(r, "author") /\ Judges(r)
  /\ UNCHANGED <<aborted, hostVars, remote, draft, complete, diff, patch, result>>

-----------------------------------------------------------------------------
(* Past the point of no return. *)

GetAuthor(r) ==
  /\ at[r] = "author"
  /\ GoesOn(r, "pushing") \/ Throws(r)
  /\ UNCHANGED <<aborted, hostVars, remote, draft, resultVars>>

(* pushPatch: any failing git command is a PushError, and one that could not be
   started throws, before the push or after it. *)
Push(r) ==
  /\ at[r] = "pushing"
  /\ pushdir' = [pushdir EXCEPT ![r] = TRUE]
  /\ \/ remote' = [remote EXCEPT ![r] = "branch"] /\ GoesOn(r, "opening")
     \/ /\ \E there \in {"none", "branch"} : remote' = [remote EXCEPT ![r] = there]
        /\ Fails(r) \/ Throws(r)
  /\ UNCHANGED <<aborted, sandbox, workdir, volume, container, old, faults, draft,
                 resultVars>>

(* Mutant: only failing tests make a draft. *)
readyUnlessFailing(r) == complete[r] /\ passed[r] # "no"

ready(r) == complete[r] /\ passed[r] = "yes"

Opens(r) ==
  /\ remote' = [remote EXCEPT ![r] = "pr"]
  /\ draft' = [draft EXCEPT ![r] = ~ready(r)]

(* Mutant: the outcome says succeeded for partial work as well. *)
OpenPullRequestSucceeded(r) ==
  /\ at[r] = "opening"
  /\ Opens(r)
  /\ result' = [result EXCEPT ![r] = IF ready(r) THEN "pr_opened" ELSE "draft_pr"]
  /\ Ends(r, "returned", PullRequest("succeeded"))
  /\ UNCHANGED <<aborted, hostVars, complete, diff, patch, ran, passed>>

OpenPullRequest(r) ==
  /\ at[r] = "opening"
  /\ \/ /\ Opens(r)
        /\ result' = [result EXCEPT ![r] = IF ready(r) THEN "pr_opened" ELSE "draft_pr"]
        /\ Ends(r, "returned", PullRequest(IF complete[r] THEN "succeeded" ELSE "partial"))
     \/ Throws(r) /\ Opens(r) /\ UNCHANGED result
     \/ Throws(r) /\ UNCHANGED <<remote, draft, result>>
  /\ UNCHANGED <<aborted, hostVars, complete, diff, patch, ran, passed>>

-----------------------------------------------------------------------------
Host(r) ==
  \/ Create(r)
  \/ CopyIn(r)
  \/ MarkRunning(r)
  \/ RemoveContainer(r)
  \/ RemoveVolume(r)
  \/ RemoveDirectories(r, "ended")

World(r) == Abort(r) \/ Crash(r) \/ Ages(r) \/ ReapOrphan(r)

Next ==
  \E r \in Runs :
    \/ (Host(r) \/ World(r)) /\ UNCHANGED <<remote, draft, resultVars>>
    \/ Access(r)
    \/ Checkout(r)
    \/ Install(r)
    \/ Baseline(r)
    \/ Prompt(r)
    \/ RunAgent(r)
    \/ Export(r)
    \/ FinalTests(r)
    \/ GetAuthor(r)
    \/ Push(r)
    \/ OpenPullRequest(r)

Spec == Init /\ [][Next]_vars

(* Some worker's reaper keeps running and hours pass; the runs themselves are
   not assumed to end (copyIn and readFile have no timeout). *)
FairSpec ==
  /\ Spec
  /\ \A r \in Runs : WF_vars(Ages(r) /\ UNCHANGED <<remote, draft, resultVars>>)
  /\ \A r \in Runs : WF_vars(ReapOrphan(r) /\ UNCHANGED <<remote, draft, resultVars>>)

-----------------------------------------------------------------------------
(* The runner keeps the contract that the model of the worker pool builds on: no
   push after an abort it could see, and an outcome that tells what is on GitHub. *)
Contract(r) ==
  INSTANCE RunnerContract
    WITH Publishes <- TRUE, phase <- phaseOf(r), aborted <- aborted[r], remote <- remote[r],
         outcome <- ending[r].out

KeepsContract ==
  /\ \A r \in Runs : Contract(r)!Init
  /\ [][\A r \in Runs : Contract(r)!Next \/ UNCHANGED Contract(r)!vars]_vars

(* Whatever is on GitHub went through checkPatch: agents cannot publish changes
   to protected files, however the run continues after the export. *)
PublishedIsChecked == \A r \in Runs : remote[r] # "none" => patch[r] = "clean"

(* "Ready for review if tests pass, otherwise draft": a pull request is only
   ready if the agent finished its work and the final test command ran and
   succeeded, however the two ended before the pull request was opened. *)
ReadyIsEarned ==
  \A r \in Runs : remote[r] = "pr" /\ ~draft[r] =>
    complete[r] /\ ran[r].exit = 0 /\ ran[r].summary \in {"absent", "empty", "green"}

(* The result that is stored and posted tells how the run ended and what is on
   GitHub: its outcome, the job's status and the pull request belong together. *)
ResultIsTrue ==
  \A r \in Runs : ending[r].how = "returned" =>
    LET status == ending[r].out.status
    IN /\ ending[r].out.prUrl <=> remote[r] = "pr"
       /\ ending[r].out.prUrl <=> result[r] \in {"pr_opened", "draft_pr"}
       /\ status = "partial" => result[r] = "draft_pr" /\ ~complete[r]
       /\ status = "succeeded" => complete[r] /\ result[r] \notin {"error", "rejected"}
       /\ result[r] = "pr_opened" => ~draft[r]

(* "`no_changes`: nothing to push" (packages/core/src/results.ts): a job that
   succeeded without a pull request had nothing to push. *)
NoChangesMeansNone ==
  \A r \in Runs : ending[r] = [how |-> "returned", out |-> NoChanges] => diff[r] = "empty"
=============================================================================
