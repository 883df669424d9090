------------------------------ MODULE TestJob ------------------------------
(***************************************************************************)
(* RuntestRunner (apps/worker/src/runners/runtest.ts): `/runtest` installs *)
(* and tests a checkout, lets an agent explain failures, and reports to    *)
(* the pull request if that is what was tested: a commit status, and one   *)
(* comment that every run updates (packages/github/src/index.ts).  The     *)
(* runs on one pull request may overlap.                                   *)
(***************************************************************************)
EXTENDS RunnerBase

CONSTANTS Explains   (* there is an agent to analyse failures *)

ASSUME TestJobAssumption == Explains \in BOOLEAN

VARIABLES
  target,    (* the pull request is known to be what this run tests *)
  commit,    (* result.commit is known *)
  ran,       (* the test command's exit code and summary, once it ran *)
  result,    (* result.outcome *)
  statuses,  (* the commit status a run left on its commit *)
  comments,  (* the marked comments of the pull request, as [run, outcome] *)
  existing,  (* the index of the comment a run found, 0 if none *)
  clash      (* a run looked for the comment while another had yet to post it *)

localVars == <<target, commit, ran, result>>
github == <<statuses, comments, existing, clash>>
vars == <<baseVars, localVars, github>>

NotRun == [exit |-> 0, summary |-> "not run"]
Success == [status |-> "succeeded", prUrl |-> FALSE]

Init ==
  /\ BaseInit
  /\ target = [r \in Runs |-> FALSE]
  /\ commit = [r \in Runs |-> FALSE]
  /\ ran = [r \in Runs |-> NotRun]
  /\ result = [r \in Runs |-> "error"]
  /\ statuses = [r \in Runs |-> "none"]
  /\ comments = <<>>
  /\ existing = [r \in Runs |-> 0]
  /\ clash = FALSE

-----------------------------------------------------------------------------
(* The run. *)

Access(r) ==
  /\ at[r] = "access"
  /\ \/ /\ GoesOn(r, "checkout")
        /\ \E pr \in BOOLEAN : target' = [target EXCEPT ![r] = pr]
     \/ (Fails(r) \/ Throws(r)) /\ UNCHANGED target
  /\ UNCHANGED <<aborted, hostVars, commit, ran, result, github>>

(* Planning fails without a configuration that can be read or a test command. *)
Checkout(r) ==
  /\ \/ CheckoutFails(r) /\ UNCHANGED commit
     \/ /\ CheckedOut(r)
        /\ commit' = [commit EXCEPT ![r] = TRUE]
        /\ \/ GoesOnUnlessAborted(r, "creating")
           \/ ~aborted[r] /\ Fails(r)
  /\ UNCHANGED <<target, ran, result, github>>

(* #step looks at the signal before and after its command; a plan without
   install has no such step. *)
Install(r) ==
  /\ at[r] = "installing"
  /\ \/ GoesOn(r, "testing")
     \/ Throws(r)
     \/ ~aborted[r] /\ Fails(r)
  /\ UNCHANGED <<aborted, hostVars, localVars, github>>

(* Mutant: whatever ends with an exit code is a verdict. *)
ConclusiveAlways(exit, summary) == exit \in Exits

(* Without a report an exit code other than 0 and 1 is a crash. *)
Conclusive(exit, summary) ==
  /\ ~noTestsCollected(exit, summary)
  /\ summary # "absent" \/ exit \in {0, 1}

(* The test command and its report. *)
Test(r) ==
  /\ at[r] = "testing"
  /\ \/ Throws(r) /\ UNCHANGED <<ran, result>>
     \/ ~aborted[r] /\ Fails(r) /\ UNCHANGED <<ran, result>>
     \/ \E exit \in Exits, summary \in Summaries :
          /\ ~aborted[r]
          /\ ran' = [ran EXCEPT ![r] = [exit |-> exit, summary |-> summary]]
          /\ \/ ~Conclusive(exit, summary) /\ Fails(r) /\ UNCHANGED result
             \/ /\ Conclusive(exit, summary) /\ testsPassed(exit, summary)
                /\ result' = [result EXCEPT ![r] = "passed"]
                /\ Ends(r, "returned", Success)
             \/ /\ Conclusive(exit, summary) /\ ~testsPassed(exit, summary)
                /\ result' = [result EXCEPT ![r] = "failed"]
                /\ IF Explains THEN GoesOn(r, "analysing") ELSE Ends(r, "returned", Success)
  /\ UNCHANGED <<aborted, hostVars, target, commit, github>>

(* analyzeFailures: what it throws ends the run, verdict or not. *)
Analyse(r) ==
  /\ at[r] = "analysing"
  /\ \/ ~aborted[r] /\ Ends(r, "returned", Success)
     \/ Throws(r)
  /\ UNCHANGED <<aborted, hostVars, localVars, github>>

-----------------------------------------------------------------------------
(* The report, after the finally block. *)

(* Mutant: the report is part of the clean-up. *)
AfterwardsAlways(r) ==
  IF target[r] THEN IF commit[r] THEN "status" ELSE "listing"
  ELSE "ended"

(* What follows the finally block: only a run that returned has a report. *)
Afterwards(r) ==
  IF target[r] /\ ending[r].how = "returned"
  THEN IF commit[r] THEN "status" ELSE "listing"
  ELSE "ended"

Cleanup(r) ==
  /\ \/ RemoveContainer(r)
     \/ RemoveVolume(r)
     \/ RemoveDirectories(r, Afterwards(r))
  /\ UNCHANGED <<localVars, github>>

(* Mutant: the signal is looked at once more, as if there were no result yet. *)
PostStatusChecked(r) ==
  /\ at[r] = "status"
  /\ \/ statuses' = [statuses EXCEPT ![r] = result[r]] /\ GoesOnUnlessAborted(r, "listing")
     \/ UNCHANGED statuses /\ GoesOn(r, "ended")
  /\ UNCHANGED <<aborted, hostVars, localVars, comments, existing, clash>>

(* A request that fails, applied or not, ends the report. *)
PostStatus(r) ==
  /\ at[r] = "status"
  /\ \/ statuses' = [statuses EXCEPT ![r] = result[r]] /\ GoesOn(r, "listing")
     \/ statuses' = [statuses EXCEPT ![r] = result[r]] /\ GoesOn(r, "ended")
     \/ UNCHANGED statuses /\ GoesOn(r, "ended")
  /\ UNCHANGED <<aborted, hostVars, localVars, comments, existing, clash>>

WillPost(r) == at[r] = "commenting" /\ existing[r] = 0

(* upsertIssueComment looks for the marker among the comments. *)
ListComments(r) ==
  /\ at[r] = "listing"
  /\ \/ /\ existing' = [existing EXCEPT ![r] = IF comments = <<>> THEN 0 ELSE 1]
        /\ clash' = (clash \/ \E q \in Runs \ {r} : WillPost(q))
        /\ GoesOn(r, "commenting")
     \/ GoesOn(r, "ended") /\ UNCHANGED <<existing, clash>>
  /\ UNCHANGED <<aborted, hostVars, localVars, statuses, comments>>

(* Mutant: it posts what it should update. *)
UpsertPosts(r) == comments' = Append(comments, [run |-> r, outcome |-> result[r]])

Upsert(r) ==
  comments' = IF existing[r] = 0
              THEN Append(comments, [run |-> r, outcome |-> result[r]])
              ELSE [comments EXCEPT ![existing[r]] = [run |-> r, outcome |-> result[r]]]

PostComment(r) ==
  /\ at[r] = "commenting"
  /\ Upsert(r) \/ UNCHANGED comments
  /\ GoesOn(r, "ended")
  /\ UNCHANGED <<aborted, hostVars, localVars, statuses, existing, clash>>

-----------------------------------------------------------------------------
Host(r) == Create(r) \/ CopyIn(r) \/ MarkRunning(r)

World(r) == Abort(r) \/ Crash(r) \/ Ages(r) \/ ReapOrphan(r)

Next ==
  \E r \in Runs :
    \/ (Host(r) \/ World(r)) /\ UNCHANGED <<localVars, github>>
    \/ Access(r)
    \/ Checkout(r)
    \/ Install(r)
    \/ Test(r)
    \/ Analyse(r)
    \/ Cleanup(r)
    \/ PostStatus(r)
    \/ ListComments(r)
    \/ PostComment(r)

Spec == Init /\ [][Next]_vars

-----------------------------------------------------------------------------
(* The contract of the worker pool, for a runner that publishes nothing. *)
Contract(r) ==
  INSTANCE RunnerContract
    WITH Publishes <- FALSE, phase <- phaseOf(r), aborted <- aborted[r], remote <- "none",
         outcome <- ending[r].out

KeepsContract ==
  /\ \A r \in Runs : Contract(r)!Init
  /\ [][\A r \in Runs : Contract(r)!Next \/ UNCHANGED Contract(r)!vars]_vars

(* The verdict, the job's status and what the test command did belong together:
   `succeeded` means that there is a verdict, not that the tests passed, and no
   verdict comes from a command that crashed or found no tests. *)
VerdictIsTrue ==
  \A r \in Runs : ending[r].how = "returned" =>
    LET exit == ran[r].exit
        summary == ran[r].summary
    IN /\ ending[r].out.status = "failed" <=> result[r] = "error"
       /\ result[r] = "passed" => exit = 0 /\ summary \in {"absent", "empty", "green"}
       /\ result[r] = "failed" =>
            \/ summary = "red"
            \/ summary = "green" /\ exit # 0
            \/ summary = "empty" /\ exit \notin {0, 5}
            \/ summary = "absent" /\ exit = 1

(* The pull request shows nothing but the result that a runner returned, and
   nothing of runs that threw.  A stop that comes after the result, during the
   clean-up or the report, does not take it back: worker.ts then records the job
   as cancelled or failed, and this says nothing of the row. *)
ReportsAgree ==
  /\ \A r \in Runs : statuses[r] # "none" =>
       target[r] /\ ending[r].how = "returned" /\ statuses[r] = result[r]
  /\ \A n \in DOMAIN comments :
       LET r == comments[n].run
       IN target[r] /\ ending[r].how = "returned" /\ comments[n].outcome = result[r]

(* "Updated in place on re-run": the runs of a pull request share one comment,
   though requests fail, answers get lost and runs break off, as long as no run
   looked for it while another was about to post it. *)
OneComment == clash \/ Len(comments) <= 1
=============================================================================
