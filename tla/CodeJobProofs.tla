--------------------------- MODULE CodeJobProofs ---------------------------
(***************************************************************************)
(* Proofs about CodeJob, for any number of runs and of faults, with or     *)
(* without crashes.                                                        *)
(***************************************************************************)
EXTENDS CodeJob, TLAPS

Working == {"installing", "baseline", "prompt", "agent", "export", "testing"}
Publishing == {"author", "pushing"}
Checked == {"testing", "author", "pushing", "opening"}
WorkStages == SetupStages \cup Working \cup Publishing \cup {"opening"}
Removing == {"removing container", "removing volume", "removing directories"}
Stages == WorkStages \cup Removing \cup Over

Statuses == {"succeeded", "partial", "failed"}
Endings == [how : {"going", "returned", "threw"}, out : [status : Statuses, prUrl : BOOLEAN]]
Patches == {"none", "empty", "forbidden", "clean"}
Tried == [exit : Exits \cup {124}, summary : Summaries \cup {"not run"}]

RunTypeOK ==
  /\ at \in [Runs -> Stages]
  /\ aborted \in [Runs -> BOOLEAN]
  /\ ending \in [Runs -> Endings]
  /\ remote \in [Runs -> {"none", "branch", "pr"}]
  /\ draft \in [Runs -> BOOLEAN]
  /\ complete \in [Runs -> BOOLEAN]
  /\ diff \in [Runs -> Patches]
  /\ patch \in [Runs -> Patches]
  /\ ran \in [Runs -> Tried]
  /\ passed \in [Runs -> {"unknown", "yes", "no"}]
  /\ result \in [Runs -> {"error", "no_changes", "rejected", "draft_pr", "pr_opened"}]

HostTypeOK ==
  /\ sandbox \in [Runs -> BOOLEAN]
  /\ workdir \in [Runs -> BOOLEAN]
  /\ pushdir \in [Runs -> BOOLEAN]
  /\ volume \in [Runs -> {"none", "made", "stray"}]
  /\ container \in [Runs -> {"none", "created", "up"}]
  /\ old \in [Runs -> BOOLEAN]
  /\ faults \in Nat

(* Where a run stands tells how far it got: nothing is decided while it works,
   nothing is on GitHub before the push, and only a clean patch comes this far. *)
StageInv(r) ==
  /\ at[r] \in WorkStages => ending[r] = Going /\ result[r] = "error"
  /\ at[r] \in WorkStages \ {"opening"} => remote[r] = "none"
  /\ at[r] = "opening" => remote[r] = "branch"
  /\ at[r] \in Checked => patch[r] = "clean"

(* What the properties say of one run. *)
TestsInv(r) ==
  passed[r] = "yes" => ran[r].exit = 0 /\ ran[r].summary \in {"absent", "empty", "green"}

ReadyInv(r) == remote[r] = "pr" /\ ~draft[r] => complete[r] /\ passed[r] = "yes"

PublishInv(r) == remote[r] # "none" => patch[r] = "clean"

ResultInv(r) ==
  ending[r].how = "returned" =>
    LET status == ending[r].out.status
    IN /\ ending[r].out.prUrl <=> remote[r] = "pr"
       /\ ending[r].out.prUrl <=> result[r] \in {"pr_opened", "draft_pr"}
       /\ status = "partial" => result[r] = "draft_pr" /\ ~complete[r]
       /\ status = "succeeded" => complete[r] /\ result[r] \notin {"error", "rejected"}
       /\ result[r] = "pr_opened" => ~draft[r]

RunInv(r) == StageInv(r) /\ TestsInv(r) /\ ReadyInv(r) /\ PublishInv(r) /\ ResultInv(r)

IInv == RunTypeOK /\ \A r \in Runs : RunInv(r)

-----------------------------------------------------------------------------
(* The steps that leave GitHub and the results alone, as moves between stages. *)
Forward(from, to) ==
  \/ from \in SetupStages /\ to \in SetupStages
  \/ from = "marking" /\ to = "installing"
  \/ from \in {"installing", "baseline", "prompt"} /\ to \in {"baseline", "prompt", "agent"}
  \/ from = "author" /\ to = "pushing"
  \/ from \in Removing /\ to \in Removing \cup {"ended"}

Quiet(q) ==
  /\ UNCHANGED <<aborted, remote, draft, resultVars>>
  /\ \/ \E to \in Stages : Forward(at[q], to) /\ GoesOn(q, to)
     \/ at[q] \in SetupStages \cup Working /\ (Fails(q) \/ Throws(q))
     \/ at[q] = "author" /\ Throws(q)

LEMMA QuietSteps ==
  ASSUME NEW q \in Runs,
         \/ Host(q) /\ UNCHANGED <<remote, draft, resultVars>>
         \/ Access(q) \/ Checkout(q) \/ Install(q) \/ Baseline(q) \/ Prompt(q) \/ GetAuthor(q)
  PROVE  Quiet(q)
<1> USE DEF Quiet, Forward, Stages, WorkStages, SetupStages, Working, Publishing, Removing, Over,
            GoesOnUnlessAborted
<1>1. CASE Host(q) /\ UNCHANGED <<remote, draft, resultVars>>
  <2>1. CASE Create(q)
    BY <1>1, <2>1 DEF Create, CreateVolume, PrepareVolume, ResolveProxy, StartContainer,
       UndoContainer, UndoVolume
  <2>2. CASE CopyIn(q) \/ MarkRunning(q)
    BY <1>1, <2>2 DEF CopyIn, MarkRunning
  <2>3. CASE RemoveContainer(q) \/ RemoveVolume(q) \/ RemoveDirectories(q, "ended")
    BY <1>1, <2>3 DEF RemoveContainer, RemoveVolume, RemoveDirectories
  <2>4. QED
    BY <1>1, <2>1, <2>2, <2>3 DEF Host
<1>2. CASE Access(q) \/ Baseline(q) \/ Prompt(q)
  BY <1>2 DEF Access, Baseline, Prompt
<1>3. CASE Checkout(q)
  BY <1>3 DEF Checkout, CheckoutFails, CheckedOut
<1>4. CASE Install(q)
  BY <1>4 DEF Install
<1>5. CASE GetAuthor(q)
  BY <1>5 DEF GetAuthor
<1>6. QED
  BY <1>1, <1>2, <1>3, <1>4, <1>5

(* The clock and the reaper do not touch what this module is about. *)
LEMMA WorldSteps ==
  ASSUME NEW q \in Runs, World(q), UNCHANGED <<remote, draft, resultVars>>
  PROVE  \/ Abort(q)
         \/ Crash(q)
         \/ UNCHANGED <<at, aborted, ending, remote, draft, resultVars>>
BY DEF World, Ages, ReapOrphan

(* Next by kinds of steps. *)
LEMMA StepKinds ==
  ASSUME Next
  PROVE  \E q \in Runs :
           \/ Quiet(q)
           \/ (Abort(q) \/ Crash(q)) /\ UNCHANGED <<remote, draft, resultVars>>
           \/ UNCHANGED <<at, aborted, ending, remote, draft, resultVars>>
           \/ RunAgent(q)
           \/ Export(q)
           \/ FinalTests(q)
           \/ Push(q)
           \/ OpenPullRequest(q)
BY QuietSteps, WorldSteps DEF Next

-----------------------------------------------------------------------------
(* Types. *)

LEMMA EndsTypes ==
  ASSUME RunTypeOK, NEW q \in Runs, NEW how \in {"returned", "threw"},
         NEW out \in [status : Statuses, prUrl : BOOLEAN], Ends(q, how, out)
  PROVE  at' \in [Runs -> Stages] /\ ending' \in [Runs -> Endings]
BY DEF RunTypeOK, Ends, Goto, Stages, Removing, Endings

LEMMA FailsTypes ==
  ASSUME RunTypeOK, NEW q \in Runs, Fails(q) \/ Throws(q)
  PROVE  at' \in [Runs -> Stages] /\ ending' \in [Runs -> Endings]
<1>1. Failure \in [status : Statuses, prUrl : BOOLEAN]
  BY DEF Failure, Statuses
<1>2. QED
  BY <1>1, EndsTypes DEF Fails, Throws

LEMMA GoesOnTypes ==
  ASSUME RunTypeOK, NEW q \in Runs, NEW to \in Stages, GoesOn(q, to)
  PROVE  at' \in [Runs -> Stages] /\ ending' \in [Runs -> Endings]
BY DEF RunTypeOK, GoesOn, Goto

LEMMA TypingStep == RunTypeOK /\ [Next]_vars => RunTypeOK'
<1> SUFFICES ASSUME RunTypeOK, [Next]_vars PROVE RunTypeOK'
  OBVIOUS
<1> USE DEF resultVars
<1>s. {"export", "testing", "author", "opening", "crashed"} \subseteq Stages
  BY DEF Stages, WorkStages, Working, Publishing, Over
<1>1. CASE UNCHANGED vars
  BY <1>1 DEF vars, baseVars, RunTypeOK
<1>2. ASSUME NEW q \in Runs, Quiet(q) PROVE RunTypeOK'
  <2>1. at' \in [Runs -> Stages] /\ ending' \in [Runs -> Endings]
    BY <1>2, FailsTypes, GoesOnTypes DEF Quiet
  <2>2. QED
    BY <1>2, <2>1 DEF Quiet, RunTypeOK
<1>3. ASSUME NEW q \in Runs, Abort(q) \/ Crash(q), UNCHANGED <<remote, draft, resultVars>>
      PROVE  RunTypeOK'
  BY <1>3, <1>s DEF Abort, Crash, Goto, RunTypeOK
<1>4. CASE UNCHANGED <<at, aborted, ending, remote, draft, resultVars>>
  BY <1>4 DEF RunTypeOK
<1>5. ASSUME NEW q \in Runs, RunAgent(q) PROVE RunTypeOK'
  <2>1. at' \in [Runs -> Stages] /\ ending' \in [Runs -> Endings]
    BY <1>5, <1>s, FailsTypes, GoesOnTypes DEF RunAgent
  <2>2. QED
    BY <1>5, <2>1 DEF RunAgent, RunTypeOK, Patches
<1>6. ASSUME NEW q \in Runs, Export(q) PROVE RunTypeOK'
  <2>1. NoChanges \in [status : Statuses, prUrl : BOOLEAN]
    BY DEF NoChanges, Statuses
  <2>2. at' \in [Runs -> Stages] /\ ending' \in [Runs -> Endings]
    BY <1>6, <1>s, <2>1, FailsTypes, GoesOnTypes, EndsTypes DEF Export
  <2>3. patch' \in [Runs -> Patches]
    BY <1>6 DEF Export, Reads, RunTypeOK, Patches
  <2>4. QED
    BY <1>6, <2>2, <2>3 DEF Export, RunTypeOK
<1>7. ASSUME NEW q \in Runs, FinalTests(q) PROVE RunTypeOK'
  <2>1. at' \in [Runs -> Stages] /\ ending' \in [Runs -> Endings]
    BY <1>7, <1>s, FailsTypes, GoesOnTypes DEF FinalTests, GoesOnUnlessAborted
  <2>2. ran' \in [Runs -> Tried] /\ passed' \in [Runs -> {"unknown", "yes", "no"}]
    <3>1. CASE UNCHANGED <<ran, passed>>
      BY <3>1 DEF RunTypeOK
    <3>2. CASE Judges(q)
      <4>1. PICK t \in Tried, p \in {"unknown", "yes", "no"} :
              \/ UNCHANGED <<ran, passed>>
              \/ ran' = [ran EXCEPT ![q] = t] /\ passed' = [passed EXCEPT ![q] = p]
        <5>1. CASE UNCHANGED <<ran, passed>>
          <6>1. NotRun \in Tried
            BY DEF NotRun, Tried, Exits
          <6>2. QED
            BY <5>1, <6>1
        <5>2. ASSUME NEW exit \in Exits \cup {124}, NEW summary \in Summaries,
                     NEW p \in {"unknown", "yes", "no"},
                     ran' = [ran EXCEPT ![q] = [exit |-> exit, summary |-> summary]],
                     passed' = [passed EXCEPT ![q] = p]
              PROVE  \E t \in Tried, o \in {"unknown", "yes", "no"} :
                       ran' = [ran EXCEPT ![q] = t] /\ passed' = [passed EXCEPT ![q] = o]
          <6>1. [exit |-> exit, summary |-> summary] \in Tried
            BY DEF Tried
          <6>2. QED
            BY <5>2, <6>1
        <5>3. "absent" \in Summaries
          BY DEF Summaries
        <5>4. QED
          BY <3>2, <5>1, <5>2, <5>3 DEF Judges
      <4>2. QED
        BY <4>1 DEF RunTypeOK
    <3>3. QED
      BY <1>7, <3>1, <3>2 DEF FinalTests
  <2>3. QED
    BY <1>7, <2>1, <2>2 DEF FinalTests, RunTypeOK
<1>8. ASSUME NEW q \in Runs, Push(q) PROVE RunTypeOK'
  <2>1. at' \in [Runs -> Stages] /\ ending' \in [Runs -> Endings]
    BY <1>8, <1>s, FailsTypes, GoesOnTypes DEF Push
  <2>2. QED
    BY <1>8, <2>1 DEF Push, RunTypeOK
<1>9. ASSUME NEW q \in Runs, OpenPullRequest(q) PROVE RunTypeOK'
  <2>1. \A s \in Statuses : PullRequest(s) \in [status : Statuses, prUrl : BOOLEAN]
    BY DEF PullRequest
  <2>2. "succeeded" \in Statuses /\ "partial" \in Statuses
    BY DEF Statuses
  <2>3. at' \in [Runs -> Stages] /\ ending' \in [Runs -> Endings]
    BY <1>9, <2>1, <2>2, FailsTypes, EndsTypes DEF OpenPullRequest
  <2>4. remote' \in [Runs -> {"none", "branch", "pr"}] /\ draft' \in [Runs -> BOOLEAN]
    BY <1>9 DEF OpenPullRequest, Opens, ready, RunTypeOK
  <2>5. QED
    BY <1>9, <2>3, <2>4 DEF OpenPullRequest, RunTypeOK
<1>10. QED
  BY <1>1, <1>2, <1>3, <1>4, <1>5, <1>6, <1>7, <1>8, <1>9, StepKinds

-----------------------------------------------------------------------------
(* The invariant. *)

LEMMA InitIInv == Init => IInv
<1> SUFFICES ASSUME Init PROVE IInv
  OBVIOUS
<1>1. RunTypeOK
  BY DEF Init, BaseInit, Going, Failure, NotRun, RunTypeOK, Stages, WorkStages, SetupStages,
     Endings, Statuses, Patches, Tried, Exits
<1>2. \A r \in Runs : RunInv(r)
  BY DEF Init, BaseInit, Going, RunInv, StageInv, TestsInv, ReadyInv, PublishInv, ResultInv,
     Checked
<1>3. QED
  BY <1>1, <1>2 DEF IInv

(* A step of one run leaves the others where they are. *)
Same(r) ==
  /\ at'[r] = at[r]
  /\ aborted'[r] = aborted[r]
  /\ ending'[r] = ending[r]
  /\ remote'[r] = remote[r]
  /\ draft'[r] = draft[r]
  /\ complete'[r] = complete[r]
  /\ patch'[r] = patch[r]
  /\ ran'[r] = ran[r]
  /\ passed'[r] = passed[r]
  /\ result'[r] = result[r]

LEMMA SameKeeps ==
  ASSUME NEW r \in Runs, RunInv(r), Same(r)
  PROVE  RunInv(r)'
BY DEF Same, RunInv, StageInv, TestsInv, ReadyInv, PublishInv, ResultInv

LEMMA OthersSame ==
  ASSUME RunTypeOK, NEW q \in Runs, NEW r \in Runs \ {q},
         \/ Quiet(q)
         \/ (Abort(q) \/ Crash(q)) /\ UNCHANGED <<remote, draft, resultVars>>
         \/ RunAgent(q)
         \/ Export(q)
         \/ FinalTests(q)
         \/ Push(q)
         \/ OpenPullRequest(q)
  PROVE  Same(r)
<1> USE DEF RunTypeOK, Same, resultVars, Goto, GoesOn, GoesOnUnlessAborted, Ends, Fails, Throws
<1>1. CASE Quiet(q)
  BY <1>1 DEF Quiet
<1>2. CASE (Abort(q) \/ Crash(q)) /\ UNCHANGED <<remote, draft, resultVars>>
  BY <1>2 DEF Abort, Crash
<1>3. CASE RunAgent(q)
  BY <1>3 DEF RunAgent
<1>4. CASE Export(q)
  <2>1. patch'[r] = patch[r]
    BY <1>4 DEF Export, Reads
  <2>2. at'[r] = at[r] /\ ending'[r] = ending[r] /\ result'[r] = result[r]
    BY <1>4 DEF Export
  <2>3. QED
    BY <1>4, <2>1, <2>2 DEF Export
<1>5. CASE FinalTests(q)
  <2>1. CASE UNCHANGED <<ran, passed>>
    BY <1>5, <2>1 DEF FinalTests
  <2>2. CASE Judges(q)
    BY <1>5, <2>2 DEF FinalTests, Judges
  <2>3. QED
    BY <1>5, <2>1, <2>2 DEF FinalTests
<1>6. CASE Push(q)
  BY <1>6 DEF Push
<1>7. CASE OpenPullRequest(q)
  BY <1>7 DEF OpenPullRequest, Opens
<1>8. QED
  BY <1>1, <1>2, <1>3, <1>4, <1>5, <1>6, <1>7

(* Leaving the work by a return or a throw: what Ends leaves behind. *)
LEMMA Left ==
  ASSUME RunTypeOK, NEW q \in Runs, NEW how, NEW out, Ends(q, how, out)
  PROVE  /\ at'[q] \in Removing
         /\ ending'[q] = [how |-> how, out |-> out]
BY DEF RunTypeOK, Ends, Goto, Removing

LEMMA FailsLeft ==
  ASSUME RunTypeOK, NEW q \in Runs, Fails(q) \/ Throws(q)
  PROVE  /\ at'[q] \in Removing
         /\ ending'[q].out = Failure
         /\ Throws(q) => ending'[q].how = "threw"
<1>1. CASE Throws(q)
  <2>1. Ends(q, "threw", Failure)
    BY <1>1 DEF Throws
  <2>2. at'[q] \in Removing /\ ending'[q] = [how |-> "threw", out |-> Failure]
    BY <2>1, Left
  <2>3. QED
    BY <2>2
<1>2. CASE ~Throws(q)
  <2>1. Ends(q, "returned", Failure)
    BY <1>2 DEF Fails
  <2>2. at'[q] \in Removing /\ ending'[q] = [how |-> "returned", out |-> Failure]
    BY <2>1, Left
  <2>3. QED
    BY <1>2, <2>2
<1>3. QED
  BY <1>1, <1>2

LEMMA WentOn ==
  ASSUME RunTypeOK, NEW q \in Runs, NEW to, GoesOn(q, to)
  PROVE  at'[q] = to /\ ending'[q] = ending[q]
BY DEF RunTypeOK, GoesOn, Goto

LEMMA RunInvStep ==
  ASSUME IInv, NEW q \in Runs,
         \/ Quiet(q)
         \/ (Abort(q) \/ Crash(q)) /\ UNCHANGED <<remote, draft, resultVars>>
         \/ RunAgent(q)
         \/ Export(q)
         \/ FinalTests(q)
         \/ Push(q)
         \/ OpenPullRequest(q)
  PROVE  RunInv(q)'
<1> USE DEF resultVars
<1>i. RunTypeOK /\ RunInv(q)
  BY DEF IInv
<1>s. /\ Removing \cap WorkStages = {}
      /\ Over \cap WorkStages = {}
      /\ Checked \subseteq WorkStages
      /\ "opening" \in WorkStages
  BY DEF Removing, WorkStages, Over, Checked, SetupStages, Working, Publishing
<1>f. Failure.status = "failed" /\ Failure.prUrl = FALSE
  BY DEF Failure
<1>g. Going.how = "going"
  BY DEF Going
<1>1. CASE Quiet(q)
  <2>1. ASSUME NEW to \in Stages, Forward(at[q], to), GoesOn(q, to) PROVE RunInv(q)'
    <3>1. at'[q] = to /\ ending'[q] = ending[q]
      BY <2>1, <1>i, WentOn
    <3>2. /\ to \in WorkStages => at[q] \in WorkStages \ {"opening"} /\ to # "opening"
          /\ to \in Checked => at[q] \in Checked
      BY <2>1 DEF Forward, WorkStages, SetupStages, Working, Publishing, Removing, Checked
    <3>3. QED
      BY <1>1, <1>i, <1>s, <3>1, <3>2
      DEF Quiet, RunInv, StageInv, TestsInv, ReadyInv, PublishInv, ResultInv
  <2>2. CASE at[q] \in SetupStages \cup Working \cup {"author"} /\ (Fails(q) \/ Throws(q))
    <3>1. at[q] \in WorkStages \ {"opening"}
      BY <2>2 DEF WorkStages, SetupStages, Working, Publishing
    <3>2. QED
      BY <1>1, <1>i, <1>s, <1>f, <2>2, <3>1, FailsLeft
      DEF Quiet, RunInv, StageInv, TestsInv, ReadyInv, PublishInv, ResultInv
  <2>3. QED
    BY <1>1, <2>1, <2>2 DEF Quiet
<1>2. CASE Abort(q) /\ UNCHANGED <<remote, draft, resultVars>>
  BY <1>2, <1>i
  DEF Abort, RunInv, StageInv, TestsInv, ReadyInv, PublishInv, ResultInv
<1>3. CASE Crash(q) /\ UNCHANGED <<remote, draft, resultVars>>
  <2>1. at'[q] = "crashed" /\ "crashed" \notin WorkStages
    BY <1>3, <1>i, <1>s DEF Crash, Goto, RunTypeOK, Over
  <2>2. QED
    BY <1>3, <1>i, <1>s, <2>1
    DEF Crash, RunInv, StageInv, TestsInv, ReadyInv, PublishInv, ResultInv
<1>4. CASE RunAgent(q)
  <2>1. at[q] \in WorkStages \ {"opening"} /\ at[q] \notin Checked
    BY <1>4 DEF RunAgent, WorkStages, Working, Checked
  <2>2. CASE Fails(q) \/ Throws(q)
    BY <1>4, <1>i, <1>s, <1>f, <2>1, <2>2, FailsLeft
    DEF RunAgent, RunInv, StageInv, TestsInv, ReadyInv, PublishInv, ResultInv
  <2>3. CASE GoesOn(q, "export")
    <3>1. "export" \in WorkStages \ {"opening"} /\ "export" \notin Checked
      BY DEF WorkStages, Working, Checked
    <3>2. QED
      BY <1>4, <1>i, <1>s, <1>g, <2>1, <2>3, <3>1, WentOn
      DEF RunAgent, RunInv, StageInv, TestsInv, ReadyInv, PublishInv, ResultInv
  <2>4. QED
    BY <1>4, <2>2, <2>3 DEF RunAgent
<1>5. CASE Export(q)
  <2>1. at[q] \in WorkStages \ {"opening"} /\ at[q] \notin Checked
    BY <1>5 DEF Export, WorkStages, Working, Checked
  <2>2. /\ UNCHANGED <<remote, draft, complete, ran, passed>>
        /\ remote[q] = "none" /\ result[q] = "error" /\ ending[q] = Going
    BY <1>5, <1>i, <2>1 DEF Export, RunInv, StageInv
  <2>3. TestsInv(q)' /\ ReadyInv(q)' /\ PublishInv(q)'
    BY <1>i, <2>2 DEF RunInv, TestsInv, ReadyInv, PublishInv
  <2>4. CASE (Fails(q) \/ Throws(q)) /\ UNCHANGED result
    BY <1>i, <1>s, <1>f, <2>2, <2>3, <2>4, FailsLeft DEF RunInv, StageInv, ResultInv
  <2>5. CASE Fails(q) /\ \E o \in {"no_changes", "rejected"} : result' = [result EXCEPT ![q] = o]
    <3>1. result'[q] \in {"no_changes", "rejected"}
      BY <2>5, <1>i DEF RunTypeOK
    <3>2. QED
      BY <1>i, <1>s, <1>f, <2>2, <2>3, <2>5, <3>1, FailsLeft DEF RunInv, StageInv, ResultInv
  <2>6. CASE /\ complete[q] /\ Ends(q, "returned", NoChanges)
             /\ result' = [result EXCEPT ![q] = "no_changes"]
    <3>1. result'[q] = "no_changes"
      BY <2>6, <1>i DEF RunTypeOK
    <3>2. at'[q] \in Removing /\ ending'[q] = [how |-> "returned", out |-> NoChanges]
      BY <2>6, <1>i, Left
    <3>3. NoChanges.status = "succeeded" /\ NoChanges.prUrl = FALSE
      BY DEF NoChanges
    <3>4. QED
      BY <1>i, <1>s, <2>2, <2>3, <2>6, <3>1, <3>2, <3>3 DEF RunInv, StageInv, ResultInv
  <2>7. CASE patch'[q] = "clean" /\ GoesOn(q, "testing") /\ UNCHANGED result
    <3>1. at'[q] = "testing" /\ ending'[q] = ending[q]
      BY <2>7, <1>i, WentOn
    <3>2. "testing" \in WorkStages \ {"opening"}
      BY DEF WorkStages, Working
    <3>3. QED
      BY <1>i, <1>g, <2>2, <2>3, <2>7, <3>1, <3>2 DEF RunInv, StageInv, ResultInv
  <2>8. QED
    BY <1>5, <2>4, <2>5, <2>6, <2>7 DEF Export
<1>6. CASE FinalTests(q)
  <2>1. at[q] \in WorkStages \ {"opening"} /\ at[q] \in Checked
    BY <1>6 DEF FinalTests, WorkStages, Working, Checked
  <2>2. TestsInv(q)'
    <3>1. CASE UNCHANGED <<ran, passed>>
      BY <1>i, <3>1 DEF RunInv, TestsInv
    <3>2. CASE Judges(q)
      BY <1>i, <3>2 DEF RunInv, TestsInv, RunTypeOK, Judges, testsPassed, Summaries
    <3>3. QED
      BY <1>6, <3>1, <3>2 DEF FinalTests
  <2>3. /\ UNCHANGED <<remote, draft, complete, patch, result>>
        /\ remote[q] = "none" /\ result[q] = "error" /\ ending[q] = Going
        /\ patch[q] = "clean"
    BY <1>6, <1>i, <2>1 DEF FinalTests, RunInv, StageInv
  <2>4. CASE Fails(q) \/ Throws(q)
    BY <1>i, <1>s, <1>f, <2>2, <2>3, <2>4, FailsLeft
    DEF RunInv, StageInv, ReadyInv, PublishInv, ResultInv
  <2>5. CASE GoesOn(q, "author")
    <3>1. at'[q] = "author" /\ ending'[q] = ending[q]
      BY <2>5, <1>i, WentOn
    <3>2. QED
      BY <1>i, <1>g, <2>2, <2>3, <3>1 DEF RunInv, StageInv, ReadyInv, PublishInv, ResultInv
  <2>6. QED
    BY <1>6, <2>4, <2>5 DEF FinalTests, GoesOnUnlessAborted
<1>7. CASE Push(q)
  <2>1. at[q] \in WorkStages \ {"opening"} /\ at[q] \in Checked
    BY <1>7 DEF Push, WorkStages, Publishing, Checked
  <2>2. /\ UNCHANGED <<draft, complete, patch, ran, passed, result>>
        /\ result[q] = "error" /\ ending[q] = Going /\ patch[q] = "clean"
    BY <1>7, <1>i, <2>1 DEF Push, RunInv, StageInv
  <2>3. CASE (Fails(q) \/ Throws(q)) /\ remote'[q] \in {"none", "branch"}
    BY <1>i, <1>s, <1>f, <2>2, <2>3, FailsLeft
    DEF RunInv, StageInv, TestsInv, ReadyInv, PublishInv, ResultInv
  <2>4. CASE GoesOn(q, "opening") /\ remote'[q] = "branch"
    <3>1. at'[q] = "opening" /\ ending'[q] = ending[q]
      BY <2>4, <1>i, WentOn
    <3>2. QED
      BY <1>i, <1>g, <2>2, <2>4, <3>1
      DEF RunInv, StageInv, TestsInv, ReadyInv, PublishInv, ResultInv
  <2>5. QED
    BY <1>7, <1>i, <2>3, <2>4 DEF Push, RunTypeOK
<1>8. CASE OpenPullRequest(q)
  <2>1. /\ UNCHANGED <<complete, patch, ran, passed>>
        /\ result[q] = "error" /\ ending[q] = Going /\ patch[q] = "clean" /\ remote[q] = "branch"
    BY <1>8, <1>i, <1>s DEF OpenPullRequest, RunInv, StageInv, Checked
  <2>2. Opens(q) => remote'[q] = "pr" /\ (draft'[q] <=> ~ready(q))
    BY <1>i DEF Opens, RunTypeOK
  <2>3. CASE Throws(q) /\ UNCHANGED result
    <3>1. remote'[q] = "branch" \/ (remote'[q] = "pr" /\ (draft'[q] <=> ~ready(q)))
      BY <1>8, <1>i, <2>1, <2>2, <2>3 DEF OpenPullRequest
    <3>2. at'[q] \in Removing /\ ending'[q].how = "threw"
      BY <2>3, <1>i, FailsLeft
    <3>3. QED
      BY <1>i, <1>s, <2>1, <2>3, <3>1, <3>2
      DEF RunInv, StageInv, TestsInv, ReadyInv, PublishInv, ResultInv, ready
  <2>4. CASE /\ Opens(q)
             /\ result' = [result EXCEPT ![q] = IF ready(q) THEN "pr_opened" ELSE "draft_pr"]
             /\ Ends(q, "returned", PullRequest(IF complete[q] THEN "succeeded" ELSE "partial"))
    <3>1. result'[q] = IF ready(q) THEN "pr_opened" ELSE "draft_pr"
      BY <2>4, <1>i DEF RunTypeOK
    <3>2. /\ at'[q] \in Removing
          /\ ending'[q] = [how |-> "returned",
                          out |-> PullRequest(IF complete[q] THEN "succeeded" ELSE "partial")]
      BY <2>4, <1>i, Left
    <3>3. /\ ending'[q].out.prUrl = TRUE
          /\ ending'[q].out.status = IF complete[q] THEN "succeeded" ELSE "partial"
      BY <3>2 DEF PullRequest
    <3>4. QED
      BY <1>i, <1>s, <2>1, <2>2, <2>4, <3>1, <3>2, <3>3
      DEF RunInv, StageInv, TestsInv, ReadyInv, PublishInv, ResultInv, ready
  <2>5. QED
    BY <1>8, <2>3, <2>4 DEF OpenPullRequest
<1>9. QED
  BY <1>1, <1>2, <1>3, <1>4, <1>5, <1>6, <1>7, <1>8

LEMMA InvStep == IInv /\ [Next]_vars => IInv'
<1> SUFFICES ASSUME IInv, [Next]_vars PROVE IInv'
  OBVIOUS
<1>1. RunTypeOK /\ RunTypeOK'
  BY TypingStep DEF IInv
<1>2. ASSUME NEW r \in Runs PROVE RunInv(r)'
  <2>0. RunInv(r)
    BY DEF IInv
  <2>1. CASE UNCHANGED <<at, aborted, ending, remote, draft, resultVars>>
    BY <2>0, <2>1, SameKeeps DEF Same, resultVars
  <2>2. CASE UNCHANGED vars
    BY <2>1, <2>2 DEF vars, baseVars
  <2>3. ASSUME NEW q \in Runs,
               \/ Quiet(q)
               \/ (Abort(q) \/ Crash(q)) /\ UNCHANGED <<remote, draft, resultVars>>
               \/ RunAgent(q)
               \/ Export(q)
               \/ FinalTests(q)
               \/ Push(q)
               \/ OpenPullRequest(q)
        PROVE  RunInv(r)'
    <3>1. CASE r = q
      BY <2>3, <3>1, RunInvStep
    <3>2. CASE r # q
      BY <1>1, <2>0, <2>3, <3>2, OthersSame, SameKeeps
    <3>3. QED
      BY <3>1, <3>2
  <2>4. QED
    BY <2>1, <2>2, <2>3, StepKinds
<1>3. QED
  BY <1>1, <1>2 DEF IInv

(* The inductive invariant of the runner (AgentJobRunner.run): what its stage says
   of the patch, of GitHub, of the tests and of the result. *)
THEOREM Safety == Spec => []IInv
BY InitIInv, InvStep, PTL DEF Spec

(* Whatever is on GitHub passed checkPatch. *)
THEOREM Published == Spec => []PublishedIsChecked
<1>1. IInv => PublishedIsChecked
  BY DEF IInv, RunInv, PublishInv, PublishedIsChecked
<1>2. QED
  BY <1>1, Safety, PTL

(* A pull request that is ready for review comes from an agent that finished and
   from a test run that succeeded. *)
THEOREM Ready == Spec => []ReadyIsEarned
<1>1. IInv => ReadyIsEarned
  BY DEF IInv, RunInv, ReadyInv, TestsInv, ReadyIsEarned
<1>2. QED
  BY <1>1, Safety, PTL

(* Outcome, status and pull request of a run that returned belong together. *)
THEOREM Result == Spec => []ResultIsTrue
<1>1. IInv => ResultIsTrue
  BY DEF IInv, RunInv, ResultInv, ResultIsTrue
<1>2. QED
  BY <1>1, Safety, PTL

-----------------------------------------------------------------------------
(* The contract. *)

LEMMA PhaseValues ==
  ASSUME NEW stage, NEW how
  PROVE  /\ stage = "crashed" => phaseAt(stage, how) = "gone"
         /\ stage # "crashed" /\ how = "returned" => phaseAt(stage, how) = "returned"
         /\ stage # "crashed" /\ how = "threw" => phaseAt(stage, how) = "catching"
         /\ stage \in SetupStages /\ how = "going" => phaseAt(stage, how) = "setup"
         /\ stage \in Working /\ how = "going" => phaseAt(stage, how) = "working"
         /\ stage \in Publishing /\ how = "going" => phaseAt(stage, how) = "publishing"
         /\ stage = "opening" /\ how = "going" => phaseAt(stage, how) = "pushed"
         /\ stage \in Removing \cup {"ended"} /\ how = "going" => phaseAt(stage, how) = "working"
BY DEF phaseAt, SetupStages, Working, Publishing, Removing

(* The phase before and after the run is left. *)
LEMMA PhaseLeft ==
  ASSUME RunTypeOK, NEW q \in Runs, NEW how \in {"returned", "threw"}, NEW out, Ends(q, how, out)
  PROVE  /\ phaseOf(q)' = IF how = "returned" THEN "returned" ELSE "catching"
         /\ ending'[q].out = out
<1>1. at'[q] \in Removing /\ ending'[q] = [how |-> how, out |-> out]
  BY Left
<1>2. at'[q] # "crashed"
  BY <1>1 DEF Removing
<1>3. ending'[q].how = how /\ ending'[q].out = out
  BY <1>1
<1>4. phaseOf(q)' = phaseAt(at'[q], how)
  BY <1>3 DEF phaseOf
<1>5. QED
  BY <1>2, <1>3, <1>4, PhaseValues

(* A step that goes on leads to the phase of the next stage. *)
LEMMA PhaseWentOn ==
  ASSUME RunTypeOK, NEW q \in Runs, NEW to, GoesOn(q, to)
  PROVE  phaseOf(q)' = phaseAt(to, ending[q].how) /\ ending'[q] = ending[q]
<1>1. at'[q] = to /\ ending'[q] = ending[q]
  BY WentOn
<1>2. QED
  BY <1>1 DEF phaseOf

LEMMA ContractFails ==
  ASSUME IInv, NEW q \in Runs, Fails(q), aborted'[q] = aborted[q],
         \/ phaseOf(q) \in {"setup", "working"} /\ remote'[q] = remote[q]
         \/ phaseOf(q) = "publishing" /\ remote'[q] \in {"none", "branch"}
  PROVE  Contract(q)!Next
<1>1. phaseOf(q)' = "returned" /\ ending'[q].out = Failure
  BY PhaseLeft DEF Fails, IInv
<1>2. Contract(q)!Fails
  BY <1>1 DEF Contract!Fails, Contract!Returns, Contract!Failure, Failure
<1>3. QED
  BY <1>2 DEF Contract!Next

LEMMA ContractThrows ==
  ASSUME IInv, NEW q \in Runs, Throws(q), aborted'[q] = aborted[q], ending[q] = Going,
         phaseOf(q) \in {"setup", "working", "publishing", "pushed"},
         \/ remote'[q] = remote[q]
         \/ phaseOf(q) = "publishing" /\ remote'[q] = "branch"
         \/ phaseOf(q) = "pushed" /\ remote'[q] = "pr"
  PROVE  Contract(q)!Next
<1>1. phaseOf(q)' = "catching" /\ ending'[q].out = Failure
  BY PhaseLeft DEF Throws, IInv
<1>2. ending[q].out = Failure
  BY DEF Going
<1>3. Contract(q)!Throws
  BY <1>1, <1>2 DEF Contract!Throws, Contract!InRunner
<1>4. QED
  BY <1>3 DEF Contract!Next

LEMMA ContractStep ==
  ASSUME IInv, NEW q \in Runs,
         \/ Quiet(q)
         \/ (Abort(q) \/ Crash(q)) /\ UNCHANGED <<remote, draft, resultVars>>
         \/ RunAgent(q)
         \/ Export(q)
         \/ FinalTests(q)
         \/ Push(q)
         \/ OpenPullRequest(q)
  PROVE  Contract(q)!Next \/ UNCHANGED Contract(q)!vars
<1>i. RunTypeOK /\ StageInv(q)
  BY DEF IInv, RunInv
<1>g. Going.how = "going" /\ Going.out = Failure
  BY DEF Going
<1>p. /\ at[q] \in SetupStages => phaseOf(q) = "setup" /\ ending[q] = Going
      /\ at[q] \in Working => phaseOf(q) = "working" /\ ending[q] = Going
      /\ at[q] \in Publishing => phaseOf(q) = "publishing" /\ ending[q] = Going
      /\ at[q] = "opening" => phaseOf(q) = "pushed" /\ ending[q] = Going
  BY <1>i, <1>g, PhaseValues DEF phaseOf, StageInv, WorkStages
<1>1. CASE Quiet(q)
  <2>1. ASSUME NEW to \in Stages, Forward(at[q], to), GoesOn(q, to)
        PROVE  Contract(q)!Next \/ UNCHANGED Contract(q)!vars
    <3>1. phaseOf(q)' = phaseAt(to, ending[q].how) /\ ending'[q] = ending[q]
      BY <1>i, <2>1, PhaseWentOn
    <3>2. aborted'[q] = aborted[q] /\ remote'[q] = remote[q]
      BY <1>1 DEF Quiet
    <3>3. phaseOf(q)' = phaseOf(q) \/ (phaseOf(q) = "setup" /\ phaseOf(q)' = "working")
      <4>1. CASE at[q] \in SetupStages /\ to \in SetupStages
        BY <1>p, <1>g, <3>1, <4>1, PhaseValues
      <4>2. CASE at[q] = "marking" /\ to = "installing"
        <5>1. "marking" \in SetupStages /\ "installing" \in Working
          BY DEF SetupStages, Working
        <5>2. QED
          BY <1>p, <1>g, <3>1, <4>2, <5>1, PhaseValues
      <4>3. CASE /\ at[q] \in {"installing", "baseline", "prompt"}
                 /\ to \in {"baseline", "prompt", "agent"}
        BY <1>p, <1>g, <3>1, <4>3, PhaseValues DEF Working
      <4>4. CASE at[q] = "author" /\ to = "pushing"
        BY <1>p, <1>g, <3>1, <4>4, PhaseValues DEF Publishing
      <4>5. CASE at[q] \in Removing /\ to \in Removing \cup {"ended"}
        <5>1. at[q] # "crashed" /\ to # "crashed" /\ ending[q].how \in {"going", "returned", "threw"}
          BY <1>i, <4>5 DEF Removing, RunTypeOK, Endings
        <5>2. phaseOf(q) = phaseAt(at[q], ending[q].how)
          BY DEF phaseOf
        <5>3. QED
          BY <3>1, <4>5, <5>1, <5>2, PhaseValues
      <4>6. QED
        BY <2>1, <4>1, <4>2, <4>3, <4>4, <4>5 DEF Forward
    <3>4. CASE phaseOf(q)' = phaseOf(q)
      BY <3>1, <3>2, <3>4 DEF Contract!vars
    <3>5. CASE phaseOf(q) = "setup" /\ phaseOf(q)' = "working"
      BY <3>1, <3>2, <3>5 DEF Contract!MarkRunning, Contract!Next
    <3>6. QED
      BY <3>3, <3>4, <3>5
  <2>2. CASE at[q] \in SetupStages \cup Working /\ Fails(q)
    BY <1>1, <1>p, <2>2, ContractFails DEF Quiet
  <2>3. CASE at[q] \in SetupStages \cup Working \cup {"author"} /\ Throws(q)
    BY <1>1, <1>p, <2>3, ContractThrows DEF Quiet, Publishing
  <2>4. QED
    BY <1>1, <2>1, <2>2, <2>3 DEF Quiet
<1>2. CASE Abort(q) /\ UNCHANGED <<remote, draft, resultVars>>
  <2>1. aborted'[q] = TRUE /\ ending' = ending /\ remote' = remote
    BY <1>2, <1>i DEF Abort, RunTypeOK
  <2>2. phaseOf(q)' = phaseOf(q)
    BY <1>2 DEF Abort, phaseOf
  <2>3. QED
    BY <2>1, <2>2 DEF Contract!Abort, Contract!Next
<1>3. CASE Crash(q) /\ UNCHANGED <<remote, draft, resultVars>>
  <2>1. at'[q] = "crashed" /\ ending' = ending /\ remote' = remote /\ aborted' = aborted
    BY <1>3, <1>i DEF Crash, Goto, RunTypeOK
  <2>2. phaseOf(q)' = "gone"
    BY <2>1, PhaseValues DEF phaseOf
  <2>3. QED
    BY <2>1, <2>2 DEF Contract!Dies, Contract!Next
<1>4. CASE RunAgent(q)
  <2>1. at[q] \in Working /\ aborted' = aborted /\ remote' = remote
    BY <1>4 DEF RunAgent, Working
  <2>2. CASE GoesOn(q, "export")
    <3>1. phaseOf(q)' = "working" /\ ending'[q] = ending[q]
      BY <1>i, <1>p, <1>g, <2>1, <2>2, PhaseWentOn, PhaseValues DEF Working
    <3>2. QED
      BY <1>p, <2>1, <3>1 DEF Contract!vars
  <2>3. QED
    BY <1>4, <1>p, <2>1, <2>2, ContractFails, ContractThrows DEF RunAgent
<1>5. CASE Export(q)
  <2>1. at[q] \in Working /\ aborted' = aborted /\ remote' = remote
    BY <1>5 DEF Export, Working
  <2>2. CASE GoesOn(q, "testing")
    <3>1. phaseOf(q)' = "working" /\ ending'[q] = ending[q]
      BY <1>i, <1>p, <1>g, <2>1, <2>2, PhaseWentOn, PhaseValues DEF Working
    <3>2. QED
      BY <1>p, <2>1, <3>1 DEF Contract!vars
  <2>3. CASE Ends(q, "returned", NoChanges)
    <3>1. phaseOf(q)' = "returned" /\ ending'[q].out = NoChanges
      BY <1>i, <2>3, PhaseLeft
    <3>2. Contract(q)!Succeeds
      BY <1>p, <2>1, <3>1 DEF Contract!Succeeds, Contract!Returns, NoChanges
    <3>3. QED
      BY <3>2 DEF Contract!Next
  <2>4. QED
    BY <1>5, <1>p, <2>1, <2>2, <2>3, ContractFails, ContractThrows DEF Export
<1>6. CASE FinalTests(q)
  <2>1. at[q] \in Working /\ aborted' = aborted /\ remote' = remote
    BY <1>6 DEF FinalTests, Working
  <2>2. CASE ~aborted[q] /\ GoesOn(q, "author")
    <3>1. phaseOf(q)' = "publishing" /\ ending'[q] = ending[q]
      BY <1>i, <1>p, <1>g, <2>1, <2>2, PhaseWentOn, PhaseValues DEF Publishing
    <3>2. Contract(q)!PointOfNoReturn
      BY <1>p, <2>1, <2>2, <3>1 DEF Contract!PointOfNoReturn
    <3>3. QED
      BY <3>2 DEF Contract!Next
  <2>3. CASE Throws(q)
    BY <1>p, <2>1, <2>3, ContractThrows
  <2>4. QED
    BY <1>6, <2>2, <2>3 DEF FinalTests, GoesOnUnlessAborted
<1>7. CASE Push(q)
  <2>1. at[q] \in Publishing /\ aborted' = aborted
    BY <1>7 DEF Push, Publishing
  <2>2. remote[q] = "none"
    BY <1>i, <2>1 DEF StageInv, WorkStages, Publishing
  <2>3. CASE GoesOn(q, "opening") /\ remote'[q] = "branch"
    <3>1. phaseOf(q)' = "pushed" /\ ending'[q] = ending[q]
      BY <1>i, <1>p, <1>g, <2>1, <2>3, PhaseWentOn, PhaseValues
    <3>2. Contract(q)!Push
      BY <1>p, <2>1, <2>3, <3>1 DEF Contract!Push
    <3>3. QED
      BY <3>2 DEF Contract!Next
  <2>4. CASE (Fails(q) \/ Throws(q)) /\ remote'[q] \in {"none", "branch"}
    BY <1>p, <2>1, <2>2, <2>4, ContractFails, ContractThrows
  <2>5. QED
    BY <1>7, <1>i, <2>3, <2>4 DEF Push, RunTypeOK
<1>8. CASE OpenPullRequest(q)
  <2>1. at[q] = "opening" /\ aborted' = aborted
    BY <1>8 DEF OpenPullRequest
  <2>2. Opens(q) => remote'[q] = "pr"
    BY <1>i DEF Opens, RunTypeOK
  <2>3. CASE Throws(q) /\ (Opens(q) \/ remote' = remote)
    BY <1>p, <2>1, <2>2, <2>3, ContractThrows
  <2>4. ASSUME NEW s \in {"succeeded", "partial"}, Ends(q, "returned", PullRequest(s)), Opens(q)
        PROVE  Contract(q)!Next
    <3>1. phaseOf(q)' = "returned" /\ ending'[q].out = PullRequest(s)
      BY <1>i, <2>4, PhaseLeft
    <3>2. Contract(q)!OpenPullRequest
      BY <1>p, <2>1, <2>2, <2>4, <3>1 DEF Contract!OpenPullRequest, Contract!Returns, PullRequest
    <3>3. QED
      BY <3>2 DEF Contract!Next
  <2>5. QED
    BY <1>8, <2>3, <2>4 DEF OpenPullRequest
<1>9. QED
  BY <1>1, <1>2, <1>3, <1>4, <1>5, <1>6, <1>7, <1>8

LEMMA ContractSame ==
  ASSUME NEW r \in Runs, Same(r)
  PROVE  UNCHANGED Contract(r)!vars
BY DEF Same, Contract!vars, phaseOf

(* Every run keeps the contract of RunnerContract, on which the model of the worker
   pool rests: in particular no push begins after an abort the run could see. *)
THEOREM Contracted == Spec => KeepsContract
<1> DEFINE Step == \A r \in Runs : Contract(r)!Next \/ UNCHANGED Contract(r)!vars
<1>1. Init => \A r \in Runs : Contract(r)!Init
  <2> SUFFICES ASSUME Init, NEW r \in Runs PROVE Contract(r)!Init
    OBVIOUS
  <2>1. /\ at[r] = "access" /\ aborted[r] = FALSE /\ remote[r] = "none"
        /\ ending[r].how = "going" /\ ending[r].out = Failure
    BY DEF Init, BaseInit, Going
  <2>2. "access" \in SetupStages
    BY DEF SetupStages
  <2>3. phaseOf(r) = "setup"
    BY <2>1, <2>2, PhaseValues DEF phaseOf
  <2>4. QED
    BY <2>1, <2>3 DEF Contract!Init, Failure, Contract!Failure
<1>2. IInv /\ [Next]_vars => [Step]_vars
  <2> SUFFICES ASSUME IInv, Next, NEW r \in Runs
               PROVE  Contract(r)!Next \/ UNCHANGED Contract(r)!vars
    OBVIOUS
  <2>1. CASE UNCHANGED <<at, aborted, ending, remote, draft, resultVars>>
    BY <2>1, ContractSame DEF Same, resultVars
  <2>2. ASSUME NEW q \in Runs,
               \/ Quiet(q)
               \/ (Abort(q) \/ Crash(q)) /\ UNCHANGED <<remote, draft, resultVars>>
               \/ RunAgent(q)
               \/ Export(q)
               \/ FinalTests(q)
               \/ Push(q)
               \/ OpenPullRequest(q)
        PROVE  Contract(r)!Next \/ UNCHANGED Contract(r)!vars
    <3>1. CASE r = q
      BY <2>2, <3>1, ContractStep
    <3>2. CASE r # q
      BY <2>2, <3>2, OthersSame, ContractSame DEF IInv
    <3>3. QED
      BY <3>1, <3>2
  <2>3. QED
    BY <2>1, <2>2, StepKinds
<1>3. QED
  BY <1>1, <1>2, Safety, PTL DEF Spec, KeepsContract

-----------------------------------------------------------------------------
(* The host. *)

Unmade == {"access", "checkout", "creating"}
Making == {"preparing", "resolving", "starting", "undoing container", "undoing volume"}
Settled == {"copying", "marking"} \cup Working \cup Publishing \cup {"opening"}

(* What is on the host at each stage, as long as no removal failed and no answer was
   lost; the reaper only comes when the run is over. *)
CleanInv(r) ==
  /\ old[r] => at[r] \in Over
  /\ faults = 0 =>
       /\ at[r] \in Unmade \cup Making => ~sandbox[r]
       /\ at[r] \in Settled => sandbox[r]
       /\ at[r] \in Unmade \cup {"removing directories", "ended"} => volume[r] # "made"
       /\ at[r] \in Unmade \cup {"preparing", "resolving", "starting", "undoing volume",
                                "removing volume", "removing directories", "ended"} => container[r] = "none"
       /\ at[r] = "ended" => ~workdir[r] /\ ~pushdir[r]

HostInv == RunTypeOK /\ HostTypeOK /\ \A r \in Runs : CleanInv(r)

(* The steps that leave the host alone. *)
Plain(q) ==
  /\ UNCHANGED hostVars
  /\ \/ at[q] = "access" /\ GoesOn(q, "checkout")
     \/ at[q] \in Settled /\ \E to \in Settled : GoesOn(q, to)
     \/ at[q] \in Settled \cup {"access"} /\ \E how, out : Ends(q, how, out)

LEMMA PlainSteps ==
  ASSUME NEW q \in Runs,
         \/ Access(q) \/ CopyIn(q) \/ MarkRunning(q) \/ Install(q) \/ Baseline(q) \/ Prompt(q)
         \/ RunAgent(q) \/ Export(q) \/ FinalTests(q) \/ GetAuthor(q) \/ OpenPullRequest(q)
  PROVE  Plain(q)
<1> USE DEF Plain, Settled, Working, Publishing, Fails, Throws, GoesOnUnlessAborted
<1>1. CASE Access(q) \/ CopyIn(q) \/ MarkRunning(q)
  BY <1>1 DEF Access, CopyIn, MarkRunning
<1>2. CASE Install(q) \/ Baseline(q) \/ Prompt(q)
  BY <1>2 DEF Install, Baseline, Prompt
<1>3. CASE RunAgent(q) \/ FinalTests(q) \/ GetAuthor(q)
  BY <1>3 DEF RunAgent, FinalTests, GetAuthor
<1>4. CASE Export(q)
  BY <1>4 DEF Export
<1>5. CASE OpenPullRequest(q)
  BY <1>5 DEF OpenPullRequest
<1>6. QED
  BY <1>1, <1>2, <1>3, <1>4, <1>5

HostStep(q) ==
  \/ Plain(q)
  \/ Checkout(q)
  \/ CreateVolume(q)
  \/ PrepareVolume(q)
  \/ ResolveProxy(q)
  \/ StartContainer(q)
  \/ UndoContainer(q)
  \/ UndoVolume(q)
  \/ Push(q)
  \/ RemoveContainer(q)
  \/ RemoveVolume(q)
  \/ RemoveDirectories(q, "ended")
  \/ Abort(q)
  \/ Crash(q)
  \/ Ages(q)
  \/ ReapOrphan(q)

LEMMA HostSteps == Next => \E q \in Runs : HostStep(q)
BY PlainSteps DEF Next, Host, World, Create, HostStep

LEMMA FaultCosts ==
  ASSUME HostTypeOK, Fault
  PROVE  faults' \in Nat /\ faults' # 0
<1>1. faults \in Nat /\ faults' = faults + 1
  BY DEF HostTypeOK, Fault
<1>2. QED
  BY <1>1

LEMMA HostTypingStep ==
  ASSUME HostTypeOK, NEW q \in Runs, HostStep(q)
  PROVE  HostTypeOK'
<1> USE DEF HostTypeOK, hostVars, RemovesContainer, RemovesVolume
<1>1. CASE Plain(q) \/ PrepareVolume(q) \/ Abort(q) \/ Crash(q)
  BY <1>1 DEF Plain, PrepareVolume, Abort, Crash
<1>2. CASE Checkout(q) \/ Push(q)
  BY <1>2 DEF Checkout, CheckoutFails, CheckedOut, Push
<1>3. CASE CreateVolume(q) \/ ResolveProxy(q) \/ StartContainer(q)
  BY <1>3, FaultCosts DEF CreateVolume, ResolveProxy, StartContainer
<1>4. CASE UndoContainer(q) \/ UndoVolume(q)
  BY <1>4, FaultCosts DEF UndoContainer, UndoVolume
<1>5. CASE RemoveContainer(q) \/ RemoveVolume(q) \/ RemoveDirectories(q, "ended")
  BY <1>5, FaultCosts DEF RemoveContainer, RemoveVolume, RemoveDirectories
<1>6. CASE Ages(q) \/ ReapOrphan(q)
  BY <1>6, FaultCosts DEF Ages, ReapOrphan
<1>7. QED
  BY <1>1, <1>2, <1>3, <1>4, <1>5, <1>6 DEF HostStep

(* A step of one run leaves the host's part of the others alone. *)
LEMMA HostOthers ==
  ASSUME HostInv, NEW q \in Runs, HostStep(q), NEW r \in Runs \ {q}
  PROVE  CleanInv(r)'
<1> USE DEF HostInv, RunTypeOK, HostTypeOK, hostVars, Goto, GoesOn, Ends, Fails, Throws,
            GoesOnUnlessAborted
<1>1. /\ at'[r] = at[r] /\ old'[r] = old[r] /\ sandbox'[r] = sandbox[r] /\ volume'[r] = volume[r]
      /\ container'[r] = container[r] /\ workdir'[r] = workdir[r] /\ pushdir'[r] = pushdir[r]
      /\ faults' = 0 => faults = 0
  <2>1. CASE Plain(q)
    BY <2>1 DEF Plain
  <2>2. CASE Checkout(q)
    BY <2>2 DEF Checkout, CheckoutFails, CheckedOut
  <2>3. CASE CreateVolume(q) \/ PrepareVolume(q) \/ ResolveProxy(q)
    BY <2>3, FaultCosts DEF CreateVolume, PrepareVolume, ResolveProxy
  <2>4. CASE StartContainer(q)
    BY <2>4 DEF StartContainer
  <2>5. CASE UndoContainer(q)
    <3>1. at'[r] = at[r]
      BY <2>5 DEF UndoContainer
    <3>2. container'[r] = container[r]
      <4>1. UNCHANGED container \/ container' = [container EXCEPT ![q] = "none"]
        BY ONLY <2>5 DEF UndoContainer, RemovesContainer
      <4>2. QED
        BY <4>1
    <3>3. faults' = 0 => faults = 0
      BY <2>5, FaultCosts DEF UndoContainer, RemovesContainer
    <3>4. QED
      BY <2>5, <3>1, <3>2, <3>3 DEF UndoContainer
  <2>6. CASE UndoVolume(q)
    BY <2>6, FaultCosts DEF UndoVolume, RemovesVolume
  <2>7. CASE Push(q)
    BY <2>7 DEF Push
  <2>8. CASE RemoveContainer(q)
    <3>1. at'[r] = at[r]
      BY <2>8 DEF RemoveContainer
    <3>2. container'[r] = container[r]
      <4>1. UNCHANGED container \/ container' = [container EXCEPT ![q] = "none"]
        BY ONLY <2>8 DEF RemoveContainer, RemovesContainer
      <4>2. QED
        BY <4>1
    <3>3. faults' = 0 => faults = 0
      BY <2>8, FaultCosts DEF RemoveContainer, RemovesContainer
    <3>4. QED
      BY <2>8, <3>1, <3>2, <3>3 DEF RemoveContainer
  <2>9. CASE RemoveVolume(q)
    BY <2>9, FaultCosts DEF RemoveVolume, RemovesVolume
  <2>10. CASE RemoveDirectories(q, "ended")
    BY <2>10, FaultCosts DEF RemoveDirectories
  <2>11. CASE Abort(q) \/ Crash(q) \/ Ages(q) \/ ReapOrphan(q)
    BY <2>11, FaultCosts DEF Abort, Crash, Ages, ReapOrphan
  <2>12. QED
    BY <2>1, <2>2, <2>3, <2>4, <2>5, <2>6, <2>7, <2>8, <2>9, <2>10, <2>11 DEF HostStep
<1>2. QED
  BY <1>1 DEF CleanInv

(* Leaving the run by a return or a throw. *)
LEMMA CleanEnds ==
  ASSUME HostInv, NEW q \in Runs, NEW how, NEW out, Ends(q, how, out)
  PROVE  at'[q] = IF sandbox[q] THEN "removing container" ELSE "removing directories"
BY DEF HostInv, RunTypeOK, Ends, Goto

LEMMA CleanStep ==
  ASSUME HostInv, NEW q \in Runs, HostStep(q)
  PROVE  CleanInv(q)'
<1> USE DEF Unmade, Making, Settled, Working, Publishing, Over
<1>i. RunTypeOK /\ HostTypeOK /\ CleanInv(q)
  BY DEF HostInv
<1>1. CASE Plain(q)
  <2>1. CASE at[q] = "access" /\ GoesOn(q, "checkout")
    <3>1. at'[q] = "checkout"
      BY <1>i, <2>1, WentOn
    <3>2. QED
      BY <1>1, <1>i, <2>1, <3>1 DEF Plain, CleanInv, hostVars
  <2>2. ASSUME at[q] \in Settled, NEW to \in Settled, GoesOn(q, to) PROVE CleanInv(q)'
    BY <1>1, <1>i, <2>2, WentOn DEF Plain, CleanInv, hostVars
  <2>3. ASSUME at[q] \in Settled \cup {"access"}, NEW how, NEW out, Ends(q, how, out)
        PROVE  CleanInv(q)'
    BY <1>1, <1>i, <2>3, CleanEnds DEF Plain, CleanInv, hostVars
  <2>4. QED
    BY <1>1, <2>1, <2>2, <2>3 DEF Plain
<1>2. CASE Checkout(q)
  <2>1. at[q] = "checkout" /\ UNCHANGED <<sandbox, pushdir, volume, container, old, faults>>
    BY <1>2 DEF Checkout, CheckoutFails, CheckedOut
  <2>2. CASE Fails(q) \/ Throws(q)
    BY <1>i, <2>1, <2>2, CleanEnds DEF CleanInv, Fails, Throws
  <2>3. CASE GoesOn(q, "creating")
    <3>1. at'[q] = "creating"
      BY <1>i, <2>3, WentOn
    <3>2. QED
      BY <1>i, <2>1, <3>1 DEF CleanInv
  <2>4. QED
    BY <1>2, <2>2, <2>3 DEF Checkout, CheckoutFails, GoesOnUnlessAborted
<1>3. CASE CreateVolume(q)
  <2>1. CASE GoesOn(q, "preparing")
    <3>1. at'[q] = "preparing"
      BY <1>i, <2>1, WentOn
    <3>2. faults' = 0 => faults = 0
      BY <1>3, <1>i, FaultCosts DEF CreateVolume
    <3>3. QED
      BY <1>3, <1>i, <3>1, <3>2 DEF CreateVolume, CleanInv
  <2>2. CASE Throws(q) /\ UNCHANGED <<volume, faults>>
    BY <1>3, <1>i, <2>2, CleanEnds DEF CreateVolume, CleanInv, Throws
  <2>3. CASE Throws(q) /\ Fault
    <3>1. at'[q] \in Removing /\ faults' # 0
      BY <1>i, <2>3, FailsLeft, FaultCosts
    <3>2. QED
      BY <1>3, <1>i, <3>1 DEF CreateVolume, CleanInv, Removing
  <2>4. QED
    BY <1>3, <2>1, <2>2, <2>3 DEF CreateVolume
<1>4. CASE PrepareVolume(q)
  <2>1. at'[q] \in {"resolving", "undoing volume"} /\ ending'[q] = ending[q]
    BY <1>4, <1>i, WentOn DEF PrepareVolume
  <2>2. QED
    BY <1>4, <1>i, <2>1 DEF PrepareVolume, CleanInv, hostVars
<1>5. CASE StartContainer(q)
  <2>1. CASE GoesOn(q, "copying")
    BY <1>5, <1>i, <2>1, WentOn DEF StartContainer, CleanInv, HostTypeOK, GoesOn, Goto, RunTypeOK
  <2>2. CASE GoesOn(q, "undoing container") /\ UNCHANGED sandbox
    <3>1. at'[q] = "undoing container"
      BY <1>i, <2>2, WentOn
    <3>2. QED
      BY <1>5, <1>i, <2>2, <3>1 DEF StartContainer, CleanInv
  <2>3. QED
    BY <1>5, <2>1, <2>2 DEF StartContainer
<1>6. CASE UndoContainer(q)
  <2>1. CASE RemovesContainer(q) /\ GoesOn(q, "undoing volume")
    <3>1. at'[q] = "undoing volume" /\ ending'[q] = ending[q]
      BY <1>i, <2>1, WentOn
    <3>2. faults' = 0 => container'[q] = "none" /\ faults = 0
      BY <1>i, <2>1, FaultCosts DEF RemovesContainer, HostTypeOK
    <3>3. QED
      BY <1>6, <1>i, <3>1, <3>2 DEF UndoContainer, CleanInv
  <2>2. CASE Fault /\ Throws(q)
    <3>1. at'[q] \in Removing /\ faults' # 0
      BY <1>i, <2>2, FailsLeft, FaultCosts
    <3>2. QED
      BY <1>6, <1>i, <3>1 DEF UndoContainer, CleanInv, Removing
  <2>3. QED
    BY <1>6, <2>1, <2>2 DEF UndoContainer
<1>7. CASE UndoVolume(q)
  <2>1. at'[q] = IF sandbox[q] THEN "removing container" ELSE "removing directories"
    BY <1>7, CleanEnds DEF UndoVolume, Throws
  <2>2. faults' = 0 => volume'[q] # "made" /\ faults = 0
    BY <1>7, <1>i, FaultCosts DEF UndoVolume, RemovesVolume, HostTypeOK, CleanInv
  <2>3. QED
    BY <1>7, <1>i, <2>1, <2>2 DEF UndoVolume, CleanInv
<1>8. CASE Push(q)
  <2>1. at[q] = "pushing" /\ UNCHANGED <<sandbox, workdir, volume, container, old, faults>>
    BY <1>8 DEF Push
  <2>2. CASE GoesOn(q, "opening")
    <3>1. at'[q] = "opening"
      BY <1>i, <2>2, WentOn
    <3>2. QED
      BY <1>i, <2>1, <3>1 DEF CleanInv
  <2>3. CASE Fails(q) \/ Throws(q)
    BY <1>i, <2>1, <2>3, CleanEnds DEF CleanInv, Fails, Throws
  <2>4. QED
    BY <1>8, <2>2, <2>3 DEF Push
<1>9. CASE RemoveContainer(q)
  <2>1. CASE RemovesContainer(q) /\ GoesOn(q, "removing volume")
    <3>1. at'[q] = "removing volume"
      BY <2>1, <1>i, WentOn
    <3>2. faults' = 0 => container'[q] = "none" /\ faults = 0
      BY <1>i, <2>1, FaultCosts DEF RemovesContainer, HostTypeOK
    <3>3. QED
      BY <1>9, <1>i, <3>1, <3>2 DEF RemoveContainer, CleanInv
  <2>2. CASE Fault /\ GoesOn(q, "removing directories")
    <3>1. at'[q] = "removing directories" /\ faults' # 0
      BY <1>i, <2>2, WentOn, FaultCosts
    <3>2. QED
      BY <1>9, <1>i, <3>1 DEF RemoveContainer, CleanInv
  <2>3. QED
    BY <1>9, <2>1, <2>2 DEF RemoveContainer
<1>10. CASE RemoveVolume(q)
  <2>1. at'[q] = "removing directories"
    BY <1>10, <1>i, WentOn DEF RemoveVolume
  <2>2. faults' = 0 => volume'[q] # "made" /\ faults = 0
    BY <1>10, <1>i, FaultCosts DEF RemoveVolume, RemovesVolume, HostTypeOK, CleanInv
  <2>3. QED
    BY <1>10, <1>i, <2>1, <2>2 DEF RemoveVolume, CleanInv
<1>11. CASE RemoveDirectories(q, "ended")
  <2>1. at'[q] = "ended"
    BY <1>11, <1>i, WentOn DEF RemoveDirectories
  <2>2. faults' = 0 => ~workdir'[q] /\ ~pushdir'[q] /\ faults = 0
    BY <1>11, <1>i, FaultCosts DEF RemoveDirectories, HostTypeOK
  <2>3. QED
    BY <1>11, <1>i, <2>1, <2>2 DEF RemoveDirectories, CleanInv
<1>12. CASE Abort(q)
  BY <1>12, <1>i DEF Abort, CleanInv, hostVars
<1>13. CASE Crash(q)
  <2>1. at'[q] = "crashed"
    BY <1>13, <1>i DEF Crash, Goto, RunTypeOK
  <2>2. QED
    BY <1>13, <1>i, <2>1 DEF Crash, CleanInv, hostVars
<1>14. CASE Ages(q)
  BY <1>14, <1>i DEF Ages, CleanInv
<1>15. CASE ReapOrphan(q)
  <2>1. faults' = 0 => at[q] # "ended" /\ faults = 0
    BY <1>15, <1>i, FaultCosts DEF ReapOrphan, CleanInv
  <2>2. QED
    BY <1>15, <1>i, <2>1 DEF ReapOrphan, CleanInv
<1>16. CASE ResolveProxy(q)
  <2>1. CASE GoesOn(q, "starting") /\ UNCHANGED volume
    <3>1. at'[q] = "starting"
      BY <1>i, <2>1, WentOn
    <3>2. QED
      BY <1>16, <1>i, <2>1, <3>1 DEF ResolveProxy, CleanInv
  <2>2. CASE Throws(q) /\ volume' = [volume EXCEPT ![q] = "stray"]
    <3>1. at'[q] = IF sandbox[q] THEN "removing container" ELSE "removing directories"
      BY <2>2, CleanEnds DEF Throws
    <3>2. volume'[q] = "stray"
      BY <1>i, <2>2 DEF HostTypeOK
    <3>3. QED
      BY <1>16, <1>i, <3>1, <3>2 DEF ResolveProxy, CleanInv
  <2>3. QED
    BY <1>16, <2>1, <2>2 DEF ResolveProxy
<1>17. QED
  BY <1>1, <1>2, <1>3, <1>4, <1>5, <1>6, <1>7, <1>8, <1>9, <1>10, <1>11, <1>12, <1>13, <1>14,
     <1>15, <1>16 DEF HostStep

(* Whichever await ends a run, nothing of it stays on the host. *)
THEOREM Clean == Spec => []NothingLeft
<1>1. Init => HostInv
  BY InitIInv DEF IInv, HostInv, HostTypeOK, CleanInv, Init, BaseInit, Unmade, Making, Settled,
     Working, Publishing
<1>2. HostInv /\ [Next]_vars => HostInv'
  <2> SUFFICES ASSUME HostInv, [Next]_vars PROVE HostInv'
    OBVIOUS
  <2>1. RunTypeOK'
    BY TypingStep DEF HostInv
  <2>2. CASE UNCHANGED vars
    BY <2>1, <2>2 DEF vars, baseVars, hostVars, HostInv, HostTypeOK, CleanInv
  <2>3. ASSUME NEW q \in Runs, HostStep(q) PROVE HostInv'
    <3>1. HostTypeOK'
      BY <2>3, HostTypingStep DEF HostInv
    <3>2. ASSUME NEW r \in Runs PROVE CleanInv(r)'
      <4>1. CASE r = q
        BY <2>3, <4>1, CleanStep
      <4>2. CASE r # q
        BY <2>3, <4>2, HostOthers
      <4>3. QED
        BY <4>1, <4>2
    <3>3. QED
      BY <2>1, <3>1, <3>2 DEF HostInv
  <2>4. QED
    BY <2>2, <2>3, HostSteps
<1>3. HostInv => NothingLeft
  BY DEF HostInv, CleanInv, NothingLeft
<1>4. QED
  BY <1>1, <1>2, <1>3, PTL DEF Spec
=============================================================================
