--------------------------- MODULE TestJobProofs ---------------------------
(***************************************************************************)
(* Proofs about TestJob, for any number of runs on a pull request and of   *)
(* faults, with or without crashes and an agent that explains failures.    *)
(***************************************************************************)
EXTENDS TestJob, SequenceTheorems, TLAPS

Judging == {"installing", "testing", "analysing"}
WorkStages == SetupStages \cup Judging
Removing == {"removing container", "removing volume", "removing directories"}
Reporting == {"status", "listing", "commenting"}
Stages == WorkStages \cup Removing \cup Reporting \cup Over

Outcomes == [status : {"succeeded", "failed"}, prUrl : BOOLEAN]
Endings == [how : {"going", "returned", "threw"}, out : Outcomes]
Verdicts == {"error", "passed", "failed"}
Comments == [run : Runs, outcome : Verdicts]
Tried == [exit : Exits, summary : Summaries \cup {"not run"}]

RunTypeOK ==
  /\ at \in [Runs -> Stages]
  /\ aborted \in [Runs -> BOOLEAN]
  /\ ending \in [Runs -> Endings]
  /\ target \in [Runs -> BOOLEAN]
  /\ ran \in [Runs -> Tried]
  /\ result \in [Runs -> Verdicts]
  /\ statuses \in [Runs -> Verdicts \cup {"none"}]
  /\ comments \in Seq(Comments)
  /\ existing \in [Runs -> {0, 1}]
  /\ clash \in BOOLEAN

PassedBy(t) == t.exit = 0 /\ t.summary \in {"absent", "empty", "green"}

FailedBy(t) ==
  \/ t.summary = "red"
  \/ t.summary = "green" /\ t.exit # 0
  \/ t.summary = "empty" /\ t.exit \notin {0, 5}
  \/ t.summary = "absent" /\ t.exit = 1

(* Where a run stands tells what is decided: there is a verdict before the end
   only while the failures are analysed, and a report only of a run that
   returned. *)
StageInv(r) ==
  /\ at[r] \in WorkStages => ending[r] = Going
  /\ at[r] \in WorkStages \ {"analysing"} => result[r] = "error"
  /\ at[r] = "analysing" => result[r] = "failed" /\ FailedBy(ran[r])
  /\ at[r] \in Reporting => target[r] /\ ending[r].how = "returned"

VerdictInv(r) ==
  ending[r].how = "returned" =>
    /\ ending[r].out.status = "failed" <=> result[r] = "error"
    /\ result[r] = "passed" => PassedBy(ran[r])
    /\ result[r] = "failed" => FailedBy(ran[r])

(* Run r reported that its outcome is o. *)
Reported(r, o) == target[r] /\ ending[r].how = "returned" /\ o = result[r]

RunInv(r) ==
  /\ StageInv(r)
  /\ VerdictInv(r)
  /\ statuses[r] # "none" => Reported(r, statuses[r])

CommentsInv == \A n \in DOMAIN comments : Reported(comments[n].run, comments[n].outcome)

(* A run that is about to update a comment found one, and while no two runs met
   at most one run is about to post, and only as long as there is none. *)
SharedInv ==
  /\ \A r \in Runs : at[r] = "commenting" /\ existing[r] = 1 => comments # <<>>
  /\ \/ clash
     \/ /\ Len(comments) <= 1
        /\ \A r \in Runs : WillPost(r) =>
             comments = <<>> /\ \A q \in Runs : WillPost(q) => q = r

IInv == RunTypeOK /\ (\A r \in Runs : RunInv(r)) /\ CommentsInv /\ SharedInv

-----------------------------------------------------------------------------
(* The steps of a run, by what they do to the state above. *)

Forward(from, to) ==
  \/ from \in SetupStages /\ to \in SetupStages
  \/ from = "marking" /\ to = "installing"
  \/ from = "installing" /\ to = "testing"

Quiet(q) ==
  /\ UNCHANGED <<aborted, ran, result, github>>
  /\ \/ UNCHANGED target
     \/ at[q] = "access" /\ \E pr \in BOOLEAN : target' = [target EXCEPT ![q] = pr]
  /\ \/ \E to \in Stages : Forward(at[q], to) /\ GoesOn(q, to)
     \/ at[q] \in WorkStages \ {"analysing"} /\ (Fails(q) \/ Throws(q))

Signals(q) == (Abort(q) \/ Crash(q)) /\ UNCHANGED <<localVars, github>>

Cleans(q) ==
  /\ at[q] \in Removing
  /\ UNCHANGED <<aborted, localVars, github>>
  /\ \E to \in Removing \cup {Afterwards(q)} : GoesOn(q, to)

RunStep(q) ==
  \/ Quiet(q)
  \/ Signals(q)
  \/ Test(q)
  \/ Analyse(q)
  \/ Cleans(q)
  \/ PostStatus(q)
  \/ ListComments(q)
  \/ PostComment(q)

Seen == <<at, aborted, ending, target, ran, result, github>>

LEMMA QuietSteps ==
  ASSUME NEW q \in Runs,
         (Host(q) /\ UNCHANGED <<localVars, github>>) \/ Access(q) \/ Checkout(q) \/ Install(q)
  PROVE  Quiet(q)
<1> USE DEF Quiet, Forward, Stages, WorkStages, SetupStages, Judging, localVars
<1>1. CASE Host(q) /\ UNCHANGED <<localVars, github>>
  <2>1. CASE Create(q)
    BY <1>1, <2>1 DEF Create, CreateVolume, PrepareVolume, ResolveProxy, StartContainer,
       UndoContainer, UndoVolume
  <2>2. CASE CopyIn(q) \/ MarkRunning(q)
    BY <1>1, <2>2 DEF CopyIn, MarkRunning
  <2>3. QED
    BY <1>1, <2>1, <2>2 DEF Host
<1>2. CASE Access(q)
  BY <1>2 DEF Access
<1>3. CASE Checkout(q)
  BY <1>3 DEF Checkout, CheckoutFails, CheckedOut, GoesOnUnlessAborted
<1>4. CASE Install(q)
  BY <1>4 DEF Install
<1>5. QED
  BY <1>1, <1>2, <1>3, <1>4

LEMMA CleanupSteps ==
  ASSUME NEW q \in Runs, Cleanup(q)
  PROVE  Cleans(q)
BY DEF Cleanup, RemoveContainer, RemoveVolume, RemoveDirectories, Cleans, Removing

LEMMA WorldSteps ==
  ASSUME NEW q \in Runs, World(q), UNCHANGED <<localVars, github>>
  PROVE  Signals(q) \/ UNCHANGED Seen
BY DEF World, Signals, Ages, ReapOrphan, Seen, localVars

LEMMA StepKinds ==
  ASSUME [Next]_vars
  PROVE  UNCHANGED Seen \/ \E q \in Runs : RunStep(q)
<1>1. CASE UNCHANGED vars
  BY <1>1 DEF vars, baseVars, localVars, Seen
<1>2. CASE Next
  BY <1>2, QuietSteps, CleanupSteps, WorldSteps DEF Next, RunStep
<1>3. QED
  BY <1>1, <1>2

-----------------------------------------------------------------------------
(* Where the moves lead. *)

LEMMA Left ==
  ASSUME RunTypeOK, NEW q \in Runs, NEW how \in {"returned", "threw"}, NEW out \in Outcomes,
         Ends(q, how, out)
  PROVE  /\ at' \in [Runs -> Stages] /\ ending' \in [Runs -> Endings]
         /\ at'[q] \in Removing
         /\ ending'[q] = [how |-> how, out |-> out]
         /\ \A r \in Runs \ {q} : at'[r] = at[r] /\ ending'[r] = ending[r]
BY DEF RunTypeOK, Ends, Goto, Stages, Removing, Endings

LEMMA FailsLeft ==
  ASSUME RunTypeOK, NEW q \in Runs, Fails(q) \/ Throws(q)
  PROVE  /\ at' \in [Runs -> Stages] /\ ending' \in [Runs -> Endings]
         /\ at'[q] \in Removing
         /\ Fails(q) => ending'[q] = [how |-> "returned", out |-> Failure]
         /\ Throws(q) => ending'[q] = [how |-> "threw", out |-> Failure]
         /\ ending'[q].out.status = "failed"
         /\ \A r \in Runs \ {q} : at'[r] = at[r] /\ ending'[r] = ending[r]
<1>1. Failure \in Outcomes /\ Failure.status = "failed"
  BY DEF Failure, Outcomes
<1>2. Ends(q, "returned", Failure) \/ Ends(q, "threw", Failure)
  BY DEF Fails, Throws
<1>3. /\ Fails(q) => ending'[q] = [how |-> "returned", out |-> Failure]
      /\ Throws(q) => ending'[q] = [how |-> "threw", out |-> Failure]
  BY <1>1, Left DEF Fails, Throws
<1>4. ending'[q].out = Failure
  BY <1>3
<1>5. QED
  BY <1>1, <1>2, <1>3, <1>4, Left

LEMMA SucceedsLeft ==
  ASSUME RunTypeOK, NEW q \in Runs, Ends(q, "returned", Success)
  PROVE  /\ at' \in [Runs -> Stages] /\ ending' \in [Runs -> Endings]
         /\ at'[q] \in Removing
         /\ ending'[q] = [how |-> "returned", out |-> Success]
         /\ Success.status # "failed"
         /\ \A r \in Runs \ {q} : at'[r] = at[r] /\ ending'[r] = ending[r]
<1>1. Success \in Outcomes /\ Success.status # "failed"
  BY DEF Success, Outcomes
<1>2. QED
  BY <1>1, Left

LEMMA WentOn ==
  ASSUME RunTypeOK, NEW q \in Runs, NEW to \in Stages, GoesOn(q, to)
  PROVE  /\ at' \in [Runs -> Stages] /\ ending' \in [Runs -> Endings]
         /\ at'[q] = to
         /\ ending' = ending
         /\ \A r \in Runs \ {q} : at'[r] = at[r]
BY DEF RunTypeOK, GoesOn, Goto

LEMMA Afterward ==
  ASSUME NEW q \in Runs
  PROVE  /\ Afterwards(q) \in {"status", "listing", "ended"}
         /\ Afterwards(q) \in Reporting => target[q] /\ ending[q].how = "returned"
BY DEF Afterwards, Reporting

(* What a run has reported stays true: nothing of it changes once it returned. *)
LEMMA Frozen ==
  ASSUME RunTypeOK, NEW q \in Runs, StageInv(q), RunStep(q), ending[q].how = "returned"
  PROVE  /\ ending'[q] = ending[q]
         /\ target'[q] = target[q]
         /\ result'[q] = result[q]
<1>1. at[q] \notin WorkStages
  BY DEF StageInv, Going
<1>2. at[q] \notin {"access", "testing", "analysing"}
  BY <1>1 DEF WorkStages, SetupStages, Judging
<1>3. CASE Quiet(q)
  BY <1>1, <1>2, <1>3 DEF Quiet, Forward, WorkStages, Judging, GoesOn
<1>4. CASE Signals(q)
  BY <1>4 DEF Signals, Abort, Crash, localVars
<1>5. CASE Test(q) \/ Analyse(q)
  BY <1>2, <1>5 DEF Test, Analyse
<1>6. CASE Cleans(q)
  BY <1>6 DEF Cleans, GoesOn, localVars
<1>7. CASE PostStatus(q) \/ ListComments(q) \/ PostComment(q)
  BY <1>7 DEF PostStatus, ListComments, PostComment, GoesOn, localVars
<1>8. QED
  BY <1>3, <1>4, <1>5, <1>6, <1>7 DEF RunStep

-----------------------------------------------------------------------------
(* The invariant, one run at a time. *)

LEMMA InitIInv == Init => IInv
<1> SUFFICES ASSUME Init PROVE IInv
  OBVIOUS
<1>1. RunTypeOK
  <2>1. "access" \in Stages
    BY DEF Stages, WorkStages, SetupStages
  <2>2. Going \in Endings
    BY DEF Going, Failure, Endings, Outcomes
  <2>3. NotRun \in Tried
    BY DEF NotRun, Tried, Exits
  <2>4. comments \in Seq(Comments)
    BY DEF Init
  <2>5. QED
    BY <2>1, <2>2, <2>3, <2>4 DEF Init, BaseInit, RunTypeOK, Verdicts
<1>2. \A r \in Runs : RunInv(r)
  BY DEF Init, BaseInit, Going, RunInv, StageInv, VerdictInv, Reporting
<1>3. CommentsInv
  BY DEF Init, CommentsInv
<1>4. SharedInv
  BY DEF Init, BaseInit, SharedInv, WillPost
<1>5. QED
  BY <1>1, <1>2, <1>3, <1>4 DEF IInv

(* A step of one run leaves the others where they are. *)
Same(r) ==
  /\ at'[r] = at[r]
  /\ aborted'[r] = aborted[r]
  /\ ending'[r] = ending[r]
  /\ target'[r] = target[r]
  /\ ran'[r] = ran[r]
  /\ result'[r] = result[r]
  /\ statuses'[r] = statuses[r]
  /\ existing'[r] = existing[r]

LEMMA SameKeeps ==
  ASSUME NEW r \in Runs, RunInv(r), Same(r)
  PROVE  RunInv(r)'
BY DEF Same, RunInv, StageInv, VerdictInv, Reported

LEMMA OthersSame ==
  ASSUME RunTypeOK, NEW q \in Runs, NEW r \in Runs \ {q}, RunStep(q)
  PROVE  Same(r)
<1> USE DEF RunTypeOK, Same, localVars, github, Goto, GoesOn, Ends, Fails, Throws
<1>1. CASE Quiet(q)
  BY <1>1 DEF Quiet
<1>2. CASE Signals(q)
  BY <1>2 DEF Signals, Abort, Crash
<1>3. CASE Test(q)
  BY <1>3 DEF Test
<1>4. CASE Analyse(q)
  BY <1>4 DEF Analyse
<1>5. CASE Cleans(q)
  BY <1>5 DEF Cleans
<1>6. CASE PostStatus(q)
  BY <1>6 DEF PostStatus
<1>7. CASE ListComments(q)
  BY <1>7 DEF ListComments
<1>8. CASE PostComment(q)
  BY <1>8 DEF PostComment
<1>9. QED
  BY <1>1, <1>2, <1>3, <1>4, <1>5, <1>6, <1>7, <1>8 DEF RunStep

(* What the test command's end says of the verdict. *)
LEMMA Judged ==
  ASSUME NEW exit \in Exits, NEW summary \in Summaries, Conclusive(exit, summary)
  PROVE  LET t == [exit |-> exit, summary |-> summary]
         IN IF testsPassed(exit, summary) THEN PassedBy(t) ELSE FailedBy(t)
BY DEF Conclusive, testsPassed, noTestsCollected, Exits, Summaries, PassedBy, FailedBy

(* The end of a test command: an outcome without a verdict, one of a passed or
   failed test, or the analysis of the failures. *)
LEMMA TestEffect ==
  ASSUME RunTypeOK, NEW q \in Runs, Test(q)
  PROVE  /\ at[q] = "testing" /\ UNCHANGED <<aborted, target, github>>
         /\ \/ (Fails(q) \/ Throws(q)) /\ result' = result /\ ran' \in [Runs -> Tried]
            \/ \E t \in Tried, verdict \in {"passed", "failed"} :
                 /\ ran' = [ran EXCEPT ![q] = t]
                 /\ result' = [result EXCEPT ![q] = verdict]
                 /\ IF verdict = "passed" THEN PassedBy(t) ELSE FailedBy(t)
                 /\ \/ Ends(q, "returned", Success)
                    \/ verdict = "failed" /\ GoesOn(q, "analysing")
<1>1. at[q] = "testing" /\ UNCHANGED <<aborted, target, github>>
  BY DEF Test
<1>2. CASE (Fails(q) \/ Throws(q)) /\ UNCHANGED <<ran, result>>
  BY <1>1, <1>2 DEF RunTypeOK
<1>3. ASSUME NEW exit \in Exits, NEW summary \in Summaries,
             ran' = [ran EXCEPT ![q] = [exit |-> exit, summary |-> summary]],
             \/ ~Conclusive(exit, summary) /\ Fails(q) /\ UNCHANGED result
             \/ /\ Conclusive(exit, summary) /\ testsPassed(exit, summary)
                /\ result' = [result EXCEPT ![q] = "passed"]
                /\ Ends(q, "returned", Success)
             \/ /\ Conclusive(exit, summary) /\ ~testsPassed(exit, summary)
                /\ result' = [result EXCEPT ![q] = "failed"]
                /\ IF Explains THEN GoesOn(q, "analysing") ELSE Ends(q, "returned", Success)
      PROVE  \/ (Fails(q) \/ Throws(q)) /\ result' = result /\ ran' \in [Runs -> Tried]
             \/ \E t \in Tried, verdict \in {"passed", "failed"} :
                  /\ ran' = [ran EXCEPT ![q] = t]
                  /\ result' = [result EXCEPT ![q] = verdict]
                  /\ IF verdict = "passed" THEN PassedBy(t) ELSE FailedBy(t)
                  /\ \/ Ends(q, "returned", Success)
                     \/ verdict = "failed" /\ GoesOn(q, "analysing")
  <2> DEFINE t == [exit |-> exit, summary |-> summary]
  <2>1. t \in Tried
    BY DEF Tried
  <2>2. Conclusive(exit, summary) =>
          IF testsPassed(exit, summary) THEN PassedBy(t) ELSE FailedBy(t)
    BY Judged
  <2>3. ran' \in [Runs -> Tried]
    BY <1>3, <2>1 DEF RunTypeOK
  <2> HIDE DEF t
  <2>4. ran' = [ran EXCEPT ![q] = t]
    BY <1>3 DEF t
  <2>5. CASE ~Conclusive(exit, summary)
    BY <1>3, <2>3, <2>5
  <2>6. CASE Conclusive(exit, summary) /\ testsPassed(exit, summary)
    BY <1>3, <2>1, <2>2, <2>4, <2>6
  <2>7. CASE Conclusive(exit, summary) /\ ~testsPassed(exit, summary)
    BY <1>3, <2>1, <2>2, <2>4, <2>7
  <2>8. QED
    BY <2>5, <2>6, <2>7
<1>4. QED
  BY <1>1, <1>2, <1>3 DEF Test

LEMMA RunInvStep ==
  ASSUME IInv, NEW q \in Runs, RunStep(q)
  PROVE  RunInv(q)' /\ at' \in [Runs -> Stages] /\ ending' \in [Runs -> Endings]
<1>i. RunTypeOK /\ StageInv(q) /\ VerdictInv(q)
      /\ (statuses[q] # "none" => Reported(q, statuses[q]))
  BY DEF IInv, RunInv
<1>s. /\ Removing \cap (WorkStages \cup Reporting) = {}
      /\ Over \cap (WorkStages \cup Reporting) = {}
      /\ WorkStages \cap Reporting = {}
      /\ "analysing" \in WorkStages
      /\ Removing \cup Reporting \cup Over \subseteq Stages
      /\ WorkStages \subseteq Stages
  BY DEF Removing, WorkStages, Reporting, Over, SetupStages, Judging, Stages
<1>g. Going.how = "going"
  BY DEF Going
<1>n. at[q] \in WorkStages => statuses[q] = "none" /\ ending[q].how = "going"
  BY <1>i, <1>g DEF StageInv, Reported
<1>1. CASE Quiet(q)
  <2>1. UNCHANGED <<ran, result, statuses>>
    BY <1>1 DEF Quiet, github
  <2>2. at[q] \in WorkStages \ {"analysing"}
    BY <1>1 DEF Quiet, Forward, WorkStages, SetupStages, Judging
  <2>3. ASSUME NEW to \in Stages, Forward(at[q], to), GoesOn(q, to)
        PROVE  RunInv(q)' /\ at' \in [Runs -> Stages] /\ ending' \in [Runs -> Endings]
    <3>1. to \in WorkStages \ {"analysing"}
      BY <2>3 DEF Forward, WorkStages, SetupStages, Judging
    <3>2. QED
      BY <1>i, <1>s, <1>g, <1>n, <2>1, <2>2, <2>3, <3>1, WentOn
      DEF RunInv, StageInv, VerdictInv
  <2>4. CASE Fails(q) \/ Throws(q)
    BY <1>i, <1>s, <1>n, <2>1, <2>2, <2>4, FailsLeft DEF RunInv, StageInv, VerdictInv
  <2>5. QED
    BY <1>1, <2>3, <2>4 DEF Quiet
<1>2. CASE Signals(q)
  <2>1. UNCHANGED <<target, ran, result, statuses, ending>>
    BY <1>2 DEF Signals, localVars, github, Abort, Crash
  <2>2. at' = at \/ (at'[q] = "crashed" /\ at' \in [Runs -> Stages])
    BY <1>2, <1>i, <1>s DEF Signals, Abort, Crash, Goto, RunTypeOK, Over
  <2>3. "crashed" \notin WorkStages \cup Reporting
    BY <1>s DEF Over
  <2>4. QED
    BY <1>i, <1>s, <2>1, <2>2, <2>3 DEF RunTypeOK, RunInv, StageInv, VerdictInv, Reported
<1>3. CASE Test(q)
  <2>1. at[q] = "testing" /\ UNCHANGED <<target, statuses>>
    BY <1>3, <1>i, TestEffect DEF github
  <2>2. at[q] \in WorkStages \ {"analysing"}
    BY <2>1 DEF WorkStages, Judging
  <2>3. CASE (Fails(q) \/ Throws(q)) /\ result' = result
    BY <1>i, <1>s, <1>n, <2>1, <2>2, <2>3, FailsLeft DEF RunInv, StageInv, VerdictInv
  <2>4. ASSUME NEW t \in Tried, NEW verdict \in {"passed", "failed"},
               ran' = [ran EXCEPT ![q] = t],
               result' = [result EXCEPT ![q] = verdict],
               IF verdict = "passed" THEN PassedBy(t) ELSE FailedBy(t)
        PROVE  ran'[q] = t /\ result'[q] = verdict /\ statuses'[q] = "none"
    BY <1>i, <1>n, <2>1, <2>2, <2>4 DEF RunTypeOK
  <2>5. ASSUME NEW t \in Tried, NEW verdict \in {"passed", "failed"},
               ran' = [ran EXCEPT ![q] = t],
               result' = [result EXCEPT ![q] = verdict],
               IF verdict = "passed" THEN PassedBy(t) ELSE FailedBy(t),
               \/ Ends(q, "returned", Success)
               \/ verdict = "failed" /\ GoesOn(q, "analysing")
        PROVE  RunInv(q)' /\ at' \in [Runs -> Stages] /\ ending' \in [Runs -> Endings]
    <3>1. ran'[q] = t /\ result'[q] = verdict /\ statuses'[q] = "none"
      BY <2>4, <2>5
    <3>2. CASE Ends(q, "returned", Success)
      <4>1. /\ at' \in [Runs -> Stages] /\ ending' \in [Runs -> Endings] /\ at'[q] \in Removing
            /\ ending'[q] = [how |-> "returned", out |-> Success] /\ Success.status # "failed"
        BY <1>i, <3>2, SucceedsLeft
      <4>2. QED
        BY <1>s, <2>5, <3>1, <4>1 DEF RunInv, StageInv, VerdictInv
    <3>3. CASE verdict = "failed" /\ GoesOn(q, "analysing")
      <4>1. /\ at' \in [Runs -> Stages] /\ ending' \in [Runs -> Endings]
            /\ at'[q] = "analysing" /\ ending' = ending
        BY <1>i, <1>s, <3>3, WentOn
      <4>2. ending'[q] = Going
        BY <1>i, <2>2, <4>1 DEF StageInv
      <4>3. QED
        BY <1>s, <1>g, <2>5, <3>1, <3>3, <4>1, <4>2 DEF RunInv, StageInv, VerdictInv
    <3>4. QED
      BY <2>5, <3>2, <3>3
  <2>6. QED
    BY <1>3, <1>i, <2>3, <2>5, TestEffect
<1>4. CASE Analyse(q)
  <2>1. /\ at[q] = "analysing" /\ UNCHANGED <<target, ran, result, statuses>>
        /\ Ends(q, "returned", Success) \/ Throws(q)
    BY <1>4 DEF Analyse, localVars, github
  <2>2. result[q] = "failed" /\ FailedBy(ran[q]) /\ statuses[q] = "none"
    BY <1>i, <1>n, <1>s, <2>1 DEF StageInv
  <2>3. CASE Throws(q)
    <3>1. /\ at' \in [Runs -> Stages] /\ ending' \in [Runs -> Endings] /\ at'[q] \in Removing
          /\ ending'[q].how = "threw"
      BY <1>i, <2>3, FailsLeft
    <3>2. QED
      BY <1>s, <2>1, <2>2, <3>1 DEF RunInv, StageInv, VerdictInv
  <2>4. CASE Ends(q, "returned", Success)
    <3>1. /\ at' \in [Runs -> Stages] /\ ending' \in [Runs -> Endings] /\ at'[q] \in Removing
          /\ ending'[q] = [how |-> "returned", out |-> Success] /\ Success.status # "failed"
      BY <1>i, <2>4, SucceedsLeft
    <3>2. QED
      BY <1>s, <2>1, <2>2, <3>1 DEF RunInv, StageInv, VerdictInv
  <2>5. QED
    BY <2>1, <2>3, <2>4
<1>5. CASE Cleans(q)
  <2>1. UNCHANGED <<target, ran, result, statuses>>
    BY <1>5 DEF Cleans, localVars, github
  <2>2. PICK to \in Removing \cup {Afterwards(q)} : GoesOn(q, to)
    BY <1>5 DEF Cleans
  <2>3. /\ to \in Stages /\ to \notin WorkStages
        /\ to \in Reporting => target[q] /\ ending[q].how = "returned"
    BY <1>s, <2>2, Afterward DEF Over, Reporting
  <2>4. /\ at' \in [Runs -> Stages] /\ ending' \in [Runs -> Endings]
        /\ at'[q] = to /\ ending' = ending
    BY <1>i, <2>2, <2>3, WentOn
  <2>5. QED
    BY <1>i, <1>s, <2>1, <2>3, <2>4 DEF RunInv, StageInv, VerdictInv, Reported
<1>6. CASE PostStatus(q) \/ ListComments(q) \/ PostComment(q)
  <2>1. /\ at[q] \in Reporting /\ UNCHANGED <<target, ran, result>>
        /\ statuses' = statuses \/ statuses' = [statuses EXCEPT ![q] = result[q]]
    BY <1>6 DEF PostStatus, ListComments, PostComment, Reporting, localVars
  <2>2. PICK to \in Reporting \cup {"ended"} : GoesOn(q, to)
    BY <1>6 DEF PostStatus, ListComments, PostComment, Reporting
  <2>3. to \in Stages /\ to \notin WorkStages
    BY <1>s, <2>2 DEF Over
  <2>4. /\ at' \in [Runs -> Stages] /\ ending' \in [Runs -> Endings]
        /\ at'[q] = to /\ ending' = ending
    BY <1>i, <2>2, <2>3, WentOn
  <2>5. target[q] /\ ending[q].how = "returned"
    BY <1>i, <2>1 DEF StageInv
  <2>6. statuses'[q] = statuses[q] \/ statuses'[q] = result[q]
    BY <1>i, <2>1 DEF RunTypeOK
  <2>7. QED
    BY <1>i, <1>s, <2>1, <2>3, <2>4, <2>5, <2>6 DEF RunInv, StageInv, VerdictInv, Reported
<1>7. QED
  BY <1>1, <1>2, <1>3, <1>4, <1>5, <1>6 DEF RunStep

-----------------------------------------------------------------------------
(* The invariant of all runs. *)

(* The comment of run q is appended or replaces the one it found. *)
LEMMA Commented ==
  ASSUME IInv, NEW q \in Runs, PostComment(q)
  PROVE  /\ comments' \in Seq(Comments)
         /\ \/ comments' = comments
            \/ existing[q] = 0 /\ Len(comments') = Len(comments) + 1
            \/ existing[q] = 1 /\ Len(comments') = Len(comments)
         /\ \A n \in 1 .. Len(comments') :
              \/ comments'[n] = [run |-> q, outcome |-> result[q]]
              \/ n \in 1 .. Len(comments) /\ comments'[n] = comments[n]
<1>i. RunTypeOK /\ SharedInv
  BY DEF IInv
<1>1. comments \in Seq(Comments) /\ existing[q] \in {0, 1}
  BY <1>i DEF RunTypeOK
<1> DEFINE c == [run |-> q, outcome |-> result[q]]
<1>2. c \in Comments
  BY <1>i DEF RunTypeOK, Comments
<1>3. \/ comments' = comments
      \/ existing[q] = 0 /\ comments' = Append(comments, c)
      \/ existing[q] = 1 /\ comments' = [comments EXCEPT ![1] = c]
  BY <1>1 DEF PostComment, Upsert
<1>4. existing[q] = 1 => 1 \in 1 .. Len(comments)
  <2>1. existing[q] = 1 => comments # <<>>
    BY <1>i DEF SharedInv, PostComment
  <2>2. QED
    BY <1>1, <2>1
<1> HIDE DEF c
<1>5. CASE comments' = comments
  BY <1>1, <1>5
<1>6. CASE existing[q] = 0 /\ comments' = Append(comments, c)
  <2>1. /\ comments' \in Seq(Comments) /\ Len(comments') = Len(comments) + 1
        /\ comments'[Len(comments) + 1] = c
        /\ \A n \in 1 .. Len(comments) : comments'[n] = comments[n]
    BY <1>1, <1>2, <1>6, AppendProperties
  <2>2. Len(comments) \in Nat
    BY <1>1
  <2>3. \A n \in 1 .. Len(comments') : n \in 1 .. Len(comments) \/ n = Len(comments) + 1
    BY <2>1, <2>2
  <2>4. QED
    BY <1>6, <2>1, <2>3 DEF c
<1>7. CASE existing[q] = 1 /\ comments' = [comments EXCEPT ![1] = c]
  <2>1. /\ comments' \in Seq(Comments) /\ Len(comments') = Len(comments)
        /\ \A n \in 1 .. Len(comments) : comments'[n] = IF n = 1 THEN c ELSE comments[n]
    BY <1>1, <1>2, <1>4, <1>7, ExceptSeq
  <2>2. QED
    BY <1>7, <2>1 DEF c
<1>8. QED
  BY <1>3, <1>5, <1>6, <1>7

(* Types of what RunInvStep leaves. *)
LEMMA TypingStep ==
  ASSUME IInv, NEW q \in Runs, RunStep(q)
  PROVE  RunTypeOK'
<1>i. RunTypeOK
  BY DEF IInv
<1>0. at' \in [Runs -> Stages] /\ ending' \in [Runs -> Endings]
  BY RunInvStep
<1>1. CASE Quiet(q)
  BY <1>0, <1>1, <1>i DEF Quiet, github, RunTypeOK
<1>2. CASE Signals(q)
  BY <1>0, <1>2, <1>i DEF Signals, Abort, Crash, localVars, github, RunTypeOK
<1>3. CASE Test(q)
  <2>1. UNCHANGED <<aborted, target, github>>
    BY <1>3, <1>i, TestEffect
  <2>2. ran' \in [Runs -> Tried] /\ result' \in [Runs -> Verdicts]
    <3>1. ASSUME NEW t \in Tried, NEW verdict \in {"passed", "failed"},
                 ran' = [ran EXCEPT ![q] = t], result' = [result EXCEPT ![q] = verdict]
          PROVE  ran' \in [Runs -> Tried] /\ result' \in [Runs -> Verdicts]
      BY <1>i, <3>1 DEF RunTypeOK, Verdicts
    <3>2. CASE result' = result /\ ran' \in [Runs -> Tried]
      BY <1>i, <3>2 DEF RunTypeOK
    <3>3. QED
      BY <1>3, <1>i, <3>1, <3>2, TestEffect
  <2>3. QED
    BY <1>0, <1>i, <2>1, <2>2 DEF github, RunTypeOK
<1>4. CASE Analyse(q) \/ Cleans(q)
  BY <1>0, <1>4, <1>i DEF Analyse, Cleans, localVars, github, RunTypeOK
<1>5. CASE PostStatus(q)
  <2>1. statuses' \in [Runs -> Verdicts \cup {"none"}]
    BY <1>5, <1>i DEF PostStatus, RunTypeOK
  <2>2. QED
    BY <1>0, <1>5, <1>i, <2>1 DEF PostStatus, localVars, RunTypeOK
<1>6. CASE ListComments(q)
  <2>1. existing' \in [Runs -> {0, 1}] /\ clash' \in BOOLEAN
    BY <1>6, <1>i DEF ListComments, RunTypeOK
  <2>2. QED
    BY <1>0, <1>6, <1>i, <2>1 DEF ListComments, localVars, RunTypeOK
<1>7. CASE PostComment(q)
  <2>1. comments' \in Seq(Comments)
    BY <1>7, Commented
  <2>2. QED
    BY <1>0, <1>7, <1>i, <2>1 DEF PostComment, localVars, RunTypeOK
<1>8. QED
  BY <1>1, <1>2, <1>3, <1>4, <1>5, <1>6, <1>7 DEF RunStep

(* The comments of the pull request: the other runs' outcomes stand, and a run that
   comments has returned. *)
LEMMA CommentsStep ==
  ASSUME IInv, NEW q \in Runs, RunStep(q)
  PROVE  CommentsInv'
<1>i. RunTypeOK /\ StageInv(q) /\ CommentsInv
  BY DEF IInv, RunInv
<1>1. \A r \in Runs, o \in Verdicts : Reported(r, o) => Reported(r, o)'
  <2> SUFFICES ASSUME NEW r \in Runs, NEW o \in Verdicts, Reported(r, o)
               PROVE  Reported(r, o)'
    OBVIOUS
  <2>1. CASE r = q
    BY <1>i, <2>1, Frozen DEF Reported
  <2>2. CASE r # q
    BY <1>i, <2>2, OthersSame DEF Reported, Same
  <2>3. QED
    BY <2>1, <2>2
<1>2. \A n \in DOMAIN comments : comments[n].run \in Runs /\ comments[n].outcome \in Verdicts
  <2> SUFFICES ASSUME NEW n \in DOMAIN comments
               PROVE  comments[n].run \in Runs /\ comments[n].outcome \in Verdicts
    OBVIOUS
  <2>1. comments[n] \in Comments
    BY <1>i DEF RunTypeOK
  <2>2. QED
    BY <2>1 DEF Comments
<1>3. CASE comments' = comments
  BY <1>1, <1>2, <1>3, <1>i DEF CommentsInv, Reported
<1>4. CASE PostComment(q)
  <2>1. at[q] \in Reporting /\ result' = result
    BY <1>4 DEF PostComment, Reporting, localVars
  <2>2. Reported(q, result[q]) /\ result[q] \in Verdicts
    BY <1>i, <2>1 DEF StageInv, Reported, RunTypeOK
  <2>3. Reported(q, result[q])'
    BY <1>1, <2>1, <2>2 DEF Reported
  <2>4. /\ DOMAIN comments = 1 .. Len(comments)
        /\ DOMAIN comments' = 1 .. Len(comments')
    BY <1>4, <1>i, Commented DEF RunTypeOK
  <2>5. ASSUME NEW n \in DOMAIN comments'
        PROVE  Reported(comments[n].run, comments[n].outcome)'
    <3>1. CASE comments'[n] = [run |-> q, outcome |-> result[q]]
      <4>1. comments'[n].run = q /\ comments'[n].outcome = result[q]
        BY <3>1
      <4>2. QED
        BY <2>1, <2>3, <4>1 DEF Reported
    <3>2. CASE n \in DOMAIN comments /\ comments'[n] = comments[n]
      <4>1. Reported(comments[n].run, comments[n].outcome)
        BY <1>i, <3>2 DEF CommentsInv
      <4>2. QED
        BY <1>1, <1>2, <3>2, <4>1 DEF Reported
    <3>3. QED
      BY <1>4, <2>4, <3>1, <3>2, Commented
  <2>6. QED
    BY <2>5 DEF CommentsInv
<1>5. QED
  BY <1>3, <1>4
  DEF RunStep, Quiet, Signals, Test, Analyse, Cleans, PostStatus, ListComments, localVars, github

(* Only the look at the comments leads to a comment. *)
LEMMA ToComment ==
  ASSUME RunTypeOK, NEW q \in Runs, RunStep(q), ~ListComments(q),
         at'[q] = "commenting"
  PROVE  at[q] = "commenting"
<1>1. CASE Quiet(q)
  <2>1. ASSUME NEW to \in Stages, Forward(at[q], to), GoesOn(q, to) PROVE FALSE
    BY <2>1, WentOn DEF Forward, SetupStages
  <2>2. QED
    BY <1>1, <2>1, FailsLeft DEF Quiet, Removing
<1>2. CASE Signals(q)
  BY <1>2 DEF Signals, Abort, Crash, Goto, RunTypeOK
<1>3. CASE Test(q)
  <2>1. "analysing" \in Stages
    BY DEF Stages, WorkStages, Judging
  <2>2. QED
    BY <1>3, <2>1, TestEffect, FailsLeft, SucceedsLeft, WentOn DEF Removing
<1>4. CASE Analyse(q)
  BY <1>4, FailsLeft, SucceedsLeft DEF Analyse, Removing
<1>5. CASE Cleans(q)
  BY <1>5, Afterward DEF Cleans, GoesOn, Goto, RunTypeOK, Removing
<1>6. CASE PostStatus(q) \/ PostComment(q)
  BY <1>6 DEF PostStatus, PostComment, GoesOn, Goto, RunTypeOK
<1>7. QED
  BY <1>1, <1>2, <1>3, <1>4, <1>5, <1>6 DEF RunStep

LEMMA SharedStep ==
  ASSUME IInv, NEW q \in Runs, RunStep(q)
  PROVE  SharedInv'
<1>i. RunTypeOK /\ SharedInv
  BY DEF IInv
<1>o. \A r \in Runs \ {q} : at'[r] = at[r] /\ existing'[r] = existing[r]
  BY <1>i, OthersSame DEF Same
<1>1. CASE ListComments(q)
  <2>1. at[q] = "listing" /\ comments' = comments
    BY <1>1 DEF ListComments
  <2>2. CASE /\ existing' = [existing EXCEPT ![q] = IF comments = <<>> THEN 0 ELSE 1]
             /\ clash' = (clash \/ \E r \in Runs \ {q} : WillPost(r))
             /\ GoesOn(q, "commenting")
    <3>1. /\ existing'[q] = IF comments = <<>> THEN 0 ELSE 1
          /\ at'[q] = "commenting"
      BY <1>i, <2>2 DEF GoesOn, Goto, RunTypeOK
    <3>2. \A r \in Runs : at'[r] = "commenting" /\ existing'[r] = 1 => comments # <<>>
      BY <1>i, <1>o, <3>1 DEF SharedInv
    <3>3. ASSUME ~clash'
          PROVE  /\ Len(comments) <= 1
                 /\ \A r \in Runs : WillPost(r)' =>
                      comments = <<>> /\ \A s \in Runs : WillPost(s)' => s = r
      <4>1. ~clash /\ \A r \in Runs \ {q} : ~WillPost(r)
        BY <2>2, <3>3
      <4>2. \A r \in Runs \ {q} : ~WillPost(r)'
        BY <1>o, <4>1 DEF WillPost
      <4>3. QED
        BY <1>i, <3>1, <4>1, <4>2 DEF SharedInv, WillPost
    <3>4. QED
      BY <2>1, <3>2, <3>3 DEF SharedInv
  <2>3. CASE GoesOn(q, "ended") /\ UNCHANGED <<existing, clash>>
    <3>1. at'[q] = "ended"
      BY <1>i, <2>3 DEF GoesOn, Goto, RunTypeOK
    <3>2. \A r \in Runs : WillPost(r)' => WillPost(r)
      BY <1>o, <2>3, <3>1 DEF WillPost
    <3>3. QED
      BY <1>i, <1>o, <2>1, <2>3, <3>1, <3>2 DEF SharedInv
  <2>4. QED
    BY <1>1, <2>2, <2>3 DEF ListComments
<1>2. CASE PostComment(q)
  <2>1. at[q] = "commenting" /\ existing' = existing /\ clash' = clash
    BY <1>2 DEF PostComment
  <2>2. at'[q] = "ended"
    BY <1>2, <1>i DEF PostComment, GoesOn, Goto, RunTypeOK
  <2>3. /\ comments' \in Seq(Comments) /\ comments \in Seq(Comments)
        /\ \/ comments' = comments
           \/ existing[q] = 0 /\ Len(comments') = Len(comments) + 1
           \/ existing[q] = 1 /\ Len(comments') = Len(comments)
    BY <1>2, <1>i, Commented DEF RunTypeOK
  <2>4. \A r \in Runs : at'[r] = "commenting" /\ existing'[r] = 1 => comments' # <<>>
    <3>1. comments # <<>> => comments' # <<>>
      BY <2>3
    <3>2. QED
      BY <1>i, <1>o, <2>2, <3>1 DEF SharedInv
  <2>5. \A r \in Runs : WillPost(r)' => r # q /\ WillPost(r)
    BY <1>o, <2>1, <2>2 DEF WillPost
  <2>6. ASSUME ~clash
        PROVE  /\ Len(comments') <= 1
               /\ \A r \in Runs : WillPost(r)' =>
                    comments' = <<>> /\ \A s \in Runs : WillPost(s)' => s = r
    <3>1. CASE existing[q] = 0
      <4>1. WillPost(q)
        BY <2>1, <3>1 DEF WillPost
      <4>2. comments = <<>> /\ \A r \in Runs : WillPost(r) => r = q
        BY <1>i, <2>6, <4>1 DEF SharedInv
      <4>3. Len(comments') <= 1
        <5>1. Len(comments) = 0
          BY <4>2
        <5>2. CASE comments' = comments
          BY <5>1, <5>2
        <5>3. CASE Len(comments') = Len(comments) + 1
          BY <5>1, <5>3
        <5>4. CASE Len(comments') = Len(comments)
          BY <5>1, <5>4
        <5>5. QED
          BY <2>3, <5>2, <5>3, <5>4
      <4>4. \A r \in Runs : ~WillPost(r)'
        BY <2>5, <4>2
      <4>5. QED
        BY <4>3, <4>4
    <3>2. CASE existing[q] = 1
      <4>1. comments # <<>> /\ Len(comments) <= 1
        BY <1>i, <2>1, <2>6, <3>2 DEF SharedInv
      <4>2. \A r \in Runs : ~WillPost(r)
        BY <1>i, <2>6, <4>1 DEF SharedInv
      <4>3. QED
        BY <2>3, <2>5, <3>2, <4>1, <4>2
    <3>3. QED
      BY <1>i, <3>1, <3>2 DEF RunTypeOK
  <2>7. QED
    BY <2>1, <2>4, <2>6 DEF SharedInv
<1>3. CASE ~ListComments(q) /\ ~PostComment(q)
  <2>1. UNCHANGED <<comments, existing, clash>>
    BY <1>3
    DEF RunStep, Quiet, Signals, Test, Analyse, Cleans, PostStatus, localVars, github
  <2>2. \A r \in Runs : at'[r] = "commenting" => at[r] = "commenting"
    BY <1>3, <1>i, <1>o, ToComment
  <2>3. \A r \in Runs : WillPost(r)' => WillPost(r)
    BY <2>1, <2>2 DEF WillPost
  <2>4. QED
    BY <1>i, <2>1, <2>2, <2>3 DEF SharedInv
<1>4. QED
  BY <1>1, <1>2, <1>3

LEMMA InvStep == IInv /\ [Next]_vars => IInv'
<1> SUFFICES ASSUME IInv, [Next]_vars PROVE IInv'
  OBVIOUS
<1>1. CASE UNCHANGED Seen
  BY <1>1
  DEF Seen, github, IInv, RunTypeOK, RunInv, StageInv, VerdictInv, Reported, CommentsInv,
      SharedInv, WillPost
<1>2. ASSUME NEW q \in Runs, RunStep(q) PROVE IInv'
  <2>1. RunTypeOK' /\ CommentsInv' /\ SharedInv'
    BY <1>2, TypingStep, CommentsStep, SharedStep
  <2>2. ASSUME NEW r \in Runs PROVE RunInv(r)'
    <3>1. CASE r = q
      BY <1>2, <3>1, RunInvStep
    <3>2. CASE r # q
      BY <1>2, <3>2, OthersSame, SameKeeps DEF IInv
    <3>3. QED
      BY <3>1, <3>2
  <2>3. QED
    BY <2>1, <2>2 DEF IInv
<1>3. QED
  BY <1>1, <1>2, StepKinds

-----------------------------------------------------------------------------
(* The inductive invariant: types, what each run has decided where it stands, what
   it reported, and the comment that the runs share. *)
THEOREM Safety == Spec => []IInv
BY InitIInv, InvStep, PTL DEF Spec

(* The job's status and its verdict fit what the test command did. *)
THEOREM Verdict == Spec => []VerdictIsTrue
<1>1. IInv => VerdictIsTrue
  BY DEF IInv, RunInv, VerdictInv, PassedBy, FailedBy, VerdictIsTrue
<1>2. QED
  BY <1>1, Safety, PTL

(* The pull request shows only what the runs that returned say of themselves. *)
THEOREM Reports == Spec => []ReportsAgree
<1>1. IInv => ReportsAgree
  BY DEF IInv, RunInv, CommentsInv, Reported, ReportsAgree
<1>2. QED
  BY <1>1, Safety, PTL

(* One comment for all runs, unless one looked while another was about to post. *)
THEOREM Comment == Spec => []OneComment
<1>1. IInv => OneComment
  BY DEF IInv, SharedInv, OneComment
<1>2. QED
  BY <1>1, Safety, PTL

-----------------------------------------------------------------------------
(* The contract. *)

LEMMA PhaseValues ==
  ASSUME NEW stage, NEW how
  PROVE  /\ stage = "crashed" => phaseAt(stage, how) = "gone"
         /\ stage # "crashed" /\ how = "returned" => phaseAt(stage, how) = "returned"
         /\ stage # "crashed" /\ how = "threw" => phaseAt(stage, how) = "catching"
         /\ stage \in SetupStages /\ how = "going" => phaseAt(stage, how) = "setup"
         /\ stage \in Judging /\ how = "going" => phaseAt(stage, how) = "working"
         /\ stage \in Removing \cup {"ended"} /\ how = "going" => phaseAt(stage, how) = "working"
BY DEF phaseAt, SetupStages, Judging, Removing

LEMMA PhaseWentOn ==
  ASSUME RunTypeOK, NEW q \in Runs, NEW to \in Stages, GoesOn(q, to)
  PROVE  phaseOf(q)' = phaseAt(to, ending[q].how) /\ ending' = ending
<1>1. at'[q] = to /\ ending' = ending
  BY WentOn
<1>2. QED
  BY <1>1 DEF phaseOf

(* How a run is left in the words of the contract, whether it is still set up or
   already at work. *)
LEMMA ContractLeft ==
  ASSUME IInv, NEW q \in Runs, at[q] \in WorkStages, aborted'[q] = aborted[q],
         Fails(q) \/ Throws(q)
  PROVE  Contract(q)!Next
<1>i. RunTypeOK /\ StageInv(q)
  BY DEF IInv, RunInv
<1>1. phaseOf(q) \in {"setup", "working"} /\ ending[q].out = Failure
  BY <1>i, PhaseValues DEF phaseOf, StageInv, WorkStages, Going
<1>2. at'[q] # "crashed"
  BY <1>i, FailsLeft DEF Removing
<1>3. CASE Fails(q)
  <2>1. ending'[q].how = "returned" /\ ending'[q].out = Failure
    <3>1. ending'[q] = [how |-> "returned", out |-> Failure]
      BY <1>i, <1>3, FailsLeft
    <3>2. QED
      BY <3>1
  <2>2. phaseOf(q)' = "returned"
    BY <1>2, <2>1, PhaseValues DEF phaseOf
  <2>3. Contract(q)!Fails
    BY <1>1, <2>1, <2>2 DEF Contract!Fails, Contract!Returns, Contract!Failure, Failure
  <2>4. QED
    BY <2>3 DEF Contract!Next
<1>4. CASE Throws(q)
  <2>1. ending'[q].how = "threw" /\ ending'[q].out = Failure
    <3>1. ending'[q] = [how |-> "threw", out |-> Failure]
      BY <1>i, <1>4, FailsLeft
    <3>2. QED
      BY <3>1
  <2>2. phaseOf(q)' = "catching"
    BY <1>2, <2>1, PhaseValues DEF phaseOf
  <2>3. Contract(q)!Throws
    BY <1>1, <2>1, <2>2 DEF Contract!Throws, Contract!InRunner
  <2>4. QED
    BY <2>3 DEF Contract!Next
<1>5. QED
  BY <1>3, <1>4

LEMMA ContractSucceeds ==
  ASSUME IInv, NEW q \in Runs, at[q] \in Judging, aborted'[q] = aborted[q],
         Ends(q, "returned", Success)
  PROVE  Contract(q)!Next
<1>i. RunTypeOK /\ StageInv(q)
  BY DEF IInv, RunInv
<1>1. phaseOf(q) = "working"
  BY <1>i, PhaseValues DEF phaseOf, StageInv, WorkStages, Going
<1>2. ending'[q].how = "returned" /\ ending'[q].out = Success /\ at'[q] # "crashed"
  <2>1. ending'[q] = [how |-> "returned", out |-> Success] /\ at'[q] \in Removing
    BY <1>i, SucceedsLeft
  <2>2. at'[q] # "crashed"
    BY <2>1 DEF Removing
  <2>3. QED
    BY <2>1, <2>2
<1>3. phaseOf(q)' = "returned"
  BY <1>2, PhaseValues DEF phaseOf
<1>4. Contract(q)!Succeeds
  BY <1>1, <1>2, <1>3 DEF Contract!Succeeds, Contract!Returns, Success
<1>5. QED
  BY <1>4 DEF Contract!Next

(* A step within a phase is nothing to the contract. *)
LEMMA ContractStays ==
  ASSUME NEW q \in Runs, UNCHANGED <<aborted, ending>>, phaseOf(q)' = phaseOf(q)
  PROVE  UNCHANGED Contract(q)!vars
BY DEF Contract!vars

LEMMA ContractStep ==
  ASSUME IInv, NEW q \in Runs, RunStep(q)
  PROVE  Contract(q)!Next \/ UNCHANGED Contract(q)!vars
<1>i. RunTypeOK /\ StageInv(q)
  BY DEF IInv, RunInv
<1>g. Going.how = "going"
  BY DEF Going
<1>p. /\ at[q] \in SetupStages => phaseOf(q) = "setup" /\ ending[q] = Going
      /\ at[q] \in Judging => phaseOf(q) = "working" /\ ending[q] = Going
      /\ at[q] \in Reporting => phaseOf(q) = "returned" /\ ending[q].how = "returned"
  BY <1>i, <1>g, PhaseValues DEF phaseOf, StageInv, WorkStages, Reporting
<1>1. CASE Quiet(q)
  <2>1. aborted' = aborted
    BY <1>1 DEF Quiet
  <2>2. ASSUME NEW to \in Stages, Forward(at[q], to), GoesOn(q, to)
        PROVE  Contract(q)!Next \/ UNCHANGED Contract(q)!vars
    <3>1. phaseOf(q)' = phaseAt(to, ending[q].how) /\ ending' = ending
      BY <1>i, <2>2, PhaseWentOn
    <3>2. CASE at[q] \in SetupStages /\ to \in SetupStages
      BY <1>p, <1>g, <2>1, <3>1, <3>2, PhaseValues, ContractStays
    <3>3. CASE at[q] = "installing" /\ to = "testing"
      BY <1>p, <1>g, <2>1, <3>1, <3>3, PhaseValues, ContractStays DEF Judging
    <3>4. CASE at[q] = "marking" /\ to = "installing"
      <4>s. at[q] \in SetupStages /\ to \in Judging
        BY <3>4 DEF SetupStages, Judging
      <4>1. phaseOf(q) = "setup" /\ phaseOf(q)' = "working"
        BY <1>p, <1>g, <3>1, <4>s, PhaseValues
      <4>2. Contract(q)!MarkRunning
        BY <2>1, <3>1, <4>1 DEF Contract!MarkRunning
      <4>3. QED
        BY <4>2 DEF Contract!Next
    <3>5. QED
      BY <2>2, <3>2, <3>3, <3>4 DEF Forward
  <2>3. CASE at[q] \in WorkStages /\ (Fails(q) \/ Throws(q))
    BY <2>1, <2>3, ContractLeft
  <2>4. QED
    BY <1>1, <2>2, <2>3 DEF Quiet
<1>2. CASE Abort(q)
  <2>1. aborted'[q] = TRUE /\ ending' = ending /\ at' = at
    BY <1>2, <1>i DEF Abort, RunTypeOK
  <2>2. Contract(q)!Abort
    BY <2>1 DEF Contract!Abort, phaseOf
  <2>3. QED
    BY <2>2 DEF Contract!Next
<1>3. CASE Crash(q)
  <2>1. at'[q] = "crashed" /\ ending' = ending /\ aborted' = aborted
    BY <1>3, <1>i DEF Crash, Goto, RunTypeOK
  <2>2. phaseOf(q)' = "gone"
    BY <2>1, PhaseValues DEF phaseOf
  <2>3. Contract(q)!Dies
    BY <2>1, <2>2 DEF Contract!Dies
  <2>4. QED
    BY <2>3 DEF Contract!Next
<1>4. CASE Test(q)
  <2>1. at[q] \in Judging /\ at[q] \in WorkStages /\ aborted' = aborted
    BY <1>4 DEF Test, Judging, WorkStages
  <2>2. CASE GoesOn(q, "analysing")
    <3>1. "analysing" \in Judging /\ "analysing" \in Stages
      BY DEF Judging, WorkStages, Stages
    <3>2. QED
      BY <1>i, <1>p, <1>g, <2>1, <2>2, <3>1, PhaseWentOn, PhaseValues, ContractStays
  <2>3. QED
    BY <1>4, <1>i, <2>1, <2>2, TestEffect, ContractLeft, ContractSucceeds
<1>5. CASE Analyse(q)
  BY <1>5, ContractLeft, ContractSucceeds DEF Analyse, Judging, WorkStages
<1>6. CASE Cleans(q)
  <2>1. aborted' = aborted /\ at[q] \in Removing
    BY <1>6 DEF Cleans
  <2>2. PICK to \in Removing \cup {Afterwards(q)} : GoesOn(q, to)
    BY <1>6 DEF Cleans
  <2>3. /\ to \in Removing \cup {"ended"} \/ ending[q].how = "returned"
        /\ to # "crashed" /\ at[q] # "crashed" /\ to \in Stages
    BY <2>1, <2>2, Afterward DEF Removing, Reporting, Stages, Over
  <2>4. phaseOf(q)' = phaseAt(to, ending[q].how) /\ ending' = ending
    BY <1>i, <2>2, <2>3, PhaseWentOn
  <2>5. ending[q].how \in {"going", "returned", "threw"}
    BY <1>i DEF RunTypeOK, Endings
  <2>6. phaseOf(q) = phaseAt(at[q], ending[q].how)
    BY DEF phaseOf
  <2>7. phaseOf(q)' = phaseOf(q)
    BY <2>1, <2>3, <2>4, <2>5, <2>6, PhaseValues
  <2>8. QED
    BY <2>1, <2>4, <2>7, ContractStays
<1>7. CASE PostStatus(q) \/ ListComments(q) \/ PostComment(q)
  <2>1. aborted' = aborted /\ at[q] \in Reporting
    BY <1>7 DEF PostStatus, ListComments, PostComment, Reporting
  <2>2. PICK to \in Reporting \cup {"ended"} : GoesOn(q, to)
    BY <1>7 DEF PostStatus, ListComments, PostComment, Reporting
  <2>3. to # "crashed" /\ to \in Stages
    BY <2>2 DEF Reporting, Stages, Over
  <2>4. QED
    BY <1>i, <1>p, <2>1, <2>2, <2>3, PhaseWentOn, PhaseValues, ContractStays
<1>8. QED
  BY <1>1, <1>2, <1>3, <1>4, <1>5, <1>6, <1>7 DEF RunStep, Signals

LEMMA ContractSame ==
  ASSUME NEW r \in Runs, at'[r] = at[r], aborted'[r] = aborted[r], ending'[r] = ending[r]
  PROVE  UNCHANGED Contract(r)!vars
BY DEF Contract!vars, phaseOf

(* Every test run keeps the contract of RunnerContract for a runner that publishes
   nothing: marked running once, at most one end, nothing on GitHub in between. *)
THEOREM Contracted == Spec => KeepsContract
<1> DEFINE Step == \A r \in Runs : Contract(r)!Next \/ UNCHANGED Contract(r)!vars
<1>1. Init => \A r \in Runs : Contract(r)!Init
  <2> SUFFICES ASSUME Init, NEW r \in Runs PROVE Contract(r)!Init
    OBVIOUS
  <2>1. /\ at[r] = "access" /\ aborted[r] = FALSE
        /\ ending[r].how = "going" /\ ending[r].out = Failure
    BY DEF Init, BaseInit, Going
  <2>2. at[r] \in SetupStages
    BY <2>1 DEF SetupStages
  <2>3. phaseOf(r) = "setup"
    BY <2>1, <2>2, PhaseValues DEF phaseOf
  <2>4. QED
    BY <2>1, <2>3 DEF Contract!Init, Failure, Contract!Failure
<1>2. IInv /\ [Next]_vars => [Step]_vars
  <2> SUFFICES ASSUME IInv, [Next]_vars, NEW r \in Runs
               PROVE  Contract(r)!Next \/ UNCHANGED Contract(r)!vars
    OBVIOUS
  <2>1. CASE UNCHANGED Seen
    BY <2>1, ContractSame DEF Seen
  <2>2. ASSUME NEW q \in Runs, RunStep(q)
        PROVE  Contract(r)!Next \/ UNCHANGED Contract(r)!vars
    <3>1. CASE r = q
      BY <2>2, <3>1, ContractStep
    <3>2. CASE r # q
      BY <2>2, <3>2, OthersSame, ContractSame DEF IInv, Same
    <3>3. QED
      BY <3>1, <3>2
  <2>3. QED
    BY <2>1, <2>2, StepKinds
<1>3. QED
  BY <1>1, <1>2, Safety, PTL DEF Spec, KeepsContract
=============================================================================
