----------------------------- MODULE Submission -----------------------------
(***************************************************************************)
(* The submission of jobs (apps/api/src/app.ts, submitJob, for the bot and *)
(* the dashboard alike): access, the monthly budget, the attachments, the  *)
(* job and its attachment rows, each an await of a request that runs among *)
(* others, while a worker may claim the job as soon as its row is there.   *)
(* What a claimed job does is cut down to the attachments it reads and the *)
(* money it spends (AgentLoop).                                            *)
(***************************************************************************)
EXTENDS Naturals

CONSTANTS
  Requests,       (* the submissions, and the jobs they may lead to *)
  WithFiles,      (* those with attachments *)
  maxUsd,         (* profile.limits.maxUsd *)
  monthlyCapUsd,  (* MONTHLY_LLM_CAP_USD *)
  Costs           (* what one call to a model may cost *)

ASSUME SubmissionAssumption ==
  /\ WithFiles \subseteq Requests
  /\ maxUsd \in Nat
  /\ monthlyCapUsd \in Nat
  /\ Costs \subseteq Nat

VARIABLES
  at,         (* the next await of the request *)
  answer,     (* what the client was told *)
  files,      (* the job's attachments on disk: "none", "some", "all" *)
  rows,       (* its attachment rows *)
  job,        (* "absent", "queued", "claimed", "asking", "calling", "blocked", "over" *)
  read,       (* what the worker found when it listed the attachments *)
  cost,       (* what the job has spent *)
  spent,      (* what llm_calls says of this month *)
  disturbed   (* another job has spent since the request looked at the budget *)

request == <<at, answer>>
stored == <<files, rows>>
execution == <<read, cost, spent, disturbed>>
vars == <<request, stored, job, execution>>

TypeOK ==
  /\ at \in [Requests -> {"idle", "access", "budget", "downloading", "rejecting", "creating",
                          "attaching", "counting", "answered"}]
  /\ answer \in [Requests -> {"none", "accepted", "refused", "error"}]
  /\ files \in [Requests -> {"none", "some", "all"}]
  /\ rows \in [Requests -> BOOLEAN]
  /\ job \in [Requests -> {"absent", "queued", "claimed", "asking", "calling", "blocked", "over"}]
  /\ read \in [Requests -> {"nothing", "none", "all"}]
  /\ cost \in [Requests -> Nat]
  /\ spent \in Nat
  /\ disturbed \in [Requests -> BOOLEAN]

Init ==
  /\ at = [q \in Requests |-> "idle"]
  /\ answer = [q \in Requests |-> "none"]
  /\ files = [q \in Requests |-> "none"]
  /\ rows = [q \in Requests |-> FALSE]
  /\ job = [q \in Requests |-> "absent"]
  /\ read = [q \in Requests |-> "nothing"]
  /\ cost = [q \in Requests |-> 0]
  /\ spent = 0
  /\ disturbed = [q \in Requests |-> FALSE]

GoesOn(q, place) == at' = [at EXCEPT ![q] = place] /\ UNCHANGED answer

Answers(q, what) ==
  /\ at' = [at EXCEPT ![q] = "answered"]
  /\ answer' = [answer EXCEPT ![q] = what]

-----------------------------------------------------------------------------
(* submitJob. *)

Submit(q) ==
  /\ at[q] = "idle"
  /\ GoesOn(q, "access") \/ Answers(q, "refused")
  /\ UNCHANGED <<stored, job, execution>>

CheckAccess(q) ==
  /\ at[q] = "access"
  /\ GoesOn(q, "budget") \/ Answers(q, "refused") \/ Answers(q, "error")
  /\ UNCHANGED <<stored, job, execution>>

(* Mutant: the budget of the job itself is left out. *)
exceedsCapLater == spent > monthlyCapUsd

exceedsCap == spent + maxUsd > monthlyCapUsd

(* monthSpendUsd: nothing reserves what the job may spend. *)
CheckBudget(q) ==
  /\ at[q] = "budget"
  /\ \/ exceedsCap /\ Answers(q, "refused") /\ UNCHANGED disturbed
     \/ /\ ~exceedsCap
        /\ GoesOn(q, "downloading")
        /\ disturbed' = [disturbed EXCEPT ![q] = FALSE]
     \/ Answers(q, "error") /\ UNCHANGED disturbed
  /\ UNCHANGED <<stored, job, read, cost, spent>>

(* Mutant: a rejected attachment leaves the others where they are. *)
DownloadKeepsFiles(q) ==
  /\ at[q] = "downloading"
  /\ \/ /\ files' = [files EXCEPT ![q] = IF q \in WithFiles THEN "all" ELSE "none"]
        /\ GoesOn(q, "creating")
     \/ /\ q \in WithFiles
        /\ files' = [files EXCEPT ![q] = "some"]
        /\ Answers(q, "refused")
  /\ UNCHANGED <<rows, job, execution>>

(* All attachments of the job, or those before the one that was refused. *)
Download(q) ==
  /\ at[q] = "downloading"
  /\ \/ /\ files' = [files EXCEPT ![q] = IF q \in WithFiles THEN "all" ELSE "none"]
        /\ GoesOn(q, "creating")
     \/ /\ q \in WithFiles
        /\ \E left \in {"none", "some"} : files' = [files EXCEPT ![q] = left]
        /\ GoesOn(q, "rejecting")
  /\ UNCHANGED <<rows, job, execution>>

(* The catch block removes the directory, whatever the error was. *)
Reject(q) ==
  /\ at[q] = "rejecting"
  /\ \/ /\ files' = [files EXCEPT ![q] = "none"]
        /\ Answers(q, "refused") \/ Answers(q, "error")
     \/ UNCHANGED files /\ Answers(q, "error")
  /\ UNCHANGED <<rows, job, execution>>

(* createJob enqueues the job; it may throw, applied or not. *)
Create(q) ==
  /\ at[q] = "creating"
  /\ \/ /\ job' = [job EXCEPT ![q] = "queued"]
        /\ GoesOn(q, IF q \in WithFiles THEN "attaching" ELSE "counting") \/ Answers(q, "error")
     \/ UNCHANGED job /\ Answers(q, "error")
  /\ UNCHANGED <<stored, execution>>

Attach(q) ==
  /\ at[q] = "attaching"
  /\ \/ /\ rows' = [rows EXCEPT ![q] = TRUE]
        /\ GoesOn(q, "counting") \/ Answers(q, "error")
     \/ UNCHANGED rows /\ Answers(q, "error")
  /\ UNCHANGED <<files, job, execution>>

(* queuePosition, then the response. *)
Count(q) ==
  /\ at[q] = "counting"
  /\ Answers(q, "accepted") \/ Answers(q, "error")
  /\ UNCHANGED <<stored, job, execution>>

(* The api process dies; every request it has in hand breaks off. *)
Crash ==
  /\ \E q \in Requests : at[q] \notin {"idle", "answered"}
  /\ at' = [q \in Requests |-> IF at[q] = "idle" THEN "idle" ELSE "answered"]
  /\ answer' = [q \in Requests |->
       IF at[q] \in {"idle", "answered"} THEN answer[q] ELSE "error"]
  /\ UNCHANGED <<stored, job, execution>>

-----------------------------------------------------------------------------
(* The job, once it is in the table. *)

Moves(q, place) == job' = [job EXCEPT ![q] = place]

Claim(q) ==
  /\ job[q] = "queued"
  /\ Moves(q, "claimed")
  /\ UNCHANGED <<request, stored, execution>>

ListAttachments(q) ==
  /\ job[q] = "claimed"
  /\ read' = [read EXCEPT ![q] = IF rows[q] THEN "all" ELSE "none"]
  /\ Moves(q, "asking")
  /\ UNCHANGED <<request, stored, cost, spent, disturbed>>

(* beforeStep, after the loop looked at the job's own budget. *)
AskSpend(q) ==
  /\ job[q] = "asking"
  /\ \/ cost[q] < maxUsd /\ spent >= monthlyCapUsd /\ Moves(q, "blocked")
     \/ cost[q] < maxUsd /\ spent < monthlyCapUsd /\ Moves(q, "calling")
     \/ Moves(q, "over")
  /\ UNCHANGED <<request, stored, execution>>

Pay(q) ==
  /\ job[q] = "calling"
  /\ \E c \in Costs :
       /\ cost' = [cost EXCEPT ![q] = @ + c]
       /\ spent' = spent + c
  /\ disturbed' = [p \in Requests |-> disturbed[p] \/ p # q]
  /\ Moves(q, "asking")
  /\ UNCHANGED <<request, stored, read>>

MonthEnds ==
  /\ spent' = 0
  /\ UNCHANGED <<request, stored, job, read, cost, disturbed>>

-----------------------------------------------------------------------------
Next ==
  \/ \E q \in Requests :
       \/ Submit(q)
       \/ CheckAccess(q)
       \/ CheckBudget(q)
       \/ Download(q)
       \/ Reject(q)
       \/ Create(q)
       \/ Attach(q)
       \/ Count(q)
       \/ Claim(q)
       \/ ListAttachments(q)
       \/ AskSpend(q)
       \/ Pay(q)
  \/ Crash
  \/ MonthEnds

Spec == Init /\ [][Next]_vars

-----------------------------------------------------------------------------
(* What the client is told is what happened: an accepted job is in the table
   with all its attachments, and a refused submission has left nothing behind,
   neither a job nor files.  An error may mean either. *)
AnswersAreHonest ==
  \A q \in Requests :
    /\ answer[q] = "accepted" =>
         /\ job[q] # "absent"
         /\ q \in WithFiles => rows[q] /\ files[q] = "all"
    /\ answer[q] = "refused" => job[q] = "absent" /\ files[q] = "none" /\ ~rows[q]

(* A job that was admitted can spend its whole budget: the monthly cap blocks it
   on its way only if another job spent meanwhile, be it one whose row was
   cancelled after its claim. *)
BlockedOnlyByOthers == \A q \in Requests : job[q] = "blocked" => disturbed[q]
=============================================================================
