-------------------------- MODULE SubmissionProofs --------------------------
(***************************************************************************)
(* Proofs about Submission, and about Clients on top of it, for any        *)
(* requests, budgets and costs.                                            *)
(***************************************************************************)
EXTENDS Clients, TLAPS

(* Before the job is created: what is there depends on how far the request got. *)
RequestInv(q) ==
  /\ at[q] \in {"idle", "access", "budget", "downloading", "rejecting", "creating"} =>
       job[q] = "absent" /\ ~rows[q]
  /\ at[q] \in {"idle", "access", "budget", "downloading"} => files[q] = "none"
  /\ at[q] \in {"creating", "attaching", "counting"} /\ q \in WithFiles => files[q] = "all"
  /\ at[q] \in {"attaching", "counting"} => job[q] # "absent"
  /\ at[q] = "counting" /\ q \in WithFiles => rows[q]
  /\ at[q] # "answered" => answer[q] = "none"

AnswerInv(q) ==
  /\ answer[q] = "accepted" =>
       /\ job[q] # "absent"
       /\ q \in WithFiles => rows[q] /\ files[q] = "all"
  /\ answer[q] = "refused" => job[q] = "absent" /\ files[q] = "none" /\ ~rows[q]

Honest == TypeOK /\ \A q \in Requests : RequestInv(q) /\ AnswerInv(q)

Admitted(q) == at[q] \in {"downloading", "creating"} \/ job[q] # "absent"

(* Until another job spends, what an admitted job may still spend fits under the cap. *)
BudgetInv(q) ==
  /\ at[q] \in {"idle", "access", "budget", "downloading", "rejecting", "creating"} =>
       job[q] = "absent"
  /\ Admitted(q) => maxUsd <= monthlyCapUsd
  /\ Admitted(q) /\ ~disturbed[q] => spent + maxUsd <= monthlyCapUsd + cost[q]
  /\ job[q] = "blocked" => disturbed[q]

Budgets == TypeOK /\ \A q \in Requests : BudgetInv(q)

Step(q) ==
  \/ Submit(q)
  \/ CheckAccess(q)
  \/ CheckBudget(q)
  \/ Download(q)
  \/ Reject(q)
  \/ Create(q)
  \/ Attach(q)
  \/ Count(q)
  \/ Claim(q)
  \/ ListAttachments(q)
  \/ AskSpend(q)
  \/ Pay(q)

LEMMA Steps == Next => (\E q \in Requests : Step(q)) \/ Crash \/ MonthEnds
BY DEF Next, Step

LEMMA TypingStep == TypeOK /\ [Next]_vars => TypeOK'
<1> SUFFICES ASSUME TypeOK, [Next]_vars PROVE TypeOK'
  OBVIOUS
<1> USE SubmissionAssumption
    DEF TypeOK, request, stored, execution, GoesOn, Answers, Moves
<1>1. CASE UNCHANGED vars
  BY <1>1 DEF vars
<1>2. ASSUME NEW q \in Requests, Step(q) PROVE TypeOK'
  <2>1. CASE Submit(q) \/ CheckAccess(q) \/ CheckBudget(q)
    BY <2>1 DEF Submit, CheckAccess, CheckBudget
  <2>2. CASE Download(q)
    BY <2>2 DEF Download
  <2>3. CASE Reject(q)
    BY <2>3 DEF Reject
  <2>4. CASE Create(q)
    BY <2>4 DEF Create
  <2>5. CASE Attach(q) \/ Count(q)
    BY <2>5 DEF Attach, Count
  <2>6. CASE Claim(q) \/ ListAttachments(q) \/ AskSpend(q)
    BY <2>6 DEF Claim, ListAttachments, AskSpend
  <2>7. CASE Pay(q)
    BY <2>7 DEF Pay
  <2>8. QED
    BY <1>2, <2>1, <2>2, <2>3, <2>4, <2>5, <2>6, <2>7 DEF Step
<1>3. CASE Crash
  BY <1>3 DEF Crash
<1>4. CASE MonthEnds
  BY <1>4 DEF MonthEnds
<1>5. QED
  BY <1>1, <1>2, <1>3, <1>4, Steps

-----------------------------------------------------------------------------
LEMMA HonestStep ==
  ASSUME Honest, NEW q \in Requests, Step(q), NEW p \in Requests
  PROVE  RequestInv(p)' /\ AnswerInv(p)'
<1>i. TypeOK /\ RequestInv(p) /\ AnswerInv(p) /\ RequestInv(q) /\ AnswerInv(q)
  BY DEF Honest
<1> USE <1>i DEF TypeOK, RequestInv, AnswerInv, request, stored, execution, GoesOn, Answers, Moves
<1>1. CASE Submit(q)
  BY <1>1 DEF Submit
<1>2. CASE CheckAccess(q)
  BY <1>2 DEF CheckAccess
<1>3. CASE CheckBudget(q)
  BY <1>3 DEF CheckBudget
<1>4. CASE Download(q)
  BY <1>4 DEF Download
<1>5. CASE Reject(q)
  BY <1>5 DEF Reject
<1>6. CASE Create(q)
  BY <1>6 DEF Create
<1>7. CASE Attach(q)
  BY <1>7 DEF Attach
<1>8. CASE Count(q)
  BY <1>8 DEF Count
<1>9. CASE Claim(q)
  BY <1>9 DEF Claim
<1>10. CASE ListAttachments(q)
  BY <1>10 DEF ListAttachments
<1>11. CASE AskSpend(q)
  BY <1>11 DEF AskSpend
<1>12. CASE Pay(q)
  BY <1>12 DEF Pay
<1>13. QED
  BY <1>1, <1>2, <1>3, <1>4, <1>5, <1>6, <1>7, <1>8, <1>9, <1>10, <1>11, <1>12 DEF Step

(* Every step of the api keeps requests and answers honest. *)
LEMMA HonestKept == Honest /\ [Next]_vars => Honest'
<1> SUFFICES ASSUME Honest, [Next]_vars PROVE Honest'
  OBVIOUS
<1>t. TypeOK'
  BY TypingStep DEF Honest
<1> SUFFICES ASSUME NEW p \in Requests PROVE RequestInv(p)' /\ AnswerInv(p)'
  BY <1>t DEF Honest
<1>1. TypeOK /\ RequestInv(p) /\ AnswerInv(p)
  BY DEF Honest
<1>2. CASE UNCHANGED vars \/ MonthEnds
  BY <1>1, <1>2 DEF vars, request, stored, execution, MonthEnds, RequestInv, AnswerInv
<1>3. CASE Crash
  BY <1>1, <1>3 DEF Crash, stored, execution, RequestInv, AnswerInv, TypeOK
<1>4. QED
  BY <1>1, <1>2, <1>3, HonestStep, Steps

(* What the client of submitJob is told is what happened. *)
THEOREM Honesty == Spec => []AnswersAreHonest
<1>1. Init => Honest
  BY SubmissionAssumption DEF Init, Honest, TypeOK, RequestInv, AnswerInv
<1>2. Honest /\ [Next]_vars => Honest'
  BY HonestKept
<1>3. Honest => AnswersAreHonest
  BY DEF Honest, AnswerInv, AnswersAreHonest
<1>4. QED
  BY <1>1, <1>2, <1>3, PTL DEF Spec

-----------------------------------------------------------------------------
LEMMA BudgetStep ==
  ASSUME Budgets, NEW q \in Requests, Step(q), NEW p \in Requests
  PROVE  BudgetInv(p)'
<1>i. TypeOK /\ BudgetInv(p) /\ BudgetInv(q)
  BY DEF Budgets
<1> USE <1>i, SubmissionAssumption
    DEF TypeOK, BudgetInv, Admitted, request, stored, execution, GoesOn, Answers, Moves
<1>1. CASE Submit(q)
  BY <1>1 DEF Submit
<1>2. CASE CheckAccess(q)
  BY <1>2 DEF CheckAccess
<1>3. CASE CheckBudget(q)
  BY <1>3 DEF CheckBudget, exceedsCap
<1>4. CASE Download(q)
  BY <1>4 DEF Download
<1>5. CASE Reject(q)
  BY <1>5 DEF Reject
<1>6. CASE Create(q)
  BY <1>6 DEF Create
<1>7. CASE Attach(q)
  BY <1>7 DEF Attach
<1>8. CASE Count(q)
  BY <1>8 DEF Count
<1>9. CASE Claim(q)
  BY <1>9 DEF Claim
<1>10. CASE ListAttachments(q)
  BY <1>10 DEF ListAttachments
<1>11. CASE AskSpend(q)
  BY <1>11 DEF AskSpend
<1>12. CASE Pay(q)
  <2>1. PICK c \in Costs : cost' = [cost EXCEPT ![q] = @ + c] /\ spent' = spent + c
    BY <1>12 DEF Pay
  <2>2. c \in Nat /\ spent \in Nat /\ cost[p] \in Nat
    OBVIOUS
  <2>3. at' = at /\ job[q] # "absent" /\ job' = [job EXCEPT ![q] = "asking"]
    BY <1>12 DEF Pay
  <2>4. CASE p = q
    <3>1. cost'[p] = cost[p] + c /\ (disturbed'[p] <=> disturbed[p])
      BY <1>12, <2>1, <2>4 DEF Pay
    <3>2. spent' + maxUsd <= monthlyCapUsd + cost'[p] <=> spent + maxUsd <= monthlyCapUsd + cost[p]
      BY <2>1, <2>2, <3>1
    <3>3. QED
      BY <2>3, <2>4, <3>1, <3>2
  <2>5. CASE p # q
    <3>1. disturbed'[p] = TRUE
      BY <1>12, <2>5 DEF Pay
    <3>2. QED
      BY <2>3, <2>5, <3>1
  <2>6. QED
    BY <2>4, <2>5
<1>13. QED
  BY <1>1, <1>2, <1>3, <1>4, <1>5, <1>6, <1>7, <1>8, <1>9, <1>10, <1>11, <1>12 DEF Step

LEMMA BudgetsInit == Init => Budgets
BY SubmissionAssumption DEF Init, Budgets, TypeOK, BudgetInv, Admitted

LEMMA BudgetsKept == Budgets /\ [Next]_vars => Budgets'
<1> SUFFICES ASSUME Budgets, [Next]_vars PROVE Budgets'
  OBVIOUS
<1>t. TypeOK'
  BY TypingStep DEF Budgets
<1> SUFFICES ASSUME NEW p \in Requests PROVE BudgetInv(p)'
  BY <1>t DEF Budgets
<1>1. TypeOK /\ BudgetInv(p)
  BY DEF Budgets
<1>2. CASE UNCHANGED vars
  BY <1>1, <1>2 DEF vars, request, stored, execution, BudgetInv, Admitted
<1>3. CASE MonthEnds
  BY <1>1, <1>3, SubmissionAssumption
  DEF MonthEnds, request, stored, BudgetInv, Admitted, TypeOK
<1>4. CASE Crash
  BY <1>1, <1>4 DEF Crash, stored, execution, BudgetInv, Admitted, TypeOK
<1>5. QED
  BY <1>1, <1>2, <1>3, <1>4, BudgetStep, Steps

LEMMA BudgetsSuffice == Budgets => BlockedOnlyByOthers
BY DEF Budgets, BudgetInv, BlockedOnlyByOthers

(* The monthly cap blocks an admitted job only after another job has spent. *)
THEOREM Admission == Spec => []BlockedOnlyByOthers
BY BudgetsInit, BudgetsKept, BudgetsSuffice, PTL DEF Spec

-----------------------------------------------------------------------------
(* The clients.  What a command shows depends on the answer of the api, and no
   request is under way unless its client has sent it. *)
CancelPlaces ==
  {"none", "reading", "moving", "flagging", "cancelled", "cancelled late", "answered"}

ClientTypes ==
  /\ command \in [Requests -> {"idle", "calling", "posting", "linking", "replying", "storing",
                               "explaining refusal", "explaining error", "catching", "over"}]
  /\ told \in [Requests -> {"nothing", "turned away", "thinking", "queued", "queued, with link",
                            "refused", "error"}]
  /\ posted \in [Requests -> BOOLEAN]
  /\ broken \in [Requests -> BOOLEAN]
  /\ cancel \in [Requests -> CancelPlaces]

(* At each await of a command: the answer it has, and what is on the screen. *)
PlaceInv(q) ==
  /\ command[q] = "idle" => at[q] = "idle" /\ told[q] = "nothing"
  /\ command[q] \in {"calling", "posting", "linking", "replying"} => told[q] = "thinking"
  /\ command[q] \in {"posting", "linking", "replying", "storing"} => answer[q] = "accepted"
  /\ command[q] = "linking" => posted[q]
  /\ command[q] = "storing" => told[q] \in {"queued", "queued, with link"}
  /\ command[q] = "explaining refusal" => answer[q] = "refused"
  /\ command[q] = "catching" => broken[q]
  /\ command[q] = "over" /\ told[q] \in {"nothing", "thinking"} => broken[q]

TextInv(q) ==
  /\ told[q] \in {"queued", "queued, with link"} => answer[q] = "accepted"
  /\ told[q] = "queued, with link" => posted[q]
  /\ told[q] = "turned away" => at[q] = "idle" /\ command[q] = "over"
  /\ told[q] = "refused" => answer[q] = "refused"

(* A job is read only after its claim, and none is claimed once it is over. *)
CancelInv(q) ==
  /\ job[q] \in {"absent", "queued", "claimed"} => read[q] = "nothing"
  /\ cancel[q] = "cancelled" => job[q] = "over" /\ read[q] = "nothing"
  /\ cancel[q] = "cancelled late" => job[q] \notin {"absent", "queued"}
  /\ cancel[q] \in {"reading", "moving", "flagging"} => job[q] # "absent"

ClientInv(q) == PlaceInv(q) /\ TextInv(q) /\ CancelInv(q)

Informed == Honest /\ ClientTypes /\ \A q \in Requests : ClientInv(q)

CommandStep(q) ==
  \/ TurnAway(q) \/ deferReply(q) \/ Receive(q) \/ LoseConnection(q)
  \/ ensurePost(q) \/ editAck(q) \/ setDiscordThread(q)
  \/ explain(q) \/ catch(q)
  \/ submit(q) \/ Answered(q)

CancelStep(q) ==
  cancelJob(q) \/ getJobByShortId(q) \/ transition(q) \/ flag(q) \/ CancelFails(q)

(* One await of a command, over an api that stands still. *)
LEMMA CommandKeeps ==
  ASSUME Informed, NEW q \in Requests, CommandStep(q), UNCHANGED <<vars, cancel>>
  PROVE  Informed'
<1>i. ClientTypes /\ \A p \in Requests : ClientInv(p)
  BY DEF Informed
<1>q. ClientTypes /\ ClientInv(q)
  BY <1>i
<1>h. Honest'
  BY DEF Informed, Honest, TypeOK, RequestInv, AnswerInv, vars, request, stored, execution
<1>u. UNCHANGED <<at, answer, job, read, cancel>>
  BY DEF vars, request, execution
<1> USE DEF Then, Shows, Breaks
<1>1. ClientTypes' /\ PlaceInv(q)' /\ TextInv(q)'
  <2> USE <1>q, <1>u DEF ClientTypes, ClientInv, PlaceInv, TextInv
  <2>1. CASE TurnAway(q) \/ deferReply(q)
    BY <2>1 DEF TurnAway, deferReply
  <2>2. CASE Receive(q) \/ LoseConnection(q)
    BY <2>2 DEF Receive, LoseConnection
  <2>3. CASE ensurePost(q)
    BY <2>3 DEF ensurePost
  <2>4. CASE editAck(q)
    BY <2>4 DEF editAck
  <2>5. CASE setDiscordThread(q)
    BY <2>5 DEF setDiscordThread
  <2>6. CASE explain(q)
    BY <2>6 DEF explain
  <2>7. CASE catch(q)
    BY <2>7 DEF catch
  <2>8. CASE submit(q)
    BY <2>8 DEF submit
  <2>9. CASE Answered(q)
    <3>1. answer[q] \in {"accepted", "refused", "error"}
      BY <2>9 DEF Answered, Informed, Honest, TypeOK
    <3>2. QED
      BY <2>9, <3>1 DEF Answered
  <2>10. QED
    BY <2>1, <2>2, <2>3, <2>4, <2>5, <2>6, <2>7, <2>8, <2>9 DEF CommandStep
<1>2. \A p \in Requests : p # q => /\ command'[p] = command[p] /\ told'[p] = told[p]
                                  /\ posted'[p] = posted[p] /\ broken'[p] = broken[p]
  BY <1>i
  DEF ClientTypes, CommandStep, TurnAway, deferReply, Receive, LoseConnection, ensurePost, editAck,
      setDiscordThread, explain, catch, submit, Answered
<1>3. ASSUME NEW p \in Requests PROVE ClientInv(p)'
  BY <1>i, <1>u, <1>1, <1>2 DEF ClientInv, PlaceInv, TextInv, CancelInv
<1>4. QED
  BY <1>h, <1>1, <1>3 DEF Informed

(* The bot dies under its commands. *)
LEMMA DeathKeeps ==
  ASSUME Informed, BotDies, UNCHANGED <<vars, cancel>>
  PROVE  Informed'
<1>i. ClientTypes /\ \A p \in Requests : ClientInv(p)
  BY DEF Informed
<1>h. Honest'
  BY DEF Informed, Honest, TypeOK, RequestInv, AnswerInv, vars, request, stored, execution
<1>u. UNCHANGED <<at, answer, job, read, cancel>>
  BY DEF vars, request, execution
<1>1. ClientTypes'
  BY <1>i, <1>u DEF ClientTypes, BotDies
<1>2. ASSUME NEW p \in Requests PROVE ClientInv(p)'
  <2>1. /\ command'[p] = command[p] \/ (command'[p] = "over" /\ command[p] # "idle")
        /\ broken'[p] <=> (broken[p] \/ command'[p] # command[p])
        /\ told'[p] = told[p] /\ posted'[p] = posted[p]
    BY DEF BotDies
  <2>2. QED
    BY <1>i, <1>u, <2>1 DEF ClientInv, PlaceInv, TextInv, CancelInv
<1>3. QED
  BY <1>h, <1>1, <1>2 DEF Informed

(* A step of /cancel ends a job only while it waits in the queue. *)
LEMMA CancelEffect ==
  ASSUME job \in [Requests -> {"absent", "queued", "claimed", "asking", "calling", "blocked", "over"}],
         ClientTypes, NEW q \in Requests, CancelStep(q)
  PROVE  /\ UNCHANGED job \/ (job[q] = "queued" /\ Moves(q, "over"))
         /\ cancel' \in [Requests -> CancelPlaces]
         /\ \A p \in Requests : p # q => cancel'[p] = cancel[p]
         /\ cancel'[q] = "cancelled" => job[q] = "queued" /\ Moves(q, "over")
         /\ cancel'[q] = "cancelled late" => job[q] # "queued" /\ cancel[q] = "moving"
         /\ cancel'[q] \in {"reading", "moving", "flagging"} =>
              job[q] # "absent" \/ cancel[q] \in {"reading", "moving"}
BY DEF CancelPlaces, ClientTypes, CancelStep, cancelJob, getJobByShortId, transition, flag, CancelFails, CancelTo

LEMMA CancelKeeps ==
  ASSUME Informed, NEW q \in Requests, CancelStep(q),
         UNCHANGED <<request, stored, execution, submitter>>
  PROVE  Informed'
<1>i. /\ TypeOK /\ ClientTypes
      /\ \A p \in Requests : ClientInv(p) /\ RequestInv(p) /\ AnswerInv(p)
  BY DEF Informed, Honest
<1>u. UNCHANGED <<at, answer, files, rows, read, cost, spent, disturbed, command, told, posted, broken>>
  BY DEF request, stored, execution, submitter
<1>1. /\ UNCHANGED job \/ (job[q] = "queued" /\ Moves(q, "over"))
      /\ cancel' \in [Requests -> CancelPlaces]
      /\ \A p \in Requests : p # q => cancel'[p] = cancel[p]
      /\ cancel'[q] = "cancelled" => job[q] = "queued" /\ Moves(q, "over")
      /\ cancel'[q] = "cancelled late" => job[q] # "queued" /\ cancel[q] = "moving"
      /\ cancel'[q] \in {"reading", "moving", "flagging"} =>
           job[q] # "absent" \/ cancel[q] \in {"reading", "moving"}
  BY <1>i, CancelEffect DEF TypeOK
<1>2. TypeOK' /\ ClientTypes'
  BY <1>i, <1>u, <1>1 DEF TypeOK, ClientTypes, Moves
<1>3. ASSUME NEW p \in Requests PROVE RequestInv(p)' /\ AnswerInv(p)' /\ ClientInv(p)'
  <2>1. job'[p] = job[p] \/ (job[p] = "queued" /\ job'[p] = "over")
    BY <1>i, <1>1 DEF TypeOK, Moves
  <2>2. cancel'[p] = "cancelled" => cancel[p] = "cancelled" \/ (job[p] = "queued" /\ job'[p] = "over")
    BY <1>i, <1>1 DEF TypeOK, Moves
  <2>3. cancel'[p] = "cancelled late" =>
          cancel[p] = "cancelled late" \/ (job[p] # "queued" /\ cancel[p] = "moving")
    BY <1>1
  <2>4. cancel'[p] \in {"reading", "moving", "flagging"} =>
          job[p] # "absent" \/ cancel[p] \in {"reading", "moving", "flagging"}
    BY <1>1
  <2>5. RequestInv(p)' /\ AnswerInv(p)'
    BY <1>i, <1>u, <2>1 DEF RequestInv, AnswerInv
  <2>6. CancelInv(p)'
    BY <1>i, <1>u, <2>1, <2>2, <2>3, <2>4 DEF ClientInv, CancelInv
  <2>7. QED
    BY <1>i, <1>u, <2>5, <2>6 DEF ClientInv, PlaceInv, TextInv
<1>4. QED
  BY <1>2, <1>3 DEF Informed, Honest

(* What the api and the workers do to a request: it is answered once, and a job
   that is over stays as it is. *)
LEMMA ApiEffect ==
  ASSUME Honest, Next, NEW p \in Requests
  PROVE  /\ answer'[p] = answer[p] \/ answer[p] = "none"
         /\ at'[p] = "idle" => at[p] = "idle"
         /\ job[p] = "over" => job'[p] = "over"
         /\ job[p] # "absent" => job'[p] # "absent"
         /\ job'[p] = "queued" => job[p] \in {"absent", "queued"}
         /\ job'[p] \in {"absent", "queued", "claimed"} =>
              job[p] \in {"absent", "queued", "claimed"} /\ read'[p] = read[p]
         /\ job[p] = "over" => read'[p] = read[p]
<1>i. TypeOK /\ \A q \in Requests : RequestInv(q)
  BY DEF Honest
<1> USE <1>i DEF TypeOK, RequestInv, request, stored, execution, GoesOn, Answers, Moves
<1>1. ASSUME NEW q \in Requests, Step(q)
      PROVE  /\ answer'[p] = answer[p] \/ answer[p] = "none"
             /\ at'[p] = "idle" => at[p] = "idle"
             /\ job[p] = "over" => job'[p] = "over"
             /\ job[p] # "absent" => job'[p] # "absent"
             /\ job'[p] = "queued" => job[p] \in {"absent", "queued"}
             /\ job'[p] \in {"absent", "queued", "claimed"} =>
                  job[p] \in {"absent", "queued", "claimed"} /\ read'[p] = read[p]
             /\ job[p] = "over" => read'[p] = read[p]
  <2>1. CASE Submit(q) \/ CheckAccess(q) \/ CheckBudget(q)
    BY <2>1 DEF Submit, CheckAccess, CheckBudget
  <2>2. CASE Download(q) \/ Reject(q)
    BY <2>2 DEF Download, Reject
  <2>3. CASE Create(q)
    BY <2>3 DEF Create
  <2>4. CASE Attach(q) \/ Count(q)
    BY <2>4 DEF Attach, Count
  <2>5. CASE Claim(q)
    BY <2>5 DEF Claim
  <2>6. CASE ListAttachments(q) \/ AskSpend(q)
    BY <2>6 DEF ListAttachments, AskSpend
  <2>7. CASE Pay(q)
    BY <2>7 DEF Pay
  <2>8. QED
    BY <1>1, <2>1, <2>2, <2>3, <2>4, <2>5, <2>6, <2>7 DEF Step
<1>2. CASE Crash \/ MonthEnds
  BY <1>2 DEF Crash, MonthEnds
<1>3. QED
  BY <1>1, <1>2, Steps

(* The api and the workers keep what the clients know. *)
LEMMA ApiKeeps ==
  ASSUME Informed, Api
  PROVE  Informed'
<1>1. Honest'
  BY HonestKept DEF Informed, Api
<1>u. UNCHANGED <<command, told, posted, broken, cancel>> /\ Next
  BY DEF Api, clients, submitter
<1>2. ASSUME NEW p \in Requests PROVE ClientInv(p)'
  <2>1. /\ answer'[p] = answer[p] \/ answer[p] = "none"
        /\ at'[p] = "idle" => at[p] = "idle"
        /\ job[p] = "over" => job'[p] = "over"
        /\ job[p] # "absent" => job'[p] # "absent"
        /\ job'[p] = "queued" => job[p] \in {"absent", "queued"}
        /\ job'[p] \in {"absent", "queued", "claimed"} =>
             job[p] \in {"absent", "queued", "claimed"} /\ read'[p] = read[p]
        /\ job[p] = "over" => read'[p] = read[p]
    BY <1>u, ApiEffect DEF Informed
  <2>2. at[p] = "idle" /\ command[p] # "calling" => at'[p] = "idle"
    BY DEF Api
  <2>3. ClientInv(p)
    BY DEF Informed
  <2>4. QED
    BY <1>u, <2>1, <2>2, <2>3 DEF ClientInv, PlaceInv, TextInv, CancelInv
<1>3. QED
  BY <1>1, <1>u, <1>2 DEF Informed, ClientTypes

(* With clients and cancels around it the api is as honest, and each command
   knows what it shows. *)
THEOREM Knowledge == ClientsSpec => []Informed
<1>1. ClientsInit => Informed
  BY SubmissionAssumption
  DEF ClientsInit, Init, Informed, Honest, TypeOK, RequestInv, AnswerInv, ClientTypes, ClientInv,
      CancelPlaces, PlaceInv, TextInv, CancelInv
<1>2. Informed /\ [ClientsNext]_allVars => Informed'
  <2> SUFFICES ASSUME Informed, [ClientsNext]_allVars PROVE Informed'
    OBVIOUS
  <2>1. CASE Commands
    BY <2>1, CommandKeeps, DeathKeeps DEF Commands, CommandStep
  <2>2. CASE Cancels
    BY <2>2, CancelKeeps, ClientsAssumption DEF Cancels, CancelStep
  <2>3. CASE Api
    BY <2>3, ApiKeeps
  <2>4. CASE UNCHANGED allVars
    BY <2>4
    DEF allVars, vars, request, stored, execution, clients, submitter, Informed, Honest, TypeOK,
        RequestInv, AnswerInv, ClientTypes, ClientInv, PlaceInv, TextInv, CancelInv
  <2>5. QED
    BY <2>1, <2>2, <2>3, <2>4 DEF ClientsNext
<1>3. QED
  BY <1>1, <1>2, PTL DEF ClientsSpec

(* What users read is true, whatever Discord, the network, the bot and the
   database fail at: each text is shown at an await that has the answer. *)
THEOREM Truth == ClientsSpec => []ToldIsTrue
<1>1. Informed => ToldIsTrue
  BY DEF Informed, Honest, RequestInv, AnswerInv, ClientInv, PlaceInv, TextInv, CancelInv, ToldIsTrue
<1>2. QED
  BY <1>1, Knowledge, PTL

(* No cancel between the awaits of a submission makes its answer a lie. *)
THEOREM HonestyToClients == ClientsSpec => []AnswersAreHonest
<1>1. Informed => AnswersAreHonest
  BY DEF Informed, Honest, AnswerInv, AnswersAreHonest
<1>2. QED
  BY <1>1, Knowledge, PTL

(* A job that users may cancel is blocked by the monthly cap only if another spent. *)
THEOREM AdmissionOfClients == ClientsSpec => []BlockedOnlyByOthers
<1>1. ClientsInit => Budgets
  BY BudgetsInit DEF ClientsInit
<1>2. Informed /\ Budgets /\ [ClientsNext]_allVars => Budgets'
  <2> SUFFICES ASSUME Informed, Budgets, [ClientsNext]_allVars PROVE Budgets'
    OBVIOUS
  <2>1. CASE Commands \/ Api \/ UNCHANGED allVars
    BY <2>1, BudgetsKept DEF Commands, Api, allVars
  <2>2. ASSUME NEW q \in Requests, CancelStep(q), UNCHANGED <<request, stored, execution>>
        PROVE  Budgets'
    <3>1. TypeOK /\ ClientTypes
      BY DEF Budgets, Informed
    <3>2. UNCHANGED job \/ (job[q] = "queued" /\ Moves(q, "over"))
      BY <2>2, <3>1, CancelEffect DEF TypeOK
    <3>3. TypeOK'
      BY <2>2, <3>1, <3>2 DEF TypeOK, Moves, request, stored, execution
    <3>4. ASSUME NEW p \in Requests PROVE BudgetInv(p)'
      <4>1. job'[p] = job[p] \/ (job[p] = "queued" /\ job'[p] = "over")
        BY <3>1, <3>2 DEF TypeOK, Moves
      <4>2. BudgetInv(p)
        BY DEF Budgets
      <4>3. QED
        BY <2>2, <4>1, <4>2 DEF BudgetInv, Admitted, request, stored, execution
    <3>5. QED
      BY <3>3, <3>4 DEF Budgets
  <2>3. CASE Cancels
    BY <2>2, <2>3, ClientsAssumption DEF Cancels, CancelStep
  <2>4. QED
    BY <2>1, <2>3 DEF ClientsNext
<1>3. QED
  BY <1>1, <1>2, Knowledge, BudgetsSuffice, PTL DEF ClientsSpec
=============================================================================
