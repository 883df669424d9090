------------------------------- MODULE Clients -------------------------------
(***************************************************************************)
(* Who submits and cancels jobs, and what they are told: the bot's slash   *)
(* commands (apps/bot/src/handlers.ts, main.ts, api-client.ts) and the     *)
(* form of the dashboard (pages/new-job.tsx), on top of the routes of the  *)
(* api (Submission).  Discord, the database and the network fail at any    *)
(* await, and the bot may die.                                             *)
(***************************************************************************)
EXTENDS Submission

CONSTANTS
  FromForm,   (* the submissions of the dashboard; the rest are commands *)
  Unwanted    (* the jobs that /cancel is used on *)

ASSUME ClientsAssumption ==
  /\ FromForm \subseteq Requests /\ FromForm \cap WithFiles = {}
  /\ Unwanted \subseteq Requests

VARIABLES
  command,   (* the next await of the client *)
  told,      (* what the user sees of a submission *)
  posted,    (* the job has its forum post *)
  broken,    (* Discord failed the bot, or the bot died *)
  cancel     (* the latest /cancel of the job: its next await, or what was told:
                "cancelled", and "cancelled late" if a worker already had it *)

submitter == <<command, told, posted, broken>>
clients == <<submitter, cancel>>
allVars == <<vars, clients>>

ClientsInit ==
  /\ Init
  /\ command = [q \in Requests |-> "idle"]
  /\ told = [q \in Requests |-> "nothing"]
  /\ posted = [q \in Requests |-> FALSE]
  /\ broken = [q \in Requests |-> FALSE]
  /\ cancel = [q \in Requests |-> "none"]

Then(q, place) == command' = [command EXCEPT ![q] = place]
Shows(q, text) == told' = [told EXCEPT ![q] = text]
Breaks(q) == broken' = [broken EXCEPT ![q] = TRUE] /\ UNCHANGED told

-----------------------------------------------------------------------------
(* handleCommand, createJob. *)

(* Another server, a user who is not listed, another channel: no request. *)
TurnAway(q) ==
  /\ command[q] = "idle" /\ q \notin FromForm
  /\ \/ Shows(q, "turned away") /\ Then(q, "over") /\ UNCHANGED broken
     \/ Breaks(q) /\ Then(q, "catching")
  /\ UNCHANGED posted

deferReply(q) ==
  /\ command[q] = "idle" /\ q \notin FromForm
  /\ \/ Shows(q, "thinking") /\ Then(q, "calling") /\ UNCHANGED broken
     \/ Breaks(q) /\ Then(q, "catching")
  /\ UNCHANGED posted

(* The answer of the api: an ApiError carries its message. *)
Receive(q) ==
  /\ command[q] = "calling" /\ q \notin FromForm
  /\ \/ answer[q] = "accepted" /\ Then(q, "posting")
     \/ answer[q] = "refused" /\ Then(q, "explaining refusal")
     \/ answer[q] = "error" /\ Then(q, "explaining error")
  /\ UNCHANGED <<told, posted, broken>>

(* Mutant: a request that failed counts as refused. *)
LoseConnectionRefused(q) ==
  /\ command[q] = "calling"
  /\ IF q \in FromForm THEN Shows(q, "refused") /\ Then(q, "over")
                       ELSE UNCHANGED told /\ Then(q, "explaining refusal")
  /\ UNCHANGED <<posted, broken>>

(* fetch rejects, whatever the api does with the request. *)
LoseConnection(q) ==
  /\ command[q] = "calling"
  /\ IF q \in FromForm THEN Shows(q, "error") /\ Then(q, "over")
                       ELSE UNCHANGED told /\ Then(q, "explaining error")
  /\ UNCHANGED <<posted, broken>>

(* Failures are the notifier's business; the post may exist all the same. *)
ensurePost(q) ==
  /\ command[q] = "posting"
  /\ \E made \in BOOLEAN :
       /\ posted' = [posted EXCEPT ![q] = made]
       /\ (made /\ Then(q, "linking")) \/ Then(q, "replying")
  /\ UNCHANGED <<told, broken>>

editAck(q) ==
  /\ command[q] \in {"linking", "replying"}
  /\ \/ Shows(q, IF command[q] = "linking" THEN "queued, with link" ELSE "queued")
        /\ Then(q, "storing") /\ UNCHANGED broken
     \/ Breaks(q) /\ Then(q, "explaining error")
  /\ UNCHANGED posted

(* Nothing reads discord_ack_message_id. *)
setDiscordThread(q) ==
  /\ command[q] = "storing"
  /\ Then(q, "over") \/ Then(q, "explaining error")
  /\ UNCHANGED <<told, posted, broken>>

(* The catch block of createJob, which also hides an acknowledgement. *)
explain(q) ==
  /\ command[q] \in {"explaining refusal", "explaining error"}
  /\ \/ Shows(q, IF command[q] = "explaining refusal" THEN "refused" ELSE "error")
        /\ Then(q, "over") /\ UNCHANGED broken
     \/ Breaks(q) /\ Then(q, "catching")
  /\ UNCHANGED posted

(* The catch block of main.ts, which tries once more. *)
catch(q) ==
  /\ command[q] = "catching"
  /\ Then(q, "over")
  /\ Shows(q, "error") \/ UNCHANGED told
  /\ UNCHANGED <<posted, broken>>

(* Commands in hand end where they are. *)
BotDies ==
  /\ command' = [q \in Requests |-> IF q \in FromForm \/ command[q] = "idle" THEN command[q] ELSE "over"]
  /\ broken' = [q \in Requests |-> broken[q] \/ command'[q] # command[q]]
  /\ command' # command
  /\ UNCHANGED <<told, posted>>

-----------------------------------------------------------------------------
(* NewJobPage. *)

submit(q) ==
  /\ command[q] = "idle" /\ q \in FromForm
  /\ \/ Shows(q, "thinking") /\ Then(q, "calling")
     \/ Shows(q, "turned away") /\ Then(q, "over")
  /\ UNCHANGED <<posted, broken>>

(* The page of the job opens, or the error is shown. *)
Answered(q) ==
  /\ command[q] = "calling" /\ q \in FromForm /\ answer[q] # "none"
  /\ Shows(q, IF answer[q] = "accepted" THEN "queued" ELSE answer[q])
  /\ Then(q, "over")
  /\ UNCHANGED <<posted, broken>>

-----------------------------------------------------------------------------
(* /cancel, for a job that somebody knows of: cancelJob, the route, and its
   statements, among those of the worker. *)

CancelTo(q, place) == cancel' = [cancel EXCEPT ![q] = place]

cancelJob(q) ==
  /\ job[q] # "absent"
  /\ cancel[q] \notin {"reading", "moving", "flagging"}
  /\ CancelTo(q, "reading")
  /\ UNCHANGED job

getJobByShortId(q) ==
  /\ cancel[q] = "reading"
  /\ CancelTo(q, IF job[q] = "queued" THEN "moving" ELSE "flagging")
  /\ UNCHANGED job

(* transitionJob moves a claimed row as well: the user reads the same, and nobody
   tells the worker.  It refuses a row that another cancel or the reaper ended, or
   whose job is past running. *)
transition(q) ==
  /\ cancel[q] = "moving"
  /\ \/ job[q] = "queued" /\ Moves(q, "over") /\ CancelTo(q, "cancelled")
     \/ job[q] # "queued" /\ UNCHANGED job /\ CancelTo(q, "cancelled late")
     \/ job[q] # "queued" /\ UNCHANGED job /\ CancelTo(q, "flagging")

(* "Cancel requested" or "can no longer be cancelled": the job goes on for now, and
   may be over at any time (AskSpend). *)
flag(q) ==
  /\ cancel[q] = "flagging"
  /\ CancelTo(q, "answered")
  /\ UNCHANGED job

(* The database fails, the answer is lost, or Discord does not show it.  A claimed
   row may have been cancelled, too, which its job does not notice. *)
CancelFails(q) ==
  /\ cancel[q] \in {"reading", "moving", "flagging"}
  /\ CancelTo(q, "answered")
  /\ \/ UNCHANGED job
     \/ cancel[q] = "moving" /\ job[q] = "queued" /\ Moves(q, "over")

-----------------------------------------------------------------------------
Commands ==
  /\ \/ \E q \in Requests :
          \/ TurnAway(q) \/ deferReply(q) \/ Receive(q) \/ LoseConnection(q)
          \/ ensurePost(q) \/ editAck(q) \/ setDiscordThread(q)
          \/ explain(q) \/ catch(q)
          \/ submit(q) \/ Answered(q)
     \/ BotDies
  /\ UNCHANGED <<vars, cancel>>

Cancels ==
  /\ \E q \in Unwanted :
       cancelJob(q) \/ getJobByShortId(q) \/ transition(q) \/ flag(q) \/ CancelFails(q)
  /\ UNCHANGED <<request, stored, execution, submitter>>

(* A request reaches the api only from a client that sent it. *)
Api ==
  /\ Next
  /\ \A q \in Requests : at[q] = "idle" /\ at'[q] # "idle" => command[q] = "calling"
  /\ UNCHANGED clients

ClientsNext == Commands \/ Cancels \/ Api

ClientsSpec == ClientsInit /\ [][ClientsNext]_allVars

-----------------------------------------------------------------------------
(* What users read is true, and they read something: queued means that there is
   a job with its attachments, a link that there is a post, refused that nothing
   is left; and only a failure of Discord or of the bot leaves a command without
   an answer.  A job that was told to be cancelled never starts, but for one that
   was claimed after its cancel had read it as queued, which goes on. *)
ToldIsTrue ==
  \A q \in Requests :
    /\ told[q] \in {"queued", "queued, with link"} =>
         /\ job[q] # "absent"
         /\ q \in WithFiles => rows[q] /\ files[q] = "all"
    /\ told[q] = "queued, with link" => posted[q]
    /\ told[q] \in {"turned away", "refused"} => job[q] = "absent" /\ files[q] = "none"
    /\ command[q] = "over" /\ told[q] \in {"nothing", "thinking"} => broken[q]
    /\ cancel[q] = "cancelled" => job[q] = "over" /\ read[q] = "nothing"
    /\ cancel[q] = "cancelled late" => job[q] \notin {"absent", "queued"}
=============================================================================
