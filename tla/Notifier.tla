------------------------------ MODULE Notifier ------------------------------
(***************************************************************************)
(* The bot's notifier (apps/bot/src/notifier.ts): it reads the events that *)
(* the job table's transactions leave in job_events, oldest first, and     *)
(* shows them in a Discord forum, one thread per job.  The command handler *)
(* of the same process may ask for the thread too.  The table moves as     *)
(* JobLifecycle says; Discord refuses calls, answers get lost, statements  *)
(* fail and the bot restarts.                                              *)
(***************************************************************************)
EXTENDS JobStates, FiniteSets

CONSTANTS
  Jobs, Workers, NoWorker,
  Limit,       (* events fetched per tick *)
  Refusals,    (* Discord may refuse calls, for as long as it likes *)
  Hours,       (* events may stay undelivered longer than GIVE_UP_AFTER_MS *)
  MaxEvents,   (* bound: events in the table *)
  MaxFaults    (* bound: lost answers, failing statements and restarts *)

ASSUME NotifierAssumption ==
  /\ Limit \in Nat \ {0}
  /\ Refusals \in BOOLEAN
  /\ Hours \in BOOLEAN
  /\ MaxEvents \in Nat
  /\ MaxFaults \in Nat

VARIABLES
  status, owner, log,   (* the table: see JobLifecycle *)
  red,       (* the jobs that succeeded with the result of tests that did not pass *)
  outbox,    (* the events <<job, k>> by id; the k-th of a job is log[job][k] *)
  aged,      (* how many of the oldest events are older than GIVE_UP_AFTER_MS *)
  notified,  (* the events whose notified_at is set *)
  thread,    (* jobs.discord_forum_thread_id *)
  batch,     (* what is left of this tick's pending events *)
  step,      (* where the loop stands with the first of them *)
  target,    (* its threadId *)
  task,      (* #postLocks: the ensurePost in flight for a job *)
  handled,   (* the command handler has asked for the job's thread *)
  posts,     (* the forum's threads, in order of creation *)
  results,   (* the results posted for a job, as the statuses they show *)
  dropped,   (* the events marked notified without being delivered *)
  faults

table == <<status, owner, log, red, outbox>>
bot == <<batch, step, target, task>>
discord == <<posts, results>>
vars == <<table, aged, notified, thread, bot, handled, discord, dropped, faults>>

Table == INSTANCE JobLifecycle

NoThread == 0
NoTask == [at |-> "none"]

EventsOf(s) == {s[n] : n \in DOMAIN s}

(* The elements of s that are in T, in their order: SelectSeq in a form that can be
   reasoned about. *)
Only(s, T) ==
  LET kept[n \in 0 .. Len(s)] ==
        IF n = 0 THEN <<>>
        ELSE IF s[n] \in T THEN Append(kept[n - 1], s[n]) ELSE kept[n - 1]
  IN  kept[Len(s)]

(* statusFromEvent: the first event of a job is `created` and has no status. *)
statusFromEvent(e) == IF e[2] = 1 THEN Absent ELSE log[e[1]][e[2]]

statusTag(s) ==
  CASE s \in ACTIVE_STATUSES -> "running"
    [] s = "succeeded" -> "passed"
    [] OTHER -> s

(* Mutant: the tag follows the status alone. *)
tagNamesByStatus(j, s) == statusTag(s)

(* A completed /runtest whose tests failed is still a "failed" run to its user. *)
tagNamesFor(j, s) ==
  IF s = "succeeded" /\ j \in red THEN "failed" ELSE statusTag(s)

Init ==
  /\ Table!Init
  /\ red = {}
  /\ outbox = <<>>
  /\ aged = 0
  /\ notified = {}
  /\ thread = [j \in Jobs |-> NoThread]
  /\ batch = <<>>
  /\ step = "idle"
  /\ target = NoThread
  /\ task = [j \in Jobs |-> NoTask]
  /\ handled = [j \in Jobs |-> FALSE]
  /\ posts = <<>>
  /\ results = [j \in Jobs |-> <<>>]
  /\ dropped = {}
  /\ faults = 0

-----------------------------------------------------------------------------
(* The table, time, and what can go wrong.  A job's result is written with its
   status; any job may be a test run. *)

TableMoves ==
  /\ Len(outbox) < MaxEvents
  /\ \E j \in Jobs :
       /\ \/ Table!Create(j)
          \/ \E w \in Workers : Table!Claim(j, w)
          \/ \E to \in JOB_STATUSES : Table!Advance(j, to)
       /\ red' = red \/ (status'[j] = "succeeded" /\ red' = red \cup {j})
       /\ outbox' = Append(outbox, <<j, Len(log'[j])>>)
  /\ UNCHANGED <<aged, notified, thread, bot, handled, discord, dropped, faults>>

TimePasses ==
  /\ Hours
  /\ aged < Len(outbox)
  /\ aged' = aged + 1
  /\ UNCHANGED <<table, notified, thread, bot, handled, discord, dropped, faults>>

Fault == faults < MaxFaults /\ faults' = faults + 1

(* A call to Discord: `done` says what it does when it gets through, and what
   follows is `ok` or, when it is refused or its answer is lost, `failed`. *)
Calls(done, undone, ok, failed) ==
  \/ done /\ ok /\ UNCHANGED faults
  \/ Refusals /\ undone /\ failed /\ UNCHANGED faults
  \/ Fault /\ done /\ failed

(* A statement: it fails only by a fault, before or after it is applied. *)
Executes(done, undone, ok, failed) ==
  \/ done /\ ok /\ UNCHANGED faults
  \/ Fault /\ (done \/ undone) /\ failed

-----------------------------------------------------------------------------
(* processOnce: the loop over the pending events. *)

Event == Head(batch).event
Job == Event[1]

GoOn(rest) ==
  /\ batch' = rest
  /\ step' = IF rest = <<>> THEN "idle" ELSE "ensure"
  /\ UNCHANGED target

(* Mutant: after a failure the job's later events are tried all the same. *)
FailsUnblocked ==
  IF \E n \in 1 .. aged : outbox[n] = Event
  THEN step' = "drop" /\ UNCHANGED <<batch, target>>
  ELSE GoOn(Tail(batch))

(* Mutant: the error is logged and the event counts as delivered. *)
FailsSwallowed ==
  IF \E n \in 1 .. aged : outbox[n] = Event
  THEN step' = "drop" /\ UNCHANGED <<batch, target>>
  ELSE step' = "mark" /\ UNCHANGED <<batch, target>>

(* The rest of the batch without the events of a job that is blocked. *)
Unblocked == Only(Tail(batch), {e \in EventsOf(Tail(batch)) : e.event[1] # Job})

(* Mutant: no event is ever given up. *)
FailsForEver == GoOn(Unblocked)

(* The catch block: drop an event that is too old, else block its job for this tick. *)
Fails ==
  IF \E n \in 1 .. aged : outbox[n] = Event
  THEN step' = "drop" /\ UNCHANGED <<batch, target>>
  ELSE GoOn(Unblocked)

pendingEvents ==
  LET pending == Only(outbox, EventsOf(outbox) \ notified)
  IN SubSeq(pending, 1, IF Len(pending) < Limit THEN Len(pending) ELSE Limit)

(* fetchPendingEvents joins each event with its job's row as it is now. *)
Fetch ==
  /\ step = "idle"
  /\ pendingEvents # <<>>
  /\ GoOn([n \in DOMAIN pendingEvents |->
             LET e == pendingEvents[n]
             IN [event |-> e, status |-> status[e[1]], thread |-> thread[e[1]]]])
  /\ UNCHANGED <<table, aged, notified, thread, task, handled, discord, dropped, faults>>

(* What an event asks of its thread.  Only a terminal event, or one that tells
   the state of the row it was fetched with, touches the thread. *)
Delivery ==
  IF isTerminal(statusFromEvent(Event)) THEN <<"tags", "result", "mark">>
  ELSE IF statusFromEvent(Event) = Head(batch).status THEN <<"tags", "mark">>
  ELSE <<"mark">>

After(call) ==
  /\ \E n \in DOMAIN Delivery : Delivery[n] = call /\ step' = Delivery[n + 1]
  /\ UNCHANGED <<batch, target>>

HasThread(t) ==
  /\ target' = t
  /\ step' = Delivery[1]
  /\ UNCHANGED batch

(* ensurePost after its first line: join the creation in flight or start one. *)
StartOrJoin(j) ==
  task' = IF task[j] = NoTask THEN [task EXCEPT ![j] = [at |-> "reading"]] ELSE task

EnsurePost ==
  /\ step = "ensure"
  /\ IF Head(batch).thread # NoThread
     THEN HasThread(Head(batch).thread) /\ UNCHANGED task
     ELSE step' = "waiting" /\ StartOrJoin(Job) /\ UNCHANGED <<batch, target>>
  /\ UNCHANGED <<table, aged, notified, thread, handled, discord, dropped, faults>>

SetTags ==
  /\ step = "tags"
  /\ Calls(posts' = [posts EXCEPT ![target].tag = tagNamesFor(Job, Head(batch).status)],
           UNCHANGED posts,
           After("tags"),
           Fails)
  /\ UNCHANGED <<table, aged, notified, thread, task, handled, results, dropped>>

PostResult ==
  /\ step = "result"
  /\ Calls(results' = [results EXCEPT ![Job] = Append(@, Head(batch).status)],
           UNCHANGED results,
           After("result"),
           Fails)
  /\ UNCHANGED <<table, aged, notified, thread, task, handled, posts, dropped>>

MarkNotified ==
  /\ step = "mark"
  /\ Executes(notified' = notified \cup {Event}, UNCHANGED notified, GoOn(Tail(batch)), Fails)
  /\ UNCHANGED <<table, aged, thread, task, handled, discord, dropped>>

(* When this statement fails processOnce rejects and the tick is over. *)
DropEvent ==
  /\ step = "drop"
  /\ Executes(notified' = notified \cup {Event} /\ dropped' = dropped \cup {Event},
              UNCHANGED <<notified, dropped>>,
              GoOn(Tail(batch)), GoOn(<<>>))
  /\ UNCHANGED <<table, aged, thread, task, handled, discord>>

-----------------------------------------------------------------------------
(* ensurePost: one creation in flight per job, whoever asked for it. *)

(* handlers.ts createJob asks for the thread of the job it just submitted. *)
HandlerEnsuresPost(j) ==
  /\ status[j] # Absent
  /\ ~handled[j]
  /\ handled' = [handled EXCEPT ![j] = TRUE]
  /\ StartOrJoin(j)
  /\ UNCHANGED <<table, aged, notified, thread, batch, step, target, discord, dropped, faults>>

Awaited(j) == step = "waiting" /\ Job = j

Resolves(j, t) ==
  /\ task' = [task EXCEPT ![j] = NoTask]
  /\ IF Awaited(j) THEN HasThread(t) ELSE UNCHANGED <<batch, step, target>>

Rejects(j) ==
  /\ task' = [task EXCEPT ![j] = NoTask]
  /\ IF Awaited(j) THEN Fails ELSE UNCHANGED <<batch, step, target>>

(* Mutant: the creation does not look whether the row has a thread by now. *)
ReadJobBlindly(j) ==
  /\ task[j].at = "reading"
  /\ task' = [task EXCEPT ![j] = [at |-> "creating", status |-> status[j]]]
  /\ UNCHANGED <<table, aged, notified, thread, batch, step, target, handled, discord, dropped,
                 faults>>

ReadJob(j) ==
  /\ task[j].at = "reading"
  /\ \/ /\ thread[j] # NoThread
        /\ Resolves(j, thread[j])
        /\ UNCHANGED faults
     \/ /\ thread[j] = NoThread
        /\ task' = [task EXCEPT ![j] = [at |-> "creating", status |-> status[j]]]
        /\ UNCHANGED <<batch, step, target, faults>>
     \/ Fault /\ Rejects(j)
  /\ UNCHANGED <<table, aged, notified, thread, handled, discord, dropped>>

CreatePost(j) ==
  /\ task[j].at = "creating"
  /\ Calls(posts' = Append(posts, [job |-> j, tag |-> tagNamesFor(j, task[j].status)]),
           UNCHANGED posts,
           /\ task' = [task EXCEPT ![j] = [at |-> "recording", thread |-> Len(posts) + 1]]
           /\ UNCHANGED <<batch, step, target>>,
           Rejects(j))
  /\ UNCHANGED <<table, aged, notified, thread, handled, results, dropped>>

SetDiscordThread(j) ==
  /\ task[j].at = "recording"
  /\ Executes(thread' = [thread EXCEPT ![j] = task[j].thread],
              UNCHANGED thread,
              Resolves(j, task[j].thread),
              Rejects(j))
  /\ UNCHANGED <<table, aged, notified, handled, discord, dropped>>

(* The bot goes down and comes back: its memory is gone. *)
Restart ==
  /\ Fault
  /\ batch' = <<>>
  /\ step' = "idle"
  /\ target' = NoThread
  /\ task' = [j \in Jobs |-> NoTask]
  /\ UNCHANGED <<table, aged, notified, thread, handled, discord, dropped>>

-----------------------------------------------------------------------------
Loop == Fetch \/ EnsurePost \/ SetTags \/ PostResult \/ MarkNotified \/ DropEvent

Creation(j) == ReadJob(j) \/ CreatePost(j) \/ SetDiscordThread(j)

Next ==
  \/ TableMoves
  \/ TimePasses
  \/ Loop
  \/ \E j \in Jobs : HandlerEnsuresPost(j) \/ Creation(j)
  \/ Restart

Spec == Init /\ [][Next]_vars

(* The bot's timer ticks and its calls settle, refused or not; hours pass.
   Faults are bounded, so nothing else is needed of the database. *)
FairSpec ==
  /\ Spec
  /\ WF_vars(TimePasses)
  /\ WF_vars(Loop)
  /\ \A j \in Jobs : WF_vars(Creation(j))

-----------------------------------------------------------------------------
(* What readers of the forum rely on. *)

(* Per job, events are settled in order: none is marked before an older one of
   its job, and a result is posted only after all that came before it. *)
SettledInOrder ==
  \A j \in Jobs : \A k \in 2 .. Len(log[j]) :
    <<j, k>> \in notified \/ (k = Len(log[j]) /\ results[j] # <<>>) =>
      <<j, k - 1>> \in notified

(* The handler and the notifier race for a job's thread and still make one, and
   its result is posted once, however often Discord refuses the calls before it:
   every further thread or result is paid for by a lost answer, a failed
   statement or a restart. *)
DuplicatesArePaid ==
  \A j \in Jobs :
    /\ Cardinality({t \in DOMAIN posts : posts[t].job = j}) <= 1 + faults
    /\ Len(results[j]) <= 1 + faults

(* A delivered last event leaves the job's own thread with the final tag, `passed`
   only if the job succeeded and its tests, if it was a test run, did too; and
   every result that was posted shows the final status. *)
FinalTag(j) ==
  CASE status[j] = "succeeded" /\ j \notin red -> "passed"
    [] status[j] = "failed" \/ (status[j] = "succeeded" /\ j \in red) -> "failed"
    [] OTHER -> status[j]

DeliveredShows ==
  \A j \in Jobs :
    /\ \A n \in DOMAIN results[j] : isTerminal(status[j]) /\ results[j][n] = status[j]
    /\ isTerminal(status[j]) /\ <<j, Len(log[j])>> \in notified \ dropped =>
         /\ results[j] # <<>>
         /\ posts[thread[j]].tag = FinalTag(j)

(* No event waits for ever, not even behind Limit events of a job whose thread
   Discord refuses: giving up on them is what lets the others through. *)
EveryEventSettles ==
  \A j \in Jobs, k \in 1 .. 5 : <<j, k>> \in EventsOf(outbox) ~> <<j, k>> \in notified
=============================================================================
