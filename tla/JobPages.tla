------------------------------ MODULE JobPages ------------------------------
(***************************************************************************)
(* The pages of the dashboard that follow jobs (apps/dashboard/src): the   *)
(* list (pages/jobs.tsx) and one job (pages/job-detail.tsx), both on       *)
(* useResource (hooks.ts), with the routes they call                       *)
(* (apps/api/src/dashboard.ts) and their queries (packages/db).  Requests  *)
(* overtake each other and fail.  The tab is visible: hidden, it waits.    *)
(***************************************************************************)
EXTENDS JobStates, Integers, Sequences, FiniteSets

CONSTANTS
  Jobs,         (* numbers, in the order of creation *)
  startStatus,  (* the statuses in the table at first *)
  Filters,      (* "all", or the status looked for *)
  pageSize,     (* limit *)
  theJob,       (* the job whose page is opened *)
  Reached,      (* the statuses that jobs get to while the tab is open *)
  MaxLoads      (* bound: requests in flight besides the timer's *)

NoJob == 0

ASSUME PagesAssumption ==
  /\ Jobs \subseteq Nat \ {NoJob} /\ IsFiniteSet(Jobs)
  /\ startStatus \in [Jobs -> JOB_STATUSES \cup {Absent}]
  /\ pageSize \in Nat \ {0} /\ MaxLoads \in Nat /\ theJob \in Jobs
  /\ Reached \subseteq JOB_STATUSES

VARIABLES
  status,
  cancelRequested,
  events,      (* how many events of the job are in the table *)
  page,        (* what the tab shows *)
  filter,
  data,        (* of useResource: whether it is not null, and its rows *)
  older,       (* rows of older pages *)
  nextBefore,  (* the job that the next older page ends before *)
  loads,       (* requests in flight *)
  crossed      (* an older page was asked for while another, or the old filter's,
                  was on its way *)

table == <<status, cancelRequested, events>>
view == <<filter, data, older, nextBefore, crossed>>
pages == <<table, page, view, loads>>

Nothing == [loaded |-> FALSE, rows |-> <<>>]

TableInit ==
  /\ status = startStatus
  /\ cancelRequested = [j \in Jobs |-> FALSE]
  /\ events = [j \in Jobs |-> IF startStatus[j] = Absent THEN 0 ELSE 1]

ViewInit ==
  /\ filter = "all"
  /\ data = Nothing
  /\ older = <<>>
  /\ nextBefore = NoJob
  /\ loads = {}
  /\ crossed = FALSE

-----------------------------------------------------------------------------
(* The table, as others change it. *)

MoveTo(j, to) ==
  /\ status' = [status EXCEPT ![j] = to]
  /\ events' = [events EXCEPT ![j] = @ + 1]

createJob ==
  \E j \in Jobs :
    /\ status[j] = Absent /\ \A i \in Jobs : i < j => status[i] # Absent
    /\ MoveTo(j, "queued")
    /\ UNCHANGED <<cancelRequested, page, view, loads>>

Works ==
  \E j \in Jobs, to \in Reached :
    /\ canTransition(status[j], to)
    /\ MoveTo(j, to)
    /\ UNCHANGED <<cancelRequested, page, view, loads>>

(* A job, and its row in a list. *)
jobOf(j) ==
  [status |-> status[j], cancelRequested |-> cancelRequested[j], at |-> events[j],
   events |-> events[j]]

rowOf(j) == [id |-> j, status |-> status[j]]

(* listJobsPage. *)
matches(row, f) == f = "all" \/ row.status = f

(* ORDER BY created_at DESC. *)
newestFirst(S) ==
  CHOOSE ids \in [1 .. Cardinality(S) -> S] : \A m, n \in DOMAIN ids : m < n => ids[m] > ids[n]

listJobsPage(f, before) ==
  LET found == {j \in Jobs : /\ status[j] # Absent /\ matches(rowOf(j), f)
                             /\ before = NoJob \/ j < before}
      ids == newestFirst(found)
      more == Cardinality(found) > pageSize
  IN [rows |-> [n \in 1 .. (IF more THEN pageSize ELSE Cardinality(found)) |-> rowOf(ids[n])],
      next |-> IF more THEN ids[pageSize] ELSE NoJob]

-----------------------------------------------------------------------------
(* useResource. *)

Load(by, f, before) ==
  [by |-> by, filter |-> f, before |-> before, at |-> "sent",
   answer |-> [rows |-> <<>>, next |-> NoJob]]

Room == Cardinality({load \in loads : load.by # "timer"}) < MaxLoads

Starts(load) == loads' = loads \cup {load}

(* A new key: what was loaded is forgotten, the timer starts anew, and what is on
   its way goes on. *)
orphans == {[load EXCEPT !.by = IF @ = "timer" THEN "effect" ELSE @] : load \in loads}

isActive(s) == s \in {"queued"} \cup ACTIVE_STATUSES

(* Mutant: the last phase does not count as active. *)
refreshesEarly == page = "jobs" \/ (page = "job" /\ data.loaded /\ data.rows[1].status \in {"queued", "preparing", "running"})

(* refreshMs: the list always, a job as long as it is shown as active. *)
refreshes == page = "jobs" \/ (page = "job" /\ data.loaded /\ isActive(data.rows[1].status))

TimerFires ==
  /\ page \in {"jobs", "job"}
  /\ refreshes
  /\ \A load \in loads : load.by # "timer"
  /\ Starts(Load("timer", filter, NoJob))
  /\ UNCHANGED <<table, page, view>>

(* The server: the list in one query, a job's row before its trace. *)
AnswerList(load) ==
  /\ page = "jobs" /\ load.at = "sent"
  /\ loads' = (loads \ {load})
       \cup {[load EXCEPT !.at = "answered", !.answer = listJobsPage(load.filter, load.before)]}
  /\ UNCHANGED <<table, page, view>>

ReadJob(load) ==
  /\ page = "job" /\ load.at = "sent"
  /\ loads' = (loads \ {load})
       \cup {[load EXCEPT !.at = "row", !.answer.rows = <<jobOf(theJob)>>]}
  /\ UNCHANGED <<table, page, view>>

(* Mutant: the trace first, then the row. *)
getJobTraceFirst(load) ==
  /\ page = "job" /\ load.at = "row"
  /\ loads' = (loads \ {load})
       \cup {[load EXCEPT !.at = "answered",
                          !.answer.rows = <<[jobOf(theJob) EXCEPT !.events = load.answer.rows[1].events]>>]}
  /\ UNCHANGED <<table, page, view>>

getJobTrace(load) ==
  /\ page = "job" /\ load.at = "row"
  /\ loads' = (loads \ {load})
       \cup {[load EXCEPT !.at = "answered",
                          !.answer.rows = <<[load.answer.rows[1] EXCEPT !.events = events[theJob]]>>]}
  /\ UNCHANGED <<table, page, view>>

(* The answer arrives, whatever else is on its way. *)
Deliver(load) ==
  /\ load.at = "answered"
  /\ loads' = loads \ {load}
  /\ IF load.by = "more"
     THEN /\ older' = older \o load.answer.rows
          /\ nextBefore' = load.answer.next
          /\ UNCHANGED data
     ELSE /\ data' = [loaded |-> TRUE, rows |-> load.answer.rows]
          /\ nextBefore' = IF page = "jobs" /\ older = <<>> THEN load.answer.next ELSE nextBefore
          /\ UNCHANGED older
  /\ UNCHANGED <<table, page, filter, crossed>>

(* A request that fails leaves what is shown. *)
Fail(load) == loads' = loads \ {load} /\ UNCHANGED <<table, page, view>>

-----------------------------------------------------------------------------
(* The user.  A page that is opened is mounted anew. *)

Open(where) ==
  /\ page' = where
  /\ filter' = "all" /\ data' = Nothing /\ older' = <<>> /\ nextBefore' = NoJob
  /\ crossed' = FALSE
  /\ loads' = {Load("effect", "all", NoJob)}
  /\ UNCHANGED table

Navigate ==
  \/ page = "jobs" /\ status[theJob] # Absent /\ Open("job")
  \/ page = "job" /\ Open("jobs")

(* A new filter starts a fresh list. *)
SetParam(f) ==
  /\ page = "jobs" /\ f # filter /\ Room
  /\ filter' = f /\ data' = Nothing /\ older' = <<>> /\ nextBefore' = NoJob
  /\ crossed' = \E load \in loads : load.by = "more"
  /\ loads' = orphans \cup {Load("effect", f, NoJob)}
  /\ UNCHANGED <<table, page>>

LoadMore ==
  /\ page = "jobs" /\ nextBefore # NoJob /\ Room
  /\ crossed' = (crossed \/ \E load \in loads : load.by = "more")
  /\ Starts(Load("more", filter, nextBefore))
  /\ UNCHANGED <<table, page, filter, data, older, nextBefore>>

cancellable(row) ==
  row.status \in {"queued", "preparing", "running"} /\ ~row.cancelRequested

(* The cancel route, in one piece (JobStore has requestCancel's statements). *)
cancelRoute(j) ==
  CASE status[j] = "queued" -> MoveTo(j, "cancelled") /\ UNCHANGED cancelRequested
    [] status[j] \in {"preparing", "running"} ->
         cancelRequested' = [cancelRequested EXCEPT ![j] = TRUE] /\ UNCHANGED <<status, events>>
    [] OTHER -> UNCHANGED table

(* The page is loaded again if the answer is yes. *)
Cancel ==
  /\ page = "job" /\ data.loaded /\ cancellable(data.rows[1]) /\ Room
  /\ \A load \in loads : load.by # "cancel"
  /\ cancelRoute(theJob)
  /\ \/ status[theJob] \in {"queued", "preparing", "running"}
        /\ Starts(Load("cancel", filter, NoJob))
     \/ UNCHANGED loads
  /\ UNCHANGED <<page, view>>

-----------------------------------------------------------------------------
(* A status is shown with the events that led to it: the trace is never older
   than the job beside it. *)
TimelineCoversStatus ==
  page = "job" /\ data.loaded => data.rows[1].events >= data.rows[1].at

(* "A new filter starts a fresh list": older pages belong to the filter that is
   set, newest first and none twice, unless an older page was asked for while
   another, or the last filter's, was on its way. *)
OlderBelong ==
  page = "jobs" /\ ~crossed =>
    /\ \A n \in DOMAIN older : matches(older[n], filter)
    /\ \A m, n \in DOMAIN older : m < n => older[m].id > older[n].id

(* What is on screen at one time fits together. *)
ShownFitsTogether == TimelineCoversStatus /\ OlderBelong

(* A page that has shown a job shows its last status in the end, though answers
   arrive out of order and requests fail for a while. *)
JobCatchesUp ==
  (page = "job" /\ data.loaded /\ isTerminal(status[theJob]))
    ~> (page # "job" \/ (data.loaded /\ data.rows[1].status = status[theJob]))

(* So does the list show, for the filter that the user settles on, the newest
   jobs that match it. *)
ListCatchesUp ==
  \A f \in Filters :
    <>[](page = "jobs" /\ filter = f)
      => <>[](data.loaded /\ data.rows = listJobsPage(f, NoJob).rows)

PagesCatchUp == JobCatchesUp /\ ListCatchesUp
=============================================================================
