----------------------------- MODULE Dashboard -----------------------------
(***************************************************************************)
(* The dashboard in a browser (apps/dashboard/src/app.tsx, api.ts): who is *)
(* not signed in signs in, in any tab; who is looks at jobs, until the     *)
(* session ends or they sign out.  The pages are those of one tab.         *)
(***************************************************************************)
EXTENDS SignIn, JobPages

CONSTANTS
  theTab,
  Aside    (* bound: whether the other tabs do anything while theTab shows the pages *)

ASSUME TabAssumption == theTab \in Tabs /\ Aside \in BOOLEAN

vars == <<signIn, pages>>

Init == SignInInit /\ TableInit /\ ViewInit /\ page = "signed out"

-----------------------------------------------------------------------------
otherTabs == Tabs \ {theTab}
atRest(t) == tabAt[t] = "login" /\ loginError[t] = "none" /\ why[t] = "none"

(* The tab that signed in is sent to / and asks for api.me. *)
EnterApp ==
  /\ Aside \/ \A t \in otherTabs : atRest(t)
  /\ SignedIn(theTab)
  /\ page' = "checking"
  /\ UNCHANGED <<table, view, loads>>

(* Everything on screen goes when the browser loads /login. *)
leaveTo(where) ==
  /\ page' = where
  /\ filter' = "all" /\ data' = Nothing /\ older' = <<>> /\ nextBefore' = NoJob
  /\ crossed' = FALSE /\ loads' = {}
  /\ UNCHANGED table

(* What the page asks for, a cancel included, is answered 401. *)
Unauthorized ==
  /\ page \in {"checking", "jobs", "job"}
  /\ TurnedAway(theTab)
  /\ leaveTo("signed out")

Me ==
  /\ page = "checking"
  /\ \/ session /\ Open("jobs") /\ UNCHANGED signIn
     \/ leaveTo("blank") /\ UNCHANGED signIn

(* Without a user nothing is shown, until the user loads the page again. *)
Reload ==
  /\ page = "blank"
  /\ leaveTo("checking")
  /\ UNCHANGED signIn

SignOut ==
  /\ page \in {"jobs", "job"}
  /\ Logout(theTab)
  /\ leaveTo("signed out")

SigningIn ==
  /\ \/ /\ Aside \/ page = "signed out"
        /\ \/ \E t \in Tabs : Login(t) \/ Abandon(t) \/ Callback(t) \/ Refused(t) \/ Unanswered(t)
           \/ \E t \in otherTabs : SignedIn(t) \/ TurnedAway(t) \/ Logout(t)
     \/ StateExpires
     \/ SessionEnds
  /\ UNCHANGED pages

Others == (createJob \/ Works) /\ UNCHANGED signIn

(* Every request passes the session hook first; the trace is read after it. *)
Serve(load) ==
  \/ /\ session
     /\ AnswerList(load) \/ ReadJob(load)
     /\ UNCHANGED signIn
  \/ load.at = "sent" /\ Unauthorized

Answer(load) == getJobTrace(load) /\ UNCHANGED signIn
Show(load) == Deliver(load) /\ UNCHANGED signIn

Requests ==
  \E load \in loads :
    Serve(load) \/ Answer(load) \/ Show(load) \/ (Fail(load) /\ UNCHANGED signIn)

User ==
  /\ Navigate \/ LoadMore \/ (session /\ Cancel) \/ \E f \in Filters : SetParam(f)
  /\ UNCHANGED signIn

Timer == TimerFires /\ UNCHANGED signIn

Next ==
  \/ SigningIn
  \/ EnterApp
  \/ Me
  \/ Reload
  \/ Unauthorized
  \/ SignOut
  \/ Others
  \/ Requests
  \/ User
  \/ Timer

-----------------------------------------------------------------------------
(* Timers fire, requests are answered or fail, and those of the timer do not fail
   for ever. *)

TimerLoad(Step(_)) == \E load \in loads : load.by = "timer" /\ Step(load)

Fairness ==
  /\ WF_vars(Timer)
  /\ WF_vars(Requests)
  /\ SF_vars(TimerLoad(Serve))
  /\ SF_vars(TimerLoad(Answer))
  /\ SF_vars(TimerLoad(Show))

Spec == Init /\ [][Next]_vars /\ Fairness
=============================================================================
