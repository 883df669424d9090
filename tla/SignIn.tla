------------------------------- MODULE SignIn -------------------------------
(***************************************************************************)
(* Signing in to the dashboard (apps/api/src/dashboard.ts, the routes      *)
(* under /auth, and discord-oauth.ts) in several tabs of one browser: the  *)
(* tabs share one state cookie and one session cookie.                     *)
(***************************************************************************)
CONSTANTS
  Tabs,
  NoTab    (* there is no state cookie *)

ASSUME NoTabAssumption == NoTab \notin Tabs

VARIABLES
  listed,       (* the user is on the allowlist *)
  tabAt,        (* where each tab is: "login", "discord", "identifying", "broken" or "in" *)
  stateCookie,  (* the tab whose sign-in the state cookie belongs to *)
  why,          (* what took a tab's state from the cookie before it came back *)
  loginError,   (* ?error= of the sign-in page *)
  session       (* whether the session cookie is that of a session *)

signIn == <<listed, tabAt, stateCookie, why, loginError, session>>

SignInInit ==
  /\ listed \in BOOLEAN
  /\ tabAt = [t \in Tabs |-> "login"]
  /\ stateCookie = NoTab
  /\ why = [t \in Tabs |-> "none"]
  /\ loginError = [t \in Tabs |-> "none"]
  /\ session = FALSE

(* The tabs that may still come to the callback with the state of their link. *)
Linked == {t \in Tabs : tabAt[t] \in {"discord", "identifying", "broken"}}

Goes(t, where, error) ==
  /\ tabAt' = [tabAt EXCEPT ![t] = where]
  /\ loginError' = [loginError EXCEPT ![t] = error]

Returns(t, error) == Goes(t, "login", error)

(* The state that is in the cookie goes, and its tab with it, if that waits. *)
Taken(t) == t \in Linked /\ stateCookie = t

Anew(t) ==
  why' = [s \in Tabs |-> IF s = t THEN "none" ELSE IF Taken(s) THEN "another tab" ELSE why[s]]

(* clearCookie, which reaches the browser with the answer to t: it takes the cookie
   away, whether it is t's or that of a tab that began since. *)
Cleared(t, own) ==
  /\ stateCookie' = NoTab
  /\ why' = [s \in Tabs |-> IF ~Taken(s) THEN why[s] ELSE IF s = t THEN own ELSE "another tab"]

-----------------------------------------------------------------------------
(* Mutant: a state cookie that is there is kept. *)
newStateKept(t) == IF stateCookie = NoTab THEN t ELSE stateCookie

newState(t) == t

(* /auth/discord/login: a fresh state, in the cookie and in the link. *)
Login(t) ==
  /\ tabAt[t] = "login"
  /\ Goes(t, "discord", "none")
  /\ stateCookie' = newState(t)
  /\ Anew(t)
  /\ UNCHANGED <<listed, session>>

(* The user closes Discord's page, or what came of the sign-in; the browser drops an
   answer that is on its way. *)
Abandon(t) ==
  /\ t \in Linked
  /\ Returns(t, "none")
  /\ why' = [why EXCEPT ![t] = "none"]
  /\ UNCHANGED <<listed, stateCookie, session>>

StateExpires ==
  /\ stateCookie # NoTab
  /\ stateCookie' = NoTab
  /\ why' = [t \in Tabs |-> IF Taken(t) THEN "expired" ELSE why[t]]
  /\ UNCHANGED <<listed, tabAt, loginError, session>>

stateOk(t) == stateCookie = t

(* /auth/discord/callback up to its first await.  The page may be loaded again while
   the answer is awaited, or instead of one: the callback comes twice. *)
Callback(t) ==
  /\ t \in Linked
  /\ \/ stateOk(t) /\ Goes(t, "identifying", "none") /\ UNCHANGED <<stateCookie, why>>
     \/ ~stateOk(t) /\ Returns(t, "state") /\ Cleared(t, "answered")
     \/ tabAt[t] # "identifying" /\ Returns(t, "state") /\ Cleared(t, "declined")
  /\ UNCHANGED <<listed, session>>

isAllowed == listed

(* identify: Discord refuses the code or a read, or does not answer. *)
identifyFails(t) == Returns(t, "discord") \/ Returns(t, "internal")

(* No identity, not on the allowlist, or no session: createSession throws out of the
   handler, and the tab shows the answer 500 in place of the sign-in page. *)
Refused(t) ==
  /\ tabAt[t] = "identifying"
  /\ \/ identifyFails(t)
     \/ ~isAllowed /\ Returns(t, "forbidden")
     \/ isAllowed /\ Goes(t, "broken", "none")
  /\ Cleared(t, "answered")
  /\ UNCHANGED <<listed, session>>

(* The api dies or the answer is lost: the cookie stays. *)
Unanswered(t) ==
  /\ tabAt[t] \in {"discord", "identifying"}
  /\ Goes(t, "broken", "none")
  /\ UNCHANGED <<listed, stateCookie, why, session>>

SignedIn(t) ==
  /\ tabAt[t] = "identifying"
  /\ isAllowed
  /\ Goes(t, "in", "none")
  /\ stateCookie' = NoTab
  /\ Anew(t)
  /\ session' = TRUE
  /\ UNCHANGED listed

(* The session expires; the hourly clean-up deletes expired ones. *)
SessionEnds ==
  /\ session
  /\ session' = FALSE
  /\ UNCHANGED <<listed, tabAt, stateCookie, why, loginError>>

(* The session hook answers 401, and the page goes to /login. *)
TurnedAway(t) ==
  /\ tabAt[t] = "in"
  /\ ~session
  /\ Returns(t, "none")
  /\ UNCHANGED <<listed, stateCookie, why, session>>

(* /auth/logout: the request may fail before or after the row is deleted, and the page
   goes to /login all the same. *)
Logout(t) ==
  /\ tabAt[t] = "in"
  /\ session' = FALSE \/ UNCHANGED session
  /\ Returns(t, "none")
  /\ UNCHANGED <<listed, stateCookie, why>>

SignInNext ==
  \/ \E t \in Tabs :
       \/ Login(t) \/ Abandon(t) \/ Callback(t) \/ Refused(t) \/ Unanswered(t)
       \/ SignedIn(t) \/ TurnedAway(t) \/ Logout(t)
  \/ StateExpires
  \/ SessionEnds

SignInSpec == SignInInit /\ [][SignInNext]_signIn

-----------------------------------------------------------------------------
(* The sign-in page tells the truth: "the sign-in link expired" only if the state was
   in the cookie no longer, as it expired, or a tab shares the cookie that began or was
   answered meanwhile, or the callback was answered before; or if the user declined.
   "Not on the allowlist" only for who is not; and only who is on it has a session. *)
SignInErrorsAreTrue ==
  /\ \A t \in Tabs :
       /\ loginError[t] = "state" => why[t] # "none"
       /\ loginError[t] = "forbidden" => ~listed
  /\ session => listed
=============================================================================
