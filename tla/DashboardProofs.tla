-------------------------- MODULE DashboardProofs --------------------------
(***************************************************************************)
(* Proofs about SignIn and Dashboard, for any number of tabs, any jobs,    *)
(* page size and filters: what the sign-in page tells is true, and what    *)
(* the pages show together fits together.                                  *)
(***************************************************************************)
EXTENDS Dashboard, SequenceTheorems, FiniteSetTheorems, WellFoundedInduction, TLAPS

(* The invariant to add for the sign-in: a tab that may still come to the callback has
   its state in the cookie, or something took it. *)

Whys == {"none", "another tab", "expired", "answered", "declined"}

Typed ==
  /\ tabAt \in [Tabs -> {"login", "discord", "identifying", "broken", "in"}]
  /\ why \in [Tabs -> Whys]
  /\ loginError \in [Tabs -> {"none", "state", "discord", "internal", "forbidden"}]

LostHasReason == \A t \in Linked : stateCookie = t \/ why[t] # "none"

SignInInv == Typed /\ LostHasReason /\ SignInErrorsAreTrue

-----------------------------------------------------------------------------
(* What an answer to t does to the cookie costs no tab its state without a reason, and
   changes nothing of a tab that waits for nothing. *)
LEMMA ClearedTells ==
  ASSUME Typed, LostHasReason, NEW t \in Tabs, NEW own \in Whys \ {"none"}, Cleared(t, own)
  PROVE  /\ why' \in [Tabs -> Whys]
         /\ \A s \in Linked : why'[s] # "none"
         /\ \A s \in Tabs \ Linked : why'[s] = why[s]
  BY DEF Typed, LostHasReason, Whys, Cleared, Taken, Linked

(* A step that takes the cookie away and leaves all but one tab where they are. *)
LEMMA AnswerKeeps ==
  ASSUME SignInInv, NEW t \in Linked, NEW own \in Whys \ {"none"}, Cleared(t, own),
         NEW where \in {"login", "broken"},
         NEW error \in {"none", "state", "discord", "internal", "forbidden"},
         Goes(t, where, error), error = "forbidden" => ~listed,
         UNCHANGED <<listed, session>>
  PROVE  SignInInv'
<1>1. /\ why' \in [Tabs -> Whys]
      /\ \A s \in Linked : why'[s] # "none"
      /\ \A s \in Tabs \ Linked : why'[s] = why[s]
      /\ t \in Tabs
  BY ClearedTells DEF SignInInv, Linked
<1>2. Typed'
  BY <1>1 DEF SignInInv, Typed, Goes
<1>3. LostHasReason'
  BY <1>1 DEF SignInInv, Typed, LostHasReason, Goes, Linked
<1>4. SignInErrorsAreTrue'
  BY <1>1 DEF SignInInv, Typed, SignInErrorsAreTrue, Goes
<1> QED
  BY <1>2, <1>3, <1>4 DEF SignInInv

LEMMA LoginKeeps ==
  ASSUME SignInInv, NEW t \in Tabs, Login(t)
  PROVE  SignInInv'
<1>1. Typed'
  BY DEF SignInInv, Typed, Whys, Login, Goes, Anew
<1>2. LostHasReason'
  BY DEF SignInInv, Typed, Whys, LostHasReason, Login, newState, Goes, Anew, Taken, Linked
<1>3. SignInErrorsAreTrue'
  BY DEF SignInInv, Typed, Whys, SignInErrorsAreTrue, Login, Goes, Anew
<1> QED
  BY <1>1, <1>2, <1>3 DEF SignInInv

LEMMA CallbackKeeps ==
  ASSUME SignInInv, NEW t \in Tabs, Callback(t)
  PROVE  SignInInv'
<1>1. CASE stateOk(t) /\ Goes(t, "identifying", "none") /\ UNCHANGED <<stateCookie, why>>
  BY <1>1 DEF Callback, stateOk, Goes, SignInInv, Typed, LostHasReason, Linked, SignInErrorsAreTrue
<1>2. CASE Returns(t, "state") /\ Cleared(t, "answered")
  BY <1>2, AnswerKeeps DEF Callback, Returns, Whys
<1>3. CASE Returns(t, "state") /\ Cleared(t, "declined")
  BY <1>3, AnswerKeeps DEF Callback, Returns, Whys
<1> QED
  BY <1>1, <1>2, <1>3 DEF Callback

LEMMA RefusedKeeps ==
  ASSUME SignInInv, NEW t \in Tabs, Refused(t)
  PROVE  SignInInv'
<1>1. t \in Linked /\ Cleared(t, "answered") /\ "answered" \in Whys \ {"none"}
      /\ UNCHANGED <<listed, session>>
  BY DEF Refused, Linked, Whys
<1>2. CASE Returns(t, "discord")
  BY <1>1, <1>2, AnswerKeeps DEF Returns
<1>3. CASE Returns(t, "internal")
  BY <1>1, <1>3, AnswerKeeps DEF Returns
<1>4. CASE ~listed /\ Returns(t, "forbidden")
  BY <1>1, <1>4, AnswerKeeps DEF Returns
<1>5. CASE Goes(t, "broken", "none")
  BY <1>1, <1>5, AnswerKeeps
<1> QED
  BY <1>2, <1>3, <1>4, <1>5 DEF Refused, identifyFails, isAllowed

LEMMA SignedInKeeps ==
  ASSUME SignInInv, NEW t \in Tabs, SignedIn(t)
  PROVE  SignInInv'
<1>1. Typed'
  BY DEF SignInInv, Typed, Whys, SignedIn, Goes, Anew
<1>2. LostHasReason'
  BY DEF SignInInv, Typed, Whys, LostHasReason, SignedIn, Goes, Anew, Taken, Linked
<1>3. SignInErrorsAreTrue'
  BY DEF SignInInv, Typed, Whys, SignInErrorsAreTrue, SignedIn, isAllowed, Goes, Anew
<1> QED
  BY <1>1, <1>2, <1>3 DEF SignInInv

(* What the sign-in page says of a failed sign-in is true, and only who is on the
   allowlist has a session. *)
THEOREM Honest == SignInSpec => []SignInErrorsAreTrue
<1>1. SignInInit => SignInInv
  BY DEF SignInInit, SignInInv, Typed, Whys, LostHasReason, Linked, SignInErrorsAreTrue
<1>2. SignInInv /\ [SignInNext]_signIn => SignInInv'
  <2> SUFFICES ASSUME SignInInv, [SignInNext]_signIn
               PROVE  SignInInv'
    OBVIOUS
  <2> USE DEF SignInInv, Typed, LostHasReason, Linked, SignInErrorsAreTrue
  <2>1. ASSUME NEW t \in Tabs, Login(t)
        PROVE  SignInInv'
    BY <2>1, LoginKeeps
  <2>2. ASSUME NEW t \in Tabs, Abandon(t)
        PROVE  SignInInv'
    BY <2>2 DEF Abandon, Returns, Goes, Whys
  <2>3. ASSUME NEW t \in Tabs, Callback(t)
        PROVE  SignInInv'
    BY <2>3, CallbackKeeps
  <2>4. ASSUME NEW t \in Tabs, Refused(t)
        PROVE  SignInInv'
    BY <2>4, RefusedKeeps
  <2>5. ASSUME NEW t \in Tabs, Unanswered(t)
        PROVE  SignInInv'
    BY <2>5 DEF Unanswered, Goes
  <2>6. ASSUME NEW t \in Tabs, SignedIn(t)
        PROVE  SignInInv'
    BY <2>6, SignedInKeeps
  <2>7. ASSUME NEW t \in Tabs, TurnedAway(t) \/ Logout(t)
        PROVE  SignInInv'
    BY <2>7 DEF TurnedAway, Logout, Returns, Goes
  <2>8. CASE StateExpires
    BY <2>8 DEF StateExpires, Taken, Whys
  <2>9. CASE SessionEnds
    BY <2>9 DEF SessionEnds
  <2>10. CASE UNCHANGED signIn
    BY <2>10 DEF signIn
  <2> QED
    BY <2>1, <2>2, <2>3, <2>4, <2>5, <2>6, <2>7, <2>8, <2>9, <2>10 DEF SignInNext
<1>3. SignInInv => SignInErrorsAreTrue
  BY DEF SignInInv
<1> QED
  BY <1>1, <1>2, <1>3, PTL DEF SignInSpec

(* The same of the whole dashboard, whose steps sign in as above or not at all. *)
THEOREM DashboardHonest == Spec => []SignInErrorsAreTrue
<1>1. Init => SignInInit
  BY DEF Init
<1>2. [Next]_vars => [SignInNext]_signIn
  <2> SUFFICES ASSUME [Next]_vars
               PROVE  [SignInNext]_signIn
    OBVIOUS
  <2> USE TabAssumption DEF SignInNext
  <2>1. CASE SigningIn
    BY <2>1 DEF SigningIn, otherTabs
  <2>2. CASE EnterApp
    BY <2>2 DEF EnterApp
  <2>3. CASE Me \/ Reload \/ Others \/ User \/ Timer
    BY <2>3 DEF Me, Reload, Others, User, Timer
  <2>4. CASE Unauthorized
    BY <2>4 DEF Unauthorized
  <2>5. CASE Requests
    BY <2>5 DEF Requests, Serve, Answer, Show, Unauthorized
  <2>6. CASE SignOut
    BY <2>6 DEF SignOut
  <2>7. CASE UNCHANGED vars
    BY <2>7 DEF vars
  <2> QED
    BY <2>1, <2>2, <2>3, <2>4, <2>5, <2>6, <2>7 DEF Next
<1> QED
  BY <1>1, <1>2, Honest, PTL DEF Spec, SignInSpec

-----------------------------------------------------------------------------
(* What the pages show together.  The invariant follows what is on screen back to
   the answers on their way: an older page ends where the present one begins, and a
   job's trace was read after its row. *)

Statuses == JOB_STATUSES \cup {Absent}
Rows == [id : Jobs, status : Statuses]
JobRows == [status : Statuses, cancelRequested : BOOLEAN, at : Nat, events : Nat]
Answers == [rows : Seq(Rows) \cup Seq(JobRows), next : Nat]
Loads ==
  [by : {"effect", "timer", "more", "cancel"}, filter : Filters \cup {"all"}, before : Nat,
   at : {"sent", "row", "answered"}, answer : Answers]

TableOK ==
  /\ status \in [Jobs -> Statuses]
  /\ cancelRequested \in [Jobs -> BOOLEAN]
  /\ events \in [Jobs -> Nat]

ListOK ==
  page = "jobs" =>
    /\ older \in Seq(Rows) /\ nextBefore \in Nat
    /\ \A load \in loads : load.at # "row" /\ load.answer.rows \in Seq(Rows)

PagesOK == TableOK /\ filter \in Filters \cup {"all"} /\ loads \subseteq Loads /\ ListOK

(* Rows that match f, the newest first. *)
Belong(rows, f) ==
  /\ \A n \in DOMAIN rows : matches(rows[n], f)
  /\ \A m, n \in DOMAIN rows : m < n => rows[m].id > rows[n].id

From(rows, b) == \A n \in DOMAIN rows : rows[n].id >= b
Before(rows, b) == \A n \in DOMAIN rows : rows[n].id < b

(* An older page asked for, and what the server says: it ends before `before`, and
   the one after it before `next`. *)
Continues(answer, f, b) ==
  /\ Belong(answer.rows, f) /\ Before(answer.rows, b)
  /\ answer.next # NoJob => answer.next < b /\ From(answer.rows, answer.next)

OlderInv ==
  page = "jobs" /\ ~crossed =>
    /\ Belong(older, filter)
    /\ nextBefore # NoJob => From(older, nextBefore)
    /\ \A a, b \in loads : a.by = "more" /\ b.by = "more" => a = b
    /\ \A load \in loads : load.by = "more" =>
         /\ load.filter = filter /\ load.before # NoJob
         /\ From(older, load.before)
         /\ load.at = "answered" => Continues(load.answer, filter, load.before)

(* One row, of a job whose trace was read later. *)
IsJob(rows) == rows = <<rows[1]>> /\ rows[1] \in JobRows
Covers(rows) == rows[1].at <= rows[1].events

TimelineInv ==
  page = "job" =>
    /\ data.loaded => IsJob(data.rows) /\ Covers(data.rows)
    /\ \A load \in loads : load.at # "sent" =>
         /\ IsJob(load.answer.rows)
         /\ load.answer.rows[1].at <= events[theJob]
         /\ load.at = "answered" => Covers(load.answer.rows)

PagesInv == PagesOK /\ OlderInv /\ TimelineInv

-----------------------------------------------------------------------------
(* listJobsPage: the rows come newest first, before the job that was asked for, and
   `next` is where they end. *)

LEMMA LeastNatural ==
  ASSUME NEW T \in SUBSET Nat, T # {}
  PROVE  \E m \in T : \A k \in T : m <= k
<1>1. IsWellFoundedOn(OpToRel(<, Nat), Nat)
  BY NatLessThanWellFounded
<1> DEFINE R == OpToRel(<, Nat)
<1>2. \A y, x \in Nat : y < x => <<y, x>> \in R
  BY DEF OpToRel
<1>3. IsWellFoundedOn(R, Nat)
  BY <1>1
<1> HIDE DEF R
<1>4. PICK x \in T : \A y \in T : ~ (<<y, x>> \in R)
  BY <1>3, WFMin
<1>5. \A y \in T : ~ (y < x)
  BY <1>2, <1>4
<1>6. \A y \in T : x <= y
  BY <1>5
<1>7. QED
  BY <1>6

Sorts(ids, S) ==
  /\ ids \in [1 .. Cardinality(S) -> S]
  /\ \A m, n \in DOMAIN ids : m < n => ids[m] > ids[n]

(* A finite set of numbers can be sorted: the least one goes last. *)
LEMMA SortedExists ==
  ASSUME NEW S \in SUBSET Nat, IsFiniteSet(S)
  PROVE  \E ids : Sorts(ids, S)
<1> DEFINE Unsorted(n) ==
             \E T \in SUBSET Nat : IsFiniteSet(T) /\ Cardinality(T) = n /\ ~ \E ids : Sorts(ids, T)
           Bad == {n \in Nat : Unsorted(n)}
<1>1. SUFFICES Bad = {}
  <2>1. Cardinality(S) \in Nat
    BY FS_CardinalityType
  <2>2. QED
    BY <2>1
<1>2. SUFFICES ASSUME Bad # {} PROVE FALSE
  OBVIOUS
<1>3. PICK m \in Bad : \A k \in Bad : m <= k
  <2>1. Bad \in SUBSET Nat
    OBVIOUS
  <2> HIDE DEF Bad
  <2>2. QED
    BY <1>2, <2>1, LeastNatural
<1>4. PICK T \in SUBSET Nat : IsFiniteSet(T) /\ Cardinality(T) = m /\ ~ \E ids : Sorts(ids, T)
  BY <1>3
<1>5. T # {}
  <2>1. ASSUME T = {} PROVE FALSE
    <3>1. Cardinality(T) = 0
      BY <2>1, FS_EmptySet
    <3>2. Sorts([n \in 1 .. 0 |-> 0], T)
      BY <3>1 DEF Sorts
    <3>3. QED
      BY <1>4, <3>2
  <2>2. QED
    BY <2>1
<1>6. PICK x \in T : \A k \in T : x <= k
  BY <1>5, LeastNatural
<1> DEFINE U == T \ {x}
<1>7. /\ U \in SUBSET Nat /\ IsFiniteSet(U) /\ Cardinality(U) = m - 1
      /\ m \in Nat /\ m - 1 \in Nat
  <2>1. IsFiniteSet(U) /\ Cardinality(U) = m - 1
    BY <1>4, <1>6, FS_RemoveElement
  <2>2. Cardinality(U) \in Nat
    BY <2>1, FS_CardinalityType
  <2>3. QED
    BY <1>3, <1>4, <2>1, <2>2
<1>8. PICK ids : Sorts(ids, U)
  <2>1. ~Unsorted(m - 1)
    <3>1. m - 1 \notin Bad
      <4> HIDE DEF Bad
      <4>1. ~(m <= m - 1)
        BY <1>7
      <4>2. QED
        BY <1>3, <4>1
    <3>2. QED
      BY <1>7, <3>1
  <2> HIDE DEF U
  <2>2. QED
    BY <1>7, <2>1
<1> DEFINE all == [n \in 1 .. m |-> IF n < m THEN ids[n] ELSE x]
<1>9. /\ \A n \in 1 .. m - 1 : all[n] = ids[n] /\ ids[n] \in T /\ ids[n] # x
      /\ all[m] = x /\ DOMAIN all = 1 .. m /\ DOMAIN ids = 1 .. m - 1
  <2>1. ids \in [1 .. m - 1 -> U]
    BY <1>7, <1>8 DEF Sorts
  <2>2. m \in 1 .. m
    <3>1. m # 0
      BY <1>7
    <3>2. QED
      BY <1>7, <3>1
  <2>3. QED
    BY <1>7, <2>1, <2>2
<1>10. \A k, l \in 1 .. m - 1 : k < l => ids[k] > ids[l]
  BY <1>8, <1>9 DEF Sorts
<1> HIDE DEF all
<1>11. \A n \in 1 .. m : n \in 1 .. m - 1 \/ n = m
  BY <1>7
<1>12. \A n \in 1 .. m : all[n] \in T
  BY <1>6, <1>9, <1>11
<1>13. \A n \in 1 .. m - 1 : all[n] > x
  <2>1. \A k \in T : k \in Nat
    OBVIOUS
  <2>2. \A k \in T : k # x => k > x
    BY <1>6, <2>1
  <2>3. QED
    BY <1>9, <2>2
<1>14. \A k, l \in 1 .. m : k < l => all[k] > all[l]
  <2> SUFFICES ASSUME NEW k \in 1 .. m, NEW l \in 1 .. m, k < l
               PROVE  all[k] > all[l]
    OBVIOUS
  <2>1. k \in 1 .. m - 1
    BY <1>7
  <2>2. CASE l = m
    BY <1>9, <1>13, <2>1, <2>2
  <2>3. CASE l \in 1 .. m - 1
    BY <1>9, <1>10, <2>1, <2>3
  <2>4. QED
    BY <1>11, <2>2, <2>3
<1>15. all \in [1 .. m -> T]
  <2>1. all = [n \in 1 .. m |-> all[n]]
    BY DEF all
  <2>2. QED
    BY <1>12, <2>1
<1>16. Sorts(all, T)
  BY <1>4, <1>9, <1>14, <1>15 DEF Sorts
<1>17. QED
  BY <1>4, <1>16

LEMMA NewestFirst ==
  ASSUME NEW S \in SUBSET Nat, IsFiniteSet(S)
  PROVE  Sorts(newestFirst(S), S)
<1>1. \E ids \in [1 .. Cardinality(S) -> S] : \A m, n \in DOMAIN ids : m < n => ids[m] > ids[n]
  BY SortedExists DEF Sorts
<1>2. QED
  BY <1>1 DEF newestFirst, Sorts

LEMMA ListPage ==
  ASSUME TableOK, NEW f, NEW before \in Nat
  PROVE  LET answer == listJobsPage(f, before)
         IN  /\ answer \in [rows : Seq(Rows), next : Nat]
             /\ before # NoJob => Continues(answer, f, before)
<1> DEFINE found == {j \in Jobs : /\ status[j] # Absent /\ matches(rowOf(j), f)
                                  /\ before = NoJob \/ j < before}
           ids == newestFirst(found)
           all == Cardinality(found)
           size == IF all > pageSize THEN pageSize ELSE all
           rows == [n \in 1 .. size |-> rowOf(ids[n])]
           next == IF all > pageSize THEN ids[pageSize] ELSE NoJob
<1>1. listJobsPage(f, before) = [rows |-> rows, next |-> next]
  BY DEF listJobsPage
<1>2. found \in SUBSET Nat /\ IsFiniteSet(found) /\ found \subseteq Jobs
  <2>1. found \in SUBSET Jobs
    OBVIOUS
  <2> HIDE DEF found
  <2>2. QED
    BY <2>1, PagesAssumption, FS_Subset
<1>3. \A j \in found : matches(rowOf(j), f) /\ (before # NoJob => j < before)
  OBVIOUS
<1> HIDE DEF found
<1>4. all \in Nat
  BY <1>2, FS_CardinalityType
<1>5. /\ ids \in [1 .. all -> found]
      /\ \A m, n \in 1 .. all : m < n => ids[m] > ids[n]
  BY <1>2, NewestFirst DEF Sorts
<1> HIDE DEF ids, all
<1>6. size \in Nat /\ size <= all /\ \A n \in 1 .. size : n \in 1 .. all
  BY <1>4, PagesAssumption
<1>7. all > pageSize => pageSize \in 1 .. all /\ size = pageSize
  BY <1>4, PagesAssumption
<1> HIDE DEF size
<1>8. /\ DOMAIN rows = 1 .. size
      /\ \A n \in 1 .. size :
           /\ rows[n] = rowOf(ids[n]) /\ ids[n] \in found /\ ids[n] \in Jobs
           /\ rows[n].id = ids[n] /\ ids[n] \in Nat
  <2>1. \A n \in 1 .. size : ids[n] \in found /\ ids[n] \in Jobs /\ ids[n] \in Nat
    BY <1>2, <1>5, <1>6
  <2>2. QED
    BY <2>1 DEF rowOf
<1>9. rows \in Seq(Rows)
  <2>1. \A j \in Jobs : rowOf(j) \in Rows
    BY DEF rowOf, Rows, TableOK
  <2>2. \A n \in 1 .. size : rowOf(ids[n]) \in Rows
    BY <1>8, <2>1
  <2>3. QED
    BY <1>6, <2>2
<1> HIDE DEF rows
<1>10. next \in Nat
  BY <1>2, <1>5, <1>7 DEF NoJob
<1>11. next # NoJob => /\ \A n \in 1 .. size : ids[n] >= next
                       /\ next \in found
  <2> SUFFICES ASSUME next # NoJob
               PROVE  (\A n \in 1 .. size : ids[n] >= next) /\ next \in found
    OBVIOUS
  <2>1. all > pageSize /\ next = ids[pageSize] /\ pageSize \in 1 .. all /\ size = pageSize
    BY <1>7
  <2>2. next \in found
    BY <1>5, <2>1
  <2>3. ASSUME NEW n \in 1 .. size PROVE ids[n] >= next
    <3>1. ids[n] \in Nat /\ next \in Nat /\ n \in 1 .. all
      BY <1>6, <1>8, <1>10
    <3>2. CASE n = pageSize
      BY <2>1, <3>1, <3>2
    <3>3. CASE n # pageSize
      <4>1. n < pageSize
        BY <2>1, <3>3
      <4>2. ids[n] > next
        BY <1>5, <2>1, <3>1, <4>1
      <4>3. QED
        BY <3>1, <4>2
    <3>4. QED
      BY <3>2, <3>3
  <2>4. QED
    BY <2>2, <2>3
<1> HIDE DEF next
<1>12. Belong(rows, f)
  BY <1>3, <1>5, <1>6, <1>8 DEF Belong
<1>13. before # NoJob => Before(rows, before)
  BY <1>3, <1>8 DEF Before
<1>14. next # NoJob => From(rows, next)
  BY <1>8, <1>11 DEF From
<1>15. before # NoJob /\ next # NoJob => next < before
  BY <1>3, <1>11
<1>16. QED
  BY <1>1, <1>9, <1>10, <1>12, <1>13, <1>14, <1>15 DEF Continues

(* An older page goes below the ones that are shown. *)
LEMMA PagesJoin ==
  ASSUME NEW s \in Seq(Rows), NEW t \in Seq(Rows), NEW f, NEW b \in Nat, NEW next \in Nat,
         Belong(s, f), From(s, b), Continues([rows |-> t, next |-> next], f, b)
  PROVE  /\ s \o t \in Seq(Rows) /\ Belong(s \o t, f)
         /\ next # NoJob => From(s \o t, next)
<1>1. /\ s \o t \in Seq(Rows) /\ Len(s \o t) = Len(s) + Len(t)
      /\ \A i \in 1 .. Len(s) + Len(t) : (s \o t)[i] = IF i <= Len(s) THEN s[i] ELSE t[i - Len(s)]
  BY ConcatProperties
<1> DEFINE u == s \o t
<1>2. /\ Len(s) \in Nat /\ Len(t) \in Nat
      /\ DOMAIN s = 1 .. Len(s) /\ DOMAIN t = 1 .. Len(t) /\ DOMAIN u = 1 .. Len(s) + Len(t)
  BY <1>1
<1> HIDE DEF u
<1>3. \A i \in DOMAIN u : \/ i \in DOMAIN s /\ u[i] = s[i]
                          \/ i - Len(s) \in DOMAIN t /\ u[i] = t[i - Len(s)] /\ i > Len(s)
  BY <1>1, <1>2 DEF u
<1>4. /\ \A i \in DOMAIN s : s[i].id \in Nat
      /\ \A i \in DOMAIN t : t[i].id \in Nat
  <2>1. (\A i \in DOMAIN s : s[i] \in Rows) /\ (\A i \in DOMAIN t : t[i] \in Rows)
    BY <1>2
  <2>2. QED
    BY <2>1, PagesAssumption DEF Rows
<1>5. /\ Belong(t, f) /\ Before(t, b)
      /\ next # NoJob => next < b /\ From(t, next)
  BY DEF Continues
<1>6. \A i \in DOMAIN u : matches(u[i], f)
  BY <1>3, <1>5 DEF Belong
<1>7. \A i, j \in DOMAIN u : i < j => u[i].id > u[j].id
  <2> SUFFICES ASSUME NEW i \in DOMAIN u, NEW j \in DOMAIN u, i < j
               PROVE  u[i].id > u[j].id
    OBVIOUS
  <2>0. i \in Nat /\ j \in Nat
    BY <1>2
  <2>1. CASE i \in DOMAIN s /\ u[i] = s[i] /\ j \in DOMAIN s /\ u[j] = s[j]
    BY <2>1 DEF Belong
  <2>2. CASE /\ i - Len(s) \in DOMAIN t /\ u[i] = t[i - Len(s)]
             /\ j - Len(s) \in DOMAIN t /\ u[j] = t[j - Len(s)]
    <3>1. i - Len(s) < j - Len(s)
      BY <1>2, <2>0
    <3>2. QED
      BY <1>5, <2>2, <3>1 DEF Belong
  <2>3. CASE i \in DOMAIN s /\ u[i] = s[i] /\ j - Len(s) \in DOMAIN t /\ u[j] = t[j - Len(s)]
    <3>1. s[i].id >= b /\ t[j - Len(s)].id < b
      BY <1>5, <2>3 DEF From, Before
    <3>2. s[i].id \in Nat /\ t[j - Len(s)].id \in Nat
      BY <1>4, <2>3
    <3>3. QED
      BY <2>3, <3>1, <3>2
  <2>4. ~(i > Len(s) /\ j \in DOMAIN s)
    BY <1>2, <2>0
  <2>5. QED
    BY <1>3, <2>1, <2>2, <2>3, <2>4
<1>8. next # NoJob => From(u, next)
  <2> SUFFICES ASSUME next # NoJob, NEW i \in DOMAIN u
               PROVE  u[i].id >= next
    BY DEF From
  <2>1. \A k \in DOMAIN s : s[k].id >= next
    BY <1>4, <1>5 DEF From
  <2>2. \A k \in DOMAIN t : t[k].id >= next
    BY <1>5 DEF From
  <2>3. QED
    BY <1>3, <2>1, <2>2
<1>9. QED
  BY <1>1, <1>6, <1>7, <1>8 DEF u, Belong

-----------------------------------------------------------------------------
(* The steps.  Most of them change the table forward, let a request go, or send one
   that is not for an older page. *)

IsNew(load) == load \in Loads /\ load.at = "sent" /\ load.by # "more" /\ load.answer.rows = <<>>

LEMMA NewLoad ==
  ASSUME NEW by \in {"effect", "timer", "cancel"}, NEW f \in Filters \cup {"all"}
  PROVE  IsNew(Load(by, f, NoJob))
<1>1. [rows |-> <<>>, next |-> NoJob] \in Answers
  BY DEF Answers, NoJob
<1>2. QED
  BY <1>1 DEF Load, Loads, IsNew, NoJob

LEMMA QuietKeeps ==
  ASSUME PagesInv, TableOK', \A j \in Jobs : events'[j] >= events[j],
         UNCHANGED <<page, view>>, \A load \in loads' : load \in loads \/ IsNew(load)
  PROVE  PagesInv'
<1>0. /\ page' = page /\ filter' = filter /\ data' = data /\ older' = older
      /\ nextBefore' = nextBefore /\ crossed' = crossed
  BY DEF view
<1>1. PagesOK'
  <2>1. <<>> \in Seq(Rows)
    OBVIOUS
  <2>2. loads' \subseteq Loads
    BY DEF PagesInv, PagesOK, IsNew
  <2>3. ListOK'
    BY <1>0, <2>1 DEF PagesInv, PagesOK, ListOK, IsNew
  <2>4. QED
    BY <1>0, <2>2, <2>3 DEF PagesInv, PagesOK
<1>2. OlderInv'
  BY <1>0 DEF PagesInv, OlderInv, IsNew
<1>3. TimelineInv'
  <2> SUFFICES ASSUME page = "job"
               PROVE  /\ data.loaded => IsJob(data.rows) /\ Covers(data.rows)
                      /\ \A load \in loads' : load.at # "sent" =>
                           /\ IsJob(load.answer.rows)
                           /\ load.answer.rows[1].at <= events'[theJob]
                           /\ load.at = "answered" => Covers(load.answer.rows)
    BY <1>0 DEF TimelineInv
  <2>1. data.loaded => IsJob(data.rows) /\ Covers(data.rows)
    BY DEF PagesInv, TimelineInv
  <2>2. ASSUME NEW load \in loads', load.at # "sent"
        PROVE  /\ IsJob(load.answer.rows)
               /\ load.answer.rows[1].at <= events'[theJob]
               /\ load.at = "answered" => Covers(load.answer.rows)
    <3>1. load \in loads
      BY <2>2 DEF IsNew
    <3>2. /\ IsJob(load.answer.rows)
          /\ load.answer.rows[1].at <= events[theJob]
          /\ load.at = "answered" => Covers(load.answer.rows)
      BY <2>2, <3>1 DEF PagesInv, TimelineInv
    <3>3. /\ theJob \in Jobs /\ load.answer.rows[1].at \in Nat
          /\ events[theJob] \in Nat /\ events'[theJob] \in Nat
          /\ events'[theJob] >= events[theJob]
      BY <3>2, PagesAssumption DEF IsJob, JobRows, PagesInv, PagesOK, TableOK
    <3>4. QED
      BY <3>2, <3>3
  <2>3. QED
    BY <2>1, <2>2
<1>4. QED
  BY <1>1, <1>2, <1>3 DEF PagesInv

LEMMA MovesForward ==
  ASSUME TableOK, NEW j \in Jobs, NEW to \in JOB_STATUSES, MoveTo(j, to), UNCHANGED cancelRequested
  PROVE  TableOK' /\ \A i \in Jobs : events'[i] >= events[i]
  BY DEF TableOK, MoveTo, Statuses

LEMMA OthersKeep ==
  ASSUME PagesInv, createJob \/ Works
  PROVE  PagesInv'
<1>1. /\ \E j \in Jobs, to \in JOB_STATUSES : MoveTo(j, to)
      /\ UNCHANGED <<cancelRequested, page, view, loads>>
  BY PagesAssumption DEF createJob, Works, JOB_STATUSES
<1>2. TableOK' /\ \A i \in Jobs : events'[i] >= events[i]
  BY <1>1, MovesForward DEF PagesInv, PagesOK
<1>3. QED
  BY <1>1, <1>2, QuietKeeps

LEMMA SameTable ==
  ASSUME PagesInv, UNCHANGED table
  PROVE  TableOK' /\ \A i \in Jobs : events'[i] >= events[i]
<1>1. TableOK
  BY DEF PagesInv, PagesOK
<1>2. \A i \in Jobs : events[i] \in Nat
  BY <1>1 DEF TableOK
<1>3. QED
  BY <1>1, <1>2 DEF TableOK, table

LEMMA CancelKeeps ==
  ASSUME PagesInv, Cancel
  PROVE  PagesInv'
<1>1. theJob \in Jobs /\ TableOK /\ filter \in Filters \cup {"all"}
  BY PagesAssumption DEF PagesInv, PagesOK
<1>2. TableOK' /\ \A i \in Jobs : events'[i] >= events[i]
  <2>1. CASE MoveTo(theJob, "cancelled") /\ UNCHANGED cancelRequested
    BY <1>1, <2>1, MovesForward DEF JOB_STATUSES, TERMINAL_STATUSES
  <2>2. CASE /\ cancelRequested' = [cancelRequested EXCEPT ![theJob] = TRUE]
             /\ UNCHANGED <<status, events>>
    BY <1>1, <2>2 DEF TableOK
  <2>3. CASE UNCHANGED table
    BY <2>3, SameTable
  <2>4. cancelRoute(theJob)
    BY DEF Cancel
  <2>5. QED
    BY <2>1, <2>2, <2>3, <2>4 DEF cancelRoute
<1>3. UNCHANGED <<page, view>> /\ \A load \in loads' : load \in loads \/ IsNew(load)
  BY <1>1, NewLoad DEF Cancel, Starts
<1>4. QED
  BY <1>2, <1>3, QuietKeeps

LEMMA TimerKeeps ==
  ASSUME PagesInv, TimerFires
  PROVE  PagesInv'
<1>1. filter \in Filters \cup {"all"}
  BY DEF PagesInv, PagesOK
<1>2. UNCHANGED <<table, page, view>> /\ \A load \in loads' : load \in loads \/ IsNew(load)
  BY <1>1, NewLoad DEF TimerFires, Starts
<1>3. QED
  BY <1>2, SameTable, QuietKeeps

LEMMA FailKeeps ==
  ASSUME PagesInv, NEW load \in loads, Fail(load)
  PROVE  PagesInv'
  BY SameTable, QuietKeeps DEF Fail

(* A page that is opened knows nothing yet; one that is left shows nothing. *)
LEMMA OpenKeeps ==
  ASSUME PagesInv, NEW where \in {"jobs", "job"}, Open(where)
  PROVE  PagesInv'
<1>1. IsNew(Load("effect", "all", NoJob))
  BY NewLoad
<1>2. TableOK'
  BY SameTable DEF Open
<1>3. <<>> \in Seq(Rows) /\ Nothing.loaded = FALSE /\ NoJob \in Nat
  BY DEF Nothing, NoJob
<1>4. loads' \subseteq Loads /\ \A load \in loads' : load.at = "sent" /\ load.by # "more" /\ load.answer.rows = <<>>
  BY <1>1 DEF Open, IsNew
<1>5. PagesOK'
  BY <1>2, <1>3, <1>4 DEF Open, PagesOK, ListOK
<1>6. OlderInv'
  BY <1>3, <1>4 DEF Open, OlderInv, Belong
<1>7. TimelineInv'
  BY <1>3, <1>4 DEF Open, TimelineInv
<1>8. QED
  BY <1>5, <1>6, <1>7 DEF PagesInv

LEMMA LeaveKeeps ==
  ASSUME PagesInv, NEW where \in {"signed out", "blank", "checking"}, leaveTo(where)
  PROVE  PagesInv'
<1>1. TableOK'
  BY SameTable DEF leaveTo
<1>2. QED
  BY <1>1 DEF leaveTo, PagesInv, PagesOK, ListOK, OlderInv, TimelineInv

(* A new filter: an older page on its way, if any, is remembered by crossed. *)
LEMMA FilterKeeps ==
  ASSUME PagesInv, NEW f \in Filters, SetParam(f)
  PROVE  PagesInv'
<1>1. IsNew(Load("effect", f, NoJob))
  BY NewLoad
<1>2. page = "jobs" /\ loads \subseteq Loads /\ \A load \in loads : load.at # "row" /\ load.answer.rows \in Seq(Rows)
  BY DEF SetParam, PagesInv, PagesOK, ListOK
<1>3. ASSUME NEW load \in loads
      PROVE  LET new == [load EXCEPT !.by = IF @ = "timer" THEN "effect" ELSE @]
             IN  /\ new \in Loads /\ new.at # "row" /\ new.answer.rows \in Seq(Rows)
                 /\ new.by = "more" => load.by = "more"
  <2>1. load \in Loads
    BY <1>2
  <2>2. QED
    BY <1>2, <2>1 DEF Loads
<1>4. \A load \in orphans : /\ load \in Loads /\ load.at # "row" /\ load.answer.rows \in Seq(Rows)
                            /\ load.by = "more" => \E l \in loads : l.by = "more"
  BY <1>3 DEF orphans
<1>5. /\ <<>> \in Seq(Rows) /\ NoJob \in Nat /\ TableOK'
      /\ page' = "jobs" /\ filter' = f /\ older' = <<>> /\ nextBefore' = NoJob
      /\ loads' = orphans \cup {Load("effect", f, NoJob)}
      /\ crossed' = \E load \in loads : load.by = "more"
  BY SameTable DEF NoJob, SetParam
<1>6. \A load \in loads' : /\ load \in Loads /\ load.at # "row" /\ load.answer.rows \in Seq(Rows)
                           /\ load.by = "more" => \E l \in loads : l.by = "more"
  BY <1>1, <1>4, <1>5 DEF IsNew
<1>7. PagesOK'
  BY <1>5, <1>6 DEF PagesOK, ListOK
<1>8. OlderInv'
  BY <1>5, <1>6 DEF OlderInv, Belong
<1>9. TimelineInv'
  BY <1>5 DEF TimelineInv
<1>10. QED
  BY <1>7, <1>8, <1>9 DEF PagesInv

(* Load older: the only such request, unless crossed says otherwise. *)
LEMMA MoreKeeps ==
  ASSUME PagesInv, LoadMore
  PROVE  PagesInv'
<1> DEFINE new == Load("more", filter, nextBefore)
<1>1. /\ page = "jobs" /\ loads \subseteq Loads /\ nextBefore \in Nat /\ filter \in Filters \cup {"all"}
      /\ older \in Seq(Rows)
      /\ \A load \in loads : load.at # "row" /\ load.answer.rows \in Seq(Rows)
  BY DEF LoadMore, PagesInv, PagesOK, ListOK
<1>2. /\ new \in Loads /\ new.at = "sent" /\ new.answer.rows = <<>> /\ <<>> \in Seq(Rows)
      /\ new.filter = filter /\ new.before = nextBefore
  <2>1. [rows |-> <<>>, next |-> NoJob] \in Answers
    BY DEF Answers, NoJob
  <2>2. QED
    BY <1>1, <2>1 DEF Load, Loads
<1>3. /\ UNCHANGED <<page, filter, data, older, nextBefore>> /\ nextBefore # NoJob
      /\ loads' = loads \cup {new}
      /\ crossed' = (crossed \/ \E load \in loads : load.by = "more")
      /\ TableOK'
  BY SameTable DEF LoadMore, Starts
<1> HIDE DEF new
<1>4. PagesOK'
  BY <1>1, <1>2, <1>3 DEF PagesOK, ListOK
<1>5. OlderInv'
  BY <1>1, <1>2, <1>3 DEF PagesInv, OlderInv
<1>6. TimelineInv'
  BY <1>1, <1>3 DEF TimelineInv
<1>7. QED
  BY <1>4, <1>5, <1>6 DEF PagesInv

-----------------------------------------------------------------------------
(* The answers. *)

LEMMA AnswerListKeeps ==
  ASSUME PagesInv, NEW load \in loads, AnswerList(load)
  PROVE  PagesInv'
<1> DEFINE answer == listJobsPage(load.filter, load.before)
           new == [load EXCEPT !.at = "answered", !.answer = answer]
<1>1. /\ page = "jobs" /\ UNCHANGED <<table, page, view>>
      /\ loads' = (loads \ {load}) \cup {new}
      /\ TableOK /\ TableOK'
  BY SameTable DEF AnswerList, PagesInv, PagesOK
<1>2. load \in Loads /\ load.before \in Nat
  BY DEF PagesInv, PagesOK, Loads
<1>3. /\ answer \in [rows : Seq(Rows), next : Nat]
      /\ load.before # NoJob => Continues(answer, load.filter, load.before)
  BY <1>1, <1>2, ListPage
<1> HIDE DEF answer
<1>4. /\ new \in Loads /\ new.at = "answered" /\ new.answer = answer
      /\ new.by = load.by /\ new.filter = load.filter /\ new.before = load.before
  BY <1>2, <1>3 DEF Loads, Answers
<1> HIDE DEF new
<1>5. /\ page' = page /\ filter' = filter /\ older' = older
      /\ nextBefore' = nextBefore /\ crossed' = crossed
  BY <1>1 DEF view
<1>6. PagesOK'
  BY <1>1, <1>3, <1>4, <1>5 DEF PagesInv, PagesOK, ListOK
<1>7. OlderInv'
  BY <1>1, <1>3, <1>4, <1>5 DEF PagesInv, OlderInv
<1>8. TimelineInv'
  BY <1>1 DEF TimelineInv
<1>9. QED
  BY <1>6, <1>7, <1>8 DEF PagesInv

(* On the page of a job, an answer in the making. *)
LEMMA JobAnswerKeeps ==
  ASSUME PagesInv, page = "job", UNCHANGED <<table, page, view>>,
         NEW load \in loads, NEW new \in Loads, loads' = (loads \ {load}) \cup {new},
         IsJob(new.answer.rows), new.answer.rows[1].at <= events[theJob],
         new.at = "answered" => Covers(new.answer.rows)
  PROVE  PagesInv'
<1>1. /\ page' = "job" /\ filter' = filter /\ data' = data /\ events' = events /\ TableOK'
  BY SameTable DEF view, table
<1>2. PagesOK'
  BY <1>1 DEF PagesInv, PagesOK, ListOK
<1>3. OlderInv'
  BY <1>1 DEF OlderInv
<1>4. TimelineInv'
  BY <1>1 DEF PagesInv, TimelineInv
<1>5. QED
  BY <1>2, <1>3, <1>4 DEF PagesInv

LEMMA ReadJobKeeps ==
  ASSUME PagesInv, NEW load \in loads, ReadJob(load)
  PROVE  PagesInv'
<1> DEFINE row == jobOf(theJob)
           new == [load EXCEPT !.at = "row", !.answer.rows = <<row>>]
<1>1. load \in Loads /\ theJob \in Jobs /\ TableOK
  BY PagesAssumption DEF PagesInv, PagesOK
<1>2. row \in JobRows /\ row.at = events[theJob] /\ events[theJob] \in Nat
  BY <1>1 DEF jobOf, JobRows, TableOK
<1> HIDE DEF row
<1>3. <<row>> \in Seq(JobRows) /\ <<row>>[1] = row
  BY <1>2
<1>4. new \in Loads /\ new.at = "row" /\ new.answer.rows = <<row>>
  BY <1>1, <1>3 DEF Loads, Answers
<1>5. page = "job" /\ UNCHANGED <<table, page, view>> /\ loads' = (loads \ {load}) \cup {new}
  BY DEF ReadJob, row
<1> HIDE DEF new
<1>6. IsJob(new.answer.rows) /\ new.answer.rows[1].at <= events[theJob]
  BY <1>2, <1>3, <1>4 DEF IsJob
<1>7. QED
  BY <1>4, <1>5, <1>6, JobAnswerKeeps

(* The trace is read after the row, so it has at least the row's events. *)
LEMMA TraceKeeps ==
  ASSUME PagesInv, NEW load \in loads, getJobTrace(load)
  PROVE  PagesInv'
<1> DEFINE row == [load.answer.rows[1] EXCEPT !.events = events[theJob]]
           new == [load EXCEPT !.at = "answered", !.answer.rows = <<row>>]
<1>1. load \in Loads /\ theJob \in Jobs /\ events[theJob] \in Nat
  BY PagesAssumption DEF PagesInv, PagesOK, TableOK
<1>2. load.answer.rows[1] \in JobRows /\ load.answer.rows[1].at <= events[theJob]
  BY DEF getJobTrace, PagesInv, TimelineInv, IsJob
<1>3. row \in JobRows /\ row.at <= events[theJob] /\ row.events = events[theJob]
  BY <1>1, <1>2 DEF JobRows
<1>4. page = "job" /\ UNCHANGED <<table, page, view>> /\ loads' = (loads \ {load}) \cup {new}
  BY DEF getJobTrace
<1> HIDE DEF row
<1>5. <<row>> \in Seq(JobRows) /\ <<row>>[1] = row
  BY <1>3
<1>6. new \in Loads /\ new.at = "answered" /\ new.answer.rows = <<row>>
  BY <1>1, <1>5 DEF Loads, Answers
<1> HIDE DEF new
<1>7. /\ IsJob(new.answer.rows) /\ new.answer.rows[1].at <= events[theJob]
      /\ Covers(new.answer.rows)
  BY <1>3, <1>5, <1>6 DEF IsJob, Covers
<1>8. QED
  BY <1>4, <1>6, <1>7, JobAnswerKeeps

LEMMA DeliverKeeps ==
  ASSUME PagesInv, NEW load \in loads, Deliver(load)
  PROVE  PagesInv'
<1> DEFINE rows == load.answer.rows
           next == load.answer.next
<1>1. /\ loads' = loads \ {load} /\ page' = page /\ filter' = filter /\ crossed' = crossed
      /\ UNCHANGED table /\ load.at = "answered" /\ TableOK'
  BY SameTable DEF Deliver
<1>2. load \in Loads /\ next \in Nat
  BY DEF PagesInv, PagesOK, Loads, Answers
<1>3. load.by = "more" =>
        older' = older \o rows /\ nextBefore' = next /\ data' = data
  BY DEF Deliver
<1>4. load.by # "more" =>
        /\ data' = [loaded |-> TRUE, rows |-> rows] /\ older' = older
        /\ nextBefore' = IF page = "jobs" /\ older = <<>> THEN next ELSE nextBefore
  BY DEF Deliver
<1> HIDE DEF rows, next
<1>5. page = "jobs" => older \in Seq(Rows) /\ rows \in Seq(Rows) /\ nextBefore \in Nat
  BY DEF PagesInv, PagesOK, ListOK, rows
<1>6. page = "jobs" => older \o rows \in Seq(Rows)
  BY <1>5, ConcatProperties
<1>7. ListOK'
  <2>1. page = "jobs" => older' \in Seq(Rows) /\ nextBefore' \in Nat
    BY <1>2, <1>3, <1>4, <1>5, <1>6
  <2>2. QED
    BY <1>1, <2>1 DEF PagesInv, PagesOK, ListOK
<1>8. PagesOK'
  BY <1>1, <1>7 DEF PagesInv, PagesOK
<1>9. OlderInv'
  <2> SUFFICES ASSUME page = "jobs", ~crossed
               PROVE  OlderInv'
    BY <1>1 DEF OlderInv
  <2>1. CASE load.by = "more"
    <3>1. /\ Belong(older, filter) /\ From(older, load.before)
          /\ load.before # NoJob /\ load.before \in Nat /\ load.filter = filter
          /\ Continues(load.answer, filter, load.before)
          /\ \A l \in loads : l.by = "more" => l = load
      BY <1>1, <1>2, <2>1 DEF PagesInv, OlderInv, Loads
    <3>2. Continues([rows |-> rows, next |-> next], filter, load.before)
      BY <3>1 DEF Continues, rows, next
    <3>3. /\ Belong(older \o rows, filter)
          /\ next # NoJob => From(older \o rows, next)
      BY <1>2, <1>5, <3>1, <3>2, PagesJoin
    <3>4. QED
      BY <1>1, <1>3, <2>1, <3>1, <3>3 DEF OlderInv
  <2>2. CASE load.by # "more"
    <3>1. nextBefore' # NoJob => From(older, nextBefore')
      <4>1. CASE older = <<>>
        BY <4>1 DEF From
      <4>2. CASE older # <<>>
        BY <1>4, <2>2, <4>2 DEF PagesInv, OlderInv
      <4>3. QED
        BY <4>1, <4>2
    <3>2. QED
      BY <1>1, <1>4, <2>2, <3>1 DEF PagesInv, OlderInv
  <2>3. QED
    BY <2>1, <2>2
<1>10. TimelineInv'
  <2> SUFFICES ASSUME page = "job"
               PROVE  TimelineInv'
    BY <1>1 DEF TimelineInv
  <2>1. IsJob(rows) /\ Covers(rows)
    BY <1>1 DEF PagesInv, TimelineInv, rows
  <2>2. data'.loaded => IsJob(data'.rows) /\ Covers(data'.rows)
    BY <1>3, <1>4, <2>1 DEF PagesInv, TimelineInv
  <2>3. events' = events
    BY <1>1 DEF table
  <2>4. QED
    BY <1>1, <2>2, <2>3 DEF PagesInv, TimelineInv
<1>11. QED
  BY <1>8, <1>9, <1>10 DEF PagesInv

-----------------------------------------------------------------------------
(* Whatever overtakes what: a job is shown with the events that led to its status, and
   the older pages that were loaded are of the filter that is set, newest first and none
   twice, unless two of them were asked for at once or the filter changed meanwhile; for
   any jobs, page size and filters. *)
THEOREM ShownTogether == Spec => []ShownFitsTogether
<1>1. Init => PagesInv
  <2> SUFFICES ASSUME Init
               PROVE  PagesInv
    OBVIOUS
  <2>1. TableOK
    BY PagesAssumption DEF Init, TableInit, TableOK, Statuses
  <2>2. QED
    BY <2>1 DEF Init, ViewInit, PagesInv, PagesOK, ListOK, OlderInv, TimelineInv
<1>2. PagesInv /\ [Next]_vars => PagesInv'
  <2> SUFFICES ASSUME PagesInv, [Next]_vars
               PROVE  PagesInv'
    OBVIOUS
  <2>1. CASE UNCHANGED pages
    BY <2>1, SameTable, QuietKeeps DEF pages
  <2>2. CASE EnterApp
    <3>1. page' = "checking" /\ UNCHANGED <<table, view, loads>>
      BY <2>2 DEF EnterApp
    <3>2. TableOK'
      BY <3>1, SameTable
    <3>3. QED
      BY <3>1, <3>2 DEF view, PagesInv, PagesOK, ListOK, OlderInv, TimelineInv
  <2>3. CASE Me
    BY <2>3, OpenKeeps, LeaveKeeps DEF Me
  <2>4. CASE Reload \/ Unauthorized \/ SignOut
    BY <2>4, LeaveKeeps DEF Reload, Unauthorized, SignOut
  <2>5. CASE Others
    BY <2>5, OthersKeep DEF Others
  <2>6. CASE Requests
    BY <2>6, AnswerListKeeps, ReadJobKeeps, TraceKeeps, DeliverKeeps, FailKeeps, LeaveKeeps
       DEF Requests, Serve, Answer, Show, Unauthorized
  <2>7. CASE User
    BY <2>7, OpenKeeps, MoreKeeps, CancelKeeps, FilterKeeps DEF User, Navigate
  <2>8. CASE Timer
    BY <2>8, TimerKeeps DEF Timer
  <2>9. QED
    BY <2>1, <2>2, <2>3, <2>4, <2>5, <2>6, <2>7, <2>8 DEF Next, SigningIn, vars
<1>3. PagesInv => ShownFitsTogether
  BY DEF PagesInv, OlderInv, TimelineInv, Belong, Covers,
         ShownFitsTogether, TimelineCoversStatus, OlderBelong
<1>4. QED
  BY <1>1, <1>2, <1>3, PTL DEF Spec
=============================================================================
