--------------------------- MODULE NotifierProofs ---------------------------
(***************************************************************************)
(* Proofs about Notifier, for any number of jobs, events per tick, lost    *)
(* answers, failing statements and restarts.                               *)
(***************************************************************************)
EXTENDS Notifier, SequenceTheorems, FiniteSetTheorems, WellFoundedInduction, TLAPS

Rows == JOB_STATUSES \cup {Absent}
Entries == [event : Jobs \X Nat, status : Rows, thread : Nat]
Tags == {statusTag(s) : s \in Rows}
Post == [job : Jobs, tag : Tags]

TypeOK ==
  /\ status \in [Jobs -> Rows]
  /\ log \in [Jobs -> Seq(JOB_STATUSES)]
  /\ outbox \in Seq(Jobs \X Nat)
  /\ notified \in SUBSET (Jobs \X Nat)
  /\ thread \in [Jobs -> Nat]
  /\ batch \in Seq(Entries)
  /\ target \in Nat
  /\ DOMAIN task = Jobs
  /\ posts \in Seq(Post)
  /\ results \in [Jobs -> Seq(Rows)]
  /\ faults \in Nat

(* An event of the table lg, and one that tells the end of its job. *)
IsEvent(e, lg) == e \in Jobs \X Nat /\ 1 <= e[2] /\ e[2] <= Len(lg[e[1]])
Final(e, lg, st) == e[2] = Len(lg[e[1]]) /\ isTerminal(st[e[1]])
Last(j) == <<j, Len(log[j])>>

(* The log of a job ends with its status, and nothing in it but the end is final. *)
LogInv ==
  \A j \in Jobs :
    /\ status[j] = Absent <=> log[j] = <<>>
    /\ log[j] # <<>> => log[j][1] = "queued" /\ log[j][Len(log[j])] = status[j]
    /\ \A k \in 1 .. Len(log[j]) : isTerminal(log[j][k]) => k = Len(log[j])

(* Events are written once and in order: where one stands in s, all earlier ones of
   its job stand before it or are in `settled`. *)
InOrder(s, settled, lg) ==
  /\ \A n \in 1 .. Len(s) : IsEvent(s[n], lg)
  /\ \A m, n \in 1 .. Len(s) : s[m] = s[n] => m = n
  /\ \A n \in 1 .. Len(s) : \A k \in 1 .. s[n][2] - 1 :
       <<s[n][1], k>> \in settled \/ \E m \in 1 .. n - 1 : s[m] = <<s[n][1], k>>

OutboxInv ==
  /\ InOrder(outbox, {}, log)
  /\ \A j \in Jobs : \A k \in 1 .. Len(log[j]) : <<j, k>> \in EventsOf(outbox)

NotifiedInv ==
  \A e \in notified : IsEvent(e, log) /\ \A k \in 1 .. e[2] : <<e[1], k>> \in notified

Queue(b) == [n \in 1 .. Len(b) |-> b[n].event]

(* What was fetched with an event is still true where it matters. *)
Current(b, lg, st, th) ==
  \A n \in 1 .. Len(b) :
    LET j == b[n].event[1]
    IN /\ Final(b[n].event, lg, st) => b[n].status = st[j]
       /\ b[n].thread \in {NoThread, th[j]}

(* The batch: events in order that are not settled yet, but for one that was marked
   by a statement whose answer got lost. *)
BatchInv ==
  /\ InOrder(Queue(batch), notified, log)
  /\ Current(batch, log, status, thread)
  /\ \A n \in 1 .. Len(batch) : batch[n].event \notin notified \/ (n = 1 /\ step = "drop")

StepInv ==
  /\ step # "idle" => batch # <<>>
  /\ step \in {"tags", "result", "mark"} => target = thread[Job] /\ target # NoThread
  /\ step = "result" => Final(Event, log, status)
  /\ step \in {"result", "mark"} /\ Final(Event, log, status) => posts[target].tag = tagNamesFor(Job, status[Job])
  /\ step = "mark" /\ Final(Event, log, status) => results[Job] # <<>>

ThreadsInv ==
  \A j \in Jobs :
    /\ thread[j] # NoThread => thread[j] \in DOMAIN posts /\ posts[thread[j]].job = j
    /\ task[j].at \in {"creating", "recording"} => thread[j] = NoThread
    /\ task[j].at = "creating" => task[j].status \in Rows
    /\ task[j].at = "recording" =>
         /\ task[j].thread \in DOMAIN posts
         /\ posts[task[j].thread].job = j

PostsOf(j) == {t \in DOMAIN posts : posts[t].job = j}

(* One thread of a job is free, once its row knows it or is about to. *)
PostsInv ==
  \A j \in Jobs :
    Cardinality(PostsOf(j)) <=
      faults + (IF thread[j] # NoThread \/ task[j].at = "recording" THEN 1 ELSE 0)

(* And one result, once its event is settled or is about to be. *)
ResultsInv ==
  \A j \in Jobs :
    /\ results[j] # <<>> =>
         isTerminal(status[j]) /\ \A k \in 1 .. Len(log[j]) - 1 : <<j, k>> \in notified
    /\ \A n \in 1 .. Len(results[j]) : results[j][n] = status[j]
    /\ Len(results[j]) <=
         faults + (IF Last(j) \in notified \/ (step = "mark" /\ Event = Last(j)) THEN 1 ELSE 0)

ShownInv ==
  \A j \in Jobs : isTerminal(status[j]) /\ Last(j) \in notified \ dropped =>
    /\ results[j] # <<>>
    /\ thread[j] # NoThread
    /\ posts[thread[j]].tag = tagNamesFor(j, status[j])

IInv ==
  /\ TypeOK /\ LogInv /\ OutboxInv /\ NotifiedInv
  /\ BatchInv /\ StepInv
  /\ ThreadsInv /\ PostsInv /\ ResultsInv /\ ShownInv

-----------------------------------------------------------------------------
(* Only: what a filter keeps.  The least counterexample stands for induction. *)

LEMMA LeastNatural ==
  ASSUME NEW T \in SUBSET Nat, T # {}
  PROVE  \E m \in T : \A k \in T : m <= k
<1>1. IsWellFoundedOn(OpToRel(<, Nat), Nat)
  BY NatLessThanWellFounded
<1> DEFINE R == OpToRel(<, Nat)
<1>2. \A y, x \in Nat : y < x => <<y, x>> \in R
  BY DEF OpToRel
<1>3. IsWellFoundedOn(R, Nat)
  BY <1>1
<1> HIDE DEF R
<1>4. PICK x \in T : \A y \in T : ~ (<<y, x>> \in R)
  BY <1>3, WFMin
<1>5. \A y \in T : ~ (y < x)
  BY <1>2, <1>4
<1>6. \A y \in T : x <= y
  BY <1>5
<1>7. QED
  BY <1>6

(* f holds what is kept of the first n elements of s, for each n up to `upto`. *)
Keeps(s, T, upto, f) ==
  f = [n \in 0 .. upto |->
         IF n = 0 THEN <<>>
         ELSE IF s[n] \in T THEN Append(f[n - 1], s[n]) ELSE f[n - 1]]

LEMMA KeepsExists ==
  ASSUME NEW s, NEW T, NEW upto \in Nat
  PROVE  \E f : Keeps(s, T, upto, f)
<1> DEFINE Bad == {n \in Nat : ~ \E f : Keeps(s, T, n, f)}
<1>1. SUFFICES Bad = {}
  OBVIOUS
<1>2. SUFFICES ASSUME Bad # {} PROVE FALSE
  OBVIOUS
<1>3. PICK m \in Bad : \A k \in Bad : m <= k
  BY <1>2, LeastNatural
<1>4. CASE m = 0
  <2>1. Keeps(s, T, 0, [n \in 0 .. 0 |-> <<>>])
    BY DEF Keeps
  <2>2. QED
    BY <1>3, <1>4, <2>1
<1>5. CASE m # 0
  <2>1. m - 1 \in Nat /\ m - 1 \notin Bad
    BY <1>3, <1>5
  <2>2. PICK f : Keeps(s, T, m - 1, f)
    BY <2>1
  <2> DEFINE g == [n \in 0 .. m |->
                     IF n < m THEN f[n]
                     ELSE IF s[m] \in T THEN Append(f[m - 1], s[m]) ELSE f[m - 1]]
  <2>3. \A n \in 0 .. m : n # 0 => g[n - 1] = f[n - 1]
    BY <1>3
  <2>4. f[0] = <<>>
    BY <2>1, <2>2 DEF Keeps
  <2>5. \A n \in 0 .. m - 1 :
          n # 0 => f[n] = IF s[n] \in T THEN Append(f[n - 1], s[n]) ELSE f[n - 1]
    BY <2>1, <2>2 DEF Keeps
  <2>6. \A n \in 0 .. m :
          g[n] = IF n = 0 THEN <<>>
                 ELSE IF s[n] \in T THEN Append(g[n - 1], s[n]) ELSE g[n - 1]
    BY <1>3, <1>5, <2>3, <2>4, <2>5
  <2>7. g = [n \in 0 .. m |-> g[n]]
    OBVIOUS
  <2> HIDE DEF g
  <2>8. Keeps(s, T, m, g)
    BY <2>6, <2>7 DEF Keeps
  <2>9. QED
    BY <1>3, <2>8
<1>6. QED
  BY <1>4, <1>5

Stepwise(s, T, upto, f) ==
  /\ f[0] = <<>>
  /\ \A n \in 1 .. upto :
       f[n] = IF s[n] \in T THEN Append(f[n - 1], s[n]) ELSE f[n - 1]

LEMMA KeepsAt ==
  ASSUME NEW s, NEW T, NEW upto \in Nat, NEW f, Keeps(s, T, upto, f)
  PROVE  Stepwise(s, T, upto, f)
<1> DEFINE Then(n) == IF n = 0 THEN <<>>
                      ELSE IF s[n] \in T THEN Append(f[n - 1], s[n]) ELSE f[n - 1]
<1>0. f = [n \in 0 .. upto |-> Then(n)]
  BY DEF Keeps
<1> HIDE DEF Then
<1>1. \A n \in 0 .. upto : f[n] = Then(n)
  BY <1>0
<1> USE DEF Then
<1>2. 0 \in 0 .. upto /\ \A n \in 1 .. upto : n \in 0 .. upto /\ n # 0
  OBVIOUS
<1>3. QED
  BY <1>1, <1>2 DEF Stepwise

(* u is what s has of T up to n, and place says where. *)
Embeds(u, s, T, n, place) ==
  /\ place \in [1 .. Len(u) -> 1 .. n]
  /\ \A m \in 1 .. Len(u) : u[m] = s[place[m]] /\ s[place[m]] \in T
  /\ \A l, m \in 1 .. Len(u) : l < m => place[l] < place[m]
  /\ \A k \in 1 .. n : s[k] \in T => \E m \in 1 .. Len(u) : place[m] = k

LEMMA EmbedsMore ==
  ASSUME NEW S, NEW s \in Seq(S), NEW T, NEW n \in Nat, n + 1 <= Len(s),
         NEW u \in Seq(S), NEW place, Embeds(u, s, T, n, place)
  PROVE  LET v == IF s[n + 1] \in T THEN Append(u, s[n + 1]) ELSE u
         IN v \in Seq(S) /\ \E p : Embeds(v, s, T, n + 1, p)
<1>1. s[n + 1] \in S
  OBVIOUS
<1>2. CASE s[n + 1] \notin T
  <2>1. Embeds(u, s, T, n + 1, place)
    BY <1>2 DEF Embeds
  <2>2. QED
    BY <1>2, <2>1
<1>3. CASE s[n + 1] \in T
  <2> DEFINE v == Append(u, s[n + 1])
             p == [m \in 1 .. Len(u) + 1 |-> IF m <= Len(u) THEN place[m] ELSE n + 1]
  <2>1. /\ v \in Seq(S) /\ Len(v) = Len(u) + 1 /\ v[Len(u) + 1] = s[n + 1]
        /\ \A m \in 1 .. Len(u) : v[m] = u[m]
    BY <1>1, AppendProperties
  <2>2. Len(u) \in Nat
    OBVIOUS
  <2>p. \A m \in 1 .. Len(u) : place[m] \in 1 .. n
    BY DEF Embeds
  <2>3. /\ \A m \in 1 .. Len(u) : p[m] = place[m] /\ place[m] \in 1 .. n
        /\ p[Len(u) + 1] = n + 1
        /\ DOMAIN p = 1 .. Len(u) + 1
    BY <2>2, <2>p
  <2> HIDE DEF v
  <2>4. p \in [1 .. Len(v) -> 1 .. n + 1]
    BY <2>1, <2>2 DEF Embeds
  <2> HIDE DEF p
  <2>5. \A m \in 1 .. Len(v) : m \in 1 .. Len(u) \/ m = Len(u) + 1
    BY <2>1, <2>2
  <2>6. \A m \in 1 .. Len(v) : v[m] = s[p[m]] /\ s[p[m]] \in T
    BY <1>3, <2>1, <2>3, <2>5 DEF Embeds
  <2>7. \A l, m \in 1 .. Len(v) : l < m => p[l] < p[m]
    BY <2>1, <2>2, <2>3, <2>5 DEF Embeds
  <2>8. \A k \in 1 .. n + 1 : s[k] \in T => \E m \in 1 .. Len(v) : p[m] = k
    <3> SUFFICES ASSUME NEW k \in 1 .. n + 1, s[k] \in T
                 PROVE  \E m \in 1 .. Len(v) : p[m] = k
      OBVIOUS
    <3>1. CASE k = n + 1
      BY <2>1, <2>2, <2>3, <3>1
    <3>2. CASE k \in 1 .. n
      <4>1. PICK m \in 1 .. Len(u) : place[m] = k
        BY <3>2 DEF Embeds
      <4>2. QED
        BY <2>1, <2>2, <2>3, <4>1
    <3>3. QED
      BY <3>1, <3>2
  <2>9. Embeds(v, s, T, n + 1, p)
    BY <2>4, <2>6, <2>7, <2>8 DEF Embeds
  <2>10. QED
    BY <1>3, <2>1, <2>9 DEF v
<1>4. QED
  BY <1>2, <1>3

LEMMA OnlyKeeps ==
  ASSUME NEW S, NEW s \in Seq(S), NEW T
  PROVE  Only(s, T) \in Seq(S) /\ \E place : Embeds(Only(s, T), s, T, Len(s), place)
<1>0. Len(s) \in Nat
  OBVIOUS
<1>1. PICK f : Keeps(s, T, Len(s), f) /\ Only(s, T) = f[Len(s)]
  <2>1. Only(s, T) = (CHOOSE f : Keeps(s, T, Len(s), f))[Len(s)]
    BY DEF Only, Keeps
  <2>2. QED
    BY <1>0, <2>1, KeepsExists
<1>2. /\ f[0] = <<>>
      /\ \A n \in 1 .. Len(s) :
           f[n] = IF s[n] \in T THEN Append(f[n - 1], s[n]) ELSE f[n - 1]
  <2>1. Stepwise(s, T, Len(s), f)
    BY <1>0, <1>1, KeepsAt
  <2>2. QED
    BY <2>1 DEF Stepwise
<1> DEFINE Good(n) == f[n] \in Seq(S) /\ \E place : Embeds(f[n], s, T, n, place)
           Bad == {n \in 0 .. Len(s) : ~Good(n)}
<1>3. SUFFICES Bad = {}
  BY <1>0, <1>1
<1>4. SUFFICES ASSUME Bad # {} PROVE FALSE
  OBVIOUS
<1>5. PICK m \in Bad : \A k \in Bad : m <= k
  <2>1. Bad \in SUBSET Nat
    BY <1>0
  <2> HIDE DEF Bad
  <2>2. QED
    BY <1>4, <2>1, LeastNatural
<1>6. Good(0)
  <2>1. Embeds(<<>>, s, T, 0, [l \in 1 .. 0 |-> 0])
    BY DEF Embeds
  <2>2. QED
    BY <1>2, <2>1
<1>7. m \in 1 .. Len(s) /\ m - 1 \in Nat /\ Good(m - 1)
  <2>1. m \in 0 .. Len(s) /\ ~Good(m) /\ \A k \in 0 .. Len(s) : ~Good(k) => m <= k
    BY <1>5
  <2> HIDE DEF Good, Bad
  <2>2. m # 0
    BY <1>6, <2>1
  <2>3. m \in 1 .. Len(s) /\ m - 1 \in 0 .. Len(s) /\ m - 1 \in Nat /\ ~(m <= m - 1)
    BY <1>0, <2>1, <2>2
  <2>4. QED
    BY <2>1, <2>3
<1>8. Good((m - 1) + 1)
  <2>1. /\ f[m - 1] \in Seq(S) /\ m - 1 \in Nat /\ (m - 1) + 1 <= Len(s)
        /\ \E place : Embeds(f[m - 1], s, T, m - 1, place)
        /\ (m - 1) + 1 = m
    BY <1>0, <1>7
  <2>2. f[m] = IF s[m] \in T THEN Append(f[m - 1], s[m]) ELSE f[m - 1]
    BY <1>2, <1>7
  <2> HIDE DEF Good, Bad
  <2>3. LET v == IF s[(m - 1) + 1] \in T THEN Append(f[m - 1], s[(m - 1) + 1]) ELSE f[m - 1]
        IN v \in Seq(S) /\ \E p : Embeds(v, s, T, (m - 1) + 1, p)
    BY <2>1, EmbedsMore
  <2>4. QED
    BY <2>1, <2>2, <2>3 DEF Good
<1>9. ~Good(m) /\ (m - 1) + 1 = m
  BY <1>0, <1>5
<1>10. QED
  BY <1>8, <1>9

-----------------------------------------------------------------------------
(* The order of events. *)

(* A part u of s keeps the order if whatever is left out of it is settled, or of
   another job. *)
IsPart(u, s, A, B, place) ==
  /\ place \in [1 .. Len(u) -> 1 .. Len(s)]
  /\ \A l, m \in 1 .. Len(u) : l < m => place[l] < place[m]
  /\ \A m \in 1 .. Len(u) : u[m] = s[place[m]]
  /\ \A m \in 1 .. Len(u) : \A k \in Nat : <<u[m][1], k>> \in A => <<u[m][1], k>> \in B
  /\ \A m \in 1 .. Len(u) : \A i \in 1 .. Len(s) :
       i < place[m] /\ s[i][1] = u[m][1] => s[i] \in B \/ \E l \in 1 .. Len(u) : place[l] = i

LEMMA PartInOrder ==
  ASSUME NEW lg, NEW A, NEW B, NEW s \in Seq(Jobs \X Nat), NEW u \in Seq(Jobs \X Nat),
         InOrder(s, A, lg), NEW place, IsPart(u, s, A, B, place)
  PROVE  InOrder(u, B, lg)
<1> USE DEF IsPart
<1>0. Len(s) \in Nat /\ Len(u) \in Nat
  OBVIOUS
<1>1. \A m \in 1 .. Len(u) : IsEvent(u[m], lg)
  BY DEF InOrder
<1>2. ASSUME NEW l \in 1 .. Len(u), NEW m \in 1 .. Len(u), u[l] = u[m] PROVE l = m
  <2>i. /\ \A i, j \in 1 .. Len(s) : s[i] = s[j] => i = j
        /\ place[l] \in 1 .. Len(s) /\ place[m] \in 1 .. Len(s)
    BY DEF InOrder
  <2>1. place[l] = place[m]
    BY <1>2, <2>i
  <2>2. l < m \/ m < l \/ l = m
    BY <1>0
  <2>3. place[l] \in Nat /\ place[m] \in Nat
    BY <1>0, <2>i
  <2>4. QED
    BY <2>1, <2>2, <2>3
<1>3. ASSUME NEW m \in 1 .. Len(u), NEW k \in 1 .. u[m][2] - 1
      PROVE  <<u[m][1], k>> \in B \/ \E l \in 1 .. m - 1 : u[l] = <<u[m][1], k>>
  <2>1. place[m] \in 1 .. Len(s) /\ u[m] = s[place[m]] /\ k \in Nat
    BY <1>0
  <2>2. CASE <<u[m][1], k>> \in A
    BY <2>1, <2>2
  <2>3. ASSUME NEW i \in 1 .. place[m] - 1, s[i] = <<u[m][1], k>>
        PROVE  <<u[m][1], k>> \in B \/ \E l \in 1 .. m - 1 : u[l] = <<u[m][1], k>>
    <3>1. i \in 1 .. Len(s) /\ i < place[m]
      BY <1>0, <2>1
    <3>2. s[i][1] = u[m][1]
      BY <2>3
    <3>3. s[i] \in B \/ \E l \in 1 .. Len(u) : place[l] = i
      BY <3>1, <3>2
    <3>4. ASSUME NEW l \in 1 .. Len(u), place[l] = i PROVE l \in 1 .. m - 1 /\ u[l] = s[i]
      <4>0. \A a, b \in 1 .. Len(u) : a < b => place[a] < place[b]
        OBVIOUS
      <4>1. ~ (m < l) /\ l # m
        <5> HIDE DEF IsPart
        <5>1. place[m] \in Nat /\ i \in Nat /\ i < place[m]
          BY <1>0, <2>1, <3>1
        <5>2. ~ (place[m] < place[l]) /\ place[l] # place[m]
          BY <3>4, <5>1
        <5>3. QED
          BY <4>0, <5>2
      <4>2. QED
        BY <1>0, <3>4, <4>1
    <3>5. QED
      BY <2>3, <3>3, <3>4
  <2>4. \A n \in 1 .. Len(s) : \A i \in 1 .. s[n][2] - 1 :
          <<s[n][1], i>> \in A \/ \E l \in 1 .. n - 1 : s[l] = <<s[n][1], i>>
    BY DEF InOrder
  <2>5. k \in 1 .. s[place[m]][2] - 1
    BY <2>1
  <2>6. <<u[m][1], k>> \in A \/ \E l \in 1 .. place[m] - 1 : s[l] = <<u[m][1], k>>
    <3> DEFINE n == place[m]
    <3>1. n \in 1 .. Len(s) /\ k \in 1 .. s[n][2] - 1 /\ u[m] = s[n]
      BY <2>1, <2>5
    <3> HIDE DEF n
    <3>2. <<s[n][1], k>> \in A \/ \E l \in 1 .. n - 1 : s[l] = <<s[n][1], k>>
      BY <2>4, <3>1
    <3>3. QED
      BY <3>1, <3>2 DEF n
  <2>7. QED
    BY <2>2, <2>3, <2>6
<1>4. QED
  BY <1>1, <1>2, <1>3 DEF InOrder

LEMMA FinalIs ==
  ASSUME TypeOK, LogInv, NEW e, IsEvent(e, log)
  PROVE  /\ e[1] \in Jobs /\ e[2] \in Nat \ {0} /\ e = <<e[1], e[2]>>
         /\ Final(e, log, status) <=> isTerminal(statusFromEvent(e))
         /\ Final(e, log, status) <=> e = Last(e[1]) /\ isTerminal(status[e[1]])
<1>1. /\ e[1] \in Jobs /\ e[2] \in Nat \ {0} /\ e = <<e[1], e[2]>>
      /\ 1 <= e[2] /\ e[2] <= Len(log[e[1]])
  BY DEF IsEvent
<1>2. /\ log[e[1]] \in Seq(JOB_STATUSES) /\ log[e[1]] # <<>>
      /\ Len(log[e[1]]) \in Nat
  <2>1. log[e[1]] \in Seq(JOB_STATUSES)
    BY <1>1 DEF TypeOK
  <2>2. QED
    BY <1>1, <2>1
<1>3. /\ log[e[1]][1] = "queued" /\ log[e[1]][Len(log[e[1]])] = status[e[1]]
      /\ \A k \in 1 .. Len(log[e[1]]) : isTerminal(log[e[1]][k]) => k = Len(log[e[1]])
  BY <1>1, <1>2 DEF LogInv
<1>4. ~isTerminal("queued") /\ ~isTerminal(Absent)
  BY DEF isTerminal, TERMINAL_STATUSES, Absent
<1>5. e = Last(e[1]) <=> e[2] = Len(log[e[1]])
  BY <1>1 DEF Last
<1>6. CASE e[2] = 1
  BY <1>1, <1>2, <1>3, <1>4, <1>5, <1>6 DEF Final, statusFromEvent
<1>7. CASE e[2] # 1
  <2>1. statusFromEvent(e) = log[e[1]][e[2]] /\ e[2] \in 1 .. Len(log[e[1]])
    BY <1>1, <1>2, <1>7 DEF statusFromEvent
  <2>2. QED
    BY <1>1, <1>3, <1>5, <2>1 DEF Final
<1>8. QED
  BY <1>1, <1>6, <1>7

(* The first of the pending events. *)
LEMMA HeadFacts ==
  ASSUME IInv, batch # <<>>
  PROVE  /\ Len(batch) \in Nat \ {0}
         /\ Head(batch) = batch[1] /\ Event = batch[1].event
         /\ IsEvent(Event, log) /\ Job \in Jobs /\ Event[2] \in Nat \ {0}
         /\ Event = <<Job, Event[2]>>
         /\ Final(Event, log, status) <=> isTerminal(statusFromEvent(Event))
         /\ Final(Event, log, status) <=> Event = Last(Job) /\ isTerminal(status[Job])
         /\ Final(Event, log, status) => Head(batch).status = status[Job]
         /\ step # "drop" => Event \notin notified
         /\ \A k \in 1 .. Event[2] - 1 : <<Job, k>> \in notified
         /\ Head(batch).thread \in {NoThread, thread[Job]}
         /\ Head(batch).status \in Rows
<1>1. batch \in Seq(Entries) /\ TypeOK /\ LogInv
  BY DEF IInv, TypeOK
<1>2. Len(batch) \in Nat \ {0} /\ Head(batch) = batch[1] /\ 1 \in 1 .. Len(batch)
  BY <1>1
<1>3. Event = batch[1].event /\ batch[1] \in Entries
  BY <1>1, <1>2 DEF Event
<1>4. /\ Len(Queue(batch)) = Len(batch) /\ Queue(batch)[1] = Event
  BY <1>2, <1>3 DEF Queue
<1>5. IsEvent(Event, log)
  BY <1>2, <1>4 DEF IInv, BatchInv, InOrder
<1>6. /\ Job \in Jobs /\ Event[2] \in Nat \ {0} /\ Event = <<Job, Event[2]>>
      /\ Final(Event, log, status) <=> isTerminal(statusFromEvent(Event))
      /\ Final(Event, log, status) <=> Event = Last(Job) /\ isTerminal(status[Job])
  BY <1>1, <1>5, FinalIs DEF Job
<1>7. /\ Final(Event, log, status) => batch[1].status = status[Job]
      /\ batch[1].thread \in {NoThread, thread[Job]}
  BY <1>2, <1>3 DEF IInv, BatchInv, Current, Job
<1>8. step # "drop" => Event \notin notified
  BY <1>2, <1>3 DEF IInv, BatchInv
<1>9. \A k \in 1 .. Event[2] - 1 : <<Job, k>> \in notified
  BY <1>2, <1>4 DEF IInv, BatchInv, InOrder, Job
<1>10. batch[1].status \in Rows
  BY <1>3 DEF Entries
<1>11. QED
  BY <1>2, <1>3, <1>5, <1>6, <1>7, <1>8, <1>9, <1>10

-----------------------------------------------------------------------------
(* Moves of the table: one job that is not over yet gets one more event. *)

Written(j, to) ==
  /\ ~isTerminal(status[j])
  /\ log[j] = <<>> => to = "queued"
  /\ status' = [status EXCEPT ![j] = to]
  /\ log' = [log EXCEPT ![j] = Append(log[j], to)]
  /\ outbox' = Append(outbox, <<j, Len(log[j]) + 1>>)

LEMMA TableWrites ==
  ASSUME TypeOK, LogInv, TableMoves
  PROVE  /\ \E j \in Jobs, to \in JOB_STATUSES :
              Written(j, to) /\ \A k \in Jobs : k # j => (k \in red' <=> k \in red)
         /\ UNCHANGED <<notified, thread, batch, step, target, task, posts, results, dropped,
                        faults>>
<1>1. UNCHANGED <<notified, thread, batch, step, target, task, posts, results, dropped, faults>>
  BY DEF TableMoves, bot, discord
<1>2. PICK j \in Jobs :
        /\ \/ Table!Create(j)
           \/ \E w \in Workers : Table!Claim(j, w)
           \/ \E to \in JOB_STATUSES : Table!Advance(j, to)
        /\ outbox' = Append(outbox, <<j, Len(log'[j])>>)
        /\ red' = red \/ red' = red \cup {j}
  BY DEF TableMoves
<1>3. /\ log[j] \in Seq(JOB_STATUSES) /\ Len(log[j]) \in Nat /\ j \in DOMAIN log
      /\ status[j] = Absent <=> log[j] = <<>>
  BY DEF TypeOK, LogInv
<1>4. ASSUME NEW to \in JOB_STATUSES, ~isTerminal(status[j]), log[j] = <<>> => to = "queued",
             status' = [status EXCEPT ![j] = to],
             log' = [log EXCEPT ![j] = Append(log[j], to)]
      PROVE  Written(j, to) /\ \A k \in Jobs : k # j => (k \in red' <=> k \in red)
  <2>1. Len(log'[j]) = Len(log[j]) + 1
    BY <1>3, <1>4
  <2>2. QED
    BY <1>2, <1>4, <2>1 DEF Written
<1>5. CASE Table!Create(j)
  <2>1. /\ status[j] = Absent /\ status' = [status EXCEPT ![j] = "queued"]
        /\ log' = [log EXCEPT ![j] = <<"queued">>]
    BY <1>5 DEF Table!Create, Table!Absent, Absent
  <2>2. log[j] = <<>> /\ Append(log[j], "queued") = <<"queued">>
    BY <1>3, <2>1
  <2>3. "queued" \in JOB_STATUSES /\ ~isTerminal(status[j])
    BY <2>1 DEF JOB_STATUSES, isTerminal, TERMINAL_STATUSES, Absent
  <2>4. QED
    BY <1>1, <1>4, <2>1, <2>2, <2>3
<1>6. ASSUME NEW to \in JOB_STATUSES, Table!MoveTo(j, to)
      PROVE  Written(j, to) /\ \A k \in Jobs : k # j => (k \in red' <=> k \in red)
  <2>1. /\ canTransition(status[j], to) /\ status' = [status EXCEPT ![j] = to]
        /\ log' = [log EXCEPT ![j] = Append(log[j], to)]
    BY <1>6 DEF Table!MoveTo, Table!canTransition, Table!TRANSITIONS, canTransition, TRANSITIONS
  <2>2. ~isTerminal(status[j]) /\ status[j] # Absent
    BY <2>1 DEF canTransition, TRANSITIONS, isTerminal, TERMINAL_STATUSES, Absent
  <2>3. QED
    BY <1>3, <1>4, <2>1, <2>2
<1>7. CASE \E w \in Workers : Table!Claim(j, w)
  <2>1. Table!MoveTo(j, "preparing")
    BY <1>7 DEF Table!Claim
  <2>2. "preparing" \in JOB_STATUSES
    BY DEF JOB_STATUSES, ACTIVE_STATUSES
  <2>3. QED
    BY <1>1, <1>6, <2>1, <2>2
<1>8. CASE \E to \in JOB_STATUSES : Table!Advance(j, to)
  BY <1>1, <1>6, <1>8 DEF Table!Advance
<1>9. QED
  BY <1>1, <1>2, <1>5, <1>7, <1>8

(* What a move leaves as it was: the events there are, and all about a job that is over. *)
LEMMA WrittenKeeps ==
  ASSUME TypeOK, LogInv, NEW i \in Jobs, NEW to \in JOB_STATUSES, Written(i, to)
  PROVE  /\ log' \in [Jobs -> Seq(JOB_STATUSES)] /\ status' \in [Jobs -> Rows]
         /\ \A j \in Jobs : j # i => log'[j] = log[j] /\ status'[j] = status[j]
         /\ log'[i] = Append(log[i], to) /\ status'[i] = to
         /\ Len(log[i]) \in Nat /\ Len(log'[i]) = Len(log[i]) + 1
         /\ \A j \in Jobs : isTerminal(status[j]) =>
              j # i /\ log'[j] = log[j] /\ status'[j] = status[j]
         /\ \A e : IsEvent(e, log) => IsEvent(e, log')
         /\ \A e : IsEvent(e, log) => (Final(e, log', status') <=> Final(e, log, status))
<1>1. /\ log[i] \in Seq(JOB_STATUSES) /\ Len(log[i]) \in Nat
      /\ log' = [log EXCEPT ![i] = Append(log[i], to)]
      /\ status' = [status EXCEPT ![i] = to]
      /\ ~isTerminal(status[i]) /\ i \in DOMAIN log /\ i \in DOMAIN status
  BY DEF TypeOK, Written
<1>2. /\ log'[i] = Append(log[i], to) /\ Len(log'[i]) = Len(log[i]) + 1
      /\ log' \in [Jobs -> Seq(JOB_STATUSES)] /\ status' \in [Jobs -> Rows] /\ status'[i] = to
      /\ \A j \in Jobs : j # i => log'[j] = log[j] /\ status'[j] = status[j]
  <2>1. Append(log[i], to) \in Seq(JOB_STATUSES) /\ Len(Append(log[i], to)) = Len(log[i]) + 1
    BY <1>1
  <2>2. QED
    BY <1>1, <2>1 DEF TypeOK, Rows
<1>3. \A j \in Jobs : isTerminal(status[j]) => j # i
  BY <1>1
<1>4. ASSUME NEW e, IsEvent(e, log)
      PROVE  IsEvent(e, log') /\ (Final(e, log', status') <=> Final(e, log, status))
  <2>1. e[1] \in Jobs /\ e[2] \in Nat /\ e[2] <= Len(log[e[1]])
    BY <1>4 DEF IsEvent
  <2>2. CASE e[1] = i
    BY <1>1, <1>2, <1>4, <2>1, <2>2 DEF IsEvent, Final
  <2>3. CASE e[1] # i
    BY <1>2, <1>4, <2>1, <2>3 DEF IsEvent, Final
  <2>4. QED
    BY <2>2, <2>3
<1>5. QED
  BY <1>1, <1>2, <1>3, <1>4

LEMMA EventsOfAppend ==
  ASSUME NEW S, NEW s \in Seq(S), NEW e
  PROVE  EventsOf(Append(s, e)) = EventsOf(s) \cup {e}
<1>1. /\ Len(s) \in Nat /\ DOMAIN s = 1 .. Len(s)
      /\ DOMAIN Append(s, e) = 1 .. Len(s) + 1
      /\ \A n \in 1 .. Len(s) : Append(s, e)[n] = s[n]
      /\ Append(s, e)[Len(s) + 1] = e
  OBVIOUS
<1>2. \A n \in 1 .. Len(s) + 1 : n \in 1 .. Len(s) \/ n = Len(s) + 1
  BY <1>1
<1>3. Len(s) + 1 \in 1 .. Len(s) + 1 /\ \A n \in 1 .. Len(s) : n \in 1 .. Len(s) + 1
  BY <1>1
<1>4. QED
  BY <1>1, <1>2, <1>3 DEF EventsOf

LEMMA WrittenKeepsLog ==
  ASSUME TypeOK, LogInv, OutboxInv, NEW i \in Jobs, NEW to \in JOB_STATUSES, Written(i, to)
  PROVE  LogInv' /\ OutboxInv' /\ outbox' \in Seq(Jobs \X Nat)
<1> DEFINE new == <<i, Len(log[i]) + 1>>
<1>1. /\ outbox' = Append(outbox, new) /\ outbox \in Seq(Jobs \X Nat) /\ Len(outbox) \in Nat
      /\ ~isTerminal(status[i])
      /\ log[i] = <<>> => to = "queued"
  BY DEF Written, TypeOK
<1>2. /\ log[i] \in Seq(JOB_STATUSES) /\ Len(log[i]) \in Nat
      /\ log'[i] = Append(log[i], to) /\ Len(log'[i]) = Len(log[i]) + 1 /\ status'[i] = to
      /\ \A j \in Jobs : j # i => log'[j] = log[j] /\ status'[j] = status[j]
      /\ \A e : IsEvent(e, log) => IsEvent(e, log')
  BY WrittenKeeps DEF TypeOK
<1>3. /\ \A k \in 1 .. Len(log[i]) : log'[i][k] = log[i][k]
      /\ log'[i][Len(log[i]) + 1] = to /\ log'[i] # <<>>
  BY <1>2
<1>4. LogInv'
  <2> SUFFICES ASSUME NEW j \in Jobs
               PROVE  /\ status'[j] = Absent <=> log'[j] = <<>>
                      /\ log'[j] # <<>> =>
                           log'[j][1] = "queued" /\ log'[j][Len(log'[j])] = status'[j]
                      /\ \A k \in 1 .. Len(log'[j]) :
                           isTerminal(log'[j][k]) => k = Len(log'[j])
    BY DEF LogInv
  <2>1. CASE j # i
    BY <1>2, <2>1 DEF LogInv
  <2>2. CASE j = i
    <3>1. status'[i] # Absent
      BY <1>2 DEF JOB_STATUSES, ACTIVE_STATUSES, TERMINAL_STATUSES, Absent
    <3>2. log'[i][1] = "queued"
      <4>1. CASE log[i] = <<>>
        BY <1>1, <1>2, <1>3, <4>1
      <4>2. CASE log[i] # <<>>
        <5>1. 1 \in 1 .. Len(log[i]) /\ log[i][1] = "queued"
          BY <1>2, <4>2 DEF LogInv
        <5>2. QED
          BY <1>3, <5>1
      <4>3. QED
        BY <4>1, <4>2
    <3>3. ASSUME NEW k \in 1 .. Len(log[i]) PROVE ~isTerminal(log[i][k])
      <4>1. log[i] # <<>> /\ (isTerminal(log[i][k]) => k = Len(log[i]))
        BY <1>2 DEF LogInv
      <4>2. log[i][Len(log[i])] = status[i]
        BY <4>1 DEF LogInv
      <4>3. QED
        BY <1>1, <4>1, <4>2
    <3>4. \A k \in 1 .. Len(log'[i]) : k \in 1 .. Len(log[i]) \/ k = Len(log'[i])
      BY <1>2
    <3>5. \A k \in 1 .. Len(log'[i]) : isTerminal(log'[i][k]) => k = Len(log'[i])
      BY <1>3, <3>3, <3>4
    <3>6. QED
      BY <1>2, <1>3, <2>2, <3>1, <3>2, <3>5
  <2>3. QED
    BY <2>1, <2>2
<1>5. /\ outbox' \in Seq(Jobs \X Nat) /\ Len(outbox') = Len(outbox) + 1
      /\ \A n \in 1 .. Len(outbox) : outbox'[n] = outbox[n]
      /\ outbox'[Len(outbox) + 1] = new
      /\ EventsOf(outbox') = EventsOf(outbox) \cup {new}
  <2>1. new \in Jobs \X Nat
    BY <1>2
  <2> HIDE DEF new
  <2>2. QED
    BY <1>1, <2>1, EventsOfAppend
<1>6. IsEvent(new, log') /\ ~IsEvent(new, log)
  BY <1>2 DEF IsEvent
<1>7. \A n \in 1 .. Len(outbox') : n \in 1 .. Len(outbox) \/ n = Len(outbox) + 1
  BY <1>1, <1>5
<1>8. InOrder(outbox', {}, log')
  <2>1. \A n \in 1 .. Len(outbox) : IsEvent(outbox[n], log)
    BY DEF OutboxInv, InOrder
  <2>2. \A n \in 1 .. Len(outbox') : IsEvent(outbox'[n], log')
    <3> HIDE DEF new
    <3> QED
      BY <1>2, <1>5, <1>6, <1>7, <2>1
  <2>3. \A n \in 1 .. Len(outbox) : outbox[n] # new
    <3> HIDE DEF new
    <3> QED
      BY <1>6, <2>1
  <2>4. \A m, n \in 1 .. Len(outbox) : outbox[m] = outbox[n] => m = n
    BY DEF OutboxInv, InOrder
  <2>5. \A m, n \in 1 .. Len(outbox') : outbox'[m] = outbox'[n] => m = n
    <3> HIDE DEF new
    <3> QED
      BY <1>5, <1>7, <2>3, <2>4
  <2>6. ASSUME NEW n \in 1 .. Len(outbox'), NEW k \in 1 .. outbox'[n][2] - 1
        PROVE  \E m \in 1 .. n - 1 : outbox'[m] = <<outbox'[n][1], k>>
    <3>1. CASE n \in 1 .. Len(outbox)
      <4>1. outbox'[n] = outbox[n]
        BY <1>5, <3>1
      <4>2. PICK m \in 1 .. n - 1 : outbox[m] = <<outbox[n][1], k>>
        BY <3>1, <4>1 DEF OutboxInv, InOrder
      <4>3. m \in 1 .. Len(outbox)
        BY <1>1, <3>1
      <4>4. QED
        BY <1>5, <4>1, <4>2, <4>3
    <3>2. CASE n = Len(outbox) + 1
      <4>1. outbox'[n] = new /\ new[1] = i /\ k \in 1 .. Len(log[i])
        BY <1>2, <1>5, <3>2
      <4>2. <<i, k>> \in EventsOf(outbox)
        BY <4>1 DEF OutboxInv
      <4>d. DOMAIN outbox = 1 .. Len(outbox)
        BY <1>1
      <4>3. PICK m \in 1 .. Len(outbox) : outbox[m] = <<i, k>>
        BY <4>d, <4>2 DEF EventsOf
      <4>4. m \in 1 .. n - 1 /\ outbox'[m] = <<outbox'[n][1], k>>
        BY <1>1, <1>5, <3>2, <4>1, <4>3
      <4>5. QED
        BY <4>4
    <3>3. QED
      BY <1>7, <3>1, <3>2
  <2>7. QED
    BY <2>2, <2>5, <2>6 DEF InOrder
<1>9. ASSUME NEW j \in Jobs, NEW k \in 1 .. Len(log'[j]) PROVE <<j, k>> \in EventsOf(outbox')
  <2>1. k \in 1 .. Len(log[j]) \/ (j = i /\ k = Len(log[i]) + 1)
    BY <1>2
  <2>2. CASE k \in 1 .. Len(log[j])
    BY <1>5, <2>2 DEF OutboxInv
  <2>3. QED
    BY <1>5, <2>1, <2>2
<1>10. QED
  BY <1>4, <1>5, <1>8, <1>9 DEF OutboxInv

LEMMA EntryIs ==
  ASSUME NEW b \in Seq(Entries), NEW n \in 1 .. Len(b)
  PROVE  /\ b[n].event[1] \in Jobs /\ b[n].event \in Jobs \X Nat
         /\ b[n].status \in Rows /\ b[n].thread \in Nat
<1>1. b[n] \in Entries
  OBVIOUS
<1>2. b[n].event \in Jobs \X Nat /\ b[n].status \in Rows /\ b[n].thread \in Nat
  BY <1>1 DEF Entries
<1>3. QED
  BY <1>2

LEMMA QueueIs ==
  ASSUME NEW b \in Seq(Entries)
  PROVE  /\ Len(b) \in Nat
         /\ Queue(b) \in Seq(Jobs \X Nat) /\ Len(Queue(b)) = Len(b)
         /\ \A n \in 1 .. Len(b) : b[n] \in Entries /\ Queue(b)[n] = b[n].event
<1>1. Len(b) \in Nat /\ \A n \in 1 .. Len(b) : b[n] \in Entries
  OBVIOUS
<1>2. \A n \in 1 .. Len(b) : b[n].event \in Jobs \X Nat
  BY <1>1 DEF Entries
<1>3. QED
  BY <1>1, <1>2 DEF Queue

LEMMA TableMovesInv == IInv /\ TableMoves => IInv'
<1> SUFFICES ASSUME IInv, TableMoves PROVE IInv'
  OBVIOUS
<1>1. /\ \E j \in Jobs, to \in JOB_STATUSES :
           Written(j, to) /\ \A k \in Jobs : k # j => (k \in red' <=> k \in red)
      /\ UNCHANGED <<notified, thread, batch, step, target, task, posts, results, dropped,
                     faults>>
  BY TableWrites DEF IInv
<1>2. PICK i \in Jobs, to \in JOB_STATUSES :
        Written(i, to) /\ \A k \in Jobs : k # i => (k \in red' <=> k \in red)
  BY <1>1
<1>3. /\ log' \in [Jobs -> Seq(JOB_STATUSES)] /\ status' \in [Jobs -> Rows]
      /\ \A j \in Jobs : j # i => log'[j] = log[j] /\ status'[j] = status[j]
      /\ ~isTerminal(status[i])
      /\ Len(log[i]) \in Nat /\ Len(log'[i]) = Len(log[i]) + 1
      /\ \A j \in Jobs : isTerminal(status[j]) =>
           j # i /\ log'[j] = log[j] /\ status'[j] = status[j]
      /\ \A e : IsEvent(e, log) => IsEvent(e, log')
      /\ \A e : IsEvent(e, log) => (Final(e, log', status') <=> Final(e, log, status))
  <2>1. TypeOK /\ LogInv
    BY DEF IInv
  <2>2. QED
    BY <1>2, <2>1, WrittenKeeps DEF Written
<1>4. LogInv' /\ OutboxInv' /\ outbox' \in Seq(Jobs \X Nat)
  BY <1>2, WrittenKeepsLog DEF IInv
<1>5. TypeOK'
  BY <1>1, <1>3, <1>4 DEF IInv, TypeOK
<1>6. NotifiedInv'
  BY <1>1, <1>3 DEF IInv, NotifiedInv
<1>7. batch \in Seq(Entries)
  BY DEF IInv, TypeOK
<1>8. \A n \in 1 .. Len(batch) : IsEvent(batch[n].event, log) /\ batch[n].event[1] \in Jobs
  <2>1. \A n \in 1 .. Len(Queue(batch)) : IsEvent(Queue(batch)[n], log)
    BY DEF IInv, BatchInv, InOrder
  <2>2. QED
    BY <1>7, <2>1, QueueIs DEF IsEvent
<1>9. BatchInv'
  <2>1. InOrder(Queue(batch), notified, log')
    BY <1>3 DEF IInv, BatchInv, InOrder
  <2>2. ASSUME NEW n \in 1 .. Len(batch), Final(batch[n].event, log', status')
        PROVE  batch[n].status = status'[batch[n].event[1]]
    <3>1. Final(batch[n].event, log, status)
      BY <1>3, <1>8, <2>2
    <3>2. batch[n].status = status[batch[n].event[1]] /\ isTerminal(status[batch[n].event[1]])
      BY <3>1 DEF IInv, BatchInv, Current, Final
    <3>3. QED
      BY <1>3, <1>8, <3>2
  <2>3. Current(batch, log', status', thread)
    BY <2>2 DEF IInv, BatchInv, Current
  <2>4. QED
    BY <1>1, <2>1, <2>3 DEF IInv, BatchInv
<1>10. StepInv'
  <2>1. CASE step \in {"tags", "result", "mark"}
    <3>1. /\ batch # <<>> /\ Event \in Jobs \X Nat
          /\ Final(Event, log', status') <=> Final(Event, log, status)
          /\ Final(Event, log, status) =>
               /\ status'[Job] = status[Job]
               /\ tagNamesFor(Job, status[Job])' = tagNamesFor(Job, status[Job])
      <4>1. IsEvent(Event, log) /\ Job \in Jobs /\ batch # <<>>
        BY <2>1, HeadFacts DEF IInv, StepInv
      <4>2. Final(Event, log, status) => isTerminal(status[Job])
        BY DEF Final, Job
      <4>3. ASSUME Final(Event, log, status)
            PROVE  /\ status'[Job] = status[Job]
                   /\ tagNamesFor(Job, status[Job])' = tagNamesFor(Job, status[Job])
        <5>1. Job # i /\ status'[Job] = status[Job] /\ (Job \in red' <=> Job \in red)
          BY <1>2, <1>3, <4>1, <4>2, <4>3
        <5>2. Job' = Job
          BY <1>1 DEF Job, Event
        <5>3. QED
          BY <5>1, <5>2 DEF tagNamesFor
      <4>4. QED
        BY <1>3, <4>1, <4>3 DEF IsEvent
    <3>2. Event' = Event /\ Job' = Job
      BY <1>1 DEF Event, Job
    <3>3. QED
      BY <1>1, <2>1, <3>1, <3>2 DEF IInv, StepInv
  <2>2. QED
    BY <1>1, <2>1 DEF IInv, StepInv
<1>11. ThreadsInv' /\ PostsInv'
  BY <1>1 DEF IInv, ThreadsInv, PostsInv, PostsOf
<1>12. ResultsInv'
  <2> SUFFICES ASSUME NEW j \in Jobs
               PROVE  /\ results[j] # <<>> =>
                           /\ isTerminal(status'[j])
                           /\ \A k \in 1 .. Len(log'[j]) - 1 : <<j, k>> \in notified
                      /\ \A n \in 1 .. Len(results[j]) : results[j][n] = status'[j]
                      /\ Len(results[j]) <=
                           faults + (IF Last(j)' \in notified \/ (step = "mark" /\ Event = Last(j)')
                                     THEN 1 ELSE 0)
    <3>1. Event' = Event
      BY <1>1 DEF Event
    <3>2. QED
      BY <1>1, <3>1 DEF ResultsInv
  <2>1. CASE j = i
    <3>1. results[j] = <<>> /\ faults \in Nat
      BY <1>3, <2>1 DEF IInv, TypeOK, ResultsInv
    <3>2. QED
      BY <3>1
  <2>2. CASE j # i
    BY <1>3, <2>2 DEF IInv, ResultsInv, Last
  <2>3. QED
    BY <2>1, <2>2
<1>13. ShownInv'
  <2> SUFFICES ASSUME NEW j \in Jobs, isTerminal(status'[j]), Last(j)' \in notified \ dropped
               PROVE  /\ results[j] # <<>>
                      /\ thread[j] # NoThread
                      /\ posts[thread[j]].tag = tagNamesFor(j, status[j])'
    BY <1>1 DEF ShownInv
  <2>1. j # i
    <3>1. ASSUME j = i PROVE FALSE
      <4>1. IsEvent(<<i, Len(log[i]) + 1>>, log)
        BY <1>3, <3>1 DEF IInv, NotifiedInv, Last
      <4>2. QED
        BY <1>3, <4>1 DEF IsEvent
    <3>2. QED
      BY <3>1
  <2>2. tagNamesFor(j, status[j])' = tagNamesFor(j, status[j])
    BY <1>2, <1>3, <2>1 DEF tagNamesFor
  <2>3. QED
    BY <1>3, <2>1, <2>2 DEF IInv, ShownInv, Last
<1>14. QED
  BY <1>4, <1>5, <1>6, <1>9, <1>10, <1>11, <1>12, <1>13 DEF IInv

-----------------------------------------------------------------------------
(* What becomes of the batch. *)

(* A batch that is good to go on with once B is settled: nothing of it is. *)
Pending(b, B) ==
  /\ InOrder(Queue(b), B, log)
  /\ Current(b, log, status, thread)
  /\ \A n \in 1 .. Len(b) : b[n].event \notin B

(* b is what the batch has behind its first entry, but for some it can do without. *)
IsRest(b, B, place) ==
  /\ place \in [1 .. Len(b) -> 2 .. Len(batch)]
  /\ \A l, m \in 1 .. Len(b) : l < m => place[l] < place[m]
  /\ \A m \in 1 .. Len(b) : b[m] = batch[place[m]]
  /\ \A m \in 1 .. Len(b) : \A i \in 1 .. Len(batch) :
       i < place[m] /\ batch[i].event[1] = b[m].event[1] =>
         batch[i].event \in B \/ \E l \in 1 .. Len(b) : place[l] = i

LEMMA PartOfBatch ==
  ASSUME IInv, batch # <<>>, NEW B, B \in {notified, notified \cup {Event}},
         NEW b \in Seq(Entries), NEW place, IsRest(b, B, place)
  PROVE  Pending(b, B)
<1> USE DEF IsRest
<1> DEFINE s == Queue(batch)
           u == Queue(b)
<1>1. batch \in Seq(Entries)
  BY DEF IInv, TypeOK
<1>2. /\ Len(batch) \in Nat /\ Len(b) \in Nat
      /\ s \in Seq(Jobs \X Nat) /\ Len(s) = Len(batch)
      /\ u \in Seq(Jobs \X Nat) /\ Len(u) = Len(b)
      /\ \A n \in 1 .. Len(batch) : s[n] = batch[n].event
      /\ \A n \in 1 .. Len(b) : u[n] = b[n].event
  BY <1>1, QueueIs
<1> HIDE DEF s, u
<1>3. InOrder(s, notified, log) /\ Current(batch, log, status, thread)
  BY DEF IInv, BatchInv, s
<1>4. Event = s[1] /\ 1 \in 1 .. Len(s)
  BY <1>2, HeadFacts
<1>5. \A m \in 1 .. Len(b) : place[m] \in 2 .. Len(batch) /\ place[m] \in 1 .. Len(s)
  <2>1. \A m \in 1 .. Len(b) : place[m] \in 2 .. Len(batch)
    OBVIOUS
  <2>2. \A n \in 2 .. Len(batch) : n \in 1 .. Len(s)
    BY <1>2
  <2>3. QED
    BY <2>1, <2>2
<1>6. \A m \in 1 .. Len(b) : u[m] = s[place[m]]
  BY <1>2, <1>5
<1>7. InOrder(u, B, log)
  <2>1. place \in [1 .. Len(u) -> 1 .. Len(s)]
    BY <1>2, <1>5
  <2>2. \A m \in 1 .. Len(u) : \A i \in 1 .. Len(s) :
          i < place[m] /\ s[i][1] = u[m][1] => s[i] \in B \/ \E l \in 1 .. Len(u) : place[l] = i
    BY <1>2
  <2>3. \A m \in 1 .. Len(u) : \A k \in Nat : <<u[m][1], k>> \in notified => <<u[m][1], k>> \in B
    OBVIOUS
  <2>4. \A l, m \in 1 .. Len(u) : l < m => place[l] < place[m]
    BY <1>2
  <2>5. \A m \in 1 .. Len(u) : u[m] = s[place[m]]
    BY <1>2, <1>6
  <2>6. IsPart(u, s, notified, B, place)
    BY <2>1, <2>2, <2>3, <2>4, <2>5 DEF IsPart
  <2>7. QED
    BY <1>2, <1>3, <2>6, PartInOrder
<1>8. Current(b, log, status, thread)
  BY <1>2, <1>3, <1>5 DEF Current
<1>9. ASSUME NEW m \in 1 .. Len(b) PROVE b[m].event \notin B
  <2>0. place[m] \in 2 .. Len(batch) /\ place[m] # 1
    BY <1>5
  <2>1. s[place[m]] \notin notified
    <3>1. \A n \in 1 .. Len(batch) : n # 1 => batch[n].event \notin notified
      BY DEF IInv, BatchInv
    <3>2. place[m] \in 1 .. Len(batch) /\ s[place[m]] = batch[place[m]].event
      BY <1>2, <2>0
    <3>3. QED
      BY <2>0, <3>1, <3>2
  <2>2. s[place[m]] # Event
    <3>1. \A x, y \in 1 .. Len(s) : s[x] = s[y] => x = y
      BY <1>3 DEF InOrder
    <3>2. place[m] # 1
      BY <1>5
    <3>3. QED
      BY <1>4, <1>5, <3>1, <3>2
  <2>3. b[m].event = s[place[m]]
    BY <1>2, <1>6
  <2>4. QED
    BY <2>1, <2>2, <2>3
<1>10. QED
  BY <1>7, <1>8, <1>9 DEF Pending, u

LEMMA TailPart ==
  ASSUME IInv, batch # <<>>
  PROVE  /\ Tail(batch) \in Seq(Entries) /\ Pending(Tail(batch), notified \cup {Event})
         /\ Len(Tail(batch)) = Len(batch) - 1
         /\ \A n \in 1 .. Len(Tail(batch)) : Tail(batch)[n] = batch[n + 1]
<1> DEFINE b == Tail(batch)
           place == [m \in 1 .. Len(b) |-> m + 1]
<1>1. batch \in Seq(Entries) /\ Len(batch) \in Nat \ {0} /\ Event = batch[1].event
  BY HeadFacts DEF IInv, TypeOK
<1>2. /\ b \in Seq(Entries) /\ Len(b) = Len(batch) - 1
      /\ \A n \in 1 .. Len(b) : b[n] = batch[n + 1]
  BY <1>1, HeadTailProperties
<1> HIDE DEF b
<1>3. /\ place \in [1 .. Len(b) -> 2 .. Len(batch)]
      /\ \A l, m \in 1 .. Len(b) : l < m => place[l] < place[m]
      /\ \A m \in 1 .. Len(b) : b[m] = batch[place[m]]
  BY <1>1, <1>2
<1>4. ASSUME NEW m \in 1 .. Len(b), NEW i \in 1 .. Len(batch), i < place[m]
      PROVE  batch[i].event \in notified \cup {Event} \/ \E l \in 1 .. Len(b) : place[l] = i
  <2>1. CASE i = 1
    BY <1>1, <2>1
  <2>2. CASE i # 1
    <3>1. i - 1 \in 1 .. Len(b) /\ place[i - 1] = i
      BY <1>1, <1>2, <2>2
    <3>2. QED
      BY <3>1
  <2>3. QED
    BY <2>1, <2>2
<1> HIDE DEF place
<1>5. Pending(b, notified \cup {Event})
  <2>1. IsRest(b, notified \cup {Event}, place)
    BY <1>3, <1>4 DEF IsRest
  <2>2. QED
    BY <1>2, <2>1, PartOfBatch
<1>6. QED
  BY <1>2, <1>5 DEF b

LEMMA UnblockedPart ==
  ASSUME IInv, batch # <<>>, NEW B, B \in {notified, notified \cup {Event}}
  PROVE  Unblocked \in Seq(Entries) /\ Pending(Unblocked, B)
<1> DEFINE t == Tail(batch)
           T == {e \in EventsOf(t) : e.event[1] # Job}
           b == Only(t, T)
<1>1. /\ batch \in Seq(Entries) /\ Len(batch) \in Nat \ {0} /\ Event = batch[1].event
      /\ t \in Seq(Entries) /\ Len(t) = Len(batch) - 1
      /\ \A n \in 1 .. Len(t) : t[n] = batch[n + 1]
  BY HeadFacts, TailPart DEF IInv, TypeOK
<1>2. \A n \in 1 .. Len(t) : t[n] \in EventsOf(t)
  <2>1. DOMAIN t = 1 .. Len(t)
    BY <1>1
  <2> HIDE DEF t
  <2>2. QED
    BY <2>1 DEF EventsOf
<1>3. b \in Seq(Entries) /\ \E at : Embeds(b, t, T, Len(t), at)
  <2> HIDE DEF t, T
  <2>1. QED
    BY <1>1, OnlyKeeps
<1>4. PICK at : Embeds(b, t, T, Len(t), at)
  BY <1>3
<1>5. Unblocked = b
  BY DEF Unblocked
<1>6. \A e \in T : e.event[1] # Job
  OBVIOUS
<1>7. \A n \in 1 .. Len(t) : t[n].event[1] # Job => t[n] \in T
  BY <1>2
<1> HIDE DEF t, T, b
<1> DEFINE place == [m \in 1 .. Len(b) |-> at[m] + 1]
<1>8. \A m \in 1 .. Len(b) : at[m] \in 1 .. Len(t) /\ b[m] = t[at[m]] /\ t[at[m]] \in T
  BY <1>4 DEF Embeds
<1>9. place \in [1 .. Len(b) -> 2 .. Len(batch)]
  BY <1>1, <1>8
<1>10. \A l, m \in 1 .. Len(b) : l < m => place[l] < place[m]
  BY <1>1, <1>4, <1>8 DEF Embeds
<1>11. \A m \in 1 .. Len(b) : b[m] = batch[place[m]]
  BY <1>1, <1>8
<1>12. ASSUME NEW m \in 1 .. Len(b), NEW i \in 1 .. Len(batch), i < place[m],
              batch[i].event[1] = b[m].event[1]
       PROVE  batch[i].event \in B \/ \E l \in 1 .. Len(b) : place[l] = i
  <2>1. b[m].event[1] # Job
    BY <1>6, <1>8
  <2>2. i # 1
    BY <1>1, <1>12, <2>1 DEF Job
  <2>3. i - 1 \in 1 .. Len(t) /\ (i - 1) + 1 = i
    BY <1>1, <2>2
  <2>4. t[i - 1] = batch[i]
    BY <1>1, <2>3
  <2>5. t[i - 1] \in T
    BY <1>7, <1>12, <2>1, <2>3, <2>4
  <2>6. PICK l \in 1 .. Len(b) : at[l] = i - 1
    BY <1>4, <2>3, <2>5 DEF Embeds
  <2>7. place[l] = i
    BY <2>3, <2>6
  <2>8. QED
    BY <2>7
<1> HIDE DEF place
<1>13. Pending(b, B)
  <2>1. IsRest(b, B, place)
    BY <1>9, <1>10, <1>11, <1>12 DEF IsRest
  <2>2. QED
    BY <1>3, <2>1, PartOfBatch
<1>14. QED
  BY <1>3, <1>5, <1>13

(* A thread once recorded stays. *)
ThreadsStay == \A j \in Jobs : thread[j] # NoThread => thread'[j] = thread[j]

LEMMA PendingIsBatchInv ==
  ASSUME TypeOK, LogInv, UNCHANGED <<status, log, red>>, ThreadsStay,
         batch' \in Seq(Entries), Pending(batch', notified')
  PROVE  BatchInv'
<1>1. InOrder(Queue(batch'), notified', log')
  BY DEF Pending
<1>2. ASSUME NEW n \in 1 .. Len(batch')
      PROVE  /\ batch'[n].event[1] \in Jobs
             /\ batch'[n].thread \in {NoThread, thread'[batch'[n].event[1]]}
  <2>1. batch'[n] \in Entries /\ batch'[n].thread \in {NoThread, thread[batch'[n].event[1]]}
    BY <1>2 DEF Pending, Current
  <2>2. QED
    BY <2>1 DEF Entries, ThreadsStay
<1>3. Current(batch', log', status', thread')
  BY <1>2 DEF Pending, Current
<1>4. QED
  BY <1>1, <1>3 DEF Pending, BatchInv

(* The loop goes on, whether the event was settled, given up or blocked. *)
LEMMA GoesOn ==
  ASSUME IInv, batch # <<>>, UNCHANGED <<status, log, red>>, ThreadsStay,
         notified' \in {notified, notified \cup {Event}},
         \/ Fails
         \/ GoOn(Tail(batch)) /\ notified' = notified \cup {Event}
         \/ GoOn(<<>>)
  PROVE  batch' \in Seq(Entries) /\ target' = target /\ BatchInv' /\ StepInv'
<1>1. TypeOK /\ LogInv /\ batch \in Seq(Entries)
  BY DEF IInv, TypeOK
<1>2. ASSUME NEW rest \in Seq(Entries), GoOn(rest), Pending(rest, notified')
      PROVE  batch' \in Seq(Entries) /\ target' = target /\ BatchInv' /\ StepInv'
  <2>1. batch' = rest /\ target' = target /\ step' \in {"idle", "ensure"}
    BY <1>2 DEF GoOn
  <2>2. step' # "idle" => batch' # <<>>
    BY <1>2 DEF GoOn
  <2>3. StepInv'
    BY <2>1, <2>2 DEF StepInv
  <2>4. QED
    BY <1>1, <1>2, <2>1, <2>3, PendingIsBatchInv
<1>3. ASSUME GoOn(<<>>)
      PROVE  batch' \in Seq(Entries) /\ target' = target /\ BatchInv' /\ StepInv'
  <2>1. <<>> \in Seq(Entries) /\ Pending(<<>>, notified')
    BY DEF Pending, Current, InOrder, Queue
  <2>2. QED
    BY <1>2, <1>3, <2>1
<1>4. ASSUME GoOn(Tail(batch)), notified' = notified \cup {Event}
      PROVE  batch' \in Seq(Entries) /\ target' = target /\ BatchInv' /\ StepInv'
  BY <1>2, <1>4, TailPart
<1>5. ASSUME GoOn(Unblocked)
      PROVE  batch' \in Seq(Entries) /\ target' = target /\ BatchInv' /\ StepInv'
  BY <1>2, <1>5, UnblockedPart
<1>6. ASSUME step' = "drop", UNCHANGED <<batch, target>>
      PROVE  batch' \in Seq(Entries) /\ target' = target /\ BatchInv' /\ StepInv'
  <2>1. StepInv'
    BY <1>6 DEF StepInv
  <2>2. \A j \in Jobs : thread[j] \in {NoThread, thread'[j]}
    BY DEF ThreadsStay
  <2>3. /\ InOrder(Queue(batch), notified, log) /\ Current(batch, log, status, thread)
        /\ \A n \in 1 .. Len(batch) : n # 1 => batch[n].event \notin notified
    BY DEF IInv, BatchInv
  <2>4. InOrder(Queue(batch), notified', log')
    BY <2>3 DEF InOrder
  <2>5. \A n \in 1 .. Len(batch) : batch[n].event[1] \in Jobs
    BY <1>1, EntryIs
  <2>6. Current(batch, log', status', thread')
    BY <2>2, <2>3, <2>5 DEF Current
  <2>7. ASSUME NEW n \in 1 .. Len(batch), n # 1 PROVE batch[n].event # Event
    <3>1. /\ Len(batch) \in Nat /\ Len(Queue(batch)) = Len(batch) /\ 1 \in 1 .. Len(batch)
          /\ Queue(batch)[n] = batch[n].event /\ Queue(batch)[1] = Event
      BY <1>1, HeadFacts, QueueIs
    <3>2. QED
      BY <2>3, <2>7, <3>1 DEF InOrder
  <2>8. \A n \in 1 .. Len(batch) : n # 1 => batch[n].event \notin notified'
    BY <2>3, <2>7
  <2>9. BatchInv'
    BY <1>6, <2>4, <2>6, <2>8 DEF BatchInv
  <2>10. QED
    BY <1>1, <1>6, <2>1, <2>9
<1>7. QED
  BY <1>3, <1>4, <1>5, <1>6 DEF Fails

(* The loop takes its next step with the same event. *)
LEMMA BatchStays ==
  ASSUME IInv, UNCHANGED <<status, log, red, batch, notified>>, ThreadsStay,
         step = "drop" => step' = "drop"
  PROVE  batch' \in Seq(Entries) /\ BatchInv'
<1>1. TypeOK /\ LogInv /\ batch \in Seq(Entries)
  BY DEF IInv, TypeOK
<1>2. \A n \in 1 .. Len(batch) : batch[n].event[1] \in Jobs
  BY <1>1, EntryIs
<1>2t. \A j \in Jobs : thread[j] \in {NoThread, thread'[j]}
  BY DEF ThreadsStay
<1>2c. Current(batch, log, status, thread)
  BY DEF IInv, BatchInv
<1>3. Current(batch, log', status', thread')
  BY <1>2, <1>2t, <1>2c DEF Current
<1>4. QED
  BY <1>1, <1>3 DEF IInv, BatchInv

LEMMA PendingEventsInOrder ==
  ASSUME IInv, NotifierAssumption
  PROVE  /\ pendingEvents \in Seq(Jobs \X Nat) /\ InOrder(pendingEvents, notified, log)
         /\ \A n \in 1 .. Len(pendingEvents) : pendingEvents[n] \notin notified
<1> DEFINE T == EventsOf(outbox) \ notified
           p == Only(outbox, T)
           c == IF Len(p) < Limit THEN Len(p) ELSE Limit
           u == SubSeq(p, 1, c)
<1>1. outbox \in Seq(Jobs \X Nat) /\ Len(outbox) \in Nat /\ InOrder(outbox, {}, log)
  BY DEF IInv, TypeOK, OutboxInv
<1>2. p \in Seq(Jobs \X Nat) /\ \E at : Embeds(p, outbox, T, Len(outbox), at)
  <2> HIDE DEF T
  <2>1. QED
    BY <1>1, OnlyKeeps
<1>3. \A n \in 1 .. Len(outbox) : outbox[n] \in notified \/ outbox[n] \in T
  <2>1. DOMAIN outbox = 1 .. Len(outbox)
    BY <1>1
  <2>2. QED
    BY <2>1 DEF EventsOf
<1>4. \A e \in T : e \notin notified
  OBVIOUS
<1>5. pendingEvents = u
  BY DEF pendingEvents
<1> HIDE DEF T, p
<1>6. PICK at : Embeds(p, outbox, T, Len(outbox), at)
  BY <1>2
<1>7. Len(p) \in Nat /\ c \in 0 .. Len(p)
  BY <1>2 DEF NotifierAssumption
<1> HIDE DEF c
<1>8. /\ u \in Seq(Jobs \X Nat) /\ Len(u) = c
      /\ \A n \in 1 .. c : u[n] = p[n] /\ n \in 1 .. Len(p)
  BY <1>2, <1>7, SubSeqProperties
<1> HIDE DEF u
<1>9. /\ \A m \in 1 .. Len(p) : at[m] \in 1 .. Len(outbox) /\ p[m] = outbox[at[m]]
                                /\ outbox[at[m]] \in T
      /\ \A l, m \in 1 .. Len(p) : l < m => at[l] < at[m]
      /\ \A k \in 1 .. Len(outbox) : outbox[k] \in T => \E m \in 1 .. Len(p) : at[m] = k
  BY <1>6 DEF Embeds
<1> DEFINE place == [m \in 1 .. Len(u) |-> at[m]]
<1>10. \A m \in 1 .. Len(u) :
         place[m] = at[m] /\ m \in 1 .. Len(p) /\ at[m] \in 1 .. Len(outbox) /\ u[m] = p[m]
  BY <1>8, <1>9
<1>11. place \in [1 .. Len(u) -> 1 .. Len(outbox)]
  BY <1>10
<1>12. \A l, m \in 1 .. Len(u) : l < m => place[l] < place[m]
  BY <1>9, <1>10
<1>13. \A m \in 1 .. Len(u) : u[m] = outbox[place[m]]
  BY <1>9, <1>10
<1> HIDE DEF place
<1>14. ASSUME NEW m \in 1 .. Len(u), NEW i \in 1 .. Len(outbox), i < place[m]
       PROVE  outbox[i] \in notified \/ \E l \in 1 .. Len(u) : place[l] = i
  <2>1. SUFFICES ASSUME outbox[i] \in T PROVE \E l \in 1 .. Len(u) : place[l] = i
    BY <1>3
  <2>2. PICK l \in 1 .. Len(p) : at[l] = i
    BY <1>9, <2>1
  <2>3. m \in 1 .. Len(p) /\ at[l] < at[m]
    BY <1>10, <1>14, <2>2
  <2>4. ~ (m < l) /\ m # l
    <3>1. at[l] \in Nat /\ at[m] \in Nat /\ ~ (at[m] < at[l]) /\ at[m] # at[l]
      BY <1>1, <1>9, <2>3
    <3>2. QED
      BY <1>9, <2>3, <3>1
  <2>5. l \in 1 .. Len(u)
    BY <1>7, <1>8, <2>4
  <2>6. QED
    BY <1>10, <2>2, <2>5
<1>15. IsPart(u, outbox, {}, notified, place)
  BY <1>11, <1>12, <1>13, <1>14 DEF IsPart
<1>16. InOrder(u, notified, log)
  BY <1>1, <1>8, <1>15, PartInOrder
<1>17. \A n \in 1 .. Len(u) : u[n] \notin notified
  BY <1>4, <1>9, <1>10
<1>18. QED
  BY <1>5, <1>8, <1>16, <1>17

LEMMA Fetched ==
  ASSUME IInv, NotifierAssumption, Fetch
  PROVE  /\ batch' \in Seq(Entries) /\ target' = target /\ BatchInv' /\ StepInv'
         /\ step = "idle"
<1> DEFINE p == pendingEvents
           b == [n \in DOMAIN p |-> [event |-> p[n], status |-> status[p[n][1]],
                                     thread |-> thread[p[n][1]]]]
<1>1. /\ step = "idle" /\ GoOn(b)
      /\ UNCHANGED <<status, log, red, notified, thread>>
  BY DEF Fetch, table
<1>2. /\ p \in Seq(Jobs \X Nat) /\ InOrder(p, notified, log)
      /\ \A n \in 1 .. Len(p) : p[n] \notin notified
  BY PendingEventsInOrder
<1> HIDE DEF p
<1>3. Len(p) \in Nat /\ DOMAIN p = 1 .. Len(p) /\ \A n \in 1 .. Len(p) : p[n] \in Jobs \X Nat
  BY <1>2
<1>4. ASSUME NEW n \in 1 .. Len(p)
      PROVE  [event |-> p[n], status |-> status[p[n][1]], thread |-> thread[p[n][1]]] \in Entries
  <2>1. p[n] \in Jobs \X Nat /\ status[p[n][1]] \in Rows /\ thread[p[n][1]] \in Nat
    BY <1>3 DEF IInv, TypeOK
  <2>2. QED
    BY <2>1 DEF Entries
<1>5. b \in Seq(Entries) /\ Len(b) = Len(p)
  BY <1>3, <1>4
<1>6. \A n \in 1 .. Len(p) :
        /\ b[n].event = p[n] /\ b[n].status = status[p[n][1]]
        /\ b[n].thread = thread[p[n][1]]
  BY <1>3
<1> HIDE DEF b
<1>7. Queue(b) = p
  <2>1. p = [n \in 1 .. Len(p) |-> p[n]]
    BY <1>2, LenProperties
  <2>2. Queue(b) = [n \in 1 .. Len(p) |-> p[n]]
    BY <1>5, <1>6 DEF Queue
  <2>3. QED
    BY <2>1, <2>2
<1>8. Current(b, log, status, thread)
  BY <1>5, <1>6 DEF Current
<1>9. Pending(b, notified)
  BY <1>2, <1>5, <1>6, <1>7, <1>8 DEF Pending
<1>10. /\ batch' = b /\ target' = target /\ step' \in {"idle", "ensure"}
       /\ step' # "idle" => batch' # <<>>
  BY <1>1 DEF GoOn
<1>11. StepInv'
  BY <1>10 DEF StepInv
<1>12. BatchInv'
  BY <1>1, <1>5, <1>9, <1>10, PendingIsBatchInv DEF IInv, ThreadsStay
<1>13. QED
  BY <1>1, <1>5, <1>10, <1>11, <1>12

-----------------------------------------------------------------------------
(* What the parts of the invariant ask of a step that leaves the table alone. *)

LEMMA Settles ==
  ASSUME IInv, batch # <<>>, UNCHANGED <<status, log, red>>,
         notified' \in {notified, notified \cup {Event}}
  PROVE  NotifiedInv' /\ notified' \in SUBSET (Jobs \X Nat) /\ notified \subseteq notified'
<1>1. /\ IsEvent(Event, log) /\ Event \in Jobs \X Nat /\ Event[2] \in Nat \ {0}
      /\ Event = <<Job, Event[2]>> /\ Event[1] = Job
      /\ \A k \in 1 .. Event[2] - 1 : <<Job, k>> \in notified
  BY HeadFacts DEF IsEvent, Job
<1>2. \A k \in 1 .. Event[2] : <<Job, k>> \in notified \cup {Event}
  <2>1. \A k \in 1 .. Event[2] : k \in 1 .. Event[2] - 1 \/ k = Event[2]
    BY <1>1
  <2>2. QED
    BY <1>1, <2>1
<1>3. \A e \in notified : IsEvent(e, log) /\ \A k \in 1 .. e[2] : <<e[1], k>> \in notified
  BY DEF IInv, NotifiedInv
<1>4. notified \in SUBSET (Jobs \X Nat)
  BY DEF IInv, TypeOK
<1>5. \A e \in notified' :
        IsEvent(e, log) /\ \A k \in 1 .. e[2] : <<e[1], k>> \in notified'
  <2>1. SUFFICES ASSUME NEW e \in notified'
                 PROVE  IsEvent(e, log) /\ \A k \in 1 .. e[2] : <<e[1], k>> \in notified'
    OBVIOUS
  <2>2. CASE e \in notified
    BY <1>3, <2>2
  <2>3. CASE e = Event /\ notified' = notified \cup {Event}
    BY <1>1, <1>2, <2>3
  <2>4. QED
    BY <2>2, <2>3
<1>6. QED
  BY <1>1, <1>4, <1>5 DEF NotifiedInv

LEMMA ResultsKept ==
  ASSUME IInv, UNCHANGED <<status, log, red, results>>, notified \subseteq notified',
         faults' \in Nat, faults <= faults',
         \/ step # "mark"
         \/ step' = "mark" /\ batch' = batch
         \/ Event \in notified'
         \/ faults + 1 <= faults'
  PROVE  ResultsInv'
<1> SUFFICES ASSUME NEW j \in Jobs
             PROVE  /\ results[j] # <<>> =>
                         /\ isTerminal(status[j])
                         /\ \A k \in 1 .. Len(log[j]) - 1 : <<j, k>> \in notified'
                    /\ \A n \in 1 .. Len(results[j]) : results[j][n] = status[j]
                    /\ Len(results[j]) <=
                         faults' + (IF Last(j) \in notified' \/ (step' = "mark" /\ Event' = Last(j))
                                    THEN 1 ELSE 0)
  BY DEF ResultsInv, Last
<1>1. /\ results[j] # <<>> =>
           isTerminal(status[j]) /\ \A k \in 1 .. Len(log[j]) - 1 : <<j, k>> \in notified
      /\ \A n \in 1 .. Len(results[j]) : results[j][n] = status[j]
      /\ Len(results[j]) <=
           faults + (IF Last(j) \in notified \/ (step = "mark" /\ Event = Last(j)) THEN 1 ELSE 0)
  BY DEF IInv, ResultsInv
<1>2. Len(results[j]) \in Nat /\ faults \in Nat
  <2>1. results[j] \in Seq(Rows)
    BY DEF IInv, TypeOK
  <2>2. QED
    BY <2>1 DEF IInv, TypeOK
<1>3. batch' = batch => Event' = Event
  BY DEF Event
<1>4. Len(results[j]) <=
        faults' + (IF Last(j) \in notified' \/ (step' = "mark" /\ Event' = Last(j)) THEN 1 ELSE 0)
  <2>1. CASE Last(j) \in notified \/ faults + 1 <= faults'
    BY <1>1, <1>2, <2>1
  <2>2. CASE step = "mark" /\ Event = Last(j) /\ step' = "mark" /\ batch' = batch
    BY <1>1, <1>2, <1>3, <2>2
  <2>3. CASE step = "mark" /\ Event = Last(j) /\ Event \in notified'
    BY <1>1, <1>2, <2>3
  <2>4. CASE ~ (Last(j) \in notified) /\ ~ (step = "mark" /\ Event = Last(j))
    BY <1>1, <1>2, <2>4
  <2>5. QED
    BY <2>1, <2>2, <2>3, <2>4
<1>5. QED
  BY <1>1, <1>4

(* Only what is marked without being delivered, or was shown before, is not shown now. *)
LEMMA ShownKept ==
  ASSUME IInv, UNCHANGED <<status, log, red>>,
         notified' \ dropped' \subseteq notified \ dropped,
         ThreadsStay,
         \A j \in Jobs : results[j] # <<>> => results'[j] # <<>>,
         \A t \in DOMAIN posts : posts'[t].tag = posts[t].tag
  PROVE  ShownInv'
<1> SUFFICES ASSUME NEW j \in Jobs, isTerminal(status[j]), Last(j) \in notified' \ dropped'
             PROVE  /\ results'[j] # <<>>
                    /\ thread'[j] # NoThread
                    /\ posts'[thread'[j]].tag = tagNamesFor(j, status[j])
  BY DEF ShownInv, Last, tagNamesFor
<1>1. /\ results[j] # <<>> /\ thread[j] # NoThread
      /\ posts[thread[j]].tag = tagNamesFor(j, status[j])
  BY DEF IInv, ShownInv
<1>2. thread'[j] = thread[j] /\ thread[j] \in DOMAIN posts
  BY <1>1 DEF IInv, ThreadsInv, ThreadsStay
<1>3. QED
  BY <1>1, <1>2

LEMMA PostsFinite ==
  ASSUME IInv, NEW j
  PROVE  /\ posts \in Seq(Post) /\ Len(posts) \in Nat
         /\ DOMAIN posts = 1 .. Len(posts)
         /\ IsFiniteSet(PostsOf(j)) /\ Cardinality(PostsOf(j)) \in Nat
<1>1. posts \in Seq(Post)
  BY DEF IInv, TypeOK
<1>2. Len(posts) \in Nat /\ DOMAIN posts = 1 .. Len(posts)
  BY <1>1
<1>3. IsFiniteSet(1 .. Len(posts))
  BY <1>2, FS_Interval
<1>4. PostsOf(j) \in SUBSET (1 .. Len(posts))
  BY <1>2 DEF PostsOf
<1>5. IsFiniteSet(PostsOf(j))
  BY <1>3, <1>4, FS_Subset
<1>6. QED
  BY <1>1, <1>2, <1>5, FS_CardinalityType

LEMMA ThreadsKept ==
  ASSUME IInv, UNCHANGED <<thread, task>>, DOMAIN posts' = DOMAIN posts,
         \A t \in DOMAIN posts : posts'[t].job = posts[t].job,
         faults' \in Nat, faults <= faults'
  PROVE  ThreadsInv' /\ PostsInv'
<1>1. ThreadsInv'
  BY DEF IInv, ThreadsInv
<1>2. \A j \in Jobs : PostsOf(j)' = PostsOf(j)
  BY DEF PostsOf
<1>3. ASSUME NEW j \in Jobs
      PROVE  Cardinality(PostsOf(j)') <=
               faults' + (IF thread[j] # NoThread \/ task[j].at = "recording" THEN 1 ELSE 0)
  <2>1. Cardinality(PostsOf(j)) <=
          faults + (IF thread[j] # NoThread \/ task[j].at = "recording" THEN 1 ELSE 0)
    BY DEF IInv, PostsInv
  <2>2. Cardinality(PostsOf(j)) \in Nat /\ faults \in Nat
    BY PostsFinite DEF IInv, TypeOK
  <2>3. QED
    BY <1>2, <2>1, <2>2
<1>4. PostsInv'
  BY <1>3 DEF PostsInv
<1>5. QED
  BY <1>1, <1>4

(* The events that carry a thread's last word ask for everything, in this order. *)
LEMMA DeliveryIs ==
  ASSUME IInv, batch # <<>>
  PROVE  /\ Final(Event, log, status) => Delivery = <<"tags", "result", "mark">>
         /\ ~Final(Event, log, status) => Delivery \in {<<"tags", "mark">>, <<"mark">>}
BY HeadFacts DEF Delivery

LEMMA AfterIs ==
  ASSUME IInv, batch # <<>>
  PROVE  /\ After("tags") =>
              /\ step' = IF Final(Event, log, status) THEN "result" ELSE "mark"
              /\ UNCHANGED <<batch, target>>
         /\ After("result") =>
              Final(Event, log, status) /\ step' = "mark" /\ UNCHANGED <<batch, target>>
<1>1. CASE Final(Event, log, status)
  <2>1. Delivery = <<"tags", "result", "mark">>
    BY <1>1, DeliveryIs
  <2>2. /\ DOMAIN Delivery = 1 .. 3
        /\ Delivery[1] = "tags" /\ Delivery[2] = "result" /\ Delivery[3] = "mark"
    BY <2>1
  <2>3. \A n \in 1 .. 3 : n = 1 \/ n = 2 \/ n = 3
    OBVIOUS
  <2> HIDE DEF Delivery
  <2>4. QED
    BY <1>1, <2>2, <2>3 DEF After
<1>2. CASE ~Final(Event, log, status)
  <2>1. Delivery = <<"tags", "mark">> \/ Delivery = <<"mark">>
    BY <1>2, DeliveryIs
  <2>2. \/ DOMAIN Delivery = 1 .. 2 /\ Delivery[1] = "tags" /\ Delivery[2] = "mark"
        \/ DOMAIN Delivery = 1 .. 1 /\ Delivery[1] = "mark"
    BY <2>1
  <2>3. \A n \in 1 .. 2 : n = 1 \/ n = 2
    OBVIOUS
  <2>4. QED
    BY <1>2, <2>2, <2>3 DEF After
<1>3. QED
  BY <1>1, <1>2

(* The thread is there: the first step of the delivery never assumes what a later one does. *)
LEMMA HasThreadIs ==
  ASSUME IInv, batch # <<>>, NEW t, HasThread(t), UNCHANGED <<status, log, red>>,
         t = thread'[Job], t # NoThread
  PROVE  StepInv' /\ target' = t /\ batch' = batch
<1>1. target' = t /\ batch' = batch /\ step' = Delivery[1]
  BY DEF HasThread
<1>2. Event' = Event /\ Job' = Job
  BY <1>1 DEF Event, Job
<1>3. /\ step' \in {"tags", "mark"}
      /\ Final(Event, log, status) => step' = "tags"
  <2>1. CASE Final(Event, log, status)
    BY <1>1, <2>1, DeliveryIs
  <2>2. CASE ~Final(Event, log, status)
    BY <1>1, <2>2, DeliveryIs
  <2>3. QED
    BY <2>1, <2>2
<1>4. Final(Event, log, status)' <=> Final(Event, log, status)
  BY <1>2
<1>5. QED
  BY <1>1, <1>2, <1>3, <1>4 DEF StepInv

LEMMA Join ==
  ASSUME IInv, NEW i \in Jobs, StartOrJoin(i), UNCHANGED <<thread, posts, faults>>
  PROVE  DOMAIN task' = Jobs /\ ThreadsInv' /\ PostsInv'
<1>1. /\ DOMAIN task = Jobs /\ DOMAIN task' = Jobs
      /\ \A j \in Jobs : task'[j] = task[j] \/ (task[j] = NoTask /\ task'[j] = [at |-> "reading"])
  BY DEF IInv, TypeOK, StartOrJoin
<1>2. \A j \in Jobs : task'[j] = task[j] \/ (task[j].at = "none" /\ task'[j].at = "reading")
  BY <1>1 DEF NoTask
<1>3. ThreadsInv'
  BY <1>2 DEF IInv, ThreadsInv
<1>4. \A j \in Jobs : PostsOf(j)' = PostsOf(j) /\ (task'[j].at = "recording" <=> task[j].at = "recording")
  BY <1>2 DEF PostsOf
<1>5. PostsInv'
  BY <1>4 DEF IInv, PostsInv
<1>6. QED
  BY <1>1, <1>3, <1>5

LEMMA TableKept ==
  ASSUME IInv, UNCHANGED table
  PROVE  /\ UNCHANGED <<status, log, red, outbox>>
         /\ LogInv' /\ OutboxInv'
<1>1. UNCHANGED <<status, log, red, outbox>>
  BY DEF table
<1>2. QED
  BY <1>1 DEF IInv, LogInv, OutboxInv

LEMMA FetchInv == IInv /\ NotifierAssumption /\ Fetch => IInv'
<1> SUFFICES ASSUME IInv, NotifierAssumption, Fetch PROVE IInv'
  OBVIOUS
<1>1. /\ batch' \in Seq(Entries) /\ target' = target /\ BatchInv' /\ StepInv'
      /\ step = "idle"
  BY Fetched
<1>2. UNCHANGED <<table, notified, thread, task, posts, results, dropped, faults>>
  BY DEF Fetch, discord
<1>3. LogInv' /\ OutboxInv' /\ UNCHANGED <<status, log, red, outbox>>
  BY <1>2, TableKept
<1>4. faults \in Nat
  BY DEF IInv, TypeOK
<1>5. TypeOK'
  BY <1>1, <1>2, <1>3 DEF IInv, TypeOK
<1>6. NotifiedInv' /\ ShownInv'
  BY <1>2, <1>3 DEF IInv, NotifiedInv, ShownInv, Last, tagNamesFor
<1>7. ThreadsInv' /\ PostsInv'
  BY <1>2, <1>4, ThreadsKept
<1>8. ResultsInv'
  BY <1>1, <1>2, <1>3, <1>4, ResultsKept
<1>9. QED
  BY <1>1, <1>3, <1>5, <1>6, <1>7, <1>8 DEF IInv

LEMMA EnsurePostInv == IInv /\ EnsurePost => IInv'
<1> SUFFICES ASSUME IInv, EnsurePost PROVE IInv'
  OBVIOUS
<1>1. /\ step = "ensure"
      /\ UNCHANGED <<table, notified, thread, posts, results, dropped, faults>>
  BY DEF EnsurePost, discord
<1>2. LogInv' /\ OutboxInv' /\ UNCHANGED <<status, log, red, outbox>>
  BY <1>1, TableKept
<1>3. batch # <<>> /\ ThreadsStay /\ faults \in Nat
  BY <1>1 DEF IInv, StepInv, ThreadsStay, TypeOK
<1>4. Job \in Jobs /\ Head(batch).thread \in {NoThread, thread[Job]} /\ thread \in [Jobs -> Nat]
  BY <1>3, HeadFacts DEF IInv, TypeOK
<1>5. /\ batch' = batch /\ target' \in Nat /\ StepInv'
      /\ DOMAIN task' = Jobs /\ ThreadsInv' /\ PostsInv'
  <2>1. CASE Head(batch).thread # NoThread
    <3>1. HasThread(Head(batch).thread) /\ UNCHANGED task
      BY <2>1 DEF EnsurePost
    <3>2. Head(batch).thread = thread'[Job]
      BY <1>1, <1>4, <2>1
    <3>3. batch' = batch /\ target' = thread[Job] /\ StepInv'
      BY <1>1, <1>2, <1>3, <2>1, <3>1, <3>2, HasThreadIs
    <3>4. ThreadsInv' /\ PostsInv'
      BY <1>1, <1>3, <3>1, ThreadsKept
    <3>5. QED
      BY <1>4, <3>1, <3>3, <3>4 DEF IInv, TypeOK
  <2>2. CASE Head(batch).thread = NoThread
    <3>1. step' = "waiting" /\ StartOrJoin(Job) /\ UNCHANGED <<batch, target>>
      BY <2>2 DEF EnsurePost
    <3>2. DOMAIN task' = Jobs /\ ThreadsInv' /\ PostsInv'
      BY <1>1, <1>4, <3>1, Join
    <3>3. StepInv'
      BY <1>3, <3>1 DEF StepInv
    <3>4. QED
      BY <3>1, <3>2, <3>3 DEF IInv, TypeOK
  <2>3. QED
    BY <2>1, <2>2
<1>6. batch' \in Seq(Entries) /\ BatchInv'
  BY <1>1, <1>2, <1>3, <1>5, BatchStays
<1>7. TypeOK'
  BY <1>1, <1>2, <1>5, <1>6 DEF IInv, TypeOK
<1>8. NotifiedInv' /\ ShownInv'
  BY <1>1, <1>2 DEF IInv, NotifiedInv, ShownInv, Last, tagNamesFor
<1>9. ResultsInv'
  BY <1>1, <1>2, <1>3, ResultsKept
<1>10. QED
  BY <1>2, <1>5, <1>6, <1>7, <1>8, <1>9 DEF IInv

LEMMA TagIs ==
  ASSUME NEW j, NEW s \in Rows
  PROVE  tagNamesFor(j, s) \in Tags
<1>1. "failed" \in Rows /\ statusTag("failed") = "failed"
  BY DEF Rows, JOB_STATUSES, ACTIVE_STATUSES, TERMINAL_STATUSES, statusTag
<1>2. QED
  BY <1>1 DEF Tags, tagNamesFor

LEMMA SetTagsInv == IInv /\ SetTags => IInv'
<1> SUFFICES ASSUME IInv, SetTags PROVE IInv'
  OBVIOUS
<1> DEFINE set == [posts EXCEPT ![target].tag = tagNamesFor(Job, Head(batch).status)]
<1>1. /\ step = "tags"
      /\ UNCHANGED <<table, notified, thread, task, results, dropped>>
      /\ \/ posts' = set /\ After("tags") /\ faults' = faults
         \/ posts' = posts /\ Fails /\ faults' = faults
         \/ posts' = set /\ Fails /\ faults' = faults + 1
  BY DEF SetTags, Calls, Fault
<1>2. LogInv' /\ OutboxInv' /\ UNCHANGED <<status, log, red, outbox>>
  BY <1>1, TableKept
<1>3. batch # <<>> /\ ThreadsStay /\ faults \in Nat /\ faults' \in Nat /\ faults <= faults'
  BY <1>1 DEF IInv, StepInv, ThreadsStay, TypeOK
<1>4. /\ Job \in Jobs /\ Event = <<Job, Event[2]>> /\ Event[2] \in 1 .. Len(log[Job])
      /\ Event \notin notified /\ Head(batch).status \in Rows
      /\ Final(Event, log, status) => Head(batch).status = status[Job]
  BY <1>1, <1>3, HeadFacts DEF IsEvent, Job
<1>5. /\ posts \in Seq(Post) /\ DOMAIN posts = 1 .. Len(posts)
      /\ Len(posts) \in Nat
      /\ target = thread[Job] /\ target \in DOMAIN posts /\ posts[target].job = Job
  BY <1>1, <1>4, PostsFinite DEF IInv, StepInv, ThreadsInv
<1>6. /\ set \in Seq(Post) /\ DOMAIN set = DOMAIN posts
      /\ set[target].tag = tagNamesFor(Job, Head(batch).status)
      /\ \A t \in DOMAIN posts : set[t].job = posts[t].job
      /\ \A t \in DOMAIN posts : t # target => set[t].tag = posts[t].tag
  <2>1. \A t \in 1 .. Len(posts) : posts[t] \in Post
    BY <1>5
  <2>2. [posts[target] EXCEPT !.tag = tagNamesFor(Job, Head(batch).status)] \in Post
    BY <1>4, <1>5, <2>1, TagIs DEF Post
  <2>3. set = [posts EXCEPT ![target] =
                 [posts[target] EXCEPT !.tag = tagNamesFor(Job, Head(batch).status)]]
    OBVIOUS
  <2>4. set \in Seq(Post)
    BY <1>5, <2>2, <2>3, ExceptSeq
  <2>5. QED
    BY <1>5, <2>1, <2>4
<1> HIDE DEF set
<1>7. /\ posts' \in Seq(Post) /\ DOMAIN posts' = DOMAIN posts
      /\ \A t \in DOMAIN posts : posts'[t].job = posts[t].job
      /\ \A t \in DOMAIN posts : t # target => posts'[t].tag = posts[t].tag
  BY <1>1, <1>5, <1>6
<1>8. batch' \in Seq(Entries) /\ target' = target /\ BatchInv' /\ StepInv'
  <2>1. CASE Fails
    <3>1. notified' \in {notified, notified \cup {Event}} /\ UNCHANGED <<status, log, red>>
      BY <1>1, <1>2
    <3>2. QED
      BY <1>3, <2>1, <3>1, GoesOn
  <2>2. CASE posts' = set /\ After("tags")
    <3>1. /\ step' = IF Final(Event, log, status) THEN "result" ELSE "mark"
          /\ batch' = batch /\ target' = target
      BY <1>3, <2>2, AfterIs
    <3>2. Event' = Event /\ Job' = Job
      BY <3>1 DEF Event, Job
    <3>3. target # NoThread
      BY <1>1 DEF IInv, StepInv
    <3>4. Final(Event, log, status)' <=> Final(Event, log, status)
      BY <1>2, <3>2
    <3>5. StepInv'
      BY <1>1, <1>2, <1>3, <1>4, <1>5, <1>6, <2>2, <3>1, <3>2, <3>3, <3>4 DEF StepInv, tagNamesFor
    <3>6. batch' \in Seq(Entries) /\ BatchInv'
      BY <1>1, <1>2, <1>3, <3>1, BatchStays
    <3>7. QED
      BY <3>1, <3>5, <3>6
  <2>3. QED
    BY <1>1, <2>1, <2>2
<1>9. TypeOK'
  BY <1>1, <1>2, <1>3, <1>7, <1>8 DEF IInv, TypeOK
<1>10. NotifiedInv'
  BY <1>1, <1>2 DEF IInv, NotifiedInv
<1>11. ThreadsInv' /\ PostsInv'
  BY <1>1, <1>3, <1>7, ThreadsKept
<1>12. ResultsInv'
  BY <1>1, <1>2, <1>3, ResultsKept
<1>13. ShownInv'
  <2> SUFFICES ASSUME NEW j \in Jobs, isTerminal(status[j]), Last(j) \in notified \ dropped
               PROVE  /\ results[j] # <<>>
                      /\ thread[j] # NoThread
                      /\ posts'[thread[j]].tag = tagNamesFor(j, status[j])
    BY <1>1, <1>2 DEF ShownInv, Last, tagNamesFor
  <2>1. /\ results[j] # <<>> /\ thread[j] # NoThread
        /\ posts[thread[j]].tag = tagNamesFor(j, status[j])
        /\ thread[j] \in DOMAIN posts /\ posts[thread[j]].job = j
    BY DEF IInv, ShownInv, ThreadsInv
  <2>2. thread[j] # target
    <3>1. SUFFICES ASSUME j = Job PROVE FALSE
      BY <1>5, <2>1
    <3>2. <<Job, Len(log[Job])>> \in notified
      BY <3>1 DEF Last
    <3>3. \A e \in notified : \A k \in 1 .. e[2] : <<e[1], k>> \in notified
      BY DEF IInv, NotifiedInv
    <3>4. \A k \in 1 .. Len(log[Job]) : <<Job, k>> \in notified
      BY <3>2, <3>3
    <3>5. <<Job, Event[2]>> \in notified
      BY <1>4, <3>4
    <3>6. QED
      BY <1>4, <3>5
  <2>3. QED
    BY <1>7, <2>1, <2>2
<1>14. QED
  BY <1>2, <1>8, <1>9, <1>10, <1>11, <1>12, <1>13 DEF IInv

LEMMA PostResultInv == IInv /\ PostResult => IInv'
<1> SUFFICES ASSUME IInv, PostResult PROVE IInv'
  OBVIOUS
<1> DEFINE more == [results EXCEPT ![Job] = Append(@, Head(batch).status)]
<1>1. /\ step = "result"
      /\ UNCHANGED <<table, notified, thread, task, posts, dropped>>
      /\ \/ results' = more /\ After("result") /\ faults' = faults
         \/ results' = results /\ Fails /\ faults' = faults
         \/ results' = more /\ Fails /\ faults' = faults + 1
  BY DEF PostResult, Calls, Fault
<1>2. LogInv' /\ OutboxInv' /\ UNCHANGED <<status, log, red, outbox>>
  BY <1>1, TableKept
<1>3. batch # <<>> /\ ThreadsStay /\ faults \in Nat /\ faults' \in Nat /\ faults <= faults'
  BY <1>1 DEF IInv, StepInv, ThreadsStay, TypeOK
<1>4. /\ Job \in Jobs /\ Event \notin notified /\ Event[2] \in Nat
      /\ Event = Last(Job) /\ Event = <<Job, Event[2]>> /\ isTerminal(status[Job])
      /\ Head(batch).status = status[Job] /\ status[Job] \in Rows
      /\ Final(Event, log, status)
      /\ \A k \in 1 .. Event[2] - 1 : <<Job, k>> \in notified
  BY <1>1, <1>3, HeadFacts DEF IInv, StepInv
<1>5. /\ results[Job] \in Seq(Rows) /\ Len(results[Job]) \in Nat
      /\ Job \in DOMAIN results /\ DOMAIN results = Jobs
  <2>1. results \in [Jobs -> Seq(Rows)]
    BY DEF IInv, TypeOK
  <2>2. QED
    BY <1>4, <2>1
<1>6. /\ more \in [Jobs -> Seq(Rows)]
      /\ more[Job] = Append(results[Job], status[Job])
      /\ more[Job] # <<>> /\ Len(more[Job]) = Len(results[Job]) + 1
      /\ \A n \in 1 .. Len(results[Job]) : more[Job][n] = results[Job][n]
      /\ more[Job][Len(results[Job]) + 1] = status[Job]
      /\ \A j \in Jobs : j # Job => more[j] = results[j]
  <2>1. Append(results[Job], status[Job]) \in Seq(Rows)
    BY <1>4, <1>5
  <2>2. more[Job] = Append(results[Job], status[Job])
    BY <1>4, <1>5
  <2>3. results \in [Jobs -> Seq(Rows)]
    BY DEF IInv, TypeOK
  <2>4. more \in [Jobs -> Seq(Rows)] /\ \A j \in Jobs : j # Job => more[j] = results[j]
    BY <1>4, <1>5, <2>1, <2>3
  <2> HIDE DEF more
  <2>5. /\ Len(more[Job]) = Len(results[Job]) + 1
        /\ \A n \in 1 .. Len(results[Job]) : more[Job][n] = results[Job][n]
        /\ more[Job][Len(results[Job]) + 1] = status[Job]
    BY <1>4, <1>5, <2>2, AppendProperties
  <2>6. more[Job] # <<>>
    BY <1>5, <2>5
  <2>7. QED
    BY <2>2, <2>4, <2>5, <2>6
<1> HIDE DEF more
<1>7. batch' \in Seq(Entries) /\ target' = target /\ BatchInv' /\ StepInv'
  <2>1. CASE Fails
    <3>1. notified' \in {notified, notified \cup {Event}} /\ UNCHANGED <<status, log, red>>
      BY <1>1, <1>2
    <3>2. QED
      BY <1>3, <2>1, <3>1, GoesOn
  <2>2. CASE results' = more /\ After("result")
    <3>1. step' = "mark" /\ batch' = batch /\ target' = target
      BY <1>3, <2>2, AfterIs
    <3>2. Event' = Event /\ Job' = Job
      BY <3>1 DEF Event, Job
    <3>3. /\ target = thread[Job] /\ target # NoThread
          /\ posts[target].tag = tagNamesFor(Job, status[Job])
      BY <1>1, <1>4 DEF IInv, StepInv
    <3>4. StepInv'
      BY <1>1, <1>2, <1>3, <1>6, <2>2, <3>1, <3>2, <3>3 DEF StepInv, tagNamesFor
    <3>5. batch' \in Seq(Entries) /\ BatchInv'
      BY <1>1, <1>2, <1>3, <3>1, BatchStays
    <3>6. QED
      BY <3>1, <3>4, <3>5
  <2>3. QED
    BY <1>1, <2>1, <2>2
<1>8. TypeOK'
  BY <1>1, <1>2, <1>3, <1>6, <1>7 DEF IInv, TypeOK
<1>9. NotifiedInv'
  BY <1>1, <1>2 DEF IInv, NotifiedInv
<1>10. ThreadsInv' /\ PostsInv'
  BY <1>1, <1>3, ThreadsKept
<1>11. ShownInv'
  <2>1. \A j \in Jobs : results[j] # <<>> => results'[j] # <<>>
    BY <1>1, <1>6
  <2>2. QED
    BY <1>1, <1>2, <1>3, <2>1, ShownKept
<1>12. ResultsInv'
  <2>1. CASE results' = results
    BY <1>1, <1>2, <1>3, <2>1, ResultsKept
  <2>2. CASE /\ results' = more
             /\ (step' = "mark" /\ batch' = batch) \/ faults + 1 <= faults'
    <3> SUFFICES ASSUME NEW j \in Jobs
                 PROVE  /\ results'[j] # <<>> =>
                             /\ isTerminal(status[j])
                             /\ \A k \in 1 .. Len(log[j]) - 1 : <<j, k>> \in notified
                        /\ \A n \in 1 .. Len(results'[j]) : results'[j][n] = status[j]
                        /\ Len(results'[j]) <=
                             faults' + (IF Last(j) \in notified
                                           \/ (step' = "mark" /\ Event' = Last(j))
                                        THEN 1 ELSE 0)
      BY <1>1, <1>2 DEF ResultsInv, Last
    <3>1. /\ results[j] # <<>> =>
               isTerminal(status[j]) /\ \A k \in 1 .. Len(log[j]) - 1 : <<j, k>> \in notified
          /\ \A n \in 1 .. Len(results[j]) : results[j][n] = status[j]
          /\ Len(results[j]) <= faults + (IF Last(j) \in notified THEN 1 ELSE 0)
      BY <1>1 DEF IInv, ResultsInv
    <3>2. CASE j # Job
      <4>1. results'[j] = results[j] /\ Len(results[j]) \in Nat
        <5>1. results \in [Jobs -> Seq(Rows)]
          BY DEF IInv, TypeOK
        <5>2. QED
          BY <1>6, <2>2, <3>2, <5>1
      <4>2. Len(results[j]) <= faults' + (IF Last(j) \in notified
                                             \/ (step' = "mark" /\ Event' = Last(j))
                                          THEN 1 ELSE 0)
        BY <1>3, <3>1, <4>1
      <4>3. QED
        BY <3>1, <4>1, <4>2
    <3>3. CASE j = Job
      <4>1. /\ isTerminal(status[j]) /\ Last(j) \notin notified
            /\ \A k \in 1 .. Len(log[j]) - 1 : <<j, k>> \in notified
        <5>1. Event[2] = Len(log[Job])
          BY <1>4 DEF Last
        <5>2. QED
          BY <1>4, <3>3, <5>1
      <4>2. \A n \in 1 .. Len(results'[j]) : results'[j][n] = status[j]
        <5>1. \A n \in 1 .. Len(results'[j]) :
                n \in 1 .. Len(results[Job]) \/ n = Len(results[Job]) + 1
          BY <1>5, <1>6, <2>2, <3>3
        <5>2. QED
          BY <1>6, <2>2, <3>1, <3>3, <5>1
      <4>3. batch' = batch => Event' = Last(j)
        BY <1>4, <3>3 DEF Event
      <4>4. Len(results'[j]) <= faults' + (IF Last(j) \in notified
                                              \/ (step' = "mark" /\ Event' = Last(j))
                                           THEN 1 ELSE 0)
        BY <1>3, <1>5, <1>6, <2>2, <3>1, <3>3, <4>1, <4>3
      <4>5. QED
        BY <4>1, <4>2, <4>4
    <3>4. QED
      BY <3>2, <3>3
  <2>3. After("result") => step' = "mark" /\ batch' = batch
    BY <1>3, AfterIs
  <2>4. QED
    BY <1>1, <1>3, <2>1, <2>2, <2>3
<1>13. QED
  BY <1>2, <1>7, <1>8, <1>9, <1>10, <1>11, <1>12 DEF IInv

LEMMA MarkNotifiedInv == IInv /\ MarkNotified => IInv'
<1> SUFFICES ASSUME IInv, MarkNotified PROVE IInv'
  OBVIOUS
<1>1. /\ step = "mark"
      /\ UNCHANGED <<table, thread, task, posts, results, dropped>>
      /\ \/ notified' = notified \cup {Event} /\ GoOn(Tail(batch)) /\ faults' = faults
         \/ /\ notified' \in {notified, notified \cup {Event}}
            /\ Fails /\ faults' = faults + 1
  BY DEF MarkNotified, Executes, Fault, discord
<1>2. LogInv' /\ OutboxInv' /\ UNCHANGED <<status, log, red, outbox>>
  BY <1>1, TableKept
<1>3. batch # <<>> /\ ThreadsStay /\ faults \in Nat /\ faults' \in Nat /\ faults <= faults'
  BY <1>1 DEF IInv, StepInv, ThreadsStay, TypeOK
<1>4. batch' \in Seq(Entries) /\ target' = target /\ BatchInv' /\ StepInv'
  BY <1>1, <1>2, <1>3, GoesOn
<1>5. NotifiedInv' /\ notified' \in SUBSET (Jobs \X Nat) /\ notified \subseteq notified'
  BY <1>1, <1>2, <1>3, Settles
<1>6. TypeOK'
  BY <1>1, <1>2, <1>3, <1>4, <1>5 DEF IInv, TypeOK
<1>7. ThreadsInv' /\ PostsInv'
  BY <1>1, <1>3, ThreadsKept
<1>8. ResultsInv'
  <2>1. Event \in notified' \/ faults + 1 <= faults'
    BY <1>1, <1>3
  <2>2. QED
    BY <1>1, <1>2, <1>3, <1>5, <2>1, ResultsKept
<1>9. ShownInv'
  <2> SUFFICES ASSUME NEW j \in Jobs, isTerminal(status[j]), Last(j) \in notified' \ dropped
               PROVE  /\ results[j] # <<>>
                      /\ thread[j] # NoThread
                      /\ posts[thread[j]].tag = tagNamesFor(j, status[j])
    BY <1>1, <1>2 DEF ShownInv, Last, tagNamesFor
  <2>1. CASE Last(j) \in notified
    BY <2>1 DEF IInv, ShownInv
  <2>2. CASE Last(j) = Event
    <3>1. j = Job /\ Final(Event, log, status)
      <4>1. j = Job
        BY <2>2 DEF Last, Job
      <4>2. QED
        BY <1>3, <2>2, <4>1, HeadFacts
    <3>2. QED
      BY <1>1, <3>1 DEF IInv, StepInv
  <2>3. QED
    BY <1>1, <2>1, <2>2
<1>10. QED
  BY <1>2, <1>4, <1>5, <1>6, <1>7, <1>8, <1>9 DEF IInv

LEMMA DropEventInv == IInv /\ DropEvent => IInv'
<1> SUFFICES ASSUME IInv, DropEvent PROVE IInv'
  OBVIOUS
<1>1. /\ step = "drop"
      /\ UNCHANGED <<table, thread, task, posts, results>>
      /\ \/ /\ notified' = notified \cup {Event} /\ dropped' = dropped \cup {Event}
            /\ GoOn(Tail(batch)) /\ faults' = faults
         \/ /\ \/ notified' = notified \cup {Event} /\ dropped' = dropped \cup {Event}
               \/ notified' = notified /\ dropped' = dropped
            /\ GoOn(<<>>) /\ faults' = faults + 1
  BY DEF DropEvent, Executes, Fault, discord
<1>2. LogInv' /\ OutboxInv' /\ UNCHANGED <<status, log, red, outbox>>
  BY <1>1, TableKept
<1>3. batch # <<>> /\ ThreadsStay /\ faults \in Nat /\ faults' \in Nat /\ faults <= faults'
  BY <1>1 DEF IInv, StepInv, ThreadsStay, TypeOK
<1>4. batch' \in Seq(Entries) /\ target' = target /\ BatchInv' /\ StepInv'
  BY <1>1, <1>2, <1>3, GoesOn
<1>5. NotifiedInv' /\ notified' \in SUBSET (Jobs \X Nat) /\ notified \subseteq notified'
  BY <1>1, <1>2, <1>3, Settles
<1>6. TypeOK'
  BY <1>1, <1>2, <1>3, <1>4, <1>5 DEF IInv, TypeOK
<1>7. ThreadsInv' /\ PostsInv'
  BY <1>1, <1>3, ThreadsKept
<1>8. ResultsInv'
  BY <1>1, <1>2, <1>3, <1>5, ResultsKept
<1>9. ShownInv'
  <2>1. notified' \ dropped' \subseteq notified \ dropped
    BY <1>1
  <2>2. QED
    BY <1>1, <1>2, <1>3, <2>1, ShownKept
<1>10. QED
  BY <1>2, <1>4, <1>5, <1>6, <1>7, <1>8, <1>9 DEF IInv

LEMMA HandlerInv ==
  ASSUME IInv, NEW i \in Jobs, HandlerEnsuresPost(i)
  PROVE  IInv'
<1>1. /\ StartOrJoin(i)
      /\ UNCHANGED <<table, notified, thread, batch, step, target, posts, results, dropped,
                     faults>>
  BY DEF HandlerEnsuresPost, discord
<1>2. LogInv' /\ OutboxInv' /\ UNCHANGED <<status, log, red, outbox>>
  BY <1>1, TableKept
<1>3. DOMAIN task' = Jobs /\ ThreadsInv' /\ PostsInv'
  BY <1>1, Join
<1>4. Event' = Event /\ Job' = Job
  BY <1>1 DEF Event, Job
<1>5. TypeOK' /\ NotifiedInv' /\ BatchInv'
  BY <1>1, <1>2, <1>3 DEF IInv, TypeOK, NotifiedInv, BatchInv
<1>6. StepInv' /\ ResultsInv' /\ ShownInv'
  BY <1>1, <1>2, <1>4 DEF IInv, StepInv, ResultsInv, ShownInv, Last, tagNamesFor
<1>7. QED
  BY <1>2, <1>3, <1>5, <1>6 DEF IInv

LEMMA RestartInv == IInv /\ Restart => IInv'
<1> SUFFICES ASSUME IInv, Restart PROVE IInv'
  OBVIOUS
<1>1. /\ batch' = <<>> /\ step' = "idle" /\ target' = NoThread
      /\ task' = [j \in Jobs |-> NoTask] /\ faults' = faults + 1
      /\ UNCHANGED <<table, notified, thread, posts, results, dropped>>
  BY DEF Restart, Fault, discord
<1>2. LogInv' /\ OutboxInv' /\ UNCHANGED <<status, log, red, outbox>>
  BY <1>1, TableKept
<1>3. faults \in Nat /\ faults' \in Nat /\ faults + 1 <= faults' /\ faults <= faults' /\ ThreadsStay
  BY <1>1 DEF IInv, TypeOK, ThreadsStay
<1>4. batch' \in Seq(Entries) /\ DOMAIN task' = Jobs /\ target' \in Nat
  BY <1>1 DEF NoThread
<1>5. TypeOK'
  BY <1>1, <1>2, <1>3, <1>4 DEF IInv, TypeOK
<1>6. NotifiedInv' /\ ShownInv'
  BY <1>1, <1>2 DEF IInv, NotifiedInv, ShownInv, Last, tagNamesFor
<1>7. BatchInv' /\ StepInv'
  BY <1>1 DEF BatchInv, StepInv, Current, InOrder, Queue
<1>8. ResultsInv'
  BY <1>1, <1>2, <1>3, ResultsKept
<1>9. \A j \in Jobs : task'[j].at = "none"
  BY <1>1 DEF NoTask
<1>10. ThreadsInv'
  BY <1>1, <1>9 DEF IInv, ThreadsInv
<1>11. PostsInv'
  <2> SUFFICES ASSUME NEW j \in Jobs
               PROVE  Cardinality(PostsOf(j)) <=
                        faults' + (IF thread[j] # NoThread \/ task'[j].at = "recording"
                                   THEN 1 ELSE 0)
    BY <1>1 DEF PostsInv, PostsOf
  <2>1. /\ Cardinality(PostsOf(j)) <=
             faults + (IF thread[j] # NoThread \/ task[j].at = "recording" THEN 1 ELSE 0)
        /\ Cardinality(PostsOf(j)) \in Nat
    BY PostsFinite DEF IInv, PostsInv
  <2>2. QED
    BY <1>1, <1>3, <2>1
<1>12. QED
  BY <1>2, <1>5, <1>6, <1>7, <1>8, <1>10, <1>11 DEF IInv

-----------------------------------------------------------------------------
(* The creation of a thread. *)

LEMMA LoopMeets ==
  ASSUME IInv, NEW i \in Jobs, UNCHANGED <<status, log, red, notified, results>>, ThreadsStay,
         thread' \in [Jobs -> Nat], \A t \in DOMAIN posts : posts'[t] = posts[t],
         \/ UNCHANGED <<batch, step, target>>
         \/ Awaited(i) /\ Fails
         \/ Awaited(i) /\ thread'[i] # NoThread /\ HasThread(thread'[i])
  PROVE  /\ batch' \in Seq(Entries) /\ target' \in Nat /\ BatchInv' /\ StepInv'
         /\ step # "mark" \/ (step' = "mark" /\ batch' = batch)
<1>1. batch \in Seq(Entries) /\ target \in Nat
  BY DEF IInv, TypeOK
<1>2. CASE UNCHANGED <<batch, step, target>>
  <2>1. batch' \in Seq(Entries) /\ BatchInv'
    BY <1>2, BatchStays
  <2>2. Event' = Event /\ Job' = Job
    BY <1>2 DEF Event, Job
  <2>3. StepInv'
    <3>1. CASE step \in {"tags", "result", "mark"}
      <4>1. batch # <<>> /\ target = thread[Job] /\ target # NoThread
        BY <3>1 DEF IInv, StepInv
      <4>2. Job \in Jobs
        BY <4>1, HeadFacts
      <4>3. thread'[Job] = thread[Job] /\ posts'[target] = posts[target]
        BY <4>1, <4>2 DEF ThreadsStay, IInv, ThreadsInv
      <4>4. Final(Event, log, status)' <=> Final(Event, log, status)
        BY <2>2
      <4>5. QED
        BY <1>2, <2>2, <4>1, <4>3, <4>4 DEF IInv, StepInv, tagNamesFor
    <3>2. CASE step \notin {"tags", "result", "mark"}
      BY <1>2, <3>2 DEF IInv, StepInv
    <3>3. QED
      BY <3>1, <3>2
  <2>4. QED
    BY <1>1, <1>2, <2>1, <2>3
<1>3. CASE Awaited(i) /\ Fails
  <2>1. step = "waiting" /\ batch # <<>>
    BY <1>3 DEF Awaited, IInv, StepInv
  <2>2. batch' \in Seq(Entries) /\ target' = target /\ BatchInv' /\ StepInv'
    BY <1>3, <2>1, GoesOn
  <2>3. QED
    BY <1>1, <2>1, <2>2
<1>4. CASE Awaited(i) /\ thread'[i] # NoThread /\ HasThread(thread'[i])
  <2>1. step = "waiting" /\ batch # <<>> /\ Job = i
    BY <1>4 DEF Awaited, IInv, StepInv
  <2>2. StepInv' /\ target' = thread'[i] /\ batch' = batch
    BY <1>4, <2>1, HasThreadIs
  <2>3. batch' \in Seq(Entries) /\ BatchInv'
    BY <2>1, <2>2, BatchStays
  <2>4. QED
    BY <2>1, <2>2, <2>3
<1>5. QED
  BY <1>2, <1>3, <1>4

(* A thread more for i is free if i had none in sight and has one now. *)
InSight(j) == thread[j] # NoThread \/ task[j].at = "recording"

LEMMA PostsMove ==
  ASSUME IInv, NEW i \in Jobs, faults' \in Nat, faults <= faults',
         \A j \in Jobs : j # i => thread'[j] = thread[j] /\ task'[j] = task[j],
         \/ posts' = posts /\ (InSight(i) => InSight(i)' \/ faults + 1 <= faults')
         \/ /\ \E tag \in Tags : posts' = Append(posts, [job |-> i, tag |-> tag])
            /\ ~InSight(i) /\ (InSight(i)' \/ faults + 1 <= faults')
  PROVE  PostsInv'
<1> SUFFICES ASSUME NEW j \in Jobs
             PROVE  Cardinality(PostsOf(j)') <= faults' + (IF InSight(j)' THEN 1 ELSE 0)
  BY DEF PostsInv, InSight
<1>1. /\ Cardinality(PostsOf(j)) <= faults + (IF InSight(j) THEN 1 ELSE 0)
      /\ Cardinality(PostsOf(j)) \in Nat /\ IsFiniteSet(PostsOf(j)) /\ faults \in Nat
      /\ posts \in Seq(Post) /\ Len(posts) \in Nat /\ DOMAIN posts = 1 .. Len(posts)
  BY PostsFinite DEF IInv, PostsInv, TypeOK, InSight
<1>o. j # i => (InSight(j)' <=> InSight(j))
  BY DEF InSight
<1>2. CASE posts' = posts
  <2>1. PostsOf(j)' = PostsOf(j)
    BY <1>2 DEF PostsOf
  <2>2. CASE j # i
    BY <1>1, <1>o, <2>1, <2>2
  <2>3. CASE j = i /\ (InSight(i) => InSight(i)' \/ faults + 1 <= faults')
    BY <1>1, <2>1, <2>3
  <2>4. CASE ~InSight(i) /\ (InSight(i)' \/ faults + 1 <= faults')
    BY <1>1, <2>1, <2>2, <2>4
  <2>5. QED
    BY <2>2, <2>3, <2>4
<1>3. ASSUME NEW tag \in Tags, posts' = Append(posts, [job |-> i, tag |-> tag]),
             ~InSight(i), InSight(i)' \/ faults + 1 <= faults'
      PROVE  Cardinality(PostsOf(j)') <= faults' + (IF InSight(j)' THEN 1 ELSE 0)
  <2> DEFINE r == [job |-> i, tag |-> tag]
  <2>0. posts' = Append(posts, r) /\ r.job = i /\ r \in Post
    BY <1>3 DEF Post
  <2> HIDE DEF r
  <2>1. /\ DOMAIN posts' = 1 .. Len(posts) + 1
        /\ \A t \in 1 .. Len(posts) : posts'[t] = posts[t]
        /\ posts'[Len(posts) + 1] = r
    <3>1. posts' \in Seq(Post) /\ Len(posts') = Len(posts) + 1
      BY <1>1, <2>0, AppendProperties
    <3>2. DOMAIN posts' = 1 .. Len(posts) + 1
      BY <3>1, LenProperties
    <3>3. \A n \in 1 .. Len(posts) : posts'[n] = posts[n]
      <4>1. posts \in Seq(Post) /\ r \in Post
        BY <1>1, <2>0
      <4>2. \A n \in 1 .. Len(posts) : Append(posts, r)[n] = posts[n]
        BY <4>1, AppendProperties
      <4>3. QED
        BY <2>0, <4>2
    <3>4. posts'[Len(posts) + 1] = r
      BY <1>1, <2>0, AppendProperties
    <3>5. QED
      BY <3>2, <3>3, <3>4
  <2>2. posts'[Len(posts) + 1].job = i
    BY <2>0, <2>1
  <2>3. \A t \in 1 .. Len(posts) + 1 : t \in 1 .. Len(posts) \/ t = Len(posts) + 1
    BY <1>1
  <2>4. CASE j # i
    <3>1. PostsOf(j)' = PostsOf(j)
      BY <1>1, <2>1, <2>2, <2>3, <2>4 DEF PostsOf
    <3>2. QED
      BY <1>1, <1>o, <2>4, <3>1
  <2>5. CASE j = i
    <3>1. PostsOf(j)' = PostsOf(j) \cup {Len(posts) + 1}
      BY <1>1, <2>1, <2>2, <2>3, <2>5 DEF PostsOf
    <3> DEFINE P == PostsOf(j)
               c == Cardinality(P)
    <3>2. IsFiniteSet(P) /\ c \in Nat
      BY <1>1
    <3> HIDE DEF P
    <3>3. Cardinality(P \cup {Len(posts) + 1}) \in {c, c + 1}
      BY <3>2, FS_AddElement
    <3>4. Cardinality(PostsOf(j)') \in {c, c + 1}
      BY <3>1, <3>3 DEF P
    <3>5. c <= faults
      <4>1. ~InSight(j)
        BY <1>3, <2>5, Zenon
      <4>2. (IF InSight(j) THEN 1 ELSE 0) = 0
        BY <4>1, Zenon
      <4>3. QED
        BY <1>1, <4>2 DEF P
    <3> HIDE DEF c
    <3>6. CASE faults + 1 <= faults'
      BY <1>1, <3>2, <3>4, <3>5, <3>6
    <3>7. CASE InSight(j)'
      BY <1>1, <3>2, <3>4, <3>5, <3>7
    <3>8. QED
      BY <1>3, <2>5, <3>6, <3>7
  <2>6. QED
    BY <2>4, <2>5
<1>4. QED
  BY <1>2, <1>3

LEMMA ReadJobInv ==
  ASSUME IInv, NEW i \in Jobs, ReadJob(i)
  PROVE  IInv'
<1>1. /\ task[i].at = "reading"
      /\ UNCHANGED <<table, notified, thread, posts, results, dropped>>
      /\ \/ thread[i] # NoThread /\ Resolves(i, thread[i]) /\ faults' = faults
         \/ /\ thread[i] = NoThread
            /\ task' = [task EXCEPT ![i] = [at |-> "creating", status |-> status[i]]]
            /\ UNCHANGED <<batch, step, target>> /\ faults' = faults
         \/ Rejects(i) /\ faults' = faults + 1
  BY DEF ReadJob, Fault, discord
<1>2. LogInv' /\ OutboxInv' /\ UNCHANGED <<status, log, red, outbox>>
  BY <1>1, TableKept
<1>3. /\ ThreadsStay /\ faults \in Nat /\ faults' \in Nat /\ faults <= faults'
      /\ thread \in [Jobs -> Nat] /\ DOMAIN task = Jobs /\ status[i] \in Rows
  BY <1>1 DEF IInv, ThreadsStay, TypeOK
<1>4. /\ DOMAIN task' = Jobs /\ \A j \in Jobs : j # i => task'[j] = task[j]
      /\ \/ task'[i] = NoTask
         \/ thread[i] = NoThread /\ task'[i] = [at |-> "creating", status |-> status[i]]
  BY <1>1, <1>3 DEF Resolves, Rejects
<1>5. /\ task'[i].at \in {"none", "creating"}
      /\ task'[i].at = "creating" => thread[i] = NoThread /\ task'[i].status = status[i]
  BY <1>4 DEF NoTask
<1>6. /\ batch' \in Seq(Entries) /\ target' \in Nat /\ BatchInv' /\ StepInv'
      /\ step # "mark" \/ (step' = "mark" /\ batch' = batch)
  <2>1. \/ UNCHANGED <<batch, step, target>>
        \/ Awaited(i) /\ Fails
        \/ Awaited(i) /\ thread'[i] # NoThread /\ HasThread(thread'[i])
    BY <1>1 DEF Resolves, Rejects
  <2>2. QED
    BY <1>1, <1>2, <1>3, <2>1, LoopMeets
<1>7. TypeOK'
  BY <1>1, <1>2, <1>3, <1>4, <1>6 DEF IInv, TypeOK
<1>8. NotifiedInv' /\ ShownInv'
  BY <1>1, <1>2 DEF IInv, NotifiedInv, ShownInv, Last, tagNamesFor
<1>9. ThreadsInv'
  BY <1>1, <1>3, <1>4, <1>5 DEF IInv, ThreadsInv
<1>10. PostsInv'
  <2>1. InSight(i) => InSight(i)'
    BY <1>1 DEF InSight
  <2>2. QED
    BY <1>1, <1>3, <1>4, <2>1, PostsMove
<1>11. ResultsInv'
  BY <1>1, <1>2, <1>3, <1>6, ResultsKept
<1>12. QED
  BY <1>2, <1>6, <1>7, <1>8, <1>9, <1>10, <1>11 DEF IInv

LEMMA CreatePostInv ==
  ASSUME IInv, NEW i \in Jobs, CreatePost(i)
  PROVE  IInv'
<1> DEFINE tag == tagNamesFor(i, task[i].status)
           more == Append(posts, [job |-> i, tag |-> tag])
<1>1. /\ task[i].at = "creating"
      /\ UNCHANGED <<table, notified, thread, results, dropped>>
      /\ \/ /\ posts' = more /\ faults' = faults /\ UNCHANGED <<batch, step, target>>
            /\ task' = [task EXCEPT ![i] = [at |-> "recording", thread |-> Len(posts) + 1]]
         \/ posts' = posts /\ Rejects(i) /\ faults' = faults
         \/ posts' = more /\ Rejects(i) /\ faults' = faults + 1
  BY DEF CreatePost, Calls, Fault
<1>2. LogInv' /\ OutboxInv' /\ UNCHANGED <<status, log, red, outbox>>
  BY <1>1, TableKept
<1>3. /\ ThreadsStay /\ faults \in Nat /\ faults' \in Nat /\ faults <= faults'
      /\ thread \in [Jobs -> Nat] /\ DOMAIN task = Jobs
      /\ thread[i] = NoThread /\ task[i].status \in Rows /\ ~InSight(i)
  BY <1>1 DEF IInv, ThreadsStay, TypeOK, ThreadsInv, InSight
<1>4. /\ posts \in Seq(Post) /\ Len(posts) \in Nat /\ DOMAIN posts = 1 .. Len(posts)
  BY PostsFinite
<1>5. /\ more \in Seq(Post) /\ DOMAIN more = 1 .. Len(posts) + 1
      /\ \A t \in 1 .. Len(posts) : more[t] = posts[t]
      /\ more[Len(posts) + 1] = [job |-> i, tag |-> tag]
  <2>1. [job |-> i, tag |-> tag] \in Post
    BY <1>3, TagIs DEF Post
  <2> HIDE DEF tag
  <2>2. QED
    BY <1>4, <2>1
<1>6. \E g \in Tags : more = Append(posts, [job |-> i, tag |-> g])
  BY <1>3, TagIs
<1>7. more[Len(posts) + 1].job = i
  BY <1>5
<1> HIDE DEF more, tag
<1>8. /\ posts' \in Seq(Post) /\ DOMAIN posts \subseteq DOMAIN posts'
      /\ \A t \in DOMAIN posts : posts'[t] = posts[t]
  BY <1>1, <1>4, <1>5
<1>9. /\ DOMAIN task' = Jobs /\ \A j \in Jobs : j # i => task'[j] = task[j]
      /\ \/ task'[i] = NoTask
         \/ posts' = more /\ task'[i] = [at |-> "recording", thread |-> Len(posts) + 1]
  BY <1>1, <1>3 DEF Rejects
<1>10. /\ task'[i].at \in {"none", "recording"}
       /\ task'[i].at = "recording" =>
            task'[i].thread \in DOMAIN posts' /\ posts'[task'[i].thread].job = i
  BY <1>4, <1>5, <1>7, <1>9 DEF NoTask
<1>11. /\ batch' \in Seq(Entries) /\ target' \in Nat /\ BatchInv' /\ StepInv'
       /\ step # "mark" \/ (step' = "mark" /\ batch' = batch)
  <2>1. UNCHANGED <<batch, step, target>> \/ (Awaited(i) /\ Fails)
    BY <1>1 DEF Rejects
  <2>2. QED
    BY <1>1, <1>2, <1>3, <1>8, <2>1, LoopMeets
<1>12. TypeOK'
  BY <1>1, <1>2, <1>3, <1>8, <1>9, <1>11 DEF IInv, TypeOK
<1>13. NotifiedInv'
  BY <1>1, <1>2 DEF IInv, NotifiedInv
<1>14. ThreadsInv'
  <2>1. \A j \in Jobs : thread[j] # NoThread =>
          thread[j] \in DOMAIN posts' /\ posts'[thread[j]].job = j
    BY <1>8 DEF IInv, ThreadsInv
  <2>2. \A j \in Jobs : j # i /\ task[j].at = "recording" =>
          task[j].thread \in DOMAIN posts' /\ posts'[task[j].thread].job = j
    BY <1>8 DEF IInv, ThreadsInv
  <2>3. QED
    BY <1>1, <1>3, <1>9, <1>10, <2>1, <2>2 DEF IInv, ThreadsInv
<1>15. PostsInv'
  <2>1. posts' = more => InSight(i)' \/ faults + 1 <= faults'
    <3>1. more # posts
      BY <1>4, <1>5
    <3>2. QED
      BY <1>1, <1>3, <3>1 DEF InSight
  <2>2. \/ posts' = posts
        \/ \E g \in Tags : posts' = Append(posts, [job |-> i, tag |-> g])
    BY <1>1, <1>6
  <2>3. posts' = posts \/ posts' = more
    BY <1>1
  <2>4. CASE posts' = posts
    BY <1>1, <1>3, <1>9, <2>4, PostsMove
  <2>5. CASE posts' = more
    BY <1>1, <1>3, <1>6, <1>9, <2>1, <2>5, PostsMove
  <2>6. QED
    BY <2>3, <2>4, <2>5
<1>16. ResultsInv'
  BY <1>1, <1>2, <1>3, <1>11, ResultsKept
<1>17. ShownInv'
  BY <1>1, <1>2, <1>3, <1>8, ShownKept
<1>18. QED
  BY <1>2, <1>11, <1>12, <1>13, <1>14, <1>15, <1>16, <1>17 DEF IInv

LEMMA SetDiscordThreadInv ==
  ASSUME IInv, NEW i \in Jobs, SetDiscordThread(i)
  PROVE  IInv'
<1> DEFINE t == task[i].thread
<1>1. /\ task[i].at = "recording"
      /\ UNCHANGED <<table, notified, posts, results, dropped>>
      /\ \/ thread' = [thread EXCEPT ![i] = t] /\ Resolves(i, t) /\ faults' = faults
         \/ /\ thread' = [thread EXCEPT ![i] = t] \/ thread' = thread
            /\ Rejects(i) /\ faults' = faults + 1
  BY DEF SetDiscordThread, Executes, Fault, discord
<1>2. LogInv' /\ OutboxInv' /\ UNCHANGED <<status, log, red, outbox>>
  BY <1>1, TableKept
<1>3. /\ faults \in Nat /\ faults' \in Nat /\ faults <= faults'
      /\ thread \in [Jobs -> Nat] /\ DOMAIN task = Jobs
      /\ thread[i] = NoThread
      /\ t \in DOMAIN posts /\ posts[t].job = i /\ t # NoThread /\ t \in Nat
  <2>1. DOMAIN posts = 1 .. Len(posts) /\ Len(posts) \in Nat
    BY PostsFinite
  <2>2. QED
    BY <1>1, <2>1 DEF IInv, TypeOK, ThreadsInv, NoThread
<1> HIDE DEF t
<1>4. /\ thread' \in [Jobs -> Nat] /\ ThreadsStay
      /\ \A j \in Jobs : j # i => thread'[j] = thread[j]
      /\ thread'[i] = t \/ (thread'[i] = NoThread /\ faults' = faults + 1)
  BY <1>1, <1>3 DEF ThreadsStay
<1>5. /\ DOMAIN task' = Jobs /\ \A j \in Jobs : j # i => task'[j] = task[j]
      /\ task'[i] = NoTask
  BY <1>1, <1>3 DEF Resolves, Rejects
<1>6. task'[i].at = "none"
  BY <1>5 DEF NoTask
<1>7. /\ batch' \in Seq(Entries) /\ target' \in Nat /\ BatchInv' /\ StepInv'
      /\ step # "mark" \/ (step' = "mark" /\ batch' = batch)
  <2>1. \/ UNCHANGED <<batch, step, target>>
        \/ Awaited(i) /\ Fails
        \/ Awaited(i) /\ thread'[i] # NoThread /\ HasThread(thread'[i])
    BY <1>1, <1>3 DEF Resolves, Rejects
  <2>2. QED
    BY <1>1, <1>2, <1>4, <2>1, LoopMeets
<1>8. TypeOK'
  BY <1>1, <1>2, <1>3, <1>4, <1>5, <1>7 DEF IInv, TypeOK
<1>9. NotifiedInv'
  BY <1>1, <1>2 DEF IInv, NotifiedInv
<1>10. ThreadsInv'
  BY <1>1, <1>3, <1>4, <1>5, <1>6 DEF IInv, ThreadsInv
<1>11. PostsInv'
  <2>1. InSight(i)' \/ faults + 1 <= faults'
    BY <1>3, <1>4 DEF InSight
  <2>2. QED
    BY <1>1, <1>3, <1>4, <1>5, <2>1, PostsMove
<1>12. ResultsInv'
  BY <1>1, <1>2, <1>3, <1>7, ResultsKept
<1>13. ShownInv'
  BY <1>1, <1>2, <1>4, ShownKept
<1>14. QED
  BY <1>2, <1>7, <1>8, <1>9, <1>10, <1>11, <1>12, <1>13 DEF IInv

-----------------------------------------------------------------------------
(* The specification. *)

LEMMA InitInv == Init => IInv
<1> SUFFICES ASSUME Init PROVE IInv
  OBVIOUS
<1>1. /\ status = [j \in Jobs |-> Absent] /\ log = [j \in Jobs |-> <<>>]
      /\ outbox = <<>> /\ notified = {} /\ dropped = {}
      /\ thread = [j \in Jobs |-> NoThread] /\ target = NoThread
      /\ batch = <<>> /\ step = "idle" /\ task = [j \in Jobs |-> NoTask]
      /\ posts = <<>> /\ results = [j \in Jobs |-> <<>>] /\ faults = 0
  BY DEF Init, Table!Init, Table!Absent, Absent
<1>2. NoThread \in Nat /\ NoTask.at = "none" /\ ~isTerminal(Absent)
  BY DEF NoThread, NoTask, isTerminal, TERMINAL_STATUSES, Absent
<1>3. TypeOK
  BY <1>1, <1>2 DEF TypeOK, Rows
<1>4. LogInv /\ OutboxInv /\ NotifiedInv
  BY <1>1 DEF LogInv, OutboxInv, NotifiedInv, InOrder
<1>5. BatchInv /\ StepInv
  BY <1>1 DEF BatchInv, StepInv, Current, InOrder, Queue
<1>6. \A j \in Jobs : thread[j] = NoThread /\ task[j].at = "none" /\ results[j] = <<>>
  BY <1>1, <1>2
<1>7. ThreadsInv
  BY <1>6 DEF ThreadsInv
<1>8. PostsInv
  <2>1. \A j \in Jobs : PostsOf(j) = {}
    BY <1>1 DEF PostsOf
  <2>2. Cardinality({}) = 0
    BY FS_EmptySet
  <2>3. QED
    BY <1>1, <1>6, <2>1, <2>2 DEF PostsInv
<1>9. ResultsInv /\ ShownInv
  BY <1>1, <1>2, <1>6 DEF ResultsInv, ShownInv
<1>10. QED
  BY <1>3, <1>4, <1>5, <1>7, <1>8, <1>9 DEF IInv

LEMMA NextInv == IInv /\ NotifierAssumption /\ [Next]_vars => IInv'
<1> SUFFICES ASSUME IInv, NotifierAssumption, [Next]_vars PROVE IInv'
  OBVIOUS
<1>1. ASSUME UNCHANGED <<table, notified, thread, bot, discord, dropped, faults>>
      PROVE  IInv'
  <2>1. UNCHANGED <<status, log, red, outbox, notified, thread, batch, step, target, task, posts,
                    results, dropped, faults>>
    BY <1>1 DEF table, bot, discord
  <2>2. Event' = Event /\ Job' = Job
    BY <2>1 DEF Event, Job
  <2>3. TypeOK' /\ LogInv' /\ OutboxInv' /\ NotifiedInv' /\ BatchInv'
    BY <2>1 DEF IInv, TypeOK, LogInv, OutboxInv, NotifiedInv, BatchInv
  <2>4. StepInv' /\ ThreadsInv' /\ PostsInv'
    BY <2>1, <2>2 DEF IInv, StepInv, ThreadsInv, PostsInv, PostsOf, tagNamesFor
  <2>5. ResultsInv' /\ ShownInv'
    BY <2>1, <2>2 DEF IInv, ResultsInv, ShownInv, Last, tagNamesFor
  <2>6. QED
    BY <2>3, <2>4, <2>5 DEF IInv
<1>2. CASE TableMoves
  BY <1>2, TableMovesInv
<1>3. CASE TimePasses
  BY <1>1, <1>3 DEF TimePasses
<1>4. CASE Loop
  BY <1>4, FetchInv, EnsurePostInv, SetTagsInv, PostResultInv, MarkNotifiedInv, DropEventInv
     DEF Loop
<1>5. CASE \E j \in Jobs : HandlerEnsuresPost(j) \/ Creation(j)
  BY <1>5, HandlerInv, ReadJobInv, CreatePostInv, SetDiscordThreadInv DEF Creation
<1>6. CASE Restart
  BY <1>6, RestartInv
<1>7. CASE UNCHANGED vars
  BY <1>1, <1>7 DEF vars
<1>8. QED
  BY <1>2, <1>3, <1>4, <1>5, <1>6, <1>7 DEF Next

(* The bot's bookkeeping: what it holds in memory is a part of the table's events, in
   their order, and what it did in the forum goes with what it marked in the table. *)
THEOREM Safety == Spec => []IInv
<1>1. NotifierAssumption
  BY NotifierAssumption
<1>2. QED
  BY <1>1, InitInv, NextInv, PTL DEF Spec

LEMMA SettledFromIInv == IInv => SettledInOrder
<1> SUFFICES ASSUME IInv, NEW j \in Jobs, NEW k \in 2 .. Len(log[j]),
                    <<j, k>> \in notified \/ (k = Len(log[j]) /\ results[j] # <<>>)
             PROVE  <<j, k - 1>> \in notified
  BY DEF SettledInOrder
<1>1. k \in Nat /\ k - 1 \in 1 .. k /\ k - 1 \in 1 .. k - 1
  OBVIOUS
<1>2. CASE <<j, k>> \in notified
  <2>1. \A e \in notified : \A i \in 1 .. e[2] : <<e[1], i>> \in notified
    BY DEF IInv, NotifiedInv
  <2>2. \A i \in 1 .. k : <<j, i>> \in notified
    BY <1>2, <2>1
  <2>3. QED
    BY <1>1, <2>2
<1>3. CASE k = Len(log[j]) /\ results[j] # <<>>
  BY <1>1, <1>3 DEF IInv, ResultsInv
<1>4. QED
  BY <1>2, <1>3

(* However the ticks, the refusals, the lost answers and the restarts fall, a job's events
   are settled in their order and its result is posted after all the others. *)
THEOREM Order == Spec => []SettledInOrder
BY Safety, SettledFromIInv, PTL

LEMMA PaidFromIInv == IInv => DuplicatesArePaid
<1> SUFFICES ASSUME IInv, NEW j \in Jobs
             PROVE  /\ Cardinality({t \in DOMAIN posts : posts[t].job = j}) <= 1 + faults
                    /\ Len(results[j]) <= 1 + faults
  BY DEF DuplicatesArePaid
<1>1. faults \in Nat /\ Cardinality(PostsOf(j)) \in Nat
  BY PostsFinite DEF IInv, TypeOK
<1>2. Cardinality(PostsOf(j)) <=
        faults + (IF thread[j] # NoThread \/ task[j].at = "recording" THEN 1 ELSE 0)
  BY DEF IInv, PostsInv
<1>3. Cardinality(PostsOf(j)) <= 1 + faults
  BY <1>1, <1>2
<1>4. Len(results[j]) \in Nat
  <2>1. results[j] \in Seq(Rows)
    BY DEF IInv, TypeOK
  <2>2. QED
    BY <2>1
<1>5. Len(results[j]) <=
        faults + (IF Last(j) \in notified \/ (step = "mark" /\ Event = Last(j)) THEN 1 ELSE 0)
  BY DEF IInv, ResultsInv
<1>6. Len(results[j]) <= 1 + faults
  BY <1>1, <1>4, <1>5
<1>7. QED
  BY <1>3, <1>6 DEF PostsOf

(* A job has one thread and one result but for what lost answers, failed statements and
   restarts pay for: neither a refusal nor the race with the command handler makes more. *)
THEOREM Duplicates == Spec => []DuplicatesArePaid
BY Safety, PaidFromIInv, PTL

LEMMA ShownFromIInv == IInv => DeliveredShows
<1> SUFFICES ASSUME IInv, NEW j \in Jobs
             PROVE  /\ \A n \in DOMAIN results[j] :
                         isTerminal(status[j]) /\ results[j][n] = status[j]
                    /\ isTerminal(status[j]) /\ <<j, Len(log[j])>> \in notified \ dropped =>
                         /\ results[j] # <<>>
                         /\ posts[thread[j]].tag = FinalTag(j)
  BY DEF DeliveredShows
<1>1. results[j] \in Seq(Rows)
  BY DEF IInv, TypeOK
<1>2. DOMAIN results[j] = 1 .. Len(results[j])
  BY <1>1
<1>3. \A n \in 1 .. Len(results[j]) : results[j] # <<>>
  BY <1>1
<1>4. isTerminal(status[j]) => tagNamesFor(j, status[j]) = FinalTag(j)
  BY DEF isTerminal, TERMINAL_STATUSES, ACTIVE_STATUSES, tagNamesFor, statusTag, FinalTag
<1>5. QED
  BY <1>2, <1>3, <1>4 DEF IInv, ResultsInv, ShownInv, Last

(* What the forum shows of a job whose last event was delivered is how the job ended. *)
THEOREM Delivered == Spec => []DeliveredShows
BY Safety, ShownFromIInv, PTL
=============================================================================
