-------------------------- MODULE AgentLoopProofs --------------------------
(***************************************************************************)
(* Theorems about AgentLoop: the budgets, the bookkeeping, the step count  *)
(* and the transcript, for any runs, limits and models.                    *)
(***************************************************************************)
EXTENDS AgentLoop, FiniteSetTheorems, SequenceTheorems, TLAPS

Places == {"idle", "top", "asking", "calling", "recording", "tools", "done"}

Reasons ==
  {"none", "aborted", "max_iterations", "timeout", "budget", "blocked", "threw", "no_tool_call",
   "finished"}

Messages == [role : {"user", "assistant", "tool"}, calls : SUBSET Nat, elided : BOOLEAN]

AnyResponse ==
  [kind : {"none", "text", "finish", "tools"}, cost : 0 .. MaxCost, calls : SUBSET Nat,
   invalid : SUBSET Nat]

Typing ==
  /\ at \in [Agents -> Places]
  /\ iterations \in [Agents -> Int]
  /\ costUsd \in [Agents -> Nat]
  /\ modelIndex \in [Agents -> 1 .. Models]
  /\ messages \in [Agents -> Seq(Messages)]
  /\ open \in [Agents -> SUBSET Nat]
  /\ results \in [Agents -> SUBSET Nat]
  /\ response \in [Agents -> AnyResponse]
  /\ reason \in [Agents -> Reasons]
  /\ jobCost \in [Agents -> Nat]
  /\ spent \in Nat
  /\ calls \in [Agents -> Int]
  /\ answered \in [Agents -> Int]

(* What a run has cost, and what of it is booked. *)
Money(a) ==
  /\ at[a] \in {"asking", "calling"} => costUsd[a] < maxUsd
  /\ costUsd[a] < maxUsd + MaxCost
  /\ at[a] # "recording" => response[a] = NoResponse
  /\ at[a] # "done" => reason[a] = "none" /\ jobCost[a] + response[a].cost = costUsd[a]
  /\ jobCost[a] + response[a].cost <= costUsd[a]
  /\ costUsd[a] - jobCost[a] <= MaxCost
  /\ reason[a] # "threw" => jobCost[a] + response[a].cost = costUsd[a]

(* Steps, calls and responses. *)
Counts(a) ==
  /\ at[a] \notin {"calling", "done"} => answered[a] = iterations[a]
  /\ at[a] = "calling" => iterations[a] > 0 /\ answered[a] = iterations[a] - 1
  /\ at[a] # "done" =>
       /\ iterations[a] \in 0 .. maxIterations
       /\ calls[a] - iterations[a] = modelIndex[a] - 1
  /\ at[a] = "asking" => iterations[a] < maxIterations
  /\ calls[a] <= maxIterations + Models - 1

(* The last message of m asks for the answers to ids. *)
Waiting(m, ids) ==
  /\ Len(m) > 0
  /\ m[Len(m)].role = "assistant" /\ m[Len(m)].calls = ids
  /\ \A n \in 1 .. Len(m) - 1 : AcceptedAt(m, n)

(* The transcript, wherever the run stands. *)
Talk(a) ==
  /\ at[a] \notin {"tools", "done"} => Accepted(messages[a])
  /\ at[a] = "tools" =>
       Waiting(messages[a], open[a] \cup results[a]) /\ open[a] \cup results[a] # {}
  /\ RecentAreWhole(messages[a], keepLast)
  /\ at[a] = "recording" /\ response[a].kind = "text" => response[a].calls = {}
  /\ at[a] = "recording" /\ response[a].kind = "tools" => response[a].calls # {}

IInv == Typing /\ \A a \in Agents : Money(a) /\ Counts(a) /\ Talk(a)

-----------------------------------------------------------------------------
(* Transcripts. *)

LEMMA MessageTypes ==
  ASSUME NEW ids \in SUBSET Nat
  PROVE  User \in Messages /\ Assistant(ids) \in Messages /\ Tool(ids) \in Messages
BY DEF User, Assistant, Tool, Message, Messages

(* What the SDK answers in the loop's place never gets into the transcript. *)
LEMMA OnlyTheAssistant ==
  ASSUME NEW ids, NEW invalid
  PROVE  responseMessages(sdkMessages(ids, invalid)) = <<Assistant(ids)>>
BY DEF responseMessages, sdkMessages

LEMMA NothingIsAnswered ==
  ASSUME NEW ids, NEW invalid
  PROVE  answeredIn(responseMessages(sdkMessages(ids, invalid))) = {}
<1>1. \A n \in DOMAIN <<Assistant(ids)>> : <<Assistant(ids)>>[n].role # "tool"
  BY DEF Assistant, Message
<1> QED  BY <1>1, OnlyTheAssistant DEF answeredIn

LEMMA Appended ==
  ASSUME NEW m \in Seq(Messages), NEW x \in Messages
  PROVE  /\ Append(m, x) \in Seq(Messages)
         /\ Len(Append(m, x)) = Len(m) + 1
         /\ DOMAIN Append(m, x) = 1 .. Len(m) + 1
         /\ \A n \in 1 .. Len(m) : Append(m, x)[n] = m[n]
         /\ Append(m, x)[Len(m) + 1] = x
BY AppendProperties, LenProperties

LEMMA AssistantAsks ==
  ASSUME NEW m \in Seq(Messages), NEW ids \in SUBSET Nat, Accepted(m)
  PROVE  Waiting(Append(m, Assistant(ids)), ids)
<1> DEFINE x == Assistant(ids)
           am == Append(m, x)
<1>1. x \in Messages /\ x.role = "assistant" /\ x.calls = ids
  BY MessageTypes DEF Assistant, Message
<1>2. Len(m) \in Nat /\ DOMAIN m = 1 .. Len(m)
  BY LenProperties
<1>3. /\ Len(am) = Len(m) + 1
      /\ \A n \in 1 .. Len(m) : am[n] = m[n]
      /\ am[Len(m) + 1] = x
  BY <1>1, Appended
<1>4. ASSUME NEW n \in 1 .. Len(am) - 1 PROVE AcceptedAt(am, n)
  <2>1. n \in 1 .. Len(m) /\ AcceptedAt(m, n)
    BY <1>2, <1>3 DEF Accepted
  <2> HIDE DEF am
  <2> QED  BY <2>1, <1>2, <1>3 DEF AcceptedAt
<1> HIDE DEF am, x
<1> QED  BY <1>1, <1>2, <1>3, <1>4 DEF Waiting, am, x

LEMMA Answered ==
  ASSUME NEW m \in Seq(Messages), NEW ids, Waiting(m, ids), NEW x \in Messages,
         x.calls = ids,
         x.role = IF ids = {} THEN "user" ELSE "tool"
  PROVE  Accepted(Append(m, x))
<1> DEFINE am == Append(m, x)
<1>1. Len(m) \in Nat /\ DOMAIN m = 1 .. Len(m) /\ Len(m) > 0
  BY LenProperties DEF Waiting
<1>2. /\ Len(am) = Len(m) + 1
      /\ DOMAIN am = 1 .. Len(m) + 1
      /\ \A n \in 1 .. Len(m) : am[n] = m[n]
      /\ am[Len(m) + 1] = x
  BY Appended
<1> HIDE DEF am
<1> SUFFICES ASSUME NEW n \in 1 .. Len(m) + 1 PROVE AcceptedAt(am, n)
  BY <1>2 DEF Accepted, am
<1>3. CASE n < Len(m)
  <2>1. AcceptedAt(m, n)
    BY <1>1, <1>3 DEF Waiting
  <2> QED  BY <2>1, <1>1, <1>2, <1>3 DEF AcceptedAt
<1>4. CASE n = Len(m)
  <2>1. m[n].role = "assistant" /\ m[n].calls = ids
    BY <1>4 DEF Waiting
  <2> QED  BY <2>1, <1>1, <1>2, <1>4 DEF AcceptedAt
<1>5. CASE n = Len(m) + 1
  <2>1. m[Len(m)].role = "assistant"
    BY DEF Waiting
  <2> QED  BY <2>1, <1>1, <1>2, <1>5 DEF AcceptedAt
<1>6. n < Len(m) \/ n = Len(m) \/ n = Len(m) + 1
  <2>1. Len(m) \in Nat
    BY LenProperties
  <2>2. \A k \in Nat : \A i \in 1 .. k + 1 : i < k \/ i = k \/ i = k + 1
    OBVIOUS
  <2> QED  BY <2>1, <2>2
<1> QED  BY <1>3, <1>4, <1>5, <1>6

LEMMA UserMaySpeak ==
  ASSUME NEW m \in Seq(Messages), Accepted(m)
  PROVE  Accepted(Append(m, User))
<1> DEFINE am == Append(m, User)
<1>1. Len(m) \in Nat /\ DOMAIN m = 1 .. Len(m)
  BY LenProperties
<1>2. User \in Messages /\ User.role = "user"
  BY MessageTypes DEF User, Message
<1>3. /\ Len(am) = Len(m) + 1
      /\ DOMAIN am = 1 .. Len(m) + 1
      /\ \A n \in 1 .. Len(m) : am[n] = m[n]
      /\ am[Len(m) + 1] = User
  BY <1>2, Appended
<1> HIDE DEF am
<1> SUFFICES ASSUME NEW n \in 1 .. Len(m) + 1 PROVE AcceptedAt(am, n)
  BY <1>3 DEF Accepted, am
<1>4. CASE n <= Len(m)
  <2>1. AcceptedAt(m, n)
    BY <1>1, <1>4 DEF Accepted
  <2> QED  BY <2>1, <1>1, <1>3, <1>4 DEF AcceptedAt
<1>5. CASE n = Len(m) + 1
  BY <1>2, <1>3, <1>5 DEF AcceptedAt
<1> QED  BY <1>1, <1>4, <1>5

(* Compaction changes neither roles nor calls. *)
LEMMA CompactedAlike ==
  ASSUME NEW m \in Seq(Messages), NEW k \in Nat
  PROVE  LET c == compactToolResults(m, k)
         IN  /\ c \in Seq(Messages)
             /\ Len(c) = Len(m) /\ DOMAIN c = DOMAIN m
             /\ \A n \in DOMAIN m : c[n].role = m[n].role /\ c[n].calls = m[n].calls
             /\ toolIndexes(c) = toolIndexes(m)
             /\ \A n \in DOMAIN m :
                  c[n].elided =>
                    \/ m[n].elided
                    \/ m[n].role = "tool" /\ Cardinality({i \in toolIndexes(m) : i > n}) >= k
<1> DEFINE elide == {n \in toolIndexes(m) : Cardinality({i \in toolIndexes(m) : i > n}) >= k}
           c == [n \in DOMAIN m |-> IF n \in elide THEN [m[n] EXCEPT !.elided = TRUE] ELSE m[n]]
<1>1. c = compactToolResults(m, k)
  BY DEF compactToolResults
<1>2. Len(m) \in Nat /\ DOMAIN m = 1 .. Len(m) /\ \A n \in DOMAIN m : m[n] \in Messages
  BY LenProperties, ElementOfSeq
<1>3. \A n \in DOMAIN m : [m[n] EXCEPT !.elided = TRUE] \in Messages
  BY <1>2 DEF Messages
<1> HIDE DEF elide
<1>4. c \in [1 .. Len(m) -> Messages]
  BY <1>2, <1>3
<1>5. c \in Seq(Messages) /\ Len(c) = Len(m) /\ DOMAIN c = DOMAIN m
  BY <1>2, <1>4
<1>6. \A n \in DOMAIN m : c[n].role = m[n].role /\ c[n].calls = m[n].calls
  BY <1>2 DEF Messages
<1>7. \A n \in DOMAIN m : c[n].elided => m[n].elided \/ n \in elide
  BY <1>2 DEF Messages
<1> HIDE DEF c
<1>8. toolIndexes(c) = toolIndexes(m)
  BY <1>5, <1>6 DEF toolIndexes
<1> QED  BY <1>1, <1>5, <1>6, <1>7, <1>8 DEF elide, toolIndexes

LEMMA CompactedAccepted ==
  ASSUME NEW m \in Seq(Messages), NEW k \in Nat, Accepted(m)
  PROVE  Accepted(compactToolResults(m, k))
<1> DEFINE c == compactToolResults(m, k)
<1>1. /\ Len(c) = Len(m) /\ DOMAIN c = DOMAIN m
      /\ \A n \in DOMAIN m : c[n].role = m[n].role /\ c[n].calls = m[n].calls
  BY CompactedAlike
<1>2. Len(m) \in Nat /\ DOMAIN m = 1 .. Len(m)
  BY LenProperties
<1> HIDE DEF c
<1> SUFFICES ASSUME NEW n \in DOMAIN m PROVE AcceptedAt(c, n)
  BY <1>1 DEF Accepted, c
<1>3. AcceptedAt(m, n)
  BY DEF Accepted
<1> QED  BY <1>1, <1>2, <1>3 DEF AcceptedAt

LEMMA CompactedWhole ==
  ASSUME NEW m \in Seq(Messages), NEW k \in Nat, RecentAreWhole(m, k)
  PROVE  RecentAreWhole(compactToolResults(m, k), k)
<1> DEFINE c == compactToolResults(m, k)
<1>1. /\ DOMAIN c = DOMAIN m
      /\ \A n \in DOMAIN m : c[n].role = m[n].role
      /\ toolIndexes(c) = toolIndexes(m)
      /\ \A n \in DOMAIN m :
           c[n].elided =>
             \/ m[n].elided
             \/ m[n].role = "tool" /\ Cardinality({i \in toolIndexes(m) : i > n}) >= k
  BY CompactedAlike
<1> HIDE DEF c
<1> SUFFICES ASSUME NEW n \in DOMAIN m, c[n].elided
             PROVE  /\ c[n].role = "tool"
                    /\ Cardinality({i \in toolIndexes(c) : i > n}) >= k
  BY <1>1 DEF RecentAreWhole, c
<1>2. m[n].role = "tool" /\ Cardinality({i \in toolIndexes(m) : i > n}) >= k
  BY <1>1 DEF RecentAreWhole
<1> QED  BY <1>1, <1>2

(* A new message only makes the others older. *)
LEMMA AppendedWhole ==
  ASSUME NEW m \in Seq(Messages), NEW x \in Messages, ~x.elided, NEW k \in Nat,
         RecentAreWhole(m, k)
  PROVE  RecentAreWhole(Append(m, x), k)
<1> DEFINE am == Append(m, x)
<1>1. Len(m) \in Nat /\ DOMAIN m = 1 .. Len(m)
  BY LenProperties
<1>2. /\ DOMAIN am = 1 .. Len(m) + 1
      /\ \A n \in 1 .. Len(m) : am[n] = m[n]
      /\ am[Len(m) + 1] = x
  BY Appended
<1> HIDE DEF am
<1> SUFFICES ASSUME NEW n \in DOMAIN am, am[n].elided
             PROVE  /\ am[n].role = "tool"
                    /\ Cardinality({i \in toolIndexes(am) : i > n}) >= k
  BY DEF RecentAreWhole, am
<1> DEFINE before == {i \in toolIndexes(m) : i > n}
           after == {i \in toolIndexes(am) : i > n}
<1>3. n \in DOMAIN m /\ m[n] = am[n]
  BY <1>1, <1>2
<1>4. m[n].role = "tool" /\ Cardinality(before) >= k
  BY <1>3 DEF RecentAreWhole
<1>5. before \subseteq after
  BY <1>1, <1>2 DEF toolIndexes
<1>6. IsFiniteSet(after)
  <2>1. IsFiniteSet(1 .. Len(m) + 1)
    BY <1>1, FS_Interval
  <2>2. after \subseteq 1 .. Len(m) + 1
    BY <1>2 DEF toolIndexes
  <2> QED  BY <2>1, <2>2, FS_Subset
<1>7. Cardinality(before) <= Cardinality(after)
  BY <1>5, <1>6, FS_Subset
<1>8. Cardinality(before) \in Nat /\ Cardinality(after) \in Nat
  BY <1>5, <1>6, FS_Subset, FS_CardinalityType
<1> QED  BY <1>3, <1>4, <1>7, <1>8

-----------------------------------------------------------------------------
(* The inductive invariant. *)

LEMMA Starts ==
  ASSUME Init
  PROVE  IInv
<1>1. User \in Messages /\ User.role = "user" /\ ~User.elided
  BY MessageTypes DEF User, Message
<1>2. <<User>> \in Seq(Messages) /\ Len(<<User>>) = 1 /\ DOMAIN <<User>> = {1}
      /\ <<User>>[1] = User
  BY <1>1
<1>3. NoResponse \in AnyResponse
  BY AgentAssumption DEF NoResponse, AnyResponse
<1>4. Typing
  BY <1>2, <1>3, AgentAssumption DEF Init, Typing, Places, Reasons
<1>5. Accepted(<<User>>) /\ RecentAreWhole(<<User>>, keepLast)
  BY <1>1, <1>2 DEF Accepted, AcceptedAt, RecentAreWhole
<1>6. ASSUME NEW a \in Agents PROVE Money(a) /\ Counts(a) /\ Talk(a)
  <2>1. Money(a)
    BY AgentAssumption DEF Init, Money, NoResponse
  <2>2. Counts(a)
    BY AgentAssumption DEF Init, Counts
  <2>3. Talk(a)
    BY <1>5 DEF Init, Talk
  <2> QED  BY <2>1, <2>2, <2>3
<1> QED  BY <1>4, <1>6 DEF IInv

(* The signal, the deadline and the month disturb nothing. *)
LEMMA WorldKeeps ==
  ASSUME IInv,
         (\E a \in Agents : Abort(a) \/ DeadlinePasses(a)) \/ MonthEnds \/ UNCHANGED vars
  PROVE  IInv'
<1>1. /\ UNCHANGED <<at, iterations, costUsd, modelIndex, messages, open, results, response,
                     reason, jobCost, calls, answered>>
      /\ spent' \in {0, spent}
  BY DEF Abort, DeadlinePasses, MonthEnds, vars, locals, ledger, history
<1>2. Typing'
  BY <1>1 DEF IInv, Typing
<1>3. ASSUME NEW a \in Agents PROVE Money(a)' /\ Counts(a)' /\ Talk(a)'
  BY <1>1 DEF IInv, Money, Counts, Talk
<1> QED  BY <1>2, <1>3 DEF IInv

(* What the other runs have is left alone. *)
Spares(a) ==
  \A b \in Agents \ {a} :
    /\ at'[b] = at[b] /\ iterations'[b] = iterations[b] /\ costUsd'[b] = costUsd[b]
    /\ modelIndex'[b] = modelIndex[b] /\ messages'[b] = messages[b] /\ open'[b] = open[b]
    /\ results'[b] = results[b] /\ response'[b] = response[b] /\ reason'[b] = reason[b]
    /\ jobCost'[b] = jobCost[b] /\ calls'[b] = calls[b] /\ answered'[b] = answered[b]

LEMMA OthersKeep ==
  ASSUME IInv, NEW a \in Agents, Spares(a), Typing', Money(a)', Counts(a)', Talk(a)'
  PROVE  IInv'
<1>1. ASSUME NEW b \in Agents \ {a} PROVE Money(b)' /\ Counts(b)' /\ Talk(b)'
  <2>1. Money(b) /\ Counts(b) /\ Talk(b)
    BY DEF IInv
  <2>2. Money(b)'
    BY <2>1 DEF Spares, Money
  <2>3. Counts(b)'
    BY <2>1 DEF Spares, Counts
  <2>4. Talk(b)'
    BY <2>1 DEF Spares, Talk
  <2> QED  BY <2>2, <2>3, <2>4
<1> QED  BY <1>1 DEF IInv

LEMMA BeginKeeps ==
  ASSUME IInv, NEW a \in Agents, Begin(a)
  PROVE  IInv'
<1> USE DEF Begin, Goto, locals, ledger, history
<1>1. Typing /\ Money(a) /\ Counts(a) /\ Talk(a)
  BY DEF IInv
<1>2. Typing'
  BY <1>1 DEF Typing, Places
<1>3. Spares(a)
  BY <1>1 DEF Typing, Spares
<1>4. at'[a] = "top"
  BY <1>1 DEF Typing
<1>5. Money(a)'
  BY <1>1, <1>4 DEF Money
<1>6. Counts(a)'
  BY <1>1, <1>4 DEF Counts
<1>7. Talk(a)'
  BY <1>1, <1>4 DEF Talk
<1> QED  BY <1>2, <1>3, <1>5, <1>6, <1>7, OthersKeep

LEMMA CheckLimitsKeeps ==
  ASSUME IInv, NEW a \in Agents, CheckLimits(a)
  PROVE  IInv'
<1> USE DEF Goto, Ends, ledger, history
<1>1. Typing /\ Money(a) /\ Counts(a) /\ Talk(a)
  BY DEF IInv
<1>2. Typing'
  BY <1>1 DEF CheckLimits, Typing, Places, Reasons
<1>3. Spares(a)
  BY <1>1 DEF CheckLimits, Typing, Spares
<1>4. /\ at[a] = "top"
      /\ UNCHANGED <<iterations, costUsd, messages, open, results, response, jobCost, calls,
                     answered, modelIndex>>
      /\ \/ at'[a] = "done" /\ reason'[a] # "threw"
         \/ /\ at'[a] = "asking" /\ reason'[a] = reason[a]
            /\ iterations[a] < maxIterations /\ costUsd[a] < maxUsd
  BY <1>1 DEF CheckLimits, Typing
<1>5. Money(a)'
  BY <1>1, <1>4 DEF Money
<1>6. Counts(a)'
  BY <1>1, <1>4 DEF Counts
<1>7. Talk(a)'
  BY <1>1, <1>4 DEF Talk
<1> QED  BY <1>2, <1>3, <1>5, <1>6, <1>7, OthersKeep

LEMMA BeforeStepKeeps ==
  ASSUME IInv, NEW a \in Agents, BeforeStep(a)
  PROVE  IInv'
<1> USE DEF Goto, Ends, ledger, history
<1>1. Typing /\ Money(a) /\ Counts(a) /\ Talk(a)
  BY DEF IInv
<1>2. Typing'
  <2>1. at' \in [Agents -> Places] /\ reason' \in [Agents -> Reasons]
    <3>1. /\ at' = [at EXCEPT ![a] = "done"] \/ at' = [at EXCEPT ![a] = "calling"]
          /\ \/ UNCHANGED reason
             \/ \E why \in {"blocked", "aborted", "threw"} : reason' = [reason EXCEPT ![a] = why]
      BY DEF BeforeStep
    <3> QED  BY <1>1, <3>1 DEF Typing, Places, Reasons
  <2>2. iterations' \in [Agents -> Int] /\ calls' \in [Agents -> Int]
    BY <1>1 DEF BeforeStep, Typing
  <2>3. UNCHANGED <<costUsd, modelIndex, messages, open, results, response, jobCost, spent,
                    answered>>
    BY DEF BeforeStep
  <2> QED  BY <1>1, <2>1, <2>2, <2>3 DEF Typing
<1>3. Spares(a)
  BY <1>1 DEF BeforeStep, Typing, Spares
<1>4. /\ at[a] = "asking"
      /\ UNCHANGED <<costUsd, messages, open, results, response, jobCost, answered, modelIndex>>
      /\ \/ at'[a] = "done" /\ calls'[a] = calls[a]
         \/ /\ at'[a] = "calling" /\ reason'[a] = reason[a]
            /\ iterations'[a] = iterations[a] + 1 /\ calls'[a] = calls[a] + 1
  BY <1>1 DEF BeforeStep, Typing
<1>5. Money(a)'
  BY <1>1, <1>4 DEF Money
<1>6. Counts(a)'
  <2>1. /\ answered[a] = iterations[a] /\ iterations[a] \in 0 .. maxIterations - 1
        /\ calls[a] - iterations[a] = modelIndex[a] - 1 /\ modelIndex[a] \in 1 .. Models
        /\ calls[a] \in Int
    BY <1>1, <1>4, AgentAssumption DEF Counts, Typing
  <2>2. CASE at'[a] = "done"
    BY <2>2, <1>1, <1>4 DEF Counts
  <2>3. CASE at'[a] = "calling"
    <3>1. /\ iterations'[a] = iterations[a] + 1 /\ calls'[a] = calls[a] + 1
          /\ answered'[a] = answered[a] /\ modelIndex'[a] = modelIndex[a]
      BY <2>3, <1>4
    <3>2. maxIterations \in Nat /\ Models \in Nat
      BY AgentAssumption
    <3>3. /\ iterations'[a] > 0 /\ answered'[a] = iterations'[a] - 1
          /\ iterations'[a] \in 0 .. maxIterations
          /\ calls'[a] - iterations'[a] = modelIndex'[a] - 1
          /\ calls'[a] <= maxIterations + Models - 1
      BY <2>1, <3>1, <3>2
    <3> QED  BY <2>3, <3>3 DEF Counts
  <2> QED  BY <2>2, <2>3, <1>4
<1>7. Talk(a)'
  BY <1>1, <1>4 DEF Talk
<1> QED  BY <1>2, <1>3, <1>5, <1>6, <1>7, OthersKeep

LEMMA ResponseTypes ==
  ASSUME NEW c \in 0 .. MaxCost, NEW r \in Responses(c)
  PROVE  /\ r \in AnyResponse /\ r.cost = c /\ r.kind # "none"
         /\ r.kind = "text" => r.calls = {}
         /\ r.kind = "tools" => r.calls # {}
<1>1. CASE r \in {Response("text", c, {}, {}), Response("finish", c, {1}, {})}
  BY <1>1 DEF Response, AnyResponse
<1>2. CASE \E n \in 1 .. MaxToolCalls, k \in 0 .. MaxToolCalls :
             r = Response("tools", c, 1 .. n, 1 .. k)
  <2>1. PICK n \in 1 .. MaxToolCalls, k \in 0 .. MaxToolCalls :
               r = Response("tools", c, 1 .. n, 1 .. k)
    BY <1>2
  <2>2. n \in Nat \ {0} /\ k \in Nat
    BY AgentAssumption
  <2>3. 1 .. n \in SUBSET Nat /\ 1 .. k \in SUBSET Nat /\ 1 \in 1 .. n
    BY <2>2
  <2> QED  BY <2>1, <2>3 DEF Response, AnyResponse
<1> QED  BY <1>1, <1>2 DEF Responses

LEMMA RespondsKeeps ==
  ASSUME IInv, NEW a \in Agents, Responds(a)
  PROVE  IInv'
<1> USE DEF Goto, ledger
<1>1. Typing /\ Money(a) /\ Counts(a) /\ Talk(a)
  BY DEF IInv
<1>0. PICK c \in Costs[modelIndex[a]] :
        \E r \in Responses(c) : /\ response' = [response EXCEPT ![a] = r]
                                /\ costUsd' = [costUsd EXCEPT ![a] = @ + r.cost]
  BY DEF Responds
<1>2. PICK r \in Responses(c) : /\ response' = [response EXCEPT ![a] = r]
                               /\ costUsd' = [costUsd EXCEPT ![a] = @ + r.cost]
  BY <1>0
<1>3. c \in 0 .. MaxCost /\ MaxCost \in Nat /\ maxUsd \in Nat
  BY <1>1, <1>2, AgentAssumption DEF Typing
<1>4. /\ r \in AnyResponse /\ r.cost = c /\ r.kind # "none"
      /\ r.kind = "text" => r.calls = {}
      /\ r.kind = "tools" => r.calls # {}
  BY <1>3, ResponseTypes
<1>5. Typing'
  <2>1. costUsd' \in [Agents -> Nat] /\ response' \in [Agents -> AnyResponse]
    BY <1>1, <1>2, <1>3, <1>4 DEF Typing
  <2>2. at' \in [Agents -> Places] /\ answered' \in [Agents -> Int]
    BY <1>1 DEF Responds, Typing, Places
  <2> QED  BY <1>1, <2>1, <2>2 DEF Responds, Typing
<1>6. Spares(a)
  BY <1>1, <1>2 DEF Responds, Typing, Spares
<1>7. /\ at[a] = "calling" /\ at'[a] = "recording"
      /\ response'[a] = r /\ costUsd'[a] = costUsd[a] + c
      /\ answered'[a] = answered[a] + 1
      /\ UNCHANGED <<iterations, modelIndex, messages, open, results, reason, jobCost, calls>>
  BY <1>1, <1>2, <1>4 DEF Responds, Typing
<1>8. Money(a)'
  <2>1. /\ costUsd[a] \in Nat /\ jobCost[a] \in Nat /\ costUsd[a] < maxUsd
        /\ jobCost[a] = costUsd[a] /\ reason[a] = "none"
    BY <1>1, <1>7 DEF Money, Typing, NoResponse
  <2>2. /\ jobCost'[a] + response'[a].cost = costUsd'[a]
        /\ costUsd'[a] < maxUsd + MaxCost
        /\ costUsd'[a] - jobCost'[a] <= MaxCost
    BY <2>1, <1>3, <1>4, <1>7
  <2>3. jobCost'[a] + response'[a].cost <= costUsd'[a]
    BY <2>1, <1>3, <1>4, <1>7
  <2> QED  BY <2>1, <2>2, <2>3, <1>7 DEF Money
<1>9. Counts(a)'
  BY <1>1, <1>7 DEF Counts, Typing
<1>10. Talk(a)'
  BY <1>1, <1>4, <1>7 DEF Talk
<1> QED  BY <1>5, <1>6, <1>8, <1>9, <1>10, OthersKeep

LEMMA CallFailsKeeps ==
  ASSUME IInv, NEW a \in Agents, CallFails(a)
  PROVE  IInv'
<1> USE DEF Goto, Ends, ledger, history
<1>1. Typing /\ Money(a) /\ Counts(a) /\ Talk(a)
  BY DEF IInv
<1>2. /\ at[a] = "calling"
      /\ UNCHANGED <<costUsd, messages, open, results, response, jobCost, spent, calls, answered>>
      /\ \/ /\ at' = [at EXCEPT ![a] = "done"]
            /\ \E why \in {"aborted", "timeout", "threw"} : reason' = [reason EXCEPT ![a] = why]
            /\ UNCHANGED <<iterations, modelIndex>>
         \/ /\ at' = [at EXCEPT ![a] = "top"]
            /\ UNCHANGED reason
            /\ modelIndex[a] < Models
            /\ modelIndex' = [modelIndex EXCEPT ![a] = modelIndex[a] + 1]
            /\ iterations' = [iterations EXCEPT ![a] = iterations[a] - 1]
  BY DEF CallFails
<1>3. Typing'
  <2>1. at' \in [Agents -> Places] /\ reason' \in [Agents -> Reasons]
    BY <1>1, <1>2 DEF Typing, Places, Reasons
  <2>2. iterations' \in [Agents -> Int] /\ modelIndex' \in [Agents -> 1 .. Models]
    <3>1. iterations \in [Agents -> Int] /\ modelIndex \in [Agents -> 1 .. Models]
      BY <1>1 DEF Typing
    <3>2. Models \in Nat /\ iterations[a] - 1 \in Int
      BY <3>1, AgentAssumption
    <3>3. modelIndex[a] < Models => modelIndex[a] + 1 \in 1 .. Models
      BY <3>1, <3>2
    <3> QED  BY <3>1, <3>2, <3>3, <1>2
  <2> QED  BY <1>1, <1>2, <2>1, <2>2 DEF Typing
<1>4. Spares(a)
  BY <1>1, <1>2 DEF Typing, Spares
<1>5. Money(a)'
  <2>1. reason[a] = "none" /\ jobCost[a] + response[a].cost = costUsd[a]
    BY <1>1, <1>2 DEF Money
  <2>2. (at'[a] = "top" /\ reason'[a] = "none") \/ at'[a] = "done"
    BY <1>1, <1>2, <2>1 DEF Typing
  <2> QED  BY <1>1, <1>2, <2>1, <2>2 DEF Money
<1>6. Counts(a)'
  <2>1. CASE at'[a] = "done"
    BY <2>1, <1>1, <1>2 DEF Counts
  <2>2. CASE at'[a] = "top"
    <3>1. modelIndex'[a] = modelIndex[a] + 1 /\ iterations'[a] = iterations[a] - 1
      BY <2>2, <1>1, <1>2 DEF Typing
    <3>2. /\ answered[a] = iterations[a] - 1 /\ iterations[a] \in 0 .. maxIterations
          /\ calls[a] - iterations[a] = modelIndex[a] - 1
          /\ modelIndex[a] \in Int /\ calls[a] \in Int
      BY <1>1, <1>2 DEF Counts, Typing
    <3>3. iterations[a] # 0
      BY <1>1, <1>2 DEF Counts
    <3>4. maxIterations \in Nat
      BY AgentAssumption
    <3>5. /\ answered'[a] = iterations'[a]
          /\ iterations'[a] \in 0 .. maxIterations - 1
          /\ calls'[a] - iterations'[a] = modelIndex'[a] - 1
      BY <3>1, <3>2, <3>3, <3>4, <1>2
    <3>6. iterations'[a] \in 0 .. maxIterations /\ calls'[a] <= maxIterations + Models - 1
      BY <3>4, <3>5, <1>1, <1>2 DEF Counts
    <3> QED  BY <2>2, <3>5, <3>6 DEF Counts
  <2>3. at'[a] \in {"done", "top"}
    BY <1>1, <1>2 DEF Typing
  <2> QED  BY <2>1, <2>2, <2>3
<1>7. Talk(a)'
  <2>1. at'[a] \in {"done", "top"}
    BY <1>1, <1>2 DEF Typing
  <2> QED  BY <1>1, <1>2, <2>1 DEF Talk
<1> QED  BY <1>3, <1>4, <1>5, <1>6, <1>7, OthersKeep

(* How the transcript goes on after a response. *)
LEMMA Joins ==
  ASSUME IInv, NEW a \in Agents, at[a] = "recording"
  PROVE  /\ joined(a) \in Seq(Messages)
         /\ Waiting(joined(a), response[a].calls)
         /\ RecentAreWhole(joined(a), keepLast)
         /\ toExecute(a) = response[a].calls
<1> DEFINE ids == response[a].calls
<1>1. ids \in SUBSET Nat /\ messages[a] \in Seq(Messages)
  BY DEF IInv, Typing, AnyResponse
<1>2. Accepted(messages[a]) /\ RecentAreWhole(messages[a], keepLast)
  BY DEF IInv, Talk
<1>3. Assistant(ids) \in Messages /\ ~Assistant(ids).elided
  BY <1>1, MessageTypes DEF Assistant, Message
<1>4. joined(a) = Append(messages[a], Assistant(ids))
  <2>1. joined(a) = messages[a] \o <<Assistant(ids)>>
    BY OnlyTheAssistant DEF joined
  <2> QED  BY <2>1, <1>1, <1>3, AppendIsConcat
<1>5. joined(a) \in Seq(Messages)
  BY <1>1, <1>3, <1>4, AppendProperties
<1>6. Waiting(joined(a), ids)
  BY <1>1, <1>2, <1>4, AssistantAsks
<1>7. RecentAreWhole(joined(a), keepLast)
  BY <1>1, <1>2, <1>3, <1>4, AppendedWhole, AgentAssumption
<1>8. toExecute(a) = ids
  BY NothingIsAnswered DEF toExecute
<1> QED  BY <1>5, <1>6, <1>7, <1>8

LEMMA OnLlmCallKeeps ==
  ASSUME IInv, NEW a \in Agents, OnLlmCall(a)
  PROVE  IInv'
<1>1. Typing /\ Money(a) /\ Counts(a) /\ Talk(a) /\ at[a] = "recording"
  BY DEF IInv, OnLlmCall
<1>2. /\ joined(a) \in Seq(Messages)
      /\ Waiting(joined(a), response[a].calls)
      /\ RecentAreWhole(joined(a), keepLast)
      /\ toExecute(a) = response[a].calls
  BY <1>1, Joins
<1>3. User \in Messages /\ User.role = "user" /\ User.calls = {} /\ ~User.elided
  BY MessageTypes DEF User, Message
<1>4. /\ response' = [response EXCEPT ![a] = NoResponse]
      /\ UNCHANGED <<iterations, costUsd, modelIndex, calls, answered>>
  BY DEF OnLlmCall, history
<1>5. /\ \/ UNCHANGED jobCost
         \/ jobCost' = [jobCost EXCEPT ![a] = jobCost[a] + response[a].cost]
      /\ \/ spent' = spent
         \/ spent' = spent + response[a].cost
  BY DEF OnLlmCall, Books, ledger
<1>6. \/ /\ at' = [at EXCEPT ![a] = "done"]
         /\ \E why \in {"threw", "no_tool_call", "finished"} : reason' = [reason EXCEPT ![a] = why]
         /\ messages' = messages \/ messages' = [messages EXCEPT ![a] = joined(a)]
         /\ UNCHANGED <<open, results>>
      \/ /\ at' = [at EXCEPT ![a] = "top"]
         /\ response[a].kind = "text"
         /\ messages' = [messages EXCEPT ![a] = Append(joined(a), User)]
         /\ UNCHANGED <<open, results, reason>>
      \/ /\ at' = [at EXCEPT ![a] = "tools"]
         /\ response[a].kind = "tools"
         /\ messages' = [messages EXCEPT ![a] = joined(a)]
         /\ open' = [open EXCEPT ![a] = response[a].calls]
         /\ results' = [results EXCEPT ![a] = {}]
         /\ UNCHANGED reason
  BY <1>2 DEF OnLlmCall, Takes, Says, Ends, Goto
<1>7. Append(joined(a), User) \in Seq(Messages)
  BY <1>2, <1>3, AppendProperties
<1>8. response[a] \in AnyResponse /\ NoResponse \in AnyResponse /\ response[a].cost \in Nat
      /\ response[a].calls \in SUBSET Nat
  BY <1>1, AgentAssumption DEF Typing, AnyResponse, NoResponse
<1>9. Typing'
  <2>1. at' \in [Agents -> Places] /\ reason' \in [Agents -> Reasons]
    BY <1>1, <1>6 DEF Typing, Places, Reasons
  <2>2. messages' \in [Agents -> Seq(Messages)]
    BY <1>1, <1>2, <1>6, <1>7 DEF Typing
  <2>3. open' \in [Agents -> SUBSET Nat] /\ results' \in [Agents -> SUBSET Nat]
    BY <1>1, <1>6, <1>8 DEF Typing
  <2>4. response' \in [Agents -> AnyResponse]
    BY <1>1, <1>4, <1>8 DEF Typing
  <2>5. jobCost' \in [Agents -> Nat] /\ spent' \in Nat
    <3>1. jobCost \in [Agents -> Nat] /\ spent \in Nat
      BY <1>1 DEF Typing
    <3>2. jobCost[a] + response[a].cost \in Nat /\ spent + response[a].cost \in Nat
      BY <3>1, <1>8
    <3> QED  BY <3>1, <3>2, <1>5
  <2> QED  BY <1>1, <1>4, <2>1, <2>2, <2>3, <2>4, <2>5 DEF Typing
<1>10. Spares(a)
  BY <1>1, <1>4, <1>5, <1>6 DEF Typing, Spares
<1>11. at'[a] \in {"done", "top", "tools"} /\ response'[a] = NoResponse
  BY <1>1, <1>4, <1>6 DEF Typing
<1>12. Money(a)'
  <2>1. /\ costUsd[a] \in Nat /\ jobCost[a] \in Nat /\ costUsd[a] < maxUsd + MaxCost
        /\ reason[a] = "none" /\ jobCost[a] + response[a].cost = costUsd[a]
        /\ response[a].cost <= MaxCost /\ MaxCost \in Nat
    BY <1>1, <1>8, AgentAssumption DEF Money, Typing, AnyResponse
  <2>2. /\ costUsd'[a] = costUsd[a] /\ response'[a].cost = 0
        /\ jobCost'[a] = jobCost[a] \/ jobCost'[a] = jobCost[a] + response[a].cost
    BY <1>1, <1>4, <1>5, <1>11 DEF Typing, NoResponse
  <2>3. \/ reason'[a] = "threw" /\ at'[a] = "done"
        \/ jobCost'[a] = costUsd'[a] /\ (at'[a] # "done" => reason'[a] = "none")
    <3>1. CASE Books(a) /\ Takes(a)
      <4>1. jobCost'[a] = jobCost[a] + response[a].cost
        BY <3>1, <1>1 DEF Books, Typing
      <4>2. at'[a] # "done" => reason'[a] = "none"
        BY <1>1, <1>6, <2>1 DEF Typing
      <4> QED  BY <4>1, <4>2, <2>1, <2>2
    <3>2. CASE Ends(a, "threw")
      BY <3>2, <1>1 DEF Ends, Goto, Typing
    <3> QED  BY <3>1, <3>2 DEF OnLlmCall
  <2>4. /\ jobCost'[a] + response'[a].cost <= costUsd'[a]
        /\ costUsd'[a] - jobCost'[a] <= MaxCost
        /\ jobCost'[a] = costUsd'[a] => jobCost'[a] + response'[a].cost = costUsd'[a]
        /\ costUsd'[a] < maxUsd + MaxCost
    BY <2>1, <2>2, <1>8
  <2>5. at'[a] \notin {"asking", "calling", "recording"}
    BY <1>11
  <2> QED  BY <1>11, <2>3, <2>4, <2>5 DEF Money
<1>13. Counts(a)'
  BY <1>1, <1>4, <1>11 DEF Counts
<1>14. Talk(a)'
  <2>1. CASE at'[a] = "done"
    <3>1. messages'[a] \in {messages[a], joined(a)}
      BY <2>1, <1>1, <1>6 DEF Typing
    <3>2. RecentAreWhole(messages'[a], keepLast)
      BY <3>1, <1>1, <1>2 DEF Talk
    <3> QED  BY <2>1, <3>2 DEF Talk
  <2>2. CASE at'[a] = "top"
    <3>1. messages'[a] = Append(joined(a), User) /\ response[a].calls = {}
      BY <2>2, <1>1, <1>6 DEF Typing, Talk
    <3>2. Accepted(messages'[a])
      BY <3>1, <1>2, <1>3, Answered
    <3>3. RecentAreWhole(messages'[a], keepLast)
      BY <3>1, <1>2, <1>3, AppendedWhole, AgentAssumption
    <3> QED  BY <2>2, <3>2, <3>3 DEF Talk
  <2>3. CASE at'[a] = "tools"
    <3>1. /\ messages'[a] = joined(a) /\ open'[a] = response[a].calls /\ results'[a] = {}
          /\ response[a].calls # {}
      BY <2>3, <1>1, <1>6 DEF Typing, Talk
    <3>2. open'[a] \cup results'[a] = response[a].calls
      BY <3>1
    <3> QED  BY <2>3, <3>1, <3>2, <1>2 DEF Talk
  <2> QED  BY <1>11, <2>1, <2>2, <2>3
<1> QED  BY <1>9, <1>10, <1>12, <1>13, <1>14, OthersKeep

LEMMA ToolCallKeeps ==
  ASSUME IInv, NEW a \in Agents, ToolCall(a)
  PROVE  IInv'
<1>1. Typing /\ Money(a) /\ Counts(a) /\ Talk(a) /\ at[a] = "tools"
  BY DEF IInv, ToolCall
<1>2. UNCHANGED <<iterations, costUsd, modelIndex, messages, response, jobCost, spent, calls, answered>>
  BY DEF ToolCall, ledger, history
<1>3. \/ /\ at' = [at EXCEPT ![a] = "done"]
         /\ \E why \in {"aborted", "threw"} : reason' = [reason EXCEPT ![a] = why]
         /\ UNCHANGED <<open, results>>
      \/ /\ UNCHANGED <<at, reason>>
         /\ \E id \in open[a] :
              /\ open' = [open EXCEPT ![a] = open[a] \ {id}]
              /\ results' = [results EXCEPT ![a] = results[a] \cup {id}]
  BY DEF ToolCall, Ends, Goto
<1>4. Typing'
  <2>1. at' \in [Agents -> Places] /\ reason' \in [Agents -> Reasons]
    BY <1>1, <1>3 DEF Typing, Places, Reasons
  <2>2. open' \in [Agents -> SUBSET Nat] /\ results' \in [Agents -> SUBSET Nat]
    <3>1. open \in [Agents -> SUBSET Nat] /\ results \in [Agents -> SUBSET Nat]
      BY <1>1 DEF Typing
    <3>2. \A id \in open[a] :
            open[a] \ {id} \in SUBSET Nat /\ results[a] \cup {id} \in SUBSET Nat
      BY <3>1
    <3> QED  BY <3>1, <3>2, <1>3
  <2> QED  BY <1>1, <1>2, <2>1, <2>2 DEF Typing
<1>5. Spares(a)
  BY <1>1, <1>2, <1>3 DEF Typing, Spares
<1>6. \/ at'[a] = "done"
      \/ /\ at'[a] = "tools" /\ reason'[a] = reason[a]
         /\ open'[a] \cup results'[a] = open[a] \cup results[a]
  BY <1>1, <1>3 DEF Typing
<1>7. Money(a)'
  BY <1>1, <1>2, <1>6 DEF Money
<1>8. Counts(a)'
  BY <1>1, <1>2, <1>6 DEF Counts
<1>9. Talk(a)'
  BY <1>1, <1>2, <1>6 DEF Talk
<1> QED  BY <1>4, <1>5, <1>7, <1>8, <1>9, OthersKeep

LEMMA PushResultsKeeps ==
  ASSUME IInv, NEW a \in Agents, PushResults(a)
  PROVE  IInv'
<1> DEFINE replied == Append(messages[a], Tool(results[a]))
<1>1. Typing /\ Money(a) /\ Counts(a) /\ Talk(a) /\ at[a] = "tools" /\ open[a] = {}
  BY DEF IInv, PushResults
<1>2. /\ results[a] # {} /\ Waiting(messages[a], results[a])
      /\ messages[a] \in Seq(Messages) /\ results[a] \in SUBSET Nat
  BY <1>1 DEF Talk, Typing
<1>3. /\ Tool(results[a]) \in Messages /\ Tool(results[a]).calls = results[a]
      /\ Tool(results[a]).role = "tool" /\ ~Tool(results[a]).elided
  BY <1>2, MessageTypes DEF Tool, Message
<1>4. /\ User \in Messages /\ ~User.elided /\ keepLast \in Nat
  BY MessageTypes, AgentAssumption DEF User, Message
<1>5. replied \in Seq(Messages) /\ Accepted(replied) /\ RecentAreWhole(replied, keepLast)
  <2>1. replied \in Seq(Messages)
    BY <1>2, <1>3, AppendProperties
  <2>2. Accepted(replied)
    BY <1>2, <1>3, Answered
  <2>3. RecentAreWhole(replied, keepLast)
    BY <1>1, <1>2, <1>3, <1>4, AppendedWhole DEF Talk
  <2> QED  BY <2>1, <2>2, <2>3
<1> HIDE DEF replied
<1>6. PICK kept \in {replied, compactToolResults(replied, keepLast)} :
        messages' \in {[messages EXCEPT ![a] = kept], [messages EXCEPT ![a] = Append(kept, User)]}
  BY <1>2 DEF PushResults, Says, replied
<1>7. kept \in Seq(Messages) /\ Accepted(kept) /\ RecentAreWhole(kept, keepLast)
  BY <1>4, <1>5, <1>6, CompactedAlike, CompactedAccepted, CompactedWhole
<1>8. /\ Append(kept, User) \in Seq(Messages)
      /\ Accepted(Append(kept, User)) /\ RecentAreWhole(Append(kept, User), keepLast)
  BY <1>4, <1>7, AppendProperties, UserMaySpeak, AppendedWhole
<1>9. /\ at' = [at EXCEPT ![a] = "top"]
      /\ UNCHANGED <<iterations, costUsd, modelIndex, open, results, response, reason, jobCost,
                     spent, calls, answered>>
  BY DEF PushResults, Goto, ledger, history
<1>10. Typing'
  <2>1. at' \in [Agents -> Places]
    BY <1>1, <1>9 DEF Typing, Places
  <2>2. messages' \in [Agents -> Seq(Messages)]
    BY <1>1, <1>6, <1>7, <1>8 DEF Typing
  <2> QED  BY <1>1, <1>9, <2>1, <2>2 DEF Typing
<1>11. Spares(a)
  BY <1>1, <1>6, <1>9 DEF Typing, Spares
<1>12. at'[a] = "top" /\ messages'[a] \in {kept, Append(kept, User)}
  BY <1>1, <1>6, <1>9 DEF Typing
<1>13. Money(a)'
  BY <1>1, <1>9, <1>12 DEF Money
<1>14. Counts(a)'
  BY <1>1, <1>9, <1>12 DEF Counts
<1>15. Talk(a)'
  BY <1>1, <1>7, <1>8, <1>9, <1>12 DEF Talk
<1> QED  BY <1>10, <1>11, <1>13, <1>14, <1>15, OthersKeep

-----------------------------------------------------------------------------
(* The invariant is inductive: whatever the models answer and however hooks,
   providers and users interrupt, the parts of it hold together. *)
THEOREM Safety == Spec => []IInv
<1>1. Init => IInv
  BY Starts
<1>2. IInv /\ [Next]_vars => IInv'
  <2> SUFFICES ASSUME IInv, [Next]_vars PROVE IInv'
    OBVIOUS
  <2>1. ASSUME NEW a \in Agents, Step(a) PROVE IInv'
    BY <2>1, CheckLimitsKeeps, BeforeStepKeeps, RespondsKeeps, CallFailsKeeps, OnLlmCallKeeps,
       ToolCallKeeps, PushResultsKeeps DEF Step, Moves
  <2> QED  BY <2>1, BeginKeeps, WorldKeeps DEF Next
<1> QED  BY <1>1, <1>2, PTL DEF Spec

(* A run costs less than one call more than its budget. *)
THEOREM Budget == Spec => []JobBudgetHolds
<1>1. IInv => JobBudgetHolds
  BY DEF IInv, Money, JobBudgetHolds
<1> QED  BY <1>1, Safety, PTL

(* Every response that was paid for is booked once, but for those of the step at
   which a run threw. *)
THEOREM Booked == Spec => []CallsAreBooked
<1>1. IInv => CallsAreBooked
  BY DEF IInv, Money, CallsAreBooked
<1> QED  BY <1>1, Safety, PTL

(* Fallbacks are no steps. *)
THEOREM Fallbacks == Spec => []FallbacksAreFree
<1>1. IInv => FallbacksAreFree
  BY DEF IInv, Counts, FallbacksAreFree
<1> QED  BY <1>1, Safety, PTL

(* No request carries a transcript that the providers reject, however many tool
   calls a response has, whichever of them are invalid, and whatever is compacted. *)
THEOREM Paired == Spec => []TranscriptIsPaired
<1>1. IInv => TranscriptIsPaired
  BY DEF IInv, Talk, TranscriptIsPaired
<1> QED  BY <1>1, Safety, PTL

-----------------------------------------------------------------------------
(* The month: each run that has been let through may still add a call. *)

Flying == {a \in Agents : at[a] \in {"calling", "recording"}}

Reserved == Cardinality(Flying) * MaxCost

Covered == spent + Reserved < monthlyCapUsd + Cardinality(Agents) * MaxCost

LEMMA Scales ==
  ASSUME NEW i \in Nat, NEW n \in Nat, i <= n, NEW c \in Nat
  PROVE  i * c <= n * c /\ i * c \in Nat
<1>1. PICK d \in Nat : n = i + d
  <2>1. n - i \in Nat /\ n = i + (n - i)
    OBVIOUS
  <2> QED  BY <2>1
<1>2. (i + d) * c = i * c + d * c /\ i * c \in Nat /\ d * c \in Nat
  BY SMTT(30)
<1> QED  BY <1>1, <1>2

LEMMA FlyingIsFinite ==
  /\ IsFiniteSet(Flying) /\ Cardinality(Flying) \in Nat
  /\ Cardinality(Agents) \in Nat /\ Cardinality(Flying) <= Cardinality(Agents)
<1>1. Flying \in SUBSET Agents /\ IsFiniteSet(Agents)
  BY AgentAssumption DEF Flying
<1> QED  BY <1>1, FS_Subset, FS_CardinalityType

LEMMA FlyingIsFiniteNext ==
  /\ IsFiniteSet(Flying') /\ Cardinality(Flying') \in Nat
  /\ Cardinality(Flying') <= Cardinality(Agents)
<1>1. Flying' \in SUBSET Agents /\ IsFiniteSet(Agents)
  BY AgentAssumption DEF Flying
<1> QED  BY <1>1, FS_Subset, FS_CardinalityType

(* Who lands without paying, or when the month ends, leaves room. *)
LEMMA Lands ==
  ASSUME Typing, spent' \in Nat, Covered, spent' <= spent, Flying' \subseteq Flying
  PROVE  Covered'
<1>1. Cardinality(Flying') <= Cardinality(Flying)
  BY FlyingIsFinite, FS_Subset
<1>2. /\ Cardinality(Flying') * MaxCost <= Cardinality(Flying) * MaxCost
      /\ Cardinality(Flying') * MaxCost \in Nat /\ Cardinality(Flying) * MaxCost \in Nat
  BY <1>1, Scales, FlyingIsFinite, FlyingIsFiniteNext, AgentAssumption
<1>3. Cardinality(Agents) * MaxCost \in Nat /\ monthlyCapUsd \in Nat /\ spent \in Nat
  BY Scales, FlyingIsFinite, AgentAssumption DEF Typing
<1>4. Reserved' = Cardinality(Flying') * MaxCost
  BY DEF Reserved
<1> QED  BY <1>2, <1>3, <1>4 DEF Covered, Reserved

LEMMA CoverHolds == IInv /\ Covered /\ [Next]_vars /\ IInv' => Covered'
<1> SUFFICES ASSUME IInv, Covered, [Next]_vars, IInv' PROVE Covered'
  OBVIOUS
<1> USE DEF IInv
<1>1. spent \in Nat /\ spent' \in Nat /\ at \in [Agents -> Places]
  BY DEF Typing
<1>2. CASE spent' <= spent /\ Flying' \subseteq Flying
  BY <1>1, <1>2, Lands
<1>3. CASE (\E a \in Agents : Abort(a) \/ DeadlinePasses(a)) \/ MonthEnds \/ UNCHANGED vars
  <2>1. UNCHANGED at /\ spent' \in {0, spent}
    BY <1>3 DEF Abort, DeadlinePasses, MonthEnds, vars, ledger
  <2> QED  BY <1>1, <1>2, <2>1 DEF Flying
<1>4. ASSUME NEW a \in Agents,
             Begin(a) \/ CheckLimits(a) \/ CallFails(a) \/ ToolCall(a) \/ PushResults(a)
      PROVE  Covered'
  <2>1. /\ spent' = spent
        /\ at' = at \/ \E place \in {"top", "asking", "done"} : at' = [at EXCEPT ![a] = place]
    BY <1>4 DEF Begin, CheckLimits, CallFails, ToolCall, PushResults, Goto, Ends, ledger
  <2>2. Flying' \subseteq Flying
    BY <1>1, <2>1 DEF Flying
  <2> QED  BY <1>1, <1>2, <2>1, <2>2
<1>5. ASSUME NEW a \in Agents, Responds(a) PROVE Covered'
  <2>1. spent' = spent /\ at[a] = "calling" /\ at' = [at EXCEPT ![a] = "recording"]
    BY <1>5 DEF Responds, Goto, ledger
  <2>2. Flying' \subseteq Flying
    BY <1>1, <2>1 DEF Flying
  <2> QED  BY <1>1, <1>2, <2>1, <2>2
<1>6. ASSUME NEW a \in Agents, BeforeStep(a) PROVE Covered'
  <2>1. /\ spent' = spent
        /\ \/ at' = [at EXCEPT ![a] = "done"]
           \/ spent < monthlyCapUsd /\ at' = [at EXCEPT ![a] = "calling"]
    BY <1>6 DEF BeforeStep, Goto, Ends, ledger
  <2>2. CASE at' = [at EXCEPT ![a] = "done"]
    <3>1. Flying' \subseteq Flying
      BY <1>1, <2>2 DEF Flying
    <3> QED  BY <1>1, <1>2, <2>1, <3>1
  <2>3. CASE spent < monthlyCapUsd
    <3>1. /\ Cardinality(Flying') * MaxCost <= Cardinality(Agents) * MaxCost
          /\ Cardinality(Flying') * MaxCost \in Nat /\ Cardinality(Agents) * MaxCost \in Nat
      BY Scales, FlyingIsFinite, FlyingIsFiniteNext, AgentAssumption
    <3>2. Reserved' = Cardinality(Flying') * MaxCost /\ monthlyCapUsd \in Nat
      BY AgentAssumption DEF Reserved
    <3> QED  BY <1>1, <2>1, <2>3, <3>1, <3>2 DEF Covered
  <2> QED  BY <2>1, <2>2, <2>3
<1>7. ASSUME NEW a \in Agents, OnLlmCall(a) PROVE Covered'
  <2>1. /\ at[a] = "recording" /\ at'[a] \notin {"calling", "recording"}
        /\ \A b \in Agents \ {a} : at'[b] = at[b]
    <3>1. /\ at[a] = "recording"
          /\ \E place \in {"done", "top", "tools"} : at' = [at EXCEPT ![a] = place]
      BY <1>7 DEF OnLlmCall, Takes, Ends, Goto
    <3> QED  BY <1>1, <3>1
  <2>2. a \in Flying /\ Flying' = Flying \ {a}
    BY <2>1 DEF Flying
  <2>3. Cardinality(Flying') = Cardinality(Flying) - 1
    BY <2>2, FlyingIsFinite, FS_RemoveElement
  <2>4. spent' <= spent + MaxCost /\ MaxCost \in Nat
    <3>1. response[a].cost \in 0 .. MaxCost /\ MaxCost \in Nat
      BY AgentAssumption DEF Typing, AnyResponse
    <3>2. spent' = spent \/ spent' = spent + response[a].cost
      BY <1>7 DEF OnLlmCall, Books, ledger
    <3> QED  BY <1>1, <3>1, <3>2
  <2>5. /\ Cardinality(Flying) * MaxCost = Cardinality(Flying') * MaxCost + MaxCost
        /\ Cardinality(Flying) * MaxCost \in Nat /\ Cardinality(Flying') * MaxCost \in Nat
    <3>1. \A i \in Nat, c \in Nat : i * c = (i - 1) * c + c
      BY SMTT(30)
    <3> QED  BY <2>3, <2>4, <3>1, Scales, FlyingIsFinite, FlyingIsFiniteNext
  <2>6. Reserved' = Cardinality(Flying') * MaxCost
    BY DEF Reserved
  <2>7. Cardinality(Agents) * MaxCost \in Nat /\ monthlyCapUsd \in Nat
    BY Scales, FlyingIsFinite, AgentAssumption
  <2> QED  BY <1>1, <2>4, <2>5, <2>6, <2>7 DEF Covered, Reserved
<1> QED  BY <1>3, <1>4, <1>5, <1>6, <1>7 DEF Next, Step, Moves

(* Concurrent runs read the same month's spend before any of them books: the cap
   is exceeded by less than one call of each run. *)
THEOREM Overshoot == Spec => []MonthOvershootBound
<1>1. Init => Covered
  <2> SUFFICES ASSUME Init PROVE Covered
    OBVIOUS
  <2>1. Flying = {} /\ spent = 0
    BY DEF Init, Flying
  <2>2. Cardinality(Flying) = 0
    BY <2>1, FS_EmptySet
  <2>3. Cardinality(Agents) * MaxCost \in Nat /\ monthlyCapUsd \in Nat \ {0} /\ 0 * MaxCost = 0
    BY Scales, FlyingIsFinite, AgentAssumption
  <2> QED  BY <2>1, <2>2, <2>3 DEF Covered, Reserved
<1>2. IInv /\ Covered => MonthOvershootBound
  <2> SUFFICES ASSUME IInv, Covered PROVE MonthOvershootBound
    OBVIOUS
  <2>1. Reserved \in Nat /\ Cardinality(Agents) * MaxCost \in Nat /\ spent \in Nat
        /\ monthlyCapUsd \in Nat
    BY Scales, FlyingIsFinite, AgentAssumption DEF Reserved, IInv, Typing
  <2> QED  BY <2>1 DEF Covered, MonthOvershootBound
<1> QED  BY <1>1, <1>2, CoverHolds, Safety, PTL DEF Spec
=============================================================================
