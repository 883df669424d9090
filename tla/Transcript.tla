----------------------------- MODULE Transcript -----------------------------
(***************************************************************************)
(* The transcript of an agent (packages/agent/src/loop.ts) as the next     *)
(* request sends it: what matters of a message is its role, the tool calls *)
(* it makes or answers, and whether its outputs were elided.  The calls of *)
(* a response are numbered.                                                *)
(***************************************************************************)
EXTENDS Integers, Sequences, FiniteSets

Message(role, ids) == [role |-> role, calls |-> ids, elided |-> FALSE]

User == Message("user", {})
Assistant(ids) == Message("assistant", ids)
Tool(ids) == Message("tool", ids)

(* What the SDK makes of one step: the assistant's message, and a message of its
   own with a result for each call that it found invalid. *)
sdkMessages(ids, invalid) ==
  IF invalid = {} THEN <<Assistant(ids)>> ELSE <<Assistant(ids), Tool(invalid)>>

(* createStepModel leaves the SDK's results out. *)
responseMessages(sdk) == IF Len(sdk) = 1 THEN sdk ELSE <<sdk[1]>>

(* The calls of a response that carry a result already. *)
answeredIn(messages) ==
  UNION {messages[n].calls : n \in {k \in DOMAIN messages : messages[k].role = "tool"}}

toolIndexes(messages) == {n \in DOMAIN messages : messages[n].role = "tool"}

(* All but the last keepLast tool messages lose their outputs, not their places. *)
compactToolResults(messages, keepLast) ==
  LET elide == {n \in toolIndexes(messages) :
                  Cardinality({m \in toolIndexes(messages) : m > n}) >= keepLast}
  IN [n \in DOMAIN messages |->
        IF n \in elide THEN [messages[n] EXCEPT !.elided = TRUE] ELSE messages[n]]

-----------------------------------------------------------------------------
(* What providers accept: every tool call has a single result, in the message
   that follows; results answer a call; nobody speaks twice in the assistant's
   name; the last word is not the assistant's. *)
AcceptedAt(messages, n) ==
  /\ messages[n].role = "assistant" =>
       /\ n < Len(messages)
       /\ messages[n + 1].role = IF messages[n].calls = {} THEN "user" ELSE "tool"
       /\ messages[n + 1].calls = messages[n].calls
  /\ messages[n].role = "tool" => n > 1 /\ messages[n - 1].role = "assistant"

Accepted(messages) == \A n \in DOMAIN messages : AcceptedAt(messages, n)

(* The model still sees the outputs of its last tool messages. *)
RecentAreWhole(messages, keepLast) ==
  \A n \in DOMAIN messages :
    messages[n].elided =>
      /\ messages[n].role = "tool"
      /\ Cardinality({m \in toolIndexes(messages) : m > n}) >= keepLast
=============================================================================
