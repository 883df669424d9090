----------------------------- MODULE AgentLoop -----------------------------
(***************************************************************************)
(* The agent loop (packages/agent/src/loop.ts, runAgent) of the jobs that  *)
(* run at the same time, with the hooks of apps/worker/src/                *)
(* agent-runtime.ts: every iteration asks for the month's spend, calls the *)
(* model, records the call's cost in llm_calls and on the job, and answers *)
(* the tool calls of the response.  Money is counted in whole units.       *)
(***************************************************************************)
EXTENDS Transcript

CONSTANTS
  Agents,         (* the agent runs, one per job *)
  maxIterations,  (* limits.maxIterations *)
  maxUsd,         (* limits.maxUsd *)
  monthlyCapUsd,  (* MONTHLY_LLM_CAP_USD *)
  Models,         (* how many models the profile has keys for *)
  Costs,          (* of each model: what one call may cost *)
  MaxCost,        (* the dearest of them *)
  MaxToolCalls,   (* bound: tool calls in one response *)
  keepLast,       (* of compactToolResults: 4 in the code *)
  Disturbed       (* bound: the runs that are aborted or late, or whose hooks or models fail *)

ASSUME AgentAssumption ==
  /\ IsFiniteSet(Agents)
  /\ maxIterations \in Nat \ {0}
  /\ maxUsd \in Nat \ {0}
  /\ monthlyCapUsd \in Nat \ {0}
  /\ MaxCost \in Nat
  /\ Models \in Nat \ {0}
  /\ Costs \in [1 .. Models -> SUBSET (0 .. MaxCost)]
  /\ MaxToolCalls \in Nat \ {0}
  /\ keepLast \in Nat
  /\ Disturbed \subseteq Agents

VARIABLES
  at,          (* where the run stands *)
  iterations, costUsd, modelIndex, nudged,  (* runAgent's locals *)
  messages,    (* the transcript *)
  open,        (* tool calls of the last response that have no result yet *)
  results,     (* those that have one *)
  response,    (* the response in hand: its kind ("none", "text", "tools" or "finish"),
                  its cost, its tool calls and those of them that are invalid *)
  reason,      (* AgentStopReason, or "threw" *)
  aborted,     (* signal.aborted *)
  late,        (* Date.now() >= limits.deadline *)
  jobCost,     (* jobs.cost_usd *)
  spent,       (* sum(llm_calls.cost_usd) of this month *)
  calls,       (* history: model calls begun *)
  answered     (* history: model calls that returned a response *)

locals == <<iterations, costUsd, modelIndex, nudged, messages, open, results, response, reason>>
ledger == <<jobCost, spent>>
history == <<calls, answered>>
vars == <<at, locals, aborted, late, ledger, history>>

NoResponse == [kind |-> "none", cost |-> 0, calls |-> {}, invalid |-> {}]

Init ==
  /\ at = [a \in Agents |-> "idle"]
  /\ iterations = [a \in Agents |-> 0]
  /\ costUsd = [a \in Agents |-> 0]
  /\ modelIndex = [a \in Agents |-> 1]
  /\ nudged = [a \in Agents |-> FALSE]
  /\ messages = [a \in Agents |-> <<User>>]
  /\ open = [a \in Agents |-> {}]
  /\ results = [a \in Agents |-> {}]
  /\ response = [a \in Agents |-> NoResponse]
  /\ reason = [a \in Agents |-> "none"]
  /\ aborted = [a \in Agents |-> FALSE]
  /\ late = [a \in Agents |-> FALSE]
  /\ jobCost = [a \in Agents |-> 0]
  /\ spent = 0
  /\ calls = [a \in Agents |-> 0]
  /\ answered = [a \in Agents |-> 0]

Goto(a, place) == at' = [at EXCEPT ![a] = place]

Ends(a, why) ==
  /\ Goto(a, "done")
  /\ reason' = [reason EXCEPT ![a] = why]

-----------------------------------------------------------------------------
(* The world: the abort signal, the deadline, the next month. *)

Abort(a) ==
  /\ a \in Disturbed
  /\ at[a] \notin {"idle", "done"}
  /\ ~aborted[a]
  /\ aborted' = [aborted EXCEPT ![a] = TRUE]
  /\ UNCHANGED <<at, locals, late, ledger, history>>

DeadlinePasses(a) ==
  /\ a \in Disturbed
  /\ at[a] \notin {"idle", "done"}
  /\ ~late[a]
  /\ late' = [late EXCEPT ![a] = TRUE]
  /\ UNCHANGED <<at, locals, aborted, ledger, history>>

MonthEnds ==
  /\ spent' = 0
  /\ UNCHANGED <<at, locals, aborted, late, jobCost, history>>

-----------------------------------------------------------------------------
(* The loop. *)

Begin(a) ==
  /\ at[a] = "idle"
  /\ Goto(a, "top")
  /\ UNCHANGED <<locals, aborted, late, ledger, history>>

(* Mutant: the budget of the job is not looked at. *)
CheckLimitsUnbudgeted(a) ==
  /\ at[a] = "top"
  /\ \/ aborted[a] /\ Ends(a, "aborted")
     \/ ~aborted[a] /\ iterations[a] >= maxIterations /\ Ends(a, "max_iterations")
     \/ ~aborted[a] /\ iterations[a] < maxIterations /\ Goto(a, "asking") /\ UNCHANGED reason
  /\ UNCHANGED <<iterations, costUsd, modelIndex, nudged, messages, open, results, response, aborted, late,
                 ledger, history>>

(* The limits, in the order they are looked at. *)
CheckLimits(a) ==
  /\ at[a] = "top"
  /\ \/ aborted[a] /\ Ends(a, "aborted")
     \/ ~aborted[a] /\ iterations[a] >= maxIterations /\ Ends(a, "max_iterations")
     \/ /\ ~aborted[a] /\ iterations[a] < maxIterations /\ late[a]
        /\ Ends(a, "timeout")
     \/ /\ ~aborted[a] /\ iterations[a] < maxIterations /\ ~late[a]
        /\ costUsd[a] >= maxUsd
        /\ Ends(a, "budget")
     \/ /\ ~aborted[a] /\ iterations[a] < maxIterations /\ ~late[a]
        /\ costUsd[a] < maxUsd
        /\ Goto(a, "asking")
        /\ UNCHANGED reason
  /\ UNCHANGED <<iterations, costUsd, modelIndex, nudged, messages, open, results, response, aborted, late,
                 ledger, history>>

(* Mutant: the hook that asks for the month's spend is not called. *)
BeforeStepUncapped(a) ==
  /\ at[a] = "asking"
  /\ iterations' = [iterations EXCEPT ![a] = @ + 1]
  /\ calls' = [calls EXCEPT ![a] = @ + 1]
  /\ Goto(a, "calling")
  /\ UNCHANGED <<costUsd, modelIndex, nudged, messages, open, results, response, reason, aborted, late,
                 ledger, answered>>

(* beforeStep reads the month's spend; a call with an aborted signal is refused
   before it is sent. *)
BeforeStep(a) ==
  /\ at[a] = "asking"
  /\ \/ /\ spent >= monthlyCapUsd
        /\ Ends(a, "blocked")
        /\ UNCHANGED <<iterations, calls>>
     \/ /\ spent < monthlyCapUsd
        /\ iterations' = [iterations EXCEPT ![a] = @ + 1]
        /\ IF aborted[a]
           THEN Ends(a, "aborted") /\ UNCHANGED calls
           ELSE /\ Goto(a, "calling")
                /\ calls' = [calls EXCEPT ![a] = @ + 1]
                /\ UNCHANGED reason
     \/ a \in Disturbed /\ Ends(a, "threw") /\ UNCHANGED <<iterations, calls>>
  /\ UNCHANGED <<costUsd, modelIndex, nudged, messages, open, results, response, aborted, late, ledger,
                 answered>>

(* What step can give: text alone, a valid finish call, or other tool calls, of
   which the SDK may find some invalid. *)
Response(kind, c, ids, invalid) == [kind |-> kind, cost |-> c, calls |-> ids, invalid |-> invalid]

Responses(c) ==
  {Response("text", c, {}, {}), Response("finish", c, {1}, {})}
  \cup {Response("tools", c, 1 .. n, 1 .. k) : n \in 1 .. MaxToolCalls, k \in 0 .. MaxToolCalls}

Responds(a) ==
  /\ at[a] = "calling"
  /\ \E c \in Costs[modelIndex[a]] : \E r \in Responses(c) :
       /\ r.invalid \subseteq r.calls
       /\ response' = [response EXCEPT ![a] = r]
       /\ costUsd' = [costUsd EXCEPT ![a] = @ + r.cost]
  /\ answered' = [answered EXCEPT ![a] = @ + 1]
  /\ Goto(a, "recording")
  /\ UNCHANGED <<iterations, modelIndex, nudged, messages, open, results, reason, aborted, late,
                 ledger, calls>>

(* Mutant: the failed call costs a step. *)
CallFailsCounted(a) ==
  /\ at[a] = "calling" /\ a \in Disturbed
  /\ modelIndex[a] < Models
  /\ modelIndex' = [modelIndex EXCEPT ![a] = @ + 1]
  /\ Goto(a, "top")
  /\ UNCHANGED <<iterations, costUsd, nudged, messages, open, results, response, reason, aborted, late, ledger,
                 history>>

(* Mutant: the step goes round the models for as long as they fail. *)
CallFailsRoundRobin(a) ==
  /\ at[a] = "calling" /\ a \in Disturbed
  /\ \/ aborted[a] /\ Ends(a, "aborted") /\ UNCHANGED modelIndex
     \/ ~aborted[a] /\ late[a] /\ Ends(a, "timeout") /\ UNCHANGED modelIndex
     \/ /\ ~aborted[a] /\ ~late[a]
        /\ modelIndex' = [modelIndex EXCEPT ![a] = (@ % Models) + 1]
        /\ UNCHANGED <<at, reason>>
  /\ UNCHANGED <<iterations, costUsd, nudged, messages, open, results, response, aborted, late,
                 ledger, history>>

(* A call that fails: by the abort signal, by the deadline's timer, by an outage
   (a fallback takes over and the step does not count), or for good. *)
CallFails(a) ==
  /\ at[a] = "calling" /\ a \in Disturbed
  /\ \/ aborted[a] /\ Ends(a, "aborted") /\ UNCHANGED <<iterations, modelIndex>>
     \/ ~aborted[a] /\ late[a] /\ Ends(a, "timeout") /\ UNCHANGED <<iterations, modelIndex>>
     \/ /\ ~aborted[a]
        /\ modelIndex[a] < Models
        /\ modelIndex' = [modelIndex EXCEPT ![a] = @ + 1]
        /\ iterations' = [iterations EXCEPT ![a] = @ - 1]
        /\ Goto(a, "top")
        /\ UNCHANGED reason
     \/ ~aborted[a] /\ Ends(a, "threw") /\ UNCHANGED <<iterations, modelIndex>>
  /\ UNCHANGED <<costUsd, nudged, messages, open, results, response, aborted, late, ledger, history>>

(* The messages of the response join the transcript. *)
joined(a) ==
  messages[a] \o responseMessages(sdkMessages(response[a].calls, response[a].invalid))

Says(a, transcript) == messages' = [messages EXCEPT ![a] = transcript]

(* Mutant: calls that the SDK has answered get no other result. *)
toExecuteValid(a) == response[a].calls \ response[a].invalid

(* The calls without a result; invalid ones get an error text. *)
toExecute(a) ==
  response[a].calls
    \ answeredIn(responseMessages(sdkMessages(response[a].calls, response[a].invalid)))

(* A text gets one reminder, a finish ends the run, tool calls are executed. *)
Takes(a) ==
  \/ /\ response[a].kind = "text"
     /\ nudged[a] \/ iterations[a] = maxIterations
     /\ Ends(a, "no_tool_call")
     /\ Says(a, joined(a))
     /\ UNCHANGED <<nudged, open, results>>
  \/ /\ response[a].kind = "text"
     /\ ~nudged[a] /\ iterations[a] # maxIterations
     /\ nudged' = [nudged EXCEPT ![a] = TRUE]
     /\ Says(a, Append(joined(a), User))
     /\ Goto(a, "top")
     /\ UNCHANGED <<open, results, reason>>
  \/ /\ response[a].kind = "finish"
     /\ Ends(a, "finished")
     /\ Says(a, joined(a))
     /\ UNCHANGED <<nudged, open, results>>
  \/ /\ response[a].kind = "tools"
     /\ Goto(a, "tools")
     /\ Says(a, joined(a))
     /\ open' = [open EXCEPT ![a] = toExecute(a)]
     /\ results' = [results EXCEPT ![a] = {}]
     /\ UNCHANGED <<nudged, reason>>

(* Mutant: the call is inserted and the job's total forgotten. *)
BooksForTheMonth(a) ==
  /\ spent' = spent + response[a].cost
  /\ UNCHANGED jobCost

(* recordLlmCall inserts the call and adds its cost to the job's. *)
Books(a) ==
  /\ spent' = spent + response[a].cost
  /\ jobCost' = [jobCost EXCEPT ![a] = @ + response[a].cost]

(* onLlmCall, then the rest of the iteration up to the first tool. *)
OnLlmCall(a) ==
  /\ at[a] = "recording"
  /\ \/ Books(a) /\ Takes(a)
     \/ /\ a \in Disturbed
        /\ Books(a) \/ UNCHANGED ledger
        /\ Ends(a, "threw")
        /\ UNCHANGED <<nudged, messages, open, results>>
  /\ response' = [response EXCEPT ![a] = NoResponse]
  /\ UNCHANGED <<iterations, costUsd, modelIndex, aborted, late, history>>

(* The next tool call: its result, an error text, or what it threw, is its answer. *)
ToolCall(a) ==
  /\ at[a] = "tools"
  /\ open[a] # {}
  /\ \/ aborted[a] /\ Ends(a, "aborted") /\ UNCHANGED <<open, results>>
     \/ a \in Disturbed /\ Ends(a, "threw") /\ UNCHANGED <<open, results>>
     \/ \E id \in open[a] :
          /\ \A other \in open[a] : id <= other
          /\ open' = [open EXCEPT ![a] = @ \ {id}]
          /\ results' = [results EXCEPT ![a] = @ \cup {id}]
          /\ UNCHANGED <<at, reason>>
  /\ UNCHANGED <<iterations, costUsd, modelIndex, nudged, messages, response, aborted, late,
                 ledger, history>>

(* All answers go into one message; a long transcript is compacted; before the
   last step comes a warning. *)
PushResults(a) ==
  /\ at[a] = "tools"
  /\ open[a] = {}
  /\ \E compact \in BOOLEAN :
       LET replied == IF results[a] = {} THEN messages[a] ELSE Append(messages[a], Tool(results[a]))
           kept == IF compact THEN compactToolResults(replied, keepLast) ELSE replied
       IN Says(a, IF iterations[a] = maxIterations - 1 THEN Append(kept, User) ELSE kept)
  /\ Goto(a, "top")
  /\ UNCHANGED <<iterations, costUsd, modelIndex, nudged, open, results, response, reason, aborted,
                 late, ledger, history>>

(* All but the tool calls. *)
Moves(a) ==
  \/ CheckLimits(a)
  \/ BeforeStep(a)
  \/ Responds(a)
  \/ CallFails(a)
  \/ OnLlmCall(a)
  \/ PushResults(a)

Step(a) == Moves(a) \/ ToolCall(a)

Next ==
  \/ \E a \in Agents : Begin(a) \/ Step(a) \/ Abort(a) \/ DeadlinePasses(a)
  \/ MonthEnds

Spec == Init /\ [][Next]_vars

(* A call of a model ends with its own abort signal at the deadline, and the hooks
   with their statement.  A tool call may take for ever: readFile and writeFile of
   the sandbox have no timeout. *)
FairSpec == Spec /\ \A a \in Agents : WF_vars(Moves(a))

-----------------------------------------------------------------------------
(* What the loop promises. *)

(* The budget of a job is checked before every call, so a job costs less than
   one call more than its limit, whatever falls back, times out or fails. *)
JobBudgetHolds == \A a \in Agents : costUsd[a] < maxUsd + MaxCost

(* A run that has asked for the month's spend is not counted in it yet; the
   month goes over its cap by less than one call of each run. *)
MonthOvershootBound == spent < monthlyCapUsd + Cardinality(Agents) * MaxCost

(* Every response that was paid for is on the job, except the one in hand and
   the last one of a run that threw: nothing is booked twice or forgotten. *)
CallsAreBooked ==
  \A a \in Agents :
    /\ jobCost[a] + response[a].cost <= costUsd[a]
    /\ costUsd[a] - jobCost[a] <= MaxCost
    /\ reason[a] # "threw" => jobCost[a] + response[a].cost = costUsd[a]

(* A fallback neither costs a step nor gives one: the responses are the steps
   taken, and the failed calls are at most the models given up. *)
FallbacksAreFree ==
  \A a \in Agents :
    /\ at[a] \notin {"calling", "done"} => answered[a] = iterations[a]
    /\ at[a] # "done" => calls[a] - iterations[a] = modelIndex[a] - 1
    /\ calls[a] <= maxIterations + Models - 1

(* The provider rejects a request whose tool calls do not have a single result
   each, or that ends with the assistant's own words: no call is begun with such a
   transcript, whatever the SDK answered in the loop's place, and compaction takes
   no recent output. *)
TranscriptIsPaired ==
  \A a \in Agents :
    at[a] = "calling" => Accepted(messages[a]) /\ RecentAreWhole(messages[a], keepLast)

(* A run that begins ends (it begins once), whatever the model answers and however
   the providers fail, unless one of its tool calls never returns: the loop, its
   reminders and its fallbacks do not go round for ever. *)
InToolCall(a) == at[a] = "tools" /\ open[a] # {}

RunsEnd ==
  \A a \in Agents : <>[](at[a] \in {"idle", "done"}) \/ <>[]InToolCall(a)
=============================================================================
