------------------------------ MODULE PyAgent ------------------------------
(***************************************************************************)
(* The Python agent (demo/agent-python).  LangChainAgentWorkflow runs one  *)
(* Activity, and LangChain owns the whole loop inside it: model calls and  *)
(* tool calls alternate until the model answers or the recursion limit is  *)
(* reached.  Several Activities share one Worker process, hence the module *)
(* global _fail_tool_rate and the OpenTelemetry instruments.               *)
(*                                                                         *)
(* The server's side (Workflow status, the start-to-close timeout, the     *)
(* single attempt) and LangGraph's step counting are external.  What the   *)
(* instruments recorded is kept per run, which their labels do not tell.   *)
(***************************************************************************)
EXTENDS Integers, Sequences, FiniteSets, Functions

CONSTANTS
    Runs,           \* Workflow Executions
    Requests,       \* what a caller may ask for: [provider, rate]
    MaxIterations,  \* max_iterations of the requests
    MaxToolCalls,   \* tool calls of one model reply, at most
    Usages,         \* token usage of one model call: [input, cached, output]
    Prices,         \* PRICING of the model, [input, cached, output]
    Errors,         \* provider errors: the sets of markers their texts may show
    SlotChoices,    \* what MAX_CONCURRENT_ACTIVITIES may be
    MaxTries,       \* connection attempts of one Worker process (30 in the code)
    MaxCrashes      \* bound on crashes of the Worker process

ASSUME AgentAssumption ==
    /\ MaxIterations \in Nat \ {0} /\ MaxToolCalls \in Nat \ {0} /\ SlotChoices \subseteq Nat \ {0}
    /\ \A q \in Requests : q.rate \in {"never", "sometimes", "always"}
    /\ \A u \in Usages : u.input \in Nat /\ u.cached \in 0..u.input /\ u.output \in Nat
    /\ Prices.input \in Nat /\ Prices.cached \in Nat /\ Prices.output \in Nat
    /\ MaxTries \in Nat \ {0} /\ MaxCrashes \in Nat

MaximumAttempts == 1
NoRequest == [provider |-> "none", rate |-> "never"]

VARIABLES
    wf,         \* the Workflow: "none", "running" until its Activity has an outcome, then what it
                \* closes with, "completed" or "failed"
    closed,     \* the Worker has taken the Workflow Task that closes it
    req,        \* its AgentRequest
    attempts,   \* attempts of the Activity the server has handed out
    current,    \* the server waits for the Activity's answer
    pc,         \* where the Activity is in the Worker, "off" when it is not there
    steps,      \* LangGraph super-steps taken
    calls,      \* callback.iterations
    toolsLeft,  \* tool calls of the last reply not yet made
    totals,     \* callback.totals
    sent,       \* model requests sent, over all attempts
    cost,       \* gen_ai.client.cost added for the run
    outcomes,   \* gen_ai.agent.runs: the <<outcome, reason>> recorded for the run
    injected,   \* a tool of the run failed by injection
    disturbed,  \* another run began while this one was in the Worker
    failRate,   \* _fail_tool_rate
    slots,      \* MAX_CONCURRENT_ACTIVITIES
    metrics,    \* init_metrics found an endpoint
    up,         \* the Worker process is connected and polling
    tries,      \* its failed connection attempts; MaxTries when there is no process
    crashes

activityVars == <<steps, calls, toolsLeft, totals>>
reportVars == <<sent, cost, outcomes, injected>>
workerVars == <<failRate, slots, metrics, up, tries, crashes>>
vars == <<wf, closed, req, attempts, current, pc, activityVars, reportVars, disturbed, workerVars>>

NoUsage == [input |-> 0, cached |-> 0, output |-> 0]

AddUsage(a, b) == [k \in DOMAIN NoUsage |-> a[k] + b[k]]

\* cached input is a subset of input, billed cheaper
EstimateCost(u) ==
    LET full == IF u.input > u.cached THEN u.input - u.cached ELSE 0
    IN full * Prices.input + u.cached * Prices.cached + u.output * Prices.output

\* the first bucket one of whose markers the text shows
Buckets == <<"rate_limit", "overloaded", "auth", "timeout", "refusal", "bad_request",
             "server_error">>
ClassifyError(text) ==
    IF \E i \in DOMAIN Buckets : Buckets[i] \in text
    THEN Buckets[CHOOSE i \in DOMAIN Buckets :
                   /\ Buckets[i] \in text
                   /\ \A j \in 1..(i - 1) : Buckets[j] \notin text]
    ELSE "unknown"

RecursionError == {"recursion"}
\* "bad_request: unknown provider" shows none of the markers, "400" or "invalid_request"
UnknownProvider == {}

RecordAgentRun(r, outcome, reason) ==
    outcomes' = IF metrics THEN [outcomes EXCEPT ![r] = Append(@, <<outcome, reason>>)]
                           ELSE outcomes

\* the except clause of run_langchain_agent; the Activity then fails
Raise(r, text) ==
    /\ RecordAgentRun(r, IF "recursion" \in text THEN "max_iterations" ELSE "error",
                      ClassifyError(text))
    /\ pc' = [pc EXCEPT ![r] = "failed"]

InWorker(r) == pc[r] # "off"
---------------------------------------------------------------------------
\* init_metrics: without an endpoint every counter is a no-op
InitMetrics == metrics \in BOOLEAN

Init ==
    /\ wf = [r \in Runs |-> "none"]
    /\ closed = [r \in Runs |-> FALSE]
    /\ req = [r \in Runs |-> NoRequest]
    /\ attempts = [r \in Runs |-> 0]
    /\ current = [r \in Runs |-> FALSE]
    /\ pc = [r \in Runs |-> "off"]
    /\ steps = [r \in Runs |-> 0]
    /\ calls = [r \in Runs |-> 0]
    /\ toolsLeft = [r \in Runs |-> 0]
    /\ totals = [r \in Runs |-> NoUsage]
    /\ sent = [r \in Runs |-> 0]
    /\ cost = [r \in Runs |-> 0]
    /\ outcomes = [r \in Runs |-> <<>>]
    /\ injected = [r \in Runs |-> FALSE]
    /\ disturbed = [r \in Runs |-> FALSE]
    /\ failRate = "never"
    /\ slots \in SlotChoices
    /\ InitMetrics
    /\ up = FALSE
    /\ tries = 0
    /\ crashes = 0

\* main(): connect_with_retry succeeds and the Worker polls
Connect ==
    /\ ~up /\ tries < MaxTries
    /\ up' = TRUE
    /\ tries' = 0
    /\ UNCHANGED <<wf, closed, req, attempts, current, pc, activityVars, reportVars, disturbed,
                   failRate, slots, metrics, crashes>>

\* Client.connect raises; the last time main() gives up and the process ends
ConnectFails ==
    /\ ~up /\ tries < MaxTries
    /\ tries' = tries + 1
    /\ UNCHANGED <<wf, closed, req, attempts, current, pc, activityVars, reportVars, disturbed,
                   failRate, slots, metrics, up, crashes>>

\* the service has no restart policy: someone starts it again, or nobody does
Restart ==
    /\ ~up /\ tries = MaxTries
    /\ tries' = 0
    /\ failRate' = "never"
    /\ UNCHANGED <<wf, closed, req, attempts, current, pc, activityVars, reportVars, disturbed,
                   slots, metrics, up, crashes>>

\* a caller starts LangChainAgentWorkflow, which schedules its Activity
StartWorkflow(r) ==
    /\ wf[r] = "none"
    /\ wf' = [wf EXCEPT ![r] = "running"]
    /\ \E q \in Requests : req' = [req EXCEPT ![r] = q]
    /\ UNCHANGED <<closed, attempts, current, pc, activityVars, reportVars, disturbed, workerVars>>

(* With a bug: a rate of zero leaves the rate of the run before in force.  *)
KeepRate(r) == failRate' = IF req[r].rate = "never" THEN failRate ELSE req[r].rate

\* global _fail_tool_rate
SetRate(r) == failRate' = req[r].rate

\* the Worker takes the Activity: the global, and a new callback
Begin(r) ==
    /\ up /\ wf[r] = "running" /\ ~current[r] /\ pc[r] = "off"
    /\ Cardinality({x \in Runs : InWorker(x)}) < slots
    /\ attempts' = [attempts EXCEPT ![r] = @ + 1]
    /\ current' = [current EXCEPT ![r] = TRUE]
    /\ SetRate(r)
    /\ disturbed' = [x \in Runs |-> IF x = r THEN FALSE ELSE disturbed[x] \/ InWorker(x)]
    /\ steps' = [steps EXCEPT ![r] = 0]
    /\ calls' = [calls EXCEPT ![r] = 0]
    /\ toolsLeft' = [toolsLeft EXCEPT ![r] = 0]
    /\ totals' = [totals EXCEPT ![r] = NoUsage]
    /\ pc' = [pc EXCEPT ![r] = "build"]
    /\ UNCHANGED <<wf, closed, req, reportVars, slots, metrics, up, tries, crashes>>

\* _build_model: an unknown provider raises
BuildModel(r) ==
    /\ pc[r] = "build"
    /\ IF req[r].provider \in {"anthropic", "openai"}
       THEN pc' = [pc EXCEPT ![r] = "model"] /\ UNCHANGED outcomes
       ELSE Raise(r, UnknownProvider)
    /\ UNCHANGED <<wf, closed, req, attempts, current, activityVars, sent, cost, injected,
                   disturbed, workerVars>>

(* With a bug: the limit is not doubled for the tool steps.                *)
UndoubledLimit == MaxIterations

\* LangGraph takes at most recursion_limit = max_iterations * 2 steps
RecursionLimit == MaxIterations * 2

LimitReached(r) ==
    /\ pc[r] = "model" /\ steps[r] >= RecursionLimit
    /\ Raise(r, RecursionError)
    /\ UNCHANGED <<wf, closed, req, attempts, current, activityVars, sent, cost, injected,
                   disturbed, workerVars>>

\* on_chat_model_start: the request is sent
CallModel(r) ==
    /\ pc[r] = "model" /\ steps[r] < RecursionLimit
    /\ pc' = [pc EXCEPT ![r] = "llm"]
    /\ steps' = [steps EXCEPT ![r] = @ + 1]
    /\ sent' = [sent EXCEPT ![r] = @ + 1]
    /\ UNCHANGED <<wf, closed, req, attempts, current, calls, toolsLeft, totals, cost, outcomes,
                   injected, disturbed, workerVars>>

\* on_llm_end and record_llm_call; the reply asks for n tools, or is the answer
ModelReplies(r) ==
    /\ pc[r] = "llm"
    /\ \E u \in Usages :
         /\ totals' = [totals EXCEPT ![r] = AddUsage(@, u)]
         /\ cost' = [cost EXCEPT ![r] = IF metrics THEN @ + EstimateCost(u) ELSE @]
    /\ \E n \in 0..MaxToolCalls :
         /\ toolsLeft' = [toolsLeft EXCEPT ![r] = n]
         /\ pc' = [pc EXCEPT ![r] = IF n = 0 THEN "answered" ELSE "tools"]
    /\ calls' = [calls EXCEPT ![r] = @ + 1]
    /\ UNCHANGED <<wf, closed, req, attempts, current, steps, sent, outcomes, injected, disturbed,
                   workerVars>>

\* on_llm_error: no usage to add, the error leaves the loop
ModelFails(r) ==
    /\ pc[r] = "llm"
    /\ \E text \in Errors : Raise(r, text)
    /\ UNCHANGED <<wf, closed, req, attempts, current, activityVars, sent, cost, injected,
                   disturbed, workerVars>>

\* _maybe_fail: the rate is read when the tool runs, not when the run began
ToolMayFail(fails) ==
    CASE failRate = "never"     -> ~fails
      [] failRate = "always"    -> fails
      [] failRate = "sometimes" -> TRUE

\* One tool call; a failed one goes back to the model as a message, as the docstring of
\* _maybe_fail has it (a LangChain that raises instead would end the loop as ModelFails does).
CallTool(r) ==
    /\ pc[r] = "tools"
    /\ \E fails \in BOOLEAN :
         /\ ToolMayFail(fails)
         /\ injected' = [injected EXCEPT ![r] = @ \/ fails]
    /\ toolsLeft' = [toolsLeft EXCEPT ![r] = @ - 1]
    /\ IF toolsLeft[r] = 1
       THEN pc' = [pc EXCEPT ![r] = "model"] /\ steps' = [steps EXCEPT ![r] = @ + 1]
       ELSE UNCHANGED <<pc, steps>>
    /\ UNCHANGED <<wf, closed, req, attempts, current, calls, totals, sent, cost, outcomes,
                   disturbed, workerVars>>

\* the answer: the run is recorded and the Activity returns
Finish(r) ==
    /\ pc[r] = "answered"
    /\ RecordAgentRun(r, "completed", "end_turn")
    /\ pc' = [pc EXCEPT ![r] = "done"]
    /\ UNCHANGED <<wf, closed, req, attempts, current, activityVars, sent, cost, injected,
                   disturbed, workerVars>>

(* With a bug: the default retry policy, three attempts.                   *)
ThreeAttempts(r) == attempts[r] >= 3

NoRetry(r) == attempts[r] >= MaximumAttempts

\* the server hears that the attempt failed: the Workflow fails with it
AttemptFailed(r) ==
    /\ current' = [current EXCEPT ![r] = FALSE]
    /\ wf' = IF NoRetry(r) THEN [wf EXCEPT ![r] = "failed"] ELSE wf

\* the Worker reports the result; a server that has given up ignores it
Respond(r) ==
    /\ pc[r] \in {"done", "failed"}
    /\ pc' = [pc EXCEPT ![r] = "off"]
    /\ IF ~current[r] THEN UNCHANGED <<wf, current>>
       ELSE IF pc[r] = "failed" THEN AttemptFailed(r)
       ELSE /\ wf' = [wf EXCEPT ![r] = "completed"]
            /\ current' = [current EXCEPT ![r] = FALSE]
    /\ UNCHANGED <<closed, req, attempts, activityVars, reportVars, disturbed, workerVars>>

(* With a bug: only an Activity that is still in the Worker times out.      *)
TimeoutInWorker(r) ==
    /\ current[r] /\ InWorker(r)
    /\ AttemptFailed(r)
    /\ UNCHANGED <<closed, req, attempts, pc, activityVars, reportVars, disturbed, workerVars>>

\* start_to_close_timeout: the server gives the attempt up, the Activity may run on
StartToCloseTimeout(r) ==
    /\ current[r]
    /\ AttemptFailed(r)
    /\ UNCHANGED <<closed, req, attempts, pc, activityVars, reportVars, disturbed, workerVars>>

\* the SDK cancels a timed-out Activity at an await: CancelledError is no Exception,
\* so nothing is recorded
Cancelled(r) ==
    /\ pc[r] \in {"llm", "tools"} /\ ~current[r]
    /\ pc' = [pc EXCEPT ![r] = "off"]
    /\ UNCHANGED <<wf, closed, req, attempts, current, activityVars, reportVars, disturbed,
                   workerVars>>

\* The Worker takes the Workflow Task that tells the Workflow of its Activity.
CloseWorkflow(r) ==
    /\ up /\ wf[r] \in {"completed", "failed"} /\ ~closed[r]
    /\ closed' = [closed EXCEPT ![r] = TRUE]
    /\ UNCHANGED <<wf, req, attempts, current, pc, activityVars, reportVars, disturbed, workerVars>>

\* the Worker process dies with all its Activities; the server does not hear of it
Crash ==
    /\ up /\ crashes < MaxCrashes
    /\ crashes' = crashes + 1
    /\ up' = FALSE
    /\ tries' = MaxTries
    /\ pc' = [r \in Runs |-> "off"]
    /\ UNCHANGED <<wf, closed, req, attempts, current, activityVars, reportVars, disturbed,
                   failRate, slots, metrics>>

InLoop(r) ==
    \/ BuildModel(r) \/ LimitReached(r) \/ CallModel(r) \/ ModelReplies(r) \/ ModelFails(r)
    \/ CallTool(r) \/ Finish(r) \/ Respond(r)

\* a Worker without an Activity polls on
PollEmpty == up /\ (\A r \in Runs : ~InWorker(r)) /\ UNCHANGED vars

Next ==
    \/ Connect \/ ConnectFails \/ Restart \/ Crash \/ PollEmpty
    \/ \E r \in Runs :
         \/ StartWorkflow(r) \/ Begin(r) \/ InLoop(r)
         \/ StartToCloseTimeout(r) \/ Cancelled(r) \/ CloseWorkflow(r)

\* A Worker process that is there goes on trying to connect, each time with one result or
\* the other; that one is there nothing says, the service having no restart policy.  A Worker
\* that polls is given its Tasks, the loop's steps are taken, and the timeout fires: for an
\* attempt that is lost it is the only way on.
Fairness ==
    /\ WF_vars(Connect \/ ConnectFails)
    /\ \A r \in Runs :
         /\ WF_vars(InLoop(r))
         /\ WF_vars(Begin(r))
         /\ WF_vars(CloseWorkflow(r))
         /\ WF_vars(StartToCloseTimeout(r) /\ pc[r] = "off")

Spec == Init /\ [][Next]_vars /\ Fairness
---------------------------------------------------------------------------
TypeOK ==
    /\ wf \in [Runs -> {"none", "running", "completed", "failed"}] /\ closed \in [Runs -> BOOLEAN]
    /\ req \in [Runs -> Requests \union {NoRequest}]
    /\ attempts \in [Runs -> Nat] /\ current \in [Runs -> BOOLEAN]
    /\ pc \in [Runs -> {"off", "build", "model", "llm", "tools", "answered", "done", "failed"}]
    /\ steps \in [Runs -> 0..RecursionLimit] /\ calls \in [Runs -> Nat]
    /\ toolsLeft \in [Runs -> 0..MaxToolCalls]
    /\ sent \in [Runs -> Nat] /\ cost \in [Runs -> Nat]
    /\ injected \in [Runs -> BOOLEAN] /\ disturbed \in [Runs -> BOOLEAN]
    /\ failRate \in {"never", "sometimes", "always"}
    /\ slots \in SlotChoices /\ metrics \in BOOLEAN /\ up \in BOOLEAN
    /\ tries \in 0..MaxTries /\ crashes \in 0..MaxCrashes

(* Whatever crashes, times out or answers late, a Workflow pays for at     *)
(* most one loop: no more requests than max_iterations.  The loop        *)
(* restarted from call one is what the single attempt is there to prevent  *)
(* (workflow.py, "ONE ATTEMPT, DELIBERATELY").                             *)
PaidOnce == \A r \in Runs : sent[r] <= MaxIterations

(* A run is recorded at most once; a Workflow that completed was recorded  *)
(* as completed, and one recorded as max_iterations did use up all its     *)
(* calls.  The spend counter agrees with the usage a completed run         *)
(* returns: pricing call by call adds up to the price of the totals.  The  *)
(* converse is not promised: a run recorded as completed may have been     *)
(* given up by the server before its answer arrived.                       *)
RecordedHonestly ==
    metrics => \A r \in Runs :
        /\ Len(outcomes[r]) <= 1
        /\ wf[r] = "completed" => outcomes[r] = <<<<"completed", "end_turn">>>>
        /\ \A i \in DOMAIN outcomes[r] :
             outcomes[r][i][1] = "max_iterations" => calls[r] = MaxIterations
        /\ wf[r] = "completed" => cost[r] = EstimateCost(totals[r])

(* Injection reaches the run that asked for it: a run that asked for none  *)
(* has no injected failure unless another run began while it was running   *)
(* (agent.py:231 keeps the rate in a module global).                       *)
InjectedAsAsked ==
    \A r \in Runs : injected[r] /\ req[r].rate = "never" => disturbed[r]

(* An Activity that was begun has an outcome some day, also when it was    *)
(* lost in a crash nobody repairs.  And as long as the Worker is brought   *)
(* back, every started Workflow closes, also when the slots are taken by   *)
(* Activities the server has given up.  Without a Worker it stays open:    *)
(* workflow.py sets no schedule timeout, and nothing restarts the service. *)
EveryRunCloses ==
    /\ \A r \in Runs : wf[r] = "running" /\ attempts[r] > 0 ~> wf[r] \in {"completed", "failed"}
    /\ []<>up => \A r \in Runs : wf[r] = "running" ~> closed[r]
=============================================================================
