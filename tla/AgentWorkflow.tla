--------------------------- MODULE AgentWorkflow ---------------------------
(***************************************************************************)
(* One run of AgentWorkflow (demo/app/agent_workflow.go) with the three    *)
(* Activities it executes (demo/app/agent_activities.go): InvokeModel,     *)
(* RunAgentTool and ReportAgentRun.                                        *)
(*                                                                         *)
(* The Workflow's state is what its history determines.  The server        *)
(* schedules an Activity, a Worker runs it, and its completion may be      *)
(* lost with the Worker, before or after the Activity had its effect: the  *)
(* server then times the attempt out and retries it, three attempts in     *)
(* all.  An error is kept as the fault it stands for and the tokens its    *)
(* text contains, of those classifyLLMError looks for.                     *)
(***************************************************************************)
EXTENDS Integers, Sequences, FiniteSets

CONSTANTS
  MaxCalls,             \* tool calls a reply may carry
  InputIterations,      \* values of MaxIterations in the input
  DefaultMaxIterations, \* defaultMaxIterations
  MaxAttempts,          \* MaximumAttempts of both retry policies
  Faults,               \* errors of a provider: [fault, says]
  Models,               \* what defaultModelFor may return
  FirstModel,           \* what it returns when the run is started
  MaxRollouts           \* bound: changes of the Workers' environment

ASSUME AgentAssumption ==
  /\ MaxCalls \in Nat \ {0}
  /\ InputIterations \subseteq Int
  /\ DefaultMaxIterations \in Nat \ {0}
  /\ MaxAttempts \in Nat \ {0}
  /\ FirstModel \in Models
  /\ MaxRollouts \in Nat

VARIABLES
  pc,          \* where the Workflow waits
  iter,        \* i, result.Iterations
  maxIter,     \* maxIter
  messages,    \* messages
  usage,       \* replies added to total
  result,      \* what the Workflow decided: the outcome and its stop reason
  llm,         \* the InvokeModel Activity of this iteration
  tool,        \* the RunAgentTool Activities, by index of the call
  report,      \* the ReportAgentRun Activity
  invocations, \* requests made to the provider
  emitted,     \* recordAgentRun emissions, one record each
  unversioned, \* the run was started by code without the SideEffect
  envModel,    \* defaultModelFor(provider) on the Workers now
  model,       \* model, as the Workflow has it
  used,        \* models the provider was asked for
  rollouts     \* rollouts so far

runVars == <<pc, iter, maxIter, messages, usage, result>>
actVars == <<llm, tool, report>>
effectVars == <<invocations, emitted, used>>
modelVars == <<unversioned, envModel, model, rollouts>>
vars == <<runVars, actVars, effectVars, modelVars>>

Calls == 1..MaxCalls

(* An Activity: its state, its attempt, what the attempt came to, and the  *)
(* error the server was told of before it scheduled this attempt.          *)
NoOut == [fault |-> "none", says |-> {}, calls |-> 0, err |-> FALSE, of |-> <<0, 0>>]
NotScheduled == [st |-> "idle", attempt |-> 0, out |-> NoOut, last |-> NoOut]
Scheduled == [NotScheduled EXCEPT !.st = "scheduled", !.attempt = 1]
TimedOut == [NoOut EXCEPT !.fault = "timeout", !.says = {"deadline"}]

States == {"idle", "scheduled", "ran", "done", "failed"}
NoResult == [outcome |-> "none", stop |-> "none", iterations |-> 0]
UserMessage == [role |-> "user", calls |-> 0, id |-> <<0, 0>>, of |-> <<0, 0>>, err |-> FALSE]

TypeOK ==
  /\ pc \in {"start", "model", "tools", "report", "closed"}
  /\ maxIter \in Nat \ {0}
  /\ iter \in 0..maxIter
  /\ pc \notin {"start", "closed"} => iter > 0
  /\ Len(messages) <= 1 + iter * (1 + MaxCalls)
  /\ usage \in 0..iter
  /\ result.outcome \in {"none", "completed", "error", "max_iterations", "timed_out"}
  /\ \A a \in {llm, report} \cup {tool[j] : j \in Calls} :
       a.st \in States /\ a.attempt \in 0..MaxAttempts
  /\ envModel \in Models
  /\ model \in Models
  /\ used \subseteq Models

Init ==
  /\ pc = "start"
  /\ iter = 0
  /\ \E n \in InputIterations : maxIter = IF n <= 0 THEN DefaultMaxIterations ELSE n
  /\ messages = <<>>
  /\ usage = 0
  /\ result = NoResult
  /\ llm = NotScheduled
  /\ tool = [j \in Calls |-> NotScheduled]
  /\ report = NotScheduled
  /\ invocations = 0
  /\ emitted = {}
  /\ unversioned \in BOOLEAN
  /\ envModel = FirstModel
  /\ model = FirstModel
  /\ used = {}
  /\ rollouts = 0

-----------------------------------------------------------------------------
(* classifyLLMError: the first token of the switch that the text contains. *)

Switch == << <<"rate_limit", "rate_limit">>, <<"overloaded", "overloaded">>,
             <<"auth", "auth">>, <<"deadline", "timeout">>, <<"refusal", "refusal">>,
             <<"invalid_request", "bad_request">>, <<"5xx", "server_error">> >>

classifyLLMError(says) ==
  IF \E i \in DOMAIN Switch : Switch[i][1] \in says
  THEN LET first == CHOOSE i \in DOMAIN Switch :
                      /\ Switch[i][1] \in says
                      /\ \A k \in 1..(i - 1) : Switch[k][1] \notin says
       IN Switch[first][2]
  ELSE "unknown"

(* With a bug: a refusal is taken for a fault of the provider.             *)
NonRetryableFaultsOnly(says) == classifyLLMError(says) \in {"auth", "bad_request"}

NonRetryable(says) == classifyLLMError(says) \in {"auth", "bad_request", "refusal"}

-----------------------------------------------------------------------------
(* The server's side of an Activity.                                       *)

(* With a bug: an attempt too many.                                        *)
RetryOnceMore(a, out) ==
  IF a.attempt <= MaxAttempts
  THEN [st |-> "scheduled", attempt |-> a.attempt + 1, out |-> NoOut, last |-> out]
  ELSE [a EXCEPT !.st = "failed", !.out = out]

RetryOrFail(a, out) ==
  IF a.attempt < MaxAttempts
  THEN [st |-> "scheduled", attempt |-> a.attempt + 1, out |-> NoOut, last |-> out]
  ELSE [a EXCEPT !.st = "failed", !.out = out]

Completed(a) ==
  IF a.out.fault = "none" THEN [a EXCEPT !.st = "done"]
  ELSE IF NonRetryable(a.out.says) THEN [a EXCEPT !.st = "failed"]
  ELSE RetryOrFail(a, a.out)

(* The result of an attempt arrives, or the attempt is lost.  Nothing is    *)
(* retried once the run has closed.                                        *)
Ends(a) ==
  IF pc = "closed" \/ a.st \notin {"scheduled", "ran"} THEN {}
  ELSE {RetryOrFail(a, TimedOut)} \cup (IF a.st = "ran" THEN {Completed(a)} ELSE {})

Ready(a) == a.st \in {"done", "failed"}

(* What an attempt may come to.                                            *)
Replies == {[NoOut EXCEPT !.calls = n] : n \in 0..MaxCalls}
Refusals == {[NoOut EXCEPT !.fault = f.fault, !.says = f.says] : f \in Faults}
ToolResults(id) ==
  {[NoOut EXCEPT !.of = id, !.err = e] : e \in BOOLEAN} \cup
  {[NoOut EXCEPT !.of = id, !.fault = "tool_unavailable"]}

InvokeModel ==
  /\ llm.st = "scheduled"
  /\ \E out \in Replies \cup Refusals : llm' = [llm EXCEPT !.st = "ran", !.out = out]
  /\ invocations' = invocations + 1
  /\ used' = used \cup {model}
  /\ UNCHANGED <<runVars, tool, report, emitted, modelVars>>

RunAgentTool(j) ==
  /\ tool[j].st = "scheduled"
  /\ \E out \in ToolResults(<<iter, j>>) :
       tool' = [tool EXCEPT ![j] = [@ EXCEPT !.st = "ran", !.out = out]]
  /\ UNCHANGED <<runVars, llm, report, effectVars, modelVars>>

ReportAgentRun ==
  /\ report.st = "scheduled"
  /\ report' = [report EXCEPT !.st = "ran"]
  /\ emitted' = emitted \cup {result}
  /\ UNCHANGED <<runVars, llm, tool, invocations, used, modelVars>>

ActivityEnds ==
  /\ \/ llm' \in Ends(llm) /\ UNCHANGED <<tool, report>>
     \/ report' \in Ends(report) /\ UNCHANGED <<llm, tool>>
     \/ /\ \E j \in Calls : \E b \in Ends(tool[j]) : tool' = [tool EXCEPT ![j] = b]
        /\ UNCHANGED <<llm, report>>
  /\ UNCHANGED <<runVars, effectVars, modelVars>>

-----------------------------------------------------------------------------
(* The Workflow: each action is what it does from one wait to the next.    *)

Ask(i) ==
  /\ pc' = "model"
  /\ iter' = i
  /\ llm' = Scheduled

(* With a bug: the report carries the stop reason result was made with.    *)
ReportRunDefault(outcome, stop) ==
  /\ pc' = "report"
  /\ result' = [outcome |-> outcome, stop |-> "max_iterations", iterations |-> iter]
  /\ report' = Scheduled

ReportRun(outcome, stop) ==
  /\ pc' = "report"
  /\ result' = [outcome |-> outcome, stop |-> stop, iterations |-> iter]
  /\ report' = Scheduled

Begin ==
  /\ pc = "start"
  /\ messages' = <<UserMessage>>
  /\ model' = envModel
  /\ Ask(1)
  /\ UNCHANGED <<maxIter, usage, result, tool, report, effectVars, unversioned, envModel, rollouts>>

ModelFailed ==
  /\ pc = "model"
  /\ llm.st = "failed"
  /\ ReportRun("error", classifyLLMError(llm.out.says))
  /\ UNCHANGED <<iter, maxIter, messages, usage, llm, tool, effectVars, modelVars>>

Answered ==
  /\ pc = "model"
  /\ llm.st = "done"
  /\ llm.out.calls = 0
  /\ usage' = usage + 1
  /\ ReportRun("completed", "end_turn")
  /\ UNCHANGED <<iter, maxIter, messages, llm, tool, effectVars, modelVars>>

CallTools ==
  /\ pc = "model"
  /\ llm.st = "done"
  /\ llm.out.calls > 0
  /\ usage' = usage + 1
  /\ messages' = Append(messages, [UserMessage EXCEPT !.role = "assistant", !.calls = llm.out.calls])
  /\ tool' = [j \in Calls |-> IF j <= llm.out.calls THEN Scheduled ELSE NotScheduled]
  /\ pc' = "tools"
  /\ UNCHANGED <<iter, maxIter, result, llm, report, effectVars, modelVars>>

ToolMessage(j, a) ==
  [role |-> "tool", calls |-> 0, id |-> <<iter, j>>, of |-> a.out.of,
   err |-> a.st = "failed" \/ a.out.err]

(* With a bug: a tool that has failed has no result in the conversation.   *)
ResultsWithoutFailed ==
  SelectSeq([j \in 1..llm.out.calls |-> ToolMessage(j, tool[j])], LAMBDA m : ~m.err)

(* The futures are read in the order they were started; what became of     *)
(* them is not looked at again.                                            *)
Results == [j \in 1..llm.out.calls |-> ToolMessage(j, tool[j])]

(* With a bug: a tool that has failed is waited for.                       *)
ToolsSucceeded ==
  /\ pc = "tools"
  /\ \A j \in 1..llm.out.calls : tool[j].st = "done"
  /\ messages' = messages \o Results
  /\ tool' = [j \in Calls |-> NotScheduled]

ToolsReady ==
  /\ pc = "tools"
  /\ \A j \in 1..llm.out.calls : Ready(tool[j])
  /\ messages' = messages \o Results
  /\ tool' = [j \in Calls |-> NotScheduled]

NextIteration ==
  /\ ToolsReady
  /\ iter < maxIter
  /\ Ask(iter + 1)
  /\ UNCHANGED <<maxIter, usage, result, report, effectVars, modelVars>>

CapReached ==
  /\ ToolsReady
  /\ iter = maxIter
  /\ ReportRun("max_iterations", "max_iterations")
  /\ UNCHANGED <<iter, maxIter, usage, llm, effectVars, modelVars>>

(* The error of ReportAgentRun is ignored.                                 *)
Return ==
  /\ pc = "report"
  /\ Ready(report)
  /\ pc' = "closed"
  /\ UNCHANGED <<iter, maxIter, messages, usage, result, actVars, effectVars, modelVars>>

(* The server closes a run after 30 minutes (api.go); nothing is reported. *)
ExecutionTimeout ==
  /\ pc \notin {"start", "closed"}
  /\ pc' = "closed"
  /\ result' = [result EXCEPT !.outcome = "timed_out"]
  /\ UNCHANGED <<iter, maxIter, messages, usage, actVars, effectVars, modelVars>>

-----------------------------------------------------------------------------
(* A rollout changes the environment of the Workers, and the next Workflow *)
(* Task replays the run from its history: everything comes out as it was,  *)
(* but for a model that was not recorded.                                  *)

(* With a bug: the model is computed again on every replay.                *)
ReplayAlways ==
  /\ model' = envModel'
  /\ UNCHANGED unversioned

Replay ==
  /\ model' = IF unversioned /\ pc # "start" THEN envModel' ELSE model
  /\ UNCHANGED unversioned

Rollout ==
  /\ rollouts < MaxRollouts
  /\ rollouts' = rollouts + 1
  /\ envModel' \in Models
  /\ Replay
  /\ UNCHANGED <<runVars, actVars, effectVars>>

-----------------------------------------------------------------------------
ActivityRuns == InvokeModel \/ ReportAgentRun \/ \E j \in Calls : RunAgentTool(j)

Decide ==
  Begin \/ ModelFailed \/ Answered \/ CallTools \/ NextIteration \/ CapReached \/ Return

Next == ActivityRuns \/ ActivityEnds \/ Decide \/ ExecutionTimeout \/ Rollout

Spec == Init /\ [][Next]_vars

(* The server dispatches every task while a Worker is there, times out the *)
(* ones that are lost, and tells the Workflow.  Nothing is assumed of the  *)
(* execution timeout: the run must not need it.                            *)
FairSpec ==
  /\ Spec
  /\ WF_vars(ActivityEnds)
  /\ WF_vars(Decide)

-----------------------------------------------------------------------------
(* Properties.                                                             *)

(* What the providers demand of a conversation: after a message with n     *)
(* tool calls come n results, in the order of the calls, each the result   *)
(* of that call, whatever order the tools ended in, whichever failed or    *)
(* was retried (agent_workflow.go 161-192).                                *)
ConversationWellFormed ==
  \A p \in DOMAIN messages :
    messages[p].role = "assistant" =>
      \/ p = Len(messages) /\ pc \in {"tools", "closed"}
      \/ /\ p + messages[p].calls <= Len(messages)
         /\ \A j \in 1..messages[p].calls :
              LET m == messages[p + j] IN
              m.role = "tool" /\ m.id[2] = j /\ (m.of = m.id \/ m.err)

(* The cap is a cost control: however Activities are lost and retried, the *)
(* provider is asked at most MaxAttempts times an iteration, and usage     *)
(* never counts a reply that was not paid for (agent_types.go 117-120).    *)
SpendBounded ==
  /\ invocations <= MaxAttempts * iter
  /\ usage <= invocations

(* The text of an error makes it a decision when it names one and nothing  *)
(* in it is taken for a passing fault first: a rate limit or an overload,  *)
(* or a deadline where no key is refused.                                  *)
Decided(says) ==
  /\ says \cap {"auth", "refusal", "invalid_request"} # {}
  /\ says \cap {"rate_limit", "overloaded"} = {}
  /\ "deadline" \in says => "auth" \in says

(* The provider is asked again exactly when it may change its mind: never  *)
(* after an error whose text is a decision, and a model call is given up   *)
(* before its last attempt for such an error only, however attempts are    *)
(* lost in between (agent_workflow.go 86-90, agent_types.go 159-164).      *)
DecisionsNotRetried ==
  /\ ~Decided(llm.last.says)
  /\ llm.st = "failed" /\ llm.attempt < MaxAttempts => Decided(llm.out.says)

(* Whatever is reported is what the run came to, and a run that returned   *)
(* is missing from the metrics only if the report itself failed.           *)
RunsReportedHonestly ==
  /\ \A r \in emitted :
       /\ result.outcome \in {r.outcome, "timed_out"}
       /\ r.outcome = "completed" => usage = r.iterations
       /\ r.outcome = "error" => r.stop = classifyLLMError(llm.out.says) /\ usage = r.iterations - 1
       /\ r.outcome = "max_iterations" => usage = maxIter
  /\ pc = "closed" /\ result.outcome # "timed_out" => emitted # {} \/ report.st = "failed"

(* A run started by this code asks one model from its first iteration to   *)
(* its last, whatever is rolled out meanwhile (agent_workflow.go 49-57).   *)
OneModelPerRun == ~unversioned => Cardinality(used) <= 1

(* A run ends without the server's help, even one whose model never stops  *)
(* calling tools.                                                          *)
Terminates == <>(pc = "closed")

=============================================================================
