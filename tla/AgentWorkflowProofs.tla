------------------------ MODULE AgentWorkflowProofs ------------------------
(***************************************************************************)
(* What a run of AgentWorkflow spends, what it reports and what it says to *)
(* the provider, for any cap, number of tool calls, number of attempts,    *)
(* set of provider errors and number of rollouts.                          *)
(***************************************************************************)
EXTENDS AgentWorkflow, FiniteSetTheorems, TLAPS

(* The shape of an Activity; the texts of errors may be anything.          *)
IsOut(o) ==
  /\ o = [fault |-> o.fault, says |-> o.says, calls |-> o.calls, err |-> o.err, of |-> o.of]
  /\ o.calls \in 0..MaxCalls

IsActivity(a) ==
  /\ a = [st |-> a.st, attempt |-> a.attempt, out |-> a.out, last |-> a.last]
  /\ a.st \in States
  /\ a.attempt \in 0..MaxAttempts
  /\ IsOut(a.out)

Shape ==
  /\ IsActivity(llm)
  /\ IsActivity(report)
  /\ tool = [j \in Calls |-> tool[j]]
  /\ \A j \in Calls : IsActivity(tool[j])
  /\ result = [outcome |-> result.outcome, stop |-> result.stop, iterations |-> result.iterations]

Numbers ==
  /\ pc \in {"start", "model", "tools", "report", "closed"}
  /\ maxIter \in Nat \ {0}
  /\ iter \in 0..maxIter
  /\ usage \in 0..iter
  /\ invocations \in Nat

(* Where the run is, and what it has counted until then.                   *)
Phase ==
  /\ pc = "start" => iter = 0 /\ invocations = 0 /\ llm = NotScheduled /\ used = {}
  /\ pc # "start" => iter > 0
  /\ pc = "model" => usage = iter - 1
  /\ pc = "tools" => usage = iter /\ llm.st = "done" /\ llm.out.calls > 0

(* What the invocations cost: MaxAttempts for each iteration before this   *)
(* one, and the attempts of this one that have been made.                  *)
Spent ==
  /\ invocations <= MaxAttempts * iter
  /\ iter > 0 => invocations <= MaxAttempts * (iter - 1) + llm.attempt
  /\ iter > 0 /\ llm.st = "scheduled" =>
       llm.attempt > 0 /\ invocations < MaxAttempts * (iter - 1) + llm.attempt
  /\ usage <= invocations
  /\ pc = "model" /\ llm.st \in {"ran", "done"} => usage < invocations

(* The last report is of the run as it has been decided.                   *)
Honest(r) ==
  /\ r.outcome = "completed" => usage = r.iterations
  /\ r.outcome = "error" => r.stop = classifyLLMError(llm.out.says) /\ usage = r.iterations - 1
  /\ r.outcome = "max_iterations" => usage = maxIter

Reported ==
  /\ report.st # "idle" => pc \in {"report", "closed"} /\ llm.st \in {"done", "failed"}
  /\ emitted # {} => report.st # "idle"
  /\ report.st \in {"ran", "done"} => emitted # {}
  /\ pc = "report" => report.st # "idle" /\ result.outcome # "timed_out" /\ Honest(result)
  /\ pc = "closed" => result.outcome = "timed_out" \/ report.st \in {"done", "failed"}
  /\ report.st = "scheduled" /\ pc = "closed" => result.outcome = "timed_out"
  /\ \A r \in emitted : result.outcome \in {r.outcome, "timed_out"} /\ Honest(r)

(* A request is for the model of the run, once it has one.                 *)
Asked ==
  /\ llm.st = "scheduled" => pc # "start"
  /\ ~unversioned => used = {} \/ used = {model}

IInv == Shape /\ Numbers /\ Phase /\ Spent /\ Reported /\ Asked

-----------------------------------------------------------------------------
(* What an Activity ends in: another attempt, while there is one, a        *)
(* failure or its result.                                                  *)
LEMMA EndsEffect ==
  ASSUME NEW a, IsActivity(a), NEW b, b \in Ends(a)
  PROVE  /\ IsActivity(b)
         /\ pc # "closed" /\ a.st \in {"scheduled", "ran"}
         /\ \/ /\ b.st = "scheduled" /\ b.attempt = a.attempt + 1
               /\ \/ b.last = TimedOut
                  \/ a.st = "ran" /\ b.last = a.out /\ ~NonRetryable(a.out.says)
            \/ b.st = "failed" /\ b.attempt = a.attempt /\ b.last = a.last
               /\ (b.attempt = MaxAttempts \/ (b.out = a.out /\ NonRetryable(a.out.says)))
               /\ (b.out = TimedOut \/ (a.st = "ran" /\ b.out = a.out /\ a.out.fault # "none"))
            \/ a.st = "ran" /\ b.st = "done" /\ b.attempt = a.attempt /\ b.out = a.out /\ b.last = a.last
<1>1. pc # "closed" /\ a.st \in {"scheduled", "ran"}
  BY DEF Ends
<1>2. b = RetryOrFail(a, TimedOut) \/ (a.st = "ran" /\ b = Completed(a))
  BY DEF Ends
<1>3. IsOut(NoOut) /\ IsOut(TimedOut) /\ TimedOut.fault = "timeout" /\ IsOut(a.out)
  <2>1. ASSUME NEW o, o = TimedOut
        PROVE  o = [fault |-> "timeout", says |-> {"deadline"}, calls |-> 0, err |-> FALSE,
                    of |-> <<0, 0>>]
    BY <2>1 DEF TimedOut, NoOut
  <2>2. MaxCalls \in Nat
    BY AgentAssumption
  <2> QED
    BY <2>1, <2>2 DEF IsOut, NoOut, IsActivity
<1>4. ASSUME NEW o, IsOut(o), b = RetryOrFail(a, o)
      PROVE  /\ IsActivity(b)
             /\ \/ b.st = "scheduled" /\ b.attempt = a.attempt + 1 /\ b.last = o
                \/ b.st = "failed" /\ b.attempt = a.attempt /\ b.attempt = MaxAttempts /\ b.last = a.last /\ b.out = o
  <2>0. a = [st |-> a.st, attempt |-> a.attempt, out |-> a.out, last |-> a.last]
        /\ a.attempt \in 0..MaxAttempts
    BY DEF IsActivity
  <2>1. CASE a.attempt < MaxAttempts
    <3>1. b = [st |-> "scheduled", attempt |-> a.attempt + 1, out |-> NoOut, last |-> o]
      BY <1>4, <2>1 DEF RetryOrFail
    <3>2. a.attempt + 1 \in 0..MaxAttempts
      BY <2>0, <2>1, AgentAssumption
    <3> QED
      BY <1>3, <3>1, <3>2 DEF IsActivity, States
  <2>2. CASE ~(a.attempt < MaxAttempts)
    <3>1. b = [st |-> "failed", attempt |-> a.attempt, out |-> o, last |-> a.last]
      BY <1>4, <2>0, <2>2 DEF RetryOrFail
    <3>2. a.attempt = MaxAttempts
      BY <2>0, <2>2, AgentAssumption
    <3> QED
      BY <1>4, <2>0, <3>1, <3>2 DEF IsActivity, States
  <2> QED
    BY <2>1, <2>2
<1>5. CASE b = RetryOrFail(a, TimedOut)
  <2>1. /\ IsActivity(b)
        /\ \/ b.st = "scheduled" /\ b.attempt = a.attempt + 1 /\ b.last = TimedOut
           \/ b.st = "failed" /\ b.attempt = a.attempt /\ b.attempt = MaxAttempts
              /\ b.last = a.last /\ b.out = TimedOut
    BY <1>3, <1>4, <1>5
  <2> QED
    BY <1>1, <2>1
<1>6. CASE a.st = "ran" /\ b = Completed(a)
  <2>0. a = [st |-> a.st, attempt |-> a.attempt, out |-> a.out, last |-> a.last]
        /\ a.attempt \in 0..MaxAttempts
    BY DEF IsActivity
  <2>1. CASE a.out.fault = "none"
    <3>1. b = [st |-> "done", attempt |-> a.attempt, out |-> a.out, last |-> a.last]
      BY <1>6, <2>0, <2>1 DEF Completed
    <3> QED
      BY <1>1, <1>3, <1>6, <2>0, <3>1 DEF IsActivity, States
  <2>2. CASE a.out.fault # "none" /\ NonRetryable(a.out.says)
    <3>1. b = [st |-> "failed", attempt |-> a.attempt, out |-> a.out, last |-> a.last]
      BY <1>6, <2>0, <2>2 DEF Completed
    <3> QED
      BY <1>1, <1>3, <1>6, <2>0, <2>2, <3>1 DEF IsActivity, States
  <2>3. CASE a.out.fault # "none" /\ ~NonRetryable(a.out.says)
    <3>1. b = RetryOrFail(a, a.out)
      BY <1>6, <2>3 DEF Completed
    <3>2. /\ IsActivity(b)
          /\ \/ b.st = "scheduled" /\ b.attempt = a.attempt + 1 /\ b.last = a.out
             \/ b.st = "failed" /\ b.attempt = a.attempt /\ b.attempt = MaxAttempts
                /\ b.last = a.last /\ b.out = a.out
      BY <1>3, <1>4, <3>1
    <3> QED
      BY <1>1, <1>6, <2>3, <3>2
  <2> QED
    BY <2>1, <2>2, <2>3
<1> QED
  BY <1>2, <1>5, <1>6

(* An Activity that has been scheduled, or has not.                        *)
LEMMA NewActivity ==
  /\ IsActivity(NotScheduled) /\ NotScheduled.st = "idle" /\ NotScheduled.attempt = 0
  /\ NotScheduled.last = NoOut
  /\ IsActivity(Scheduled) /\ Scheduled.st = "scheduled" /\ Scheduled.attempt = 1
  /\ Scheduled.last = NoOut
<1>1. ASSUME NEW a, a = Scheduled
      PROVE  a = [st |-> "scheduled", attempt |-> 1, out |-> NoOut, last |-> NoOut]
  BY <1>1 DEF Scheduled, NotScheduled
<1>2. MaxCalls \in Nat /\ 0 \in 0..MaxAttempts /\ 1 \in 0..MaxAttempts
  BY AgentAssumption
<1>3. IsOut(NoOut)
  BY <1>2 DEF IsOut, NoOut
<1> QED
  BY <1>1, <1>2, <1>3 DEF IsActivity, NotScheduled, States

(* What an attempt comes to is a result of an Activity.                    *)
LEMMA OutShape ==
  /\ \A out \in Replies \cup Refusals : IsOut(out)
  /\ \A id : \A out \in ToolResults(id) : IsOut(out) /\ out.of = id
<1>0. MaxCalls \in Nat
  BY AgentAssumption
<1>1. ASSUME NEW n \in 0..MaxCalls, NEW out, out = [NoOut EXCEPT !.calls = n] PROVE IsOut(out)
  <2>1. out = [fault |-> "none", says |-> {}, calls |-> n, err |-> FALSE, of |-> <<0, 0>>]
    BY <1>1 DEF NoOut
  <2> QED
    BY <2>1 DEF IsOut
<1>2. ASSUME NEW f \in Faults, NEW out, out = [NoOut EXCEPT !.fault = f.fault, !.says = f.says]
      PROVE  IsOut(out)
  <2>1. out = [fault |-> f.fault, says |-> f.says, calls |-> 0, err |-> FALSE, of |-> <<0, 0>>]
    BY <1>2 DEF NoOut
  <2> QED
    BY <1>0, <2>1 DEF IsOut
<1>3. ASSUME NEW id, NEW e \in BOOLEAN, NEW out, out = [NoOut EXCEPT !.of = id, !.err = e]
      PROVE  IsOut(out) /\ out.of = id
  <2>1. out = [fault |-> "none", says |-> {}, calls |-> 0, err |-> e, of |-> id]
    BY <1>3 DEF NoOut
  <2> QED
    BY <1>0, <2>1 DEF IsOut
<1>4. ASSUME NEW id, NEW out, out = [NoOut EXCEPT !.of = id, !.fault = "tool_unavailable"]
      PROVE  IsOut(out) /\ out.of = id
  <2>1. out = [fault |-> "tool_unavailable", says |-> {}, calls |-> 0, err |-> FALSE, of |-> id]
    BY <1>4 DEF NoOut
  <2> QED
    BY <1>0, <2>1 DEF IsOut
<1> QED
  BY <1>1, <1>2, <1>3, <1>4 DEF Replies, Refusals, ToolResults

(* An attempt that has run.                                                *)
LEMMA RanEffect ==
  ASSUME NEW a, IsActivity(a), NEW o, IsOut(o), NEW b, b = [a EXCEPT !.st = "ran", !.out = o]
  PROVE  IsActivity(b) /\ b.st = "ran" /\ b.attempt = a.attempt /\ b.out = o /\ b.last = a.last
<1>1. a = [st |-> a.st, attempt |-> a.attempt, out |-> a.out, last |-> a.last]
      /\ a.attempt \in 0..MaxAttempts
  BY DEF IsActivity
<1>2. b = [st |-> "ran", attempt |-> a.attempt, out |-> o, last |-> a.last]
  BY <1>1
<1> QED
  BY <1>1, <1>2 DEF IsActivity, States

(* The same of the report, whose result is not looked at.                  *)
LEMMA ReportRan ==
  ASSUME NEW a, IsActivity(a), NEW b, b = [a EXCEPT !.st = "ran"]
  PROVE  IsActivity(b) /\ b.st = "ran"
<1>1. a = [st |-> a.st, attempt |-> a.attempt, out |-> a.out, last |-> a.last]
      /\ a.attempt \in 0..MaxAttempts /\ IsOut(a.out)
  BY DEF IsActivity
<1>2. b = [st |-> "ran", attempt |-> a.attempt, out |-> a.out, last |-> a.last]
  BY <1>1
<1> QED
  BY <1>1, <1>2 DEF IsActivity, States

(* Initially nothing has been scheduled.                                   *)
LEMMA InitIInv == Init => IInv
<1> SUFFICES ASSUME Init PROVE IInv
  OBVIOUS
<1> USE DEF Init
<1>1. Shape
  BY NewActivity DEF Shape, NoResult
<1>2. Numbers
  <2>1. maxIter \in Nat \ {0}
    BY AgentAssumption
  <2> QED
    BY <2>1 DEF Numbers
<1>3. Phase
  BY DEF Phase
<1>4. Spent
  <2>1. MaxAttempts * 0 = 0
    BY AgentAssumption
  <2> QED
    BY <2>1 DEF Spent
<1>5. Reported /\ Asked
  BY NewActivity DEF Reported, Asked
<1> QED
  BY <1>1, <1>2, <1>3, <1>4, <1>5 DEF IInv

(* Every step keeps the shape of the Activities.                           *)
LEMMA NextShape == ASSUME Shape, [Next]_vars PROVE Shape'
<1> USE DEF actVars, runVars
<1>0. MaxCalls \in Nat
  BY AgentAssumption
<1>1. CASE InvokeModel
  <2>1. PICK out \in Replies \cup Refusals : llm' = [llm EXCEPT !.st = "ran", !.out = out]
    BY <1>1 DEF InvokeModel
  <2>2. IsActivity(llm')
    BY <2>1, RanEffect, OutShape DEF Shape
  <2> QED
    BY <1>1, <2>2 DEF InvokeModel, Shape
<1>2. ASSUME NEW j \in Calls, RunAgentTool(j) PROVE Shape'
  <2>1. PICK out \in ToolResults(<<iter, j>>) :
          tool' = [tool EXCEPT ![j] = [@ EXCEPT !.st = "ran", !.out = out]]
    BY <1>2 DEF RunAgentTool
  <2>2. PICK b : b = [tool[j] EXCEPT !.st = "ran", !.out = out]
    OBVIOUS
  <2>3. IsActivity(b)
    BY <2>2, RanEffect, OutShape DEF Shape
  <2>4. tool' = [tool EXCEPT ![j] = b]
    BY <2>1, <2>2
  <2> QED
    BY <1>2, <2>3, <2>4 DEF RunAgentTool, Shape
<1>3. CASE ReportAgentRun
  <2>1. IsActivity(report')
    BY <1>3, ReportRan DEF ReportAgentRun, Shape
  <2> QED
    BY <1>3, <2>1 DEF ReportAgentRun, Shape
<1>4. CASE ActivityEnds
  <2>1. CASE llm' \in Ends(llm) /\ UNCHANGED <<tool, report>>
    <3>1. IsActivity(llm')
      BY <2>1, EndsEffect DEF Shape
    <3> QED
      BY <1>4, <2>1, <3>1 DEF ActivityEnds, Shape
  <2>2. CASE report' \in Ends(report) /\ UNCHANGED <<llm, tool>>
    <3>1. IsActivity(report')
      BY <2>2, EndsEffect DEF Shape
    <3> QED
      BY <1>4, <2>2, <3>1 DEF ActivityEnds, Shape
  <2>3. ASSUME NEW j \in Calls, NEW b \in Ends(tool[j]), tool' = [tool EXCEPT ![j] = b],
               UNCHANGED <<llm, report>>
        PROVE  Shape'
    <3>1. IsActivity(b)
      BY <2>3, EndsEffect DEF Shape
    <3> QED
      BY <1>4, <2>3, <3>1 DEF ActivityEnds, Shape
  <2> QED
    BY <1>4, <2>1, <2>2, <2>3 DEF ActivityEnds
<1>5. ASSUME llm' \in {llm, Scheduled}, report' \in {report, Scheduled},
             tool' = tool \/ \E n : tool' = [j \in Calls |-> IF j <= n THEN Scheduled ELSE NotScheduled]
                          \/ tool' = [j \in Calls |-> NotScheduled],
             result' = result
               \/ \E o, s, n : result' = [outcome |-> o, stop |-> s, iterations |-> n]
      PROVE  Shape'
  <2>1. IsActivity(llm') /\ IsActivity(report')
    BY <1>5, NewActivity DEF Shape
  <2>2. tool' = [j \in Calls |-> tool'[j]] /\ \A j \in Calls : IsActivity(tool'[j])
    BY <1>5, NewActivity DEF Shape
  <2>3. result' = [outcome |-> result'.outcome, stop |-> result'.stop,
                   iterations |-> result'.iterations]
    BY <1>5 DEF Shape
  <2> QED
    BY <2>1, <2>2, <2>3 DEF Shape
<1>6. CASE Decide
  <2>1. /\ llm' \in {llm, Scheduled} /\ report' \in {report, Scheduled}
        /\ tool' = tool \/ \E n : tool' = [j \in Calls |-> IF j <= n THEN Scheduled ELSE NotScheduled]
                        \/ tool' = [j \in Calls |-> NotScheduled]
        /\ result' = result
               \/ \E o, s, n : result' = [outcome |-> o, stop |-> s, iterations |-> n]
    BY <1>6
       DEF Decide, Begin, ModelFailed, Answered, CallTools, NextIteration, CapReached, Return, Ask,
           ReportRun, ToolsReady
  <2> QED
    BY <1>5, <2>1
<1>7. CASE ExecutionTimeout
  <2>1. result' = [outcome |-> "timed_out", stop |-> result.stop, iterations |-> result.iterations]
    <3>1. ASSUME NEW b, b = [result EXCEPT !.outcome = "timed_out"]
          PROVE  b = [outcome |-> "timed_out", stop |-> result.stop, iterations |-> result.iterations]
      BY <3>1 DEF Shape
    <3> QED
      BY <1>7, <3>1 DEF ExecutionTimeout
  <2> QED
    BY <1>5, <1>7, <2>1 DEF ExecutionTimeout
<1>8. CASE Rollout \/ UNCHANGED vars
  BY <1>8 DEF Rollout, vars, Shape
<1> QED
  BY <1>1, <1>2, <1>3, <1>4, <1>6, <1>7, <1>8 DEF Next, ActivityRuns

(* Every step keeps the numbers, and what the place of the run says of     *)
(* them.                                                                   *)
LEMMA NextPhase == ASSUME IInv, [Next]_vars PROVE Numbers' /\ Phase'
<1> USE DEF runVars, actVars, effectVars
<1>0. Shape /\ Numbers /\ Phase /\ Asked
  BY DEF IInv
<1>1. ASSUME UNCHANGED <<runVars, invocations, used>>, llm' = llm \/ pc # "start",
             pc = "tools" => llm' = llm
      PROVE  Numbers' /\ Phase'
  BY <1>0, <1>1 DEF Numbers, Phase
<1>2. CASE InvokeModel
  <2>1. llm.st = "scheduled" /\ UNCHANGED runVars /\ invocations' = invocations + 1
    BY <1>2 DEF InvokeModel
  <2>2. pc # "start" /\ pc # "tools"
    BY <1>0, <2>1 DEF Asked, Phase
  <2> QED
    BY <1>0, <2>1, <2>2 DEF Numbers, Phase
<1>3. CASE ReportAgentRun \/ \E j \in Calls : RunAgentTool(j)
  BY <1>1, <1>3 DEF ReportAgentRun, RunAgentTool
<1>4. CASE ActivityEnds
  <2>1. llm' = llm \/ llm' \in Ends(llm)
    BY <1>4 DEF ActivityEnds
  <2>2. llm' = llm \/ llm.st \in {"scheduled", "ran"}
    BY <1>0, <2>1, EndsEffect DEF Shape
  <2>3. (llm' = llm \/ pc # "start") /\ (pc = "tools" => llm' = llm)
    BY <1>0, <2>2 DEF Phase, NotScheduled
  <2> QED
    BY <1>1, <1>4, <2>3 DEF ActivityEnds
<1>5. CASE Rollout \/ UNCHANGED vars
  BY <1>1, <1>5 DEF Rollout, vars
<1>6. CASE Begin
  BY <1>0, <1>6 DEF Begin, Ask, Numbers, Phase
<1>7. CASE ModelFailed
  BY <1>0, <1>7 DEF ModelFailed, ReportRun, Numbers, Phase
<1>8. CASE Answered \/ CallTools
  <2>1. iter > 0 /\ usage' = iter /\ iter' = iter /\ maxIter' = maxIter /\ UNCHANGED <<llm, invocations, used>>
    BY <1>0, <1>8 DEF Answered, CallTools, Numbers, Phase
  <2>2. pc' = "report" \/ (pc' = "tools" /\ llm.st = "done" /\ llm.out.calls > 0)
    BY <1>8 DEF Answered, CallTools, ReportRun
  <2> QED
    BY <1>0, <2>1, <2>2 DEF Numbers, Phase
<1>9. CASE NextIteration
  BY <1>0, <1>9 DEF NextIteration, ToolsReady, Ask, Numbers, Phase
<1>10. CASE CapReached
  BY <1>0, <1>10 DEF CapReached, ToolsReady, ReportRun, Numbers, Phase
<1>11. CASE Return \/ ExecutionTimeout
  BY <1>0, <1>11 DEF Return, ExecutionTimeout, Numbers, Phase
<1> QED
  BY <1>2, <1>3, <1>4, <1>5, <1>6, <1>7, <1>8, <1>9, <1>10, <1>11 DEF Next, ActivityRuns, Decide

(* Every step keeps the account: another attempt is paid from the allowance*)
(* of its iteration, and an iteration adds no more than that allowance.    *)
LEMMA NextSpent == ASSUME IInv, [Next]_vars PROVE Spent'
<1> USE DEF runVars, actVars, effectVars
<1>0. /\ Spent /\ Phase /\ pc \in {"start", "model", "tools", "report", "closed"}
      /\ iter \in Nat /\ usage \in Nat /\ invocations \in Nat /\ llm.attempt \in 0..MaxAttempts
      /\ MaxAttempts \in Nat \ {0}
  BY AgentAssumption DEF IInv, Numbers, Shape, IsActivity
<1> DEFINE B == MaxAttempts * (iter - 1)
<1>00. /\ iter > 0 => B \in Nat /\ MaxAttempts * iter = B + MaxAttempts
       /\ MaxAttempts * iter \in Nat
       /\ MaxAttempts * (iter + 1) = MaxAttempts * iter + MaxAttempts
  <2>1. \A m, n \in Nat : m * n \in Nat /\ m * (n + 1) = m * n + m
    OBVIOUS
  <2>2. iter > 0 => iter - 1 \in Nat /\ (iter - 1) + 1 = iter
    BY <1>0
  <2> QED
    BY <1>0, <2>1, <2>2
<1>1. ASSUME UNCHANGED <<iter, invocations>>, usage' <= invocations,
             llm'.st \in {"done", "failed"}, llm'.attempt = llm.attempt,
             pc' = "model" /\ llm'.st = "done" => usage' < invocations
      PROVE  Spent'
  BY <1>0, <1>1 DEF Spent
<1>2. ASSUME UNCHANGED <<iter, invocations, usage, llm>>, pc' = pc \/ pc' # "model"
      PROVE  Spent'
  BY <1>0, <1>2 DEF Spent
<1>3. CASE InvokeModel
  <2>1. /\ llm.st = "scheduled" /\ invocations' = invocations + 1 /\ UNCHANGED <<pc, iter, usage>>
        /\ \E out \in Replies \cup Refusals : llm' = [llm EXCEPT !.st = "ran", !.out = out]
    BY <1>3 DEF InvokeModel
  <2>2. llm'.st = "ran" /\ llm'.attempt = llm.attempt
    <3>1. PICK out \in Replies \cup Refusals : llm' = [llm EXCEPT !.st = "ran", !.out = out]
      BY <2>1
    <3>2. llm = [st |-> llm.st, attempt |-> llm.attempt, out |-> llm.out, last |-> llm.last]
      BY DEF IInv, Shape, IsActivity
    <3> QED
      BY <3>1, <3>2
  <2>3. iter > 0
    BY <1>0, <2>1 DEF IInv, Asked, Phase, Spent
  <2> HIDE DEF B
  <2>4. invocations + 1 <= B + llm.attempt /\ llm.attempt > 0
    BY <1>0, <1>00, <2>1, <2>3 DEF Spent, B
  <2>5. /\ invocations' <= MaxAttempts * iter /\ invocations' <= B + llm.attempt
        /\ usage <= invocations' /\ usage < invocations'
    BY <1>0, <1>00, <2>1, <2>3, <2>4 DEF Spent
  <2> QED
    BY <2>1, <2>2, <2>5 DEF Spent, B
<1>4. CASE ActivityEnds
  <2>1. UNCHANGED <<pc, iter, usage, invocations>> /\ (llm' = llm \/ llm' \in Ends(llm))
    BY <1>4 DEF ActivityEnds
  <2>2. CASE llm' = llm
    BY <1>2, <2>1, <2>2
  <2>3. CASE llm' \in Ends(llm)
    <3>1. /\ llm.st \in {"scheduled", "ran"}
          /\ \/ llm'.st = "scheduled" /\ llm'.attempt = llm.attempt + 1
             \/ llm'.st = "failed" /\ llm'.attempt = llm.attempt
             \/ llm'.st = "done" /\ llm'.attempt = llm.attempt /\ llm.st = "ran"
      BY <2>3, EndsEffect DEF IInv, Shape
    <3>2. CASE llm'.st = "scheduled" /\ llm'.attempt = llm.attempt + 1
      <4>1. iter > 0 => invocations < B + (llm.attempt + 1)
        BY <1>0, <1>00 DEF Spent
      <4>2. llm'.attempt > 0 /\ (iter > 0 => invocations <= B + llm'.attempt)
        BY <1>0, <1>00, <3>2, <4>1
      <4> QED
        BY <1>0, <2>1, <3>2, <4>1, <4>2 DEF Spent
    <3>3. CASE llm'.st = "failed" /\ llm'.attempt = llm.attempt
      BY <1>0, <1>1, <2>1, <3>3 DEF Spent
    <3>4. CASE llm'.st = "done" /\ llm'.attempt = llm.attempt /\ llm.st = "ran"
      BY <1>0, <1>1, <2>1, <3>4 DEF Spent
    <3> QED
      BY <3>1, <3>2, <3>3, <3>4
  <2> QED
    BY <2>1, <2>2, <2>3
<1>5. ASSUME iter' = iter + 1, llm' = Scheduled, UNCHANGED <<usage, invocations>>
      PROVE  Spent'
  <2>1. invocations <= MaxAttempts * iter /\ usage <= invocations
    BY <1>0 DEF Spent
  <2>2. iter' - 1 = iter /\ llm'.st = "scheduled" /\ llm'.attempt = 1
    BY <1>0, <1>5, NewActivity
  <2>3. MaxAttempts * iter' = MaxAttempts * iter + MaxAttempts
    BY <1>00, <1>5
  <2>4. invocations <= MaxAttempts * iter' /\ invocations < MaxAttempts * iter + 1
    BY <1>0, <1>00, <2>1, <2>3
  <2>5. /\ MaxAttempts * (iter' - 1) = MaxAttempts * iter
        /\ usage' <= invocations' /\ invocations' = invocations
    BY <1>5, <2>1, <2>2
  <2>6. MaxAttempts * iter \in Nat /\ invocations \in Nat
    BY <1>0, <1>00
  <2> QED
    BY <2>1, <2>2, <2>4, <2>5, <2>6 DEF Spent
<1>6. CASE Begin \/ NextIteration
  BY <1>0, <1>5, <1>6 DEF Begin, NextIteration, Ask, Phase, ToolsReady
<1>7. CASE Answered \/ CallTools
  <2>1. /\ usage' = usage + 1 /\ UNCHANGED <<iter, invocations, llm>>
        /\ pc = "model" /\ llm.st = "done" /\ pc' \in {"report", "tools"}
    BY <1>7 DEF Answered, CallTools, ReportRun
  <2>2. usage + 1 <= invocations
    BY <1>0, <2>1 DEF Spent
  <2> QED
    BY <1>1, <2>1, <2>2
<1>8. CASE ModelFailed \/ CapReached \/ Return \/ ExecutionTimeout
  <2>1. UNCHANGED <<iter, invocations, usage, llm>> /\ pc' # "model"
    BY <1>8 DEF ModelFailed, CapReached, ToolsReady, ReportRun, Return, ExecutionTimeout
  <2> QED
    BY <1>2, <2>1
<1>9. CASE ReportAgentRun \/ (\E j \in Calls : RunAgentTool(j)) \/ Rollout \/ UNCHANGED vars
  <2>1. UNCHANGED <<pc, iter, invocations, usage, llm>>
    BY <1>9 DEF ReportAgentRun, RunAgentTool, Rollout, vars
  <2> QED
    BY <1>2, <2>1
<1> QED
  BY <1>3, <1>4, <1>6, <1>7, <1>8, <1>9 DEF Next, ActivityRuns, Decide

(* Every step keeps the reports honest.                                    *)
LEMMA NextReported == ASSUME IInv, [Next]_vars PROVE Reported'
<1> USE DEF runVars, actVars, effectVars
<1>0. Shape /\ Numbers /\ Phase /\ Reported
  BY DEF IInv
<1>1. ASSUME UNCHANGED <<pc, result, report, emitted, usage, maxIter>>,
             llm' = llm \/ llm.st \in {"scheduled", "ran"}
      PROVE  Reported'
  <2>1. CASE report.st = "idle"
    BY <1>0, <1>1, <2>1 DEF Reported
  <2>2. CASE report.st # "idle"
    <3>1. llm' = llm
      BY <1>0, <1>1, <2>2 DEF Reported
    <3>2. \A r : Honest(r)' <=> Honest(r)
      BY <1>1, <3>1 DEF Honest
    <3>3. Honest(result)' <=> Honest(result)
      BY <1>1, <3>1 DEF Honest
    <3> QED
      BY <1>0, <1>1, <3>1, <3>2, <3>3 DEF Reported
  <2> QED
    BY <2>1, <2>2
<1>2. CASE InvokeModel
  BY <1>1, <1>2 DEF InvokeModel
<1>3. CASE (\E j \in Calls : RunAgentTool(j)) \/ Rollout \/ UNCHANGED vars
  BY <1>1, <1>3 DEF RunAgentTool, Rollout, vars
<1>4. CASE ReportAgentRun
  <2>1. /\ report.st = "scheduled" /\ emitted' = emitted \cup {result}
        /\ report'.st = "ran" /\ UNCHANGED <<pc, result, usage, maxIter, llm>>
    BY <1>0, <1>4, ReportRan DEF ReportAgentRun, Shape
  <2>2. pc \in {"report", "closed"} /\ llm.st \in {"done", "failed"}
    BY <1>0, <2>1 DEF Reported
  <2>3. Honest(result)
    BY <1>0, <2>1, <2>2 DEF Reported, Honest
  <2>4. \A r : Honest(r)' <=> Honest(r)
    BY <2>1 DEF Honest
  <2>5. Honest(result)'
    BY <2>1, <2>3 DEF Honest
  <2>6. \A r \in emitted' : result'.outcome \in {r.outcome, "timed_out"} /\ Honest(r)'
    BY <1>0, <2>1, <2>3, <2>4 DEF Reported
  <2>7. pc = "closed" => result.outcome = "timed_out"
    BY <1>0, <2>1 DEF Reported
  <2> QED
    BY <1>0, <2>1, <2>2, <2>5, <2>6, <2>7 DEF Reported
<1>5. CASE ActivityEnds
  <2>1. UNCHANGED <<pc, result, emitted, usage, maxIter>>
    BY <1>5 DEF ActivityEnds
  <2>2. CASE report' = report /\ (llm' = llm \/ llm' \in Ends(llm))
    <3>1. llm' = llm \/ llm.st \in {"scheduled", "ran"}
      BY <1>0, <2>2, EndsEffect DEF Shape
    <3> QED
      BY <1>1, <2>1, <2>2, <3>1
  <2>3. CASE report' \in Ends(report) /\ llm' = llm
    <3>1. /\ pc # "closed" /\ report.st \in {"scheduled", "ran"}
          /\ report'.st \in {"scheduled", "failed"} \/ (report.st = "ran" /\ report'.st = "done")
      BY <1>0, <2>3, EndsEffect DEF Shape
    <3>2. \A r : Honest(r)' <=> Honest(r)
      BY <2>1, <2>3 DEF Honest
    <3>3. Honest(result)' <=> Honest(result)
      BY <2>1, <2>3 DEF Honest
    <3> QED
      BY <1>0, <2>1, <2>3, <3>1, <3>2, <3>3 DEF Reported
  <2> QED
    BY <1>5, <2>2, <2>3 DEF ActivityEnds
<1>6. CASE Begin \/ CallTools \/ NextIteration
  <2>1. /\ pc \in {"start", "model", "tools"} /\ pc' \in {"model", "tools"}
        /\ UNCHANGED <<result, report, emitted>>
    BY <1>6 DEF Begin, CallTools, NextIteration, Ask, ToolsReady
  <2>2. report.st = "idle" /\ emitted = {}
    BY <1>0, <2>1 DEF Reported
  <2> QED
    BY <2>1, <2>2 DEF Reported
<1>7. ASSUME NEW outcome \in {"completed", "error", "max_iterations"}, NEW stop,
             ReportRun(outcome, stop), pc \in {"model", "tools"}, UNCHANGED <<llm, emitted, iter>>,
             llm.st \in {"done", "failed"},
             outcome = "completed" => usage' = iter,
             outcome = "error" => stop = classifyLLMError(llm.out.says) /\ usage' = iter - 1,
             outcome = "max_iterations" => usage' = maxIter'
      PROVE  Reported'
  <2>1. emitted = {}
    BY <1>0, <1>7 DEF Reported
  <2>2. /\ pc' = "report" /\ result' = [outcome |-> outcome, stop |-> stop, iterations |-> iter]
        /\ report'.st = "scheduled"
    BY <1>7, NewActivity DEF ReportRun
  <2>3. Honest(result)'
    BY <1>7, <2>2 DEF Honest
  <2> QED
    BY <1>7, <2>1, <2>2, <2>3 DEF Reported
<1>8. CASE ModelFailed
  BY <1>0, <1>7, <1>8 DEF ModelFailed, Phase
<1>9. CASE Answered
  <2>1. usage' = iter
    BY <1>0, <1>9 DEF Answered, Phase, Numbers
  <2> QED
    BY <1>7, <1>9, <2>1 DEF Answered
<1>10. CASE CapReached
  <2>1. usage' = maxIter' /\ llm.st = "done" /\ pc = "tools"
    BY <1>0, <1>10 DEF CapReached, ToolsReady, Phase
  <2> QED
    BY <1>7, <1>10, <2>1 DEF CapReached
<1>11. CASE Return
  <2>1. /\ pc = "report" /\ pc' = "closed" /\ report.st \in {"done", "failed"}
        /\ UNCHANGED <<result, report, emitted, usage, maxIter, llm>>
    BY <1>11 DEF Return, Ready
  <2>2. \A r : Honest(r)' <=> Honest(r)
    BY <2>1 DEF Honest
  <2> QED
    BY <1>0, <2>1, <2>2 DEF Reported
<1>12. CASE ExecutionTimeout
  <2>1. /\ pc' = "closed" /\ UNCHANGED <<report, emitted, usage, maxIter, llm>>
        /\ result' = [result EXCEPT !.outcome = "timed_out"]
    BY <1>12 DEF ExecutionTimeout
  <2>2. result'.outcome = "timed_out"
    BY <1>0, <2>1 DEF Shape
  <2>3. \A r : Honest(r)' <=> Honest(r)
    BY <2>1 DEF Honest
  <2> QED
    BY <1>0, <2>1, <2>2, <2>3 DEF Reported
<1> QED
  BY <1>2, <1>3, <1>4, <1>5, <1>6, <1>8, <1>9, <1>10, <1>11, <1>12
     DEF Next, ActivityRuns, Decide

(* Every step keeps the model of the run.                                  *)
LEMMA NextAsked == ASSUME IInv, [Next]_vars PROVE Asked'
<1> USE DEF runVars, actVars, effectVars, modelVars
<1>0. Shape /\ Phase /\ Asked /\ unversioned' = unversioned
  BY DEF IInv, Next, ActivityRuns, Decide, InvokeModel, ReportAgentRun, RunAgentTool, ActivityEnds,
         Begin, ModelFailed, Answered, CallTools, NextIteration, CapReached, Return,
         ExecutionTimeout, Rollout, Replay, vars
<1>1. ASSUME UNCHANGED <<used, model>>, pc' # "start" \/ llm'.st # "scheduled" \/ (llm' = llm /\ pc' = pc)
      PROVE  Asked'
  BY <1>0, <1>1 DEF Asked
<1>2. CASE InvokeModel
  <2>1. llm.st = "scheduled" /\ UNCHANGED <<pc, model>> /\ used' = used \cup {model}
    BY <1>2 DEF InvokeModel
  <2> QED
    BY <1>0, <2>1 DEF Asked
<1>3. CASE ActivityEnds
  <2>1. UNCHANGED <<pc, used, model>> /\ (llm' = llm \/ llm' \in Ends(llm))
    BY <1>3 DEF ActivityEnds
  <2>2. llm' = llm \/ llm.st \in {"scheduled", "ran"}
    BY <1>0, <2>1, EndsEffect DEF Shape
  <2>3. llm' = llm \/ pc # "start"
    BY <1>0, <2>2 DEF Phase, NotScheduled
  <2> QED
    BY <1>1, <2>1, <2>3
<1>4. CASE Begin
  <2>1. used = {} /\ used' = used /\ pc' # "start"
    BY <1>0, <1>4 DEF Begin, Ask, Phase
  <2> QED
    BY <1>0, <2>1 DEF Asked
<1>5. CASE ModelFailed \/ Answered \/ CallTools \/ NextIteration \/ CapReached \/ Return \/ ExecutionTimeout
  <2>1. pc' # "start" /\ UNCHANGED <<used, model>>
    BY <1>5
       DEF ModelFailed, Answered, CallTools, NextIteration, CapReached, Return, ExecutionTimeout,
           ReportRun, Ask
  <2> QED
    BY <1>1, <2>1
<1>6. CASE ReportAgentRun \/ (\E j \in Calls : RunAgentTool(j)) \/ UNCHANGED vars
  <2>1. UNCHANGED <<used, model, pc, llm>>
    BY <1>6 DEF ReportAgentRun, RunAgentTool, vars
  <2> QED
    BY <1>1, <2>1
<1>7. CASE Rollout
  <2>1. UNCHANGED <<used, pc, llm>> /\ (unversioned \/ model' = model \/ pc = "start")
    BY <1>7 DEF Rollout, Replay
  <2>2. pc = "start" => used = {}
    BY <1>0 DEF Phase
  <2> QED
    BY <1>0, <2>1, <2>2 DEF Asked
<1> QED
  BY <1>2, <1>3, <1>4, <1>5, <1>6, <1>7 DEF Next, ActivityRuns, Decide

-----------------------------------------------------------------------------
(* The invariant is inductive.                                             *)
LEMMA NextIInv == IInv /\ [Next]_vars => IInv'
BY NextShape, NextPhase, NextSpent, NextReported, NextAsked DEF IInv

(* It holds in every state of a run.                                       *)
LEMMA Invariance == Spec => []IInv
<1> QED
  BY InitIInv, NextIInv, PTL DEF Spec

(* The cap is a cost control: whatever is lost and retried, the provider   *)
(* is asked at most MaxAttempts times an iteration, and no reply is        *)
(* counted that was not paid for (agent_types.go 117-120).                 *)
THEOREM AgentWorkflowSpend == Spec => []SpendBounded
<1>1. IInv => SpendBounded
  BY DEF IInv, Spent, SpendBounded
<1> QED
  BY <1>1, Invariance, PTL

(* What is reported is what the run came to, and a run that returned is    *)
(* missing from the metrics only if the report itself failed.              *)
THEOREM AgentWorkflowReports == Spec => []RunsReportedHonestly
<1>1. IInv => RunsReportedHonestly
  <2> SUFFICES ASSUME IInv PROVE RunsReportedHonestly
    OBVIOUS
  <2>1. Reported
    BY DEF IInv
  <2>2. pc = "closed" /\ result.outcome # "timed_out" => emitted # {} \/ report.st = "failed"
    BY <2>1 DEF Reported
  <2> QED
    BY <2>1, <2>2 DEF Reported, Honest, RunsReportedHonestly
<1> QED
  BY <1>1, Invariance, PTL

(* A run started by this code asks one model from its first iteration to   *)
(* its last, whatever is rolled out meanwhile (agent_workflow.go 49-57).   *)
THEOREM AgentWorkflowOneModel == Spec => []OneModelPerRun
<1>1. IInv => OneModelPerRun
  <2> SUFFICES ASSUME IInv, ~unversioned PROVE Cardinality(used) <= 1
    BY DEF OneModelPerRun
  <2>1. used = {} \/ used = {model}
    BY DEF IInv, Asked
  <2>2. Cardinality({}) = 0 /\ Cardinality({model}) = 1
    BY FS_EmptySet, FS_Singleton
  <2> QED
    BY <2>1, <2>2
<1> QED
  BY <1>1, Invariance, PTL
-----------------------------------------------------------------------------
(* Decisions.                                                              *)

(* The bucket of a text is that of the first token it contains.            *)
LEMMA FirstToken ==
  ASSUME NEW says, NEW i \in 1..7, Switch[i][1] \in says,
         \A k \in 1..(i - 1) : Switch[k][1] \notin says
  PROVE  classifyLLMError(says) = Switch[i][2]
<1> DEFINE First(n) == n \in DOMAIN Switch /\ Switch[n][1] \in says
                       /\ \A k \in 1..(n - 1) : Switch[k][1] \notin says
<1>1. DOMAIN Switch = 1..7
  BY DEF Switch
<1>2. First(i) /\ \A n : First(n) => n = i
  <2>1. ASSUME NEW n, First(n) PROVE n = i
    <3>1. n \in 1..7
      BY <1>1, <2>1
    <3>2. ~(n < i)
      <4>1. n < i => n \in 1..(i - 1)
        BY <3>1
      <4> QED
        BY <2>1, <4>1
    <3>3. ~(i < n)
      <4>1. i < n => i \in 1..(n - 1)
        BY <3>1
      <4> QED
        BY <2>1, <4>1
    <3> QED
      BY <3>1, <3>2, <3>3
  <2> QED
    BY <1>1, <2>1
<1>3. classifyLLMError(says)
        = LET first == CHOOSE n \in DOMAIN Switch :
                         /\ Switch[n][1] \in says
                         /\ \A k \in 1..(n - 1) : Switch[k][1] \notin says
          IN Switch[first][2]
  BY <1>1 DEF classifyLLMError
<1>4. (CHOOSE n \in DOMAIN Switch : /\ Switch[n][1] \in says
                                   /\ \A k \in 1..(n - 1) : Switch[k][1] \notin says) = i
  BY <1>2
<1> QED
  BY <1>3, <1>4

(* A text is a decision exactly when its bucket is one of those the        *)
(* Workflow does not retry.                                                *)
LEMMA DecidedText == ASSUME NEW says PROVE NonRetryable(says) <=> Decided(says)
<1>1. /\ Switch[1] = <<"rate_limit", "rate_limit">> /\ Switch[2] = <<"overloaded", "overloaded">>
      /\ Switch[3] = <<"auth", "auth">> /\ Switch[4] = <<"deadline", "timeout">>
      /\ Switch[5] = <<"refusal", "refusal">> /\ Switch[6] = <<"invalid_request", "bad_request">>
      /\ Switch[7] = <<"5xx", "server_error">> /\ DOMAIN Switch = 1..7
  BY DEF Switch
<1>2. \A k : /\ k \in 1..(1 - 1) <=> FALSE
             /\ k \in 1..(2 - 1) <=> k = 1
             /\ k \in 1..(3 - 1) <=> k \in {1, 2}
             /\ k \in 1..(4 - 1) <=> k \in {1, 2, 3}
             /\ k \in 1..(5 - 1) <=> k \in {1, 2, 3, 4}
             /\ k \in 1..(6 - 1) <=> k \in {1, 2, 3, 4, 5}
             /\ k \in 1..(7 - 1) <=> k \in {1, 2, 3, 4, 5, 6}
             /\ k \in 1..7 <=> k \in {1, 2, 3, 4, 5, 6, 7}
  OBVIOUS
<1>3. /\ "rate_limit" \in says => classifyLLMError(says) = "rate_limit"
      /\ "rate_limit" \notin says /\ "overloaded" \in says => classifyLLMError(says) = "overloaded"
      /\ says \cap {"rate_limit", "overloaded"} = {} /\ "auth" \in says
           => classifyLLMError(says) = "auth"
      /\ says \cap {"rate_limit", "overloaded", "auth"} = {} /\ "deadline" \in says
           => classifyLLMError(says) = "timeout"
      /\ says \cap {"rate_limit", "overloaded", "auth", "deadline"} = {} /\ "refusal" \in says
           => classifyLLMError(says) = "refusal"
      /\ says \cap {"rate_limit", "overloaded", "auth", "deadline", "refusal"} = {}
           /\ "invalid_request" \in says => classifyLLMError(says) = "bad_request"
      /\ says \cap {"rate_limit", "overloaded", "auth", "deadline", "refusal", "invalid_request"} = {}
           /\ "5xx" \in says => classifyLLMError(says) = "server_error"
  <2> DEFINE t(n) == Switch[n][1]
  <2>1. \A i \in 1..7 : t(i) \in says /\ (\A k \in 1..(i - 1) : t(k) \notin says)
                           => classifyLLMError(says) = Switch[i][2]
    BY FirstToken
  <2> QED
    BY <1>1, <1>2, <2>1
<1>4. (\A i \in 1..7 : Switch[i][1] \notin says) => classifyLLMError(says) = "unknown"
  BY <1>1 DEF classifyLLMError
<1>5. says \cap {"rate_limit", "overloaded", "auth", "deadline", "refusal", "invalid_request", "5xx"}
        = {} => classifyLLMError(says) = "unknown"
  BY <1>1, <1>2, <1>4
<1> QED
  BY <1>3, <1>5 DEF NonRetryable, Decided

(* The server asks again, or gives up early, as the text of the error says *)
(* and for no other reason.                                                *)
LEMMA NextDecisions == ASSUME IInv, DecisionsNotRetried, [Next]_vars PROVE DecisionsNotRetried'
<1> USE DEF actVars, DecisionsNotRetried
<1>0. IsActivity(llm)
  BY DEF IInv, Shape
<1>1. CASE llm' = llm
  BY <1>1
<1>2. CASE llm' = Scheduled
  <2>1. ~Decided(NoOut.says)
    BY DEF NoOut, Decided
  <2> QED
    BY <1>2, <2>1, NewActivity
<1>3. CASE InvokeModel
  <2>1. PICK out \in Replies \cup Refusals : llm' = [llm EXCEPT !.st = "ran", !.out = out]
    BY <1>3 DEF InvokeModel
  <2>2. llm = [st |-> llm.st, attempt |-> llm.attempt, out |-> llm.out, last |-> llm.last]
    BY <1>0 DEF IsActivity
  <2>3. llm'.st = "ran" /\ llm'.last = llm.last
    BY <2>1, <2>2
  <2> QED
    BY <2>3
<1>4. CASE llm' \in Ends(llm)
  <2>1. ~Decided(TimedOut.says)
    <3>1. ASSUME NEW o, o = TimedOut PROVE o.says = {"deadline"}
      BY <3>1 DEF TimedOut, NoOut
    <3> QED
      BY <3>1 DEF Decided
  <2>2. \/ llm'.st = "scheduled"
           /\ (llm'.last = TimedOut \/ (llm'.last = llm.out /\ ~NonRetryable(llm.out.says)))
        \/ llm'.st = "failed" /\ llm'.last = llm.last
           /\ (llm'.attempt = MaxAttempts \/ (llm'.out = llm.out /\ NonRetryable(llm.out.says)))
        \/ llm'.st = "done" /\ llm'.last = llm.last
    BY <1>0, <1>4, EndsEffect
  <2>3. ~(MaxAttempts < MaxAttempts)
    BY AgentAssumption
  <2> QED
    BY <2>1, <2>2, <2>3, DecidedText
<1> QED
  BY <1>1, <1>2, <1>3, <1>4
     DEF Next, ActivityRuns, Decide, ReportAgentRun, RunAgentTool, ActivityEnds, Begin, ModelFailed,
         Answered, CallTools, NextIteration, CapReached, Return, ExecutionTimeout, Rollout, Ask, vars

(* The provider is asked again exactly when the text of its last error is  *)
(* no decision, whatever errors providers have, those without a token too, *)
(* and however attempts are lost (agent_workflow.go 86-90).                *)
THEOREM AgentWorkflowDecisions == Spec => []DecisionsNotRetried
<1>1. Init => IInv /\ DecisionsNotRetried
  <2>1. ~Decided(NoOut.says)
    BY DEF NoOut, Decided
  <2> QED
    BY <2>1, InitIInv, NewActivity DEF Init, DecisionsNotRetried
<1>2. IInv /\ DecisionsNotRetried /\ [Next]_vars => DecisionsNotRetried'
  BY NextDecisions
<1> QED
  BY <1>1, <1>2, NextIInv, PTL DEF Spec

-----------------------------------------------------------------------------
(* The conversation.                                                       *)

IsSequence(s) == s \in Seq({s[i] : i \in DOMAIN s})

Answers(p) ==
  /\ p + messages[p].calls <= Len(messages)
  /\ \A j \in 1..messages[p].calls :
       LET m == messages[p + j] IN
       m.role = "tool" /\ m.id[2] = j /\ (m.of = m.id \/ m.err)

(* Every message with tool calls but the last one has its results, and the *)
(* last one only while the tools are waited for, or no longer.             *)
Talk ==
  /\ IsSequence(messages)
  /\ \A p \in 1..Len(messages) : messages[p].role = "assistant" =>
       /\ messages[p].calls \in Nat
       /\ Answers(p) \/ (p = Len(messages) /\ pc \in {"tools", "closed"})
  /\ pc = "tools" =>
       /\ messages[Len(messages)].role = "assistant"
       /\ messages[Len(messages)].calls = llm.out.calls
       /\ Len(messages) > 0
       /\ \A j \in Calls : tool[j].st \in {"ran", "done"} => tool[j].out.of = <<iter, j>>

(* Two sequences one after the other.                                      *)
LEMMA Concatenation ==
  ASSUME NEW s, NEW t, IsSequence(s), IsSequence(t)
  PROVE  /\ IsSequence(s \o t)
         /\ Len(s) \in Nat /\ Len(t) \in Nat /\ Len(s \o t) = Len(s) + Len(t)
         /\ \A i \in 1..Len(s) : (s \o t)[i] = s[i]
         /\ \A i \in 1..Len(t) : (s \o t)[Len(s) + i] = t[i]
<1> DEFINE S == {s[i] : i \in DOMAIN s}
           T == {t[i] : i \in DOMAIN t}
<1>1. s \in Seq(S) /\ t \in Seq(T)
  BY DEF IsSequence
<1>2. s \in Seq(S \cup T) /\ t \in Seq(S \cup T)
  BY <1>1
<1> HIDE DEF S, T
<1>3. /\ s \o t \in Seq(S \cup T)
      /\ Len(s) \in Nat /\ Len(t) \in Nat /\ Len(s \o t) = Len(s) + Len(t)
      /\ \A i \in 1..Len(s) : (s \o t)[i] = s[i]
      /\ \A i \in 1..Len(t) : (s \o t)[Len(s) + i] = t[i]
  BY <1>2
<1>4. ASSUME NEW u \in Seq(S \cup T) PROVE IsSequence(u)
  BY DEF IsSequence
<1> QED
  BY <1>3, <1>4

(* A message is a sequence of its own.                                     *)
LEMMA OneMessage ==
  ASSUME NEW s, IsSequence(s), NEW m
  PROVE  /\ IsSequence(<<m>>) /\ IsSequence(Append(s, m)) /\ Len(s) \in Nat
         /\ Len(Append(s, m)) = Len(s) + 1 /\ Append(s, m)[Len(s) + 1] = m
         /\ \A i \in 1..Len(s) : Append(s, m)[i] = s[i]
<1> DEFINE S == {s[i] : i \in DOMAIN s} \cup {m}
<1>1. s \in Seq(S) /\ m \in S /\ <<m>> \in Seq(S)
  BY DEF IsSequence
<1> HIDE DEF S
<1>2. ASSUME NEW u \in Seq(S) PROVE IsSequence(u)
  BY DEF IsSequence
<1>3. /\ Append(s, m) \in Seq(S) /\ Len(s) \in Nat
      /\ Len(Append(s, m)) = Len(s) + 1 /\ Append(s, m)[Len(s) + 1] = m
      /\ \A i \in 1..Len(s) : Append(s, m)[i] = s[i]
  BY <1>1
<1> QED
  BY <1>1, <1>2, <1>3

(* The results are as many as the calls, in their order, each of its call  *)
(* or an error.                                                            *)
LEMMA ResultsAnswer ==
  ASSUME IInv, Talk, ToolsReady
  PROVE  /\ IsSequence(Results) /\ Len(Results) = llm.out.calls /\ llm.out.calls \in 0..MaxCalls
         /\ \A j \in 1..llm.out.calls :
              /\ Results[j].role = "tool" /\ Results[j].id[2] = j
              /\ Results[j].of = Results[j].id \/ Results[j].err
<1>1. llm.out.calls \in 0..MaxCalls /\ MaxCalls \in Nat
  BY AgentAssumption DEF IInv, Shape, IsActivity, IsOut
<1>2. pc = "tools" /\ \A j \in 1..llm.out.calls : tool[j].st \in {"done", "failed"}
  BY DEF ToolsReady, Ready
<1>3. ASSUME NEW j \in 1..llm.out.calls
      PROVE  tool[j].out.of = <<iter, j>> \/ tool[j].st = "failed"
  <2>1. j \in Calls
    BY <1>1 DEF Calls
  <2> QED
    BY <1>2, <2>1 DEF Talk
<1> DEFINE n == llm.out.calls
           S == {ToolMessage(j, tool[j]) : j \in 1..n}
<1>4. Results = [j \in 1..n |-> ToolMessage(j, tool[j])] /\ n \in Nat
  BY <1>1 DEF Results
<1> HIDE DEF n
<1>5. Results \in Seq(S) /\ Len(Results) = n /\ DOMAIN Results = 1..n
  BY <1>4
<1>6. IsSequence(Results)
  BY <1>5 DEF IsSequence
<1>7. ASSUME NEW j \in 1..n
      PROVE  /\ Results[j].role = "tool" /\ Results[j].id[2] = j
             /\ Results[j].of = Results[j].id \/ Results[j].err
  <2>1. Results[j] = [role |-> "tool", calls |-> 0, id |-> <<iter, j>>, of |-> tool[j].out.of,
                      err |-> tool[j].st = "failed" \/ tool[j].out.err]
    BY <1>4 DEF ToolMessage
  <2>2. Results[j].role = "tool" /\ Results[j].id = <<iter, j>> /\ Results[j].of = tool[j].out.of
    BY <2>1
  <2>3. ASSUME tool[j].st = "failed" PROVE Results[j].err
    <3>1. Results[j].err = (tool[j].st = "failed" \/ tool[j].out.err)
      BY <2>1
    <3> QED
      BY <2>3, <3>1, Zenon
  <2> QED
    BY <1>3, <2>2, <2>3 DEF n
<1> QED
  BY <1>1, <1>5, <1>6, <1>7 DEF n

(* Every step keeps the conversation.                                      *)
LEMMA NextTalk == ASSUME IInv, Talk, [Next]_vars PROVE Talk'
<1> USE DEF runVars, actVars, effectVars
<1>0. Shape /\ Phase /\ pc \in {"start", "model", "tools", "report", "closed"}
      /\ Len(messages) \in Nat
  BY OneMessage DEF IInv, Numbers, Talk
<1>1. ASSUME UNCHANGED messages, pc' \in {pc, "closed"} \/ (pc = "model" /\ pc' = "report"),
             pc' = "tools" => UNCHANGED <<iter, tool, llm>>
      PROVE  Talk'
  <2>1. \A p : Answers(p)' <=> Answers(p)
    BY <1>1 DEF Answers
  <2>2. \A p \in 1..Len(messages) : messages[p].role = "assistant" =>
          /\ messages[p].calls \in Nat
          /\ Answers(p) \/ (p = Len(messages) /\ pc' \in {"tools", "closed"})
    BY <1>1 DEF Talk
  <2>3. \A p \in 1..Len(messages') : messages'[p].role = "assistant" =>
          /\ messages'[p].calls \in Nat
          /\ Answers(p)' \/ (p = Len(messages') /\ pc' \in {"tools", "closed"})
    BY <1>1, <2>1, <2>2
  <2>4. IsSequence(messages)'
    BY <1>1 DEF Talk
  <2>5. pc' = "tools" => pc = "tools"
    BY <1>1
  <2> QED
    BY <1>1, <2>3, <2>4, <2>5 DEF Talk
<1>2. ASSUME UNCHANGED <<pc, messages, iter, llm>>,
             pc = "tools" =>
               \A j \in Calls : tool'[j].st \in {"ran", "done"} => tool'[j].out.of = <<iter, j>>
      PROVE  Talk'
  <2>1. CASE pc # "tools"
    BY <1>1, <1>2, <2>1
  <2>2. CASE pc = "tools"
    <3>1. \A p : Answers(p)' <=> Answers(p)
      BY <1>2 DEF Answers
    <3>2. \A p \in 1..Len(messages') : messages'[p].role = "assistant" =>
            /\ messages'[p].calls \in Nat
            /\ Answers(p)' \/ (p = Len(messages') /\ pc' \in {"tools", "closed"})
      BY <1>2, <2>2, <3>1 DEF Talk
    <3>3. IsSequence(messages)'
      BY <1>2 DEF Talk
    <3> QED
      BY <1>2, <2>2, <3>2, <3>3 DEF Talk
  <2> QED
    BY <2>1, <2>2
<1>3. CASE InvokeModel
  <2>1. UNCHANGED <<pc, messages>> /\ pc # "tools"
    BY <1>0, <1>3 DEF InvokeModel, Phase
  <2> QED
    BY <1>1, <2>1
<1>4. ASSUME NEW j \in Calls, RunAgentTool(j) PROVE Talk'
  <2>1. PICK out \in ToolResults(<<iter, j>>) :
          tool' = [tool EXCEPT ![j] = [@ EXCEPT !.st = "ran", !.out = out]]
    BY <1>4 DEF RunAgentTool
  <2>2. tool[j] = [st |-> tool[j].st, attempt |-> tool[j].attempt, out |-> tool[j].out,
                   last |-> tool[j].last]
        /\ tool = [k \in Calls |-> tool[k]]
    BY <1>0 DEF Shape, IsActivity
  <2>3. tool'[j].out = out /\ \A k \in Calls : k # j => tool'[k] = tool[k]
    BY <2>1, <2>2
  <2>4. out.of = <<iter, j>>
    BY OutShape
  <2>5. pc = "tools" =>
          \A k \in Calls : tool'[k].st \in {"ran", "done"} => tool'[k].out.of = <<iter, k>>
    BY <2>3, <2>4 DEF Talk
  <2>6. UNCHANGED <<pc, messages, iter, llm>>
    BY <1>4 DEF RunAgentTool
  <2> QED
    BY <1>2, <2>5, <2>6
<1>5. CASE ActivityEnds
  <2>1. UNCHANGED <<pc, messages, iter>>
    BY <1>5 DEF ActivityEnds
  <2>2. CASE llm' \in Ends(llm) /\ UNCHANGED <<tool, report>>
    <3>1. llm.st \in {"scheduled", "ran"}
      BY <1>0, <2>2, EndsEffect DEF Shape
    <3>2. pc # "tools"
      BY <1>0, <3>1 DEF Phase
    <3> QED
      BY <1>1, <2>1, <3>2
  <2>3. CASE UNCHANGED <<llm, tool>>
    BY <1>1, <2>1, <2>3
  <2>4. ASSUME NEW j \in Calls, NEW b \in Ends(tool[j]), tool' = [tool EXCEPT ![j] = b],
               UNCHANGED llm
        PROVE  Talk'
    <3>1. b.st \in {"scheduled", "failed"} \/ (tool[j].st = "ran" /\ b.out = tool[j].out)
      <4>1. IsActivity(tool[j])
        BY <1>0 DEF Shape
      <4> QED
        BY <4>1, EndsEffect
    <3>2. tool'[j] = b /\ \A k \in Calls : k # j => tool'[k] = tool[k]
      BY <1>0, <2>4 DEF Shape
    <3>3. pc = "tools" =>
            \A k \in Calls : tool'[k].st \in {"ran", "done"} => tool'[k].out.of = <<iter, k>>
      BY <3>1, <3>2 DEF Talk
    <3> QED
      BY <1>2, <2>1, <2>4, <3>3
  <2> QED
    BY <1>5, <2>2, <2>3, <2>4 DEF ActivityEnds
<1>6. CASE ReportAgentRun \/ Rollout \/ Return \/ ExecutionTimeout \/ ModelFailed \/ Answered
             \/ UNCHANGED vars
  <2>1. /\ UNCHANGED <<messages, iter, tool, llm>>
        /\ pc' \in {pc, "closed"} \/ (pc = "model" /\ pc' = "report")
    BY <1>6
       DEF ReportAgentRun, Rollout, Return, ExecutionTimeout, ModelFailed, Answered, ReportRun, vars
  <2> QED
    BY <1>1, <2>1
<1>7. CASE Begin
  <2>1. messages' = <<UserMessage>> /\ pc' = "model"
    BY <1>7 DEF Begin, Ask
  <2>2. \E s : IsSequence(s)
    BY DEF Talk
  <2>3. IsSequence(<<UserMessage>>)
    BY <2>2, OneMessage
  <2>4. UserMessage.role = "user"
    BY DEF UserMessage
  <2>5. \A p \in 1..Len(messages') : messages'[p].role # "assistant"
    BY <2>1, <2>4
  <2> QED
    BY <2>1, <2>3, <2>5 DEF Talk
<1>8. CASE CallTools
  <2>1. PICK m : m = [UserMessage EXCEPT !.role = "assistant", !.calls = llm.out.calls]
    OBVIOUS
  <2>2. m.role = "assistant" /\ m.calls = llm.out.calls
    BY <2>1 DEF UserMessage
  <2>3. /\ messages' = Append(messages, m) /\ pc = "model" /\ pc' = "tools" /\ UNCHANGED llm
        /\ tool' = [j \in Calls |-> IF j <= llm.out.calls THEN Scheduled ELSE NotScheduled]
    BY <1>8, <2>1 DEF CallTools
  <2>4. m.calls \in Nat
    BY <1>0, <2>2, AgentAssumption DEF Shape, IsActivity, IsOut
  <2>5. /\ IsSequence(messages)' /\ Len(messages') = Len(messages) + 1
        /\ messages'[Len(messages) + 1] = m
        /\ \A i \in 1..Len(messages) : messages'[i] = messages[i]
    BY <2>3, OneMessage DEF Talk
  <2>6. ASSUME NEW p \in 1..Len(messages), messages[p].role = "assistant"
        PROVE  messages[p].calls \in Nat /\ Answers(p)'
    <3>1. messages[p].calls \in Nat /\ Answers(p)
      BY <2>3, <2>6 DEF Talk
    <3>2. /\ p + messages[p].calls <= Len(messages)
          /\ \A j \in 1..messages[p].calls :
               /\ messages[p + j].role = "tool" /\ messages[p + j].id[2] = j
               /\ messages[p + j].of = messages[p + j].id \/ messages[p + j].err
      BY <3>1 DEF Answers
    <3>3. \A j \in 1..messages[p].calls : p + j \in 1..Len(messages)
      BY <1>0, <3>1, <3>2
    <3>4. /\ messages'[p] = messages[p]
          /\ \A j \in 1..messages[p].calls : messages'[p + j] = messages[p + j]
      BY <2>5, <3>3
    <3>5. p + messages[p].calls <= Len(messages')
      BY <1>0, <2>5, <3>1, <3>2
    <3> QED
      BY <3>1, <3>2, <3>4, <3>5 DEF Answers
  <2>7. ASSUME NEW p \in 1..Len(messages'), messages'[p].role = "assistant"
        PROVE  /\ messages'[p].calls \in Nat
               /\ Answers(p)' \/ (p = Len(messages') /\ pc' \in {"tools", "closed"})
    <3>1. CASE p \in 1..Len(messages)
      BY <2>5, <2>6, <2>7, <3>1
    <3>2. CASE p \notin 1..Len(messages)
      <4>1. p = Len(messages) + 1
        BY <1>0, <2>5, <3>2
      <4> QED
        BY <2>2, <2>3, <2>4, <2>5, <4>1
    <3> QED
      BY <3>1, <3>2
  <2>8. \A j \in Calls : tool'[j].st \notin {"ran", "done"}
    BY <2>3, NewActivity
  <2>9. Len(messages') > 0
    BY <1>0, <2>5
  <2> QED
    BY <2>2, <2>3, <2>5, <2>7, <2>8, <2>9 DEF Talk
<1>9. ASSUME ToolsReady, pc' \in {"model", "report"} PROVE Talk'
  <2>0. PICK L \in Nat : L = Len(messages)
    BY <1>0
  <2>1. PICK n \in Nat : n = llm.out.calls
    BY <1>9, ResultsAnswer, AgentAssumption
  <2>2. /\ IsSequence(Results) /\ Len(Results) = n
        /\ \A j \in 1..n :
              /\ Results[j].role = "tool" /\ Results[j].id[2] = j
              /\ Results[j].of = Results[j].id \/ Results[j].err
    BY <1>9, <2>1, ResultsAnswer, AgentAssumption
  <2>3. messages' = messages \o Results
    BY <1>9 DEF ToolsReady
  <2>4. /\ IsSequence(messages') /\ Len(messages') = L + n
        /\ \A i \in 1..L : messages'[i] = messages[i]
        /\ \A i \in 1..n : messages'[L + i] = Results[i]
    <3>1. PICK s, t : s = messages /\ t = Results
      OBVIOUS
    <3>2. IsSequence(s) /\ IsSequence(t) /\ Len(s) = L /\ Len(t) = n
      BY <2>0, <2>2, <3>1 DEF Talk
    <3>3. /\ IsSequence(s \o t) /\ Len(s \o t) = Len(s) + Len(t)
          /\ \A i \in 1..Len(s) : (s \o t)[i] = s[i]
          /\ \A i \in 1..Len(t) : (s \o t)[Len(s) + i] = t[i]
      BY <3>2, Concatenation
    <3> QED
      BY <2>3, <3>1, <3>2, <3>3
  <2>5. /\ L > 0 /\ messages[L].role = "assistant" /\ messages[L].calls = n
        /\ Answers(L)'
    <3>1. L > 0 /\ messages[L].role = "assistant" /\ messages[L].calls = n
      BY <1>0, <1>9, <2>0, <2>1 DEF Talk, ToolsReady
    <3>2. L \in 1..L
      BY <2>0, <3>1
    <3>3. messages'[L] = messages[L]
      BY <2>4, <3>2
    <3>4. messages'[L].calls = n /\ L + n <= Len(messages')
      BY <2>0, <2>1, <2>4, <3>1, <3>3
    <3>5. \A j \in 1..n :
            /\ messages'[L + j].role = "tool" /\ messages'[L + j].id[2] = j
            /\ messages'[L + j].of = messages'[L + j].id \/ messages'[L + j].err
      BY <2>2, <2>4
    <3> QED
      BY <3>1, <3>4, <3>5 DEF Answers
  <2>6. ASSUME NEW p \in 1..L, messages[p].role = "assistant"
        PROVE  messages[p].calls \in Nat /\ Answers(p)'
    <3>1. CASE p = L
      BY <2>1, <2>5, <3>1
    <3>2. CASE p # L
      <4>1. messages[p].calls \in Nat /\ Answers(p)
        BY <1>9, <2>0, <2>6, <3>2 DEF Talk, ToolsReady
      <4>2. /\ p + messages[p].calls <= L
            /\ \A j \in 1..messages[p].calls :
                 /\ messages[p + j].role = "tool" /\ messages[p + j].id[2] = j
                 /\ messages[p + j].of = messages[p + j].id \/ messages[p + j].err
        BY <2>0, <4>1 DEF Answers
      <4>3. \A j \in 1..messages[p].calls : p + j \in 1..L
        BY <2>0, <4>1, <4>2
      <4>4. /\ messages'[p] = messages[p]
            /\ \A j \in 1..messages[p].calls : messages'[p + j] = messages[p + j]
        BY <2>4, <4>3
      <4>5. p + messages[p].calls <= Len(messages')
        BY <2>0, <2>1, <2>4, <4>1, <4>2
      <4> QED
        BY <4>1, <4>2, <4>4, <4>5 DEF Answers
    <3> QED
      BY <3>1, <3>2
  <2>7. ASSUME NEW p \in 1..Len(messages'), messages'[p].role = "assistant"
        PROVE  messages'[p].calls \in Nat /\ Answers(p)'
    <3>1. CASE p \in 1..L
      BY <2>4, <2>6, <2>7, <3>1
    <3>2. CASE p \notin 1..L
      <4>1. PICK j \in 1..n : p = L + j
        <5>1. p - L \in 1..n /\ p = L + (p - L)
          BY <2>0, <2>1, <2>4, <3>2
        <5> QED
          BY <5>1
      <4>2. messages'[L + j] = Results[j] /\ Results[j].role = "tool"
        BY <2>2, <2>4
      <4> QED
        BY <2>7, <4>1, <4>2
    <3> QED
      BY <3>1, <3>2
  <2> QED
    BY <1>9, <2>4, <2>7 DEF Talk
<1>10. CASE NextIteration \/ CapReached
  BY <1>9, <1>10 DEF NextIteration, CapReached, Ask, ReportRun
<1> QED
  BY <1>3, <1>4, <1>5, <1>6, <1>7, <1>8, <1>10 DEF Next, ActivityRuns, Decide

(* The conversation is always one the providers accept: n results in order *)
(* after every message with n calls, whatever order the tools ended in,    *)
(* whichever failed or was retried (agent_workflow.go 161-192).            *)
THEOREM AgentWorkflowConversation == Spec => []ConversationWellFormed
<1>1. Init => IInv /\ Talk
  <2> SUFFICES ASSUME Init PROVE Talk
    BY InitIInv
  <2>1. messages = <<>> /\ pc = "start"
    BY DEF Init
  <2>2. IsSequence(<<>>) /\ Len(<<>>) = 0
    BY DEF IsSequence
  <2> QED
    BY <2>1, <2>2 DEF Talk
<1>2. IInv /\ Talk /\ [Next]_vars => Talk'
  BY NextTalk
<1>3. Talk => ConversationWellFormed
  <2> SUFFICES ASSUME Talk, NEW p \in DOMAIN messages, messages[p].role = "assistant"
               PROVE  \/ p = Len(messages) /\ pc \in {"tools", "closed"}
                      \/ Answers(p)
    BY DEF ConversationWellFormed, Answers
  <2>1. DOMAIN messages = 1..Len(messages)
    BY DEF Talk, IsSequence
  <2> QED
    BY <2>1 DEF Talk
<1> QED
  BY <1>1, <1>2, <1>3, NextIInv, PTL DEF Spec

-----------------------------------------------------------------------------
(* Types.                                                                  *)

(* What an iteration adds to the conversation: at most one message with    *)
(* MaxCalls calls, then their results.                                     *)
Bounded ==
  /\ pc = "start" => Len(messages) = 0
  /\ pc = "model" => Len(messages) <= 1 + (iter - 1) * (1 + MaxCalls)
  /\ pc = "tools" => Len(messages) <= 2 + (iter - 1) * (1 + MaxCalls)
  /\ Len(messages) <= 1 + iter * (1 + MaxCalls)

Named ==
  /\ result.outcome \in {"none", "completed", "error", "max_iterations", "timed_out"}
  /\ envModel \in Models
  /\ model \in Models
  /\ used \subseteq Models

(* The models are those there are, and the outcomes those the types name.  *)
LEMMA NextNamed == ASSUME IInv, Named, [Next]_vars PROVE Named'
<1> USE DEF Named, runVars, actVars, effectVars, modelVars
<1>1. CASE InvokeModel \/ Begin \/ Rollout
  <2>1. UNCHANGED result
    BY <1>1 DEF InvokeModel, Begin, Rollout
  <2>2. envModel' \in Models /\ model' \in Models /\ used' \subseteq Models
    BY <1>1 DEF InvokeModel, Begin, Rollout, Replay
  <2> QED
    BY <2>1, <2>2
<1>2. CASE ModelFailed \/ Answered \/ CapReached
  BY <1>2 DEF ModelFailed, Answered, CapReached, ReportRun
<1>3. CASE ExecutionTimeout
  <2>1. result' = [result EXCEPT !.outcome = "timed_out"] /\ UNCHANGED <<envModel, model, used>>
    BY <1>3 DEF ExecutionTimeout
  <2>2. result = [outcome |-> result.outcome, stop |-> result.stop,
                  iterations |-> result.iterations]
    BY DEF IInv, Shape
  <2>3. result'.outcome = "timed_out"
    BY <2>1, <2>2
  <2> QED
    BY <2>1, <2>3
<1>4. CASE \/ ReportAgentRun \/ (\E j \in Calls : RunAgentTool(j)) \/ ActivityEnds
           \/ CallTools \/ NextIteration \/ Return \/ UNCHANGED vars
  BY <1>4 DEF ReportAgentRun, RunAgentTool, ActivityEnds, CallTools, NextIteration, Return, vars
<1> QED
  BY <1>1, <1>2, <1>3, <1>4 DEF Next, ActivityRuns, Decide

(* No iteration adds more to the conversation than that.                   *)
LEMMA NextBounded == ASSUME IInv, Talk, Bounded, [Next]_vars PROVE Bounded'
<1> USE DEF runVars, actVars, effectVars
<1>0. /\ Numbers /\ Phase /\ Len(messages) \in Nat /\ IsSequence(messages)
      /\ iter \in Nat /\ MaxCalls \in Nat
  BY OneMessage, AgentAssumption DEF IInv, Numbers, Talk
<1>1. ASSUME NEW k \in Nat
      PROVE  /\ k * (1 + MaxCalls) \in Nat /\ k * (1 + MaxCalls) <= (k + 1) * (1 + MaxCalls)
             /\ (k + 1) * (1 + MaxCalls) = k * (1 + MaxCalls) + 1 + MaxCalls
  <2>1. k * (1 + MaxCalls) \in Nat
    BY <1>0
  <2>2. (k + 1) * (1 + MaxCalls) = k * (1 + MaxCalls) + 1 + MaxCalls
    BY <1>0
  <2> QED
    BY <1>0, <2>1, <2>2
<1>2. ASSUME UNCHANGED <<messages, iter>>, pc' \in {pc, "report", "closed"} PROVE Bounded'
  BY <1>2 DEF Bounded
<1>3. ASSUME pc \in {"model", "tools"}
      PROVE  \E k \in Nat : iter = k + 1
  <2>1. iter - 1 \in Nat /\ iter = (iter - 1) + 1
    BY <1>0, <1>3 DEF Phase
  <2> QED
    BY <2>1
<1>4. CASE Begin
  <2>1. messages' = <<UserMessage>> /\ iter' = 1 /\ pc' = "model"
    BY <1>4 DEF Begin, Ask
  <2>2. Len(messages') = 1
    BY <2>1
  <2>3. 0 * (1 + MaxCalls) = 0 /\ 1 * (1 + MaxCalls) \in Nat
    BY <1>0
  <2> QED
    BY <2>1, <2>2, <2>3 DEF Bounded
<1>5. CASE CallTools
  <2>1. PICK m : messages' = Append(messages, m)
    BY <1>5 DEF CallTools
  <2>2. pc = "model" /\ pc' = "tools" /\ iter' = iter
    BY <1>5 DEF CallTools
  <2>3. Len(messages') = Len(messages) + 1
    BY <1>0, <2>1, OneMessage
  <2>4. PICK k \in Nat : iter = k + 1
    BY <1>3, <2>2
  <2>5. Len(messages) <= 1 + k * (1 + MaxCalls) /\ iter - 1 = k
    BY <2>2, <2>4 DEF Bounded
  <2> QED
    BY <1>0, <1>1, <2>2, <2>3, <2>4, <2>5 DEF Bounded
<1>6. CASE NextIteration \/ CapReached
  <2>1. /\ ToolsReady /\ pc = "tools" /\ messages' = messages \o Results
        /\ \/ pc' = "model" /\ iter' = iter + 1
           \/ pc' = "report" /\ iter' = iter
    BY <1>6 DEF NextIteration, CapReached, ToolsReady, Ask, ReportRun
  <2>2. PICK s, t : s = messages /\ t = Results
    OBVIOUS
  <2>3. IsSequence(s) /\ IsSequence(t) /\ Len(t) \in 0..MaxCalls
    BY <1>0, <2>1, <2>2, ResultsAnswer
  <2>4. Len(s \o t) = Len(s) + Len(t)
    BY <2>3, Concatenation
  <2>5. Len(messages') <= Len(messages) + MaxCalls /\ Len(messages') \in Nat
    BY <1>0, <2>1, <2>2, <2>3, <2>4
  <2>6. PICK k \in Nat : iter = k + 1
    BY <1>3, <2>1
  <2>7. Len(messages) <= 2 + k * (1 + MaxCalls)
    BY <2>1, <2>6 DEF Bounded
  <2>8. Len(messages') <= 1 + iter * (1 + MaxCalls)
    BY <1>0, <1>1, <2>5, <2>6, <2>7
  <2>9. iter * (1 + MaxCalls) <= (iter + 1) * (1 + MaxCalls) /\ iter * (1 + MaxCalls) \in Nat
        /\ (iter + 1) * (1 + MaxCalls) \in Nat /\ (iter + 1) - 1 = iter
    BY <1>0, <1>1
  <2> QED
    BY <2>1, <2>5, <2>8, <2>9 DEF Bounded
<1>7. CASE \/ InvokeModel \/ ReportAgentRun \/ (\E j \in Calls : RunAgentTool(j))
           \/ ActivityEnds \/ ModelFailed \/ Answered \/ Return \/ ExecutionTimeout
           \/ Rollout \/ UNCHANGED vars
  <2>1. UNCHANGED <<messages, iter>> /\ pc' \in {pc, "report", "closed"}
    BY <1>7
       DEF InvokeModel, ReportAgentRun, RunAgentTool, ActivityEnds, ModelFailed, Answered,
           Return, ExecutionTimeout, Rollout, ReportRun, vars
  <2> QED
    BY <1>2, <2>1
<1> QED
  BY <1>4, <1>5, <1>6, <1>7 DEF Next, ActivityRuns, Decide

(* Every variable of a run stays what it is meant to be, for any cap and   *)
(* any number of attempts; the conversation grows by no more than a reply  *)
(* and its results an iteration.                                           *)
THEOREM AgentWorkflowTypeOK == Spec => []TypeOK
<1>1. Init => Talk /\ Bounded /\ Named
  <2> SUFFICES ASSUME Init PROVE Talk /\ Bounded /\ Named
    OBVIOUS
  <2>1. messages = <<>> /\ pc = "start" /\ iter = 0
    BY DEF Init
  <2>2. IsSequence(<<>>) /\ Len(<<>>) = 0
    BY DEF IsSequence
  <2>3. 0 * (1 + MaxCalls) = 0
    BY AgentAssumption
  <2>4. Talk /\ Bounded
    BY <2>1, <2>2, <2>3 DEF Talk, Bounded
  <2>5. Named
    BY AgentAssumption DEF Init, Named, NoResult
  <2> QED
    BY <2>4, <2>5
<1>2. IInv /\ Talk /\ Bounded /\ Named /\ [Next]_vars => Talk' /\ Bounded' /\ Named'
  BY NextTalk, NextBounded, NextNamed
<1>3. IInv /\ Bounded /\ Named => TypeOK
  <2> SUFFICES ASSUME IInv, Bounded, Named PROVE TypeOK
    OBVIOUS
  <2>1. /\ pc \in {"start", "model", "tools", "report", "closed"} /\ maxIter \in Nat \ {0}
        /\ iter \in 0..maxIter /\ usage \in 0..iter
        /\ pc \notin {"start", "closed"} => iter > 0
    BY DEF IInv, Numbers, Phase
  <2>2. \A a \in {llm, report} \cup {tool[j] : j \in Calls} :
          a.st \in States /\ a.attempt \in 0..MaxAttempts
    BY DEF IInv, Shape, IsActivity
  <2> QED
    BY <2>1, <2>2 DEF TypeOK, Bounded, Named
<1> QED
  BY <1>1, <1>2, <1>3, InitIInv, NextIInv, PTL DEF Spec
=============================================================================
