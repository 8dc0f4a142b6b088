--------------------------- MODULE PyAgentProofs ---------------------------
(***************************************************************************)
(* What a run of the Python agent pays, what the instruments record of it  *)
(* and whom injected failures reach, for any number of runs, slots and     *)
(* crashes, any usage and any prices.                                      *)
(***************************************************************************)
EXTENDS PyAgent, TLAPS

(* The sums of token counts.                                               *)
Usage == [{"input", "cached", "output"} -> Nat]

TotalsOK == totals \in [Runs -> {t \in Usage : t["cached"] <= t["input"]}]
OutcomesOK == outcomes = [r \in Runs |-> outcomes[r]]

(* The one attempt: it is handed out to a running Workflow, which closes   *)
(* when the server has an answer or has given up.                          *)
OneAttempt(r) ==
    /\ attempts[r] <= 1
    /\ wf[r] = "none" => attempts[r] = 0
    /\ current[r] <=> wf[r] = "running" /\ attempts[r] = 1
    /\ InWorker(r) => up /\ attempts[r] = 1
    /\ wf[r] = "completed" => ~InWorker(r)

(* Nothing is known of a run the Worker has not begun.                     *)
NotBegun(r) ==
    attempts[r] = 0 =>
        /\ sent[r] = 0 /\ cost[r] = 0 /\ totals[r] = NoUsage
        /\ outcomes[r] = <<>> /\ ~injected[r]

(* The steps LangGraph counts, a model call and its tools being two, keep  *)
(* pace with the requests sent and the replies received.                   *)
InStep(r) ==
    /\ pc[r] = "build" => sent[r] = 0 /\ steps[r] = 0 /\ calls[r] = 0
    /\ pc[r] = "model" => steps[r] = 2 * sent[r] /\ calls[r] = sent[r]
    /\ pc[r] = "llm" => steps[r] = 2 * sent[r] - 1 /\ calls[r] = sent[r] - 1
    /\ pc[r] = "tools" => steps[r] = 2 * sent[r] - 1 /\ calls[r] = sent[r] /\ toolsLeft[r] > 0
    /\ sent[r] <= MaxIterations

(* What the instruments have of a run.                                     *)
Recorded(r) ==
    /\ outcomes[r] # <<>> =>
         /\ pc[r] \in {"done", "failed", "off"}
         /\ outcomes[r] = <<outcomes[r][1]>>
         /\ outcomes[r][1][1] = "max_iterations" => calls[r] = MaxIterations
    /\ metrics =>
         /\ pc[r] = "done" \/ wf[r] = "completed" => outcomes[r] = <<<<"completed", "end_turn">>>>
         /\ cost[r] = EstimateCost(totals[r])

(* The rate is the run's own until another run begins.                     *)
OwnRate(r) ==
    /\ InWorker(r) /\ ~disturbed[r] => failRate = req[r].rate
    /\ injected[r] /\ req[r].rate = "never" => disturbed[r]

IInv ==
    /\ TypeOK /\ TotalsOK /\ OutcomesOK
    /\ \A r \in Runs : OneAttempt(r) /\ NotBegun(r) /\ InStep(r) /\ OwnRate(r)

---------------------------------------------------------------------------
(* The price of a sum is the sum of the prices.                            *)
LEMMA PriceAddsUp ==
    ASSUME NEW t \in Usage, t["cached"] <= t["input"], NEW u \in Usages
    PROVE  /\ AddUsage(t, u) \in Usage
           /\ AddUsage(t, u)["cached"] <= AddUsage(t, u)["input"]
           /\ EstimateCost(AddUsage(t, u)) = EstimateCost(t) + EstimateCost(u)
           /\ EstimateCost(u) \in Nat
<1>1. /\ u.input \in Nat /\ u.cached \in Nat /\ u.cached <= u.input /\ u.output \in Nat
      /\ Prices.input \in Nat /\ Prices.cached \in Nat /\ Prices.output \in Nat
  BY AgentAssumption
<1>2. t.input \in Nat /\ t.cached \in Nat /\ t.cached <= t.input /\ t.output \in Nat
  BY DEF Usage
<1> DEFINE s == AddUsage(t, u)
<1>3. s = [k \in {"input", "cached", "output"} |-> t[k] + u[k]]
  BY DEF AddUsage, NoUsage
<1>4. s.input = t.input + u.input /\ s.cached = t.cached + u.cached /\ s.output = t.output + u.output
  BY <1>3
<1>5. s \in Usage
  <2>1. \A k \in {"input", "cached", "output"} : t[k] + u[k] \in Nat
    BY <1>1, <1>2
  <2> QED
    BY <1>3, <2>1 DEF Usage
<1>6. s["cached"] <= s["input"]
  BY <1>1, <1>2, <1>4
<1> HIDE DEF s
<1>7. /\ EstimateCost(t) = (t.input - t.cached) * Prices.input + t.cached * Prices.cached
                             + t.output * Prices.output
      /\ EstimateCost(u) = (u.input - u.cached) * Prices.input + u.cached * Prices.cached
                             + u.output * Prices.output
      /\ EstimateCost(s) = (s.input - s.cached) * Prices.input + s.cached * Prices.cached
                             + s.output * Prices.output
  <2>1. \A a, b \in Nat : b <= a => (IF a > b THEN a - b ELSE 0) = a - b
    OBVIOUS
  <2>2. s.input \in Nat /\ s.cached \in Nat /\ s.cached <= s.input
    BY <1>1, <1>2, <1>4
  <2>3. /\ (IF t.input > t.cached THEN t.input - t.cached ELSE 0) = t.input - t.cached
        /\ (IF u.input > u.cached THEN u.input - u.cached ELSE 0) = u.input - u.cached
        /\ (IF s.input > s.cached THEN s.input - s.cached ELSE 0) = s.input - s.cached
    BY <1>1, <1>2, <2>1, <2>2
  <2> QED
    BY <2>3, Zenon DEF EstimateCost
<1>8. ASSUME NEW a \in Int, NEW b \in Int, NEW p \in Int PROVE (a + b) * p = a * p + b * p
  OBVIOUS
<1>9. /\ (s.input - s.cached) * Prices.input
           = (t.input - t.cached) * Prices.input + (u.input - u.cached) * Prices.input
      /\ s.cached * Prices.cached = t.cached * Prices.cached + u.cached * Prices.cached
      /\ s.output * Prices.output = t.output * Prices.output + u.output * Prices.output
  <2>1. s.input - s.cached = (t.input - t.cached) + (u.input - u.cached)
    BY <1>1, <1>2, <1>4
  <2>2. t.input - t.cached \in Int /\ u.input - u.cached \in Int
    BY <1>1, <1>2
  <2>3. (s.input - s.cached) * Prices.input
           = (t.input - t.cached) * Prices.input + (u.input - u.cached) * Prices.input
    BY <1>1, <1>8, <2>1, <2>2
  <2>4. s.cached * Prices.cached = t.cached * Prices.cached + u.cached * Prices.cached
    BY <1>1, <1>2, <1>4, <1>8
  <2>5. s.output * Prices.output = t.output * Prices.output + u.output * Prices.output
    BY <1>1, <1>2, <1>4, <1>8
  <2> QED
    BY <2>3, <2>4, <2>5
<1>10. \A a, p \in Nat : a * p \in Nat
  OBVIOUS
<1>11. u.input - u.cached \in Nat /\ t.input - t.cached \in Nat
  BY <1>1, <1>2
<1>12. /\ (u.input - u.cached) * Prices.input \in Nat /\ u.cached * Prices.cached \in Nat
       /\ u.output * Prices.output \in Nat
       /\ (t.input - t.cached) * Prices.input \in Nat /\ t.cached * Prices.cached \in Nat
       /\ t.output * Prices.output \in Nat
  BY <1>1, <1>2, <1>10, <1>11
<1>13. EstimateCost(s) = EstimateCost(t) + EstimateCost(u) /\ EstimateCost(u) \in Nat
  BY <1>7, <1>9, <1>12
<1> QED
  BY <1>5, <1>6, <1>13 DEF s

(* Initially no Workflow has been started.                                 *)
LEMMA InitIInv == Init => IInv /\ \A r \in Runs : Recorded(r)
<1> SUFFICES ASSUME Init PROVE IInv /\ \A r \in Runs : Recorded(r)
  OBVIOUS
<1> USE AgentAssumption DEF Init, NoRequest, RecursionLimit
<1>1. TypeOK
  <2>1. /\ wf \in [Runs -> {"none", "running", "completed", "failed"}]
        /\ req \in [Runs -> Requests \union {NoRequest}]
        /\ pc \in [Runs -> {"off", "build", "model", "llm", "tools", "answered", "done", "failed"}]
    OBVIOUS
  <2>2. attempts \in [Runs -> Nat] /\ calls \in [Runs -> Nat]
    OBVIOUS
  <2>3. steps \in [Runs -> 0..RecursionLimit]
    OBVIOUS
  <2>4. toolsLeft \in [Runs -> 0..MaxToolCalls]
    OBVIOUS
  <2>5. sent \in [Runs -> Nat] /\ cost \in [Runs -> Nat]
    OBVIOUS
  <2>6. current \in [Runs -> BOOLEAN] /\ injected \in [Runs -> BOOLEAN]
        /\ disturbed \in [Runs -> BOOLEAN]
    OBVIOUS
  <2>7. failRate \in {"never", "sometimes", "always"} /\ slots \in SlotChoices /\ crashes \in 0..MaxCrashes
    OBVIOUS
  <2>8. metrics \in BOOLEAN /\ up \in BOOLEAN
    BY DEF InitMetrics
  <2> QED
    BY <2>1, <2>2, <2>3, <2>4, <2>5, <2>6, <2>7, <2>8 DEF TypeOK
<1>2. TotalsOK
  BY DEF TotalsOK, Usage, NoUsage
<1>20. OutcomesOK
  BY DEF OutcomesOK
<1>3. ASSUME NEW r \in Runs PROVE OneAttempt(r) /\ NotBegun(r) /\ InStep(r) /\ OwnRate(r)
  BY DEF OneAttempt, NotBegun, InStep, OwnRate, InWorker
<1>4. ASSUME NEW r \in Runs PROVE Recorded(r)
  <2>1. cost[r] = 0 /\ totals[r] = NoUsage /\ outcomes[r] = <<>> /\ pc[r] = "off" /\ wf[r] = "none"
    OBVIOUS
  <2>2. EstimateCost(NoUsage) = 0
    BY DEF EstimateCost, NoUsage
  <2> QED
    BY <2>1, <2>2 DEF Recorded
<1> QED
  BY <1>1, <1>2, <1>20, <1>3, <1>4 DEF IInv

(* The types of a run's own state, as the steps need them.                 *)
LEMMA RunTypes ==
    ASSUME TypeOK
    PROVE  /\ wf \in [Runs -> {"none", "running", "completed", "failed"}]
           /\ req \in [Runs -> Requests \union {NoRequest}]
           /\ pc \in [Runs -> {"off", "build", "model", "llm", "tools", "answered", "done", "failed"}]
           /\ steps \in [Runs -> Int] /\ calls \in [Runs -> Int] /\ sent \in [Runs -> Int]
           /\ attempts \in [Runs -> Int] /\ toolsLeft \in [Runs -> Int]
           /\ current \in [Runs -> BOOLEAN]
BY DEF TypeOK

(* The Worker begins a run that no attempt was made of.                    *)
LEMMA BeginsOnce ==
    ASSUME IInv, NEW r \in Runs, Begin(r)
    PROVE  attempts[r] = 0
<1>1. /\ attempts[r] <= 1 /\ attempts[r] \in Nat
      /\ current[r] <=> wf[r] = "running" /\ attempts[r] = 1
  BY DEF IInv, OneAttempt, TypeOK
<1>2. attempts[r] # 1
  BY <1>1 DEF Begin
<1> QED
  BY <1>1, <1>2

(* The one attempt.                                                        *)
LEMMA NextOneAttempt ==
    ASSUME IInv, [Next]_vars, NEW x \in Runs
    PROVE  OneAttempt(x)'
<1> USE RunTypes DEF OneAttempt, InWorker
<1>0. TypeOK /\ OneAttempt(x) /\ up \in BOOLEAN
  BY DEF IInv, TypeOK
<1>1. CASE Connect \/ ConnectFails \/ Restart
  BY <1>0, <1>1 DEF Connect, ConnectFails, Restart
<1>2. CASE Crash
  BY <1>0, <1>2 DEF Crash
<1>3. CASE PollEmpty \/ UNCHANGED vars
  BY <1>0, <1>3 DEF PollEmpty, vars, workerVars
<1>4. ASSUME NEW r \in Runs, StartWorkflow(r) PROVE OneAttempt(x)'
  BY <1>0, <1>4 DEF StartWorkflow, workerVars
<1>5. ASSUME NEW r \in Runs, Begin(r) PROVE OneAttempt(x)'
  <2>1. attempts[r] = 0
    BY <1>5, BeginsOnce
  <2> QED
    BY <1>0, <1>5, <2>1 DEF Begin
<1>6. ASSUME NEW r \in Runs,
             BuildModel(r) \/ LimitReached(r) \/ CallModel(r) \/ ModelReplies(r) \/ ModelFails(r)
               \/ CallTool(r) \/ Finish(r)
      PROVE  OneAttempt(x)'
  <2>1. /\ UNCHANGED <<wf, attempts, current, up>>
        /\ pc[r] # "off" /\ (pc'[x] # "off" => pc[x] # "off")
    BY <1>0, <1>6
       DEF BuildModel, LimitReached, CallModel, ModelReplies, ModelFails, CallTool, Finish, Raise,
           workerVars
  <2>2. wf[x] = "completed" => pc'[x] = pc[x]
    BY <1>0, <1>6
       DEF BuildModel, LimitReached, CallModel, ModelReplies, ModelFails, CallTool, Finish, Raise
  <2> QED
    BY <1>0, <2>1, <2>2
<1>7. ASSUME NEW r \in Runs, AttemptFailed(r), pc' \in {pc, [pc EXCEPT ![r] = "off"]},
             current[r], UNCHANGED <<attempts, up>>
      PROVE  OneAttempt(x)'
  <2>1. wf[r] = "running" /\ attempts[r] = 1
    BY <1>7 DEF IInv
  <2>2. wf' = [wf EXCEPT ![r] = "failed"] /\ current' = [current EXCEPT ![r] = FALSE]
    BY <1>7, <2>1 DEF AttemptFailed, NoRetry, MaximumAttempts
  <2> QED
    BY <1>0, <1>7, <2>1, <2>2
<1>8. ASSUME NEW r \in Runs, Respond(r) PROVE OneAttempt(x)'
  <2>1. CASE ~current[r]
    BY <1>0, <1>8, <2>1 DEF Respond, workerVars
  <2>2. CASE current[r] /\ pc[r] = "failed"
    BY <1>7, <1>8, <2>2 DEF Respond, workerVars
  <2>3. CASE current[r] /\ pc[r] # "failed"
    BY <1>0, <1>8, <2>3 DEF Respond, workerVars
  <2> QED
    BY <2>1, <2>2, <2>3
<1>9. ASSUME NEW r \in Runs, StartToCloseTimeout(r) PROVE OneAttempt(x)'
  BY <1>7, <1>9 DEF StartToCloseTimeout, workerVars
<1>10. ASSUME NEW r \in Runs, Cancelled(r) \/ CloseWorkflow(r) PROVE OneAttempt(x)'
  BY <1>0, <1>10 DEF Cancelled, CloseWorkflow, workerVars
<1> QED
  BY <1>1, <1>2, <1>3, <1>4, <1>5, <1>6, <1>8, <1>9, <1>10 DEF Next, InLoop
(* The types.                                                              *)
LEMMA NextType == ASSUME IInv, [Next]_vars PROVE TypeOK' /\ TotalsOK'
<1> USE DEF activityVars, reportVars, workerVars
<1> DEFINE Places == {"off", "build", "model", "llm", "tools", "answered", "done", "failed"}
           ServerOK == /\ wf \in [Runs -> {"none", "running", "completed", "failed"}]
                       /\ req \in [Runs -> Requests \union {NoRequest}]
                       /\ attempts \in [Runs -> Nat] /\ current \in [Runs -> BOOLEAN]
                       /\ closed \in [Runs -> BOOLEAN]
           LoopOK == /\ steps \in [Runs -> 0..RecursionLimit] /\ calls \in [Runs -> Nat]
                     /\ toolsLeft \in [Runs -> 0..MaxToolCalls] /\ sent \in [Runs -> Nat]
           CostOK == cost \in [Runs -> Nat] /\ TotalsOK
           FlagsOK == injected \in [Runs -> BOOLEAN] /\ disturbed \in [Runs -> BOOLEAN]
           WorkerOK == /\ failRate \in {"never", "sometimes", "always"}
                       /\ slots \in SlotChoices /\ metrics \in BOOLEAN /\ up \in BOOLEAN
                       /\ tries \in 0..MaxTries /\ crashes \in 0..MaxCrashes
           All == ServerOK /\ pc \in [Runs -> Places] /\ LoopOK /\ CostOK /\ FlagsOK /\ WorkerOK
<1>0. All /\ \A r \in Runs : OneAttempt(r) /\ InStep(r)
  BY DEF IInv, TypeOK
<1>00. RecursionLimit \in Nat /\ MaxToolCalls \in Nat /\ RecursionLimit = 2 * MaxIterations
  BY AgentAssumption DEF RecursionLimit
<1> SUFFICES All'
  BY DEF TypeOK
<1>1. ASSUME UNCHANGED <<wf, closed, req, attempts, current>> PROVE ServerOK'
  BY <1>0, <1>1
<1>2. ASSUME UNCHANGED <<steps, calls, toolsLeft, sent>> PROVE LoopOK'
  BY <1>0, <1>2
<1>3. ASSUME UNCHANGED <<cost, totals>> PROVE CostOK'
  BY <1>0, <1>3 DEF TotalsOK
<1>4. ASSUME UNCHANGED <<injected, disturbed>> PROVE FlagsOK'
  BY <1>0, <1>4
<1>5. ASSUME UNCHANGED <<failRate, slots, metrics, up, tries, crashes>> PROVE WorkerOK'
  BY <1>0, <1>5
<1>6. CASE Connect \/ ConnectFails \/ Restart
  <2>1. tries' \in 0..MaxTries
    <3>1. MaxTries \in Nat /\ tries \in 0..MaxTries
      BY <1>0, AgentAssumption
    <3>2. tries' = 0 \/ (tries < MaxTries /\ tries' = tries + 1)
      BY <1>6 DEF Connect, ConnectFails, Restart
    <3> QED
      BY <3>1, <3>2
  <2>2. WorkerOK'
    BY <1>0, <1>6, <2>1 DEF Connect, ConnectFails, Restart
  <2> QED
    BY <1>0, <1>1, <1>2, <1>3, <1>4, <1>6, <2>2 DEF Connect, ConnectFails, Restart
<1>7. CASE Crash
  <2>1. WorkerOK'
    <3>1. MaxCrashes \in Nat /\ crashes' = crashes + 1 /\ crashes < MaxCrashes
      BY <1>7, AgentAssumption DEF Crash
    <3>2. crashes' \in 0..MaxCrashes
      BY <1>0, <3>1
    <3>3. tries' \in 0..MaxTries
      BY <1>7, AgentAssumption DEF Crash
    <3> QED
      BY <1>0, <1>7, <3>2, <3>3 DEF Crash
  <2>2. pc' \in [Runs -> Places]
    BY <1>7 DEF Crash
  <2> QED
    BY <1>1, <1>2, <1>3, <1>4, <1>7, <2>1, <2>2 DEF Crash
<1>8. CASE PollEmpty \/ UNCHANGED vars
  BY <1>0, <1>1, <1>2, <1>3, <1>4, <1>5, <1>8 DEF PollEmpty, vars
<1>9. ASSUME NEW r \in Runs, StartWorkflow(r) PROVE All'
  <2>1. ServerOK'
    BY <1>0, <1>9 DEF StartWorkflow
  <2> QED
    BY <1>0, <1>2, <1>3, <1>4, <1>5, <1>9, <2>1 DEF StartWorkflow
<1>10. ASSUME NEW r \in Runs, Begin(r) PROVE All'
  <2>1. ServerOK'
    BY <1>0, <1>10 DEF Begin
  <2>2. LoopOK'
    BY <1>0, <1>00, <1>10 DEF Begin
  <2>3. CostOK'
    <3>1. NoUsage \in Usage /\ NoUsage["cached"] <= NoUsage["input"]
      BY DEF NoUsage, Usage
    <3>2. totals' = [totals EXCEPT ![r] = NoUsage] /\ UNCHANGED cost
      BY <1>10 DEF Begin
    <3> QED
      BY <1>0, <3>1, <3>2 DEF TotalsOK
  <2>4. FlagsOK'
    <3>1. disturbed' = [x \in Runs |-> IF x = r THEN FALSE ELSE disturbed[x] \/ InWorker(x)]
      BY <1>10 DEF Begin
    <3>2. \A x \in Runs : (IF x = r THEN FALSE ELSE disturbed[x] \/ InWorker(x)) \in BOOLEAN
      BY Zenon
    <3>3. disturbed' \in [Runs -> BOOLEAN]
      BY <3>1, <3>2
    <3> QED
      BY <1>0, <1>10, <3>3 DEF Begin
  <2>5. req[r].rate \in {"never", "sometimes", "always"}
    BY <1>0, AgentAssumption DEF NoRequest
  <2>6. WorkerOK'
    BY <1>0, <1>10, <2>5 DEF Begin, SetRate
  <2>7. pc' \in [Runs -> Places]
    BY <1>0, <1>10 DEF Begin
  <2> QED
    BY <2>1, <2>2, <2>3, <2>4, <2>6, <2>7
<1>11. ASSUME NEW r \in Runs,
              BuildModel(r) \/ LimitReached(r) \/ ModelFails(r) \/ Finish(r) \/ Cancelled(r)
       PROVE  All'
  <2>1. /\ UNCHANGED <<wf, closed, req, attempts, current, activityVars, sent, cost, injected,
                       disturbed, workerVars>>
        /\ \E p \in Places : pc' = [pc EXCEPT ![r] = p]
    BY <1>11
       DEF BuildModel, LimitReached, ModelFails, Finish, Cancelled, Raise, reportVars
  <2>2. pc' \in [Runs -> Places]
    BY <1>0, <2>1
  <2> QED
    BY <1>1, <1>2, <1>3, <1>4, <1>5, <2>1, <2>2
<1>12. ASSUME NEW r \in Runs, CallModel(r) PROVE All'
  <2>1. LoopOK'
    BY <1>0, <1>00, <1>12 DEF CallModel
  <2>2. pc' \in [Runs -> Places]
    BY <1>0, <1>12 DEF CallModel
  <2> QED
    BY <1>1, <1>3, <1>4, <1>5, <1>12, <2>1, <2>2 DEF CallModel
<1>13. ASSUME NEW r \in Runs, ModelReplies(r) PROVE All'
  <2>1. LoopOK' /\ pc' \in [Runs -> Places]
    <3>1. PICK n \in 0..MaxToolCalls :
            /\ toolsLeft' = [toolsLeft EXCEPT ![r] = n]
            /\ pc' = [pc EXCEPT ![r] = IF n = 0 THEN "answered" ELSE "tools"]
      BY <1>13 DEF ModelReplies
    <3>2. calls' = [calls EXCEPT ![r] = @ + 1] /\ UNCHANGED <<steps, sent>>
      BY <1>13 DEF ModelReplies
    <3> QED
      BY <1>0, <3>1, <3>2
  <2>2. CostOK'
    <3>1. PICK u \in Usages :
            /\ totals' = [totals EXCEPT ![r] = AddUsage(@, u)]
            /\ cost' = [cost EXCEPT ![r] = IF metrics THEN @ + EstimateCost(u) ELSE @]
      BY <1>13 DEF ModelReplies
    <3>2. totals[r] \in Usage /\ totals[r]["cached"] <= totals[r]["input"] /\ cost[r] \in Nat
      BY <1>0 DEF TotalsOK
    <3>3. /\ AddUsage(totals[r], u) \in Usage
          /\ AddUsage(totals[r], u)["cached"] <= AddUsage(totals[r], u)["input"]
          /\ EstimateCost(u) \in Nat
      BY <3>2, PriceAddsUp
    <3>4. TotalsOK'
      BY <1>0, <3>1, <3>3 DEF TotalsOK
    <3>5. cost' \in [Runs -> Nat]
      BY <1>0, <3>1, <3>2, <3>3
    <3> QED
      BY <3>4, <3>5
  <2> QED
    BY <1>1, <1>4, <1>5, <1>13, <2>1, <2>2 DEF ModelReplies
<1>14. ASSUME NEW r \in Runs, CallTool(r) PROVE All'
  <2>1. /\ toolsLeft[r] \in 0..MaxToolCalls /\ toolsLeft[r] > 0
        /\ steps[r] \in Nat /\ steps[r] + 1 <= RecursionLimit
    BY <1>0, <1>00, <1>14, AgentAssumption DEF CallTool, InStep
  <2>2. /\ toolsLeft' = [toolsLeft EXCEPT ![r] = @ - 1] /\ UNCHANGED <<calls, sent>>
        /\ steps' = [steps EXCEPT ![r] = @ + 1] \/ UNCHANGED steps
        /\ pc' = [pc EXCEPT ![r] = "model"] \/ UNCHANGED pc
    BY <1>14 DEF CallTool
  <2>3. LoopOK'
    BY <1>0, <1>00, <2>1, <2>2
  <2>4. FlagsOK'
    <3>1. PICK fails \in BOOLEAN : injected' = [injected EXCEPT ![r] = @ \/ fails]
      BY <1>14 DEF CallTool
    <3>2. (injected[r] \/ fails) \in BOOLEAN
      BY Zenon
    <3>3. injected' \in [Runs -> BOOLEAN]
      BY <1>0, <3>1, <3>2
    <3> QED
      BY <1>0, <1>14, <3>3 DEF CallTool
  <2>5. pc' \in [Runs -> Places]
    BY <1>0, <2>2
  <2> QED
    BY <1>1, <1>3, <1>5, <1>14, <2>3, <2>4, <2>5 DEF CallTool
<1>15. ASSUME NEW r \in Runs, Respond(r) \/ StartToCloseTimeout(r) PROVE All'
  <2>1. ServerOK'
    BY <1>0, <1>15 DEF Respond, StartToCloseTimeout, AttemptFailed
  <2>2. pc' \in [Runs -> Places]
    BY <1>0, <1>15 DEF Respond, StartToCloseTimeout
  <2>3. UNCHANGED <<activityVars, reportVars, disturbed, workerVars>>
    BY <1>15 DEF Respond, StartToCloseTimeout
  <2> QED
    BY <1>2, <1>3, <1>4, <1>5, <2>1, <2>2, <2>3
<1>16. ASSUME NEW r \in Runs, CloseWorkflow(r) PROVE All'
  <2>1. ServerOK'
    BY <1>0, <1>16 DEF CloseWorkflow
  <2> QED
    BY <1>0, <1>2, <1>3, <1>4, <1>5, <1>16, <2>1 DEF CloseWorkflow
<1> QED
  BY <1>6, <1>7, <1>8, <1>9, <1>10, <1>11, <1>12, <1>13, <1>14, <1>15, <1>16 DEF Next, InLoop
(* What is recorded stays a function on the runs, and is changed for the   *)
(* run that takes the step only.                                           *)
LEMMA NextOutcomes ==
    ASSUME IInv, [Next]_vars
    PROVE  /\ OutcomesOK'
           /\ UNCHANGED outcomes \/ \E r \in Runs : \E v : outcomes' = [outcomes EXCEPT ![r] = v]
<1>1. UNCHANGED outcomes \/ \E r \in Runs : \E v : outcomes' = [outcomes EXCEPT ![r] = v]
  BY DEF Next, InLoop, vars, reportVars, Connect, ConnectFails, Restart, Crash, PollEmpty,
         StartWorkflow, Begin, BuildModel,
         LimitReached, CallModel, ModelReplies, ModelFails, CallTool, Finish, Respond,
         StartToCloseTimeout, Cancelled, CloseWorkflow, Raise, RecordAgentRun
<1> QED
  BY <1>1 DEF IInv, OutcomesOK

(* Only the attempt that begins a run makes anything of it known.          *)
LEMMA NextNotBegun ==
    ASSUME IInv, [Next]_vars, NEW x \in Runs
    PROVE  NotBegun(x)'
<1> USE DEF activityVars, reportVars
<1>0. /\ NotBegun(x) /\ OneAttempt(x)
      /\ pc \in [Runs -> {"off", "build", "model", "llm", "tools", "answered", "done", "failed"}]
      /\ attempts \in [Runs -> Nat]
  BY DEF IInv, TypeOK
<1>1. ASSUME attempts'[x] = attempts[x], UNCHANGED <<sent, cost, totals, outcomes, injected>>
      PROVE  NotBegun(x)'
  BY <1>0, <1>1 DEF NotBegun
<1>2. CASE Connect \/ ConnectFails \/ Restart \/ Crash \/ PollEmpty \/ UNCHANGED vars
  BY <1>1, <1>2 DEF Connect, ConnectFails, Restart, Crash, PollEmpty, vars
<1>3. ASSUME NEW r \in Runs,
             StartWorkflow(r) \/ Respond(r) \/ StartToCloseTimeout(r) \/ Cancelled(r)
               \/ CloseWorkflow(r)
      PROVE  NotBegun(x)'
  BY <1>1, <1>3 DEF StartWorkflow, Respond, StartToCloseTimeout, Cancelled, CloseWorkflow
<1>4. ASSUME NEW r \in Runs, Begin(r) PROVE NotBegun(x)'
  <2>1. CASE x = r
    <3>1. attempts'[x] # 0
      BY <1>0, <1>4, <2>1 DEF Begin
    <3> QED
      BY <3>1 DEF NotBegun
  <2>2. CASE x # r
    <3>1. totals'[x] = totals[x] /\ attempts'[x] = attempts[x]
      BY <1>4, <2>2, <1>0 DEF Begin, IInv, TotalsOK
    <3> QED
      BY <1>0, <1>4, <3>1 DEF Begin, NotBegun
  <2> QED
    BY <2>1, <2>2
<1>5. ASSUME NEW r \in Runs,
             BuildModel(r) \/ LimitReached(r) \/ CallModel(r) \/ ModelReplies(r) \/ ModelFails(r)
               \/ CallTool(r) \/ Finish(r)
      PROVE  NotBegun(x)'
  <2>1. pc[r] # "off" /\ UNCHANGED attempts
    BY <1>5
       DEF BuildModel, LimitReached, CallModel, ModelReplies, ModelFails, CallTool, Finish
  <2>2. CASE x = r
    <3>1. attempts'[x] # 0
      BY <1>0, <2>1, <2>2 DEF OneAttempt, InWorker
    <3> QED
      BY <3>1 DEF NotBegun
  <2>3. CASE x # r
    <3>1. /\ totals'[x] = totals[x] /\ sent'[x] = sent[x] /\ cost'[x] = cost[x]
          /\ outcomes'[x] = outcomes[x] /\ injected'[x] = injected[x]
      <4>1. UNCHANGED outcomes \/ \E v : outcomes' = [outcomes EXCEPT ![r] = v]
        BY <1>5
           DEF BuildModel, LimitReached, CallModel, ModelReplies, ModelFails, CallTool, Finish,
               Raise, RecordAgentRun
      <4>2. UNCHANGED injected \/ \E v : injected' = [injected EXCEPT ![r] = v]
        BY <1>5
           DEF BuildModel, LimitReached, CallModel, ModelReplies, ModelFails, CallTool, Finish
      <4>3. UNCHANGED <<cost, totals>>
            \/ \E v, w : cost' = [cost EXCEPT ![r] = v] /\ totals' = [totals EXCEPT ![r] = w]
        BY <1>5
           DEF BuildModel, LimitReached, CallModel, ModelReplies, ModelFails, CallTool, Finish
      <4>4. UNCHANGED sent \/ sent' = [sent EXCEPT ![r] = @ + 1]
        BY <1>5
           DEF BuildModel, LimitReached, CallModel, ModelReplies, ModelFails, CallTool, Finish
      <4>5. /\ totals = [i \in Runs |-> totals[i]] /\ sent = [i \in Runs |-> sent[i]]
            /\ cost = [i \in Runs |-> cost[i]] /\ injected = [i \in Runs |-> injected[i]]
            /\ outcomes = [i \in Runs |-> outcomes[i]]
        BY DEF IInv, TypeOK, TotalsOK, OutcomesOK
      <4> QED
        BY <2>3, <4>1, <4>2, <4>3, <4>4, <4>5
    <3> QED
      BY <1>0, <2>1, <3>1 DEF NotBegun
  <2> QED
    BY <2>2, <2>3
<1> QED
  BY <1>2, <1>3, <1>4, <1>5 DEF Next, InLoop

(* The steps and the requests.                                             *)
LEMMA NextInStep ==
    ASSUME IInv, [Next]_vars, NEW x \in Runs
    PROVE  InStep(x)'
<1> USE RunTypes DEF activityVars, reportVars, InStep
<1>0. TypeOK /\ InStep(x) /\ OneAttempt(x) /\ NotBegun(x)
  BY DEF IInv
<1>00. MaxIterations \in Nat \ {0} /\ RecursionLimit = 2 * MaxIterations
       /\ \A r \in Runs : toolsLeft[r] \in Nat
  BY <1>0, AgentAssumption DEF RecursionLimit, TypeOK
<1>1. ASSUME UNCHANGED <<sent, steps, calls, toolsLeft>>,
             pc'[x] = pc[x] \/ pc'[x] \in {"off", "answered", "done", "failed"}
      PROVE  InStep(x)'
  BY <1>0, <1>1
<1>2. CASE Connect \/ ConnectFails \/ Restart \/ Crash \/ PollEmpty \/ UNCHANGED vars
  BY <1>1, <1>2 DEF Connect, ConnectFails, Restart, Crash, PollEmpty, vars
<1>3. ASSUME NEW r \in Runs,
             StartWorkflow(r) \/ Respond(r) \/ StartToCloseTimeout(r) \/ Cancelled(r)
               \/ LimitReached(r) \/ ModelFails(r) \/ Finish(r) \/ CloseWorkflow(r)
      PROVE  InStep(x)'
  <2>1. pc'[x] = pc[x] \/ pc'[x] \in {"off", "answered", "done", "failed"}
    BY <1>0, <1>3
       DEF StartWorkflow, Respond, StartToCloseTimeout, Cancelled, LimitReached, ModelFails, Finish,
           CloseWorkflow, Raise
  <2>2. UNCHANGED <<sent, steps, calls, toolsLeft>>
    BY <1>3
       DEF StartWorkflow, Respond, StartToCloseTimeout, Cancelled, LimitReached, ModelFails, Finish,
           CloseWorkflow
  <2> QED
    BY <1>1, <2>1, <2>2
<1>4. ASSUME NEW r \in Runs, Begin(r) PROVE InStep(x)'
  <2>1. attempts[r] = 0
    BY <1>4, BeginsOnce
  <2>2. sent[r] = 0
    BY <2>1 DEF IInv, NotBegun
  <2>3. CASE x = r
    BY <1>0, <1>00, <1>4, <2>2, <2>3 DEF Begin
  <2>4. CASE x # r
    BY <1>0, <1>4, <2>4 DEF Begin
  <2> QED
    BY <2>3, <2>4
<1>5. ASSUME NEW r \in Runs, BuildModel(r) PROVE InStep(x)'
  <2>1. pc[r] = "build" /\ UNCHANGED <<sent, steps, calls, toolsLeft>>
        /\ (pc' = [pc EXCEPT ![r] = "model"] \/ pc' = [pc EXCEPT ![r] = "failed"])
    BY <1>5 DEF BuildModel, Raise
  <2> QED
    BY <1>0, <2>1
<1>6. ASSUME NEW r \in Runs, CallModel(r) PROVE InStep(x)'
  <2>1. /\ pc[r] = "model" /\ steps[r] < RecursionLimit /\ UNCHANGED <<calls, toolsLeft>>
        /\ pc' = [pc EXCEPT ![r] = "llm"] /\ steps' = [steps EXCEPT ![r] = @ + 1]
        /\ sent' = [sent EXCEPT ![r] = @ + 1]
    BY <1>6 DEF CallModel
  <2>2. CASE x = r
    BY <1>0, <1>00, <2>1, <2>2
  <2>3. CASE x # r
    BY <1>0, <2>1, <2>3
  <2> QED
    BY <2>2, <2>3
<1>7. ASSUME NEW r \in Runs, ModelReplies(r) PROVE InStep(x)'
  <2>1. PICK n \in 0..MaxToolCalls :
          /\ toolsLeft' = [toolsLeft EXCEPT ![r] = n]
          /\ pc' = [pc EXCEPT ![r] = IF n = 0 THEN "answered" ELSE "tools"]
    BY <1>7 DEF ModelReplies
  <2>2. pc[r] = "llm" /\ calls' = [calls EXCEPT ![r] = @ + 1] /\ UNCHANGED <<steps, sent>>
    BY <1>7 DEF ModelReplies
  <2>3. CASE x = r
    BY <1>0, <1>00, <2>1, <2>2, <2>3
  <2>4. CASE x # r
    BY <1>0, <2>1, <2>2, <2>4
  <2> QED
    BY <2>3, <2>4
<1>8. ASSUME NEW r \in Runs, CallTool(r) PROVE InStep(x)'
  <2>1. /\ pc[r] = "tools" /\ toolsLeft' = [toolsLeft EXCEPT ![r] = @ - 1] /\ UNCHANGED <<calls, sent>>
        /\ IF toolsLeft[r] = 1
           THEN pc' = [pc EXCEPT ![r] = "model"] /\ steps' = [steps EXCEPT ![r] = @ + 1]
           ELSE UNCHANGED <<pc, steps>>
    BY <1>8 DEF CallTool
  <2>2. CASE x = r /\ toolsLeft[r] = 1
    BY <1>0, <1>00, <2>1, <2>2
  <2>3. CASE x = r /\ toolsLeft[r] # 1
    BY <1>0, <1>00, <2>1, <2>3
  <2>4. CASE x # r
    BY <1>0, <2>1, <2>4
  <2> QED
    BY <2>2, <2>3, <2>4
<1> QED
  BY <1>2, <1>3, <1>4, <1>5, <1>6, <1>7, <1>8 DEF Next, InLoop
(* Appending to no record makes the one there may be.                      *)
LEMMA FirstRecord == ASSUME NEW e PROVE Append(<<>>, e) = <<e>> /\ <<e>> # <<>> /\ <<e>>[1] = e
<1>1. <<>> \in Seq({e}) /\ e \in {e}
  OBVIOUS
<1> QED
  BY <1>1

(* What is recorded of a run.                                              *)
LEMMA NextRecorded ==
    ASSUME IInv, [Next]_vars, NEW x \in Runs, Recorded(x), \A t \in Errors : "recursion" \notin t
    PROVE  Recorded(x)'
<1> USE RunTypes DEF activityVars, reportVars, workerVars
<1>0. /\ TypeOK /\ InStep(x) /\ OneAttempt(x) /\ NotBegun(x) /\ Recorded(x)
      /\ outcomes = [r \in Runs |-> outcomes[r]] /\ totals = [r \in Runs |-> totals[r]]
      /\ cost = [r \in Runs |-> cost[r]]
  BY DEF IInv, OutcomesOK, TotalsOK, TypeOK
<1> DEFINE Kept == /\ outcomes'[x] = outcomes[x] /\ cost'[x] = cost[x] /\ totals'[x] = totals[x]
                   /\ calls'[x] = calls[x]
           Moved == pc'[x] = pc[x] \/ pc'[x] = "off" \/ (outcomes[x] = <<>> /\ pc'[x] # "done")
           Closed == wf'[x] # "completed" \/ wf[x] = "completed" \/ pc[x] = "done"
<1>1. ASSUME Kept, Moved, Closed, metrics' = metrics
      PROVE  Recorded(x)'
  <2>1. \A t : EstimateCost(t)' = EstimateCost(t)
    BY DEF EstimateCost
  <2>2. outcomes'[x] # <<>> =>
          /\ pc'[x] \in {"done", "failed", "off"}
          /\ outcomes'[x] = <<outcomes'[x][1]>>
          /\ outcomes'[x][1][1] = "max_iterations" => calls'[x] = MaxIterations
    BY <1>0, <1>1 DEF Recorded
  <2>3. metrics' =>
          /\ pc'[x] = "done" \/ wf'[x] = "completed" => outcomes'[x] = <<<<"completed", "end_turn">>>>
          /\ cost'[x] = EstimateCost(totals'[x])
    BY <1>0, <1>1 DEF Recorded
  <2> QED
    BY <2>2, <2>3 DEF Recorded, EstimateCost
<1> HIDE DEF Kept, Moved, Closed
<1>2. CASE Connect \/ ConnectFails \/ Restart \/ Crash \/ PollEmpty \/ UNCHANGED vars
  <2>1. UNCHANGED <<outcomes, cost, totals, calls, wf>> /\ metrics' = metrics
    BY <1>2 DEF Connect, ConnectFails, Restart, Crash, PollEmpty, vars
  <2>2. pc'[x] = pc[x] \/ pc'[x] = "off"
    BY <1>2 DEF Connect, ConnectFails, Restart, Crash, PollEmpty, vars
  <2>3. Kept /\ Moved /\ Closed
    BY <2>1, <2>2 DEF Kept, Moved, Closed
  <2> QED
    BY <1>1, <2>1, <2>3
<1>3. ASSUME NEW r \in Runs,
             StartWorkflow(r) \/ StartToCloseTimeout(r) \/ Cancelled(r) \/ Respond(r)
               \/ CloseWorkflow(r)
      PROVE  Recorded(x)'
  <2>1. Moved
    BY <1>0, <1>3
       DEF StartWorkflow, StartToCloseTimeout, Cancelled, Respond, CloseWorkflow, Moved
  <2>2. Closed
    BY <1>0, <1>3
       DEF StartWorkflow, StartToCloseTimeout, AttemptFailed, Cancelled, Respond, CloseWorkflow,
           Closed
  <2>3. Kept /\ metrics' = metrics
    BY <1>3
       DEF StartWorkflow, StartToCloseTimeout, Cancelled, Respond, CloseWorkflow, Kept
  <2> QED
    BY <1>1, <2>1, <2>2, <2>3
<1>4. ASSUME NEW r \in Runs, Begin(r) PROVE Recorded(x)'
  <2>1. CASE x = r
    <3>1. attempts[r] = 0 /\ wf[r] = "running" /\ UNCHANGED <<wf, outcomes, cost>>
      BY <1>4, BeginsOnce DEF Begin
    <3>2. outcomes[r] = <<>> /\ cost[r] = 0
      BY <1>0, <2>1, <3>1 DEF NotBegun
    <3>3. totals'[r] = NoUsage /\ pc'[r] = "build"
      BY <1>0, <1>4 DEF Begin
    <3>4. EstimateCost(NoUsage) = 0
      BY AgentAssumption DEF EstimateCost, NoUsage
    <3> QED
      BY <2>1, <3>1, <3>2, <3>3, <3>4 DEF Recorded, EstimateCost
  <2>2. CASE x # r
    <3>1. Kept /\ Moved /\ Closed
      BY <1>0, <1>4, <2>2 DEF Begin, Kept, Moved, Closed
    <3> QED
      BY <1>1, <1>4, <3>1 DEF Begin
  <2> QED
    BY <2>1, <2>2
<1>5. ASSUME NEW r \in Runs, CallModel(r) \/ CallTool(r) \/ (BuildModel(r) /\ UNCHANGED outcomes)
      PROVE  Recorded(x)'
  <2>1. UNCHANGED <<outcomes, metrics, cost, totals, calls, wf>>
    BY <1>5 DEF CallModel, CallTool, BuildModel
  <2>2. /\ pc[r] \in {"model", "tools", "build"}
        /\ \E p \in {"llm", "model", "tools", "failed"} : pc' = [pc EXCEPT ![r] = p]
    BY <1>0, <1>5 DEF CallModel, CallTool, BuildModel, Raise
  <2>3. Moved
    <3>1. x = r => outcomes[x] = <<>>
      BY <1>0, <2>2 DEF Recorded
    <3>2. x = r => pc'[x] # "done"
      BY <1>0, <2>2
    <3>3. x # r => pc'[x] = pc[x]
      BY <1>0, <2>2
    <3> QED
      BY <3>1, <3>2, <3>3 DEF Moved
  <2>4. Kept /\ Closed /\ metrics' = metrics
    BY <2>1 DEF Kept, Closed
  <2> QED
    BY <1>1, <2>3, <2>4
<1>6. ASSUME NEW r \in Runs, ModelReplies(r) PROVE Recorded(x)'
  <2>1. PICK u \in Usages :
          /\ totals' = [totals EXCEPT ![r] = AddUsage(@, u)]
          /\ cost' = [cost EXCEPT ![r] = IF metrics THEN @ + EstimateCost(u) ELSE @]
    BY <1>6 DEF ModelReplies
  <2>2. /\ UNCHANGED <<outcomes, metrics, wf>> /\ pc[r] = "llm"
        /\ \E p \in {"answered", "tools"} : pc' = [pc EXCEPT ![r] = p]
        /\ calls' = [calls EXCEPT ![r] = @ + 1]
    BY <1>6 DEF ModelReplies
  <2>3. CASE x # r
    <3>1. Kept /\ Moved /\ Closed /\ metrics' = metrics
      BY <1>0, <2>1, <2>2, <2>3 DEF Kept, Moved, Closed
    <3> QED
      BY <1>1, <3>1
  <2>4. CASE x = r
    <3>1. outcomes[r] = <<>> /\ outcomes'[r] = <<>> /\ wf[r] # "completed" /\ pc'[r] # "done"
      BY <1>0, <2>2, <2>4 DEF Recorded, OneAttempt, InWorker
    <3>2. totals[r] \in Usage /\ totals[r]["cached"] <= totals[r]["input"]
      BY DEF IInv, TotalsOK
    <3>3. EstimateCost(AddUsage(totals[r], u)) = EstimateCost(totals[r]) + EstimateCost(u)
      BY <3>2, PriceAddsUp
    <3>4. ASSUME metrics PROVE cost'[r] = EstimateCost(totals'[r])
      <4>1. cost[r] = EstimateCost(totals[r])
        BY <1>0, <2>4, <3>4 DEF Recorded
      <4>2. cost'[r] = cost[r] + EstimateCost(u) /\ totals'[r] = AddUsage(totals[r], u)
        BY <1>0, <2>1, <3>4
      <4> QED
        BY <3>3, <4>1, <4>2
    <3> QED
      BY <2>2, <2>4, <3>1, <3>4 DEF Recorded, EstimateCost
  <2> QED
    BY <2>3, <2>4
<1>7. ASSUME NEW r \in Runs, NEW e, pc[r] \notin {"done", "failed", "off"},
             outcomes' = IF metrics THEN [outcomes EXCEPT ![r] = Append(@, e)] ELSE outcomes,
             NEW p \in {"done", "failed"}, pc' = [pc EXCEPT ![r] = p],
             UNCHANGED <<metrics, cost, totals, calls, wf>>,
             p = "done" => e = <<"completed", "end_turn">>,
             e[1] = "max_iterations" => calls[r] = MaxIterations
      PROVE  Recorded(x)'
  <2>1. CASE x # r
    <3>1. outcomes'[x] = outcomes[x]
      BY <1>0, <1>7, <2>1
    <3>2. Kept /\ Moved /\ Closed /\ metrics' = metrics
      BY <1>0, <1>7, <2>1, <3>1 DEF Kept, Moved, Closed
    <3> QED
      BY <1>1, <3>2
  <2>2. CASE x = r
    <3>1. outcomes[r] = <<>> /\ wf[r] # "completed" /\ pc'[r] = p
      BY <1>0, <1>7, <2>2 DEF Recorded, OneAttempt, InWorker
    <3>2. metrics => outcomes'[r] = <<e>>
      BY <1>0, <1>7, <3>1, FirstRecord
    <3>3. ~metrics => outcomes'[r] = <<>>
      BY <1>7, <3>1
    <3>4. outcomes'[x] # <<>> =>
            /\ pc'[x] \in {"done", "failed", "off"}
            /\ outcomes'[x] = <<outcomes'[x][1]>>
            /\ outcomes'[x][1][1] = "max_iterations" => calls'[x] = MaxIterations
      BY <1>7, <2>2, <3>1, <3>2, <3>3, FirstRecord
    <3>5. metrics =>
            /\ pc'[x] = "done" \/ wf'[x] = "completed" => outcomes'[x] = <<<<"completed", "end_turn">>>>
            /\ cost'[x] = EstimateCost(totals'[x])
      BY <1>0, <1>7, <2>2, <3>1, <3>2 DEF Recorded
    <3> QED
      BY <1>7, <3>4, <3>5 DEF Recorded, EstimateCost
  <2> QED
    BY <2>1, <2>2
<1>8. ASSUME NEW r \in Runs, Finish(r) PROVE Recorded(x)'
  <2>1. <<"completed", "end_turn">>[1] # "max_iterations"
    OBVIOUS
  <2> QED
    BY <1>7, <1>8, <2>1 DEF Finish, RecordAgentRun
<1>9. ASSUME NEW r \in Runs, NEW t, Raise(r, t), "recursion" \in t => calls[r] = MaxIterations,
             pc[r] \notin {"done", "failed", "off"},
             UNCHANGED <<metrics, cost, totals, calls, wf>>
      PROVE  Recorded(x)'
  <2> DEFINE e == <<IF "recursion" \in t THEN "max_iterations" ELSE "error", ClassifyError(t)>>
  <2>1. e[1] = "max_iterations" => calls[r] = MaxIterations
    BY <1>9
  <2>2. outcomes' = IF metrics THEN [outcomes EXCEPT ![r] = Append(@, e)] ELSE outcomes
    BY <1>9 DEF Raise, RecordAgentRun
  <2>3. pc' = [pc EXCEPT ![r] = "failed"]
    BY <1>9 DEF Raise
  <2> HIDE DEF e
  <2> QED
    BY <1>7, <1>9, <2>1, <2>2, <2>3
<1>10. ASSUME NEW r \in Runs, BuildModel(r), ~UNCHANGED outcomes PROVE Recorded(x)'
  <2>1. Raise(r, UnknownProvider) /\ pc[r] = "build" /\ UNCHANGED <<metrics, cost, totals, calls, wf>>
    BY <1>10 DEF BuildModel
  <2>2. "recursion" \notin UnknownProvider
    BY DEF UnknownProvider
  <2> QED
    BY <1>9, <2>1, <2>2
<1>11. ASSUME NEW r \in Runs, LimitReached(r) PROVE Recorded(x)'
  <2>1. /\ Raise(r, RecursionError) /\ pc[r] = "model" /\ steps[r] >= RecursionLimit
        /\ UNCHANGED <<metrics, cost, totals, calls, wf>>
    BY <1>11 DEF LimitReached
  <2>2. calls[r] = MaxIterations
    <3>1. steps[r] = 2 * sent[r] /\ calls[r] = sent[r] /\ sent[r] <= MaxIterations /\ sent[r] \in Int
      BY <1>0, <2>1 DEF InStep, IInv
    <3>2. MaxIterations \in Nat /\ RecursionLimit = 2 * MaxIterations
      BY AgentAssumption DEF RecursionLimit
    <3> QED
      BY <2>1, <3>1, <3>2
  <2> QED
    BY <1>9, <2>1, <2>2
<1>12. ASSUME NEW r \in Runs, ModelFails(r) PROVE Recorded(x)'
  <2>1. PICK t \in Errors : Raise(r, t)
    BY <1>12 DEF ModelFails
  <2>2. pc[r] = "llm" /\ UNCHANGED <<metrics, cost, totals, calls, wf>>
    BY <1>12 DEF ModelFails
  <2> QED
    BY <1>9, <2>1, <2>2
<1> QED
  BY <1>2, <1>3, <1>4, <1>5, <1>6, <1>8, <1>10, <1>11, <1>12 DEF Next, InLoop

(* The rate and the failures it makes.                                     *)
LEMMA NextOwnRate ==
    ASSUME IInv, [Next]_vars, NEW x \in Runs
    PROVE  OwnRate(x)'
<1> USE RunTypes DEF activityVars, reportVars, workerVars, InWorker
<1>0. /\ TypeOK /\ OneAttempt(x) /\ NotBegun(x) /\ OwnRate(x)
      /\ injected \in [Runs -> BOOLEAN] /\ disturbed \in [Runs -> BOOLEAN]
  BY DEF IInv, TypeOK
<1>1. ASSUME UNCHANGED <<injected, disturbed, req, failRate>>, pc'[x] = pc[x] \/ pc[x] # "off" \/ pc'[x] = "off"
      PROVE  OwnRate(x)'
  BY <1>0, <1>1 DEF OwnRate
<1>2. CASE Restart
  <2>1. ~up /\ pc[x] = "off"
    BY <1>0, <1>2 DEF Restart, OneAttempt
  <2> QED
    BY <1>0, <1>2, <2>1 DEF Restart, OwnRate
<1>3. CASE Connect \/ ConnectFails \/ Crash \/ PollEmpty \/ UNCHANGED vars
  BY <1>0, <1>1, <1>3 DEF Connect, ConnectFails, Crash, PollEmpty, vars
<1>4. ASSUME NEW r \in Runs, StartWorkflow(r) PROVE OwnRate(x)'
  <2>1. CASE x = r
    <3>1. attempts[x] = 0 /\ pc[x] = "off" /\ ~injected[x]
      BY <1>0, <1>4, <2>1 DEF StartWorkflow, OneAttempt, NotBegun
    <3>2. UNCHANGED <<pc, injected>>
      BY <1>4 DEF StartWorkflow
    <3> QED
      BY <3>1, <3>2 DEF OwnRate
  <2>2. CASE x # r
    BY <1>0, <1>4, <2>2 DEF StartWorkflow, OwnRate
  <2> QED
    BY <2>1, <2>2
<1>5. ASSUME NEW r \in Runs, Begin(r) PROVE OwnRate(x)'
  <2>1. /\ failRate' = req[r].rate /\ UNCHANGED <<req, injected>>
        /\ disturbed'[x] = (IF x = r THEN FALSE ELSE disturbed[x] \/ pc[x] # "off")
    BY <1>5 DEF Begin, SetRate
  <2>2. CASE x = r
    <3>1. attempts[x] = 0
      BY <1>5, <2>2, BeginsOnce
    <3>2. ~injected[x]
      BY <1>0, <3>1 DEF NotBegun
    <3> QED
      BY <2>1, <2>2, <3>2 DEF OwnRate
  <2>3. CASE x # r
    <3>1. pc'[x] = pc[x]
      BY <1>0, <1>5, <2>3 DEF Begin
    <3> QED
      BY <1>0, <2>1, <2>3, <3>1 DEF OwnRate
  <2> QED
    BY <2>2, <2>3
<1>6. ASSUME NEW r \in Runs,
             BuildModel(r) \/ LimitReached(r) \/ CallModel(r) \/ ModelReplies(r) \/ ModelFails(r)
               \/ Finish(r) \/ Respond(r) \/ StartToCloseTimeout(r) \/ Cancelled(r)
               \/ CloseWorkflow(r)
      PROVE  OwnRate(x)'
  <2>1. UNCHANGED <<injected, disturbed, req, failRate>>
    BY <1>6
       DEF BuildModel, LimitReached, CallModel, ModelReplies, ModelFails, Finish, Respond,
           StartToCloseTimeout, Cancelled, CloseWorkflow
  <2>2. pc'[x] = pc[x] \/ pc[x] # "off" \/ pc'[x] = "off"
    BY <1>0, <1>6
       DEF BuildModel, LimitReached, CallModel, ModelReplies, ModelFails, Finish, Respond,
           StartToCloseTimeout, Cancelled, CloseWorkflow, Raise
  <2> QED
    BY <1>1, <2>1, <2>2
<1>7. ASSUME NEW r \in Runs, CallTool(r) PROVE OwnRate(x)'
  <2>1. PICK fails \in BOOLEAN : ToolMayFail(fails) /\ injected' = [injected EXCEPT ![r] = @ \/ fails]
    BY <1>7 DEF CallTool
  <2>2. UNCHANGED <<disturbed, req, failRate>> /\ pc[r] = "tools"
        /\ (pc' = [pc EXCEPT ![r] = "model"] \/ UNCHANGED pc)
    BY <1>7 DEF CallTool
  <2>3. pc'[x] # "off" => pc[x] # "off"
    BY <1>0, <2>2
  <2>4. CASE injected'[x] = injected[x]
    BY <1>0, <2>2, <2>3, <2>4 DEF OwnRate
  <2>5. CASE x = r /\ fails
    <3>1. failRate # "never"
      BY <2>1, <2>5 DEF ToolMayFail
    <3>2. ~disturbed[x] => req[x].rate # "never"
      BY <1>0, <2>2, <2>5, <3>1 DEF OwnRate
    <3> QED
      BY <1>0, <2>2, <2>3, <3>2 DEF OwnRate
  <2>6. CASE ~(x = r /\ fails)
    <3>1. injected'[x] = injected[x]
      BY <1>0, <2>1, <2>6
    <3> QED
      BY <2>4, <3>1
  <2> QED
    BY <2>5, <2>6
<1> QED
  BY <1>2, <1>3, <1>4, <1>5, <1>6, <1>7 DEF Next, InLoop
---------------------------------------------------------------------------
(* Every step keeps the invariant, and every behaviour.                    *)
LEMMA NextIInv == IInv /\ [Next]_vars => IInv'
<1> SUFFICES ASSUME IInv, [Next]_vars PROVE IInv'
  OBVIOUS
<1>1. TypeOK' /\ TotalsOK' /\ OutcomesOK'
  BY NextType, NextOutcomes
<1>2. \A r \in Runs : OneAttempt(r)' /\ NotBegun(r)' /\ InStep(r)' /\ OwnRate(r)'
  BY NextOneAttempt, NextNotBegun, NextInStep, NextOwnRate
<1> QED
  BY <1>1, <1>2 DEF IInv

(* So every state of every behaviour satisfies it.                         *)
LEMMA Invariance == Spec => []IInv
<1>1. Init => IInv
  BY InitIInv
<1> QED
  BY <1>1, NextIInv, PTL DEF Spec

(* The state of the Workflows and of the Worker keeps its types.           *)
THEOREM PyAgentTypeOK == Spec => []TypeOK
<1>1. IInv => TypeOK
  BY DEF IInv
<1> QED
  BY <1>1, Invariance, PTL

(* A Workflow pays for at most one loop, whatever crashes, times out or    *)
(* answers late: the single attempt and the recursion limit together       *)
(* (workflow.py, "ONE ATTEMPT, DELIBERATELY").                             *)
THEOREM PyAgentPaidOnce == Spec => []PaidOnce
<1>1. IInv => PaidOnce
  BY DEF IInv, InStep, PaidOnce
<1> QED
  BY <1>1, Invariance, PTL

(* An injected failure reaches a run that asked for none only when another *)
(* run began while it was in the Worker (agent.py:231).                    *)
THEOREM PyAgentInjected == Spec => []InjectedAsAsked
<1>1. IInv => InjectedAsAsked
  BY DEF IInv, OwnRate, InjectedAsAsked
<1> QED
  BY <1>1, Invariance, PTL

(* A run is recorded at most once and as what it came to, and its cost is  *)
(* the price of its totals, for all usages and prices.  An error of the    *)
(* provider that speaks of recursion would be taken for the loop's own     *)
(* limit (agent.py:278), hence the hypothesis.                             *)
THEOREM PyAgentRecorded ==
    ASSUME \A t \in Errors : "recursion" \notin t
    PROVE  Spec => []RecordedHonestly
<1> DEFINE RInv == \A r \in Runs : Recorded(r)
<1>1. Init => RInv
  BY InitIInv
<1>2. IInv /\ RInv /\ [Next]_vars => RInv'
  BY NextRecorded
<1>3. IInv /\ RInv => RecordedHonestly
  <2> SUFFICES ASSUME IInv, RInv, metrics, NEW r \in Runs
               PROVE  /\ Len(outcomes[r]) <= 1
                      /\ wf[r] = "completed" => outcomes[r] = <<<<"completed", "end_turn">>>>
                      /\ \A i \in DOMAIN outcomes[r] :
                           outcomes[r][i][1] = "max_iterations" => calls[r] = MaxIterations
                      /\ wf[r] = "completed" => cost[r] = EstimateCost(totals[r])
    BY DEF RecordedHonestly
  <2>1. Recorded(r)
    OBVIOUS
  <2>2. CASE outcomes[r] = <<>>
    BY <2>1, <2>2 DEF Recorded
  <2>3. CASE outcomes[r] # <<>>
    <3>1. PICK e : outcomes[r] = <<e>>
      BY <2>1, <2>3 DEF Recorded
    <3>2. Len(<<e>>) = 1 /\ DOMAIN <<e>> = 1..1 /\ <<e>>[1] = e
      OBVIOUS
    <3> QED
      BY <2>1, <2>3, <3>1, <3>2 DEF Recorded
  <2> QED
    BY <2>2, <2>3
<1> HIDE DEF RInv
<1>4. Init => IInv
  BY InitIInv
<1> QED
  BY <1>1, <1>2, <1>3, <1>4, NextIInv, PTL DEF Spec
===========================================================================
