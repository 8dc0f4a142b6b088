# Temporal SLO demo: specifications

TLA+ models of the programs in this repository that have behaviour worth
checking: the SLO monitor (`monitor/`) and the rules that turn its gauges and
the server's counters into alerts (`tools/generate_*_rules.py`), the tuning lab
(`demo/lab/`), the agent Workflow of the demo application (`demo/app/`), the
Python agent (`demo/agent-python/`), and the generated dashboards (`tools/`).
Every module is translated from the source; `PROJECT.json` names, for every
definition, the lines it stands for. Paths below are relative to the repository
root.

To check one configuration, run TLC on the MC module with the cfg, for example
`tlc -config MCFastPoll.cfg MCFastPoll`. To check the proofs, run `tlapm` on the
eight `*Proofs` modules.

## 1. The system

| Component | State it keeps | Operations | Talks to |
|---|---|---|---|
| SLO monitor, poll loops (`monitor/internal/monitor`) | gauges, freshness stamps, `stuckAvailable`, `probePending` | `Run`, `pollFast`, `pollWindow`, `probeStuckDetection` | count queries to Visibility; scraped by Prometheus |
| Visibility queries (`monitor/internal/visibility/query.go`, `counter`) | none | query builders, `Client.Count` | the Temporal server |
| Percentile search (`visibility/percentile.go`) | the interval, the query count, the results | `DurationPercentiles` | `Counter`; called by `budget-derive` |
| `budget-derive` (`monitor/cmd/budget-derive`) | calls made, types seen | `Count` with back-off, `discoverTypes`, `proposeBudget`, rendering | Visibility; writes a starter config |
| Monitor configuration (`monitor/internal/config`) | none after start | `Load`, `Validate` | - |
| Recording and alert rules (`tools/generate_*_rules.py`, `promql_guards.py`) | recorded series, pending alerts | rule groups of four SLO bundles; the rules over the monitor's gauges | Prometheus evaluates them |
| Lab controller (`demo/lab/controller.go`) | per lane: configuration, version, limiter, reports, load; history and subscribers | HTTP handlers, `setConfig`, `loadLoop`, `snapshotLoop`, `handleStream` | Workers poll it for configuration and report to it |
| Lab limiter (`controller.go`, `limiter`) | limit, inflight, waiting | `acquire`, `release`, `setLimit` | Activities of both Workers call it over HTTP |
| Lab Worker, Go (`demo/lab/worker.go`, `telemetry.go`) | running Worker, applied version, cache size, gauges per instance | `configLoop`, `apply`, `swap`, `reportLoop` | controller, Temporal server |
| Lab Worker, Python (`demo/lab/pyworker`) | the same on one event loop | `config_loop`, `apply`, `swap`, `report_loop` | the same |
| Agent Workflow (`demo/app/agent_*.go`) | conversation, usage, result; Activity state at the server | `AgentWorkflow`, `InvokeModel`, `RunAgentTool`, `ReportAgentRun` | model providers, metrics |
| Python agent (`demo/agent-python`) | the loop and callback of each run, one failure rate for all | `run_langchain_agent`, `init_metrics`, `record_*` | Temporal server, model providers |
| Dashboards (`tools/generate_*.py`, `add_poll_outcome_panels.py`, CI) | the boards in the tree | generators, post-processor, the job that regenerates and compares | Grafana |
| Order Workflow and demo API | order progress | three Activities, chaos switches | Temporal server |
| Namespace provisioning (`terraform/modules/namespace-selfhosted`) | a namespace and its search attributes, at the server | `nsctl.sh read/create/update/delete/attrs` | Temporal CLI, Terraform |
| Deployment, load and chaos scripts | none | operator commands | Docker, AWS |

What is hard in it, and what would make each part correct:

- *The monitor* reads a store that changes between the queries of one poll, with
  queries that fail one by one, on one goroutine that serves two tickers. A
  published set of terms must come from one poll, count nothing twice, and lose
  a late execution only by its closing inside the poll. A stamp must vouch for
  every gauge of its kind. A transient error must not be taken for a missing
  capability. Neither loop may starve the other, and cancellation must end it.
- *The rules* see gauges and counters that may be absent, stale, or of two
  evaluations. An outage in which no success was ever counted must still alert;
  an alert must end with its incident; a budget must not look better than it is;
  and the failure of the monitor itself must show.
- *The percentile search* compares counts of a growing store with a rank from an
  older one, in an interval it may not finish halving. Its result becomes a
  budget, so it must cover what it claims, and must not claim to be exact when
  it is not.
- *The lab* rolls a configuration out to a process that swaps its Worker under
  load, restarts itself on purpose, crashes, and reports over a connection that
  loses and reorders. "Applied" must mean applied; a swap must leave the Task Queue
  without a poller for no longer than its SDK needs; a replaced Worker must not be
  counted for ever.
- *The limiter* broadcasts after unlocking: no waiter may be left asleep beside
  a free place.
- *The agents* run tool calls that fail, ask providers that bill for lost
  answers, and crash. One retries what can be retried and is replayed by code
  and an environment other than those it started under; the other has a single
  attempt, and shares a global between runs.
- *The dashboards* are files that must equal what two scripts produce in one
  order, and that people edit by hand.

The hazards themselves are in `PROJECT.json`, each at its line, with the
properties that would catch it or the reason none does.

## 2. Modules

| Module | Models | Extends / instantiates |
|---|---|---|
| `Visibility` | the store of executions, the queries as sets, one call of `count` | - |
| `WindowPoll` | `pollWindow`, one step per query and per gauge assignment | `Visibility` |
| `FastPoll` | `pollFast`, `probeStuckDetection` | `Visibility` |
| `SLOMonitor` | `Run`: probe, first polls, select over two tickers and cancellation | `FastPoll`, `WindowPoll` |
| `PromQL` | absent series, guards, `rate` and averages over a window | - |
| `VisibilityRules` | the rules of `generate_visibility_rules.py`, as operators | `PromQL` |
| `WindowRules`, `FastRules` | each poll composed with the rules over its gauges | `WindowPoll` / `FastPoll`, `VisibilityRules` |
| `SLORules` | the four SLO bundles: three rule groups, any order | `PromQL` |
| `PercentileSearch` | `DurationPercentiles`, one step per query | - |
| `Rollout` | what a lane promises about a new configuration (abstract) | - |
| `LabController` | one lane of the controller: configuration, limit, reports, restart | - |
| `GoLabWorker`, `PyLabWorker` | the lane's Worker in each language, composed with the lane | `LabController`; each an implementation of `Rollout` |
| `Limiter` | the condition variable of the lab's dependency | - |
| `AgentWorkflow` | one agent run, its Activities at the server, rollouts | - |
| `PyAgent` | runs of the Python agent on one Worker | - |
| `BoardLayouts` | the panels four generators lay out, section by section | - |
| `Boards` | generators, post-processor, hand edits, CI and merges | `BoardLayouts` |
| `MonitorProofs` | theorems about each poll, the alerts on its gauges, and `Run`, which implements both | `SLOMonitor`, `WindowRules`, `FastRules` |
| `ToolsProofs` | theorems about the rule groups and about the boards | `SLORules`, `Boards` |
| `LimiterProofs`, `PercentileSearchProofs`, `GoLabWorkerProofs`, `PyLabWorkerProofs`, `AgentWorkflowProofs`, `PyAgentProofs` | theorems | the module they are about |

How state and actions correspond to the code:

- **Visibility.** An execution is a member of `Execs` with a status, a start and
  a close time. A query is the set it selects; its cutoff is truncated to the
  second as in `query.go`. `StartExecution`, `CloseExecution` and `Advance` are
  the environment and may happen between any two queries. `CountSucceeds` and
  `CountFails` are the two outcomes of `count`; after cancellation every call
  fails and none is counted as a poll error.
- **WindowPoll.** `wpc` is the place in the loop body; `reply` holds `in`, `over`
  and `open`. A gauge is kept with the instant of its poll, which the code does
  not keep: properties read it, no guard does. A failed term leads to
  `SkipPublish`, which leaves all three gauges as they are.
- **FastPoll.** `idx` and `allOK` are those of the two inner loops; `EndQuery` is
  one turn of such a loop with the stamp after its last query. `fallback` is
  `stuck_detection: fallback`, `supported` whether the server has the attribute.
- **SLOMonitor.** A ticker is one bit, since its channel holds one tick and drops
  the rest. `phase` is the place in `Run`; a poll in progress is seen from `fpc`
  and `wpc`. The actions of the polls are those of their own modules, whose
  specifications are called `WindowSpec` and `FastSpec`; `Spec` is `Run`.
- **PromQL, VisibilityRules.** An instant vector over one label set has at most
  one sample: a number, or `Absent`. A binary operator on an absent operand is
  absent, which is what the guards of `promql_guards.py` are for. A ratio is a
  pair, with denominator 0 for "no sample" and for NaN. `rate` is the increments
  of its range: extrapolation to the edges, and the first increment of a newborn
  counter, which Prometheus does not see, are left out.
- **WindowRules, FastRules.** A scrape may come in any state of the poll; the
  rules are operators over what it finds. "for" is not counted: a property about
  an alert that stays says so with `<>[]`.
- **SLORules.** `samples` is what the scrapes found, `events`, `ratio` and `burn`
  the recorded series, `held` how long a condition has held. Each of the three
  groups runs once per interval, in any order, as Prometheus evaluates the
  groups of one file concurrently. The SLIs, windows, factors and holds are those
  of the four generators; `sli` picks one. A recording looks back on the samples of
  five minutes, several intervals, so the recordings of a window overlap; each
  carries what really happened in its five minutes, for the properties only. The
  demo's `workflow_completion` has the denominator its generator clamps to 0.001 per
  second (`Least`, in thousandths of an event of the window). The cloud's gauges are
  averaged over the samples there are, in units of 1/`Unit`.
- **PercentileSearch.** `closed` is the store, `counted` what it was when `total`
  was taken (kept for the properties). Percentiles are thousandths, and the ceiling
  of `total * p` is exact where the code has `math.Ceil` of a float64 product. Executions do not leave the store: retention
  is assumed longer than the lookback.
- **LabController.** A configuration is `opts` (what a swap is needed for),
  `cache` (what a Go Worker must restart for) and `io` (what takes effect at
  once). `SetConfig` is the locked part of `setConfig`, `SetLimit` the part after
  the unlock. A report carries what the Worker was really built with beside the
  version it claims, for the properties only. `givenOut` is the highest version any
  controller before this one gave out; the version on show is `Unambiguous` above it.
- **GoLabWorker.** `pc` is the place in `configLoop`/`apply`; `Apply` exits the
  process when the cache size changes. `gauged` is the instances with values in the
  aggregator, `instance` the life of each SDK Worker the process made: it polls,
  drains once `Stop` is called, and then `Stop` has returned, with its Activities
  ended (`stopped`) or with the 30 seconds over and one still running (`overran`).
  `DropInstance` comes after that, and leaves nothing (`gone`) or an Activity that
  may still update the gauges (`adrift`).
- **PyLabWorker.** Between two awaits nothing else runs, so `Swap` records the
  new Worker, configuration and version in one step and tells the old one to shut
  down. The new one's `run()` is then only a task: `starting` until it has validated
  its namespace, `polling` after that, `failed` if it raised. `buffer` is the SDK's
  metric buffer, whose updates carry no Worker; `gauge` is what `Telemetry.gauges`
  holds after a drain of it.
- **Rollout.** No code of its own: `want`, `shown`, `built`, `current` and `poller`
  are what both lanes let a viewer see, `raised` the `run()` tasks that have raised.
  The Go lane has `Overlaps`: the new Worker polls before the old one stops. `poller`
  tells a Worker that polls from one that is starting and from none, and an
  implementation may lose it only in the ways `Rollout` names. `trusted` is the limit
  of its other promise: a version that no controller gave out before.
- **Limiter.** A request is new, asleep, woken, served or done; `pending` holds
  the broadcasts that come after an unlock.
- **AgentWorkflow.** Each action of `Decide` is what the Workflow does between
  two waits. An Activity is its state at the server: scheduled, ran (its effect
  has happened, its completion has not arrived), done or failed; `Ends` is the
  server completing it, timing it out, retrying it or giving up. A rollout
  changes the default model and forces a replay. `unversioned` is a run that was
  started before the model was recorded in a side effect. `invocations` counts the
  calls of the provider's client the Activity makes; the clients are built with
  their own default retries (`agent_anthropic.go:39`, `agent_openai.go:55`), which are
  below the model, so an invocation may be several HTTP requests.
- **PyAgent.** `pc` is where a run's Activity is in `run_langchain_agent`, with
  LangGraph's steps counted as its recursion limit counts them. The server's
  side is `wf`, `attempts`, `current` and `closed`: a Workflow whose Activity has an
  outcome closes when a Worker takes its Workflow Task. An Activity the server has
  given up may run on in the Worker and answer too late. `sent` counts LangChain's
  model calls; the retries inside one (the clients' default `max_retries`) are below
  the model. A failed tool call goes back to the model as a message, which is what
  the docstring of `_maybe_fail` says LangChain does (`agent.py:118-121`); a version
  that raises instead would end the loop as a provider error does. The process gives
  up after `MaxTries` connection attempts and is then gone until someone starts it
  again (`Restart`).
- **Boards.** A board is the set of its panels: of their order in the file, at
  whose end everything is appended, the model keeps the ids, which the generators
  count up. A panel is its place in the grid, its id, its refIds, whether the
  post-processor marked it, and the deployment it needs data of. `demo` and
  `production` are the two files in the working tree, `main` what was merged;
  `Green` is the CI job. `grown` is how many panels a developer has added to the
  script. The layouts are those of the scripts, in `BoardLayouts`; a panel `of` a
  deployment is one whose queries find data only there. Where its links lead is not
  modelled.

Definitions under "With a bug" are variants of the definition that follows them.
No specification uses them; each is the seeded fault with which one property is
shown to be able to fail.

## 3. Runs

`V` marks a run that is expected to find a violation; the property it checks is
what a comment of the repository says.

| Run | Instance | What it shows |
|---|---|---|
| `window_poll` | two executions of one type beside a type that has none, one failed query, two clock ticks | terms of one poll; no double count; late executions counted; the budget alerts never flatter; gauges converge to a store that has come to rest |
| `window_quiet` V | the same | a type with nothing in its window is shown with its budget exhausted |
| `fast_poll` | one execution, two rungs, one cause, both settings, both servers | ladder brackets the truth; stamps vouch for all gauges of a kind; detection is only what the server established; a late execution is alerted on or the monitor is reported stale; the probe settles detection, or the alert on its absence fires, unless every attempt meets an error that settles nothing |
| `monitor` | no executions, both loops | neither loop starves and shutdown ends; `Run` drives each poll as that poll's own module says (two refinement properties) |
| `slo_rules` | ten SLIs of the four bundles, every kind among them, windows of two (5m, 30m, 2h, 6h) or three intervals (1h, 1d, 3d, 28d), three or four samples to choose from, five intervals kept | ratios of counters are traffic-weighted whatever is absent, up to the demo's clamp; a lasting outage alerts; an alert ends with its incident |
| `percentile` | four executions, one above the range, p50 and p90, tolerance 0, 1 and 2, six queries | results cover the percentile and are tight |
| `golab_rollout` | two option sets and cache sizes, four versions, four swaps, one failed swap, one crash, two reports under way, no restart of the controller | the Go lane implements `Rollout`; a Worker whose drain has ended stops counting; a configuration takes effect |
| `pylab_rollout` | three versions, two swaps, one failed connection, one `run()` that raises, one crash, one restart of the controller, one report under way | the Python lane implements `Rollout`; the gauges settle on the new Worker |
| `limiter` | four requests, two setters, limit 1 or 2 | exact counters; no lost wakeup; a lowered limit is respected; every request is served |
| `agent_run` | two iterations, two tool calls each, two attempts, a refusal, a malformed call whose text says nothing and one whose text has a 429 in it, one rollout | well-formed conversation; bounded spend; retried exactly when the text is no decision; honest reports; one model per run; termination |
| `py_agent` | two runs on one or two slots, two iterations, one tool call a reply, two connection attempts, one crash, with and without metrics | a run is paid for once, recorded as what it was, injected only if asked, ends, and closes as long as the Worker is brought back |
| `boards` | four generators, row P two ids above the 36 panels of the demo's golden signals, three panels of growth | boards stay readable; what is merged is whole, of one edition, and of its deployment only |

Type invariants are stated in every module with state of more than one kind.
The runs spend their properties on what could go wrong: the type invariants of
`WindowPoll`, `FastPoll`, `Limiter`, `PercentileSearch`, both lab Workers and both
agents, and that of `SLORules`, are proved (section 5).

**Bounds.** All of them are constants of the modules or the MC modules.
`MaxClock` lets a window of one tick pass and an execution age past its budget
(in `fast_poll`, past two rungs). One execution is enough to be counted twice,
to be lost, and to close between any two queries; a second, of the same type, makes
the answers of one poll differ in more than one, and the second type, which has
none, shows that the types do not mix and is the one `window_quiet` is about. The
window-poll proofs cover any number. `MaxErrors` limits
the errors that are *counted*; after cancellation queries fail without bound.
`MaxVersion` leaves room for two configurations (one for Python) above the two
the lanes start with; two is what a superseded rollout needs. With `MaxPosts` 2 a
report may be overtaken by the next one. Two attempts in `agent_run` stand for the
three of the code: a first, and a last after which the Activity fails. Six
queries stand for forty: with tolerance 0 the search reaches the cap, with 1 and
2 it does not. In `slo_rules` the windows keep their order, 5m up to 28d, not
their proportions: a window of three intervals outlives one of two, which is what
the short window of an alert is for, and 5m is two, so that the recordings overlap.
The counts of a sample are small enough for the demo's clamp to bend a window (three
events in an hour) and large enough not to. No bound limits the errors of the probe.
`golab_rollout` has no restart of the controller, which `pylab_rollout` has: the lane
of the controller is the same module. In `boards` three more panels take the ids of row
P, and 42 panels leave room for one added by hand to a board that has row P.

**Deadlock.** Deadlock checking is on where the modelled system never stops:
`slo_rules` (Prometheus evaluates for ever), `py_agent` (a Worker polls) and
`boards`. In the other runs the models stop when a bound is reached (clock,
versions, crashes), the one run closes, the requests are served, or the monitor
has been shut down: none is a deadlock of the program. Where everyone waiting
on everyone would be a fault, a liveness property says so (`EveryRequestServed`,
`Terminates`, `ConfigTakesEffect`, `ServesBothUntilStopped`).

**Fairness.** Assumed and why:

- polls: weak fairness of the steps of a poll, since every query has a deadline
  (`counter.go`, `queryTimeout`); of the start of a poll, which `SLOMonitor`
  then *proves of the select loop* by `ServesBothUntilStopped`;
- `SLOMonitor`: strong fairness of the three select cases, because Go's select
  picks at random among those that are ready; tickers tick;
- rules: Prometheus goes on scraping and evaluating (`[]<><<Next>>_vars`; a group runs
  once per interval, so progress of the whole is progress of each);
- lab Workers: their loops go on, Compose restarts the process, and not every
  report is lost (strong fairness of handling one, and of sending one from a
  Python process that may be down at times); a drain ends
  (`graceful_shutdown_timeout`);
- limiter: every goroutine runs, every broadcast is made; nobody must set a
  limit;
- agent: the server completes or times out what it scheduled, and tells the
  Workflow. The execution timeout is not assumed, so that `Terminates` shows the
  run ends without it;
- Python agent: a process that is there goes on trying to connect, each time with one
  result or the other, until it gives up; one that polls is given its Tasks, the
  loop's steps are taken, and the start-to-close timeout fires for an attempt that is
  lost; it is not assumed for an Activity that is still in the Worker. That a process
  is there nothing guarantees: its Compose service has no restart policy
  (`demo/docker-compose.yml:205-221`, unlike the lab's Workers), so neither `Restart` nor
  a successful connection is assumed, and `EveryRunCloses` says what follows without
  them (an Activity that was begun has an outcome) and what only as long as the
  Worker is up again and again (every Workflow closes).

Nothing is assumed of the store, of failures, of crashes, of configuration
requests, or of what people do to the boards. `percentile` and `boards` check
safety only.

## 4. Disagreements

One is reproduced by a run, because a comment says the contrary of what the code
does:

- `generate_visibility_rules.py:98` clamps the denominator of the compliance to
  1 while its numerator is 0 for a type without executions in the window: the
  remaining budget is far below 0 and the critical `BudgetExhausted` fires, for a
  type that has spent nothing (`window_quiet`).

The others were met while modelling. They bound what the properties say:

- *Monitor.* "Degraded mode must be loud" (`monitor/DESIGN.md:87`). A probe whose every
  attempt meets a transient error (a deadline, an unavailable server) stays pending:
  there is no stuck series, no capability gauge and so no alert, for as long as the
  errors last (`monitor.go:110-116`). `StuckSettled` names that case.
- *Rules.* The comment of the cloud's recordings says that dividing their averages
  gives the traffic-weighted ratio (`generate_cloud_rules.py:191-193`). Of the cloud's
  gauges that is so only while no series is absent for part of the five minutes:
  `avg_over_time` divides by the samples present, so a series seen once in five minutes
  weighs as if it had been there throughout. A `gated` latency SLI moreover has bad
  minutes only where its total is 1, and the two averages are taken over different
  numbers of samples, so that their ratio may exceed 1
  (`generate_cloud_rules.py:62-66`). `TrafficWeighted` is about the three bundles that
  count with counters. The demo's `workflow_completion` divides by at least 0.001
  completions per second (`generate_slo_rules.py:165`): with up to three in an hour its
  ratio is lower than the share of bad ones. `TrafficWeighted` says by how much. The total of the cloud's `task_delivery` is
  empty while `poll_success_count` has no series (`generate_cloud_rules.py:94-103`),
  so tasks without a poller are not counted before the first successful poll;
  `TrafficAssumption` takes one to have happened. The demo's
  `worker_task_delivery` may use 10 % of its tasks, so a burn rate of 14.4 is out of
  reach and only the exhausted budget reports a total outage of it. `MonitorStale`
  has no series for a kind that was never stamped (`monitor-rules.yml:67`);
  `LateSeenOrStale` is stated for a kind that was polled once.
  `ExecutionsOverBudget` selects `bucket="2"`, while `config.Validate` requires a
  bucket 1 and no bucket 2 (`config.go:161`).
- *Scrapes.* A scrape may fall between the assignments of the three window gauges
  (`monitor.go:236`); `WindowPoll` shows it as `Publishing`, and its properties
  are stated outside it.
- *Lab.* Versions are compared for equality and restart with the controller, so
  a stale Worker can be shown as applied after a restart (`controller.go:432`,
  `787`); hence `trusted` in `Rollout`, and `Unambiguous` in `ConfigTakesEffect`: both
  promise of every version that no earlier controller gave out, before a restart and
  after it. `setConfig` sets the limiter after unlocking the lane, so
  two concurrent requests may leave the older limit (`controller.go:434`);
  `Rollout` does not promise the limit. "A stopped instance's last values can be dropped
  instead of lingering" (`telemetry.go:105-107`), but an Activity may run for two
  minutes (`controller.go:423-424`) and `Stop` waits for 30 seconds: one that is still
  running updates the gauges of its instance after `dropInstance`
  (`worker.go:213-217`), and nothing drops them again. `DrainedStopCounting` says that
  this is the only way for a replaced Worker to be counted. The Python swap starts "the
  new Worker before draining the old one, so the queue never has zero pollers"
  (`pyworker/worker.py:247-248`): the new one's `run()` has only been made a task when
  the old one is told to shut down, so the Task Queue may have no poller until it has
  validated its namespace; and if it raises there is none, with a version that counts
  as applied, until a configuration asks for another build
  (`pyworker/worker.py:274-282`). `Rollout` allows a lane without `Overlaps` these two gaps
  and no other.
- *Agents.* The Workflow is to retry faults and not decisions, a malformed request
  being one of the latter (`agent_workflow.go:86-90`). What a text is, the classifier
  tells from its words, and it recognises no malformed request in the texts the code
  makes itself: "bad_request: unknown provider" (`agent_activities.go:204`),
  "bad_request: no messages in request" (`agent_activities.go:239`) and "bad_request:
  response contained no choices" (`agent_openai.go:92`) are unknown to it, so those calls
  are retried; so is a refused request whose text has a 429 in it. `DecisionsNotRetried`
  says of every text whether it is retried. The Python taxonomy has the same gap.
  `ReportAgentRun` is described as emitting exactly once; an attempt lost after its
  emission is retried, so it is at least once, and `RunsReportedHonestly`, which looks at
  *what* was emitted, does not see a second emission of the same run. In the Python agent
  the failure rate is a module global (`agent.py:231`), so a run that begins changes the
  rate of those that are running: `InjectedAsAsked` holds of a run during which no other
  began (`disturbed`). A cancelled
  Activity is not recorded (`CancelledError` is no `Exception`), and `max_iterations`
  0 gives a recursion limit LangGraph refuses; `PyAgent` takes it to be positive. Its
  Worker gives up after 30 attempts to connect (`worker.py:30-39`), nothing restarts
  it, and `workflow.py` sets no schedule timeout: a run whose Activity no Worker has
  picked up then stays open.
- *Dashboards.* `generate_visibility_rules.py --check` in CI comes after the loop
  that has just rewritten what it checks, so only the `git diff` that follows can fail.
  The list of commands in `README.md:288-300` lacks the path of the demo's
  golden-signals board and the post-processor, so following it leaves a tree that is
  red. The test `"demo/" in OUT` looks at an absolute path: in a checkout whose
  directory ends in `demo/` production's boards are written as the demo's;
  `TakenFor` models it, and CI refuses the result. Production's overview and
  full overview link to the uids of the demo's boards
  (`generate_overview.py:292-303`, `generate_selfhosted_full.py:402-404`), and its panels
  of traces and profiles use the uids of the demo's data sources, `tempo` and `pyroscope`
  (`generate_golden_signals.py:11-12`): their queries name no demo data, and
  `MergedTreeIsWhole` is about queries.

## 5. Proofs

TLAPS checks these for every value of the constants that the named assumptions
allow. The last column names the property of a run that the theorem states: the
run shows it on a small instance, the theorem in general.

| Theorem | Says | Property |
|---|---|---|
| `WindowPollTypeOK` | types; only answered counts are published | - |
| `WindowPollTermsOfOnePoll` | the published terms are of one poll | `TermsOfOnePoll` |
| `WindowPollNoDoubleCount` | they count no execution twice | `NoDoubleCount` |
| `WindowPollLateCounted` | they lose a late execution only by its closing inside the poll | `LateExecutionsCounted` |
| `WindowRulesBudget` | a budget that was low or exhausted at the poll is shown as such | `BudgetNotFlattered` |
| `FastPollTypeOK` | types | - |
| `FastPollLadder` | a rung lies between what must and what may be late | `LadderBracketed` |
| `FastPollFreshness` | a stamp vouches for every gauge of its kind | `FreshnessHonest` |
| `FastPollDetection` | stuck detection is what an answer established | `DetectionHonest` |
| `FastRulesLateSeen` (h) | a late execution is alerted on or the monitor is stale | `LateSeenOrStale` |
| `MonitorFastPoll` | `Run` implements `FastPoll` | `ImplementsFastPoll` |
| `MonitorWindowPoll` | `Run` implements `WindowPoll` | `ImplementsWindowPoll` |
| `MonitorGaugesHonest` | what is proved of either poll holds of `Run` | - |
| `SLORulesTypeOK` | types; no recorded ratio is negative; nothing is due before a scrape | - |
| `SLORulesAlertClears` | a burn alert ends with its incident | `AlertClears` |
| `SLORulesTrafficWeighted` | a ratio of counters is all bad events of what its window looks back on over all its events, or over the demo's clamp where they are fewer | `TrafficWeighted` |
| `BoardsStayReadable` | no two panels share an id or a place, no two queries of a panel a refId | `BoardsReadable` |
| `BoardsMergedWhole` | a merged tree is of one edition, row P in its place, every panel with its data | `MergedTreeIsWhole` |
| `PercentileTypeOK` | types, interval in order, queries capped | - |
| `PercentileCovers` | an unflagged result covers its percentile | `CoversPercentile` |
| `PercentileTight` | a converged result is within the tolerance | `TightPercentile` |
| `LimiterTypeOK` | types | - |
| `LimiterCountsExact` | the counters are exact | `CountsExact` |
| `LimiterNoLostWakeup` | no request sleeps beside a free place unless a broadcast is to come | `NoLostWakeup` |
| `LimiterNeverAbove` | above a lowered limit none is admitted | `NeverAbove` |
| `GoLabWorkerTypeOK`, `PyLabWorkerTypeOK` | types of lane and Worker | - |
| `GoLabWorkerRollout` | the Go lane implements `Rollout`: no gap on its Task Queue | `ImplementsRollout` |
| `PyLabWorkerRollout` | the Python lane implements `Rollout`: a gap only while a new build starts, or after a `run()` that raised | `ImplementsRollout` |
| `GoLabWorkerGauges` | a Worker whose drain has ended is counted only by an Activity that outlived it | `DrainedStopCounting` |
| `AgentWorkflowTypeOK` | types | - |
| `AgentWorkflowSpend` | `MaxAttempts` requests an iteration; no usage that was not paid for | `SpendBounded` |
| `AgentWorkflowReports` | what is reported is what the run came to | `RunsReportedHonestly` |
| `AgentWorkflowOneModel` | one model per run | `OneModelPerRun` |
| `AgentWorkflowDecisions` | a model call is retried exactly when the text of its error is no decision, whatever texts there are | `DecisionsNotRetried` |
| `AgentWorkflowConversation` | every tool call is followed by its result, in order | `ConversationWellFormed` |
| `PyAgentTypeOK` | types | - |
| `PyAgentPaidOnce` | at most `MaxIterations` requests for a Workflow | `PaidOnce` |
| `PyAgentInjected` | injected failures reach who asked for them | `InjectedAsAsked` |
| `PyAgentRecorded` (h) | a run is recorded once, as what it was, at its price | `RecordedHonestly` |

**Hypotheses.** The theorems rest on the assumptions the modules name, which bound
constants to the types the code gives them. `PyAgent`'s `AgentAssumption` also says
that token counts and prices are natural numbers and that the cached tokens of a
reply are among its input tokens. Those of `SLORules` say that the SLIs are some of
the four bundles (`SLIsAssumption`), that the log of recordings outlives every
window, and the short windows of alerts by the interval the groups may lag
(`TicksAssumption`: a bound of the model, since Prometheus keeps more), that the unit
of the cloud's averages makes them whole, and what the
series of one target have to do with each other: an error is also a request, the
buckets of a histogram are no larger than its count (`TrafficAssumption`). Windows
may have any lengths, in any order. `LabAssumption` says that no option set of a
request is the mark of a Worker that was not built, and `PyAgent`'s that a process
tries to connect at least once. `Boards` assumes that row P's first id is above
the panels of the golden-signals generator as it is (`BaseIdIsClear`: 300, against 36),
not that it stays so while the generator grows. Those marked (h) have a hypothesis of their own:

- `FastRulesLateSeen`: the ladder has a rung 2, which the alert selects
  (`SecondRungs # {}`), and the rules know a staleness threshold for the kind
  (`"over_budget" \in DOMAIN StaleAfter`). A configuration without such a bucket is
  legal, and then the alert has no series (section 4).
- `PyAgentRecorded`: no provider error mentions recursion. `agent.py:278` takes one
  that does for LangGraph's own limit, and the run would be recorded as
  `max_iterations` with calls left.

**The arguments.** A property is seldom inductive. What each invariant adds:

*Window poll.* Nothing in the gauges says what the answers under way were counted
in. The strengthening adds that each answer received lies between what the store
must have shown and what it may have shown at the poll's instant: an execution
counted as closed stays closed, one not yet counted can only have moved from open
to closed, so that the answers so far and what the remaining queries can still
select are bounded by what has started. The order of the queries, closed before
open, is what makes the step of the open query go through. For the alerts,
`InCovered` adds that the published good executions are among those closed in
their budget at the poll's instant (they stay so: a closed execution does not
change), and `BudgetOrder` is the arithmetic: with no fewer late and no more good,
the remaining share is no larger.

*Fast poll.* `InstantsPast` (no gauge is of a later instant than the clock),
`Swept` (while no query of an inner loop failed, the gauges it has passed are of
this poll, which is what the stamp is about to vouch for) and `ProbeInv` (what
`probePending` and `fpc` say of the detection) are added to the three properties
themselves. `FastRulesLateSeen` then needs no step: from the bracket and the stamp
it follows that the rung counted the execution, by `TruncateMonotone`, because an
execution that is late at an instant is late at every later one.

*Monitor.* To one poll a step of the other is just another user of the error
counter (`WindowSeenByFast`, `FastSeenByWindow`): it leaves the store and the poll's
own variables alone. So the two refinements need no invariant, and what is proved
of a poll by itself holds in `Run` (`MonitorGaugesHonest`). The fairness of the polls is not part of
these; `ServesBothUntilStopped` is checked by TLC.

*SLO rules.* First, sums. The expressions add up samples with the folds of the
community modules, whose value is a `CHOOSE` of a table over subsets; the library
states induction over finite sets for an operator, which no prover here can
instantiate, so `SmallestSubset` and `SetInduction` restate it for a *set* of
subsets, from the well-foundedness of the strict-subset order (`WFMin`,
`FS_StrictSubsetOrderingWellFounded`). With it: a sum does not depend on the order,
a positive one has a positive term, sums add up and may be exchanged. Then
`RatesHappened` says that the expressions of every kind of SLI that counts with
counters, over the samples of a range, count what happened, and are absent together:
this is where the guards are needed. For the demo `RawShare` makes the ratio of it, the
clamp included. The other bundles divide averages of recordings: a recording of
counters is true (`TrueRecordings`: it says what happened in its five minutes, and its
two halves are absent together), which the invariant keeps of the log (`EventsTrue`),
and of true recordings the quotient is their share (`RecordedShare`). `TrafficWeighted`
follows. Of the cloud's averages only what `AlertClears` needs is proved: they are
natural numbers, and of a range without a bad event 0 (`AverageFacts`, `CloudBad`).
For `AlertClears` the invariant ages the bad event: a recording of one has it in the
five minutes before it (`EventsClear`; one interval more while layer 1 has yet to run),
a ratio of the demo in its window (`RatioClears`), a burn rate in its window and
the five minutes its recordings look back on (`BurnClears`; one interval more while
the ratios have yet to be evaluated). `BadAges` is the step of a scrape.

*Boards.* Every section of a layout lies between two lines and has no panel on
another; a section below another makes one layout with it (`StackedBelow`), which
gives the four boards from their sections, and then any number of later panels.
`Neat` (ids and places apart, refIds different) is kept by numbering, by the
post-processor, which drops its own panels before it appends below the others and
stops on a clash, and by hand edits. That is enough for `BoardsReadable`. For the
merged tree the invariant adds `MainRegenerated`: `main` is what the scripts write
for *some* edition for which the post-processor runs through; not the one of the
working tree, which may have moved on. What CI compares makes it so (`Green`), and
`DemoBoardFacts` and `GeneratedFacts` say what such boards are like.

*Percentile search.* `Bracketed`: `hi` covers the rank in the store as it is now,
`lo` misses it in the store as it was counted. Both survive a completion, because
a larger store counts at least as many (`CountGrows`). `RankCovers` is the arithmetic
of the rounded-up rank.

*Limiter.* Types, exact counters and no lost wakeup are inductive together; the
lemmas `Enters`, `Leaves` and `Stays` say what the change of one request does to
a set of requests. `NeverAbove` follows: an action that admits has tested
`inflight < limit` in the same step.

*Lab lanes.* The strengthening says what a version means. A controller that has
restarted gives the same versions again, so nothing is claimed of a version up to
`givenOut`. One above it is given to one configuration only, none is ahead of those
given out, and everything that carries the lane's version (the message the Worker has
fetched, what it has applied, the report on show, every report still on its
way) names the lane's configuration (`VersionInv`, `Truthful`); a report with a
version names what a Worker was really built with (`ReportInv`). In Go a swap takes
several steps, and `LoopInv` says what they have done when `Mark` records the
version, and that the version being applied is not the one being reported. In
Python `BuiltAsRecorded` says that `cfg`, `version` and the Worker change together,
and that a swap is made for another build only; `OnlyCurrent` that no Worker but the
current one starts or polls, so that what becomes of its `run()` is what becomes of
the lane's poller. `DrainedStopCounting` needs no strengthening: `DropInstance` is the only
way to `gone` and drops the gauges in the same step, and an instance that is gone
updates none.

*Agent Workflow.* `Phase` relates `pc` to the counters, `Spent` splits the bill into
the iterations before this one and the attempts of this one, `Reported` says that a
report under way carries the run as it was decided, `Asked` that all requests so
far were for the run's model. `Talk` describes the conversation block by block:
each assistant message is followed by the results of its calls, and the last one by
as many as have been appended; a result under way, in an Activity, is of the call
that the Activity was scheduled for. A lost attempt changes none of it, because the
next one is for the same call. For `DecisionsNotRetried`, `DecidedText` reads the
classifier's switch, token by token: a text falls into a bucket that is not retried
exactly when it names a decision and nothing earlier in the switch. It makes no
hypothesis about the texts there are.

*Python agent.* `OneAttempt` ties the single attempt to the state of the Workflow
and to the Worker, `InStep` ties LangGraph's step count to the requests sent and
answered, from which the bound on requests follows, and `OwnRate` says whose failure
rate the global holds. `Recorded` is the property with what holds between a run's
end and its completion; `PriceAddsUp` (the price of a sum is the sum of the prices)
carries its last conjunct.

**Only model-checked:**

- every liveness property: `ConvergesToStore`, `StuckSettled`,
  `ServesBothUntilStopped`, `OutageAlerts`, `ConfigTakesEffect`, `GaugesSettle`,
  `EveryRequestServed`, `Terminates`, `EveryRunCloses`. Liveness under fairness is
  beyond the prover, and so is `ENABLED`; the refinements are proved of the steps,
  without the fairness of the implemented specification;
- `WindowRules`' disagreement with a comment (`window_quiet`): a counterexample, not
  a theorem.

Induction that the library states for an operator is out of the prover's reach as
well. Where a proof needed one, over the subsets of a finite set, it is stated for a
set instead (above).

## 6. Not modelled

The list, with a reason for each part, is in `PROJECT.json`. In short:

- `budget-derive` around the percentile search (pacing, back-off, paged
  discovery, rendering), the loading of configurations, and the `main` of each
  process;
- the lab's load generator, its snapshots, stream and diagnosis, and the UI;
- the conversions to and from the model providers' SDKs, and what models say;
- the order Workflow with its chaos switches, and its HTTP API;
- `nsctl.sh` and Terraform, whose state machine is Terraform's own;
- the hand-written `alerts.yml` and `agent-rules.yml` and the alert on stuck
  executions, annotations and labels;
- the agent, scale, cloud and app-team boards, which have one version each and
  no second script; queries, titles and styling of the four that are modelled;
- deployment, load and chaos scripts: commands against external systems.

The text of queries, metrics exposition, tracing and logging are left out of the
modelled parts. Time in the models is ordinal except in `Visibility`.

## 7. Plan

Every invariant and action property of the passing runs, and every refinement, is
proved. What is worth proving next:

1. `SLORules`: how soon an alert fires. The bound that `OutageAlerts` leaves open, in
   intervals of a total outage, is a safety property of the same invariant.
2. What an `Activity` may do when it is late: that an attempt the server has given
   up changes nothing of the run (`PyAgent`, an action property of `Respond`).
3. The lanes after a restart of the controller: how long a version stays ambiguous
   (until the counter has passed `givenOut`), and which reports may be taken for applied
   while it is, as an invariant of its own beside `VersionInv`.
4. The Python lane: that after a `run()` that raised the next configuration that asks
   for another build brings back a poller (liveness, with TLC).

Models worth adding: `BudgetDerive` around `PercentileSearch`, the lab's stream (a
snapshot between the copy of the history and the subscription) and load
generator, the order Workflow, and namespace provisioning under Terraform's
retries.
