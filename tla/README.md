# Verification of dops-assistant

dops-assistant is a server that watches the services of one or more monitoring
stacks, investigates incidents with language-model agents, and streams the work
to browsers. This directory holds TLA+ models of the parts of it whose
correctness depends on the order of events, the TLC configurations that check
them on small instances, and theorems about them checked by TLAPS.

1. [The system](#1-the-system): its parts, their state, what is hard about them
2. [The modules](#2-the-modules) and how they correspond to the code
3. [The runs](#3-the-runs), their bounds, what they show
4. [Fairness](#4-fairness)
5. [The proofs](#5-the-proofs)
6. [Findings](#6-findings) and smaller deviations
7. [What is not modelled](#7-what-is-not-modelled)
8. [Plan](#8-plan)

Source paths below are relative to the repository (`src/server/...`).

## 1. The system

One Node process. JavaScript code runs in one thread: what lies between two
awaits is atomic, and every await is a place where socket messages, timers, HTTP
requests and other loops come in. SQLite is used synchronously, so a statement
(and a transaction) is one step, and the database is what survives a restart.
Everything kept in maps and closures is gone with the process.

| Part | State it keeps | Operations | What makes it hard | Module |
|---|---|---|---|---|
| Orchestrator move loop, `agents/orchestrator.ts` | hypotheses, evidence, counters, budgets of one run | one move at a time: hypothesize, query, test, conclude, spawn a sub-investigation, follow a cause; health gates; operator pause | a language model picks the moves; Stop, the wall clock and watchdogs fall into any await | `OrchestratorLoop` |
| Orchestrator run registry, `server/orchestrator-run-registry.ts` | one entry per investigation: controller, sinks, status, pause, decision lock, clocks | create, attach, detach, pause, resolve, lock, park, sweep, mark terminal | the entry is shared by the loop, several sockets and two timers | `RunRegistry` |
| Deep run handlers, `server/ws-handler.ts` | sockets, `myRuns`, the persisted events | launch, subscribe, unsubscribe, decide, stop, close, watchdog | attach, replay, decide, stop, relaunch and close in any order around the loop's awaits | `DeepRun`, `RunLifecycle` |
| Report write-back, `server/ws-handler.ts` | the investigation's report and its event log | accept a conclusion, deep mode pass | two writers that read, await and write one JSON column | `ReportWriteBack` |
| Scan scheduler and probe, `server/scan-scheduler.ts`, `server/anomaly-probe.ts`, `server/scan-run-store.ts` | config, Cron, controller, hysteresis counters, `scan_runs` | start, stop, reload, tick, trigger | everything may change while a probe waits for the metrics backend | `ScanScheduler` |
| Stack manager, `server/stack-manager.ts` | the stacks map, per-stack pollers, jitter timers | boot, create, delete, reap, settings fan-out | timers and in-flight ticks outlive the stack they belong to | what it does to each part is in that part's module: `ScanScheduler`, `HealthPoller`, `ProviderRegistry` |
| Investigation guard, `server/investigation-dedup.ts` | recent investigations, re-run clocks, active count | shouldInvestigate, markStarted, markCompleted | check and mark are two calls, with an await between them in one caller | `Investigations` |
| Dispatch and runner, `server/index.ts`, `server/webhook-handler.ts`, `server/investigation-runner.ts` | `investigations` rows | alert, health transition, Kubernetes event, scan hit, re-run, chat; run; sweep at boot | a slot must come back on every failing path; rows must survive a restart truthfully | `Investigations` |
| Periodic discovery, `server/periodic-discovery-scheduler.ts`, `server/discovery-consensus.ts`, `server/pending-discovery-store.ts` | run rows, pending and dismissed suggestions, notifications | tick, consensus, accept, dismiss, restore | consensus over *consecutive* runs, with failures, skips, crashes and an operator in between | `PeriodicDiscovery` |
| Service registry, `services/registry.ts` | `services.yaml`, its versions | save, roll back | versions decide whether a suggestion may still be accepted | its versions in `PeriodicDiscovery` |
| Service health poller, `server/service-health-poller.ts` | the cache, one row and one event per change, the datasource's uid | start, stop, poll, warm-up from rows, delete | polls overlap and outlive `stop`; the rest of a poll works on what it read before its awaits | `HealthPoller` |
| Kubernetes event poller, `server/k8s-event-poller.ts` | restart cache, time window | poll, reload | overlapping polls share the cache and the window | its hits are `Detected` of `Investigations` |
| Provider registry and MCP clients, `mcp/provider-registry.ts`, `mcp/provider.ts` | one entry per provider, its client, the two files, rebuilds in flight | boot, add, update, remove, select tools, test, reconnect tick, rebuild; a wrapped tool's retry | operators, the tick and the callers of tools share an entry across awaits; an entry that was taken out lives on in the tasks that hold it | `ProviderRegistry` |
| Chat, dispatch confirmation, socket discovery, `server/ws-handler.ts` | pending dispatches, conversation | confirm, cancel, supersede | a cancel races a timer | the chat's investigations are in `Investigations`; the rest is planned |
| HTTP routes, settings, `server/routes.ts` | the database | reads; inbox, scan and settings routes | checks and writes against a running tick | inbox and scan routes |
| Validation of discovered services, `workflows/steps/validate.ts` | none | pure functions over names and labels | many small rules over strings | left out |
| Investigation pipeline, `workflows/investigation.ts`, `workflows/steps/`, `agents/shared/llm-retry.ts`, its adapter in `server/agents.ts` | one report | prefetch, planning, four parallel streams, synthesis, hypothesis loop, deep mode | retries restart agents that may hold write tools; streams fail separately; deep mode rebuilds from a report what the loop knew | `InvestigationPipeline`, `Corroboration` |
| Agents, LLM adapters, cache of agents | none that is shared | prompts, parsing | the model's answers | nondeterministic choices |
| Event retention, health monitor | one timer each | delete old rows, cache a status | deletes under a reader | left out |
| Notifications, authentication, tokens, rate limit | little | one call each | - | left out |
| Query building, metric extraction, skills, CLI, evaluation | none | pure functions, files | - | left out |
| Web UI, the deep-run view, `web/contexts/OrchestratorRunContext.tsx`, `web/hooks/useWebSocket.ts`, `web/hooks/useInvestigationRunHydration.ts` | the view of each run, a bounded buffer of messages | attach, hydrate, replay, reduce, decide | a fetch, a replay and the live tail overlap; the socket drops; the buffer is cut | `BrowserRun` |
| The rest of the Web UI, `src/web` | what it fetched | pages and panels | - | left out |

How the parts meet:

- **Detection.** Health poller, Kubernetes event poller, scan scheduler, alert
  webhook and chat each ask for an investigation. All but the chat go through the
  guard, which is one object for all stacks and sources (`Investigations`).
- **Tools.** Every query of a detector and every tool of an agent goes through a
  client of the provider registry; a provider that becomes viable starts the pollers
  that were skipped for want of one (`ProviderRegistry`; the same starter is in
  `ScanScheduler` and `HealthPoller`).
- **Investigation.** The runner writes a row (`Investigations`), runs the pipeline
  (`InvestigationPipeline`), and writes the verdict. Its report is what a deep run
  starts from.
- **Deep run.** A browser launches a move loop over the socket. The registry
  decouples the loop from the socket: the loop broadcasts to the sinks that are
  attached, pauses for the operator, and parks when nobody has watched for a
  while. The browser folds what it is sent into a view (`BrowserRun`). `RunRegistry`
  is the shared entry, `DeepRun` composes it with the sockets, the timers and the
  blocking skeleton of the loop, `OrchestratorLoop` is the loop itself.
- **Write-back.** A conclusion of a deep run that the operator accepts is merged
  into the report (`ReportWriteBack`), next to deep mode, the older second pass.
- **Inventory of services.** Periodic discovery compares what an agent finds
  with `services.yaml` and suggests additions and removals; an operator decides.

What has to be right, per part:

- loop: what is reported as confirmed passed every deterministic gate on the
  evidence reported with it; every budget holds; Stop works; every run ends, and
  for the reason it states;
- registry and handlers: the live entry is the running loop's; whoever is blocked
  can be unblocked; nobody who watches is parked or misses an event; the first
  decision wins;
- write-back: the report is one coherent refinement, whatever was read before
  which await;
- scan: one row per tick, closed exactly once, also over a crash; only sustained
  breaches of a scan that is switched on are investigated;
- guard and rows: slots come back; limits and windows hold; rows tell what runs;
- health: what is shown, stored and announced of a service agrees, and becomes what
  the backend says; only what is watched is investigated;
- providers: no write is carried out twice; memory and file agree; a provider comes
  back by itself, and what waited for it starts;
- pipeline: a retry repeats no write; an unavailable model is an error and no report;
  deep mode re-examines what is in doubt;
- browser: a tab that is attached shows the run as it is, each step once and in order;
- discovery: suggestions rest on consecutive successful sightings; dismissals
  hold; every channel hears of a suggestion, once.

`PROJECT.json` lists every component with its sources, and under `hazards` the
places in the code where these can go wrong, each with the properties that would
notice.

## 2. The modules

Each module's header names its files; `PROJECT.json` maps every definition to the
lines it stands for. Operators whose comment begins with "Mutant:" are not part of
the model: each is a plausible mistake in the definition that follows it, and the
property it is listed with fails when it takes that definition's place.

### OrchestratorLoop

`runOrchestrator` as a machine with one value of `pc` per await (`boundary`,
`operator`, `recheck`, `deciding`, `gathering`, `dispatched`, `confirming`,
`floor`) plus `top` and `done`. What the code does between two awaits is one
action, so `Abort` and `WallClock` fall into every await. `Top` and `Guards` are
the ladder in front of a move, in the order of the code; `Decide` is the move the
model returns, one operator per kind; `Reply` is what an awaited call answers;
`DecideTimeout`, `NoFurtherMove` and `Throw` are the ways in which a call gives
none. Optional callbacks are the constant `Hooks`.

Data is reduced to what the gates read: a hypothesis is its claim class, its last
verdict and its standing; an observation is `plain` or `zeroPods`; the tokens of a
move are a small cost. `StandingOf` and `Grounded` are the tables of
`standingFromVerdict` and of the conclude gates.

### RunRegistry, DeepRun, RunLifecycle

`RunRegistry` has one registry entry as a record and each method of
`OrchestratorRunRegistry` as an operator from entry to entry. Sinks are
connections; the two clocks (`emptyFor`, `deadFor`) count watchdog ticks and are
capped where they have been long enough.

`DeepRun` is one investigation: its entry, the connections, the loops of its
successive runs and the operator-pause timer. The loop is reduced to where it is
blocked (`starting`, `working`, `givingUp`, `operator`, `parked`), plus two states
in which its continuation is queued (`top`, `waking`): a promise that has been
settled continues in a microtask, before any other callback, which is what the
guard `Quiescent` says. `Launch`, `Subscribe`, `Unsubscribe`, `Decide`, `Stop` and
`Closed` are the message and close handlers; `Vanish` is the moment in which a
socket leaves OPEN without its close handler having run, when a broadcast drops or
keeps its sink (`Dead`). `Watchdog` is the sweep, `Tick` its clock. `context` is
the loop's `operatorContext`, the lead it follows: the one given with the launch until
one given at a pause replaces it. `stale`, `noted` and `seed` are history: who misses
an event, which leads the run's events carry, which lead the launch gave.

`RunLifecycle` is what all of this is for, in three variables: a run is unborn,
active, parked or over, somebody watches or nobody does, and some runs have been
stopped. `DeepRun` implements it under `phase <- PhaseOf(pc)`, `watched <-
entry.sinks # {}`, `stopped <- aborted` (`ImplementsLifecycle`, model-checked and
proved).

### ReportWriteBack

The report of one investigation and the events accept reads. `AcceptBegins` is
`handleOrchestratorAccept` up to the model call (which conclusion, which operator
notes, whose root cause was replaced), `AcceptEnds` writes the report it read;
`PassBegins` and `PassEnds` are the same for deep mode. A root cause is the number
of the event it came from, 0 for the first one. `Launch` to `Forget` produce the
events in the orders that the handlers allow, which include a decision after the
run has ended and a run that breaks off without a conclusion.

### ScanScheduler

One stack's scheduler from boot to reaping. A tick is two steps: `Begin` up to the
probe, `ProbeSettles` or `ProbeFails` after it; everything else may fall between
them. `StartWith`, `Reload`, `Cancel` are the methods, `JitterElapsed`,
`ProviderChanges`, `PutSettings`, `PutOverride`, `Reap`, `HttpTrigger`,
`SocketTrigger` the callers. A reading is whether the service breaches its rule;
`counter` is `consecutiveState` for the override and the default track of one
rule. `settings` takes values in the constant `Configs`. A row is open or closed: in
which way it was closed (complete, skipped, failed) nothing else in the code depends on.
`streak` and `cancelled` are history; the streak is one of the service's readings,
whichever version of the rule read them.

### Investigations

The guard, its callers and the `investigations` rows, on one clock. `jobs` has one
entry per investigation asked for, with the phase its caller is in: `Alert`
checks, marks and has a row at once; `Detected` marks, then builds its agents;
`Rerun` checks, waits, then marks; `Chat` asks nobody. `Crash` and `Boot` lose the
memory and sweep the rows.

### PeriodicDiscovery

The tick of one stack with its awaits (`discovering`, `corroborating`,
`notifying`), the consensus on additions and removals (`Sighted`), the inbox and
the operator. `streak` is history: how many consecutive successful runs really saw
a suggestion, counted from what the runs saw and not from the rows.

### HealthPoller

One stack's poller from the stack's creation to its end. A poll is `Begin` (names of
the visible services), `AskBackend` (tools and datasource uid are there), `Answered` or
`QueriesFail` (the readings of that moment) and `Conclude` (cache, rows, events,
dispatch), so that up to `MaxInFlight` polls overlap; `TearDown` stops the interval
and leaves the polls. `silent` and `loud` are the two classes of metrics the code
treats differently when a service is first seen down (`IsTransition`). `quiet` is
history: services whose present status was not announced, by that rule.

### ProviderRegistry

Entries by name, the two files, `rebuildInFlight`, and whoever works across awaits:
add and update requests (`creates`), the test of the reconnect tick and one on
request (`tests`, one label per await), and callers that hold a wrapped tool
(`calls`). The `session` of a client is live, or lost in one of the two ways in which
a listing then fails (an error, or an empty answer that the MCP library makes of
it). A test whose entry was taken out goes on `astray`. `Lists` is what a listing
may answer; `UpstreamChanges` loses the sessions of that upstream.

### Corroboration, InvestigationPipeline

`Corroboration` is `assessPrediction` as sets: what was asked (`Hearing`), what of it
is about the subject (`About`), what shows the phenomenon (`Hits`), and the verdicts of
predictions that something is present or absent. `InvestigationPipeline` is one
investigation: each call of the model with its retries (`Start`, `Unavailable`,
`armed` if it held write tools), the four streams in any order, the hypothesis loop
(`TestLeader`), and deep mode on the finished report (`AskDeepMode`, `Reexamine`).
`targets` and `redone` are what deep mode makes of the report's texts.

### BrowserRun

One tab and the run it watches. The server is the skeleton of `DeepRun` this tab can
tell apart: the persisted events and where the run is. `up` and `down` are the
messages under way; `fetch` is the page's GET, which may have read the log long before
its answer is used; `size`, `fresh` and `processed` are the bounded array of
`useWebSocket` and the index up to which the reducer has consumed it. `Applied` and
`Replayed` are `applyMessage`, `Rebuilt` is `reconstructFromEvents` over the first rows of
a log, `Rendered` the loop over a batch. Names that `OrchestratorLoop` has too are longer
here (`BrowserInit`, `RunSteps`, `TabDecides`), since the proofs extend both.

### MC modules

`MCReportWriteBack` adds symmetry, `MCScanScheduler` the settings, `MCHealthPoller` and
`MCInvestigationPipeline` the data of the instance; `MCOrchestratorLoop` is a place for definitions of the
instance; the other modules are checked as they are.

## 3. The runs

Deadlock is checked except where the system really comes to rest: in `loop` and
`pipeline` a run that is over is the end, in `browser` a run ends and the page is
left, in `providers` everything asked for is done. Bounds that are constants are
named in the modules as "model bound"; they are guards of the actions that count,
never constraints.

| Run | Instance | What it shows |
|---|---|---|
| `loop` | 5 moves, 1 hypothesis, 2 services of which 1 is a neighbour, every other limit 1 or 2, all hooks | the gates, the budgets, the stop rules and the end of the loop |
| `deep` | 2 clients, 2 runs, 1 continue, 1 lead (at a launch or a pause), parking after 2 ticks | the registry, the handlers and the loop agree, implement `RunLifecycle`, and no run is left hanging |
| `scan` | 1 service, 1 rule version, override or disabled; settings on, off, or on with another schedule and no rule; 1 browser; 2 ticks for a hit, 3 in all | rows, hysteresis, cancellation; rows are closed over crashes; the event listener is served |
| `inv` | 2 services, limit 1, window and cooldown 2, 3 investigations, clock to 3 | slots, limits, windows, rows |
| `writeback` | 2 interchangeable tabs, 2 runs, 6 events | what is left in the report is coherent |
| `writeback_lost` | 1 tab, 2 runs, 5 events | the finding of section 6 |
| `discovery` | 1 service, 2 channels, consensus 2 (additions) and 3 (removals), 5 runs, 2 new registry versions | consensus, dismissals, notifications |
| `health` | 1 service that serves, fails loudly or is scaled to zero, 2 overlapping polls | rows, events and cache agree; the cache catches up |
| `providers` | 1 GUI provider, 1 add or update at a time, 1 caller, 4 requests, calls and faults | tools, files, pollers and reconnects survive each other |
| `pipeline` | 2 wordings, 3 kinds of predictions, 6 findings, rankings of 3, 2 rounds, 2 attempts, 2 re-examinations | retries, failures, the hypothesis loop, deep mode |
| `browser` | 1 run of 2 steps with 1 pause or park, 1 absence or restart, buffer of 3 cut to 2 | what the tab shows |
| `browser_lock` | the same with 1 step | a finding of section 6 |

Property by property:

- `loop`. `ConfirmedIsGrounded`: a confirmed hypothesis is satisfied by its test
  and passes every text gate *on the final evidence*. `SpendingBounded`: no limit
  is exceeded; tokens overshoot by less than one move, since they are charged when
  the move is known. `AbortEndsWithinOneMove`. `Termination`.
- `deep`. `LiveEntryIsTheRun`: Stop and the watchdog act on the loop that is
  running, also after a relaunch. `PauseIsTheLoops`: no loop is blocked on a pause
  that nobody can resolve, no timer is left behind. `ParkedRunHasNoViewer`.
  `AttachedViewerIsCurrent`: attach, replay and broadcast leave no gap.
  `SteerIsOnRecord`: the lead the loop follows was given with the launch or is in
  an event of this run, where accept looks. `StopEndsTheRun`,
  `HeadlessRunSettles` (a run without viewers parks or ends).
- `scan`. `RowsAreClosed`: rows that read running are ticks under way; a crash
  leaves one at most. `SustainedBreach`: compares what is investigated with the true
  readings, through reloads, overrides, aborts and empty ticks.
  `CancelledTickIsQuiet`: also when the scan is on again when the tick settles.
  `ListenerIsServed`. `TicksEnd`: again and again no row reads running, also over
  crashes.
- `inv`. `CountIsHonest`: the active count is the number of slot holders, plus
  those the link failure strands (section 6). `AutomaticLimit`: re-runs may break
  the limit (section 6), alerts and detectors among themselves do not.
  `OncePerWindow`: through restarts, thanks to the database. `RowsFollowRuns`.
- `writeback`. `ConclusionIsMarked`: whichever stale reading is written last, root
  cause and marker agree. `WasIsEarlier`: applying twice does not show a conclusion
  as its own predecessor. `NotesAreOfItsRun`: the steer in the report belongs to
  the run whose conclusion was applied, also after runs that broke off or died with
  the server.
- `discovery`. `QualifiedByConsensus`, `DismissedIsQuiet`, `ToldUntilHeard`.
- `health`. `FeedIsCurrent`: the latest row and the latest event tell what the cache
  has, over overlapping polls, hiding and restarts. `OnlyWatchedIsInvestigated`: a
  poll that outlives its stack or its service starts nothing. `CacheCatchesUp`: an
  older poll may overwrite a newer one, but not for good.
- `providers`. `WriteAtMostOnce`: a tool that writes reaches its upstream once, whatever
  the connection did. `NoMissedStart`: a poller that waits for a viable provider has
  been started when there is one. `FileAgrees`: the file has the choices of the
  operator and no selection computed from what an upstream happened to offer.
  `SelfHeals`: the reconnect tick brings a provider back, whatever tests and rebuilds
  cross it.
- `pipeline`. `WriteRunOnce`: no agent with write tools is started twice.
  `UnavailableIsNotReported`: an unavailable model in any phase leads to an error.
  `DeepModeTestsTheStanding`: deep mode looks first at what the loop ruled out, and
  otherwise at what stands. `InvestigationEnds`.
- `browser`. `AttachedTabShowsTheRun`: a tab that has rendered all it was sent shows
  each step of the investigation's first run and whether it goes on, whatever came first, the page's fetch, the
  replay or the tail, and however the buffer was cut before the last replay.
  `StepsOnlyGrow`: nothing shown of it is rolled back, and no step of any run is shown
  twice or out of order.
- `browser_lock`. `DecidedPauseIsLocked`: an attached tab does not offer a pause that
  was decided. TLC finds it violated.

Why the bounds are enough. The interesting cases are meetings of few parties: two
viewers of which one leaves or arrives while the other decides (`deep`); a run and its
relaunch (two runs are enough for a stale timer, pause, sink or controller to hit the
wrong one); two writers over one reading. Limits of 1 and 2 put every counter at, below
and one before its limit within a few moves; `MaxMoves` 5 is more than the longest chain
of gates (propose, query, follow, test, conclude). `Ticks` 2 with three ticks contains
breach, gap, breach; runs 5 with consensus 2 and 3 contain a sighting, a failed or
skipped run, a missed one and a renewed consensus. Two registry versions tell "stamped
now" from "advanced since". The guard needs the limit plus one investigations, and a
third to see what the second left; the window of 2 on a clock of 3 has a before, an edge
and an after. In `scan`, `deep`, `health` and `discovery` a second service (rule version,
schedule) is independent of the first; what they share (the cap per tick, the slot) is
in `Selections` and in `inv`. Two overlapping polls are enough for an older answer to
overtake a newer one. One provider and one caller meet every label of the test, the
tick, an update and a removal; entries of other names share nothing with it but the
position in the tick's queue. A ranking of three has a leader, a runner-up and one
beyond the two that deep mode re-examines. The buffer of 3 fills within the events of
one run, as that of 2000 does in a long session; two absences are left out of
the run for the size of the state space alone. Two runs in one tab are a deviation
(section 6). The instances with liveness properties use no symmetry.

## 4. Fairness

- `OrchestratorLoop`: `WF(Step)`. Every await of the loop settles: model and tool
  calls are raced against watchdogs, the operator pause against its timer, the park
  pause is assumed to be resolved by somebody (`DeepRun` does not assume it).
  `Abort` and `WallClock` owe nothing.
- `DeepRun`: `WF(RunStep(r))`, for the same reason; it says nothing of a parked
  run, which no action of its own can wake. `SF(Closed(c))`: the heartbeat
  terminates dead sockets, and their close handler runs. `SF(Watchdog)` and
  `SF(Tick)`: intervals fire. It is strong fairness because these callbacks are
  disabled while a microtask is pending, and enabled again whenever it is not; an
  event loop runs a callback that is due. Clients owe nothing: no run relies on a
  decision or a stop.
- `ScanScheduler`: `WF(\E r : Step(r))`, some tick under way goes on, since queries
  have timeouts (there is one at a time, `RowsAreClosed`), and `WF(Boot)`: a
  process that died is started again, by a supervisor or an operator; until then
  nothing can close its row. `Crash` may recur for ever.
- `HealthPoller`: `WF(Fire)`, the interval, and `WF(PollStep(i))`: every call of a poll
  has a timeout or settles. `CacheCatchesUp` asks in its premise that calls stop
  failing and the world holds still.
- `ProviderRegistry`: the reconnect tick goes on (`WF` of `TickBegins`, `TickNext`), tests
  and rebuilds come back with an answer or an error (`WF(TestStep)`, `WF(Rebuilt)`; the
  MCP client bounds its requests), and `SF(AstrayEnds)`: a test whose entry is gone
  rebuilds at most three times and ends. Operators, callers and upstreams owe nothing;
  a test that never came back would stop the tick for good (section 6).
- `InvestigationPipeline`: `WF(Run)`. Calls of the model and of tools end; a call that
  hangs is not bounded by the pipeline itself.
- The other modules state no fairness; they have no liveness property.

## 5. The proofs

Eight modules of theorems; each theorem holds for every value of the constants that satisfies the
named `ASSUME` of its module. `PROJECT.json` lists the theorems under "theorems".

**Orchestrator_proofs**, the loop: `LoopTypeOK`, `LoopSpending`, `LoopConfirm`,
`LoopStop`, from `LoopAssumption`. `SpendingBounded` is not inductive: `stall <=
MaxStall` holds because no move is decided at the limit, which depends on where
the loop is. `Limits` adds, per `pc`, the room that is left (below each limit at
`deciding` and behind it). `Gates` carries what the conclude gates found true
over the await of the health gate, at which no evidence is added. `Stops` says
that a move after Stop can only have been the one under decision: at every label
between the move boundary and the decision, none has been taken since.

**Orchestrator_proofs**, the tab: `BrowserInvariant`, `AttachedTabIsUpToDate`,
`StepsStay`, `BrowserTypes`, `StepsInOrder`, from `BrowserAssumption`.
What a tab shows is a fold over the messages it was sent, and what it should show a
fold over the log, so the invariant relates the two by way of the messages that are
still to come: `Queue`, the part of the buffer the effect will read followed by `down`.
- `Chronicle` is what the log of one run looks like, and what its prefixes fold to: the
  first `Told` steps, nothing else.
- `Posted`: every message of the queue is a row of the log, a `not_live`, or a replay of a
  part of it that had no end; a replay knows the steps that were sent before it
  (`InOrder`); and the view is true of the run (`Viewed`: its steps are some of the run's,
  in order). Where the buffer was cut the view may have a gap, and `Ahead` judges a replay
  by its last step and the number of its steps. `NoGapAhead` is why that is enough: a replay
  in the queue is ahead of the view's last step, or the view has no gap.
- `Tailed`: if the tab is attached and lost nothing since its last replay, or has a replay
  still to read (`Lossless`), there is a place in the queue from which the messages are the
  rows of the log one by one up to its end (`Traced`), so that reading them makes the view
  `Current`. `AttachedTabShowsTheRun` is the case of an empty queue.

What these three say is limited, in the properties themselves, to the time until a second
run is launched on the investigation (`launches`): the theorems have no hypothesis but the
module's assumption, and hold of every behaviour up to its second launch, for a run of any
length, any number of stalls and absences and any buffer. `FirstRunInv`, the invariant, is
`launches <= 1 => BrowserInv`; since `launches` never falls, a state before the second
launch comes from such states only. The limit is not a convenience: behind a second launch
what the properties say is false of the code (section 6). With `MaxRuns = 2` TLC finds a
state against `AttachedTabShowsTheRun` without its `launches = 1` in `browser`'s instance,
and against `StepsOnlyGrow` without its last disjunct with `MaxSteps = 3`, `Cap = 2`,
`Keep = 1` and no stalls: the cut left the tab with step 2 of the first run alone, and a
replay of two steps of the second run, the longer list, takes its place. `BrowserTypes` and
`StepsInOrder` (no step twice, none out of order) hold for any number of runs, from an
invariant of their own (`OrderedInv`), which `StepsStay` uses for its first part.

The folds `Rebuilt` and `Rendered` are recursive functions. That such a function exists and
satisfies its equation (`FoldExists`, `RebuiltSteps`, `RenderedSteps`), and that what a step
of it preserves holds throughout (`UpTo`), is proved from the least counterexample, which
the well-foundedness of `<` provides: the place of an induction scheme.

**DeepRun_proofs**: the conjunction `Inv` of the invariants that `deep` checks is
inductive as it stands (`RegistryAgrees`), after type lemmas on the registry's
operators. `OneLiveRun`, `NoStrandedLoop`, `NoViewerIsParked` and
`NoViewerIsBehind` follow from it, and `LeadsAreOnRecord` is inductive relative to it:
the loop takes a lead from the launch or at an operator pause, whose decision is noted
because a blocked loop is that of the live run. `Refinement` is `Spec => ImplementsLifecycle`:
`Init` maps to `Init`, and under `Inv` every action maps to a step or a stutter of
`RunLifecycle`. `Inv` is needed there: that a launch finds all earlier runs over,
for one, is `LiveEntryIsTheRun`.

**Report_proofs**, the write-back: `WriteBackTypes`, `ReportIsCoherent`, `AuditIsGenuine`,
`NotesAreTrue`. The invariant `IInv` extends what is said of the report to the
readings in flight (`ReportsFine`: any of them may be written next), and adds the
order of the log: events are in the order of their runs (`InOrder`), every
conclusion has the beginning of its run before it (`Begun`), and the current run has
announced itself if its flag says so (`Announced`). Together they give that the steers between
a conclusion and the last beginning before it are of its own run.

**Report_proofs**, the pipeline: `PipelineInvariant`, `PipelineTypes`,
`WriteToolsRunOnce`, `UnavailabilityIsThrown`, `DeepModeIsFair`, from `PipelineAssumption`
and `CorroborationAssumption`. `WriteRunOnce` needs the starts of a call counted by where
the call is (`Called`: a call that is ready has one attempt left), and that only a run which
is not headless arms its calls, whose attempts are then one. `UnavailableIsNotReported`
rests on which calls a step has under way (`Mine`): a step ends with its own calls at
rest, so what is thrown was met in the step that throws. `DeepModeTestsTheStanding` relates
the targets, which deep mode finds again by text, to what the loop demoted: `Looping` keeps
the demotions in the order of the ranking with their texts, and what bore out the hypothesis
at which the loop stopped; `Deep` carries that over to the targets and says whose evidence
each re-test saw. That a text is rejoined with a hypothesis of that text needs the last of a
set of places to exist (`LastPlace`). `EvidenceAccumulates` and `OppositesAreToldApart` say
what the operators of `Corroboration` return for all observations.

**HealthPoller_proofs**: `HealthInvariant`, `HealthTypeOK`, `HealthFeedIsCurrent`,
`HealthOnlyWatched`, from `HealthAssumption`. `FeedIsCurrent` speaks of the cache, which
a restart builds anew from the rows, so it is not inductive: `IInv` adds that rows
agree with events also while the process is down (`Announced`) and the cache with
the rows (`Recorded`). Nothing in it limits the number of polls that overlap.

**ScanScheduler_proofs**: `ScanInvariant`, `ScanTypes`, `OneRowIsOpen`,
`ListenerHasItsTick`, `BreachesAreSustained`, `CancelledIsQuiet`, from `ScanAssumption`.
All of them rest on there being one tick at a time: `Flight` says that the row that is
probed is the one whose controller the scheduler holds, that no other reads running
while the process is up, and that nothing of it is dispatched before its probe is over
and a cancelled one is aborted; `Own`, that the tick under way has a row. `OneOpen`
keeps, while the process is down, that a crash leaves one open row at most. `Backed` (a
counter is at most the streak of readings above the threshold) holds between ticks too,
over every reload, override and restart; the two action properties follow from the step
under it.

**Investigations_proofs**: `InvestigationsInvariant`, `InvestigationsTypes`,
`SlotsAreCounted`, `LimitIsKept`, `RowsTellTheRuns`, `WindowIsKept`, from
`InvestigationsAssumption`. The count is the cardinality of the jobs that hold a slot,
so every step has a lemma on what it does to that set. `IInv` says of each job what its
row may read by how far it is (`Fate`), who may be at which phase (`Asker`: only a
detector can be building with a slot), and that the guard's memory, where it has one,
and the row are at least as young as the job's mark (`Memory`). The last is why the
window holds after a restart: the row stands in for the memory, but for the job that
died before it had one, which `OncePerWindow` excepts.

**PeriodicDiscovery_proofs**: `DiscoveryInvariant`, `DiscoveryTypes`,
`ShownByConsensus`, `DismissedStaysQuiet`, `EveryChannelIsTold`, from
`DiscoveryAssumption`. `QualifiedByConsensus` is not inductive: the next sighting adds
to the count if the row was last seen by the previous successful run, so `Tallied`
bounds each row's count by the streak of the run that saw it last. That there is a
previous successful run, or none, is `Latest`, which every run that begins or ends
carries on to one run more: an induction along the behaviour in place of one over the
list of runs. `Quiet` adds what the dismissal of a removal means while it is being
corroborated, and `Post` what has become of each letter of a tick (heard, tried or still
to do).

**ProviderRegistry_proofs**: `RegistryInvariant`, `RegistryTypes`,
`WritesAreNotReplayed`, `PollerIsToldOf`, `FileIsTheRegistry`, from
`RegistryAssumption`. `Tally` bounds how often a call was executed by how far it is: the
answer that was lost and the retry after the rebuild are different labels. `Ledger` says
what the boot still owes the file (`Booked`), what each request is about (`TasksFit`)
and which requests there can be in each phase of the process (`Phases`). `Watched` says
for each provider apart which test has yet to announce it; for all of them at once the
invariant would not survive the removal of one. Steps that leave a part alone are dealt
with by its frame (`TallyFrame`, `LedgerFrame`, `ViewFrame`).

Every safety property and action property of the passing runs has a theorem. Checked by
TLC only:

- liveness, which is out of the prover's reach here: `Termination`, `StopEndsTheRun`,
  `HeadlessRunSettles`, `TicksEnd`, `CacheCatchesUp`, `SelfHeals`, `InvestigationEnds`;
- that the actions of the models are enabled where the code would go on (deadlock, in the
  runs that check it).

## 6. Findings

**An accepted conclusion disappears** (`writeback_lost`, which TLC finds violated). A deep
mode pass writes back the report it read before its await. `src/server/ws-handler.ts`
1147 against 935.

**A decided pause stays on offer** (`browser_lock`, which TLC finds violated). The lock of
a decision is persisted "so a tab that reattaches before the next step replays it and
disables its (now-dead) pause controls" (`src/server/ws-handler.ts` 1498), but a replay is
judged by its steps alone: a tab that lacks none of them passes it over with the lock it
carries (`src/web/contexts/OrchestratorRunContext.tsx` 245-255). The page's fetch reads the
log while the pause is pending, another tab decides, the subscription is answered by a
replay with the lock, and the fetched rows, which end with the pause, are shown first. So it
is for a tab whose socket drops at the pause and comes back after the decision. The next
step takes the controls away; until then a decision made with them is ignored by the lock.

What follows was seen on the way. The models have it as the code has it, and the
properties are stated so that they say what holds nevertheless.

Deep runs and reports:

- a decision that arrives while no pause is pending (the lock is open before the first
  prompt, and again after a pause timed out) is persisted and broadcast with its lead,
  although `resolvePause` has nobody to deliver it to; accept later reports the lead as
  the operator's steer (`ws-handler.ts` 1483-1501). What holds is
  that a lead taken at a pause is on record (`SteerIsOnRecord`);
- a lead given with the launch seeds the loop's context and every prompt follows it
  (`ws-handler.ts` 595, 687; `orchestrator.ts` 336), but no event carries it: accept, which
  reads the `decision_locked` events only (862-869), shows no steer for a run that was
  steered at its launch;
- the concurrency limit has a gap: a re-run waits for its agents between check and
  mark (`ws-handler.ts` 1377-1408, `investigation-dedup.ts` 71), so `AutomaticLimit`
  excepts re-runs; an investigation started in the chat neither asks the guard nor
  counts in it (`ws-handler.ts` 1952);
- detaching a sink that was never attached restamps the empty clock
  (`orchestrator-run-registry.ts` 165); with `autoRefresh` a connection awaits its agents
  before its handlers are registered (`ws-handler.ts` 321);
- a prediction that no observation speaks to is stored as inconclusive, where
  `docs/orchestrator-agentic-loop.md` 102 leaves its hypothesis open;
- a run can end as "no incident" without having ruled anything out
  (`orchestrator.ts` 419, comment at 108);
- a decision by a client that is not attached wakes a parked run
  (`ws-handler.ts` 1501, `orchestrator-run-registry.ts` 48);
- an accept of an earlier conclusion is refused while a run is live at its
  beginning, but a run may be launched during it (`ws-handler.ts` 796, 933);

Scan, guard and discovery:

- off does not mean off: `reloadAllScanSchedulers` passes over stacks whose metrics
  provider is not viable, and nothing applies the settings later
  (`stack-manager.ts` 727-739);
- hysteresis counters that a reload has reset are rewritten by the probe that was in
  flight (`anomaly-probe.ts` 596, `scan-scheduler.ts` 252);
- the jitter timer of a stack that was reaped meanwhile starts its scheduler
  (`stack-manager.ts` 707, 618);
- a second `scan:trigger` takes the listener of the first (`ws-handler.ts` 1568);
- two re-runs that wait for their agents at once both pass the cooldown
  (`ws-handler.ts` 1377, `investigation-dedup.ts` 63);
- a scan hit whose link to its run cannot be written keeps its slot until the
  next restart (`index.ts` 496, `investigation-dedup.ts` 119);
- discovery: a suggestion refused because the registry has advanced stays refused
  as long as its streak lasts (`routes.ts` 2942), though the page says to refresh
  and review again; a suggestion that was reset is accepted without the check of
  the version; removal rows of services that are no longer registered are not
  deleted; a removal dismissed during its corroboration is put back, and is
  visible until the next tick if one run is enough; a reset suggestion that
  qualifies again is not announced again.

Health:

- `degraded` is a documented status that nothing produces; a cached datasource uid is
  never refreshed, so that a replaced datasource leaves every later poll without an
  answer; a target that is down is masked while replicas are reported;
- the jitter timer that fires after its stack was deleted or reaped starts the poller
  of that stack, and a poll in flight at the deletion writes rows for it again;
- the header promises investigations at start for services that are down; the cache
  warmed from the rows suppresses them (`service-health-poller.ts` 243-256).

Providers (`mcp/provider-registry.ts`):

- an update whose second listing throws has taken the old entry out and leaves it in
  the file only; at boot such a throw ends the process;
- a listing that came back empty, because the library swallowed its failure, makes the
  defaults of a new provider an explicitly empty selection;
- the failure of a tool call bound to an older client tears down the fresh one, and
  tools that were wrapped stay bound to the client they were wrapped with;
- two concurrent adds of one name are both acknowledged;
- a test that hangs stops the reconnect tick for ever.

Pipeline:

- deep mode is documented to carry the observations of the loop as its baseline
  (`workflows/steps/deep-mode.ts` 81-89), but the caller passes none
  (`server/agents.ts` 703): a re-query that fails in refute mode shakes a confirmed cause;
- predictions are joined to ruled-out hypotheses by their text: equal wordings
  re-test the last prediction;
- a re-query that fails lets a prediction of absence or presence count as absent, and the
  loop rules its hypothesis out;
- the anomaly agent never runs, since the adapter always passes a message.

Browser (`web/contexts/OrchestratorRunContext.tsx`):

- for the same reason as in the finding above, a pause or an end that was missed while the socket was down is not shown; a run that ends
  or dies with the server meanwhile goes on running in the tab until the page is reloaded;
- a second run on the same investigation is hidden behind the higher `lastSeq` of the
  first and mixed with its steps when the tab missed its beginning, which is why `browser` has
  one run and its properties speak of the first;
- when the buffer is cut before the reducer has rendered several messages, all but the last
  are lost until the next replay (343-346 says that only the tail is new);
- `decide` locks the controls although the socket may have dropped the decision.

## 7. What is not modelled

- What language models write, beyond the class of their answer. Texts, prompts,
  token accounting by model, confidence scores.
- Query strings, thresholds on real numbers, units: a reading is a breach or not.
  The pure functions around them have unit tests and no state; so have
  `workflows/steps/validate.ts` and the rest of the discovery's parsing.
- Rows that are malformed JSON, disk errors, and SQLite failing except where the
  code handles it.
- Several server processes over one database; the code has no provision for them.
- Retention of old rows and events.
- The Kubernetes event poller. Its overlapping polls (`reload` starts one while another
  is in flight) may report one restart twice, and a tick that fails or is cut by its cap
  loses what it saw; both are among what `Detected` of `Investigations` may do, so the
  guard's properties hold of it, but that a crash is noticed at all is not stated.
- In `DeepRun`, a restart of the server (the registry is empty afterwards and no
  loop is alive, so the state is that of `Init` plus a log; `ReportWriteBack` and
  `BrowserRun` have it), and the awaits inside one move, which are
  `OrchestratorLoop`'s.
- In `BrowserRun`, the `deep_mode` messages, accepting a report, a launch that is refused
  because a run is live, and everything that is display only.
- In `ScanScheduler`, a database error at the insertion of a tick's row, which stands
  before the `try` (`scan-scheduler.ts` 414-417): `ticking` would stay set, and no tick
  would run, until the stack's scheduler is built anew. Also the tracks of rules written by discovery and the per-tick
  choice by severity (any choice within the cap).
- In `Investigations`, matching an alert to a service, signatures and rate limit.
- In `HealthPoller`, the default stack and the longest-prefix match of labels to
  services; in `ProviderRegistry`, the client stub of a provider's test
  failing at its construction, what tools do, `config.yaml` being edited, and the
  agents' caches of tools.
- In `InvestigationPipeline`, the time range, severity corrections and the backfill of
  evidence lists.
- In `PeriodicDiscovery`, read marks, payloads, drift of rules, the statically
  configured services, several stacks (`resetOrphanedRunningRuns` is not scoped to
  its stack: with several, a restart of one closes the open runs of the others,
  which one process does at boot only).
- Most of the repository's lines are pages, routes that read the database, prompts,
  formatting, fixtures and pure functions over strings. They hold no state that
  outlives a call, and are listed as `not_modelled` in `PROJECT.json`, each with its
  reason.

## 8. Plan

The modules were written in the order loop, registry and handlers, scan, guard,
write-back, discovery, health, providers, pipeline, browser: what a user trusts first,
then what it rests on. Next:

1. Several runs in one tab: what still holds of the view when the log holds more than one
   (beyond `StepsInOrder`), as a property to check and prove.
2. Pure algorithms against reference definitions: the rate limiter's window.
3. Abstract specifications: a guard with atomic check-and-mark, implemented by the
   detectors' part of `Investigations`; a consensus counter implemented by the inbox.
4. The window of a chat dispatch (confirm, cancel), discovery over the socket
   (supersede, pending result), the Kubernetes event poller's cache.
