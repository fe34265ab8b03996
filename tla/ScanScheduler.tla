---------------------------- MODULE ScanScheduler ----------------------------
(***************************************************************************)
(* The proactive scan of one monitoring stack: ScanScheduler in            *)
(* src/server/scan-scheduler.ts with the probe it runs (anomaly-probe.ts), *)
(* the scan_runs rows it writes (scan-run-store.ts) and the ways it is     *)
(* started, reconfigured and torn down (stack-manager.ts, routes.ts).      *)
(*                                                                         *)
(* A tick is synchronous up to its probe and synchronous after it; while   *)
(* the probe waits for the metrics backend anything may happen.  Queries   *)
(* are abstracted to whether a service breaches its rule.  There is one    *)
(* rule name; its versions differ in query or threshold.                   *)
(***************************************************************************)
EXTENDS Integers, Sequences, FiniteSetsExt

CONSTANTS
  Services,       \* visible services of the stack's registry
  Versions,       \* versions of the probe rule an operator may configure
  Crons,          \* schedules an operator may configure
  Configs,        \* settings an operator may save
  Overrides,      \* per-service overrides an operator may set (versions, "disabled")
  Clients,        \* browser connections that may trigger a scan
  Ticks,          \* consecutiveTicks of every version of the rule
  Cap,            \* scan.maxInvestigationsPerTick
  MaxRuns,        \* model bound: ticks that begin
  MaxKicks        \* model bound: setImmediate ticks pending at once

Config == [enabled : BOOLEAN, cron : Crons, rule : Versions \cup {"none"}]

ASSUME ScanAssumption ==
  /\ {Ticks, Cap, MaxRuns, MaxKicks} \subseteq Nat
  /\ Ticks > 0 /\ Cap > 0
  /\ {"none", "disabled"} \cap Versions = {} /\ "none" \notin Crons
  /\ Overrides \subseteq Versions \cup {"disabled"} /\ Configs \subseteq Config

Origins  == {"default", "override"}
NoClient == "none"

VARIABLES
  up,          \* the server process is running
  live,        \* the stack is in the stacks map (not reaped)
  viable,      \* hasViableMetricsProvider
  settings,    \* the effective config according to the settings table
  override,    \* the scan override of each service in the database
  scan,        \* the scheduler's own config
  cron,        \* the schedule its Cron runs, "none" without one
  stopped, ticking,
  ac,          \* run whose AbortController is this.ac, 0 without one
  starter,     \* how the first start() will come: a jitter timer, a provider, or not
  kicks,       \* ticks queued with setImmediate
  counter,     \* consecutiveState
  runs,        \* the scan_runs rows, each with what its tick is doing
  listener,    \* the client that events are forwarded to
  awaiting,    \* clients whose scan:trigger waits for its tick
  streak,      \* what each service's readings really were (history)
  cancelled    \* runs whose scan was switched off or torn down meanwhile (history)

config  == <<settings, override, scan>>
history == <<streak, cancelled>>
clients == <<listener, awaiting>>
vars    == <<up, live, viable, config, cron, stopped, ticking, ac, starter, kicks,
             counter, runs, clients, history>>

\* How a closed row ended (complete, skipped, failed) is for people to read: here it
\* is "closed".
Run == [status : {"running", "closed"},
        phase : {"probing", "over"},        \* does its tick still run
        aborted : BOOLEAN,
        rules : [Services -> Versions \cup {"none"}],  \* rule the tick probes each service with
        origin : [Services -> Origins],
        by : Clients \cup {NoClient},
        dispatched : SUBSET Services]       \* services linked to the run

NoRules    == [s \in Services |-> "none"]
ByDefault  == [s \in Services |-> "default"]
NoCounts   == [k \in Services \X Origins |-> 0]
NoStreak   == [s \in Services |-> 0]
InFlight   == {r \in DOMAIN runs : runs[r].phase = "probing"}

\* The scheduler of a process that has just been started.
Fresh ==
  /\ cron' = "none" /\ stopped' = FALSE /\ ticking' = FALSE /\ ac' = 0
  /\ kicks' = 0 /\ counter' = NoCounts /\ streak' = NoStreak
  /\ listener' = NoClient /\ awaiting' = {}

Init ==
  /\ up = FALSE /\ live = TRUE /\ viable \in BOOLEAN
  /\ settings \in Configs
  /\ override = [s \in Services |-> "none"]
  /\ scan = settings
  /\ cron = "none" /\ stopped = FALSE /\ ticking = FALSE /\ ac = 0
  /\ starter = "none" /\ kicks = 0 /\ counter = NoCounts
  /\ runs = <<>>
  /\ listener = NoClient /\ awaiting = {}
  /\ streak = NoStreak /\ cancelled = {}

-----------------------------------------------------------------------------
(* Starting and stopping the scheduler.                                    *)

\* start() under config c, when the Cron object is the one in k.
StartWith(c, k) ==
  IF k # "none" \/ ~c.enabled
  THEN cron' = k /\ UNCHANGED <<stopped, kicks>>
  ELSE cron' = c.cron /\ stopped' = FALSE /\ kicks' = kicks + 1

\* Mutant: the tick that is under way is left alone.
CancelNothing == UNCHANGED runs

\* this.ac?.abort()
Cancel == runs' = [r \in DOMAIN runs |-> IF r = ac THEN [runs[r] EXCEPT !.aborted = TRUE] ELSE runs[r]]

\* Mutant: a restart leaves the rows of the dead process running.
SweepNothing(row) == row

\* sweepStaleScanRuns on the row of a tick that died with its process.
Swept(row) == IF row.status = "running" THEN [row EXCEPT !.status = "closed"] ELSE row

\* Boot: sweepStaleScanRuns, initializeStack, startAllPollers.
Boot ==
  /\ ~up /\ up' = TRUE
  /\ runs' = [r \in DOMAIN runs |-> Swept(runs[r])]
  /\ starter' = IF ~live THEN "none" ELSE IF viable THEN "timer" ELSE "skipped"
  /\ Fresh
  /\ UNCHANGED <<live, viable, config, cancelled>>

\* The process ends, whatever it was doing.
Crash ==
  /\ up /\ up' = FALSE
  /\ runs' = [r \in DOMAIN runs |-> [runs[r] EXCEPT !.phase = "over"]]
  /\ scan' = settings
  /\ starter' = "none" /\ cancelled' = {}
  /\ Fresh
  /\ UNCHANGED <<live, viable, settings, override>>

\* The jitter timer of startAllPollers.
JitterElapsed ==
  /\ up /\ starter = "timer"
  /\ starter' = "none"
  /\ StartWith(scan, cron)
  /\ UNCHANGED <<up, live, viable, config, ticking, ac, counter, runs, clients, history>>

\* A metrics provider connects or breaks; maybeStartSkippedPoller.
ProviderChanges ==
  /\ up /\ viable' = ~viable
  /\ IF viable' /\ live /\ starter = "skipped"
     THEN starter' = "none" /\ StartWith(scan, cron)
     ELSE UNCHANGED <<starter, cron, stopped, kicks>>
  /\ UNCHANGED <<up, live, config, ticking, ac, counter, runs, clients, history>>

\* runTtlReaper soft-deletes the stack: stop(), and its context is dropped.
Reap ==
  /\ up /\ live /\ live' = FALSE
  /\ stopped' = TRUE /\ cron' = "none"
  /\ Cancel
  /\ cancelled' = cancelled \cup InFlight
  /\ starter' = IF starter = "skipped" THEN "none" ELSE starter
  /\ UNCHANGED <<up, viable, config, ticking, ac, kicks, counter, clients, streak>>

-----------------------------------------------------------------------------
(* Reconfiguration.                                                        *)

\* Mutant: counters survive a change of the rule.
KeepForRule(old, new) == counter

\* resetHysteresisForChangedRules
ResetForRule(old, new) == IF old \in {"none", new} THEN counter ELSE NoCounts

\* reload() with config c.
Reload(c) ==
  /\ counter' = ResetForRule(scan.rule, c.rule)
  /\ scan' = c
  /\ \/ /\ scan.enabled /\ ~c.enabled
        /\ Cancel /\ cron' = "none" /\ UNCHANGED <<stopped, kicks>>
     \/ /\ ~scan.enabled /\ c.enabled
        /\ StartWith(c, cron) /\ UNCHANGED runs
     \/ /\ scan.enabled = c.enabled
        /\ UNCHANGED runs
        /\ IF c.enabled /\ c.cron # scan.cron
           THEN StartWith(c, "none")
           ELSE UNCHANGED <<cron, stopped, kicks>>

\* PUT /api/scan/settings: the transaction, then reloadAllScanSchedulers, which
\* passes over stacks without a viable metrics provider.
PutSettings(c) ==
  /\ up /\ kicks < MaxKicks
  /\ c # settings /\ settings' = c
  /\ IF live /\ viable
     THEN /\ Reload(c)
          /\ cancelled' = IF scan.enabled /\ ~c.enabled THEN cancelled \cup InFlight ELSE cancelled
     ELSE UNCHANGED <<scan, counter, runs, cron, stopped, kicks, cancelled>>
  /\ UNCHANGED <<up, live, viable, override, ticking, ac, starter, clients, streak>>

\* PUT or DELETE of a service's scan override, resetHysteresisForService.
PutOverride(s, v) ==
  /\ up /\ live
  /\ override[s] # v
  /\ override' = [override EXCEPT ![s] = v]
  /\ counter' = [k \in DOMAIN counter |-> IF k[1] = s THEN 0 ELSE counter[k]]
  /\ UNCHANGED <<up, live, viable, settings, scan, cron, stopped, ticking, ac, starter,
                 kicks, runs, clients, history>>

-----------------------------------------------------------------------------
(* One tick.                                                               *)

\* The rule each service is probed with, by the config the tick starts with.
RulesNow == [s \in Services |->
  CASE override[s] = "none"     -> scan.rule
    [] override[s] = "disabled" -> "none"
    [] OTHER                    -> override[s]]

OriginsNow == [s \in Services |-> IF override[s] = "none" THEN "default" ELSE "override"]

NewRun(client) ==
  [status |-> "running", phase |-> "probing", aborted |-> FALSE,
   rules |-> RulesNow, origin |-> OriginsNow, by |-> client, dispatched |-> {}]

\* finalize, skip or fail closes the row: the first of them counts (the listener of a
\* completed run may throw, the fail of the catch block is then ignored).
Ended(row) ==
  [row EXCEPT !.status = "closed", !.phase = "over", !.aborted = FALSE,
              !.rules = NoRules, !.origin = ByDefault, !.by = NoClient]

\* Mutant: a tick does not wait for the previous one.
IdleUnlessStopped == ~stopped

\* The guards of tick(), before anything is written.
Idle == ~stopped /\ ~ticking

\* The tick begins: its row, its controller and its snapshot of the overrides.  Without
\* a datasource or without services, or when reading them throws, it is over at once.
Begin(client) ==
  \/ /\ runs' = Append(runs, NewRun(client))
     /\ ticking' = TRUE /\ ac' = Len(runs) + 1
  \/ /\ runs' = Append(runs, Ended(NewRun(client)))
     /\ UNCHANGED <<ticking, ac>>

\* The Cron fires, or a tick queued by start() comes up.
AutomaticTick ==
  /\ up /\ Len(runs) < MaxRuns
  /\ \/ cron # "none" /\ UNCHANGED kicks
     \/ kicks > 0 /\ kicks' = kicks - 1
  /\ IF Idle THEN Begin(NoClient) ELSE UNCHANGED <<runs, ticking, ac>>
  /\ UNCHANGED <<up, live, viable, config, cron, stopped, starter, counter, clients, history>>

Triggerable == cron # "none" \/ scan.enabled

\* POST /api/scan/trigger
HttpTrigger ==
  /\ up /\ live /\ Len(runs) < MaxRuns
  /\ scan.enabled /\ ~ticking
  /\ Triggerable /\ Idle
  /\ Begin(NoClient)
  /\ UNCHANGED <<up, live, viable, config, cron, stopped, starter, kicks, counter, clients, history>>

\* scan:trigger over the socket of a stack that is served: the connection becomes
\* the listener until the call returns, at once unless a tick begins and probes.
SocketTrigger(c) ==
  /\ up /\ live /\ Len(runs) < MaxRuns
  /\ IF Triggerable /\ Idle
     THEN Begin(c)
     ELSE UNCHANGED <<runs, ticking, ac>>
  /\ IF ac' # ac
     THEN listener' = c /\ awaiting' = awaiting \cup {c}
     ELSE listener' = NoClient /\ UNCHANGED awaiting
  /\ UNCHANGED <<up, live, viable, config, cron, stopped, starter, kicks, counter, history>>

\* Mutant: a reading below the threshold leaves the counter alone.
KeptCount(n, breached) == IF breached THEN n + 1 ELSE n

\* The new count of a rule that was probed.
Count(n, breached) == IF breached THEN n + 1 ELSE 0

CountCapped(n, breached) == IF Count(n, breached) > Ticks THEN Ticks ELSE Count(n, breached)

\* runProbe scored the readings: counters of probed rules move.  All others it has
\* collected as orphans before the queries; nobody reads a counter in between.
Scored(row, breach) ==
  [k \in Services \X Origins |->
     IF row.rules[k[1]] # "none" /\ row.origin[k[1]] = k[2]
     THEN CountCapped(counter[k], k[1] \in breach) ELSE 0]

Hits(row, breach, counts) ==
  {s \in breach : row.rules[s] # "none" /\ counts[<<s, row.origin[s]>>] >= Ticks}

\* What the readings really say, kept per service.
Seen(row, breach) ==
  [s \in Services |->
     IF s \in breach /\ row.rules[s] # "none" THEN Min({Ticks, streak[s] + 1}) ELSE 0]

\* The first Cap of the hits that were not investigated recently, by severity.
Selections(hits) ==
  UNION {kSubset(Min({Cap, Cardinality(fresh)}), fresh) : fresh \in SUBSET hits}

\* Mutant: the listener stays when its call returns.
LeaveListening(r) ==
  /\ ticking' = FALSE /\ ac' = 0
  /\ awaiting' = awaiting \ {runs[r].by} /\ UNCHANGED listener
  /\ cancelled' = cancelled \ {r}

\* The finally block, and the reply to the client that triggered the tick.
Leave(r) ==
  /\ ticking' = FALSE /\ ac' = 0
  /\ IF runs[r].by \in awaiting
     THEN awaiting' = awaiting \ {runs[r].by} /\ listener' = NoClient
     ELSE UNCHANGED clients
  /\ cancelled' = cancelled \ {r}

\* The probe could not run: no metric tool (an empty result, nothing is scored),
\* or it threw.
ProbeFails(r) ==
  /\ up /\ r \in InFlight
  /\ runs' = [runs EXCEPT ![r] = Ended(@)]
  /\ Leave(r)
  /\ UNCHANGED <<up, live, viable, config, cron, stopped, starter, kicks, counter, streak>>

\* The probe settles with the services in breach, and the tick runs to its end:
\* aborted, or triage and dispatch of what the shared guard lets through, which may
\* fail half way.  After an abort the open queries count as not breached.
ProbeSettles(r, breach) ==
  /\ up /\ r \in InFlight
  /\ counter' = Scored(runs[r], breach)
  /\ streak' = Seen(runs[r], breach)
  /\ IF stopped \/ runs[r].aborted
     THEN runs' = [runs EXCEPT ![r] = Ended(@)]
     ELSE \E chosen \in Selections(Hits(runs[r], breach, counter')) :
            IF chosen # {} /\ ~live
            THEN runs' = [runs EXCEPT ![r] = Ended(@)]
            ELSE \E started \in SUBSET chosen :
                   runs' = [runs EXCEPT ![r] = Ended([@ EXCEPT !.dispatched = started])]
  /\ Leave(r)
  /\ UNCHANGED <<up, live, viable, config, cron, stopped, starter, kicks>>

Step(r) == ProbeFails(r) \/ \E breach \in SUBSET Services : ProbeSettles(r, breach)

Next ==
  \/ Boot \/ Crash \/ JitterElapsed \/ ProviderChanges \/ Reap
  \/ \E c \in Configs : PutSettings(c)
  \/ \E s \in Services, v \in Overrides \cup {"none"} : PutOverride(s, v)
  \/ AutomaticTick \/ HttpTrigger
  \/ \E c \in Clients : SocketTrigger(c)
  \/ \E r \in 1..MaxRuns : Step(r)

\* Every query is bounded by a timeout, and the process is restarted.
Fairness == WF_vars(Boot) /\ WF_vars(\E r \in 1..MaxRuns : Step(r))

Spec == Init /\ [][Next]_vars /\ Fairness

-----------------------------------------------------------------------------
(* Properties.                                                             *)

TypeOK ==
  /\ {up, live, viable, stopped, ticking} \subseteq BOOLEAN
  /\ settings \in Config /\ scan \in Config
  /\ override \in [Services -> Versions \cup {"none", "disabled"}]
  /\ cron \in Crons \cup {"none"}
  /\ ac \in 0..Len(runs)
  /\ starter \in {"none", "timer", "skipped"}
  /\ kicks \in Nat
  /\ counter \in [Services \X Origins -> 0..Ticks]
  /\ runs \in Seq(Run)
  /\ listener \in Clients \cup {NoClient} /\ awaiting \subseteq Clients
  /\ streak \in [Services -> 0..Ticks]
  /\ cancelled \subseteq DOMAIN runs

\* "Exactly one of finalize/skip/fail": while the server runs, the only row that
\* reads running is that of the tick under way; a crash leaves at most one, which
\* the next boot closes.
RowsAreClosed ==
  LET running == {r \in DOMAIN runs : runs[r].status = "running"}
  IN  /\ up => running = InFlight
      /\ Cardinality(running) <= 1

\* Events go to a connection for the duration of its trigger: a listener that is set
\* has a tick under way that this connection began and waits for.
ListenerIsServed ==
  listener # NoClient =>
    /\ listener \in awaiting
    /\ \E r \in InFlight : runs[r].by = listener

\* Hysteresis: nobody is investigated on fewer than Ticks consecutive readings
\* above the threshold, whatever reloads, overrides, aborts and empty ticks lie
\* between them.  (Readings of the service, whatever the version of its rule.)
SustainedBreach ==
  [][\A r \in InFlight : \A s \in runs'[r].dispatched : streak'[s] >= Ticks]_vars

\* "an in-flight tick is actually cancelled": a tick during which the scan was
\* switched off on this scheduler, or its stack torn down, starts no investigation,
\* also when the scan has been switched on again meanwhile.
CancelledTickIsQuiet ==
  [][\A r \in InFlight \cap cancelled : runs'[r].dispatched = {}]_vars

\* A probe pass ends, and its row is closed, also over a crash: again and again no row
\* reads running.
TicksEnd == []<>(\A r \in DOMAIN runs : runs[r].status # "running")

=============================================================================
