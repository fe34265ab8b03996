----------------------------- MODULE HealthPoller -----------------------------
(***************************************************************************)
(* The health of a stack's services: ServiceHealthPoller                   *)
(* (src/server/service-health-poller.ts), how StackManager starts and      *)
(* stops it (stack-manager.ts), the rows and events it leaves and the      *)
(* investigations its transitions start (index.ts).  One stack that is not *)
(* the default one.                                                        *)
(*                                                                         *)
(* A poll takes the names of the services, waits for its tools, waits for  *)
(* its queries, and does the rest in one synchronous step.  The interval   *)
(* fires whether or not the poll before has come to its end, and a poll    *)
(* outlives stop().  The three batches of replica metrics are one class    *)
(* here (silent at the first look), those of up and of Consul another, and *)
(* the queries of a poll are answered at one moment; that an entry belongs *)
(* to a service, by the longest prefix of its labels, is taken as given,   *)
(* and config.yaml lists no service of its own.                            *)
(***************************************************************************)
EXTENDS Naturals, FiniteSets

CONSTANTS
  Services,
  Readings,     \* what the metrics backend may hold about a service
  MaxInFlight   \* model bound: polls that have not come to their end

Values == {"one", "zero", "nan"}

ASSUME HealthAssumption ==
  /\ Readings \subseteq [silent : SUBSET Values, loud : SUBSET Values]
  /\ MaxInFlight \in Nat \ {0}

Statuses == {"healthy", "down", "unknown"}
Slots    == 1..MaxInFlight
NoAnswer == [s \in Services |-> {}]

VARIABLES
  up,        \* the server process is running
  life,      \* of the stack: not created yet, in the stacks map, gone from it
  starter,   \* how the first start() will come: a jitter timer, a provider, or not
  interval,  \* the poller has an interval
  world,     \* what the backend holds about each service
  registry,  \* services of services.yaml
  hidden,    \* hidden_services
  uid,       \* cachedPromDsUid: none, the datasource's, one that was replaced
  cache,     \* cachedHealth, "none" for a service that is not in it
  rows,      \* the latest service_health_checks row of each service
  feed,      \* the latest service_health_changed event of each service
  quiet,     \* services whose present status was no transition (history)
  polls,     \* the polls that are under way
  marked     \* services the guard remembers as investigated

stack  == <<up, life, starter>>
config == <<registry, hidden>>
record == <<cache, rows, feed, quiet>>
vars   == <<stack, interval, world, config, uid, record, polls, marked>>

Poll == [at : {"none", "tools", "queries", "answered"},
         names : SUBSET Services,
         silent : [Services -> SUBSET Values], loud : [Services -> SUBSET Values]]

NoPoll == [at |-> "none", names |-> {}, silent |-> NoAnswer, loud |-> NoAnswer]

Visible == registry \ hidden
Unread  == [s \in Services |-> "none"]

Init ==
  /\ up = FALSE /\ life \in {"none", "live"} /\ starter = "none" /\ interval = FALSE
  /\ world \in [Services -> Readings]
  /\ registry = Services /\ hidden = {} /\ uid = "none"
  /\ cache = Unread /\ rows = Unread /\ feed = Unread /\ quiet = {}
  /\ polls = [i \in Slots |-> NoPoll]
  /\ marked = {}

-----------------------------------------------------------------------------
(* What a poll concludes about a service.                                  *)

\* matchResultsToServices on the entries of one service in one batch
Matched(values) ==
  IF "one" \in values THEN "healthy" ELSE IF "zero" \in values THEN "down" ELSE "unknown"

\* "healthy > down > unknown" over the batches, no match is unknown
Verdict(silent, loud) ==
  LET found == {Matched(silent), Matched(loud)}
  IN  IF "healthy" \in found THEN "healthy" ELSE IF "down" \in found THEN "down" ELSE "unknown"

\* downViaUp
DownViaUp(silent, loud) == Verdict(silent, loud) = "down" /\ Matched(loud) = "down"

\* Mutant: losing sight of a service is no transition.
IsTransitionIfSeen(previous, status, viaUp) ==
  /\ status # "unknown"
  /\ IF previous # "none" THEN previous # status ELSE status = "down" /\ viaUp

\* A transition from the cached status, or at the first look.
IsTransition(previous, status, viaUp) ==
  IF previous # "none" THEN previous # status ELSE status = "down" /\ viaUp

-----------------------------------------------------------------------------
(* Polls.                                                                  *)

Free == {i \in Slots : polls[i].at = "none"}

\* Mutant: a new poll gives up the one before it.
BeginSuperseding ==
  IF Visible = {}
  THEN UNCHANGED polls
  ELSE \E i \in Free :
         /\ \A j \in Free : i <= j
         /\ polls' = [j \in Slots |->
              IF j = i THEN [NoPoll EXCEPT !.at = "tools", !.names = Visible] ELSE NoPoll]

\* poll() up to its first await.
Begin ==
  IF Visible = {}
  THEN UNCHANGED polls
  ELSE \E i \in Free : 
         /\ \A j \in Free : i <= j
         /\ polls' = [polls EXCEPT ![i] = [NoPoll EXCEPT !.at = "tools", !.names = Visible]]

\* start()
Start == interval' = TRUE /\ Begin

\* The interval of setInterval.
Fire ==
  /\ up /\ interval /\ Begin
  /\ UNCHANGED <<stack, interval, world, config, uid, record, marked>>

\* getToolsByRole fails or has no metric query tool: the poll is skipped.
ToolsFail(i) ==
  /\ up /\ polls[i].at = "tools"
  /\ polls' = [polls EXCEPT ![i] = NoPoll]
  /\ UNCHANGED <<stack, interval, world, config, uid, record, marked>>

\* The tools are there, the datasource is looked up unless it is known, the queries go out.
AskBackend(i) ==
  /\ up /\ polls[i].at = "tools"
  /\ polls' = [polls EXCEPT ![i].at = "queries"]
  /\ uid' \in IF uid = "none" THEN {"none", "current"} ELSE {uid}
  /\ UNCHANGED <<stack, interval, world, config, record, marked>>

\* What a poll sees of one class of batches: a query that fails counts as empty.
Seen(i, class, failed) ==
  [s \in Services |-> IF s \in polls[i].names /\ class \notin failed THEN world[s][class] ELSE {}]

Answer(i, failed) ==
  /\ up /\ polls[i].at = "queries"
  /\ polls' = [polls EXCEPT ![i] = [at |-> "answered", names |-> @.names,
                   silent |-> Seen(i, "silent", failed), loud |-> Seen(i, "loud", failed)]]
  /\ UNCHANGED <<stack, interval, world, config, uid, record, marked>>

\* The queries are answered as the backend stands now.
Answered(i) == uid # "replaced" /\ Answer(i, {})

\* runQuery fails; with a datasource that was replaced it always does.
QueriesFail(i) ==
  \E failed \in SUBSET {"silent", "loud"} \ {{}} :
    (uid = "replaced" => failed = {"silent", "loud"}) /\ Answer(i, failed)

\* Mutant: a dispatcher that has kept the context of its stack.
InvestigableAnywhere(s, from, to) ==
  /\ to = "down" /\ from \in {"healthy", "unknown"}
  /\ s \notin hidden /\ s \notin marked /\ s \in registry

\* onHealthTransition up to markStarted: getContext throws for a stack that is gone.
Investigable(s, from, to) ==
  /\ to = "down" /\ from \in {"healthy", "unknown"}
  /\ s \notin hidden /\ s \notin marked
  /\ life = "live" /\ s \in registry

\* The map a poll replaces the cache by.
CachedAfter(names, status) == [s \in Services |-> IF s \in names THEN status[s] ELSE "none"]

\* poll() once its queries are answered: transitions, events, rows, the cache.
Conclude(i) ==
  LET p      == polls[i]
      status == [s \in Services |-> Verdict(p.silent[s], p.loud[s])]
      moved  == {s \in p.names :
                   IsTransition(cache[s], status[s], DownViaUp(p.silent[s], p.loud[s]))}
      From(s) == IF cache[s] = "none" THEN "unknown" ELSE cache[s]
      known  == {s \in moved : Investigable(s, From(s), status[s])}
  IN  /\ up /\ p.at = "answered"
      /\ feed' = [s \in Services |-> IF s \in moved THEN status[s] ELSE feed[s]]
      /\ rows' = [s \in Services |-> IF s \in p.names THEN status[s] ELSE rows[s]]
      /\ cache' = CachedAfter(p.names, status)
      /\ quiet' = (quiet \ moved) \cup {s \in p.names \ moved : cache[s] = "none"}
      /\ \E granted \in SUBSET known : marked' = marked \cup granted
      /\ polls' = [polls EXCEPT ![i] = NoPoll]
      /\ UNCHANGED <<stack, interval, world, config, uid>>

-----------------------------------------------------------------------------
(* The stack and its poller.                                               *)

\* The constructor: the cache is warm from the latest rows.
Construct == cache' = rows /\ uid' = "none"

\* Boot: the stacks that are not gone are initialised, startAllPollers.
Boot ==
  /\ ~up /\ up' = TRUE
  /\ IF life = "live"
     THEN starter' \in {"timer", "skipped"} /\ Construct
     ELSE UNCHANGED <<starter, cache, uid>>
  /\ UNCHANGED <<life, interval, world, config, rows, feed, quiet, polls, marked>>

\* The process ends; what lived in memory is gone.
Crash ==
  /\ up /\ up' = FALSE
  /\ starter' = "none" /\ interval' = FALSE /\ uid' = "none"
  /\ cache' = Unread /\ polls' = [i \in Slots |-> NoPoll] /\ marked' = {}
  /\ UNCHANGED <<life, world, config, rows, feed, quiet>>

\* createStack
Create ==
  /\ up /\ life = "none" /\ life' = "live"
  /\ Construct
  /\ \/ Start /\ UNCHANGED starter
     \/ starter' = "skipped" /\ UNCHANGED <<interval, polls>>
  /\ UNCHANGED <<up, world, config, rows, feed, quiet, marked>>

\* The jitter timer of startAllPollers; nobody clears it.
JitterElapsed ==
  /\ up /\ starter = "timer" /\ starter' = "none" /\ Start
  /\ UNCHANGED <<up, life, world, config, uid, record, marked>>

\* maybeStartSkippedPoller
ProviderViable ==
  /\ up /\ starter = "skipped" /\ life = "live" /\ starter' = "none" /\ Start
  /\ UNCHANGED <<up, life, world, config, uid, record, marked>>

\* deleteStack purges the rows of the stack, runTtlReaper keeps them.
TearDown ==
  /\ up /\ life = "live" /\ life' = "gone"
  /\ interval' = FALSE
  /\ rows' \in {rows, Unread}
  /\ UNCHANGED <<up, starter, world, config, uid, cache, feed, quiet, polls, marked>>

-----------------------------------------------------------------------------
(* The operator, the guard and the world.                                  *)

WorldChanges ==
  /\ \E s \in Services : \E r \in Readings \ {world[s]} : world' = [world EXCEPT ![s] = r]
  /\ UNCHANGED <<stack, interval, config, uid, record, polls, marked>>

\* hideService, unhideService; a service leaves or joins the registry.
Reconfigure ==
  /\ up
  /\ \E s \in Services :
       \/ /\ hidden' = IF s \in hidden THEN hidden \ {s} ELSE hidden \cup {s}
          /\ UNCHANGED registry
       \/ /\ registry' = IF s \in registry THEN registry \ {s} ELSE registry \cup {s}
          /\ UNCHANGED hidden
  /\ UNCHANGED <<stack, interval, world, uid, record, polls, marked>>

\* The datasource gets another uid; the poller has cached the one before.
DatasourceReplaced ==
  /\ up /\ uid = "current" /\ uid' = "replaced"
  /\ UNCHANGED <<stack, interval, world, config, record, polls, marked>>

\* The investigation of a service is over and its window has passed.
Forget ==
  /\ up
  /\ \E s \in marked : marked' = marked \ {s}
  /\ UNCHANGED <<stack, interval, world, config, uid, record, polls>>

PollStep(i) ==
  ToolsFail(i) \/ AskBackend(i) \/ Answered(i) \/ QueriesFail(i) \/ Conclude(i)

Next ==
  \/ Fire \/ \E i \in Slots : PollStep(i)
  \/ Boot \/ Crash \/ Create \/ JitterElapsed \/ ProviderViable \/ TearDown
  \/ WorldChanges \/ Reconfigure \/ DatasourceReplaced \/ Forget

\* The interval keeps firing and every call of a poll settles.
Fairness == WF_vars(Fire) /\ \A i \in Slots : WF_vars(PollStep(i))

Spec == Init /\ [][Next]_vars /\ Fairness

-----------------------------------------------------------------------------
(* Properties.                                                             *)

TypeOK ==
  /\ up \in BOOLEAN /\ life \in {"none", "live", "gone"}
  /\ starter \in {"none", "timer", "skipped"} /\ interval \in BOOLEAN
  /\ world \in [Services -> Readings]
  /\ registry \subseteq Services /\ hidden \subseteq Services /\ marked \subseteq Services
  /\ uid \in {"none", "current", "replaced"}
  /\ cache \in [Services -> Statuses \cup {"none"}]
  /\ rows \in [Services -> Statuses \cup {"none"}]
  /\ feed \in [Services -> Statuses \cup {"none"}]
  /\ quiet \subseteq Services
  /\ polls \in [Slots -> Poll]

\* What the Ops Desk shows of a service is its latest row and, unless it was first
\* seen in that status, the status its latest event announced: also when polls
\* overlap, services are hidden meanwhile and the process is restarted.
FeedIsCurrent ==
  life = "live" =>
    \A s \in Services : cache[s] # "none" =>
      /\ rows[s] = cache[s]
      /\ feed[s] = cache[s] \/ s \in quiet

\* A poll that is under way while its stack is torn down, its service hidden or
\* removed from the registry starts no investigation of it.
OnlyWatchedIsInvestigated ==
  [][\A s \in marked' \ marked : life = "live" /\ s \in Visible /\ rows'[s] = "down"]_vars

Watched(s) == up /\ life = "live" /\ interval /\ s \in Visible /\ uid # "replaced"

Fault == \E i \in Slots : ToolsFail(i) \/ QueriesFail(i)

\* Older polls may overwrite newer ones and calls may fail: once no call fails and the
\* world and the configuration hold still, the status of a watched service becomes
\* what the backend says of it, and stays.
CacheCatchesUp ==
  \A s \in Services :
    <>[]Watched(s) /\ <>[][UNCHANGED world /\ ~Fault]_vars
      => <>[](cache[s] = Verdict(world[s].silent, world[s].loud))

=============================================================================
