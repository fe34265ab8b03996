-------------------------- MODULE PeriodicDiscovery --------------------------
(***************************************************************************)
(* Periodic discovery of one stack: the tick of PeriodicDiscoveryScheduler *)
(* (src/server/periodic-discovery-scheduler.ts), the consensus it applies  *)
(* (discovery-consensus.ts), the inbox in the database                     *)
(* (pending-discovery-store.ts) and the operator who accepts, dismisses    *)
(* and restores suggestions meanwhile (routes.ts).                         *)
(*                                                                         *)
(* A tick awaits the discovery agent, the probes that corroborate a        *)
(* removal and each notification; what lies between two awaits is one      *)
(* step.  Payloads, rule drift, tokens and the read marks are left out.    *)
(***************************************************************************)
EXTENDS Integers, Sequences, FiniteSets

CONSTANTS
  Services,
  Channels,         \* "slack" and "email"
  ConsensusRuns,
  RemovalRuns,      \* consensusRunsForRemovals
  MaxRuns,          \* model bound: ticks
  MaxVersions       \* model bound: versions of services.yaml

ASSUME DiscoveryAssumption ==
  /\ ConsensusRuns \in 1..10 /\ RemovalRuns \in 1..10
  /\ MaxRuns \in Nat /\ MaxVersions \in Nat

Keys == {"addition", "removal"} \X Services

Needed(k) == IF k[1] = "addition" THEN ConsensusRuns ELSE RemovalRuns

VARIABLES
  registry,    \* the services in services.yaml
  version,     \* number of its versions; the last one is the current one
  runs,        \* periodic_discovery_runs: the status of each
  rows,        \* pending_discoveries: the row of a key, or NoRow
  dismissed,   \* dismissed_discoveries
  heard,       \* discovery_notifications with status "success"
  tick,        \* the tick under way
  probing,     \* accept-with-current-globals requests that wait for their probe
  streak       \* history: consecutive successful runs that saw a key, up to each run

vars == <<registry, version, runs, rows, dismissed, heard, tick, probing, streak>>

Unstamped == -1

\* born stands for the id: a tick inserts at most one row for a key.
\* listed: the row was qualified once, so a page somewhere may show it.
Row == [born : Nat, seen : Nat, last : Nat, qualified : BOOLEAN,
        stamp : Int, listed : BOOLEAN]

NoRow == [born |-> 0, seen |-> 0, last |-> 0, qualified |-> FALSE,
          stamp |-> Unstamped, listed |-> FALSE]

Has(k) == rows[k] # NoRow
Ids    == Keys \X Nat
Id(k)  == <<k, rows[k].born>>
Mail   == Ids \X Channels

NoMail == <<>>
Idle   == [pc |-> "idle", registered |-> {}, missing |-> {},
           todo |-> {}, sending |-> NoMail, tried |-> {}]

Unseen == [k \in Keys |-> 0]
This   == Len(runs)

Init ==
  /\ registry \in SUBSET Services
  /\ version = 0
  /\ runs = <<>> /\ streak = <<>>
  /\ rows = [k \in Keys |-> NoRow]
  /\ dismissed = {} /\ heard = {} /\ probing = {}
  /\ tick = Idle

-----------------------------------------------------------------------------
(* Consensus.                                                              *)

\* getPreviousSuccessfulRunId for the run under way; 0 stands for null.
Previous == LET before == {r \in 1..(This - 1) : runs[r] = "success"} IN
  IF before = {} THEN 0 ELSE CHOOSE r \in before : \A q \in before : q <= r

\* Mutant: the run before this one, whatever became of it.
RecentAny(row) == row.last = This - 1

\* The run before this one saw it.
Recent(row) == Previous # 0 /\ row.last = Previous

\* A row after the run under way saw its key: inserted, counted on, or,
\* when the run before did not see it, reset.
Sighted(row, n, current) ==
  LET Qualify(r) == [r EXCEPT !.qualified = TRUE, !.stamp = current, !.listed = TRUE]
      fresh == [born |-> This, seen |-> 1, last |-> This, qualified |-> FALSE,
                stamp |-> Unstamped, listed |-> FALSE]
      more  == [row EXCEPT !.seen = @ + 1, !.last = This]
  IN CASE row = NoRow -> IF n <= 1 THEN Qualify(fresh) ELSE fresh
       [] row # NoRow /\ Recent(row) ->
            IF ~row.qualified /\ more.seen >= n THEN Qualify(more) ELSE more
       [] OTHER -> [row EXCEPT !.seen = 1, !.last = This,
                               !.qualified = FALSE, !.stamp = Unstamped]

\* Mutant: dismissals are forgotten.
CandidatesAll(found) == {k \in Keys : k[1] = "addition" /\ k[2] \in found \ registry}

Candidates(found) ==
  {k \in Keys : k[1] = "addition" /\ k[2] \in found \ registry /\ k \notin dismissed}

\* What the run under way makes of the additions when it found these services.
AfterAdditions(found) == [k \in Keys |->
  IF k \in Candidates(found) THEN Sighted(rows[k], ConsensusRuns, version)
  ELSE IF k[1] = "addition" /\ Has(k) /\ ~Recent(rows[k]) THEN NoRow
  ELSE rows[k]]

\* And of the removals: registered services it did not find, with the probes'
\* word for some of them.  accept never reads the stamp of a removal.
AfterRemovals(table, registered, missing, gone) == [k \in Keys |->
  CASE k[1] = "removal" /\ k[2] \in gone -> Sighted(table[k], RemovalRuns, Unstamped)
    [] k[1] = "removal" /\ k[2] \in registered \ missing -> NoRow
    [] OTHER -> table[k]]

\* The history variable: a key that the run saw continues its streak.
Streaks(seen) == [streak EXCEPT ![This] = [k \in Keys |->
  IF k \in seen THEN 1 + (IF Previous = 0 THEN 0 ELSE streak[Previous][k]) ELSE @[k]]]

-----------------------------------------------------------------------------
(* The tick.                                                               *)

\* finishRun, and ticking is free again.
Ends(status) == runs' = [runs EXCEPT ![This] = status] /\ tick' = Idle

\* tickOnce: ticking admits one at a time.
Start ==
  /\ tick.pc = "idle" /\ Len(runs) < MaxRuns
  /\ runs' = Append(runs, "running") /\ streak' = Append(streak, Unseen)
  /\ tick' = [Idle EXCEPT !.pc = "discovering"]
  /\ UNCHANGED <<registry, version, rows, dismissed, heard, probing>>

\* No provider, or no datasource: the run is recorded and nothing happens.
Skip ==
  /\ tick.pc = "idle" /\ Len(runs) < MaxRuns
  /\ runs' = Append(runs, "skipped") /\ streak' = Append(streak, Unseen)
  /\ UNCHANGED <<registry, version, rows, dismissed, heard, tick, probing>>

Fail ==
  /\ tick.pc = "discovering"
  /\ Ends("failed")
  /\ UNCHANGED <<registry, version, rows, dismissed, heard, probing, streak>>

Letters(table) == {<<<<k, table[k].born>>, c>> :
  k \in {j \in Keys : table[j].qualified}, c \in Channels}

\* Mutant: a suggestion is left alone as soon as one channel has heard of it.
UnheardByAll(table) ==
  {m \in Letters(table) : \A c \in Channels : <<m[1], c>> \notin heard}

Unheard(table) == Letters(table) \ heard

\* The next letter, or the end of the run.  Each row is told to Slack, then
\* to the mail server; neither waits for the other's success, so any order
\* will do.
Tell(todo, tried) ==
  \/ todo = {} /\ Ends("success")
  \/ \E m \in todo :
       /\ tick' = [Idle EXCEPT !.pc = "notifying", !.todo = todo \ {m},
                               !.sending = m, !.tried = tried \cup {m}]
       /\ UNCHANGED runs

\* The removals of the run, and on to the notifications.
Conclude(table, registered, missing, gone) ==
  LET result == AfterRemovals(table, registered, missing, gone)
  IN rows' = result /\ Tell(Unheard(result), {})

\* The agent and the sanity probes are back with the services they vouch for.
\* Without a removal to corroborate there is no further await.
Discover(found) ==
  /\ tick.pc = "discovering"
  /\ LET missing == {s \in registry \ found : <<"removal", s>> \notin dismissed}
         table   == AfterAdditions(found)
     IN IF missing = {} THEN Conclude(table, registry, {}, {})
        ELSE /\ rows' = table
             /\ tick' = [tick EXCEPT !.pc = "corroborating",
                                     !.registered = registry, !.missing = missing]
             /\ UNCHANGED runs
  /\ streak' = Streaks(Candidates(found))
  /\ UNCHANGED <<registry, version, dismissed, heard, probing>>

\* The probes found no trace of the services in gone.
Corroborate(gone) ==
  /\ tick.pc = "corroborating"
  /\ Conclude(rows, tick.registered, tick.missing, gone)
  /\ streak' = Streaks({"removal"} \X gone)
  /\ UNCHANGED <<registry, version, dismissed, heard, probing>>

\* recordNotificationAttempt; a failure leaves the channel as unheard as before.
\* Rows of a suggestion that is gone are never read again and stay.
Answer(ok) ==
  /\ tick.pc = "notifying"
  /\ heard' = IF ok THEN heard \cup {tick.sending} ELSE heard
  /\ Tell(tick.todo, tick.tried)
  /\ UNCHANGED <<registry, version, rows, dismissed, probing, streak>>

\* The process dies and boots: resetOrphanedRunningRuns.
Restart ==
  /\ runs' = [r \in DOMAIN runs |-> IF runs[r] = "running" THEN "failed" ELSE runs[r]]
  /\ tick' = Idle /\ probing' = {}
  /\ UNCHANGED <<registry, version, rows, dismissed, heard, streak>>

-----------------------------------------------------------------------------
(* The operator.                                                           *)

Listed(k) == Has(k) /\ rows[k].listed

Save(services) ==
  /\ version < MaxVersions
  /\ registry' = services /\ version' = version + 1

Drop(k) == rows' = [rows EXCEPT ![k] = NoRow]

\* Refused when the globals have drifted, or when the registry has advanced
\* since the row qualified; a row that was reset is not stamped.
AcceptAddition(s) == LET k == <<"addition", s>> IN
  /\ Listed(k) /\ rows[k].stamp \in {version, Unstamped}
  /\ Save(registry \cup {s}) /\ Drop(k)
  /\ UNCHANGED <<runs, dismissed, heard, tick, probing, streak>>

AcceptRemoval(s) == LET k == <<"removal", s>> IN
  /\ Listed(k)
  /\ Save(registry \ {s}) /\ Drop(k)
  /\ UNCHANGED <<runs, dismissed, heard, tick, probing, streak>>

AskAccept(s) == LET k == <<"addition", s>> IN
  /\ Listed(k)
  /\ probing' = probing \cup {Id(k)}
  /\ UNCHANGED <<registry, version, runs, rows, dismissed, heard, tick, streak>>

\* The row it read may be gone by now; the service is saved all the same.
ProbeAnswers(id, ok) ==
  /\ id \in probing /\ probing' = probing \ {id}
  /\ IF ok THEN /\ Save(registry \cup {id[1][2]})
                /\ IF Id(id[1]) = id THEN Drop(id[1]) ELSE UNCHANGED rows
     ELSE UNCHANGED <<registry, version, rows>>
  /\ UNCHANGED <<runs, dismissed, heard, tick, streak>>

Dismiss(k) ==
  /\ Listed(k)
  /\ dismissed' = dismissed \cup {k} /\ Drop(k)
  /\ UNCHANGED <<registry, version, runs, heard, tick, probing, streak>>

Restore(k) ==
  /\ k \in dismissed
  /\ dismissed' = dismissed \ {k}
  /\ UNCHANGED <<registry, version, runs, rows, heard, tick, probing, streak>>

\* Every other writer of services.yaml: the wizard, the editor, a rollback.
Edit(services) ==
  /\ Save(services)
  /\ UNCHANGED <<runs, rows, dismissed, heard, tick, probing, streak>>

Next ==
  \/ Start \/ Skip \/ Fail \/ Restart
  \/ \E found \in SUBSET Services : Discover(found)
  \/ \E gone \in SUBSET tick.missing : Corroborate(gone)
  \/ \E ok \in BOOLEAN : Answer(ok) \/ \E id \in probing : ProbeAnswers(id, ok)
  \/ \E s \in Services : AcceptAddition(s) \/ AcceptRemoval(s) \/ AskAccept(s)
  \/ \E k \in Keys : Dismiss(k) \/ Restore(k)
  \/ \E services \in SUBSET Services : Edit(services)

Spec == Init /\ [][Next]_vars

-----------------------------------------------------------------------------
(* Properties.                                                             *)

\* Every variable keeps its type; a run is under way exactly in a tick.
TypeOK ==
  /\ registry \subseteq Services /\ version \in Nat
  /\ runs \in Seq({"running", "success", "failed", "skipped"})
  /\ streak \in Seq([Keys -> Nat]) /\ Len(streak) = Len(runs)
  /\ rows \in [Keys -> Row]
  /\ dismissed \subseteq Keys /\ probing \subseteq Ids /\ heard \subseteq Mail
  /\ tick.pc \in {"idle", "discovering", "corroborating", "notifying"}
  /\ tick.registered \subseteq Services /\ tick.missing \subseteq tick.registered
  /\ tick.todo \subseteq Mail /\ tick.tried \subseteq Mail
  /\ tick.sending \in (IF tick.pc = "notifying" THEN Mail ELSE {NoMail})
  /\ \A r \in DOMAIN runs : runs[r] = "running" <=> r = This /\ tick.pc # "idle"

\* A suggestion is shown only after the required number of consecutive
\* successful runs saw it, however runs fail, crash and are skipped in
\* between and whatever the operator does to the inbox; the run that
\* qualified it may itself have died while it sent its notifications.
QualifiedByConsensus == \A k \in Keys : Has(k) =>
  /\ rows[k].seen <= streak[rows[k].last][k]
  /\ rows[k].qualified => Needed(k) <= streak[rows[k].last][k]

\* What the operator dismissed is not suggested again until it is restored.
\* A dismissal during the corroboration is too late for this tick: it puts
\* the removal back, but unqualified unless one run is enough, and the next
\* tick drops it.
DismissedIsQuiet == \A k \in dismissed : Has(k) =>
  k[1] = "removal" /\ (rows[k].qualified => RemovalRuns = 1)

\* A channel that failed is tried again in every run that ends, until it has
\* heard of the suggestion once, and never after.
ToldUntilHeard == [][
  /\ tick'.sending \notin {NoMail, tick.sending} => tick'.sending \notin heard
  /\ (tick.pc # "idle" /\ runs'[This] = "success") =>
       \A k \in Keys : rows'[k].qualified => \A c \in Channels :
         <<<<k, rows'[k].born>>, c>> \in heard' \cup tick.tried
  ]_vars

=============================================================================
