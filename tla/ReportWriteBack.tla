--------------------------- MODULE ReportWriteBack ---------------------------
(***************************************************************************)
(* The report of one investigation and those who rewrite it after its      *)
(* completion (src/server/ws-handler.ts): the operator who applies the     *)
(* conclusion of a deep run (handleOrchestratorAccept) and the older deep  *)
(* mode (runDeepModeStreamed).  Each reads the whole report, waits for a   *)
(* model and writes the whole report.                                      *)
(*                                                                         *)
(* A deep run leaves its events in investigation_events; an accept finds   *)
(* in them the run it applies.  Here an event's id is its place in log.    *)
(* Root causes are named by the event that concluded them, 0 is the root   *)
(* cause of the first report.                                              *)
(***************************************************************************)
EXTENDS Integers, Sequences

CONSTANTS
  Tabs,           \* browser connections, each with one request of either kind at a time
  DeepMode,       \* config.agent.challengeEnabled
  MaxRuns,        \* model bound: deep runs of the investigation
  MaxLog          \* model bound: events

ASSUME WriteBackAssumption ==
  MaxRuns \in Nat /\ MaxLog \in Nat /\ DeepMode \in BOOLEAN

VARIABLES
  runs,       \* deep runs launched so far
  live,       \* registry.isLive
  entry,      \* the registry holds an entry, live or in its grace window
  started,    \* the run under way has announced itself
  log,        \* the persisted orchestrator events
  report,     \* the report in the database
  applying,   \* each tab's accept between its read and its write
  passing     \* each tab's deep mode between its read and its write

vars == <<runs, live, entry, started, log, report, applying, passing>>

Event == [type : {"started", "locked", "complete", "accepted"},
          run : Nat,              \* the run it is about; of an accepted the event applied
          confirmed : BOOLEAN,    \* a complete with a root cause to apply
          lead : BOOLEAN]         \* a lock that carries the operator's steer

Row(type, run, confirmed, lead) ==
  [type |-> type, run |-> run, confirmed |-> confirmed, lead |-> lead]

Places == 0..MaxLog

\* rootCause and orchestratorRefined: the event applied (0: none), the root cause it
\* replaced, the lock whose lead is noted (0: none); deep: report.deepMode is there.
Report == [root : Places, event : Places, original : Places, notes : Places, deep : BOOLEAN]

FirstReport == [root |-> 0, event |-> 0, original |-> 0, notes |-> 0, deep |-> FALSE]

\* The report an accept will write, once its model has answered.
NoWork == [busy |-> FALSE, report |-> FirstReport]
Work   == [busy : BOOLEAN, report : Report]

Init ==
  /\ runs = 0 /\ live = FALSE /\ entry = FALSE /\ started = FALSE
  /\ log = <<>> /\ report = FirstReport
  /\ applying = [t \in Tabs |-> NoWork] /\ passing = [t \in Tabs |-> NoWork]

Persist(event) == Len(log) < MaxLog /\ log' = Append(log, event)

-----------------------------------------------------------------------------
(* A deep run, as far as its events go.                                    *)

\* handleOrchestratorInvestigate: one run at a time.
Launch ==
  /\ ~live /\ runs < MaxRuns
  /\ runs' = runs + 1 /\ live' = TRUE /\ entry' = TRUE /\ started' = FALSE
  /\ UNCHANGED <<log, report, applying, passing>>

\* The loop announces itself.
Starts ==
  /\ live /\ ~started /\ started' = TRUE
  /\ Persist(Row("started", runs, FALSE, FALSE))
  /\ UNCHANGED <<runs, live, entry, report, applying, passing>>

\* A decision takes the lock of the entry, of a live run or of one just over.
Decides(lead) ==
  /\ entry
  /\ Persist(Row("locked", runs, FALSE, lead))
  /\ UNCHANGED <<runs, live, entry, started, report, applying, passing>>

\* The run concludes; its entry is terminal right after.
Completes(confirmed) ==
  /\ live /\ started /\ live' = FALSE
  /\ Persist(Row("complete", runs, confirmed, FALSE))
  /\ UNCHANGED <<runs, entry, started, report, applying, passing>>

\* The run throws, before or after it announced itself.
Throws ==
  /\ live /\ live' = FALSE
  /\ UNCHANGED <<runs, entry, started, log, report, applying, passing>>

\* The grace window of a finished run ends.
Forget ==
  /\ entry /\ ~live /\ entry' = FALSE
  /\ UNCHANGED <<runs, live, started, log, report, applying, passing>>

-----------------------------------------------------------------------------
(* Accept.                                                                 *)

\* The latest complete.
Latest(e) == log[e].type = "complete" /\ \A j \in (e + 1)..Len(log) : log[j].type # "complete"

\* Mutant: a run's events begin after the previous complete.
SteersSinceComplete(e) ==
  {i \in 1..(e - 1) : /\ log[i].type = "locked" /\ log[i].lead
                      /\ \A j \in (i + 1)..(e - 1) : log[j].type # "complete"}

\* The steers between the beginning of the run that ends with event e and e.
Steers(e) ==
  {i \in 1..(e - 1) : /\ log[i].type = "locked" /\ log[i].lead
                      /\ \A j \in (i + 1)..(e - 1) : log[j].type # "started"}

\* n is the last of them, 0 without one.
LastSteer(n, e) ==
  IF Steers(e) = {} THEN n = 0 ELSE n \in Steers(e) /\ \A j \in Steers(e) : j <= n

\* Mutant: every application replaces the current root cause.
CurrentRoot(e) == report.root

\* "was: ...": kept when the same event is applied again, else the current root cause.
Original(e) == IF report.event = e THEN report.original ELSE report.root

\* Mutant: the outcome is not looked at.
AnyComplete(e) == TRUE

\* What may be applied at all.
Applicable(e) == log[e].confirmed

\* handleOrchestratorAccept up to the call of the model.
AcceptBegins(t) ==
  /\ ~applying[t].busy /\ ~live
  /\ \E e \in DOMAIN log, n \in Places :
       /\ Latest(e) /\ Applicable(e) /\ LastSteer(n, e)
       /\ applying' = [applying EXCEPT ![t] =
            [busy   |-> TRUE,
             report |-> [root |-> e, event |-> e, original |-> Original(e),
                         notes |-> n, deep |-> report.deep]]]
  /\ UNCHANGED <<runs, live, entry, started, log, report, passing>>

\* The model has answered or failed (then only the conclusion is merged): the report
\* that was read is written with its refinement.
AcceptEnds(t) ==
  /\ applying[t].busy
  /\ report' = applying[t].report
  /\ Persist(Row("accepted", applying[t].report.event, FALSE, FALSE))
  /\ applying' = [applying EXCEPT ![t] = NoWork]
  /\ UNCHANGED <<runs, live, entry, started, passing>>

-----------------------------------------------------------------------------
(* Deep mode.                                                              *)

\* handleDeepModeInvestigate
PassBegins(t) ==
  /\ DeepMode /\ ~passing[t].busy
  /\ passing' = [passing EXCEPT ![t] = [busy |-> TRUE, report |-> report]]
  /\ UNCHANGED <<runs, live, entry, started, log, report, applying>>

\* The report that was read, with the pass's result.
PassReport(work) == [work.report EXCEPT !.deep = TRUE]

\* runDeepModeStreamed settles: the report is written, or nothing is.
PassEnds(t) ==
  /\ passing[t].busy
  /\ report' \in {PassReport(passing[t]), report}
  /\ passing' = [passing EXCEPT ![t] = NoWork]
  /\ UNCHANGED <<runs, live, entry, started, log, applying>>

-----------------------------------------------------------------------------
\* The server restarts: runs and requests are gone, events and report stay.
Restart ==
  /\ live' = FALSE /\ entry' = FALSE /\ started' = FALSE
  /\ applying' = [t \in Tabs |-> NoWork] /\ passing' = [t \in Tabs |-> NoWork]
  /\ UNCHANGED <<runs, log, report>>

Next ==
  \/ Launch \/ Starts \/ Throws \/ Forget \/ Restart
  \/ \E lead \in BOOLEAN : Decides(lead)
  \/ \E confirmed \in BOOLEAN : Completes(confirmed)
  \/ \E t \in Tabs : AcceptBegins(t) \/ AcceptEnds(t) \/ PassBegins(t) \/ PassEnds(t)

Spec == Init /\ [][Next]_vars

-----------------------------------------------------------------------------
(* Properties.                                                             *)

TypeOK ==
  /\ runs \in 0..MaxRuns
  /\ live \in BOOLEAN /\ entry \in BOOLEAN /\ started \in BOOLEAN
  /\ log \in Seq(Event) /\ Len(log) <= MaxLog
  /\ report \in Report
  /\ applying \in [Tabs -> Work] /\ passing \in [Tabs -> Work]

\* A report whose marker names an applied event shows that event's root cause, and
\* the event is a conclusion that was confirmed.
Marked(r) ==
  /\ r.root = r.event
  /\ r.event > 0 => /\ r.event \in DOMAIN log
                    /\ log[r.event].type = "complete" /\ log[r.event].confirmed

\* Whoever writes last, and over whatever reading, the report's root cause is the
\* first one or the confirmed conclusion that its marker names.
ConclusionIsMarked == Marked(report)

\* "was: ..." shows what stood there before: the first root cause or an earlier
\* conclusion, never the applied one itself, however often it is applied.
WasIsEarlier == report.event > 0 => report.original < report.event

\* The operator's notes of a refinement are a steer of the very run whose conclusion
\* was applied, not of one that broke off before it or was decided on after it.
NotesAreOfItsRun ==
  report.notes > 0 =>
    /\ log[report.notes].type = "locked" /\ log[report.notes].lead
    /\ log[report.notes].run = log[report.event].run

\* "The DB report is the source of truth": the comment on the fan-out of an accept
\* says that a cold GET re-reads the refined report.  A deep mode pass that had read
\* the report before writes it back without the refinement.
AcceptedReportStays ==
  \A i \in DOMAIN log :
    (log[i].type = "accepted" /\ \A j \in (i + 1)..Len(log) : log[j].type # "accepted")
      => report.event = log[i].run

=============================================================================
