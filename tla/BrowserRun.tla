------------------------------ MODULE BrowserRun ------------------------------
(***************************************************************************)
(* A Deep Investigation run as one browser tab shows it: the socket hook   *)
(* with its bounded message buffer (src/web/hooks/useWebSocket.ts), the    *)
(* reducer that projects the orchestrator messages onto a view             *)
(* (src/web/contexts/OrchestratorRunContext.tsx), the page that fetches    *)
(* the persisted events and subscribes (useInvestigationRunHydration.ts),  *)
(* and the server's side of the subscription (src/server/ws-handler.ts).   *)
(*                                                                         *)
(* The server is the skeleton of DeepRun this tab can tell apart: the      *)
(* persisted events and where the run is.  Other tabs launch, stop and     *)
(* wake a run whenever they like, and decide once a pause was there to be  *)
(* seen.  Left out: the deep_mode messages, accepting a report, and a      *)
(* launch refused because a run is live.                                   *)
(***************************************************************************)
EXTENDS Integers, SequencesExt

CONSTANTS
  Cap, Keep,    \* the buffer holds Cap messages; a longer one is cut to Keep
  MaxRuns,      \* model bound: launches for the investigation
  MaxSteps,     \* model bound: steps of a run
  MaxStalls,    \* model bound: operator pauses and parks together
  MaxAbsences   \* model bound: times the connection is lost, the page left, the server restarted

ASSUME BrowserAssumption ==
  /\ Cap \in Nat /\ Keep \in 1..Cap
  /\ {MaxRuns, MaxSteps, MaxStalls, MaxAbsences} \subseteq Nat

VARIABLES
  log,          \* the investigation's rows in investigation_events
  run,          \* where the run is
  seq,          \* seq of runOrchestratorStreamed: steps the run has emitted
  locked,       \* the registry's decision lock
  attached,     \* the tab's connection is among the run's sinks
  launches, stalls,
  online,       \* the socket is open, status is "connected"
  up, down,     \* messages on their way to the server, to the tab
  absences,
  open,         \* the page is mounted
  fetch,        \* the page's GET: none, sent, or the length of the log it read
  size,         \* length of the array messages of useWebSocket
  fresh,        \* its last elements, the effect has not run since they came; the
                \* elements before them are never looked at again
  processed,    \* processedRef
  view,         \* the run's DeepRunState
  unread,       \* messages that came since the effect last ran (history)
  skipped       \* a message was cut from the buffer unread since the last replay (history)

server == <<log, run, seq, locked, attached, launches, stalls>>
wire   == <<online, up, down, absences>>
page   == <<open, fetch>>
tab    == <<size, fresh, processed, view, unread, skipped>>
browser == <<server, wire, page, tab>>

NoFetch == -2
Sent    == -1
Live    == {"starting", "running", "asking", "parked"}
Blocked == {"asking", "parked"}

Event(type)  == [type |-> type, seq |-> -1]
StepEvent(n) == [type |-> "step", seq |-> n]
Replay(n)    == [type |-> "replay", seq |-> n]
NotLive      == Event("not_live")

\* A run the registry of runs does not have, and the one of a started message.
\* A lastSeq that is not set is -1: no seq is that small.
NoView    == [shown |-> FALSE, running |-> FALSE, steps |-> <<>>, lastSeq |-> -1,
              pause |-> FALSE, submitted |-> FALSE, parked |-> FALSE, hydrated |-> FALSE]
FreshView == [NoView EXCEPT !.shown = TRUE, !.running = TRUE]

BrowserInit ==
  /\ log = <<>> /\ run = "none" /\ seq = 0
  /\ locked = FALSE /\ attached = FALSE
  /\ launches = 0 /\ stalls = 0
  /\ online = FALSE /\ up = <<>> /\ down = <<>> /\ absences = 0
  /\ open = FALSE /\ fetch = NoFetch
  /\ size = 0 /\ fresh = <<>> /\ processed = 0 /\ view = NoView
  /\ unread = 0 /\ skipped = FALSE

-----------------------------------------------------------------------------
(* The reducer, applyMessage.                                              *)

\* Mutant: a step is applied whether or not it was applied before.
StepAlwaysApplied(v, n) ==
  [v EXCEPT !.steps = Append(@, n), !.lastSeq = n,
            !.pause = FALSE, !.submitted = FALSE, !.parked = FALSE]

\* A step that was already applied is a re-delivery; a new one shows that the run
\* got past its pause or park.
StepApplied(v, n) ==
  IF n <= v.lastSeq THEN v
  ELSE [v EXCEPT !.steps = Append(@, n), !.lastSeq = n,
                 !.pause = FALSE, !.submitted = FALSE, !.parked = FALSE]

\* The messages that are also persisted.
Applied(v, m) ==
  IF m.type = "started" THEN FreshView
  ELSE IF ~v.shown THEN v
  ELSE CASE m.type = "step"     -> StepApplied(v, m.seq)
         [] m.type = "pause"    -> [v EXCEPT !.pause = TRUE, !.submitted = FALSE]
         [] m.type = "parked"   -> [v EXCEPT !.parked = TRUE]
         [] m.type = "locked"   -> [v EXCEPT !.submitted = TRUE]
         [] m.type = "complete" -> [v EXCEPT !.running = FALSE, !.pause = FALSE, !.submitted = FALSE]
         [] m.type = "error"    -> [v EXCEPT !.running = FALSE, !.pause = FALSE]

\* reconstructFromEvents of the first n rows.
Rebuilt(rows, n) ==
  LET upTo[k \in 0..n] == IF k = 0 THEN NoView ELSE Applied(upTo[k - 1], rows[k])
  IN upTo[n]

Reconstructed(n) == Rebuilt(log, n)

\* Mutant: only the seq decides who is ahead.
AheadBySeq(v, rebuilt) == v.shown /\ v.lastSeq >= rebuilt.lastSeq

\* "If we already hold a live run that is at or ahead of the replay, don't roll
\* it back."
Ahead(v, rebuilt) ==
  /\ v.shown
  /\ v.lastSeq >= rebuilt.lastSeq
  /\ Len(v.steps) >= Len(rebuilt.steps)

\* orchestrator:replay.
Replayed(v, rebuilt) ==
  IF ~rebuilt.shown THEN v
  ELSE [(IF Ahead(v, rebuilt) THEN v ELSE rebuilt) EXCEPT !.hydrated = FALSE, !.parked = FALSE]

Reduced(v, m) ==
  CASE m.type = "replay"   -> Replayed(v, Reconstructed(m.seq))
    [] m.type = "not_live" -> [v EXCEPT !.parked = FALSE]
    [] OTHER               -> Applied(v, m)

\* The messages of a batch, one after the other.
Rendered(v, batch) ==
  LET upTo[k \in 0..Len(batch)] == IF k = 0 THEN v ELSE Reduced(upTo[k - 1], batch[k])
  IN upTo[Len(batch)]

-----------------------------------------------------------------------------
(* The server.                                                             *)

\* The run's send, and broadcast: persist, then to the sinks.
Emit(e) ==
  /\ log' = Append(log, e)
  /\ down' = IF attached THEN Append(down, e) ELSE down

\* A launch: by this tab, which is attached at once, or by another.
Launch(here) ==
  /\ run \notin Live /\ launches < MaxRuns
  /\ here => online /\ open /\ up = <<>>
  /\ run' = "starting" /\ seq' = 0 /\ locked' = FALSE
  /\ attached' = here
  /\ launches' = launches + 1
  /\ UNCHANGED <<log, stalls, wire, page, tab>>

Start ==
  /\ run = "starting"
  /\ run' = "running"
  /\ Emit(Event("started"))
  /\ UNCHANGED <<seq, locked, attached, launches, stalls, online, up, absences, page, tab>>

\* The dependencies of the run could not be built: nothing is emitted.
StartFails ==
  /\ run = "starting"
  /\ run' = "over"
  /\ UNCHANGED <<log, seq, locked, attached, launches, stalls, wire, page, tab>>

RunSteps ==
  /\ run = "running" /\ seq < MaxSteps
  /\ seq' = seq + 1
  /\ Emit(StepEvent(seq))
  /\ UNCHANGED <<run, locked, attached, launches, stalls, online, up, absences, page, tab>>

\* onOperatorPause.
Ask ==
  /\ run = "running" /\ stalls < MaxStalls
  /\ run' = "asking" /\ locked' = FALSE
  /\ stalls' = stalls + 1
  /\ Emit(Event("pause"))
  /\ UNCHANGED <<seq, attached, launches, online, up, absences, page, tab>>

\* onMoveBoundary of a run that no tab has watched for a while.
Park ==
  /\ run = "running" /\ ~attached /\ stalls < MaxStalls
  /\ run' = "parked" /\ locked' = FALSE
  /\ stalls' = stalls + 1
  /\ Emit(Event("parked"))
  /\ UNCHANGED <<seq, attached, launches, online, up, absences, page, tab>>

\* Another tab subscribes and the loop is woken.
Wake ==
  /\ run = "parked"
  /\ run' = "running"
  /\ UNCHANGED <<log, seq, locked, attached, launches, stalls, wire, page, tab>>

\* The run ends, by itself, stopped, or because its pause timed out.
Over ==
  /\ run \in Live \ {"starting"}
  /\ run' = "over"
  /\ \E type \in {"complete", "error"} : Emit(Event(type))
  /\ UNCHANGED <<seq, locked, attached, launches, stalls, online, up, absences, page, tab>>

\* tryLockDecision, decision_locked, resolvePause.
Resolved ==
  IF locked \/ run = "none" THEN UNCHANGED <<log, run, locked, down>>
  ELSE /\ locked' = TRUE
       /\ run' = IF run \in Blocked THEN "running" ELSE run
       /\ Emit(Event("locked"))

\* Another tab decides on a pause it shows, which the run may have got past.
OtherTabDecides ==
  /\ run # "none" /\ ~locked /\ Event("pause") \in ToSet(log)
  /\ Resolved
  /\ UNCHANGED <<seq, attached, launches, stalls, online, up, absences, page, tab>>

\* orchestrator_subscribe on a live run: attach, wake, replay.
Attach ==
  /\ attached' = TRUE
  /\ down' = Append(down, Replay(Len(log)))
  /\ run' = IF run = "parked" THEN "running" ELSE run

ServeSubscribe ==
  /\ \/ run \in Live /\ Attach
     \/ run \notin Live /\ down' = Append(down, NotLive) /\ UNCHANGED <<run, attached>>
  /\ UNCHANGED <<log, locked>>

\* The server takes the tab's next message.
Serve ==
  /\ online /\ up # <<>>
  /\ up' = Tail(up)
  /\ \/ Head(up) = "subscribe" /\ ServeSubscribe
     \/ Head(up) = "unsubscribe" /\ attached' = FALSE /\ UNCHANGED <<log, run, locked, down>>
     \/ Head(up) = "decision" /\ Resolved /\ UNCHANGED attached
  /\ UNCHANGED <<seq, launches, stalls, online, absences, page, tab>>

-----------------------------------------------------------------------------
(* The tab.                                                                *)

\* The page's effect on the connection status and its cleanup; send drops what
\* it is given while the socket is not open.
Connect ==
  /\ ~online
  /\ online' = TRUE
  /\ up' = IF open THEN <<"subscribe">> ELSE <<>>
  /\ UNCHANGED <<server, down, absences, page, tab>>

Disconnect ==
  /\ online /\ absences < MaxAbsences
  /\ online' = FALSE /\ absences' = absences + 1
  /\ up' = <<>> /\ down' = <<>> /\ attached' = FALSE
  /\ UNCHANGED <<log, run, seq, locked, launches, stalls, page, tab>>

\* The server dies and is started again: the registry is empty, a run that was on
\* leaves a log without an end, and every socket is closed.
ServerRestarts ==
  /\ absences < MaxAbsences
  /\ absences' = absences + 1
  /\ run' = "none" /\ locked' = FALSE /\ attached' = FALSE
  /\ online' = FALSE /\ up' = <<>> /\ down' = <<>>
  /\ fetch' = IF fetch = Sent THEN NoFetch ELSE fetch
  /\ UNCHANGED <<log, seq, launches, stalls, open, tab>>

OpenPage ==
  /\ ~open
  /\ open' = TRUE
  /\ fetch' = Sent
  /\ up' = IF online THEN Append(up, "subscribe") ELSE up
  /\ UNCHANGED <<server, online, down, absences, tab>>

\* cancelled: the GET's answer is not used.
ClosePage ==
  /\ open /\ absences < MaxAbsences
  /\ open' = FALSE /\ absences' = absences + 1
  /\ fetch' = NoFetch
  /\ up' = IF online THEN Append(up, "unsubscribe") ELSE up
  /\ UNCHANGED <<server, online, down, tab>>

\* The GET reads the log; its answer takes its time.
FetchReads ==
  /\ fetch = Sent
  /\ fetch' = Len(log)
  /\ UNCHANGED <<server, wire, open, tab>>

\* hydrate: if absent, and only a history that has a run in it.
Hydrate ==
  /\ fetch >= 0
  /\ fetch' = NoFetch
  /\ view' = IF view.shown \/ ~Reconstructed(fetch).shown THEN view
             ELSE [Reconstructed(fetch) EXCEPT !.hydrated = TRUE]
  /\ UNCHANGED <<server, wire, open, size, fresh, processed, unread, skipped>>

\* The last n elements of a sequence that may have fewer.
LastOf(s, n) == IF Len(s) > n THEN SubSeq(s, Len(s) - n + 1, Len(s)) ELSE s

\* onmessage: one more message, and a buffer that is too long is cut.
Receive ==
  /\ online /\ down # <<>>
  /\ down' = Tail(down)
  /\ IF size = Cap
     THEN size' = Keep /\ fresh' = LastOf(Append(fresh, Head(down)), Keep)
     ELSE size' = size + 1 /\ fresh' = Append(fresh, Head(down))
  /\ unread' = unread + 1
  /\ UNCHANGED <<server, online, up, absences, page, processed, view, skipped>>

\* What the effect takes from the buffer: the elements from processed on, or the
\* last one when the buffer has become shorter.
Batch == LastOf(fresh, IF size < processed THEN 1 ELSE size - processed)

ReplaysIn(batch) == {m \in ToSet(batch) : m.type = "replay"}

\* The effect of OrchestratorRunProvider: the tab renders after one message, or
\* only after several.
Effect ==
  /\ unread > 0
  /\ processed' = size
  /\ fresh' = <<>>
  /\ view' = Rendered(view, Batch)
  /\ unread' = 0
  /\ skipped' = (ReplaysIn(Batch) = {} /\ (skipped \/ Len(Batch) < unread))
  /\ UNCHANGED <<server, wire, page, size>>

\* decide: the controls of a pause that is shown; locked before the server knows.
TabDecides ==
  /\ open /\ view.pause /\ ~view.submitted /\ ~view.parked
  /\ ~(view.hydrated /\ view.running)
  /\ view' = [view EXCEPT !.submitted = TRUE]
  /\ up' = IF online THEN Append(up, "decision") ELSE up
  /\ UNCHANGED <<server, online, down, absences, page, size, fresh, processed, unread, skipped>>

BrowserNext ==
  \/ \E here \in BOOLEAN : Launch(here)
  \/ Start \/ StartFails \/ RunSteps \/ Ask \/ Park \/ Wake \/ Over \/ OtherTabDecides \/ Serve
  \/ Connect \/ Disconnect \/ ServerRestarts \/ OpenPage \/ ClosePage \/ FetchReads \/ Hydrate
  \/ Receive \/ Effect \/ TabDecides

BrowserSpec == BrowserInit /\ [][BrowserNext]_browser

-----------------------------------------------------------------------------
(* Properties.                                                             *)

Messages == [type : {"started", "step", "pause", "parked", "locked", "complete", "error",
                     "replay", "not_live"}, seq : -1..(Len(log) + MaxSteps)]

View == [shown : BOOLEAN, running : BOOLEAN, steps : Seq(0..MaxSteps), lastSeq : -1..MaxSteps,
         pause : BOOLEAN, submitted : BOOLEAN, parked : BOOLEAN, hydrated : BOOLEAN]

BrowserTypeOK ==
  /\ log \in Seq(Messages) /\ down \in Seq(Messages) /\ fresh \in Seq(Messages)
  /\ run \in Live \cup {"none", "over"}
  /\ seq \in 0..MaxSteps /\ locked \in BOOLEAN /\ attached \in BOOLEAN
  /\ online \in BOOLEAN /\ open \in BOOLEAN
  /\ up \in Seq({"subscribe", "unsubscribe", "decision"})
  /\ fetch \in {NoFetch, Sent} \cup 0..Len(log)
  /\ size \in 0..Cap /\ Len(fresh) <= size /\ processed \in 0..Cap /\ unread \in Nat
  /\ view \in View /\ skipped \in BOOLEAN

\* "Dedup the reattach overlap" and "don't roll it back": whatever is delivered
\* twice, late or not at all, the steps the tab shows are in the order of the run,
\* none of them twice.  A step once shown stays: only the run's own started message,
\* later than a fetch that saw the steps, begins anew, or once a second run has been
\* launched that run's messages.
StepsOnlyGrow ==
  [][/\ \A i, j \in 1..Len(view'.steps) : i < j => view'.steps[i] < view'.steps[j]
     /\ \/ ToSet(view.steps) \subseteq ToSet(view'.steps)
        \/ Effect /\ Event("started") \in ToSet(Batch)
        \/ launches > 1]_browser

\* A tab among the run's sinks that has rendered everything it was sent shows the
\* run, the first of its investigation: every step, still running if it is, and not
\* as interrupted or parked, whichever of the page's fetch, the subscription and the
\* run itself came first, and also when the cut of the buffer lost it a message
\* before its last replay.
AttachedTabShowsTheRun ==
  launches = 1 /\ attached /\ down = <<>> /\ unread = 0 /\ ~skipped /\ log # <<>> =>
    /\ view.steps = [i \in 1..seq |-> i - 1]
    /\ view.running = (run # "over")
    /\ ~view.hydrated /\ ~view.parked

\* "A tab that reattaches before the next step replays it and disables its (now-dead)
\* pause controls": a tab that has rendered what it was sent of a run whose pause was
\* decided does not offer that pause.
DecidedPauseIsLocked ==
  attached /\ run \in Live /\ locked /\ down = <<>> /\ unread = 0 /\ ~skipped =>
    ~view.pause \/ view.submitted

=============================================================================
