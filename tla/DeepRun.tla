------------------------------- MODULE DeepRun -------------------------------
(***************************************************************************)
(* Deep Investigation runs of one investigation as the server drives them: *)
(* the registry entry, the client connections, the move loop of each run   *)
(* and the operator-pause timer (src/server/ws-handler.ts around           *)
(* handleOrchestratorInvestigate, runOrchestratorStreamed and the          *)
(* orchestrator_* messages).                                               *)
(*                                                                         *)
(* The loop is the skeleton of OrchestratorLoop that the registry can see: *)
(* where it is blocked.  A settled promise continues its loop in a         *)
(* microtask, before the next socket message, timer or watchdog callback:  *)
(* those callbacks wait until no loop is at "top" or "waking".             *)
(***************************************************************************)
EXTENDS RunRegistry, FiniteSets

CONSTANTS
  MaxRuns,      \* model bound: launches of a run for this investigation
  MaxContinues, \* MAX_OPERATOR_CONTINUES
  Leads         \* what an operator may write at a launch or next to a "continue"

ASSUME DeepRunAssumption == MaxRuns \in Nat /\ MaxContinues \in Nat

Runs  == 1..MaxRuns
NoRun == 0

VARIABLES
  entry,        \* the registry's entry for the investigation
  owner,        \* the run the entry was created for (its AbortController)
  pc,           \* where each run's loop is
  aborted,      \* runs whose AbortController fired
  timers,       \* runs whose operator-pause timer is armed
  continues,    \* operatorContinues of the current run
  online,       \* connections whose socket is OPEN
  mine,         \* connections that have the investigation in myRuns
  stale,        \* connections that miss an event of the current run (history)
  noted,        \* leads in the decision_locked events between the current run's
                \* started and complete: what accept reports as operatorNotes
  context,      \* operatorContext of the current run's loop: the lead it follows, if any
  seed          \* the lead the current run was launched with, if any (history)

loop    == <<owner, pc, aborted, timers, continues, noted, context, seed>>
clients == <<online, mine, stale>>
vars    == <<entry, owner, pc, aborted, timers, continues, online, mine, stale, noted, context,
             seed>>

Idle    == {"unborn", "done"}
PCs     == Idle \cup {"starting", "top", "waking", "working", "givingUp", "parked", "operator"}

Quiescent == \A r \in Runs : pc[r] \notin {"top", "waking"}

Init ==
  /\ entry = NoEntry
  /\ owner = NoRun
  /\ pc = [r \in Runs |-> "unborn"]
  /\ aborted = {} /\ timers = {}
  /\ continues = 0
  /\ online = {} /\ mine = {} /\ stale = {}
  /\ noted = {} /\ context = {} /\ seed = {}

Goto(r, label) == pc' = [pc EXCEPT ![r] = label]

\* Only an open socket takes a message; the send function of a closing one does
\* nothing, or throws (the sinks in dead).
Dead(e) == SUBSET (e.sinks \ online)

\* An event of the run went to the sinks of the entry: the others miss it.
Missed == stale' = stale \cup (Conns \ (entry.sinks \cap online))

\* Mutant: clearPause and resolvePause forget the timer.
TimersLeft == timers

\* clearTimeout of the pause the entry holds.
TimersCleared == IF entry.pause = "none" THEN timers ELSE timers \ {owner}

-----------------------------------------------------------------------------
(* The run: handleOrchestratorInvestigate and runOrchestratorStreamed.     *)

\* What rides along as an operator's free text: nothing, or one lead.
Notes == {{}} \cup {{l} : l \in Leads}

\* From the isLive check to attachSink there is no await.  A lead given here seeds
\* the loop's operatorContext; no event of the log carries it.
Launch(c, r, lead) ==
  /\ Quiescent
  /\ c \in online
  /\ ~IsLive(entry)
  /\ pc[r] = "unborn" /\ \A q \in Runs : q < r => pc[q] # "unborn"
  /\ entry' = AttachSink(Create(entry), c)
  /\ owner' = r
  /\ Goto(r, "starting")
  /\ continues' = 0 /\ stale' = {} /\ noted' = {}
  /\ context' = lead /\ seed' = lead
  /\ mine' = mine \cup {c}
  /\ UNCHANGED <<aborted, timers, online>>

\* getOrCreateAgents settled: orchestrator:started, and into the loop, ...
Start(r, dead) ==
  /\ Quiescent
  /\ pc[r] = "starting"
  /\ Goto(r, "top")
  /\ entry' = Broadcast(entry, dead)
  /\ Missed
  /\ UNCHANGED <<owner, aborted, timers, continues, online, mine, noted, context, seed>>

\* ... or rejected: only the finally of the handler runs.
StartFails(r) ==
  /\ Quiescent
  /\ pc[r] = "starting"
  /\ Goto(r, "done")
  /\ entry' = MarkTerminal(entry)
  /\ timers' = TimersCleared
  /\ UNCHANGED <<owner, aborted, continues, online, mine, stale, noted, context, seed>>

\* orchestrator:complete or orchestrator:error, clearPause, markTerminal.
Over(r, dead) ==
  /\ Goto(r, "done")
  /\ Missed
  /\ entry' = MarkTerminal(ClearPause(Broadcast(entry, dead)))
  /\ timers' = TimersCleared

\* The guards of the next move, from registry entry e: the operator is asked, or
\* the loop goes into an await of its own, towards its end or not.
PauseForOperator(r, e, dead) ==
  /\ continues < MaxContinues
  /\ Goto(r, "operator")
  /\ entry' = SetPause(Broadcast(e, dead), "operator")
  /\ Missed
  /\ timers' = timers \cup {r}

Proceed(r, e, dead) ==
  /\ \E label \in {"working", "givingUp"} : Goto(r, label)
  /\ dead = {}
  /\ entry' = e
  /\ UNCHANGED <<stale, timers>>

NextMove(r, e, dead) == PauseForOperator(r, e, dead) \/ Proceed(r, e, dead)

\* onMoveBoundary with a park request: orchestrator:parked, markParked, setPause.
Park(r, dead) ==
  /\ Goto(r, "parked")
  /\ Missed
  /\ entry' = SetPause(MarkParked(Broadcast(ConsumeParkRequest(entry), dead)), "park")
  /\ UNCHANGED timers

\* Mutant: the park checkpoint comes before the abort.
BoundaryParkFirst(r, dead) ==
  /\ pc[r] = "top"
  /\ \/ entry.parkRequested /\ Park(r, dead)
     \/ r \in aborted /\ ~entry.parkRequested /\ Over(r, dead)
     \/ r \notin aborted /\ ~entry.parkRequested /\ NextMove(r, entry, dead)
  /\ UNCHANGED <<owner, aborted, continues, online, mine, noted, context, seed>>

\* The top of the loop: abort, the park checkpoint, the guards.
Boundary(r, dead) ==
  /\ pc[r] = "top"
  /\ \/ r \in aborted /\ Over(r, dead)
     \/ r \notin aborted /\ entry.parkRequested /\ Park(r, dead)
     \/ r \notin aborted /\ ~entry.parkRequested /\ NextMove(r, entry, dead)
  /\ UNCHANGED <<owner, aborted, continues, online, mine, noted, context, seed>>

\* The park pause was resolved: markRunning, abort again, the guards.
Wake(r, dead) ==
  /\ pc[r] = "waking"
  /\ \/ r \in aborted /\ Over(r, dead)
     \/ r \notin aborted /\ NextMove(r, MarkRunning(entry), dead)
  /\ UNCHANGED <<owner, aborted, continues, online, mine, noted, context, seed>>

\* A move's model or tool call settled: its step is emitted, or the run ends.
\* (The awaits inside one move are one await here.)
MoveDone(r, dead) ==
  /\ Quiescent
  /\ \/ /\ pc[r] = "working"
        /\ Goto(r, "top")
        /\ entry' = Broadcast(entry, dead)
        /\ Missed
        /\ UNCHANGED timers
     \/ pc[r] \in {"working", "givingUp"} /\ Over(r, dead)
  /\ UNCHANGED <<owner, aborted, continues, online, mine, noted, context, seed>>

\* OPERATOR_PAUSE_TIMEOUT_MS passed: clearPause, and the loop is told to escalate.
PauseTimeout(r) ==
  /\ Quiescent
  /\ r \in timers
  /\ timers' = TimersCleared \ {r}
  /\ entry' = ClearPause(entry)
  /\ pc' = [pc EXCEPT ![r] = IF @ = "operator" THEN "givingUp" ELSE @]
  /\ UNCHANGED <<owner, aborted, continues, noted, context, seed, clients>>

-----------------------------------------------------------------------------
(* The clients.                                                            *)

\* A park pause ignores the decision; an operator's "continue" is counted.
ContinuesAfter(kind, decision) ==
  IF kind = "operator" /\ decision = "continue" THEN continues + 1 ELSE continues

\* resolvePause on entry e: its pause and timer are cleared, and the loop that
\* set it continues.
ResolvePause(e, decision) ==
  /\ entry' = ClearPause(e)
  /\ timers' = TimersCleared
  /\ continues' = ContinuesAfter(e.pause, decision)
  /\ \/ e.pause = "none" /\ UNCHANGED pc
     \/ e.pause = "park" /\ Goto(owner, "waking")
     \/ e.pause = "operator" /\ Goto(owner, IF decision = "continue" THEN "top" ELSE "givingUp")

\* Mutant: the lock is persisted without its lead.
LockNotesNothing(lead) == noted

\* The lead is part of the decision_locked event that accept will read.
LockNotes(lead) == IF pc[owner] \in {"starting", "done"} THEN noted ELSE noted \cup lead

\* orchestrator_decision: the first to take the lock has its decision persisted,
\* broadcast and delivered, with the lead it carries: a loop that was asked follows
\* it until another one replaces it.
Decide(c, decision, lead, dead) ==
  /\ Quiescent
  /\ c \in online
  /\ decision # "continue" => lead = {}
  /\ TryLock(entry)
  /\ ResolvePause(Broadcast(Lock(entry), dead), decision)
  /\ Missed
  /\ noted' = LockNotes(lead)
  /\ context' = IF entry.pause = "operator" /\ lead # {} THEN lead ELSE context
  /\ UNCHANGED <<owner, aborted, online, mine, seed>>

\* Mutant: the controller fires, and the pause stays.
StopOnly(c) ==
  /\ Quiescent
  /\ c \in online
  /\ entry.status # "absent"
  /\ aborted' = aborted \cup {owner}
  /\ UNCHANGED <<entry, pc, timers, continues, owner, noted, context, seed, clients>>

\* orchestrator_stop: the pause is resolved before the controller fires, but
\* the loop only continues once the handler is done.
Stop(c) ==
  /\ Quiescent
  /\ c \in online
  /\ entry.status # "absent"
  /\ ResolvePause(entry, "continue")
  /\ aborted' = aborted \cup {owner}
  /\ UNCHANGED <<owner, noted, context, seed, clients>>

\* Mutant: only a run that was parked is replayed.
ReplayParked(c) == stale' = IF entry.status = "parked" THEN stale \ {c} ELSE stale

\* The persisted history is sent to the connection.
Replay(c) == stale' = stale \ {c}

\* orchestrator_subscribe on a live run: attach, wake a parked loop, replay.
Subscribe(c) ==
  /\ Quiescent
  /\ c \in online
  /\ IsLive(entry)
  /\ LET attached == AttachSink(entry, c)
     IN  IF attached.status = "parked"
         THEN ResolvePause(MarkRunning(attached), "continue")
         ELSE entry' = attached /\ UNCHANGED <<pc, timers, continues>>
  /\ mine' = mine \cup {c}
  /\ Replay(c)
  /\ UNCHANGED <<owner, aborted, online, noted, context, seed>>

Unsubscribe(c) ==
  /\ Quiescent
  /\ c \in online
  /\ entry' = DetachSink(entry, c)
  /\ mine' = mine \ {c}
  /\ UNCHANGED <<loop, online, stale>>

\* A page (re)loads: a connection that has seen nothing yet.
Connect(c) ==
  /\ Quiescent
  /\ c \notin online \cup mine
  /\ online' = online \cup {c}
  /\ stale' = stale \cup {c}
  /\ UNCHANGED <<loop, entry, mine>>

\* The socket leaves OPEN: from now on its sink is deaf, ...
Vanish(c) ==
  /\ Quiescent
  /\ c \in online
  /\ online' = online \ {c}
  /\ UNCHANGED <<loop, entry, mine, stale>>

\* ... until the close handler, at the latest after the heartbeat terminates the
\* socket, detaches it from the runs in myRuns.
Closed(c) ==
  /\ Quiescent
  /\ c \notin online /\ c \in mine
  /\ entry' = DetachSink(entry, c)
  /\ mine' = mine \ {c}
  /\ UNCHANGED <<loop, online, stale>>

-----------------------------------------------------------------------------
(* Time.                                                                   *)

Watchdog ==
  /\ Quiescent
  /\ ParkDue(entry) \/ SweepDue(entry)
  /\ entry' = Sweep(entry)
  /\ UNCHANGED <<loop, clients>>

Tick ==
  /\ Quiescent
  /\ Age(entry) # entry
  /\ entry' = Age(entry)
  /\ UNCHANGED <<loop, clients>>

Decisions == {"continue", "escalate", "wait"}

RunStep(r) ==
  \/ StartFails(r) \/ PauseTimeout(r)
  \/ \E dead \in Dead(entry) : Start(r, dead) \/ Boundary(r, dead) \/ Wake(r, dead) \/ MoveDone(r, dead)

ClientStep(c) ==
  \/ Stop(c) \/ Subscribe(c) \/ Unsubscribe(c) \/ Connect(c) \/ Vanish(c)
  \/ \E r \in Runs, l \in Notes : Launch(c, r, l)
  \/ \E d \in Decisions, l \in Notes, dead \in Dead(entry) : Decide(c, d, l, dead)

Next ==
  \/ \E r \in Runs : RunStep(r)
  \/ \E c \in Conns : ClientStep(c) \/ Closed(c)
  \/ Watchdog
  \/ Tick

\* Loops make progress (their calls are raced against watchdogs).  Intervals fire
\* and dead sockets are closed: a callback that is due runs in some iteration of
\* the event loop, whose other callbacks leave no microtask behind, so it is
\* enabled again and again and not forever disabled by them (SF).  Clients owe
\* nothing.
Fairness ==
  /\ \A r \in Runs : WF_vars(RunStep(r))
  /\ \A c \in Conns : SF_vars(Closed(c))
  /\ SF_vars(Watchdog) /\ SF_vars(Tick)

Spec == Init /\ [][Next]_vars /\ Fairness

-----------------------------------------------------------------------------
(* Properties.                                                             *)

TypeOK ==
  /\ entry \in Entries
  /\ owner \in Runs \cup {NoRun}
  /\ pc \in [Runs -> PCs]
  /\ aborted \subseteq Runs /\ timers \subseteq Runs
  /\ continues \in 0..MaxContinues
  /\ online \subseteq Conns /\ mine \subseteq Conns /\ stale \subseteq Conns
  /\ noted \subseteq Leads /\ context \in Notes /\ seed \in Notes

\* One run per investigation, and the registry's entry is that run's: Stop,
\* subscribe and the watchdog can only be acting on the loop that is running
\* ("otherwise a relaunch would leave the new run unabortable").
LiveEntryIsTheRun ==
  /\ \A r \in Runs : pc[r] \notin Idle => r = owner
  /\ entry.status # "absent" => owner # NoRun /\ pc[owner] # "unborn"
  /\ IsLive(entry) <=> owner # NoRun /\ pc[owner] \notin Idle

\* A loop that is blocked can be unblocked: the pause it waits for is the one
\* the registry holds, and an operator pause has its timer; no other pause or
\* timer is left behind by a run that moved on, was stopped or ended.  The
\* operator is only asked while the run has a continue left to give.
PauseIsTheLoops ==
  /\ (entry.pause = "park") <=> (owner # NoRun /\ pc[owner] = "parked")
  /\ (entry.pause = "operator") <=> (owner # NoRun /\ pc[owner] = "operator")
  /\ timers = {r \in Runs : pc[r] = "operator"}
  /\ \A r \in Runs : pc[r] = "operator" => continues < MaxContinues

\* "A reattach cancels a pending park": a run is only asked to park, and only
\* stays parked, while no viewer is attached.  The status says so until the
\* loop has been woken.
ParkedRunHasNoViewer ==
  /\ entry.parkRequested => entry.status = "running" /\ entry.sinks = {}
  /\ entry.status = "parked" => entry.sinks = {} /\ pc[owner] \in {"parked", "waking"}
  /\ \A r \in Runs : pc[r] = "parked" => entry.status = "parked"

\* The watchdog's clock runs only while no viewer is attached, and every
\* attached viewer's connection will detach it when it closes.
ViewersAreAccounted ==
  /\ entry.emptyFor # Never => entry.sinks = {}
  /\ entry.status = "absent" => entry.sinks = {}
  /\ entry.sinks \subseteq mine

\* A client that is attached and open has every event of the run: by the replay,
\* or live.
AttachedViewerIsCurrent == entry.sinks \cap online \cap stale = {}

\* The invariants together: they are inductive.
Inv == /\ TypeOK
       /\ LiveEntryIsTheRun /\ PauseIsTheLoops /\ ParkedRunHasNoViewer
       /\ ViewersAreAccounted /\ AttachedViewerIsCurrent

\* Stop works wherever the loop is blocked.
StopEndsTheRun == \A r \in Runs : r \in aborted ~> pc[r] = "done"

\* "A viewerless run auto-parks instead of burning tokens headless".
HeadlessRunSettles ==
  <>[](online = {}) => <>[](\A r \in Runs : pc[r] \in Idle \cup {"parked"})

\* A steer at a pause is on record: the lead that the loop follows was handed to
\* it at the run's launch, or is among those that the run's decision_locked events
\* carry, where an accept will look for it.  (A launch's lead is in no event, and a
\* lead in an event need not have reached the loop.)
SteerIsOnRecord == context \subseteq seed \cup noted

-----------------------------------------------------------------------------
(* The abstract specification, and how the state of the server maps to it. *)

PhaseOf(label) ==
  CASE label = "unborn" -> "unborn"
    [] label = "done"   -> "over"
    [] label = "parked" -> "parked"
    [] OTHER            -> "active"

Lifecycle == INSTANCE RunLifecycle WITH
  phase   <- [r \in Runs |-> PhaseOf(pc[r])],
  watched <- entry.sinks # {},
  stopped <- aborted

\* The registry, the handlers and the loop together implement the lifecycle: one
\* run at a time, parked only while unwatched, awake when a viewer is back, not
\* parked any more once stopped.
ImplementsLifecycle == Lifecycle!Spec

=============================================================================
