---------------------------- MODULE RunRegistry ----------------------------
(***************************************************************************)
(* The server-lifetime registry of Deep Investigation runs,                *)
(* OrchestratorRunRegistry in src/server/orchestrator-run-registry.ts: its *)
(* entry for one investigation id as a record, and each method as what it  *)
(* makes of that record.  Every method touches the entry of its own id     *)
(* only, so one entry stands for the whole map.  DeepRun composes these    *)
(* with the socket handlers and the move loop.                             *)
(*                                                                         *)
(* Clock readings are kept as the number of ticks since they were taken.   *)
(***************************************************************************)
EXTENDS Integers

CONSTANTS
  Conns,        \* client connections; one is also the sink its send function is
  ParkIdle,     \* PARK_IDLE_MS, in ticks
  Grace         \* TERMINAL_GRACE_MS, in ticks

ASSUME RegistryAssumption == ParkIdle \in Nat /\ Grace \in Nat

Never    == -1                       \* a clock reading that was not taken (null)
Statuses == {"absent", "running", "parked", "terminal"}
Pauses   == {"none", "operator", "park"}
Live     == {"running", "parked"}

\* RunEntry; "absent" is an id the map does not have.
Entries == [status : Statuses, sinks : SUBSET Conns, pause : Pauses, locked : BOOLEAN,
            parkRequested : BOOLEAN, emptyFor : {Never} \cup 0..ParkIdle,
            deadFor : {Never} \cup 0..Grace]

NoEntry    == [status |-> "absent", sinks |-> {}, pause |-> "none", locked |-> FALSE,
               parkRequested |-> FALSE, emptyFor |-> Never, deadFor |-> Never]
FreshEntry == [NoEntry EXCEPT !.status = "running"]

IsLive(e) == e.status \in Live

\* Mutant: the entry of a run that is over is preserved as well.
CreateOnce(e) == IF e.status # "absent" THEN e ELSE FreshEntry

\* A live entry is preserved; an absent or terminal one is replaced.
Create(e) == IF IsLive(e) THEN e ELSE FreshEntry

\* Methods on an id the map does not have do nothing.
Present(e, changed) == IF e.status = "absent" THEN e ELSE changed

\* Mutant: the pending park request is forgotten.
AttachSinkOnly(e, c) == Present(e, [e EXCEPT !.sinks = e.sinks \cup {c}, !.emptyFor = Never])

AttachSink(e, c) ==
  Present(e, [e EXCEPT !.sinks = e.sinks \cup {c}, !.emptyFor = Never, !.parkRequested = FALSE])

DropSinks(e, cs) ==
  [e EXCEPT !.sinks = e.sinks \ cs, !.emptyFor = IF e.sinks \ cs = {} THEN 0 ELSE e.emptyFor]

\* Mutant: the last viewer leaves without a time stamp.
DetachSinkUnstamped(e, c) == Present(e, [e EXCEPT !.sinks = e.sinks \ {c}])

DetachSink(e, c) == Present(e, DropSinks(e, {c}))

\* broadcast, where the sends to the sinks in dead throw.
Broadcast(e, dead) == IF e.sinks \cap dead = {} THEN e ELSE DropSinks(e, dead)

SetPause(e, kind) == Present(e, [e EXCEPT !.pause = kind, !.locked = FALSE])
ClearPause(e)     == [e EXCEPT !.pause = "none"]

TryLock(e) == e.status # "absent" /\ ~e.locked
Lock(e)    == [e EXCEPT !.locked = TRUE]

ConsumeParkRequest(e) == [e EXCEPT !.parkRequested = FALSE]
MarkParked(e)         == Present(e, [e EXCEPT !.status = "parked"])
MarkRunning(e)        == IF e.status = "parked" THEN [e EXCEPT !.status = "running"] ELSE e

MarkTerminal(e) ==
  Present(e, [e EXCEPT !.status = "terminal", !.deadFor = 0, !.parkRequested = FALSE,
                       !.pause = "none"])

\* One watchdog tick.
ParkDue(e) == /\ e.status = "running" /\ ~e.parkRequested
              /\ e.sinks = {} /\ e.emptyFor = ParkIdle
SweepDue(e) == e.status = "terminal" /\ e.deadFor = Grace
Sweep(e) == IF ParkDue(e) THEN [e EXCEPT !.parkRequested = TRUE]
            ELSE IF SweepDue(e) THEN NoEntry ELSE e

\* A tick of the clock, up to the age the watchdog compares with.
Older(age, limit) == IF age = Never \/ age = limit THEN age ELSE age + 1
Age(e) == [e EXCEPT !.emptyFor = Older(e.emptyFor, ParkIdle), !.deadFor = Older(e.deadFor, Grace)]

=============================================================================
