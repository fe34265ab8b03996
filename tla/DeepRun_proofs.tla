--------------------------- MODULE DeepRun_proofs ---------------------------
(***************************************************************************)
(* Proofs about DeepRun, for every number of connections, runs, continues  *)
(* and ticks: the registry entry and the loops agree (Inv, inductive), and *)
(* the server implements RunLifecycle.                                     *)
(***************************************************************************)
EXTENDS DeepRun, TLAPS

-----------------------------------------------------------------------------
(* What the registry's methods make of an entry, field by field.           *)

\* A detached or dropped sink: nothing else changes but the clock.
Drops(e, f, cs) ==
  /\ f \in Entries
  /\ f.sinks = e.sinks \ cs
  /\ f.status = e.status /\ f.pause = e.pause /\ f.locked = e.locked
  /\ f.parkRequested = e.parkRequested /\ f.deadFor = e.deadFor
  /\ f.sinks # {} => f.emptyFor = e.emptyFor

\* An entry whose viewers and clocks are those of e.
SameViewers(e, f) == f \in Entries /\ f.sinks = e.sinks /\ f.emptyFor = e.emptyFor

\* DropSinks only ever shrinks the set of viewers.
LEMMA DropFacts ==
  ASSUME NEW e \in Entries, NEW cs
  PROVE  Drops(e, DropSinks(e, cs), cs)
<1>1. e.sinks \ cs \in SUBSET Conns
  BY DEF Entries
<1>2. 0 \in {Never} \cup 0..ParkIdle
  BY RegistryAssumption
<1>3. DropSinks(e, cs) \in Entries
  BY <1>1, <1>2, Zenon DEF DropSinks, Entries
<1> QED
  BY <1>3 DEF DropSinks, Drops, Entries

\* An announcement drops the sinks that threw.
LEMMA BroadcastFacts ==
  ASSUME NEW e \in Entries, NEW dead \in SUBSET e.sinks
  PROVE  Drops(e, Broadcast(e, dead), dead)
<1>1. CASE e.sinks \cap dead = {}
  BY <1>1 DEF Broadcast, Drops, Entries
<1>2. CASE e.sinks \cap dead # {}
  BY <1>2, DropFacts DEF Broadcast
<1> QED
  BY <1>1, <1>2

\* detachSink on any id: an absent entry has no viewer to lose.
LEMMA DetachFacts ==
  ASSUME NEW e \in Entries, NEW c \in Conns, e.status = "absent" => e.sinks = {}
  PROVE  Drops(e, DetachSink(e, c), {c})
<1>1. CASE e.status = "absent"
  BY <1>1 DEF DetachSink, Present, Drops
<1>2. CASE e.status # "absent"
  BY <1>2, DropFacts DEF DetachSink, Present
<1> QED
  BY <1>1, <1>2

\* A viewer attaches: the clock stops and a park request is withdrawn.
LEMMA AttachFacts ==
  ASSUME NEW e \in Entries, NEW c \in Conns, e.status # "absent"
  PROVE  /\ AttachSink(e, c) \in Entries
         /\ AttachSink(e, c).sinks = e.sinks \cup {c}
         /\ AttachSink(e, c).emptyFor = Never
         /\ AttachSink(e, c).parkRequested = FALSE
         /\ AttachSink(e, c).status = e.status
         /\ AttachSink(e, c).pause = e.pause
         /\ AttachSink(e, c).locked = e.locked
<1>1. e.sinks \cup {c} \in SUBSET Conns
  BY DEF Entries
<1>2. AttachSink(e, c) = [e EXCEPT !.sinks = e.sinks \cup {c}, !.emptyFor = Never,
                                   !.parkRequested = FALSE]
  BY DEF AttachSink, Present
<1>3. AttachSink(e, c) \in Entries
  BY <1>1, <1>2, Zenon DEF Entries
<1> QED
  BY <1>2, <1>3 DEF Entries

\* A pause is set on a present entry, with the decision lock open.
LEMMA SetPauseFacts ==
  ASSUME NEW e \in Entries, NEW kind \in Pauses, e.status # "absent"
  PROVE  /\ SameViewers(e, SetPause(e, kind))
         /\ SetPause(e, kind).status = e.status
         /\ SetPause(e, kind).pause = kind
         /\ SetPause(e, kind).parkRequested = e.parkRequested
BY DEF SetPause, Present, Entries, SameViewers

LEMMA ClearPauseFacts ==
  ASSUME NEW e \in Entries
  PROVE  /\ SameViewers(e, ClearPause(e))
         /\ ClearPause(e).status = e.status
         /\ ClearPause(e).pause = "none"
         /\ ClearPause(e).parkRequested = e.parkRequested
BY DEF ClearPause, Entries, Pauses, SameViewers

LEMMA LockFacts ==
  ASSUME NEW e \in Entries
  PROVE  /\ SameViewers(e, Lock(e))
         /\ Lock(e).status = e.status
         /\ Lock(e).pause = e.pause
         /\ Lock(e).parkRequested = e.parkRequested
BY DEF Lock, Entries, SameViewers

LEMMA ConsumeFacts ==
  ASSUME NEW e \in Entries
  PROVE  /\ SameViewers(e, ConsumeParkRequest(e))
         /\ ConsumeParkRequest(e).status = e.status
         /\ ConsumeParkRequest(e).pause = e.pause
         /\ ConsumeParkRequest(e).parkRequested = FALSE
BY DEF ConsumeParkRequest, Entries, SameViewers

LEMMA MarkParkedFacts ==
  ASSUME NEW e \in Entries, e.status # "absent"
  PROVE  /\ SameViewers(e, MarkParked(e))
         /\ MarkParked(e).status = "parked"
         /\ MarkParked(e).pause = e.pause
         /\ MarkParked(e).parkRequested = e.parkRequested
BY DEF MarkParked, Present, Entries, Statuses, SameViewers

LEMMA MarkRunningFacts ==
  ASSUME NEW e \in Entries
  PROVE  /\ SameViewers(e, MarkRunning(e))
         /\ MarkRunning(e).status = IF e.status = "parked" THEN "running" ELSE e.status
         /\ MarkRunning(e).pause = e.pause
         /\ MarkRunning(e).parkRequested = e.parkRequested
BY DEF MarkRunning, Entries, Statuses, SameViewers

LEMMA MarkTerminalFacts ==
  ASSUME NEW e \in Entries, e.status # "absent"
  PROVE  /\ SameViewers(e, MarkTerminal(e))
         /\ MarkTerminal(e).status = "terminal"
         /\ MarkTerminal(e).pause = "none"
         /\ MarkTerminal(e).parkRequested = FALSE
<1>1. 0 \in {Never} \cup 0..Grace
  BY RegistryAssumption
<1>2. MarkTerminal(e) = [e EXCEPT !.status = "terminal", !.deadFor = 0,
                                  !.parkRequested = FALSE, !.pause = "none"]
  BY DEF MarkTerminal, Present
<1>3. MarkTerminal(e) \in Entries
  BY <1>1, <1>2, Zenon DEF Entries, Statuses, Pauses
<1> QED
  BY <1>2, <1>3 DEF Entries, SameViewers

LEMMA NewEntryFacts ==
  /\ NoEntry \in Entries /\ FreshEntry \in Entries
  /\ NoEntry.status = "absent" /\ NoEntry.sinks = {} /\ NoEntry.pause = "none"
  /\ NoEntry.parkRequested = FALSE /\ NoEntry.emptyFor = Never
  /\ FreshEntry.status = "running" /\ FreshEntry.sinks = {} /\ FreshEntry.pause = "none"
  /\ FreshEntry.parkRequested = FALSE /\ FreshEntry.emptyFor = Never
BY DEF NoEntry, FreshEntry, Entries, Statuses, Pauses, Never

\* The clock counts up to the age the watchdog compares with.
LEMMA OlderType ==
  ASSUME NEW limit \in Nat, NEW age \in {Never} \cup 0..limit
  PROVE  Older(age, limit) \in {Never} \cup 0..limit
BY DEF Older, Never

LEMMA AgeFacts ==
  ASSUME NEW e \in Entries
  PROVE  /\ Age(e) \in Entries
         /\ Age(e).status = e.status /\ Age(e).sinks = e.sinks /\ Age(e).pause = e.pause
         /\ Age(e).parkRequested = e.parkRequested
         /\ e.emptyFor = Never => Age(e).emptyFor = Never
<1>1. /\ Older(e.emptyFor, ParkIdle) \in {Never} \cup 0..ParkIdle
      /\ Older(e.deadFor, Grace) \in {Never} \cup 0..Grace
  BY RegistryAssumption, OlderType DEF Entries
<1>2. Age(e) \in Entries
  BY <1>1, Zenon DEF Age, Entries
<1> QED
  BY <1>2 DEF Age, Older, Entries

-----------------------------------------------------------------------------
(* The invariant.                                                          *)

USE DEF Runs, NoRun

\* Entry e fits a current run whose loop is at label, with these timers armed.
Fits(e, label, armed) ==
  /\ e.status # "absent" /\ label # "unborn"
  /\ IsLive(e) <=> label \notin Idle
  /\ e.pause = "park" <=> label = "parked"
  /\ e.pause = "operator" <=> label = "operator"
  /\ armed = IF label = "operator" THEN {owner} ELSE {}
  /\ e.parkRequested => e.status = "running" /\ e.sinks = {}
  /\ e.status = "parked" => e.sinks = {} /\ label \in {"parked", "waking"}
  /\ label = "parked" => e.status = "parked"

\* Viewers can only be lost, and lose no event they were sent.
FewerViewers(e) ==
  /\ e \in Entries
  /\ e.sinks \subseteq entry.sinks
  /\ e.sinks # {} => e.emptyFor = entry.emptyFor
  /\ e.status = "absent" => e.sinks = {}

LEMMA InvFits ==
  ASSUME Inv, entry.status # "absent"
  PROVE  owner \in Runs /\ Fits(entry, pc[owner], timers)
<1>1. owner \in Runs
  BY DEF Inv, TypeOK, LiveEntryIsTheRun
<1>2. timers = IF pc[owner] = "operator" THEN {owner} ELSE {}
  BY <1>1 DEF Inv, LiveEntryIsTheRun, PauseIsTheLoops, Idle
<1> QED
  BY <1>1, <1>2 DEF Inv, LiveEntryIsTheRun, PauseIsTheLoops, ParkedRunHasNoViewer, Fits

\* The converse: the control part of Inv after a step of the current run's loop.
LEMMA FitsInv ==
  ASSUME Inv, entry.status # "absent", NEW label \in PCs, owner' = owner,
         Goto(owner, label), Fits(entry', label, timers'),
         label = "operator" => continues' < MaxContinues
  PROVE  LiveEntryIsTheRun' /\ PauseIsTheLoops' /\ ParkedRunHasNoViewer' /\ pc' \in [Runs -> PCs]
<1>1. owner \in Runs
  BY InvFits
<1>2. /\ pc' \in [Runs -> PCs] /\ pc'[owner] = label
      /\ \A r \in Runs : r # owner => pc'[r] \in Idle
  BY <1>1 DEF Goto, Inv, TypeOK, LiveEntryIsTheRun
<1>3. LiveEntryIsTheRun'
  BY <1>1, <1>2 DEF LiveEntryIsTheRun, Fits, IsLive
<1>4. PauseIsTheLoops'
  <2>1. timers' = {r \in Runs : pc'[r] = "operator"}
    BY <1>1, <1>2 DEF Fits, Idle
  <2> QED
    BY <1>1, <1>2, <2>1 DEF PauseIsTheLoops, Fits
<1>5. ParkedRunHasNoViewer'
  BY <1>1, <1>2 DEF ParkedRunHasNoViewer, Fits, Idle
<1> QED
  BY <1>2, <1>3, <1>4, <1>5

\* The client part of Inv when viewers are lost and an event may be announced.
LEMMA FewerInv ==
  ASSUME Inv, FewerViewers(entry'), UNCHANGED <<online, mine>>,
         UNCHANGED stale \/ Missed
  PROVE  ViewersAreAccounted' /\ AttachedViewerIsCurrent' /\ stale' \subseteq Conns
<1>1. ViewersAreAccounted'
  BY DEF Inv, ViewersAreAccounted, FewerViewers, Entries, IsLive
<1>2. AttachedViewerIsCurrent'
  BY DEF Inv, AttachedViewerIsCurrent, FewerViewers, Missed
<1>3. stale' \subseteq Conns
  BY DEF Inv, TypeOK, Missed
<1> QED
  BY <1>1, <1>2, <1>3

\* Initially nothing exists.
LEMMA InitInv == Init => Inv
<1> SUFFICES ASSUME Init PROVE Inv
  OBVIOUS
<1>1. TypeOK
  BY NewEntryFacts, DeepRunAssumption DEF Init, TypeOK, PCs, Idle, Notes
<1>2. LiveEntryIsTheRun /\ PauseIsTheLoops /\ ParkedRunHasNoViewer
  BY NewEntryFacts DEF Init, LiveEntryIsTheRun, PauseIsTheLoops, ParkedRunHasNoViewer,
                       Idle, IsLive, Live
<1>3. ViewersAreAccounted /\ AttachedViewerIsCurrent
  BY NewEntryFacts DEF Init, ViewersAreAccounted, AttachedViewerIsCurrent
<1> QED
  BY <1>1, <1>2, <1>3 DEF Inv

\* A launch replaces the entry of a run that is over.
LEMMA LaunchInv ==
  ASSUME Inv, NEW c \in Conns, NEW r \in Runs, NEW l \in Notes, Launch(c, r, l)
  PROVE  Inv'
<1>1. Create(entry) = FreshEntry
  BY DEF Launch, Create
<1>2. /\ entry' \in Entries /\ entry'.status = "running" /\ entry'.sinks = {c}
      /\ entry'.pause = "none" /\ entry'.parkRequested = FALSE /\ entry'.emptyFor = Never
  BY <1>1, NewEntryFacts, AttachFacts DEF Launch
<1>3. TypeOK'
  BY <1>2, DeepRunAssumption DEF Launch, Inv, TypeOK, Goto, PCs, Idle
<1>4. LiveEntryIsTheRun'
  BY <1>2 DEF Launch, Inv, TypeOK, LiveEntryIsTheRun, Goto, Idle, IsLive, Live
<1>5. PauseIsTheLoops'
  BY <1>2 DEF Launch, Inv, TypeOK, PauseIsTheLoops, LiveEntryIsTheRun, Goto, Idle, IsLive, Live
<1>6. ParkedRunHasNoViewer'
  BY <1>2 DEF Launch, Inv, TypeOK, ParkedRunHasNoViewer, LiveEntryIsTheRun, Goto, Idle, IsLive, Live
<1>7. ViewersAreAccounted' /\ AttachedViewerIsCurrent'
  BY <1>2 DEF Launch, Inv, ViewersAreAccounted, AttachedViewerIsCurrent
<1> QED
  BY <1>3, <1>4, <1>5, <1>6, <1>7 DEF Inv

-----------------------------------------------------------------------------
(* The steps of the current run.                                           *)

\* A run that is not idle is the current one, its entry live.
LEMMA BusyRun ==
  ASSUME Inv, NEW r \in Runs, pc[r] \notin Idle
  PROVE  /\ r = owner /\ entry \in Entries /\ entry.status # "absent"
         /\ Fits(entry, pc[owner], timers)
<1>1. r = owner /\ entry \in Entries /\ entry.status # "absent"
  BY DEF Inv, TypeOK, LiveEntryIsTheRun, IsLive, Live
<1> QED
  BY <1>1, InvFits

\* What the run announces before it ends or pauses.
LEMMA Announced ==
  ASSUME Inv, entry.status # "absent", NEW dead \in Dead(entry)
  PROVE  /\ Drops(entry, Broadcast(entry, dead), dead)
         /\ FewerViewers(Broadcast(entry, dead))
<1>1. entry \in Entries /\ dead \in SUBSET entry.sinks
  BY DEF Inv, TypeOK, Dead
<1> QED
  BY <1>1, BroadcastFacts DEF Drops, FewerViewers

\* Ending a run: the entry becomes terminal, its pause and timer go.
LEMMA OverStep ==
  ASSUME Inv, NEW r \in Runs, pc[r] \notin Idle, NEW dead \in Dead(entry), Over(r, dead)
  PROVE  FewerViewers(entry') /\ Fits(entry', "done", timers') /\ Goto(owner, "done")
<1>1. r = owner /\ entry.status # "absent" /\ Fits(entry, pc[owner], timers)
  BY BusyRun
<1> DEFINE e == Broadcast(entry, dead)
<1>2. Drops(entry, e, dead) /\ FewerViewers(e)
  BY <1>1, Announced
<1>3. SameViewers(e, ClearPause(e)) /\ ClearPause(e).status = e.status
  BY <1>2, ClearPauseFacts DEF Drops
<1>4. /\ SameViewers(ClearPause(e), entry') /\ entry'.status = "terminal"
      /\ entry'.pause = "none" /\ entry'.parkRequested = FALSE
  BY <1>1, <1>2, <1>3, MarkTerminalFacts DEF Over, Drops, SameViewers
<1>5. FewerViewers(entry')
  BY <1>2, <1>3, <1>4 DEF FewerViewers, SameViewers
<1>6. timers' = {}
  BY <1>1 DEF Over, TimersCleared, Fits
<1>7. Fits(entry', "done", timers')
  BY <1>4, <1>6 DEF Fits, IsLive, Live, Idle
<1> QED
  BY <1>1, <1>5, <1>7 DEF Over

\* Asking the operator, or going on, from an entry e that is running.
LEMMA NextMoveStep ==
  ASSUME Inv, NEW r \in Runs, pc[r] \in {"top", "waking"}, NEW e \in Entries,
         e.status = "running", e.pause = "none", e.parkRequested => e.sinks = {},
         SameViewers(entry, e), NEW dead \in Dead(entry), NextMove(r, e, dead)
  PROVE  /\ FewerViewers(entry')
         /\ \E label \in {"operator", "working", "givingUp"} :
              /\ Fits(entry', label, timers') /\ Goto(owner, label)
              /\ label = "operator" => continues < MaxContinues
         /\ UNCHANGED stale \/ Missed
<1>1. /\ r = owner /\ entry.status # "absent" /\ timers = {}
  BY BusyRun DEF Fits, Idle
<1>2. CASE PauseForOperator(r, e, dead)
  <2>1. Drops(e, Broadcast(e, dead), dead)
    BY BroadcastFacts DEF Dead, SameViewers
  <2>2. /\ SameViewers(Broadcast(e, dead), entry') /\ entry'.status = "running"
        /\ entry'.pause = "operator"
        /\ entry'.parkRequested => entry'.sinks = {}
    BY <1>2, <2>1, SetPauseFacts DEF PauseForOperator, Drops, Pauses, SameViewers
  <2>3. FewerViewers(entry')
    BY <2>1, <2>2 DEF FewerViewers, SameViewers, Drops
  <2>4. Fits(entry', "operator", timers')
    BY <1>1, <1>2, <2>2 DEF PauseForOperator, Fits, IsLive, Live, Idle
  <2> QED
    BY <1>1, <1>2, <2>3, <2>4 DEF PauseForOperator
<1>3. CASE Proceed(r, e, dead)
  <2>1. PICK label \in {"working", "givingUp"} : Goto(r, label)
    BY <1>3 DEF Proceed
  <2>2. FewerViewers(entry')
    BY <1>3 DEF Proceed, FewerViewers, SameViewers
  <2>3. Fits(entry', label, timers')
    BY <1>1, <1>3 DEF Proceed, Fits, IsLive, Live, Idle
  <2> QED
    BY <1>1, <1>3, <2>1, <2>2, <2>3 DEF Proceed
<1> QED
  BY <1>2, <1>3 DEF NextMove

\* Assembling Inv after a step of the current run that leaves the rest alone.
LEMMA RunInv ==
  ASSUME Inv, entry.status # "absent", FewerViewers(entry'),
         NEW label \in PCs, Fits(entry', label, timers'), Goto(owner, label),
         label = "operator" => continues' < MaxContinues,
         UNCHANGED stale \/ Missed,
         continues' \in 0..MaxContinues, aborted' \subseteq Runs,
         noted' \subseteq Leads, context' \in Notes, seed' \in Notes,
         UNCHANGED <<owner, online, mine>>
  PROVE  Inv'
<1>1. owner \in Runs /\ timers' \subseteq Runs
  BY InvFits DEF Fits
<1>2. LiveEntryIsTheRun' /\ PauseIsTheLoops' /\ ParkedRunHasNoViewer' /\ pc' \in [Runs -> PCs]
  BY FitsInv
<1>3. ViewersAreAccounted' /\ AttachedViewerIsCurrent' /\ stale' \subseteq Conns
  BY FewerInv
<1>4. TypeOK'
  BY <1>1, <1>2, <1>3 DEF Inv, TypeOK, FewerViewers
<1> QED
  BY <1>2, <1>3, <1>4 DEF Inv

LEMMA StartInv ==
  ASSUME Inv, NEW r \in Runs, NEW dead \in Dead(entry), Start(r, dead)
  PROVE  Inv'
<1>1. r = owner /\ entry.status # "absent" /\ Fits(entry, pc[owner], timers)
  BY BusyRun DEF Start, Idle
<1>2. Drops(entry, entry', dead) /\ FewerViewers(entry')
  BY <1>1, Announced DEF Start
<1>3. Fits(entry', "top", timers')
  BY <1>1, <1>2 DEF Start, Fits, Drops, IsLive, Live, Idle
<1> QED
  BY <1>1, <1>2, <1>3, RunInv DEF Start, Inv, TypeOK, PCs

LEMMA StartFailsInv ==
  ASSUME Inv, NEW r \in Runs, StartFails(r)
  PROVE  Inv'
<1>1. /\ r = owner /\ entry \in Entries /\ entry.status # "absent"
      /\ Fits(entry, pc[owner], timers)
  BY BusyRun DEF StartFails, Idle
<1>2. /\ SameViewers(entry, entry') /\ entry'.status = "terminal"
      /\ entry'.pause = "none" /\ entry'.parkRequested = FALSE
  BY <1>1, MarkTerminalFacts DEF StartFails
<1>3. FewerViewers(entry')
  BY <1>2 DEF FewerViewers, SameViewers
<1>4. Fits(entry', "done", timers')
  BY <1>1, <1>2 DEF StartFails, TimersCleared, Fits, IsLive, Live, Idle
<1> QED
  BY <1>1, <1>3, <1>4, RunInv DEF StartFails, Inv, TypeOK, PCs, Idle

\* A run that parks has no viewer, so the announcement reaches nobody.
LEMMA ParkStep ==
  ASSUME Inv, NEW r \in Runs, pc[r] = "top", entry.parkRequested,
         NEW dead \in Dead(entry), Park(r, dead)
  PROVE  FewerViewers(entry') /\ Fits(entry', "parked", timers') /\ Goto(owner, "parked")
<1>1. /\ r = owner /\ entry \in Entries /\ entry.status = "running" /\ entry.sinks = {}
      /\ timers = {}
  BY BusyRun DEF Fits, Idle
<1> DEFINE asked == ConsumeParkRequest(entry)
           told  == Broadcast(asked, dead)
<1>2. SameViewers(entry, asked) /\ asked.status = "running" /\ ~asked.parkRequested
  BY <1>1, ConsumeFacts
<1>3. Drops(asked, told, dead)
  BY <1>1, <1>2, BroadcastFacts DEF Dead, SameViewers
<1>4. SameViewers(told, MarkParked(told)) /\ MarkParked(told).status = "parked"
      /\ ~MarkParked(told).parkRequested
  BY <1>2, <1>3, MarkParkedFacts DEF Drops
<1>5. SameViewers(told, entry') /\ entry'.status = "parked" /\ entry'.pause = "park"
      /\ ~entry'.parkRequested
  BY <1>4, SetPauseFacts DEF Park, SameViewers, Pauses
<1>6. entry'.sinks = {}
  BY <1>1, <1>2, <1>3, <1>5 DEF SameViewers, Drops
<1>7. FewerViewers(entry')
  BY <1>5, <1>6 DEF FewerViewers, SameViewers
<1>8. Fits(entry', "parked", timers')
  BY <1>1, <1>5, <1>6 DEF Park, Fits, IsLive, Live, Idle
<1> QED
  BY <1>1, <1>7, <1>8 DEF Park

LEMMA BoundaryInv ==
  ASSUME Inv, NEW r \in Runs, NEW dead \in Dead(entry), Boundary(r, dead)
  PROVE  Inv'
<1>1. /\ r = owner /\ entry \in Entries /\ entry.status # "absent"
      /\ Fits(entry, pc[owner], timers) /\ pc[r] = "top"
  BY BusyRun DEF Boundary, Idle
<1> USE DEF PCs, Idle
<1>2. CASE r \in aborted /\ Over(r, dead)
  BY <1>1, <1>2, OverStep, RunInv DEF Boundary, Over, Inv, TypeOK
<1>3. CASE entry.parkRequested /\ Park(r, dead)
  BY <1>1, <1>3, ParkStep, RunInv DEF Boundary, Park, Inv, TypeOK
<1>4. CASE ~entry.parkRequested /\ NextMove(r, entry, dead)
  <2>1. entry.status = "running" /\ entry.pause = "none" /\ SameViewers(entry, entry)
    BY <1>1 DEF Fits, IsLive, Live, Entries, Statuses, Pauses, SameViewers
  <2>2. /\ FewerViewers(entry')
        /\ \E label \in {"operator", "working", "givingUp"} :
             /\ Fits(entry', label, timers') /\ Goto(owner, label)
             /\ label = "operator" => continues < MaxContinues
        /\ UNCHANGED stale \/ Missed
    BY <1>1, <1>4, <2>1, NextMoveStep
  <2> QED
    BY <1>1, <2>2, RunInv DEF Boundary, Inv, TypeOK
<1> QED
  BY <1>2, <1>3, <1>4 DEF Boundary

LEMMA WakeInv ==
  ASSUME Inv, NEW r \in Runs, NEW dead \in Dead(entry), Wake(r, dead)
  PROVE  Inv'
<1>1. /\ r = owner /\ entry \in Entries /\ entry.status # "absent"
      /\ Fits(entry, pc[owner], timers) /\ pc[r] = "waking"
  BY BusyRun DEF Wake, Idle
<1> USE DEF PCs, Idle
<1>2. CASE r \in aborted /\ Over(r, dead)
  BY <1>1, <1>2, OverStep, RunInv DEF Wake, Over, Inv, TypeOK
<1>3. CASE NextMove(r, MarkRunning(entry), dead)
  <2>1. /\ MarkRunning(entry) \in Entries /\ MarkRunning(entry).status = "running"
        /\ SameViewers(entry, MarkRunning(entry))
        /\ MarkRunning(entry).pause = "none"
    BY <1>1, MarkRunningFacts DEF Fits, IsLive, Live, Entries, Pauses, SameViewers
  <2>2. MarkRunning(entry).parkRequested => MarkRunning(entry).sinks = {}
    BY <1>1, MarkRunningFacts DEF Fits, SameViewers
  <2>3. /\ FewerViewers(entry')
        /\ \E label \in {"operator", "working", "givingUp"} :
             /\ Fits(entry', label, timers') /\ Goto(owner, label)
             /\ label = "operator" => continues < MaxContinues
        /\ UNCHANGED stale \/ Missed
    BY <1>1, <1>3, <2>1, <2>2, NextMoveStep
  <2> QED
    BY <1>1, <2>3, RunInv DEF Wake, Inv, TypeOK
<1> QED
  BY <1>2, <1>3 DEF Wake

LEMMA MoveDoneInv ==
  ASSUME Inv, NEW r \in Runs, NEW dead \in Dead(entry), MoveDone(r, dead)
  PROVE  Inv'
<1> USE DEF PCs, Idle
<1>1. r = owner /\ entry.status # "absent" /\ Fits(entry, pc[owner], timers)
  BY BusyRun DEF MoveDone
<1>2. CASE /\ pc[r] = "working" /\ Goto(r, "top") /\ entry' = Broadcast(entry, dead)
           /\ Missed /\ UNCHANGED timers
  <2>1. Drops(entry, entry', dead) /\ FewerViewers(entry')
    BY <1>1, <1>2, Announced
  <2>2. Fits(entry', "top", timers')
    BY <1>1, <1>2, <2>1 DEF Fits, Drops, IsLive, Live
  <2> QED
    BY <1>1, <1>2, <2>1, <2>2, RunInv DEF MoveDone, Inv, TypeOK
<1>3. CASE pc[r] \in {"working", "givingUp"} /\ Over(r, dead)
  BY <1>1, <1>3, OverStep, RunInv DEF MoveDone, Over, Inv, TypeOK
<1> QED
  BY <1>2, <1>3 DEF MoveDone

LEMMA PauseTimeoutInv ==
  ASSUME Inv, NEW r \in Runs, PauseTimeout(r)
  PROVE  Inv'
<1> USE DEF PCs, Idle
<1>1. pc[r] = "operator"
  BY DEF PauseTimeout, Inv, PauseIsTheLoops
<1>2. /\ r = owner /\ entry \in Entries /\ entry.status # "absent"
      /\ Fits(entry, pc[owner], timers)
  BY <1>1, BusyRun
<1>3. /\ SameViewers(entry, entry') /\ entry'.status = entry.status
      /\ entry'.pause = "none" /\ entry'.parkRequested = entry.parkRequested
  BY <1>2, ClearPauseFacts DEF PauseTimeout
<1>4. FewerViewers(entry')
  BY <1>2, <1>3 DEF FewerViewers, SameViewers
<1>5. Goto(owner, "givingUp")
  BY <1>1, <1>2 DEF PauseTimeout, Goto, Inv, TypeOK
<1>6. Fits(entry', "givingUp", timers')
  BY <1>1, <1>2, <1>3 DEF PauseTimeout, TimersCleared, Fits, IsLive, Live, SameViewers
<1> QED
  BY <1>2, <1>4, <1>5, <1>6, RunInv DEF PauseTimeout, Inv, TypeOK, clients

-----------------------------------------------------------------------------
(* The steps of the clients.                                               *)

\* Resolving the pause of entry e, which may have lost viewers or been locked.
LEMMA ResolveStep ==
  ASSUME Inv, entry.status # "absent", NEW e \in Entries, NEW decision,
         Fits(e, pc[owner], timers), e.status \in {entry.status, "running"},
         e.pause = entry.pause, ResolvePause(e, decision)
  PROVE  /\ SameViewers(e, entry') /\ entry'.status = e.status
         /\ \E label \in PCs :
              /\ Fits(entry', label, timers') /\ Goto(owner, label)
              /\ label = "operator" => continues' < MaxContinues
         /\ continues' \in 0..MaxContinues
<1> USE DEF PCs, Idle
<1>1. /\ SameViewers(e, entry') /\ entry'.status = e.status
      /\ entry'.pause = "none" /\ entry'.parkRequested = e.parkRequested
  BY ClearPauseFacts DEF ResolvePause
<1>2. /\ owner \in Runs /\ pc \in [Runs -> PCs] /\ continues \in 0..MaxContinues
      /\ pc[owner] = "operator" => continues < MaxContinues
  BY InvFits DEF Inv, TypeOK, PauseIsTheLoops
<1>3. timers' = {}
  BY DEF ResolvePause, TimersCleared, Fits
<1>4. CASE e.pause = "none" /\ UNCHANGED pc
  <2>1. Goto(owner, pc[owner])
    BY <1>2, <1>4 DEF Goto
  <2>2. Fits(entry', pc[owner], timers')
    BY <1>1, <1>3, <1>4 DEF Fits, SameViewers, IsLive
  <2> QED
    BY <1>1, <1>2, <1>4, <2>1, <2>2 DEF ResolvePause, ContinuesAfter
<1>5. CASE e.pause = "park" /\ Goto(owner, "waking")
  <2>1. Fits(entry', "waking", timers')
    BY <1>1, <1>3, <1>5 DEF Fits, SameViewers, IsLive
  <2> QED
    BY <1>1, <1>2, <1>5, <2>1 DEF ResolvePause, ContinuesAfter
<1>6. CASE e.pause = "operator" /\ Goto(owner, IF decision = "continue" THEN "top" ELSE "givingUp")
  <2>1. Fits(entry', "top", timers') /\ Fits(entry', "givingUp", timers')
    BY <1>1, <1>3, <1>6 DEF Fits, SameViewers, IsLive
  <2>2. continues' \in 0..MaxContinues
    BY <1>2, <1>6, DeepRunAssumption DEF Fits, ResolvePause, ContinuesAfter
  <2> QED
    BY <1>1, <1>6, <2>1, <2>2
<1> QED
  BY <1>4, <1>5, <1>6 DEF ResolvePause

LEMMA DecideInv ==
  ASSUME Inv, NEW c \in Conns, NEW decision \in Decisions, NEW lead \in Notes,
         NEW dead \in Dead(entry), Decide(c, decision, lead, dead)
  PROVE  Inv'
<1> DEFINE e == Broadcast(Lock(entry), dead)
<1>1. /\ entry \in Entries /\ entry.status # "absent"
      /\ owner \in Runs /\ Fits(entry, pc[owner], timers)
  BY InvFits DEF Decide, TryLock, Inv, TypeOK
<1>2. /\ SameViewers(entry, Lock(entry)) /\ Lock(entry).status = entry.status
      /\ Lock(entry).pause = entry.pause /\ Lock(entry).parkRequested = entry.parkRequested
  BY <1>1, LockFacts
<1>3. Drops(Lock(entry), e, dead)
  BY <1>2, BroadcastFacts DEF Dead, SameViewers
<1>4. /\ e \in Entries /\ e.status = entry.status /\ e.pause = entry.pause
      /\ Fits(e, pc[owner], timers)
  BY <1>1, <1>2, <1>3 DEF Drops, SameViewers, Fits, IsLive
<1>5. ResolvePause(e, decision)
  BY DEF Decide
<1>6. /\ SameViewers(e, entry') /\ entry'.status = e.status
      /\ \E label \in PCs :
           /\ Fits(entry', label, timers') /\ Goto(owner, label)
           /\ label = "operator" => continues' < MaxContinues
      /\ continues' \in 0..MaxContinues
  BY <1>1, <1>4, <1>5, ResolveStep
<1>7. FewerViewers(entry')
  BY <1>1, <1>2, <1>3, <1>6 DEF FewerViewers, Drops, SameViewers
<1>8. noted' \subseteq Leads /\ context' \in Notes /\ seed' \in Notes
  BY DEF Decide, LockNotes, Notes, Inv, TypeOK
<1> QED
  BY <1>1, <1>6, <1>7, <1>8, RunInv DEF Decide, Inv, TypeOK

LEMMA StopInv ==
  ASSUME Inv, NEW c \in Conns, Stop(c)
  PROVE  Inv'
<1>1. /\ entry \in Entries /\ entry.status # "absent"
      /\ owner \in Runs /\ Fits(entry, pc[owner], timers)
  BY InvFits DEF Stop, Inv, TypeOK
<1>2. /\ SameViewers(entry, entry') /\ entry'.status = entry.status
      /\ \E label \in PCs :
           /\ Fits(entry', label, timers') /\ Goto(owner, label)
           /\ label = "operator" => continues' < MaxContinues
      /\ continues' \in 0..MaxContinues
  BY <1>1, ResolveStep DEF Stop
<1>3. FewerViewers(entry')
  BY <1>1, <1>2 DEF FewerViewers, SameViewers
<1> QED
  BY <1>1, <1>2, <1>3, RunInv DEF Stop, clients, Inv, TypeOK

\* A reattach adds a viewer that is up to date, and leaves no run parked.
LEMMA SubscribeInv ==
  ASSUME Inv, NEW c \in Conns, Subscribe(c)
  PROVE  Inv'
<1> DEFINE attached == AttachSink(entry, c)
<1>1. /\ entry \in Entries /\ entry.status # "absent"
      /\ owner \in Runs /\ Fits(entry, pc[owner], timers)
  BY InvFits DEF Subscribe, IsLive, Live, Inv, TypeOK
<1>2. /\ attached \in Entries /\ attached.sinks = entry.sinks \cup {c}
      /\ attached.emptyFor = Never /\ attached.parkRequested = FALSE
      /\ attached.status = entry.status /\ attached.pause = entry.pause
  BY <1>1, AttachFacts
<1>3. /\ entry' \in Entries /\ entry'.sinks = attached.sinks /\ entry'.emptyFor = Never
      /\ entry'.status # "absent"
      /\ \E label \in PCs :
           /\ Fits(entry', label, timers') /\ Goto(owner, label)
           /\ label = "operator" => continues' < MaxContinues
      /\ continues' \in 0..MaxContinues
  <2>1. CASE attached.status = "parked"
    <3> DEFINE e == MarkRunning(attached)
    <3>1. /\ SameViewers(attached, e) /\ e.status = "running" /\ e.pause = entry.pause
          /\ e.parkRequested = FALSE
      BY <1>2, <2>1, MarkRunningFacts
    <3>2. ResolvePause(e, "continue") /\ pc[owner] \in {"parked", "waking"}
      BY <1>1, <1>2, <2>1 DEF Subscribe, Fits
    <3>3. pc[owner] = "parked"
      BY <1>1, <3>2 DEF Subscribe, Quiescent
    <3>4. entry' = ClearPause(e) /\ timers' = {} /\ Goto(owner, "waking") /\ UNCHANGED continues
      BY <1>1, <3>1, <3>2, <3>3 DEF ResolvePause, ContinuesAfter, TimersCleared, Fits
    <3>5. SameViewers(e, entry') /\ entry'.status = "running" /\ entry'.pause = "none"
          /\ entry'.parkRequested = FALSE
      BY <3>1, <3>4, ClearPauseFacts DEF SameViewers
    <3>6. Fits(entry', "waking", timers')
      BY <3>4, <3>5 DEF Fits, IsLive, Live, Idle
    <3> QED
      BY <1>2, <3>1, <3>4, <3>5, <3>6 DEF SameViewers, PCs, Inv, TypeOK
  <2>2. CASE attached.status # "parked"
    <3>1. entry' = attached /\ UNCHANGED <<pc, timers, continues>>
      BY <2>2 DEF Subscribe
    <3>2. Goto(owner, pc[owner]) /\ pc[owner] \in PCs
      BY <1>1, <3>1 DEF Goto, Inv, TypeOK
    <3>3. Fits(entry', pc[owner], timers')
      BY <1>1, <1>2, <2>2, <3>1 DEF Fits, IsLive
    <3> QED
      BY <1>1, <1>2, <3>1, <3>2, <3>3 DEF Inv, TypeOK, PauseIsTheLoops
  <2> QED
    BY <2>1, <2>2
<1>4. LiveEntryIsTheRun' /\ PauseIsTheLoops' /\ ParkedRunHasNoViewer' /\ pc' \in [Runs -> PCs]
  BY <1>1, <1>3, FitsInv DEF Subscribe
<1>5. timers' \subseteq Runs
  BY <1>1, <1>3 DEF Fits
<1>6. ViewersAreAccounted' /\ AttachedViewerIsCurrent'
  BY <1>2, <1>3 DEF Subscribe, Replay, Inv, ViewersAreAccounted, AttachedViewerIsCurrent
<1>7. TypeOK'
  BY <1>3, <1>4, <1>5 DEF Subscribe, Replay, Inv, TypeOK
<1> QED
  BY <1>4, <1>6, <1>7 DEF Inv

\* The control part of Inv when no loop moves: what the entry may do then.
LEMMA SteadyInv ==
  ASSUME Inv, UNCHANGED loop, entry' \in Entries, entry'.sinks \subseteq entry.sinks,
         entry'.pause = entry.pause,
         \/ entry'.status = entry.status
         \/ entry.status = "terminal" /\ entry'.status = "absent",
         entry'.parkRequested => entry'.status = "running" /\ entry'.sinks = {}
  PROVE  LiveEntryIsTheRun' /\ PauseIsTheLoops' /\ ParkedRunHasNoViewer'
<1>1. LiveEntryIsTheRun'
  BY DEF loop, Inv, LiveEntryIsTheRun, IsLive, Live
<1>2. PauseIsTheLoops'
  BY DEF loop, Inv, PauseIsTheLoops
<1>3. ParkedRunHasNoViewer'
  <2>1. entry'.status = "parked" => entry.status = "parked"
    OBVIOUS
  <2>2. \A r \in Runs : pc[r] = "parked" => entry'.status = "parked"
    BY DEF Inv, ParkedRunHasNoViewer
  <2> QED
    BY <2>1, <2>2 DEF loop, Inv, ParkedRunHasNoViewer
<1> QED
  BY <1>1, <1>2, <1>3

\* Detaching a connection, by its own message or by its close handler.
LEMMA DetachInv ==
  ASSUME Inv, NEW c \in Conns, entry' = DetachSink(entry, c), mine' = mine \ {c},
         UNCHANGED <<loop, online, stale>>
  PROVE  Inv'
<1>1. entry \in Entries /\ (entry.status = "absent" => entry.sinks = {})
  BY DEF Inv, TypeOK, ViewersAreAccounted
<1>2. Drops(entry, entry', {c})
  BY <1>1, DetachFacts
<1>3. LiveEntryIsTheRun' /\ PauseIsTheLoops' /\ ParkedRunHasNoViewer'
  <2>1. entry'.parkRequested => entry'.status = "running" /\ entry'.sinks = {}
    BY <1>2 DEF Drops, Inv, ParkedRunHasNoViewer
  <2> QED
    BY <1>2, <2>1, SteadyInv DEF Drops, loop
<1>4. ViewersAreAccounted' /\ AttachedViewerIsCurrent'
  BY <1>2 DEF Drops, Inv, ViewersAreAccounted, AttachedViewerIsCurrent
<1>5. TypeOK'
  BY <1>2 DEF Drops, loop, Inv, TypeOK
<1> QED
  BY <1>3, <1>4, <1>5 DEF Inv

\* A connection opens or stops being open: no viewer changes hands.
LEMMA SocketInv ==
  ASSUME Inv, NEW c \in Conns, Connect(c) \/ Vanish(c)
  PROVE  Inv'
<1>1. UNCHANGED <<loop, entry, mine>>
  BY DEF Connect, Vanish
<1>2. LiveEntryIsTheRun' /\ PauseIsTheLoops' /\ ParkedRunHasNoViewer'
  BY <1>1 DEF loop, Inv, LiveEntryIsTheRun, PauseIsTheLoops, ParkedRunHasNoViewer
<1>3. ViewersAreAccounted'
  BY <1>1 DEF Inv, ViewersAreAccounted
<1>4. AttachedViewerIsCurrent'
  BY <1>1 DEF Connect, Vanish, Inv, ViewersAreAccounted, AttachedViewerIsCurrent
<1>5. TypeOK'
  BY <1>1 DEF loop, Connect, Vanish, Inv, TypeOK
<1> QED
  BY <1>2, <1>3, <1>4, <1>5 DEF Inv

\* The watchdog asks a viewerless run to park, or forgets one that is over.
LEMMA WatchdogInv ==
  ASSUME Inv, Watchdog
  PROVE  Inv'
<1>1. entry \in Entries
  BY DEF Inv, TypeOK
<1>2. CASE ParkDue(entry)
  <2>1. entry' = [entry EXCEPT !.parkRequested = TRUE]
    BY <1>2 DEF Watchdog, Sweep
  <2>2. /\ SameViewers(entry, entry') /\ entry'.status = entry.status
        /\ entry'.pause = entry.pause
    BY <1>1, <2>1 DEF Entries, SameViewers
  <2>3. entry'.parkRequested => entry'.status = "running" /\ entry'.sinks = {}
    BY <1>2, <2>2 DEF ParkDue, SameViewers
  <2>4. LiveEntryIsTheRun' /\ PauseIsTheLoops' /\ ParkedRunHasNoViewer'
    BY <2>2, <2>3, SteadyInv DEF Watchdog, SameViewers
  <2>5. ViewersAreAccounted' /\ AttachedViewerIsCurrent'
    BY <2>2 DEF Watchdog, clients, SameViewers, Inv, ViewersAreAccounted, AttachedViewerIsCurrent
  <2>6. TypeOK'
    BY <2>2 DEF Watchdog, loop, clients, SameViewers, Inv, TypeOK
  <2> QED
    BY <2>4, <2>5, <2>6 DEF Inv
<1>3. CASE ~ParkDue(entry) /\ SweepDue(entry)
  <2>1. entry' = NoEntry /\ entry.status = "terminal"
    BY <1>3 DEF Watchdog, Sweep, SweepDue
  <2>2. entry.pause = "none"
    BY <1>1, <2>1, InvFits DEF Fits, IsLive, Live, Idle, Entries, Pauses
  <2>3. LiveEntryIsTheRun' /\ PauseIsTheLoops' /\ ParkedRunHasNoViewer'
    BY <2>1, <2>2, NewEntryFacts, SteadyInv DEF Watchdog
  <2>4. ViewersAreAccounted' /\ AttachedViewerIsCurrent'
    BY <2>1, NewEntryFacts DEF Watchdog, clients, Inv, ViewersAreAccounted, AttachedViewerIsCurrent
  <2>5. TypeOK'
    BY <2>1, NewEntryFacts DEF Watchdog, loop, clients, Inv, TypeOK
  <2> QED
    BY <2>3, <2>4, <2>5 DEF Inv
<1> QED
  BY <1>2, <1>3 DEF Watchdog

LEMMA TickInv ==
  ASSUME Inv, Tick
  PROVE  Inv'
<1>1. /\ entry' \in Entries
      /\ entry'.status = entry.status /\ entry'.sinks = entry.sinks /\ entry'.pause = entry.pause
      /\ entry'.parkRequested = entry.parkRequested
      /\ entry.emptyFor = Never => entry'.emptyFor = Never
  BY AgeFacts DEF Tick, Inv, TypeOK
<1>2. LiveEntryIsTheRun' /\ PauseIsTheLoops' /\ ParkedRunHasNoViewer'
  <2>1. entry'.parkRequested => entry'.status = "running" /\ entry'.sinks = {}
    BY <1>1 DEF Inv, ParkedRunHasNoViewer
  <2> QED
    BY <1>1, <2>1, SteadyInv DEF Tick
<1>3. ViewersAreAccounted' /\ AttachedViewerIsCurrent'
  BY <1>1 DEF Tick, clients, Inv, ViewersAreAccounted, AttachedViewerIsCurrent
<1>4. TypeOK'
  BY <1>1 DEF Tick, loop, clients, Inv, TypeOK
<1> QED
  BY <1>2, <1>3, <1>4 DEF Inv

-----------------------------------------------------------------------------
(* The theorems.                                                           *)

\* Every step, and every stutter, preserves the invariant.
LEMMA NextInv == Inv /\ [Next]_vars => Inv'
<1> SUFFICES ASSUME Inv, [Next]_vars PROVE Inv'
  OBVIOUS
<1>1. ASSUME NEW r \in Runs, RunStep(r) PROVE Inv'
  BY <1>1, StartInv, StartFailsInv, BoundaryInv, WakeInv, MoveDoneInv, PauseTimeoutInv DEF RunStep
<1>2. ASSUME NEW c \in Conns, ClientStep(c) PROVE Inv'
  <2>1. ASSUME Unsubscribe(c) PROVE Inv'
    BY <2>1, DetachInv DEF Unsubscribe
  <2> QED
    BY <1>2, <2>1, LaunchInv, DecideInv, StopInv, SubscribeInv, SocketInv DEF ClientStep
<1>3. ASSUME NEW c \in Conns, Closed(c) PROVE Inv'
  BY <1>3, DetachInv DEF Closed
<1>4. CASE UNCHANGED vars
  BY <1>4 DEF vars, Inv, TypeOK, LiveEntryIsTheRun, PauseIsTheLoops, ParkedRunHasNoViewer,
              ViewersAreAccounted, AttachedViewerIsCurrent
<1> QED
  BY <1>1, <1>2, <1>3, <1>4, WatchdogInv, TickInv DEF Next

\* The registry's entry, the loops and the clients agree in every reachable
\* state, for any number of connections, runs and ticks.
THEOREM RegistryAgrees == Spec => []Inv
BY InitInv, NextInv, PTL DEF Spec

\* At most one run per investigation is busy, and the registry's live entry is
\* its entry.
THEOREM OneLiveRun == Spec => []LiveEntryIsTheRun
<1>1. Inv => LiveEntryIsTheRun
  BY DEF Inv
<1> QED
  BY <1>1, RegistryAgrees, PTL

\* A blocked loop waits for the pause the registry holds, with its timer.
THEOREM NoStrandedLoop == Spec => []PauseIsTheLoops
<1>1. Inv => PauseIsTheLoops
  BY DEF Inv
<1> QED
  BY <1>1, RegistryAgrees, PTL

\* No viewer ever looks at a parked run.
THEOREM NoViewerIsParked == Spec => []ParkedRunHasNoViewer
<1>1. Inv => ParkedRunHasNoViewer
  BY DEF Inv
<1> QED
  BY <1>1, RegistryAgrees, PTL

\* An attached client has missed no event of the run, however it came and went.
THEOREM NoViewerIsBehind == Spec => []AttachedViewerIsCurrent
<1>1. Inv => AttachedViewerIsCurrent
  BY DEF Inv
<1> QED
  BY <1>1, RegistryAgrees, PTL

-----------------------------------------------------------------------------
(* Leads.                                                                  *)

\* A decision that reaches an operator pause is noted: its loop is blocked, so the
\* run is between its started and its complete.
LEMMA LeadsStep ==
  Inv /\ SteerIsOnRecord /\ [Next]_vars => SteerIsOnRecord'
<1> SUFFICES ASSUME Inv, SteerIsOnRecord, [Next]_vars PROVE SteerIsOnRecord'
  OBVIOUS
<1> USE DEF SteerIsOnRecord
<1>1. ASSUME NEW c \in Conns, NEW d \in Decisions, NEW l \in Notes, NEW dead \in Dead(entry),
             Decide(c, d, l, dead)
      PROVE  SteerIsOnRecord'
  <2>1. noted \subseteq noted'
    BY <1>1 DEF Decide, LockNotes
  <2>2. CASE entry.pause = "operator"
    <3>1. pc[owner] = "operator"
      BY <2>2 DEF Inv, PauseIsTheLoops
    <3>2. noted' = noted \cup l /\ context' \subseteq context \cup l /\ seed' = seed
      BY <1>1, <2>2, <3>1 DEF Decide, LockNotes
    <3> QED
      BY <3>2
  <2>3. CASE entry.pause # "operator"
    BY <1>1, <2>1, <2>3 DEF Decide
  <2> QED
    BY <2>2, <2>3
<1>2. ASSUME NEW c \in Conns, NEW r \in Runs, NEW l \in Notes, Launch(c, r, l)
      PROVE  SteerIsOnRecord'
  BY <1>2 DEF Launch
<1>3. CASE UNCHANGED <<noted, context, seed>>
  BY <1>3
<1>4. ASSUME NEW r \in Runs, RunStep(r) PROVE UNCHANGED <<noted, context, seed>>
  BY <1>4 DEF RunStep, StartFails, PauseTimeout, Start, Boundary, Wake, MoveDone
<1>5. ASSUME NEW c \in Conns,
             Stop(c) \/ Subscribe(c) \/ Unsubscribe(c) \/ Connect(c) \/ Vanish(c) \/ Closed(c)
      PROVE  UNCHANGED <<noted, context, seed>>
  BY <1>5 DEF Stop, Subscribe, Unsubscribe, Connect, Vanish, Closed, loop
<1>6. CASE Watchdog \/ Tick \/ UNCHANGED vars
  BY <1>6 DEF Watchdog, Tick, loop, vars
<1> QED
  BY <1>1, <1>2, <1>3, <1>4, <1>5, <1>6 DEF Next, ClientStep

\* The lead a loop follows is the one its run was launched with, or in the events that
\* accept reads.
THEOREM LeadsAreOnRecord == Spec => []SteerIsOnRecord
<1>1. Init => SteerIsOnRecord
  BY DEF Init, SteerIsOnRecord
<1> QED
  BY <1>1, LeadsStep, RegistryAgrees, PTL DEF Spec

-----------------------------------------------------------------------------
(* The refinement of RunLifecycle.                                         *)

\* A phase as the mapping sees it, before and after a step.
LEMMA Phases ==
  ASSUME NEW label \in PCs
  PROVE  /\ PhaseOf(label) \in {"unborn", "active", "parked", "over"}
         /\ PhaseOf(label) = "unborn" <=> label = "unborn"
         /\ PhaseOf(label) = "over" <=> label = "done"
         /\ PhaseOf(label) = "parked" <=> label = "parked"
BY DEF PhaseOf, PCs, Idle

\* Where no phase changes and nobody is stopped, at most the viewers change, and
\* nobody is viewing a parked run.
LEMMA LookStep ==
  ASSUME Inv', UNCHANGED aborted, \A r \in Runs : PhaseOf(pc'[r]) = PhaseOf(pc[r])
  PROVE  Lifecycle!Look
<1>1. (entry.sinks # {})' => \A r \in Runs : PhaseOf(pc[r]) # "parked"
  BY Phases DEF Inv, TypeOK, ParkedRunHasNoViewer
<1> QED
  BY <1>1 DEF Lifecycle!Look

\* The step of one run, seen as a change of its phase.
LEMMA PhaseMoves ==
  ASSUME Inv, NEW r \in Runs, NEW label, Goto(r, label)
  PROVE  /\ [q \in Runs |-> PhaseOf(pc'[q])]
              = [[q \in Runs |-> PhaseOf(pc[q])] EXCEPT ![r] = PhaseOf(label)]
         /\ PhaseOf(label) = PhaseOf(pc[r]) => \A q \in Runs : PhaseOf(pc'[q]) = PhaseOf(pc[q])
BY DEF Goto, Inv, TypeOK

LEMMA OverLifecycle ==
  ASSUME Inv, NEW r \in Runs, pc[r] \notin Idle \cup {"parked"}, NEW dead \in Dead(entry),
         Over(r, dead), UNCHANGED aborted
  PROVE  Lifecycle!Finish(r)
<1>1. Goto(r, "done") /\ PhaseOf("done") = "over" /\ PhaseOf(pc[r]) = "active"
  BY DEF Over, PhaseOf, Idle
<1>2. entry'.sinks \subseteq entry.sinks
  BY OverStep DEF FewerViewers
<1>3. (entry'.sinks # {}) \in {entry.sinks # {}, FALSE}
  BY <1>2
<1>4. [q \in Runs |-> PhaseOf(pc'[q])]
        = [[q \in Runs |-> PhaseOf(pc[q])] EXCEPT ![r] = "over"]
  BY <1>1, PhaseMoves
<1> QED
  BY <1>1, <1>3, <1>4, Zenon DEF Lifecycle!Finish, Lifecycle!Becomes

\* Resolving a pause: a parked run resumes, any other phase stays.
LEMMA ResolveLifecycle ==
  ASSUME Inv, Inv', entry.status # "absent", NEW e, e.pause = entry.pause, NEW decision,
         ResolvePause(e, decision), aborted' \in {aborted, aborted \cup {owner}},
         aborted' # aborted => entry'.sinks = entry.sinks
  PROVE  Lifecycle!Next
<1>1. owner \in Runs /\ Fits(entry, pc[owner], timers)
  BY InvFits
<1>2. CASE e.pause = "park"
  <2>1. Goto(owner, "waking") /\ PhaseOf("waking") = "active" /\ PhaseOf(pc[owner]) = "parked"
    BY <1>1, <1>2 DEF ResolvePause, Fits, PhaseOf
  <2>2. Lifecycle!Resume(owner)
    BY <1>1, <2>1, PhaseMoves DEF Lifecycle!Resume, Lifecycle!Becomes
  <2> QED
    BY <1>1, <2>2 DEF Lifecycle!Next
<1>3. CASE e.pause # "park"
  <2>1. \A r \in Runs : PhaseOf(pc'[r]) = PhaseOf(pc[r])
    <3>1. CASE UNCHANGED pc
      BY <3>1
    <3>2. CASE pc[owner] = "operator" /\ (Goto(owner, "top") \/ Goto(owner, "givingUp"))
      <4>1. PhaseOf("operator") = "active" /\ PhaseOf("top") = "active"
            /\ PhaseOf("givingUp") = "active"
        BY DEF PhaseOf
      <4>2. CASE Goto(owner, "top")
        BY <1>1, <3>2, <4>1, <4>2, PhaseMoves
      <4>3. CASE Goto(owner, "givingUp")
        BY <1>1, <3>2, <4>1, <4>3, PhaseMoves
      <4> QED
        BY <3>2, <4>2, <4>3
    <3> QED
      BY <1>1, <1>3, <3>1, <3>2 DEF ResolvePause, Fits
  <2>2. CASE UNCHANGED aborted
    BY <2>1, <2>2, LookStep DEF Lifecycle!Next
  <2>3. CASE aborted' = aborted \cup {owner} /\ entry'.sinks = entry.sinks
    <3>1. PhaseOf(pc[owner]) \in {"active", "over"}
      BY <1>1, <1>3, Phases DEF Fits, Inv, TypeOK
    <3>2. Lifecycle!Stop(owner)
      BY <2>1, <2>3, <3>1, <1>1 DEF Lifecycle!Stop
    <3> QED
      BY <1>1, <3>2 DEF Lifecycle!Next
  <2> QED
    BY <2>2, <2>3
<1> QED
  BY <1>2, <1>3

\* Start, MoveDone's next move, a timeout: busy before and after.
LEMMA BusyLifecycle ==
  ASSUME Inv, Inv', NEW r \in Runs, NEW label, Goto(r, label), UNCHANGED aborted,
         {pc[r], label} \subseteq {"starting", "top", "waking", "working", "givingUp", "operator"}
  PROVE  Lifecycle!Look
<1>1. PhaseOf(label) = "active" /\ PhaseOf(pc[r]) = "active"
  BY DEF PhaseOf
<1> QED
  BY <1>1, PhaseMoves, LookStep

\* A launch is the abstract launch: no other run is busy.
LEMMA LaunchLifecycle ==
  ASSUME Inv, NEW c \in Conns, NEW r \in Runs, NEW l \in Notes, Launch(c, r, l)
  PROVE  Lifecycle!Launch(r)
<1>1. \A q \in Runs : PhaseOf(pc[q]) \in {"unborn", "over"}
  BY DEF Launch, Inv, LiveEntryIsTheRun, PhaseOf, Idle
<1>2. entry'.sinks # {}
  BY NewEntryFacts, AttachFacts DEF Launch, Create
<1>3. Goto(r, "starting") /\ PhaseOf("starting") = "active" /\ PhaseOf(pc[r]) = "unborn"
  BY DEF Launch, PhaseOf
<1>4. [q \in Runs |-> PhaseOf(pc'[q])]
        = [[q \in Runs |-> PhaseOf(pc[q])] EXCEPT ![r] = "active"]
  BY <1>3, PhaseMoves
<1>5. (entry'.sinks # {}) = TRUE
  BY <1>2
<1> QED
  BY <1>1, <1>3, <1>4, <1>5 DEF Launch, Lifecycle!Launch, Lifecycle!Becomes

LEMMA NextMoveLifecycle ==
  ASSUME Inv, Inv', NEW r \in Runs, pc[r] \in {"top", "waking"}, NEW e, NEW dead,
         NextMove(r, e, dead), UNCHANGED aborted
  PROVE  Lifecycle!Look
<1>1. PICK label \in {"operator", "working", "givingUp"} : Goto(r, label)
  BY DEF NextMove, PauseForOperator, Proceed
<1> QED
  BY <1>1, BusyLifecycle

LEMMA ParkLifecycle ==
  ASSUME Inv, NEW r \in Runs, pc[r] = "top", entry.parkRequested, r \notin aborted,
         NEW dead \in Dead(entry), Park(r, dead), UNCHANGED aborted
  PROVE  Lifecycle!Park(r)
<1>1. entry.sinks = {}
  BY DEF Inv, ParkedRunHasNoViewer
<1>2. entry'.sinks = {}
  BY <1>1, ParkStep DEF FewerViewers
<1>3. Goto(r, "parked") /\ PhaseOf("parked") = "parked" /\ PhaseOf(pc[r]) = "active"
  BY DEF Park, PhaseOf
<1>4. [q \in Runs |-> PhaseOf(pc'[q])]
        = [[q \in Runs |-> PhaseOf(pc[q])] EXCEPT ![r] = "parked"]
  BY <1>3, PhaseMoves
<1>5. (entry'.sinks # {}) = (entry.sinks # {}) /\ ~(entry.sinks # {})
  BY <1>1, <1>2
<1> QED
  BY <1>3, <1>4, <1>5 DEF Lifecycle!Park, Lifecycle!Becomes

LEMMA RunStepLifecycle ==
  ASSUME Inv, Inv', NEW r \in Runs, RunStep(r)
  PROVE  Lifecycle!Next
<1> USE DEF Lifecycle!Next
<1>1. ASSUME StartFails(r) PROVE Lifecycle!Next
  <2>1. /\ r = owner /\ entry \in Entries /\ entry.status # "absent"
    BY <1>1, BusyRun DEF StartFails, Idle
  <2>2. entry'.sinks = entry.sinks
    BY <1>1, <2>1, MarkTerminalFacts DEF StartFails, SameViewers
  <2>3. Goto(r, "done") /\ PhaseOf("done") = "over" /\ PhaseOf(pc[r]) = "active"
    BY <1>1 DEF StartFails, PhaseOf
  <2>4. [q \in Runs |-> PhaseOf(pc'[q])]
          = [[q \in Runs |-> PhaseOf(pc[q])] EXCEPT ![r] = "over"]
    BY <2>3, PhaseMoves
  <2>5. Lifecycle!Finish(r)
    BY <1>1, <2>2, <2>3, <2>4 DEF StartFails, Lifecycle!Finish, Lifecycle!Becomes
  <2> QED
    BY <2>5
<1>2. ASSUME PauseTimeout(r) PROVE Lifecycle!Next
  <2>1. pc[r] = "operator" /\ Goto(r, "givingUp")
    BY <1>2 DEF PauseTimeout, Goto, Inv, TypeOK, PauseIsTheLoops
  <2> QED
    BY <1>2, <2>1, BusyLifecycle DEF PauseTimeout
<1>3. ASSUME NEW dead \in Dead(entry), Start(r, dead) PROVE Lifecycle!Next
  BY <1>3, BusyLifecycle DEF Start
<1>4. ASSUME NEW dead \in Dead(entry), Boundary(r, dead) PROVE Lifecycle!Next
  BY <1>4, OverLifecycle, ParkLifecycle, NextMoveLifecycle DEF Boundary, Idle
<1>5. ASSUME NEW dead \in Dead(entry), Wake(r, dead) PROVE Lifecycle!Next
  BY <1>5, OverLifecycle, NextMoveLifecycle DEF Wake, Idle
<1>6. ASSUME NEW dead \in Dead(entry), MoveDone(r, dead) PROVE Lifecycle!Next
  BY <1>6, OverLifecycle, BusyLifecycle DEF MoveDone, Idle
<1> QED
  BY <1>1, <1>2, <1>3, <1>4, <1>5, <1>6 DEF RunStep

LEMMA ClientStepLifecycle ==
  ASSUME Inv, Inv', NEW c \in Conns, ClientStep(c)
  PROVE  Lifecycle!Next
<1>1. CASE Stop(c)
  <2>1. SameViewers(entry, entry')
    BY <1>1, ClearPauseFacts DEF Stop, ResolvePause, Inv, TypeOK
  <2> QED
    BY <1>1, <2>1, ResolveLifecycle DEF Stop, SameViewers
<1>2. CASE Subscribe(c)
  <2>1. entry \in Entries /\ entry.status # "absent"
    BY <1>2 DEF Subscribe, Inv, TypeOK, IsLive, Live
  <2>2. CASE UNCHANGED pc
    BY <1>2, <2>2, LookStep DEF Subscribe, Lifecycle!Next
  <2>3. CASE ResolvePause(MarkRunning(AttachSink(entry, c)), "continue")
    <3>1. MarkRunning(AttachSink(entry, c)).pause = entry.pause
      <4>1. AttachSink(entry, c) \in Entries /\ AttachSink(entry, c).pause = entry.pause
        BY <2>1, AttachFacts
      <4> QED
        BY <4>1, MarkRunningFacts
    <3>2. aborted' = aborted
      BY <1>2 DEF Subscribe
    <3> QED
      BY <2>1, <2>3, <3>1, <3>2, ResolveLifecycle
  <2> QED
    BY <1>2, <2>2, <2>3 DEF Subscribe
<1>3. CASE Unsubscribe(c) \/ Connect(c) \/ Vanish(c)
  BY <1>3, LookStep DEF Unsubscribe, Connect, Vanish, loop, Lifecycle!Next
<1>4. ASSUME NEW r \in Runs, NEW l \in Notes, Launch(c, r, l) PROVE Lifecycle!Next
  BY <1>4, LaunchLifecycle DEF Lifecycle!Next
<1>5. ASSUME NEW d \in Decisions, NEW l \in Notes, NEW dead \in Dead(entry),
             Decide(c, d, l, dead)
      PROVE  Lifecycle!Next
  <2> DEFINE e == Broadcast(Lock(entry), dead)
  <2>1. entry \in Entries /\ entry.status # "absent"
    BY <1>5 DEF Decide, TryLock, Inv, TypeOK
  <2>2. e.pause = entry.pause
    BY <2>1, LockFacts, BroadcastFacts DEF Drops, SameViewers, Dead
  <2> QED
    BY <1>5, <2>1, <2>2, ResolveLifecycle DEF Decide
<1> QED
  BY <1>1, <1>2, <1>3, <1>4, <1>5 DEF ClientStep

\* The server implements the lifecycle: every step of the handlers, the loops,
\* the watchdog and the timers is a step of RunLifecycle or a stutter.
THEOREM Refinement == Spec => ImplementsLifecycle
<1>1. Init => Lifecycle!Init
  BY NewEntryFacts DEF Init, Lifecycle!Init, PhaseOf
<1>2. Inv /\ Inv' /\ [Next]_vars => [Lifecycle!Next]_(Lifecycle!vars)
  <2> SUFFICES ASSUME Inv, Inv', [Next]_vars PROVE [Lifecycle!Next]_(Lifecycle!vars)
    OBVIOUS
  <2>1. ASSUME NEW c \in Conns, Closed(c) PROVE Lifecycle!Next
    BY <2>1, LookStep DEF Closed, loop, Lifecycle!Next
  <2>2. CASE Watchdog \/ Tick
    BY <2>2, LookStep DEF Watchdog, Tick, loop, Lifecycle!Next
  <2>3. CASE UNCHANGED vars
    BY <2>3 DEF vars, Lifecycle!vars
  <2> QED
    BY <2>1, <2>2, <2>3, RunStepLifecycle, ClientStepLifecycle DEF Next
<1> QED
  BY <1>1, <1>2, RegistryAgrees, PTL DEF Spec, ImplementsLifecycle, Lifecycle!Spec

=============================================================================
