------------------------ MODULE ProviderRegistry_proofs ------------------------
(***************************************************************************)
(* Proofs about ProviderRegistry, for every set of providers, requests and *)
(* callers and any number of moves.                                        *)
(*                                                                         *)
(* None of the properties is inductive.  That a write is executed once     *)
(* needs how far its call is (Tally); that a poller is never forgotten     *)
(* needs, for each provider apart, the test that has yet to announce it    *)
(* (Watched); and that providers.yaml agrees with the registry needs what  *)
(* the boot still owes it and what each request is about (Ledger).         *)
(***************************************************************************)
EXTENDS ProviderRegistry, TLAPS

GUI == Names \ System

Task ==
  [kind : {"none", "boot", "add", "update"}, name : Names \cup {"none"},
   old : Names \cup {"none"}, cfg : Choices, pc : {"probe", "defaults", "uids"},
   tools : BOOLEAN, enabled : Choices, session : Sessions]

Test ==
  [pc : {"idle", "list", "list2", "list3", "list4", "raw", "raw2", "fresh", "check", "astray"},
   name : Names \cup {"none"}, waiting : BOOLEAN]

CallOf ==
  [pc : {"idle", "ready", "execute", "again"}, name : Names \cup {"none"}, held : BOOLEAN,
   waiting : BOOLEAN, write : BOOLEAN, bound : BOOLEAN, done : 0..2]

\* TypeOK but for the bound on moves, and what the tasks, the tests and the callers are.
Shape ==
  /\ phase \in {"off", "booting", "serving"} /\ toBoot \subseteq Names
  /\ upstream \in [Names -> {"up", "down"}] /\ entry \in [Names -> Entry]
  /\ file \in [GUI -> Choices \cup {"absent"}] /\ failed \subseteq GUI
  /\ rebuild \in [Names -> {"none", "entry", "orphan"}] /\ queue \subseteq Names
  /\ poller \in {"none", "skipped", "started"}
  /\ creates \in [Tasks -> Task] /\ tests \in [Clocks -> Test] /\ calls \in [Callers -> CallOf]

\* How often a call was executed is bounded by how far it is.
Counted(call) ==
  /\ call.done <= IF call.write THEN 1 ELSE 2
  /\ call.pc = "execute" => call.done = 0
  /\ call.pc = "again" => call.done <= 1
  /\ call.pc # "idle" => call.name \in Names

Tally == \A c \in Callers : Counted(calls[c])

\* What there is in each phase of the process.
Phases ==
  /\ phase # "serving" => poller = "none"
  /\ phase = "off" => /\ \A n \in Names : ~entry[n].here
                      /\ \A k \in Tasks : creates[k].kind = "none"
  /\ \A k \in Tasks : creates[k].kind \in IF phase = "booting" THEN {"none", "boot"}
                                          ELSE {"none", "add", "update"}

\* While it boots, a name of the file is in the registry, on its way, or to come.
Booked ==
  phase = "booting" => \A n \in GUI :
    /\ n \in toBoot => file[n] # "absent"
    /\ IF entry[n].here THEN file[n] = entry[n].cfg
       ELSE file[n] # "absent" =>
              n \in toBoot \/ \E k \in Tasks : creates[k].kind = "boot" /\ creates[k].name = n

\* What a request is about.
Fits(task) ==
  /\ task.kind = "update" => task.old \in GUI
  /\ task.kind = "boot" /\ task.name \in GUI => task.cfg = file[task.name]

TasksFit == \A k \in Tasks : Fits(creates[k])

Ledger == Phases /\ Booked /\ TasksFit /\ FileAgrees

ViableEntry(e) == e.here /\ e.status = "connected" /\ e.counted /\ e.query
Seen(n, ts)    == \E t \in Clocks : ts[t].name = n /\ ts[t].pc \in {"fresh", "check"}
Watch(state, e, n, ts) == state = "skipped" /\ ViableEntry(e) => Seen(n, ts)

\* A poller that waits has, for each viable provider, a test of it that will tell.
Watched == \A n \in Names : Watch(poller, entry[n], n, tests)

Core == Shape /\ Tally /\ Ledger /\ Watched
IInv == Core /\ moves \in 0..MaxMoves

-----------------------------------------------------------------------------
(* What steps have in common.                                              *)

\* A caller's count is left alone.
SameTally(a, b) ==
  a.pc = b.pc /\ a.name = b.name /\ a.done = b.done /\ a.write = b.write
\* An entry is in the registry with the same choice.
SameBooks(a, b) == a.here = b.here /\ a.cfg = b.cfg
\* An entry looks the same to hasViableMetricsProvider.
SameView(a, b) ==
  a.here = b.here /\ a.status = b.status /\ a.counted = b.counted /\ a.query = b.query
SameRequest(a, b) == a.kind = b.kind /\ a.name = b.name /\ a.old = b.old /\ a.cfg = b.cfg

TallyKept == \A c \in Callers : SameTally(calls'[c], calls[c])

LedgerKept ==
  /\ UNCHANGED <<phase, toBoot, file, failed>>
  /\ poller' = poller \/ poller = "skipped" \/ phase = "serving"
  /\ \A n \in Names : SameBooks(entry'[n], entry[n])
  /\ \A k \in Tasks : SameRequest(creates'[k], creates[k])

\* Nobody who watches goes away, and what was viable is what is viable.
ViewKept ==
  /\ poller' = poller
  /\ \A n \in Names : SameView(entry'[n], entry[n])
  /\ \A t \in Clocks : tests[t].pc \in {"fresh", "check"} =>
                         tests'[t].pc = tests[t].pc /\ tests'[t].name = tests[t].name

LEMMA TallyFrame == ASSUME Tally, TallyKept PROVE Tally'
  BY DEF Tally, TallyKept, SameTally, Counted

LEMMA LedgerFrame == ASSUME Shape, Ledger, LedgerKept PROVE Ledger'
  <1>1. Phases'
    BY DEF Ledger, LedgerKept, Phases, SameBooks, SameRequest, Shape
  <1>2. Booked'
    BY DEF Ledger, LedgerKept, Booked, SameBooks, SameRequest, GUI
  <1>3. TasksFit'
    BY DEF Ledger, LedgerKept, TasksFit, Fits, SameRequest
  <1>4. FileAgrees'
    BY DEF Ledger, LedgerKept, FileAgrees, SameBooks, SameRequest
  <1> QED
    BY <1>1, <1>2, <1>3, <1>4 DEF Ledger

LEMMA ViewFrame == ASSUME Watched, ViewKept PROVE Watched'
  <1> SUFFICES ASSUME NEW n \in Names, poller' = "skipped", ViableEntry(entry'[n])
               PROVE  Seen(n, tests')
    BY DEF Watched, Watch
  <1>1. Seen(n, tests)
    BY DEF Watched, Watch, ViewKept, SameView, ViableEntry
  <1> QED
    BY <1>1 DEF ViewKept, Seen

\* After an announcement a poller waits only for want of a viable provider.
LEMMA EmitWatches == ASSUME Emit PROVE Watched'
  BY DEF Emit, Watched, Watch, ViableEntry, Viable

LEMMA EmitPoller ==
  ASSUME Shape, Emit
  PROVE  poller' \in {"none", "skipped", "started"} /\ (poller' = poller \/ poller = "skipped")
  BY DEF Emit, Shape

\* After a save the file is the registry.
LEMMA SavedAgrees == ASSUME Shape, Saved PROVE FileAgrees'
  BY DEF Saved, FileAgrees

LEMMA SavedType ==
  ASSUME Saved, entry' \in [Names -> Entry]
  PROVE  file' \in [GUI -> Choices \cup {"absent"}] /\ failed' \subseteq GUI
  BY DEF Saved, Entry, GUI

LEMMA AbsentType == Absent \in Entry /\ NoTask \in Task /\ NoTest \in Test /\ NoCall \in CallOf
  <1>1. Absent \in Entry
    BY DEF Absent, Entry, Choices, Sessions
  <1>2. NoTask \in Task
    BY DEF NoTask, Task, Choices, Sessions
  <1>3. NoTest \in Test
    BY DEF NoTest, Test
  <1>4. NoCall \in CallOf
    BY DEF NoCall, CallOf
  <1> QED
    BY <1>1, <1>2, <1>3, <1>4

\* Records that were changed in some fields.
LEMMA EntryChanges ==
  ASSUME NEW e \in Entry
  PROVE  /\ \A s \in Sessions : [e EXCEPT !.session = s] \in Entry
         /\ [e EXCEPT !.status = "error"] \in Entry
         /\ [e EXCEPT !.status = "error", !.counted = FALSE, !.query = FALSE] \in Entry
         /\ [e EXCEPT !.status = "connected", !.query = TRUE] \in Entry
         /\ \A c \in Choices : [e EXCEPT !.cfg = c, !.enabled = c] \in Entry
         /\ \A c \in Choices, b \in BOOLEAN :
              /\ [e EXCEPT !.enabled = c, !.counted = b, !.query = b] \in Entry
              /\ [e EXCEPT !.status = "connected", !.enabled = c, !.counted = TRUE,
                           !.query = b] \in Entry
  BY DEF Entry

LEMMA TestChanges ==
  ASSUME NEW x \in Test
  PROVE  /\ [x EXCEPT !.pc = "astray"] \in Test /\ [x EXCEPT !.waiting = FALSE] \in Test
         /\ \A p \in {"list2", "list3", "list4", "raw", "raw2", "fresh", "check", "astray"} :
              [x EXCEPT !.pc = p] \in Test /\ [x EXCEPT !.pc = p, !.waiting = TRUE] \in Test
  BY DEF Test

LEMMA CallChanges ==
  ASSUME NEW x \in CallOf
  PROVE  /\ [x EXCEPT !.held = FALSE, !.bound = FALSE] \in CallOf
         /\ [x EXCEPT !.bound = FALSE] \in CallOf /\ [x EXCEPT !.waiting = FALSE] \in CallOf
  BY DEF CallOf

LEMMA OrphanType ==
  ASSUME Shape, NEW n, Orphan(n)
  PROVE  /\ tests' \in [Clocks -> Test] /\ calls' \in [Callers -> CallOf]
         /\ rebuild' \in [Names -> {"none", "entry", "orphan"}] /\ TallyKept
         /\ \A t \in Clocks : tests[t].name # n => tests'[t] = tests[t]
  <1>1. tests' \in [Clocks -> Test]
    BY TestChanges DEF Shape, Orphan
  <1>2. calls' \in [Callers -> CallOf]
    BY CallChanges DEF Shape, Orphan
  <1>3. rebuild' \in [Names -> {"none", "entry", "orphan"}]
    BY DEF Shape, Orphan
  <1>4. TallyKept
    <2> SUFFICES ASSUME NEW c \in Callers PROVE SameTally(calls'[c], calls[c])
      BY Zenon DEF TallyKept
    <2>1. calls[c] \in CallOf
      BY DEF Shape
    <2> QED
      BY <2>1 DEF Orphan, CallOf, SameTally
  <1>5. \A t \in Clocks : tests[t].name # n => tests'[t] = tests[t]
    BY DEF Orphan
  <1> QED
    BY <1>1, <1>2, <1>3, <1>4, <1>5

\* Asking for a rebuild touches the session of an entry and the binding of callers.
LEMMA AskRebuildType ==
  ASSUME Shape, NEW n, NEW held \in BOOLEAN, NEW callers \in [Callers -> CallOf],
         AskRebuild(n, held, callers)
  PROVE  /\ rebuild' \in [Names -> {"none", "entry", "orphan"}]
         /\ entry' \in [Names -> Entry] /\ calls' \in [Callers -> CallOf]
         /\ \A m \in Names : SameView(entry'[m], entry[m]) /\ SameBooks(entry'[m], entry[m])
         /\ \A c \in Callers : SameTally(calls'[c], callers[c])
  <1>1. rebuild' \in [Names -> {"none", "entry", "orphan"}]
    BY DEF Shape, AskRebuild
  <1>2. entry' \in [Names -> Entry]
    <2>1. "refused" \in Sessions
      BY DEF Sessions
    <2>2. \A e \in Entry : [e EXCEPT !.session = "refused"] \in Entry
      BY <2>1, EntryChanges
    <2> QED
      BY <2>2 DEF Shape, AskRebuild
  <1>3. calls' \in [Callers -> CallOf]
    BY CallChanges DEF AskRebuild
  <1>4. \A m \in Names : SameView(entry'[m], entry[m]) /\ SameBooks(entry'[m], entry[m])
    BY DEF Shape, AskRebuild, Entry, SameView, SameBooks
  <1>5. \A c \in Callers : SameTally(calls'[c], callers[c])
    BY DEF AskRebuild, CallOf, SameTally
  <1> QED
    BY <1>1, <1>2, <1>3, <1>4, <1>5

LEMMA ForgetsKeeps == ASSUME Core, Forgets PROVE Core'
  <1>1. Shape'
    BY AbsentType DEF Core, Shape, Forgets
  <1>2. Tally'
    BY DEF Tally, Counted, Forgets, NoCall
  <1>3. Phases' /\ Booked' /\ FileAgrees'
    BY DEF Phases, Booked, FileAgrees, Forgets, Absent, NoTask
  <1>4. TasksFit'
    BY DEF TasksFit, Fits, Forgets, NoTask
  <1>5. Watched'
    BY DEF Watched, Watch, Forgets
  <1> QED
    BY <1>1, <1>2, <1>3, <1>4, <1>5 DEF Core, Ledger

\* A step that leaves every frame alone keeps the invariant.
LEMMA Framed ==
  ASSUME Core, Shape', TallyKept, LedgerKept, ViewKept
  PROVE  Core'
  BY TallyFrame, LedgerFrame, ViewFrame DEF Core

\* The same for one that announces what it did.
LEMMA FramedAndTold ==
  ASSUME Core, Shape', TallyKept, LedgerKept, Emit
  PROVE  Core'
  BY TallyFrame, LedgerFrame, EmitWatches DEF Core

\* What a step did not touch is framed.
LEMMA Untouched ==
  ASSUME Shape
  PROVE  /\ UNCHANGED calls => TallyKept
         /\ UNCHANGED <<phase, toBoot, store, creates, poller>> => LedgerKept
         /\ UNCHANGED <<entry, tests, poller>> => ViewKept
  BY DEF TallyKept, SameTally, LedgerKept, SameBooks, SameRequest, ViewKept, SameView, store

LEMMA RebuiltKeeps == ASSUME Core, NEW n \in Names, Rebuilt(n) PROVE Core'
  <1>1. Shape
    BY DEF Core
  <1>2. entry' \in [Names -> Entry]
    <2>1. "live" \in Sessions
      BY DEF Sessions
    <2>2. \A e \in Entry : [e EXCEPT !.session = "live"] \in Entry
      BY <2>1, EntryChanges
    <2> QED
      BY <1>1, <2>2 DEF Shape, Rebuilt
  <1>3. tests' \in [Clocks -> Test] /\ calls' \in [Callers -> CallOf]
    BY <1>1, TestChanges, CallChanges DEF Shape, Rebuilt
  <1>4. Shape'
    BY <1>1, <1>2, <1>3 DEF Shape, Rebuilt, process
  <1>5. TallyKept
    BY <1>1 DEF Shape, Rebuilt, TallyKept, SameTally, CallOf
  <1>6. \A m \in Names : SameView(entry'[m], entry[m]) /\ SameBooks(entry'[m], entry[m])
    BY <1>1 DEF Shape, Rebuilt, SameView, SameBooks, Entry
  <1>7. LedgerKept
    BY <1>6 DEF LedgerKept, Rebuilt, process, SameRequest
  <1>8. ViewKept
    BY <1>1, <1>6 DEF ViewKept, Rebuilt, Shape, Test
  <1> QED
    BY <1>4, <1>5, <1>7, <1>8, Framed

-----------------------------------------------------------------------------
(* createAndRegister, remove and updateEnabledTools.                       *)

LEMMA BegunType ==
  ASSUME NEW kind \in {"boot", "add", "update"}, NEW n \in Names, NEW old \in Names,
         NEW cfg \in Choices
  PROVE  /\ Begun(kind, n, old, cfg) \in Task
         /\ Begun(kind, n, old, cfg).kind = kind /\ Begun(kind, n, old, cfg).name = n
         /\ Begun(kind, n, old, cfg).old = old /\ Begun(kind, n, old, cfg).cfg = cfg
  BY DEF Begun, NoTask, Task, Sessions

LEMMA AddKeeps ==
  ASSUME Core, NEW k \in Tasks, NEW n \in GUI, NEW cfg \in Choices, Add(k, n, cfg)
  PROVE  Core'
  <1> DEFINE new == Begun("add", n, n, cfg)
  <1>1. Shape /\ Ledger /\ phase = "serving" /\ creates[k].kind = "none"
    BY DEF Core, Add, NoTask
  <1>2. new \in Task /\ new.kind = "add"
    BY BegunType DEF GUI
  <1> HIDE DEF new
  <1>3. creates' = [creates EXCEPT ![k] = new]
    BY DEF Add, new
  <1>4. creates' \in [Tasks -> Task]
    BY <1>1, <1>2, <1>3 DEF Shape
  <1>5. UNCHANGED <<process, upstream, store, rebuild, tests, queue, calls, poller>>
    BY DEF Add
  <1>6. Shape'
    BY <1>1, <1>4, <1>5 DEF Shape, process, store
  <1>7. \A j \in Tasks : creates'[j] = IF j = k THEN new ELSE creates[j]
    BY <1>1, <1>3 DEF Shape
  <1>8. Phases'
    BY <1>1, <1>2, <1>5, <1>7 DEF Ledger, Phases, process, store
  <1>9. Booked'
    BY <1>1, <1>5 DEF Booked, process
  <1>10. TasksFit'
    BY <1>1, <1>2, <1>5, <1>7 DEF Ledger, TasksFit, Fits, store
  <1>11. FileAgrees'
    BY <1>1, <1>2, <1>5, <1>7 DEF Ledger, FileAgrees, process, store
  <1>12. Tally' /\ Watched'
    BY <1>1, <1>5, Untouched, TallyFrame, ViewFrame DEF Core, store
  <1> QED
    BY <1>6, <1>8, <1>9, <1>10, <1>11, <1>12 DEF Core, Ledger

LEMMA UpdateKeeps ==
  ASSUME Core, NEW k \in Tasks, NEW old \in GUI, NEW n \in GUI, NEW cfg \in Choices,
         Update(k, old, n, cfg)
  PROVE  Core'
  <1> DEFINE new == Begun("update", n, old, cfg)
  <1>1. Shape /\ Ledger /\ phase = "serving" /\ creates[k].kind = "none"
    BY DEF Core, Update, NoTask
  <1>2. new \in Task /\ new.kind = "update" /\ new.old = old
    BY BegunType DEF GUI
  <1> HIDE DEF new
  <1>3. creates' = [creates EXCEPT ![k] = new]
    BY DEF Update, new
  <1>4. creates' \in [Tasks -> Task]
    BY <1>1, <1>2, <1>3 DEF Shape
  <1>5. UNCHANGED <<process, upstream, file, failed, queue, poller>> /\ Orphan(old)
    BY DEF Update
  <1>6. /\ entry' \in [Names -> Entry]
        /\ \A m \in Names : entry'[m] = IF m = old THEN Absent ELSE entry[m]
    BY <1>1, AbsentType DEF Shape, Update
  <1>7. Shape'
    BY <1>1, <1>4, <1>5, <1>6, OrphanType DEF Shape, process
  <1>8. \A j \in Tasks : creates'[j] = IF j = k THEN new ELSE creates[j]
    BY <1>1, <1>3 DEF Shape
  <1>9. Phases'
    BY <1>1, <1>2, <1>5, <1>8 DEF Ledger, Phases, process
  <1>10. Booked'
    BY <1>1, <1>5 DEF Booked, process
  <1>11. TasksFit'
    BY <1>1, <1>2, <1>5, <1>8 DEF Ledger, TasksFit, Fits
  <1>12. FileAgrees'
    BY <1>1, <1>2, <1>5, <1>6, <1>8 DEF Ledger, FileAgrees, process, GUI, Absent
  <1>13. Tally'
    BY <1>1, <1>5, OrphanType, TallyFrame DEF Core
  <1>14. Watched'
    <2> SUFFICES ASSUME NEW m \in Names, poller' = "skipped", ViableEntry(entry'[m])
                 PROVE  Seen(m, tests')
      BY DEF Watched, Watch
    <2>1. m # old
      BY <1>6 DEF ViableEntry, Absent
    <2>2. Seen(m, tests)
      BY <1>5, <1>6, <2>1 DEF Core, Watched, Watch
    <2> QED
      BY <1>1, <1>5, <2>1, <2>2, OrphanType DEF Seen
  <1> QED
    BY <1>7, <1>9, <1>10, <1>11, <1>12, <1>13, <1>14 DEF Core, Ledger

LEMMA BootNextKeeps == ASSUME Core, NEW k \in Tasks, BootNext(k) PROVE Core'
  <1>1. Shape /\ Ledger /\ phase = "booting" /\ \A j \in Tasks : creates[j].kind = "none"
    BY DEF Core, BootNext, NoTask
  <1>2. PICK n \in toBoot :
          /\ toBoot' = toBoot \ {n}
          /\ creates' = [creates EXCEPT ![k] =
               Begun("boot", n, n, IF n \in System THEN "unset" ELSE file[n])]
    BY DEF BootNext
  <1> DEFINE cfg == IF n \in System THEN "unset" ELSE file[n]
             new == Begun("boot", n, n, cfg)
  <1>3. n \in Names /\ (n \in GUI => cfg = file[n])
    BY <1>1 DEF Shape, GUI
  <1>4. cfg \in Choices
    BY <1>1, <1>3 DEF Choices, Shape, GUI, Ledger, Booked
  <1>5. new \in Task /\ new.kind = "boot" /\ new.name = n /\ new.cfg = cfg
    BY <1>3, <1>4, BegunType
  <1> HIDE DEF cfg
  <1>6. creates' = [creates EXCEPT ![k] = new]
    BY <1>2 DEF cfg
  <1> HIDE DEF new
  <1>7. UNCHANGED <<phase, upstream, store, rebuild, tests, queue, calls, poller>>
    BY DEF BootNext
  <1>8. Shape'
    BY <1>1, <1>2, <1>5, <1>6, <1>7 DEF Shape, store
  <1>9. \A j \in Tasks : creates'[j] = IF j = k THEN new ELSE creates[j]
    BY <1>1, <1>6 DEF Shape
  <1>10. Phases'
    BY <1>1, <1>5, <1>7, <1>9 DEF Ledger, Phases, store
  <1>11. Booked'
    BY <1>1, <1>2, <1>5, <1>7, <1>9 DEF Ledger, Booked, store
  <1>12. TasksFit'
    BY <1>1, <1>3, <1>5, <1>7, <1>9 DEF Ledger, TasksFit, Fits, store
  <1>13. FileAgrees'
    BY <1>1, <1>7 DEF FileAgrees
  <1>14. Tally' /\ Watched'
    BY <1>1, <1>7, Untouched, TallyFrame, ViewFrame DEF Core, store
  <1> QED
    BY <1>8, <1>10, <1>11, <1>12, <1>13, <1>14 DEF Core, Ledger

\* A task that goes on is still about the same request.
LEMMA TaskGoesOn ==
  ASSUME Core, NEW k \in Tasks, NEW task \in Task, SameRequest(task, creates[k]),
         creates' = [creates EXCEPT ![k] = task],
         UNCHANGED <<process, upstream, store, rebuild, tests, queue, calls, poller>>
  PROVE  Core'
  <1>1. Shape
    BY DEF Core
  <1>2. Shape'
    BY <1>1 DEF Shape, process, store
  <1>3. \A j \in Tasks : SameRequest(creates'[j], creates[j])
    BY <1>1 DEF Shape, SameRequest
  <1>4. LedgerKept
    BY <1>3 DEF LedgerKept, SameBooks, process, store
  <1>5. TallyKept /\ ViewKept
    BY <1>1, Untouched DEF store
  <1> QED
    BY <1>2, <1>4, <1>5, Framed

LEMMA ProbeKeeps == ASSUME Core, NEW k \in Tasks, Probe(k) PROVE Core'
  <1>1. creates[k] \in Task
    BY DEF Core, Shape
  <1>2. PICK found \in BOOLEAN :
          creates' = [creates EXCEPT ![k].tools = found,
            ![k].pc = IF found /\ creates[k].enabled = "unset" THEN "defaults" ELSE "uids"]
    BY DEF Probe
  <1> DEFINE task == [creates[k] EXCEPT !.tools = found,
            !.pc = IF found /\ creates[k].enabled = "unset" THEN "defaults" ELSE "uids"]
  <1>3. task \in Task /\ SameRequest(task, creates[k])
    BY <1>1 DEF Task, SameRequest
  <1>4. creates' = [creates EXCEPT ![k] = task]
    BY <1>2 DEF Core, Shape
  <1> HIDE DEF task
  <1> QED
    BY <1>3, <1>4, TaskGoesOn DEF Probe

LEMMA DefaultsKeeps == ASSUME Core, NEW k \in Tasks, Defaults(k) PROVE Core'
  <1>1. creates[k] \in Task
    BY DEF Core, Shape
  <1>2. PICK choice \in {"some", "none"} :
          creates' = [creates EXCEPT ![k].pc = "uids", ![k].enabled = choice]
    BY DEF Defaults
  <1> DEFINE task == [creates[k] EXCEPT !.pc = "uids", !.enabled = choice]
  <1>3. task \in Task /\ SameRequest(task, creates[k])
    BY <1>1 DEF Task, SameRequest, Choices
  <1>4. creates' = [creates EXCEPT ![k] = task]
    BY <1>2 DEF Core, Shape
  <1> HIDE DEF task
  <1> QED
    BY <1>3, <1>4, TaskGoesOn DEF Defaults

LEMMA DefaultsThrowKeeps == ASSUME Core, NEW k \in Tasks, DefaultsThrow(k) PROVE Core'
  <1>1. CASE creates[k].kind = "boot"
    BY <1>1, ForgetsKeeps DEF DefaultsThrow
  <1>2. CASE creates[k].kind # "boot"
    <2>1. /\ creates' = [creates EXCEPT ![k] = NoTask]
          /\ failed' = IF creates[k].kind = "update" THEN failed \cup {creates[k].old} ELSE failed
          /\ UNCHANGED <<process, upstream, entry, file, rebuild, tests, queue, calls, poller>>
      BY <1>2 DEF DefaultsThrow
    <2>2. Shape /\ Ledger
      BY DEF Core
    <2>3. phase = "serving"
      BY <1>2, <2>2 DEF Ledger, Phases, DefaultsThrow, Shape
    <2>4. creates[k].kind = "update" => creates[k].old \in GUI
      BY <2>2 DEF Ledger, TasksFit, Fits
    <2>5. creates' \in [Tasks -> Task] /\ failed' \subseteq GUI
      BY <2>1, <2>2, <2>4, AbsentType DEF Shape
    <2>6. Shape'
      BY <2>1, <2>2, <2>5 DEF Shape, process
    <2>7. \A j \in Tasks : creates'[j] = IF j = k THEN NoTask ELSE creates[j]
      BY <2>1, <2>2 DEF Shape
    <2>8. Phases' /\ Booked'
      BY <2>1, <2>2, <2>3, <2>7 DEF Ledger, Phases, Booked, process, NoTask
    <2>9. TasksFit'
      BY <2>1, <2>2, <2>7 DEF Ledger, TasksFit, Fits, NoTask
    <2>10. FileAgrees'
      BY <2>1, <2>2, <2>7 DEF Ledger, FileAgrees, process
    <2>11. Tally' /\ Watched'
      BY <2>1, <2>2, Untouched, TallyFrame, ViewFrame DEF Core
    <2> QED
      BY <2>6, <2>8, <2>9, <2>10, <2>11 DEF Core, Ledger
  <1> QED
    BY <1>1, <1>2

LEMMA RegisterKeeps == ASSUME Core, NEW k \in Tasks, Register(k) PROVE Core'
  <1> DEFINE c == creates[k]
             e == [here |-> TRUE, cfg |-> c.cfg, enabled |-> c.enabled,
                   status |-> IF c.tools THEN "connected" ELSE "error",
                   counted |-> c.tools, query |-> c.tools /\ c.enabled # "none",
                   session |-> c.session]
  <1>1. Shape /\ Ledger /\ c \in Task /\ c.kind # "none"
    BY DEF Core, Shape, Register
  <1>2. e \in Entry /\ e.here /\ e.cfg = c.cfg
    BY <1>1 DEF Task, Entry
  <1> HIDE DEF e
  <1>3. /\ entry' = [entry EXCEPT ![c.name] = e] /\ creates' = [creates EXCEPT ![k] = NoTask]
        /\ Orphan(c.name) /\ UNCHANGED <<process, upstream, queue>>
    BY DEF Register, e
  <1>4. entry' \in [Names -> Entry] /\ creates' \in [Tasks -> Task]
    BY <1>1, <1>2, <1>3, AbsentType DEF Shape
  <1>5. /\ \A m \in Names : entry'[m] = IF m = c.name THEN e ELSE entry[m]
        /\ \A j \in Tasks : creates'[j] = IF j = k THEN NoTask ELSE creates[j]
    BY <1>1, <1>3 DEF Shape
  <1>6. Tally'
    BY <1>1, <1>3, OrphanType, TallyFrame DEF Core
  <1>7. CASE c.kind = "boot"
    <2>1. phase = "booting" /\ poller = "none" /\ UNCHANGED <<file, failed, poller>>
      BY <1>1, <1>7 DEF Register, Ledger, Phases, Shape, Announced
    <2>2. Shape'
      BY <1>1, <1>3, <1>4, <2>1, OrphanType DEF Shape, process
    <2>3. Phases' /\ FileAgrees' /\ Watched'
      BY <1>1, <1>3, <1>5, <2>1 DEF Ledger, Phases, FileAgrees, Watched, Watch, process, NoTask
    <2>4. TasksFit'
      BY <1>1, <1>5, <2>1 DEF Ledger, TasksFit, Fits, NoTask
    <2>5. c.name \in GUI => c.cfg = file[c.name]
      BY <1>1, <1>7 DEF Ledger, TasksFit, Fits
    <2>6. Booked'
      BY <1>1, <1>2, <1>3, <1>5, <2>1, <2>5 DEF Ledger, Booked, process, GUI
    <2> QED
      BY <1>6, <2>2, <2>3, <2>4, <2>6 DEF Core, Ledger
  <1>8. CASE c.kind # "boot"
    <2>1. phase = "serving" /\ Saved /\ Emit
      BY <1>1, <1>8 DEF Register, Ledger, Phases, Shape, Announced
    <2>2. Shape'
      BY <1>1, <1>3, <1>4, <2>1, OrphanType, SavedType, EmitPoller DEF Shape, process
    <2>3. Phases' /\ Booked'
      BY <1>1, <1>3, <1>5, <2>1 DEF Ledger, Phases, Booked, process, NoTask
    <2>4. TasksFit'
      <3>1. \A j \in Tasks : creates'[j].kind \in {"none", "add", "update"}
        BY <1>1, <1>5, <2>1 DEF Ledger, Phases, NoTask
      <3>2. \A j \in Tasks : creates'[j].kind = "update" => creates'[j].old \in GUI
        BY <1>1, <1>5 DEF Ledger, TasksFit, Fits, NoTask
      <3> QED
        BY <3>1, <3>2 DEF TasksFit, Fits
    <2>5. FileAgrees' /\ Watched'
      BY <1>1, <2>1, SavedAgrees, EmitWatches
    <2> QED
      BY <1>6, <2>2, <2>3, <2>4, <2>5 DEF Core, Ledger
  <1> QED
    BY <1>7, <1>8

LEMMA RemoveKeeps == ASSUME Core, NEW n \in Names, Remove(n) PROVE Core'
  <1>1. Shape /\ Ledger /\ phase = "serving" /\ Saved /\ Emit /\ Orphan(n)
    BY DEF Core, Remove
  <1>2. entry' \in [Names -> Entry] /\ \A m \in Names : m # n => entry'[m] = entry[m]
    BY <1>1, AbsentType DEF Shape, Remove
  <1>3. Shape'
    BY <1>1, <1>2, OrphanType, SavedType, EmitPoller DEF Shape, Remove, process
  <1>4. Phases' /\ Booked'
    BY <1>1 DEF Ledger, Phases, Booked, Remove, process
  <1>5. TasksFit'
    <2>1. \A j \in Tasks : creates[j].kind \in {"none", "add", "update"}
      BY <1>1 DEF Ledger, Phases
    <2> QED
      BY <1>1, <2>1 DEF Ledger, TasksFit, Fits, Remove
  <1>6. FileAgrees' /\ Watched' /\ Tally'
    BY <1>1, SavedAgrees, EmitWatches, OrphanType, TallyFrame DEF Core
  <1> QED
    BY <1>3, <1>4, <1>5, <1>6 DEF Core, Ledger

LEMMA SelectKeeps ==
  ASSUME Core, NEW n \in Names, NEW choice \in Choices, Select(n, choice)
  PROVE  Core'
  <1>1. /\ Shape /\ Ledger /\ phase = "serving" /\ entry[n].here /\ SelectedSaved(n)
        /\ entry' = [entry EXCEPT ![n].cfg = choice, ![n].enabled = choice]
        /\ UNCHANGED <<process, upstream, rebuild, creates, tests, queue, calls, poller>>
    BY DEF Core, Select
  <1> DEFINE e == [entry[n] EXCEPT !.cfg = choice, !.enabled = choice]
  <1>2. e \in Entry /\ SameView(e, entry[n]) /\ e.here
    <2>1. entry[n] \in Entry
      BY <1>1 DEF Shape
    <2>2. e \in Entry
      BY <2>1, EntryChanges
    <2>3. SameView(e, entry[n]) /\ e.here
      BY <1>1, <2>1 DEF Entry, SameView
    <2> QED
      BY <2>2, <2>3
  <1>3. entry' = [entry EXCEPT ![n] = e]
    BY <1>1 DEF Shape
  <1> HIDE DEF e
  <1>4. /\ entry' \in [Names -> Entry]
        /\ \A m \in Names : entry'[m] = IF m = n THEN e ELSE entry[m]
    <2>1. entry \in [Names -> Entry]
      BY <1>1 DEF Shape
    <2> QED
      BY <2>1, <1>2, <1>3
  <1>5. Shape'
    BY <1>1, <1>4, SavedType DEF Shape, SelectedSaved, process
  <1>6. ViewKept
    BY <1>1, <1>2, <1>4 DEF ViewKept, SameView
  <1>7. Phases' /\ Booked'
    BY <1>1 DEF Ledger, Phases, Booked, process
  <1>8. TasksFit'
    <2>1. \A j \in Tasks : creates[j].kind \in {"none", "add", "update"}
      BY <1>1 DEF Ledger, Phases
    <2> QED
      BY <1>1, <2>1 DEF Ledger, TasksFit, Fits
  <1>9. FileAgrees'
    <2>1. CASE n \in System
      BY <1>1, <1>4, <2>1 DEF Ledger, FileAgrees, SelectedSaved, process
    <2>2. CASE n \notin System
      BY <1>1, <2>2, SavedAgrees DEF SelectedSaved
    <2> QED
      BY <2>1, <2>2
  <1>10. Tally' /\ Watched'
    BY <1>1, <1>6, Untouched, TallyFrame, ViewFrame DEF Core
  <1> QED
    BY <1>5, <1>7, <1>8, <1>9, <1>10 DEF Core, Ledger

-----------------------------------------------------------------------------
(* Tests.                                                                  *)

TestSteps(t) == TestStep(t) \/ AstrayRebuilds(t) \/ AstrayEnds(t)

LEMMA TickBeginsKeeps == ASSUME Core, TickBegins PROVE Core'
  <1>1. Shape /\ UNCHANGED <<process, upstream, store, rebuild, creates, tests, calls, poller>>
    BY DEF Core, TickBegins
  <1>2. Shape'
    BY <1>1 DEF Shape, TickBegins, process, store
  <1> QED
    BY <1>1, <1>2, Untouched, Framed DEF process, store

\* A test that starts takes the place of none that watches.
LEMMA StartedKeeps ==
  ASSUME Core, NEW t \in Clocks, NEW n \in Names, tests[t] = NoTest, Started(t, n),
         queue' \subseteq Names,
         UNCHANGED <<process, upstream, store, rebuild, creates, calls, poller>>
  PROVE  Core'
  <1>1. Shape
    BY DEF Core
  <1>2. [pc |-> "list", name |-> n, waiting |-> FALSE] \in Test
    BY DEF Test
  <1>3. Shape'
    BY <1>1, <1>2 DEF Shape, Started, process, store
  <1>4. ViewKept
    BY <1>1 DEF ViewKept, SameView, Started, Shape, NoTest, store
  <1> QED
    BY <1>1, <1>3, <1>4, Untouched, Framed DEF process, store

LEMMA TickNextKeeps == ASSUME Core, TickNext PROVE Core'
  <1>1. PICK n \in queue : /\ queue' = queue \ {n}
                           /\ IF entry[n].here THEN Started("tick", n) ELSE UNCHANGED tests
    BY DEF TickNext
  <1>2. Shape /\ n \in Names /\ queue' \subseteq Names /\ "tick" \in Clocks
    BY <1>1 DEF Core, Shape, Clocks
  <1>3. tests["tick"] = NoTest /\ UNCHANGED <<process, upstream, store, rebuild, creates, calls, poller>>
    BY DEF TickNext
  <1>4. CASE entry[n].here
    BY <1>1, <1>2, <1>3, <1>4, StartedKeeps
  <1>5. CASE ~entry[n].here
    <2>1. Shape'
      BY <1>1, <1>2, <1>3, <1>5 DEF Shape, process, store
    <2> QED
      BY <1>1, <1>2, <1>3, <1>5, <2>1, Untouched, Framed DEF process, store
  <1> QED
    BY <1>4, <1>5

LEMMA TestOnRequestKeeps == ASSUME Core, NEW n \in Names, TestOnRequest(n) PROVE Core'
  <1>1. Shape /\ "manual" \in Clocks
    BY DEF Core, Clocks
  <1>2. queue' \subseteq Names
    BY <1>1 DEF TestOnRequest, Shape
  <1> QED
    BY <1>1, <1>2, StartedKeeps DEF TestOnRequest

\* The end of a test, with an entry that is where it was.
LEMMA EndsKeeps ==
  ASSUME Core, NEW t \in Clocks, NEW e, Ends(t, e),
         tests[t].name \in Names => e \in Entry /\ SameBooks(e, entry[tests[t].name])
  PROVE  Core'
  <1>1. Shape /\ Emit
    BY DEF Core, Ends
  <1>2. /\ entry' \in [Names -> Entry]
        /\ \A m \in Names : SameBooks(entry'[m], entry[m])
    BY <1>1 DEF Shape, Ends, SameBooks
  <1>3. Shape'
    BY <1>1, <1>2, AbsentType, EmitPoller DEF Shape, Ends, process
  <1>4. LedgerKept
    BY <1>1, <1>2, EmitPoller DEF LedgerKept, Ends, process, SameRequest
  <1>5. TallyKept
    BY <1>1, Untouched DEF Ends
  <1> QED
    BY <1>1, <1>3, <1>4, <1>5, FramedAndTold

LEMMA FailsKeeps == ASSUME Core, NEW t \in Clocks, Fails(t) PROVE Core'
  <1> DEFINE n == tests[t].name
             e == [entry[n] EXCEPT !.status = "error"]
  <1>1. ASSUME n \in Names
        PROVE  e \in Entry /\ SameBooks(e, entry[n])
    <2>1. entry[n] \in Entry
      BY <1>1 DEF Core, Shape
    <2>2. e \in Entry
      BY <2>1, EntryChanges
    <2>3. SameBooks(e, entry[n])
      BY <2>1 DEF Entry, SameBooks
    <2> QED
      BY <2>2, <2>3
  <1>2. Ends(t, e)
    BY DEF Fails
  <1> HIDE DEF e
  <1> QED
    BY <1>1, <1>2, EndsKeeps

LEMMA RebuildsKeeps ==
  ASSUME Core, NEW t \in Clocks, NEW pc \in {"list2", "list3", "list4", "astray"},
         Rebuilds(t, pc), tests[t].pc \notin {"fresh", "check"}
  PROVE  Core'
  <1>1. Shape /\ calls \in [Callers -> CallOf] /\ (~Astray(t)) \in BOOLEAN
    BY DEF Core, Shape, Astray
  <1>2. /\ rebuild' \in [Names -> {"none", "entry", "orphan"}]
        /\ entry' \in [Names -> Entry] /\ calls' \in [Callers -> CallOf]
        /\ \A m \in Names : SameView(entry'[m], entry[m]) /\ SameBooks(entry'[m], entry[m])
        /\ \A c \in Callers : SameTally(calls'[c], calls[c])
    BY <1>1, AskRebuildType DEF Rebuilds
  <1>3. /\ tests' \in [Clocks -> Test]
        /\ \A s \in Clocks : s # t => tests'[s] = tests[s]
    <2>1. [tests[t] EXCEPT !.pc = pc, !.waiting = TRUE] \in Test
      BY <1>1, TestChanges DEF Shape
    <2>2. tests' = [tests EXCEPT ![t] = [tests[t] EXCEPT !.pc = pc, !.waiting = TRUE]]
      BY <1>1 DEF Rebuilds, Shape
    <2> QED
      BY <1>1, <2>1, <2>2 DEF Shape
  <1>4. UNCHANGED <<process, upstream, file, failed, creates, queue, poller>>
    BY DEF Rebuilds
  <1>5. Shape'
    BY <1>1, <1>2, <1>3, <1>4 DEF Shape, process
  <1>6. TallyKept
    BY <1>2 DEF TallyKept
  <1>7. LedgerKept
    BY <1>2, <1>4 DEF LedgerKept, process, SameRequest
  <1>8. ViewKept
    BY <1>2, <1>3, <1>4 DEF ViewKept
  <1> QED
    BY <1>5, <1>6, <1>7, <1>8, Framed

LEMMA ProceedsKeeps ==
  ASSUME Core, NEW t \in Clocks, NEW pc \in {"raw", "raw2"}, Proceeds(t, pc),
         tests[t].pc \notin {"fresh", "check"}
  PROVE  Core'
  <1>1. Shape /\ UNCHANGED <<process, upstream, store, rebuild, creates, queue, calls, poller>>
    BY DEF Core, Proceeds
  <1>2. /\ tests' \in [Clocks -> Test]
        /\ \A s \in Clocks : s # t => tests'[s] = tests[s]
    <2>1. [tests[t] EXCEPT !.pc = pc] \in Test
      BY <1>1, TestChanges DEF Shape
    <2>2. tests' = [tests EXCEPT ![t] = [tests[t] EXCEPT !.pc = pc]]
      BY <1>1 DEF Proceeds, Goes, Shape
    <2> QED
      BY <1>1, <2>1, <2>2 DEF Shape
  <1>3. Shape'
    BY <1>1, <1>2 DEF Shape, process, store
  <1>4. ViewKept
    BY <1>1, <1>2 DEF ViewKept, SameView, store
  <1> QED
    BY <1>1, <1>3, <1>4, Untouched, Framed DEF process, store

\* Who writes the entry on the way watches it from then on.
LEMMA NotesKeeps ==
  ASSUME Core, NEW t \in Clocks, NEW e, NEW pc \in {"fresh", "check"}, Notes(t, e, pc),
         tests[t].name \in Names => e \in Entry /\ SameBooks(e, entry[tests[t].name])
  PROVE  Core'
  <1>1. /\ Shape /\ entry' = [entry EXCEPT ![tests[t].name] = e]
        /\ UNCHANGED <<process, upstream, file, failed, rebuild, creates, queue, calls, poller>>
    BY DEF Core, Notes
  <1>2. /\ entry' \in [Names -> Entry]
        /\ \A m \in Names : SameBooks(entry'[m], entry[m])
        /\ \A m \in Names : m # tests[t].name => entry'[m] = entry[m]
    BY <1>1 DEF Shape, SameBooks
  <1>3. /\ tests' \in [Clocks -> Test]
        /\ \A s \in Clocks : s # t => tests'[s] = tests[s]
        /\ tests'[t].pc = pc /\ tests'[t].name = tests[t].name
    <2> DEFINE x == [tests[t] EXCEPT !.pc = pc]
    <2>1. x \in Test
      BY <1>1, TestChanges DEF Shape
    <2>2. x.pc = pc /\ x.name = tests[t].name
      BY <1>1 DEF Shape, Test
    <2>3. tests' = [tests EXCEPT ![t] = x]
      BY <1>1 DEF Notes, Goes, Shape
    <2> HIDE DEF x
    <2> QED
      BY <1>1, <2>1, <2>2, <2>3 DEF Shape
  <1>4. Shape'
    BY <1>1, <1>2, <1>3 DEF Shape, process
  <1>5. LedgerKept
    BY <1>1, <1>2 DEF LedgerKept, process, SameRequest
  <1>6. Watched'
    <2> SUFFICES ASSUME NEW m \in Names, poller' = "skipped", ViableEntry(entry'[m])
                 PROVE  Seen(m, tests')
      BY DEF Watched, Watch
    <2>1. CASE m = tests[t].name
      BY <1>3, <2>1 DEF Seen
    <2>2. CASE m # tests[t].name
      <3>1. Seen(m, tests)
        BY <1>1, <1>2, <2>2 DEF Core, Watched, Watch
      <3> QED
        BY <1>3, <2>2, <3>1 DEF Seen
    <2> QED
      BY <2>1, <2>2
  <1> QED
    BY <1>1, <1>4, <1>5, <1>6, Untouched, TallyFrame, LedgerFrame DEF Core

LEMMA ConnectedKeeps == ASSUME Core, NEW t \in Clocks, Connected(t) PROVE Core'
  <1> DEFINE n == tests[t].name
             choice == IF entry[n].enabled = "none" THEN "none" ELSE "some"
             e == [entry[n] EXCEPT !.status = "connected", !.enabled = choice, !.counted = TRUE,
                                   !.query = choice = "some"]
  <1>1. ASSUME n \in Names
        PROVE  e \in Entry /\ SameBooks(e, entry[n])
    <2>1. entry[n] \in Entry /\ choice \in Choices /\ (choice = "some") \in BOOLEAN
      BY <1>1 DEF Core, Shape, Choices
    <2> HIDE DEF choice
    <2>2. e \in Entry
      BY <2>1, EntryChanges
    <2>3. SameBooks(e, entry[n])
      BY <2>1 DEF Entry, SameBooks
    <2> QED
      BY <2>2, <2>3
  <1>2. Notes(t, e, "check")
    BY DEF Connected
  <1> HIDE DEF e
  <1> QED
    BY <1>1, <1>2, NotesKeeps

LEMMA TestListsKeeps == ASSUME Core, NEW t \in Clocks, TestLists(t) PROVE Core'
  <1> DEFINE n == tests[t].name
             e == [entry[n] EXCEPT !.status = "connected", !.query = TRUE]
  <1>1. tests[t].pc \notin {"fresh", "check"}
    BY DEF TestLists, At
  <1>2. \/ Rebuilds(t, "list2") \/ Fails(t) \/ Proceeds(t, "raw")
        \/ Notes(t, e, "fresh")
    BY DEF TestLists
  <1>3. ASSUME n \in Names
        PROVE  e \in Entry /\ SameBooks(e, entry[n])
    <2>1. entry[n] \in Entry
      BY <1>3 DEF Core, Shape
    <2>2. e \in Entry
      BY <2>1, EntryChanges
    <2>3. SameBooks(e, entry[n])
      BY <2>1 DEF Entry, SameBooks
    <2> QED
      BY <2>2, <2>3
  <1> HIDE DEF e
  <1> QED
    BY <1>1, <1>2, <1>3, RebuildsKeeps, FailsKeeps, ProceedsKeeps, NotesKeeps

LEMMA TestRefreshesKeeps == ASSUME Core, NEW t \in Clocks, TestRefreshes(t) PROVE Core'
  <1> DEFINE n == tests[t].name
  <1>1. ASSUME NEW choice \in Choices, NEW b \in BOOLEAN,
               Notes(t, [entry[n] EXCEPT !.enabled = choice, !.counted = b, !.query = b], "check")
        PROVE  Core'
    <2> DEFINE e == [entry[n] EXCEPT !.enabled = choice, !.counted = b, !.query = b]
    <2>1. ASSUME n \in Names
          PROVE  e \in Entry /\ SameBooks(e, entry[n])
      <3>1. entry[n] \in Entry
        BY <2>1 DEF Core, Shape
      <3>2. e \in Entry
        BY <3>1, EntryChanges
      <3>3. SameBooks(e, entry[n])
        BY <3>1 DEF Entry, SameBooks
      <3> QED
        BY <3>2, <3>3
    <2>2. Notes(t, e, "check")
      BY <1>1
    <2> HIDE DEF e
    <2> QED
      BY <2>1, <2>2, NotesKeeps
  <1>2. PICK answer \in Lists(n, TRUE) :
          \/ Fails(t)
          \/ Notes(t, [entry[n] EXCEPT
                       !.enabled = IF answer = "tools" THEN "some" ELSE "none",
                       !.counted = answer = "tools", !.query = answer = "tools"], "check")
    BY DEF TestRefreshes
  <1>3. /\ (IF answer = "tools" THEN "some" ELSE "none") \in Choices
        /\ (answer = "tools") \in BOOLEAN
    BY DEF Choices
  <1> QED
    BY <1>1, <1>2, <1>3, FailsKeeps

LEMMA TestListsAllAgainKeeps == ASSUME Core, NEW t \in Clocks, TestListsAllAgain(t) PROVE Core'
  <1> DEFINE n == tests[t].name
             e == [entry[n] EXCEPT !.status = "error", !.counted = FALSE, !.query = FALSE]
  <1>1. Connected(t) \/ Ends(t, e) \/ Fails(t)
    BY DEF TestListsAllAgain
  <1>2. ASSUME n \in Names
        PROVE  e \in Entry /\ SameBooks(e, entry[n])
    <2>1. entry[n] \in Entry
      BY <1>2 DEF Core, Shape
    <2>2. e \in Entry
      BY <2>1, EntryChanges
    <2>3. SameBooks(e, entry[n])
      BY <2>1 DEF Entry, SameBooks
    <2> QED
      BY <2>2, <2>3
  <1> HIDE DEF e
  <1> QED
    BY <1>1, <1>2, ConnectedKeeps, EndsKeeps, FailsKeeps

LEMMA TestKeeps == ASSUME Core, NEW t \in Clocks, TestSteps(t) PROVE Core'
  <1>1. ASSUME Ends(t, entry[tests[t].name])
        PROVE  Core'
    <2>1. tests[t].name \in Names => entry[tests[t].name] \in Entry
      BY DEF Core, Shape
    <2> QED
      BY <1>1, <2>1, EndsKeeps DEF SameBooks
  <1>2. CASE TestListsAll(t)
    <2>1. tests[t].pc \notin {"fresh", "check"}
      BY <1>2 DEF TestListsAll, At
    <2>2. Connected(t) \/ Rebuilds(t, "list3") \/ Fails(t)
      BY <1>2 DEF TestListsAll
    <2> QED
      BY <2>1, <2>2, ConnectedKeeps, RebuildsKeeps, FailsKeeps
  <1>3. CASE TestListsAgain(t)
    <2>1. tests[t].pc \notin {"fresh", "check"}
      BY <1>3 DEF TestListsAgain, At
    <2>2. Proceeds(t, "raw2") \/ Rebuilds(t, "list4") \/ Fails(t)
      BY <1>3 DEF TestListsAgain
    <2> QED
      BY <2>1, <2>2, ProceedsKeeps, RebuildsKeeps, FailsKeeps
  <1>4. CASE TestChecks(t)
    BY <1>1, <1>4, FailsKeeps DEF TestChecks
  <1>5. CASE AstrayRebuilds(t)
    <2>1. tests[t].pc \notin {"fresh", "check"} /\ Rebuilds(t, "astray")
      BY <1>5 DEF AstrayRebuilds, Astray
    <2> QED
      BY <2>1, RebuildsKeeps
  <1>6. CASE AstrayEnds(t)
    BY <1>1, <1>6 DEF AstrayEnds
  <1> QED
    BY <1>2, <1>3, <1>4, <1>5, <1>6, TestListsKeeps, TestRefreshesKeeps, TestListsAllAgainKeeps
    DEF TestSteps, TestStep

-----------------------------------------------------------------------------
(* Callers.                                                                *)

\* A step of one caller, to a call that is counted.
LEMMA CallerSteps ==
  ASSUME Core, NEW c \in Callers, NEW call \in CallOf, Counted(call),
         calls' = [calls EXCEPT ![c] = call],
         UNCHANGED <<process, upstream, store, rebuild, creates, tests, queue, poller>>
  PROVE  Core'
  <1>1. Shape
    BY DEF Core
  <1>2. Shape'
    BY <1>1 DEF Shape, process, store
  <1>3. Tally'
    BY <1>1 DEF Core, Tally, Shape
  <1> QED
    BY <1>1, <1>2, <1>3, Untouched, LedgerFrame, ViewFrame DEF Core, process, store

LEMMA GetToolsKeeps ==
  ASSUME Core, NEW c \in Callers, NEW n \in Names, NEW write \in BOOLEAN, GetTools(c, n, write)
  PROVE  Core'
  <1> DEFINE call == [NoCall EXCEPT !.pc = "ready", !.name = n, !.held = TRUE,
                                    !.write = write, !.bound = TRUE]
  <1>1. call \in CallOf /\ call.pc = "ready" /\ call.done = 0 /\ call.name = n /\ call.write = write
    <2>1. NoCall \in CallOf /\ NoCall.done = 0
      BY AbsentType DEF NoCall
    <2>2. call \in CallOf
      BY <2>1 DEF CallOf
    <2> QED
      BY <2>1, <2>2 DEF CallOf
  <1>2. calls' = [calls EXCEPT ![c] = call]
    BY DEF GetTools
  <1> HIDE DEF call
  <1>3. Counted(call)
    BY <1>1 DEF Counted
  <1> QED
    BY <1>1, <1>2, <1>3, CallerSteps DEF GetTools

LEMMA CallKeeps == ASSUME Core, NEW c \in Callers, Call(c) PROVE Core'
  <1> DEFINE call == [calls[c] EXCEPT !.pc = "execute", !.done = 0]
  <1>1. calls[c] \in CallOf
    BY DEF Core, Shape
  <1>2. call \in CallOf /\ call.pc = "execute" /\ call.done = 0 /\ call.name = calls[c].name
    <2>1. 0 \in 0..2
      OBVIOUS
    <2>2. call \in CallOf
      BY <1>1, <2>1 DEF CallOf
    <2> QED
      BY <1>1, <2>2 DEF CallOf
  <1>3. calls' = [calls EXCEPT ![c] = call]
    BY DEF Call, Core, Shape
  <1> HIDE DEF call
  <1>4. Counted(call)
    BY <1>2 DEF Counted, Core, Tally, Call
  <1> QED
    BY <1>2, <1>3, <1>4, CallerSteps DEF Call

\* A call that is over was executed no more often than it may be.
LEMMA OverKeeps ==
  ASSUME Core, NEW c \in Callers, NEW n \in 0..2, Over(c, n), n <= IF calls[c].write THEN 1 ELSE 2,
         calls[c].pc # "idle",
         UNCHANGED <<process, upstream, store, rebuild, creates, tests, queue, poller>>
  PROVE  Core'
  <1> DEFINE call == [calls[c] EXCEPT !.pc = "ready", !.done = n]
  <1>1. calls[c] \in CallOf
    BY DEF Core, Shape
  <1>2. call \in CallOf /\ call.pc = "ready" /\ call.done = n /\ call.write = calls[c].write
        /\ call.name = calls[c].name
    BY <1>1 DEF CallOf
  <1>3. calls' = [calls EXCEPT ![c] = call]
    BY DEF Over, Core, Shape
  <1> HIDE DEF call
  <1>4. Counted(call)
    BY <1>2 DEF Counted, Core, Tally
  <1> QED
    BY <1>2, <1>3, <1>4, CallerSteps

LEMMA AnsweredKeeps == ASSUME Core, NEW c \in Callers, Answered(c) PROVE Core'
  <1>1. calls[c] \in CallOf /\ calls[c].pc = "execute" /\ calls[c].done = 0
    BY DEF Core, Shape, Tally, Counted, Answered
  <1> QED
    BY <1>1, OverKeeps DEF Answered, CallOf

\* Once more only what was executed once at most, and is not a write.
LEMMA CallAgainKeeps == ASSUME Core, NEW c \in Callers, CallAgain(c) PROVE Core'
  <1>1. /\ calls[c] \in CallOf /\ calls[c].done <= 1
        /\ calls[c].done <= IF calls[c].write THEN 1 ELSE 2
    BY DEF Core, Shape, Tally, Counted, CallAgain
  <1>2. calls[c].done \in 0..2 /\ calls[c].done + 1 \in 0..2
    BY <1>1 DEF CallOf
  <1>3. CASE Over(c, calls[c].done)
    BY <1>1, <1>2, <1>3, OverKeeps DEF CallAgain
  <1>4. CASE MayRetry(c) /\ Over(c, calls[c].done + 1)
    <2>1. calls[c].done + 1 <= IF calls[c].write THEN 1 ELSE 2
      BY <1>1, <1>2, <1>4 DEF MayRetry
    <2> QED
      BY <1>2, <1>4, <2>1, OverKeeps DEF CallAgain
  <1> QED
    BY <1>3, <1>4 DEF CallAgain

LEMMA RefusedKeeps == ASSUME Core, NEW c \in Callers, Refused(c) PROVE Core'
  <1> DEFINE n == calls[c].name
  <1>1. /\ Shape /\ calls[c] \in CallOf /\ calls[c].pc = "execute" /\ calls[c].done = 0
        /\ UNCHANGED <<process, upstream, creates, tests, queue, poller>>
    BY DEF Core, Shape, Tally, Counted, Refused
  <1>2. PICK landed \in BOOLEAN :
          LET after == [calls EXCEPT ![c].pc = "again", ![c].waiting = entry[n].here,
                          ![c].done = IF landed THEN @ + 1 ELSE @]
          IN  IF entry[n].here
              THEN AskRebuild(n, TRUE, after) /\ UNCHANGED <<file, failed>>
              ELSE calls' = after /\ UNCHANGED <<rebuild, store>>
    BY DEF Refused
  <1> DEFINE call == [calls[c] EXCEPT !.pc = "again", !.waiting = entry[n].here,
                        !.done = IF landed THEN 1 ELSE 0]
             after == [calls EXCEPT ![c] = call]
  <1>3. IF entry[n].here THEN AskRebuild(n, TRUE, after) /\ UNCHANGED <<file, failed>>
        ELSE calls' = after /\ UNCHANGED <<rebuild, store>>
    <2>1. (IF landed THEN calls[c].done + 1 ELSE calls[c].done) = IF landed THEN 1 ELSE 0
      BY <1>1
    <2>2. after = [calls EXCEPT ![c].pc = "again", ![c].waiting = entry[n].here,
                     ![c].done = IF landed THEN calls[c].done + 1 ELSE calls[c].done]
      BY <1>1, <2>1 DEF Shape
    <2> QED
      BY <1>1, <1>2, <2>2
  <1>4. n \in Names /\ entry[n].here \in BOOLEAN
    BY <1>1 DEF Core, Shape, Tally, Counted, Entry
  <1>5. call \in CallOf /\ Counted(call)
    <2>1. (IF landed THEN 1 ELSE 0) \in 0..2
      OBVIOUS
    <2>2. call \in CallOf
      BY <1>1, <1>4, <2>1 DEF CallOf
    <2>3. call.done = (IF landed THEN 1 ELSE 0) /\ call.pc = "again" /\ call.name = n
      BY <1>1 DEF CallOf
    <2> HIDE DEF call
    <2>4. Counted(call)
      BY <1>4, <2>3 DEF Counted
    <2> QED
      BY <2>2, <2>4
  <1> HIDE DEF call
  <1>6. CASE entry[n].here
    <2>2. after \in [Callers -> CallOf] /\ \A d \in Callers : Counted(after[d])
      BY <1>1, <1>5 DEF Shape, Core, Tally
    <2> HIDE DEF after
    <2>3. /\ rebuild' \in [Names -> {"none", "entry", "orphan"}]
          /\ entry' \in [Names -> Entry] /\ calls' \in [Callers -> CallOf]
          /\ \A m \in Names : SameView(entry'[m], entry[m]) /\ SameBooks(entry'[m], entry[m])
          /\ \A d \in Callers : SameTally(calls'[d], after[d])
      BY <1>1, <1>3, <1>6, <2>2, AskRebuildType
    <2>4. Shape'
      BY <1>1, <1>3, <1>6, <2>3 DEF Shape, process
    <2>5. Tally'
      BY <2>2, <2>3 DEF Tally, SameTally, Counted
    <2>6. LedgerKept
      BY <1>1, <1>3, <1>6, <2>3 DEF LedgerKept, SameRequest, process
    <2>7. ViewKept
      BY <1>1, <2>3 DEF ViewKept
    <2> QED
      BY <1>1, <2>4, <2>5, <2>6, <2>7, LedgerFrame, ViewFrame DEF Core
  <1>7. CASE ~entry[n].here
    BY <1>1, <1>3, <1>7, <1>5, CallerSteps
  <1> QED
    BY <1>6, <1>7

-----------------------------------------------------------------------------
(* The process and the upstreams.                                          *)

LEMMA BootKeeps == ASSUME Core, Boot PROVE Core'
  <1>1. /\ Shape /\ Ledger /\ phase = "off" /\ phase' = "booting" /\ poller = "none"
        /\ UNCHANGED <<upstream, store, rebuild, creates, tests, queue, calls, poller>>
    BY DEF Core, Boot, Ledger, Phases
  <1>2. toBoot' \subseteq Names /\ \A n \in GUI : n \in toBoot' <=> file[n] # "absent"
    BY RegistryAssumption DEF Boot, GUI
  <1>3. Shape'
    BY <1>1, <1>2 DEF Shape, store
  <1>4. Phases' /\ Booked' /\ TasksFit' /\ FileAgrees'
    BY <1>1, <1>2 DEF Ledger, Phases, Booked, TasksFit, Fits, FileAgrees, store, GUI
  <1> QED
    BY <1>1, <1>3, <1>4, Untouched, TallyFrame, ViewFrame DEF Core, Ledger, store

\* When nothing is left to come, what was booked is what there is.
LEMMA BootDoneKeeps == ASSUME Core, BootDone PROVE Core'
  <1>1. /\ Shape /\ Ledger /\ phase = "booting" /\ phase' = "serving" /\ toBoot = {}
        /\ \A k \in Tasks : creates[k].kind = "none"
        /\ UNCHANGED <<toBoot, upstream, store, rebuild, creates, tests, queue, calls, poller>>
    BY DEF Core, BootDone, NoTask
  <1>2. Shape'
    BY <1>1 DEF Shape, store
  <1>3. Phases' /\ Booked' /\ TasksFit'
    BY <1>1 DEF Ledger, Phases, Booked, TasksFit, Fits, store
  <1>4. FileAgrees'
    BY <1>1 DEF Ledger, Booked, FileAgrees, store, GUI
  <1> QED
    BY <1>1, <1>2, <1>3, <1>4, Untouched, TallyFrame, ViewFrame DEF Core, Ledger, store

LEMMA StartAllPollersKeeps == ASSUME Core, StartAllPollers PROVE Core'
  <1>1. /\ Shape /\ phase = "serving"
        /\ UNCHANGED <<process, upstream, store, rebuild, creates, tests, queue, calls>>
    BY DEF Core, StartAllPollers
  <1>2. Shape'
    BY <1>1 DEF Shape, StartAllPollers, process, store
  <1>3. Watched'
    BY <1>1 DEF StartAllPollers, Watched, Watch, ViableEntry, Viable, store
  <1>4. LedgerKept
    BY <1>1 DEF LedgerKept, SameBooks, SameRequest, process, store
  <1> QED
    BY <1>1, <1>2, <1>3, <1>4, Untouched, TallyFrame, LedgerFrame DEF Core

LEMMA UpstreamChangesKeeps == ASSUME Core, NEW n \in Names, UpstreamChanges(n) PROVE Core'
  <1>1. /\ Shape /\ upstream' = [upstream EXCEPT ![n] = IF @ = "up" THEN "down" ELSE "up"]
        /\ UNCHANGED <<process, file, failed, rebuild, tests, queue, calls, poller>>
    BY DEF Core, UpstreamChanges
  <1>2. /\ entry' \in [Names -> Entry] /\ creates' \in [Tasks -> Task]
        /\ \A m \in Names : SameView(entry'[m], entry[m]) /\ SameBooks(entry'[m], entry[m])
        /\ \A k \in Tasks : SameRequest(creates'[k], creates[k])
    <2>1. CASE upstream[n] = "up"
      <3>1. PICK lost \in {"silent", "refused"} :
              /\ entry' = IF entry[n].here THEN [entry EXCEPT ![n].session = lost] ELSE entry
              /\ creates' = [k \in Tasks |-> IF creates[k].name = n
                                THEN [creates[k] EXCEPT !.session = lost] ELSE creates[k]]
        BY <2>1 DEF UpstreamChanges
      <3>2. lost \in Sessions
        BY DEF Sessions
      <3>3. entry' \in [Names -> Entry]
        BY <1>1, <3>1, <3>2, EntryChanges DEF Shape
      <3>4. \A m \in Names : SameView(entry'[m], entry[m]) /\ SameBooks(entry'[m], entry[m])
        BY <1>1, <3>1 DEF Shape, Entry, SameView, SameBooks
      <3>5. \A x \in Task : /\ [x EXCEPT !.session = lost] \in Task
                            /\ SameRequest([x EXCEPT !.session = lost], x)
        BY <3>2 DEF Task, SameRequest
      <3>6. creates' \in [Tasks -> Task] /\ \A k \in Tasks : SameRequest(creates'[k], creates[k])
        BY <1>1, <3>1, <3>5 DEF Shape, SameRequest
      <3> QED
        BY <3>3, <3>4, <3>6
    <2>2. CASE upstream[n] # "up"
      BY <1>1, <2>2 DEF UpstreamChanges, Shape, SameView, SameBooks, SameRequest
    <2> QED
      BY <2>1, <2>2
  <1>3. Shape'
    BY <1>1, <1>2 DEF Shape, process
  <1>4. LedgerKept
    BY <1>1, <1>2 DEF LedgerKept, process
  <1>5. ViewKept
    BY <1>1, <1>2 DEF ViewKept
  <1> QED
    BY <1>1, <1>3, <1>4, <1>5, Untouched, Framed

-----------------------------------------------------------------------------
(* The invariant, and what it gives.                                       *)

LEMMA InitHolds == Init => IInv
  <1> SUFFICES ASSUME Init PROVE IInv
    OBVIOUS
  <1>1. Shape
    BY AbsentType DEF Init, Forgotten, Shape, Choices, GUI
  <1>2. Tally
    BY DEF Init, Forgotten, Tally, Counted, NoCall
  <1>3. Phases /\ Booked /\ TasksFit /\ FileAgrees
    BY DEF Init, Forgotten, Phases, Booked, TasksFit, Fits, FileAgrees, Absent, NoTask
  <1>4. Watched
    BY DEF Init, Forgotten, Watched, Watch
  <1>5. moves \in 0..MaxMoves
    BY RegistryAssumption DEF Init
  <1> QED
    BY <1>1, <1>2, <1>3, <1>4, <1>5 DEF IInv, Core, Ledger

LEMMA MoveKeeps == ASSUME Core, Move PROVE Core'
  <1>1. CASE Crash
    BY <1>1, ForgetsKeeps DEF Crash
  <1>2. CASE \E n \in Names :
               \/ UpstreamChanges(n) \/ TestOnRequest(n) \/ Remove(n)
               \/ \E choice \in Choices : Select(n, choice)
    BY <1>2, UpstreamChangesKeeps, TestOnRequestKeeps, RemoveKeeps, SelectKeeps
  <1>3. CASE \E k \in Tasks, n \in Names \ System, cfg \in Choices :
               \/ Add(k, n, cfg)
               \/ \E old \in Names \ System : Update(k, old, n, cfg)
    BY <1>3, AddKeeps, UpdateKeeps DEF GUI
  <1>4. CASE \E c \in Callers :
               \/ Call(c)
               \/ \E n \in Names, write \in BOOLEAN : GetTools(c, n, write)
    BY <1>4, CallKeeps, GetToolsKeeps
  <1> QED
    BY <1>1, <1>2, <1>3, <1>4 DEF Move

LEMMA WorkKeeps == ASSUME Core, Work PROVE Core'
  <1>1. CASE Boot \/ BootDone \/ StartAllPollers
    BY <1>1, BootKeeps, BootDoneKeeps, StartAllPollersKeeps
  <1>2. CASE TickBegins \/ TickNext
    BY <1>2, TickBeginsKeeps, TickNextKeeps
  <1>3. CASE \E n \in Names : Rebuilt(n)
    BY <1>3, RebuiltKeeps
  <1>4. CASE \E k \in Tasks :
               BootNext(k) \/ Probe(k) \/ Defaults(k) \/ DefaultsThrow(k) \/ Register(k)
    BY <1>4, BootNextKeeps, ProbeKeeps, DefaultsKeeps, DefaultsThrowKeeps, RegisterKeeps
  <1>5. CASE \E t \in Clocks : TestStep(t) \/ AstrayRebuilds(t) \/ AstrayEnds(t)
    BY <1>5, TestKeeps DEF TestSteps
  <1>6. CASE \E c \in Callers : Answered(c) \/ Refused(c) \/ CallAgain(c)
    BY <1>6, AnsweredKeeps, RefusedKeeps, CallAgainKeeps
  <1> QED
    BY <1>1, <1>2, <1>3, <1>4, <1>5, <1>6 DEF Work

LEMMA StutterKeeps == ASSUME IInv, UNCHANGED vars PROVE IInv'
  <1>1. /\ Shape
        /\ UNCHANGED <<phase, toBoot, upstream, entry, file, failed, rebuild, creates, tests,
                       queue, calls, poller, moves>>
    BY DEF IInv, Core, vars, process, store
  <1>2. Shape'
    BY <1>1 DEF Shape
  <1>3. Core'
    BY <1>1, <1>2, Untouched, Framed DEF IInv, store
  <1> QED
    BY <1>1, <1>3 DEF IInv

LEMMA NextKeeps == IInv /\ [Next]_vars => IInv'
  <1> SUFFICES ASSUME IInv, [Next]_vars PROVE IInv'
    OBVIOUS
  <1>1. CASE Move /\ moves < MaxMoves /\ moves' = moves + 1
    BY <1>1, MoveKeeps, RegistryAssumption DEF IInv
  <1>2. CASE Work /\ UNCHANGED moves
    BY <1>2, WorkKeeps DEF IInv
  <1>3. CASE UNCHANGED vars
    BY <1>3, StutterKeeps
  <1> QED
    BY <1>1, <1>2, <1>3 DEF Next

\* Every step of the registry, its tests, its callers and its process keeps the
\* inductive invariant (provider-registry.ts, provider.ts, stack-manager.ts).
THEOREM RegistryInvariant == Spec => []IInv
  BY InitHolds, NextKeeps, PTL DEF Spec

\* The types of the registry, of providers.yaml and of the poller's start.
THEOREM RegistryTypes == Spec => []TypeOK
  <1>1. IInv => TypeOK
    BY DEF IInv, Core, Shape, TypeOK, GUI
  <1> QED
    BY <1>1, RegistryInvariant, PTL

\* However many upstreams fail and rebuild, no call of a tool that writes is executed
\* twice, and none of a tool that reads three times (wrapToolExecute).
THEOREM WritesAreNotReplayed == Spec => []WriteAtMostOnce
  <1>1. IInv => WriteAtMostOnce
    BY DEF IInv, Core, Tally, Counted, WriteAtMostOnce
  <1> QED
    BY <1>1, RegistryInvariant, PTL

\* A skipped poller is never left waiting while a viable provider goes unannounced,
\* whichever operation made it viable (maybeStartSkippedPoller).
THEOREM PollerIsToldOf == Spec => []NoMissedStart
  <1>1. IInv => NoMissedStart
    BY DEF IInv, Core, Watched, Watch, ViableEntry, Viable, Seen, NoMissedStart
  <1> QED
    BY <1>1, RegistryInvariant, PTL

\* providers.yaml is the registry's GUI part, over boots, crashes, rejected updates and
\* choices made while one is under way (saveGuiProviders, initialize).
THEOREM FileIsTheRegistry == Spec => []FileAgrees
  <1>1. IInv => FileAgrees
    BY DEF IInv, Core, Ledger
  <1> QED
    BY <1>1, RegistryInvariant, PTL

=============================================================================
