--------------------------- MODULE ProviderRegistry ---------------------------
(***************************************************************************)
(* The MCP providers of one stack: ProviderRegistry                        *)
(* (src/mcp/provider-registry.ts), the tools that callers hold             *)
(* (src/mcp/provider.ts), providers.yaml and the start of the pollers that *)
(* waits for a viable metrics provider (stack-manager.ts).                 *)
(*                                                                         *)
(* Everything that talks to an upstream awaits it, and an operator, the    *)
(* periodic reconnect and the callers of tools share one entry per name.   *)
(* An entry that update, remove or a second add took out of the registry   *)
(* lives on in the tasks that hold it: what they write is lost, and what   *)
(* its upstream answers is left open.  Every upstream serves one metric    *)
(* query tool and others; a selection of tools is known by what the        *)
(* registry asks of it.  A listing that fails is refused with an error     *)
(* that isMcpConnectionError knows, broken with another one, or empty: the *)
(* MCP library swallows some failures.  A session that its upstream has    *)
(* lost fails each listing in one of the two known ways until the client   *)
(* is rebuilt; while the upstream is down anything may come back.          *)
(***************************************************************************)
EXTENDS Naturals, FiniteSets

CONSTANTS
  Names,
  System,    \* names in config.yaml, read-only
  Tasks,     \* model bound: add and update requests at once
  Callers,   \* model bound: holders of a tool
  MaxMoves   \* model bound: requests, tool calls and faults in a behaviour

ASSUME RegistryAssumption == System \subseteq Names /\ Tasks # {} /\ MaxMoves \in Nat

\* enabledTools: undefined, a selection with the metric query tool, explicitly empty.
Choices == {"unset", "some", "none"}
Clocks  == {"tick", "manual"}
Sessions == {"live", "silent", "refused"}

VARIABLES
  phase,     \* the process is off, booting or serving
  upstream,  \* of each name: up or down
  entry,     \* entries: what the registry holds under a name
  file,      \* providers.yaml: the enabledTools of each GUI provider
  failed,    \* names whose update was rejected after their entry was taken out (history)
  rebuild,   \* rebuildInFlight: whose client is being rebuilt under a name
  toBoot,    \* names that initialize() has still to create
  creates,   \* createAndRegister under way
  tests,     \* the test of the reconnect tick and one on request
  queue,     \* errored names the tick has still to test
  calls,     \* callers, each with a tool
  poller,    \* of the stack: not decided, skipped, started
  moves      \* requests, tool calls and faults so far

process == <<phase, toBoot>>
store   == <<entry, file, failed>>
vars    == <<process, upstream, store, rebuild, creates, tests, queue, calls, poller, moves>>

Entry == [here : BOOLEAN,                  \* the name is in the map
          cfg : Choices,                   \* config.mcpServer.enabledTools
          enabled : Choices,               \* provider.enabledTools
          status : {"connected", "error"},
          counted : BOOLEAN,               \* toolCount > 0
          query : BOOLEAN,                 \* toolNames has a metric query tool
          session : Sessions]              \* of the client

Absent == [here |-> FALSE, cfg |-> "unset", enabled |-> "unset", status |-> "error",
           counted |-> FALSE, query |-> FALSE, session |-> "refused"]

NoTask == [kind |-> "none", name |-> "none", old |-> "none", cfg |-> "unset",
           pc |-> "probe", tools |-> FALSE, enabled |-> "unset", session |-> "live"]
NoTest == [pc |-> "idle", name |-> "none", waiting |-> FALSE]
NoCall == [pc |-> "idle", name |-> "none", held |-> FALSE, waiting |-> FALSE,
           write |-> FALSE, bound |-> FALSE, done |-> 0]

Forgotten ==
  /\ entry = [n \in Names |-> Absent] /\ rebuild = [n \in Names |-> "none"]
  /\ toBoot = {} /\ creates = [k \in Tasks |-> NoTask]
  /\ tests = [t \in Clocks |-> NoTest] /\ queue = {}
  /\ calls = [c \in Callers |-> NoCall] /\ poller = "none" /\ failed = {}

\* The process ends: what it held in memory is gone.
Forgets ==
  /\ phase' = "off"
  /\ entry' = [n \in Names |-> Absent] /\ rebuild' = [n \in Names |-> "none"]
  /\ toBoot' = {} /\ creates' = [k \in Tasks |-> NoTask]
  /\ tests' = [t \in Clocks |-> NoTest] /\ queue' = {}
  /\ calls' = [c \in Callers |-> NoCall] /\ poller' = "none" /\ failed' = {}
  /\ UNCHANGED <<upstream, file>>

Init ==
  /\ phase = "off" /\ moves = 0 /\ upstream \in [Names -> {"up", "down"}]
  /\ file \in [Names \ System -> {"absent", "unset"}]
  /\ Forgotten

-----------------------------------------------------------------------------
(* Pieces.                                                                 *)

\* hasViableMetricsProvider on given entries.
Viable(entries) ==
  \E n \in Names : /\ entries[n].here /\ entries[n].status = "connected"
                   /\ entries[n].counted /\ entries[n].query

\* emit, and the listener of StackManager: maybeStartSkippedPoller.
Emit == poller' = IF poller = "skipped" /\ Viable(entry') THEN "started" ELSE poller

\* Mutant: an update is announced before its entry is back.
AnnouncedEarly(kind) == IF kind # "add" THEN UNCHANGED poller ELSE Emit

\* add and update emit, initialize has no listener yet.
Announced(kind) == IF kind = "boot" THEN UNCHANGED poller ELSE Emit

\* saveGuiProviders: what is not in the registry leaves the file.
Saved ==
  /\ file' = [n \in Names \ System |-> IF entry'[n].here THEN entry'[n].cfg ELSE "absent"]
  /\ failed' = {}

Astray(t) == tests[t].pc = "astray"

\* The tasks that hold the entry of n hold what is no longer in the registry.
Orphan(n) ==
  /\ tests' = [t \in Clocks |->
       IF tests[t].name = n THEN [tests[t] EXCEPT !.pc = "astray"] ELSE tests[t]]
  /\ calls' = [c \in Callers |->
       IF calls[c].name = n THEN [calls[c] EXCEPT !.held = FALSE, !.bound = FALSE] ELSE calls[c]]
  /\ rebuild' = [rebuild EXCEPT ![n] = IF @ = "none" THEN @ ELSE "orphan"]

\* What a listing over a session of n may come to.
ListsOver(n, session) ==
  IF upstream[n] = "down" THEN {"empty", "refused", "broken"}
  ELSE CASE session = "live"    -> {"tools"}
         [] session = "silent"  -> {"empty"}
         [] session = "refused" -> {"refused"}

\* The same for the entry in the registry, or for one that left it.
Lists(n, held) ==
  IF held THEN ListsOver(n, entry[n].session) ELSE {"tools", "empty", "refused", "broken"}

\* rebuildClient up to its first await: one rebuild at a time under a name.  The
\* tools bound to the client are cut off when it is disconnected.
AskRebuild(n, held, callers) ==
  LET begins == held /\ rebuild[n] = "none"
  IN  /\ rebuild' = [rebuild EXCEPT ![n] = IF @ # "none" THEN @ ELSE IF held THEN "entry" ELSE "orphan"]
      /\ entry' = IF begins THEN [entry EXCEPT ![n].session = "refused"] ELSE entry
      /\ calls' = IF begins
                  THEN [c \in Callers |-> IF callers[c].name = n /\ callers[c].held
                                          THEN [callers[c] EXCEPT !.bound = FALSE] ELSE callers[c]]
                  ELSE callers

\* The rebuild is done: there is a new client, whoever waited goes on.
Rebuilt(n) ==
  /\ rebuild[n] # "none"
  /\ rebuild' = [rebuild EXCEPT ![n] = "none"]
  /\ entry' = IF rebuild[n] = "entry" THEN [entry EXCEPT ![n].session = "live"] ELSE entry
  /\ tests' = [t \in Clocks |->
       IF tests[t].name = n THEN [tests[t] EXCEPT !.waiting = FALSE] ELSE tests[t]]
  /\ calls' = [c \in Callers |->
       IF calls[c].name = n THEN [calls[c] EXCEPT !.waiting = FALSE] ELSE calls[c]]
  /\ UNCHANGED <<process, upstream, file, failed, creates, queue, poller>>

-----------------------------------------------------------------------------
(* createAndRegister: boot, add and update.                                *)

Begun(kind, n, old, cfg) ==
  [NoTask EXCEPT !.kind = kind, !.name = n, !.old = old, !.cfg = cfg, !.enabled = cfg]

Add(k, n, cfg) ==
  /\ phase = "serving" /\ creates[k] = NoTask /\ ~entry[n].here
  /\ creates' = [creates EXCEPT ![k] = Begun("add", n, n, cfg)]
  /\ UNCHANGED <<process, upstream, store, rebuild, tests, queue, calls, poller>>

\* The entry is taken out before the new one is tried; a new name must be free.
Update(k, old, n, cfg) ==
  /\ phase = "serving" /\ creates[k] = NoTask
  /\ entry[old].here /\ old \notin System /\ (n # old => ~entry[n].here)
  /\ creates' = [creates EXCEPT ![k] = Begun("update", n, old, cfg)]
  /\ entry' = [entry EXCEPT ![old] = Absent]
  /\ Orphan(old)
  /\ UNCHANGED <<process, upstream, file, failed, queue, poller>>

\* initialize: one provider after the other, the file's unless config.yaml has the name.
BootNext(k) ==
  /\ phase = "booting" /\ \A j \in Tasks : creates[j] = NoTask
  /\ \E n \in toBoot :
       /\ (toBoot \cap System # {}) => n \in System
       /\ toBoot' = toBoot \ {n}
       /\ creates' = [creates EXCEPT ![k] =
            Begun("boot", n, n, IF n \in System THEN "unset" ELSE file[n])]
  /\ UNCHANGED <<phase, upstream, store, rebuild, tests, queue, calls, poller>>

\* The probes of the new client, each with its timeout, which may be too short.
Probe(k) ==
  /\ creates[k].kind # "none" /\ creates[k].pc = "probe"
  /\ \E found \in IF upstream[creates[k].name] = "down" THEN {FALSE} ELSE BOOLEAN :
       creates' = [creates EXCEPT ![k].tools = found,
         ![k].pc = IF found /\ creates[k].enabled = "unset" THEN "defaults" ELSE "uids"]
  /\ UNCHANGED <<process, upstream, store, rebuild, tests, queue, calls, poller>>

\* The listing that the default selection is computed from; an empty one selects nothing.
Defaults(k) ==
  /\ creates[k].kind # "none" /\ creates[k].pc = "defaults"
  /\ \E found \in ListsOver(creates[k].name, creates[k].session) \cap {"tools", "empty"} :
       creates' = [creates EXCEPT ![k].pc = "uids",
                     ![k].enabled = IF found = "tools" THEN "some" ELSE "none"]
  /\ UNCHANGED <<process, upstream, store, rebuild, tests, queue, calls, poller>>

\* That listing throws: the request is rejected, initialize ends the process.
DefaultsThrow(k) ==
  /\ creates[k].kind # "none" /\ creates[k].pc = "defaults"
  /\ ListsOver(creates[k].name, creates[k].session) \cap {"refused", "broken"} # {}
  /\ IF creates[k].kind = "boot"
     THEN Forgets
     ELSE /\ creates' = [creates EXCEPT ![k] = NoTask]
          /\ failed' = IF creates[k].kind = "update" THEN failed \cup {creates[k].old} ELSE failed
          /\ UNCHANGED <<process, upstream, entry, file, rebuild, tests, queue, calls, poller>>

\* The datasources are looked up, best effort; the entry is set, saved and announced.
Register(k) ==
  LET c == creates[k]
      e == [here |-> TRUE, cfg |-> c.cfg, enabled |-> c.enabled,
            status |-> IF c.tools THEN "connected" ELSE "error",
            counted |-> c.tools, query |-> c.tools /\ c.enabled # "none", session |-> c.session]
  IN  /\ c.kind # "none" /\ c.pc = "uids"
      /\ entry' = [entry EXCEPT ![c.name] = e]
      /\ IF c.kind = "boot" THEN UNCHANGED <<file, failed>> ELSE Saved
      /\ Announced(c.kind)
      /\ creates' = [creates EXCEPT ![k] = NoTask]
      /\ Orphan(c.name)
      /\ UNCHANGED <<process, upstream, queue>>

Remove(n) ==
  /\ phase = "serving" /\ entry[n].here /\ n \notin System
  /\ entry' = [entry EXCEPT ![n] = Absent]
  /\ Saved /\ Emit /\ Orphan(n)
  /\ UNCHANGED <<process, upstream, creates, queue>>

\* Mutant: only what runs is changed.
SelectedInMemory(n) == UNCHANGED <<file, failed>>

\* updateEnabledTools persists the choice unless the provider is a system one.
SelectedSaved(n) == IF n \in System THEN UNCHANGED <<file, failed>> ELSE Saved

Select(n, choice) ==
  /\ phase = "serving" /\ entry[n].here /\ choice # "unset"
  /\ entry' = [entry EXCEPT ![n].cfg = choice, ![n].enabled = choice]
  /\ SelectedSaved(n)
  /\ UNCHANGED <<process, upstream, rebuild, creates, tests, queue, calls, poller>>

-----------------------------------------------------------------------------
(* test: by the periodic reconnect, one errored name after the other, and  *)
(* by an operator.  Between two awaits it reads and writes the entry it    *)
(* took at its start.                                                      *)

Started(t, n) == tests' = [tests EXCEPT ![t] =
                   [pc |-> "list", name |-> n, waiting |-> FALSE]]

\* reconnectTick, unless the last one is still at work.
TickBegins ==
  /\ phase = "serving" /\ queue = {} /\ tests["tick"] = NoTest
  /\ queue' = {n \in Names : entry[n].here /\ entry[n].status = "error"}
  /\ queue' # {}
  /\ UNCHANGED <<process, upstream, store, rebuild, creates, tests, calls, poller>>

\* A name that left the registry makes test throw: the tick goes on.
TickNext ==
  /\ tests["tick"] = NoTest
  /\ \E n \in queue : /\ queue' = queue \ {n}
                      /\ IF entry[n].here THEN Started("tick", n) ELSE UNCHANGED tests
  /\ UNCHANGED <<process, upstream, store, rebuild, creates, calls, poller>>

TestOnRequest(n) ==
  /\ phase = "serving" /\ entry[n].here /\ tests["manual"] = NoTest
  /\ Started("manual", n)
  /\ UNCHANGED <<process, upstream, store, rebuild, creates, queue, calls, poller>>

At(t, pcs) == tests[t].pc \in pcs /\ ~tests[t].waiting
Goes(t, pc) == tests' = [tests EXCEPT ![t].pc = pc]

\* Every end of a test is announced.
Ends(t, e) ==
  /\ entry' = [entry EXCEPT ![tests[t].name] = e] /\ Emit
  /\ tests' = [tests EXCEPT ![t] = NoTest]
  /\ UNCHANGED <<process, upstream, file, failed, rebuild, creates, queue, calls>>

\* The catch of test.
Fails(t) == Ends(t, [entry[tests[t].name] EXCEPT !.status = "error"])

\* Mutant: the test gives up where it would rebuild the client.
RebuildsNever(t, pc) == Fails(t)

\* The client is rebuilt, and the test goes on at pc with the new one.
Rebuilds(t, pc) ==
  /\ AskRebuild(tests[t].name, ~Astray(t), calls)
  /\ tests' = [tests EXCEPT ![t].pc = pc, ![t].waiting = TRUE]
  /\ UNCHANGED <<process, upstream, file, failed, creates, queue, poller>>

\* The test goes on and has changed nothing.
Proceeds(t, pc) ==
  Goes(t, pc) /\ UNCHANGED <<process, upstream, store, rebuild, creates, queue, calls, poller>>

\* The entry is written on the way, without an announcement.
Notes(t, e, pc) ==
  /\ entry' = [entry EXCEPT ![tests[t].name] = e] /\ Goes(t, pc)
  /\ UNCHANGED <<process, upstream, file, failed, rebuild, creates, queue, calls, poller>>

\* The assignments after a whole listing with tools: no await between them.
Connected(t) ==
  LET e       == entry[tests[t].name]
      enabled == IF e.enabled = "none" THEN "none" ELSE "some"
  IN  Notes(t, [e EXCEPT !.status = "connected", !.enabled = enabled, !.counted = TRUE,
                         !.query = enabled = "some"], "check")

\* The filtered listing: the whole one is asked for when this one is empty or was filtered.
TestLists(t) ==
  /\ At(t, {"list", "list2"})
  /\ LET e == entry[tests[t].name]
     IN  \E answer \in Lists(tests[t].name, TRUE) :
           \/ answer = "refused" /\ tests[t].pc = "list" /\ Rebuilds(t, "list2")
           \/ answer = "refused" /\ tests[t].pc = "list2" /\ Fails(t)
           \/ answer = "broken" /\ Fails(t)
           \/ /\ answer = "empty" \/ (answer = "tools" /\ e.enabled # "unset")
              /\ Proceeds(t, "raw")
           \/ /\ answer = "tools" /\ e.enabled = "unset"
              /\ Notes(t, [e EXCEPT !.status = "connected", !.query = TRUE], "fresh")

\* The whole listing.
TestListsAll(t) ==
  /\ At(t, {"raw"})
  /\ \E answer \in Lists(tests[t].name, TRUE) :
       \/ answer = "tools" /\ Connected(t)
       \/ answer = "empty" /\ Rebuilds(t, "list3")
       \/ answer \in {"refused", "broken"} /\ Fails(t)

\* Both listings again, over the new client.
TestListsAgain(t) ==
  /\ At(t, {"list3", "list4"})
  /\ \E answer \in Lists(tests[t].name, TRUE) :
       \/ answer \in {"tools", "empty"} /\ Proceeds(t, "raw2")
       \/ answer = "refused" /\ tests[t].pc = "list3" /\ Rebuilds(t, "list4")
       \/ answer = "refused" /\ tests[t].pc = "list4" /\ Fails(t)
       \/ answer = "broken" /\ Fails(t)

TestListsAllAgain(t) ==
  /\ At(t, {"raw2"})
  /\ \E answer \in Lists(tests[t].name, TRUE) :
       \/ answer = "tools" /\ Connected(t)
       \/ answer = "empty" /\ Ends(t, [entry[tests[t].name] EXCEPT
              !.status = "error", !.counted = FALSE, !.query = FALSE])
       \/ answer \in {"refused", "broken"} /\ Fails(t)

\* The listing that a selection is computed from where there was none: one that comes
\* back empty selects nothing, and a choice of nothing made meanwhile is overwritten.
TestRefreshes(t) ==
  /\ At(t, {"fresh"})
  /\ \E answer \in Lists(tests[t].name, TRUE) :
       \/ answer \in {"refused", "broken"} /\ Fails(t)
       \/ /\ answer \in {"tools", "empty"}
          /\ Notes(t, [entry[tests[t].name] EXCEPT
                       !.enabled = IF answer = "tools" THEN "some" ELSE "none",
                       !.counted = answer = "tools", !.query = answer = "tools"], "check")

\* The datasource look-up, a last listing, and one light tool of it executed; without
\* a tool to execute the smoke test passes.
TestChecks(t) ==
  /\ At(t, {"check"})
  /\ LET answers == Lists(tests[t].name, TRUE)
     IN  \/ answers \cap {"tools", "empty"} # {} /\ Ends(t, entry[tests[t].name])
         \/ answers # {"tools"} /\ Fails(t)

\* The entry was taken out under the test: what it lists and writes is its own affair,
\* but it may rebuild a client under the name, and it announces its end.
AstrayRebuilds(t) == Astray(t) /\ ~tests[t].waiting /\ Rebuilds(t, "astray")
AstrayEnds(t)     == Astray(t) /\ ~tests[t].waiting /\ Ends(t, entry[tests[t].name])

-----------------------------------------------------------------------------
(* Tools in the hands of a caller: wrapToolExecute.                        *)

\* Mutant: any tool is replayed.
Replays(c) == TRUE

\* Only a read tool is called again.
MayRetry(c) == ~calls[c].write

\* A tool list of the registered provider; it stays with its holder (cached agents).
GetTools(c, n, write) ==
  /\ phase = "serving" /\ entry[n].here /\ entry[n].enabled # "none"
  /\ calls[c].pc \in {"idle", "ready"} /\ "tools" \in Lists(n, TRUE)
  /\ calls' = [calls EXCEPT ![c] = [NoCall EXCEPT !.pc = "ready", !.name = n, !.held = TRUE,
                                                  !.write = write, !.bound = TRUE]]
  /\ UNCHANGED <<process, upstream, store, rebuild, creates, tests, queue, poller>>

\* A new call of the tool held.
Call(c) ==
  /\ calls[c].pc = "ready"
  /\ calls' = [calls EXCEPT ![c].pc = "execute", ![c].done = 0]
  /\ UNCHANGED <<process, upstream, store, rebuild, creates, tests, queue, poller>>

\* Whether the client the tool is bound to still reaches its upstream.
Reaches(c) ==
  LET k == calls[c]
  IN  IF ~k.held THEN BOOLEAN
      ELSE {k.bound /\ entry[k.name].session = "live" /\ upstream[k.name] # "down"}

Over(c, n) == calls' = [calls EXCEPT ![c].pc = "ready", ![c].done = n]

\* The call is answered, with what it asked for or with an error of the tool.
Answered(c) ==
  /\ calls[c].pc = "execute" /\ TRUE \in Reaches(c)
  /\ Over(c, calls[c].done + 1)
  /\ UNCHANGED <<process, upstream, store, rebuild, creates, tests, queue, poller>>

\* The connection fails: before the upstream did the work, or before its answer came
\* back.  The reconnect hook rebuilds the client of whatever has the name now.
Refused(c) ==
  /\ calls[c].pc = "execute"
  /\ LET n == calls[c].name
     IN  \E landed \in IF TRUE \in Reaches(c) THEN BOOLEAN ELSE {FALSE} :
           LET after == [calls EXCEPT ![c].pc = "again", ![c].waiting = entry[n].here,
                           ![c].done = IF landed THEN @ + 1 ELSE @]
           IN  IF entry[n].here
               THEN AskRebuild(n, TRUE, after) /\ UNCHANGED <<file, failed>>
               ELSE calls' = after /\ UNCHANGED <<rebuild, store>>
  /\ UNCHANGED <<process, upstream, creates, tests, queue, poller>>

\* After the rebuild a write tool hands its error on; a read tool is listed again and
\* called once more, with an error handed on as well.  The holder keeps the old tool.
CallAgain(c) ==
  /\ calls[c].pc = "again" /\ ~calls[c].waiting
  /\ \/ Over(c, calls[c].done)
     \/ /\ MayRetry(c) /\ "tools" \in Lists(calls[c].name, calls[c].held)
        /\ Over(c, calls[c].done + 1)
  /\ UNCHANGED <<process, upstream, store, rebuild, creates, tests, queue, poller>>

-----------------------------------------------------------------------------
(* The process and its stack.                                              *)

Boot ==
  /\ phase = "off" /\ phase' = "booting"
  /\ toBoot' = System \cup {n \in Names \ System : file[n] # "absent"}
  /\ UNCHANGED <<upstream, store, rebuild, creates, tests, queue, calls, poller>>

\* initialize returns: requests are served and the periodic reconnect starts.
BootDone ==
  /\ phase = "booting" /\ toBoot = {} /\ \A k \in Tasks : creates[k] = NoTask
  /\ phase' = "serving"
  /\ UNCHANGED <<toBoot, upstream, store, rebuild, creates, tests, queue, calls, poller>>

\* startAllPollers: the health poller starts, or its start is left to the listener.
StartAllPollers ==
  /\ phase = "serving" /\ poller = "none"
  /\ poller' = IF Viable(entry) THEN "started" ELSE "skipped"
  /\ UNCHANGED <<process, upstream, store, rebuild, creates, tests, queue, calls>>

Crash == phase # "off" /\ Forgets

\* An upstream that goes down loses its sessions.
UpstreamChanges(n) ==
  /\ upstream' = [upstream EXCEPT ![n] = IF @ = "up" THEN "down" ELSE "up"]
  /\ IF upstream[n] = "up"
     THEN \E lost \in {"silent", "refused"} :
            /\ entry' = IF entry[n].here THEN [entry EXCEPT ![n].session = lost] ELSE entry
            /\ creates' = [k \in Tasks |-> IF creates[k].name = n
                              THEN [creates[k] EXCEPT !.session = lost] ELSE creates[k]]
     ELSE UNCHANGED <<entry, creates>>
  /\ UNCHANGED <<process, file, failed, rebuild, tests, queue, calls, poller>>

-----------------------------------------------------------------------------

TestStep(t) == TestLists(t) \/ TestListsAll(t) \/ TestListsAgain(t)
               \/ TestListsAllAgain(t) \/ TestRefreshes(t) \/ TestChecks(t)

\* What comes from outside: operators, callers, upstreams, the end of the process.
Move ==
  \/ Crash
  \/ \E n \in Names :
       \/ UpstreamChanges(n) \/ TestOnRequest(n) \/ Remove(n)
       \/ \E choice \in Choices : Select(n, choice)
  \/ \E k \in Tasks, n \in Names \ System, cfg \in Choices :
       \/ Add(k, n, cfg)
       \/ \E old \in Names \ System : Update(k, old, n, cfg)
  \/ \E c \in Callers :
       \/ Call(c)
       \/ \E n \in Names, write \in BOOLEAN : GetTools(c, n, write)

\* What goes on by itself.
Work ==
  \/ Boot \/ BootDone \/ StartAllPollers
  \/ TickBegins \/ TickNext
  \/ \E n \in Names : Rebuilt(n)
  \/ \E k \in Tasks :
       BootNext(k) \/ Probe(k) \/ Defaults(k) \/ DefaultsThrow(k) \/ Register(k)
  \/ \E t \in Clocks : TestStep(t) \/ AstrayRebuilds(t) \/ AstrayEnds(t)
  \/ \E c \in Callers : Answered(c) \/ Refused(c) \/ CallAgain(c)

Next ==
  \/ Move /\ moves < MaxMoves /\ moves' = moves + 1
  \/ Work /\ UNCHANGED moves

\* The reconnect interval runs on, and what is awaited comes back, with an answer or
\* an error; a test that went astray rebuilds a client thrice at most, so it ends.
\* Calls, requests and the upstream are free.
Fairness ==
  /\ WF_vars(TickBegins /\ UNCHANGED moves) /\ WF_vars(TickNext /\ UNCHANGED moves)
  /\ \A n \in Names : WF_vars(Rebuilt(n) /\ UNCHANGED moves)
  /\ \A t \in Clocks : WF_vars(TestStep(t) /\ UNCHANGED moves)
                      /\ SF_vars(AstrayEnds(t) /\ UNCHANGED moves)

Spec == Init /\ [][Next]_vars /\ Fairness

-----------------------------------------------------------------------------

TypeOK ==
  /\ phase \in {"off", "booting", "serving"} /\ toBoot \subseteq Names
  /\ upstream \in [Names -> {"up", "down"}] /\ entry \in [Names -> Entry]
  /\ file \in [Names \ System -> Choices \cup {"absent"}] /\ failed \subseteq Names \ System
  /\ rebuild \in [Names -> {"none", "entry", "orphan"}] /\ queue \subseteq Names
  /\ poller \in {"none", "skipped", "started"} /\ moves \in 0..MaxMoves

\* A tool that writes is executed at most once per call, whatever the connection did:
\* "Write tools never auto-retry", as the first call may have landed; a read tool at
\* most twice (wrapToolExecute).
WriteAtMostOnce ==
  \A c \in Callers : calls[c].done <= IF calls[c].write THEN 1 ELSE 2

\* A health poller that was not started for want of a viable metrics provider is
\* started as soon as there is one, whichever operation made it viable: only a test
\* that has yet to announce its end comes between (maybeStartSkippedPoller).
NoMissedStart ==
  poller = "skipped" /\ Viable(entry) =>
    \E t \in Clocks : tests[t].pc \in {"fresh", "check"}

\* providers.yaml has the GUI providers of the registry with the choices made for
\* them, never a selection computed from what an upstream offered; it names another
\* one only while that one is being updated or after its update was rejected.
FileAgrees ==
  phase = "serving" => \A n \in Names \ System :
    IF entry[n].here THEN file[n] = entry[n].cfg
    ELSE file[n] # "absent" =>
           n \in failed \/ \E k \in Tasks : creates[k].kind = "update" /\ creates[k].old = n

\* An upstream that restarts needs no restart of this process: once it stays up, and
\* callers and operators let its provider be, the periodic reconnect makes the
\* provider connected for good (reconnectTick, test, rebuildClient).
SelfHeals ==
  \A n \in Names :
    <>[](/\ phase = "serving" /\ entry[n].here /\ upstream[n] = "up"
         /\ tests["manual"].name # n /\ \A c \in Callers : calls[c].name # n
         /\ \A k \in Tasks : creates[k].name # n)
      => <>[](entry[n].status = "connected")
=============================================================================
