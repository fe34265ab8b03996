--------------------------- MODULE Investigations ---------------------------
(***************************************************************************)
(* Who may start an investigation: the shared guard InvestigationDedup     *)
(* (src/server/investigation-dedup.ts), the dispatchers that go through it *)
(* (index.ts, webhook-handler.ts, ws-handler.ts), the runner's row in the  *)
(* investigations table (investigation-runner.ts, db.ts) and what a        *)
(* restart of the server leaves of all that.                               *)
(*                                                                         *)
(* The detectors check and mark in one synchronous step and build their    *)
(* agents afterwards; a re-run checks, waits for its agents, then marks;   *)
(* an investigation that the chat starts asks nobody.  One stack.          *)
(***************************************************************************)
EXTENDS Integers, Sequences, FiniteSets

CONSTANTS
  Services,
  MaxConcurrent,  \* webhook.maxConcurrent
  Window,         \* webhook.dedupWindowSeconds
  Cooldown,       \* RERUN_COOLDOWN_MS
  MaxJobs,        \* model bound: investigations that are asked for
  MaxTime         \* model bound: the clock

ASSUME InvestigationsAssumption ==
  /\ {MaxConcurrent, Window, Cooldown, MaxJobs, MaxTime} \subseteq Nat
  /\ MaxConcurrent > 0

Never == -1
Times == 0..MaxTime

VARIABLES
  up,       \* the server process is running
  now,
  recent,   \* recentInvestigations: when a service was last marked
  reruns,   \* lastRerunAt
  active,   \* activeCount
  jobs,     \* investigations asked for, in this order
  rows      \* the investigations table: the row of each job, once it has one

vars == <<up, now, recent, reruns, active, jobs, rows>>

Job == [by : {"alert", "detector", "rerun", "chat"},
        service : Services,
        phase : {"asked",       \* a re-run that waits for its agents, not yet marked
                 "building",    \* marked, its agents are being built
                 "running",     \* inside runner.run
                 "stranded",    \* marked, and nobody is left to return the slot
                 "over"},
        marked : Times \cup {Never}]   \* when markStarted was called for it

Row == [status : {"running", "complete", "failed", "none"}, created : Times \cup {Never}]

NoRow   == [status |-> "none", created |-> Never]
Jobs    == DOMAIN jobs
Holding == {j \in Jobs : jobs[j].phase \in {"building", "running"} /\ jobs[j].by # "chat"}

\* Scan hits whose link to the run failed.
Stranded == {j \in Jobs : jobs[j].phase = "stranded"}

NoTimes == [s \in Services |-> Never]

Init ==
  /\ up = TRUE /\ now = 0
  /\ recent = NoTimes /\ reruns = NoTimes /\ active = 0
  /\ jobs = <<>> /\ rows = <<>>

-----------------------------------------------------------------------------
(* The guard.                                                              *)

\* An entry that cleanExpiredEntries has not removed.
Remembered(s) == recent[s] # Never /\ now - recent[s] <= Window

\* Mutant: one investigation too many.
BelowOffByOne == active <= MaxConcurrent

\* "Concurrency limit always applies"
Below == active < MaxConcurrent

\* Mutant: the fallback only knows investigations that completed.
RowRecentIfComplete(s) == \E j \in Jobs :
  jobs[j].service = s /\ rows[j].status = "complete" /\ now - rows[j].created < Window

\* hasRecentInvestigation: any row, whatever became of it.
RowRecent(s) == \E j \in Jobs :
  jobs[j].service = s /\ rows[j].status # "none" /\ now - rows[j].created < Window

\* shouldInvestigate without force
Allowed(s) ==
  /\ Below
  /\ Remembered(s) => now - recent[s] >= Window
  /\ ~Remembered(s) /\ Window > 0 => ~RowRecent(s)

\* shouldInvestigate with force
AllowedAgain(s) == Below /\ (reruns[s] # Never => now - reruns[s] >= Cooldown)

\* markStarted
Mark(s) == recent' = [recent EXCEPT ![s] = now] /\ active' = active + 1

\* Mutant: a failed investigation keeps its slot.
ReleaseIfComplete(j, status) ==
  active' = IF jobs[j].by # "chat" /\ status = "complete" THEN active - 1 ELSE active

\* markCompleted, in the finally of everyone who marked.
Release(j, status) ==
  active' = IF jobs[j].by # "chat" THEN (IF active > 0 THEN active - 1 ELSE 0) ELSE active

-----------------------------------------------------------------------------
(* Dispatchers.                                                            *)

NewJob(by, s, phase) ==
  [by |-> by, service |-> s, phase |-> phase,
   marked |-> IF phase = "asked" THEN Never ELSE now]

\* createInvestigation
NewRow == [status |-> "running", created |-> now]

\* processFiringAlert: the runner exists, its row is written at once.
Alert(s) ==
  /\ up /\ Len(jobs) < MaxJobs /\ Allowed(s)
  /\ Mark(s)
  /\ jobs' = Append(jobs, NewJob("alert", s, "running"))
  /\ rows' = Append(rows, NewRow)
  /\ UNCHANGED <<up, now, reruns>>

\* onHealthTransition, onK8sEvent and, for each hit, onScanAnomalies: the agents are
\* built after the slot was taken.  A scan hit is linked to its run before that; when
\* this throws, nobody is left to return the slot.
Detected(s) ==
  /\ up /\ Len(jobs) < MaxJobs /\ Allowed(s)
  /\ Mark(s)
  /\ rows' = Append(rows, NoRow)
  /\ \E phase \in {"building", "stranded"} : jobs' = Append(jobs, NewJob("detector", s, phase))
  /\ UNCHANGED <<up, now, reruns>>

\* createMastraAdapters of a detector settles.
AgentsBuilt(j) ==
  /\ up /\ j \in Jobs /\ jobs[j].phase = "building"
  /\ \/ /\ jobs' = [jobs EXCEPT ![j].phase = "running"]
        /\ rows' = [rows EXCEPT ![j] = NewRow]
        /\ UNCHANGED active
     \/ /\ jobs' = [jobs EXCEPT ![j].phase = "over"]
        /\ Release(j, "failed")
        /\ UNCHANGED rows
  /\ UNCHANGED <<up, now, recent, reruns>>

\* handleRerun up to its await, for an investigation that is in the table.
Rerun(s) ==
  /\ up /\ Len(jobs) < MaxJobs
  /\ \E j \in Jobs : jobs[j].service = s /\ rows[j].status # "none"
  /\ AllowedAgain(s)
  /\ jobs' = Append(jobs, NewJob("rerun", s, "asked"))
  /\ rows' = Append(rows, NoRow)
  /\ UNCHANGED <<up, now, recent, reruns, active>>

\* getOrCreateAgents of a re-run settles, or the time in which a dispatch of the chat
\* can be cancelled is over: the re-run is marked without asking again.
AgentsFound(j) ==
  /\ up /\ j \in Jobs /\ jobs[j].phase = "asked"
  /\ \/ jobs' = [jobs EXCEPT ![j].phase = "over"] /\ UNCHANGED <<recent, reruns, active, rows>>
     \/ /\ rows' = [rows EXCEPT ![j] = NewRow]
        /\ IF jobs[j].by = "rerun"
           THEN LET s == jobs[j].service
                IN  /\ jobs' = [jobs EXCEPT ![j].phase = "running", ![j].marked = now]
                    /\ Mark(s)
                    /\ reruns' = [reruns EXCEPT ![s] = now]
           ELSE jobs' = [jobs EXCEPT ![j].phase = "running"] /\ UNCHANGED <<recent, reruns, active>>
  /\ UNCHANGED <<up, now>>

\* A chat message that asks for an investigation; until it runs it may be cancelled.
Chat(s) ==
  /\ up /\ Len(jobs) < MaxJobs
  /\ jobs' = Append(jobs, NewJob("chat", s, "asked"))
  /\ rows' = Append(rows, NoRow)
  /\ UNCHANGED <<up, now, recent, reruns, active>>

\* runner.run settles; its row is terminal before its caller's finally runs.
Settles(j) ==
  /\ up /\ j \in Jobs /\ jobs[j].phase = "running"
  /\ \E status \in {"complete", "failed"} :
       /\ rows' = [rows EXCEPT ![j].status = status]
       /\ Release(j, status)
  /\ jobs' = [jobs EXCEPT ![j].phase = "over"]
  /\ UNCHANGED <<up, now, recent, reruns>>

-----------------------------------------------------------------------------
(* Restarts and time.                                                      *)

\* The process ends; what lived in memory is gone.
Crash ==
  /\ up /\ up' = FALSE
  /\ jobs' = [j \in Jobs |-> [jobs[j] EXCEPT !.phase = "over"]]
  /\ recent' = NoTimes /\ reruns' = NoTimes /\ active' = 0
  /\ UNCHANGED <<now, rows>>

\* Mutant: only rows that have been running for a while are closed.
SweptIfOld(row) ==
  IF row.status = "running" /\ now - row.created > 0 THEN [row EXCEPT !.status = "failed"] ELSE row

\* markStaleInvestigations(0)
Swept(row) == IF row.status = "running" THEN [row EXCEPT !.status = "failed"] ELSE row

\* The server comes up; no run can be alive.
Boot ==
  /\ ~up /\ up' = TRUE
  /\ rows' = [j \in Jobs |-> Swept(rows[j])]
  /\ UNCHANGED <<now, recent, reruns, active, jobs>>

\* Time passes.
Tick == now < MaxTime /\ now' = now + 1 /\ UNCHANGED <<up, recent, reruns, active, jobs, rows>>

JobStep(j) == AgentsBuilt(j) \/ AgentsFound(j) \/ Settles(j)

Next ==
  \/ \E s \in Services : Alert(s) \/ Detected(s) \/ Rerun(s) \/ Chat(s)
  \/ \E j \in 1..MaxJobs : JobStep(j)
  \/ Crash \/ Boot \/ Tick

Spec == Init /\ [][Next]_vars

-----------------------------------------------------------------------------
(* Properties.                                                             *)

TypeOK ==
  /\ up \in BOOLEAN /\ now \in Times
  /\ recent \in [Services -> Times \cup {Never}]
  /\ reruns \in [Services -> Times \cup {Never}]
  /\ active \in 0..MaxJobs
  /\ jobs \in Seq(Job) /\ rows \in Seq(Row)
  /\ Len(rows) = Len(jobs) /\ Len(jobs) <= MaxJobs

\* "Always call this in a finally block": the active count is the number of
\* investigations that hold a slot, whatever failed on their way.  Only the slot of a
\* scan hit that could not be linked to its run is lost until the next restart.
CountIsHonest == active = Cardinality(Holding) + Cardinality(Stranded)

\* Alerts and detectors together never run more than the limit, also when re-runs
\* come in between.
AutomaticLimit ==
  Cardinality({j \in Holding : jobs[j].by \in {"alert", "detector"}}) <= MaxConcurrent

\* A service that alert, detector or re-run began to investigate less than a window
\* ago is not investigated by alert or detector, also when the server was restarted
\* in between, unless it died before the earlier one was on record.
OncePerWindow ==
  [][\A k \in DOMAIN jobs' \ Jobs :
       jobs'[k].by \in {"alert", "detector"} =>
         \A j \in Jobs :
           \/ jobs[j].service # jobs'[k].service \/ jobs[j].marked = Never
           \/ now - jobs[j].marked >= Window
           \/ jobs[j].phase = "over" /\ rows[j].status = "none"]_vars

\* "at startup none can still be alive": while the server is up, the rows that read
\* running are those of the runs that are under way.
RowsFollowRuns ==
  up => \A j \in Jobs : rows[j].status = "running" <=> jobs[j].phase = "running"

=============================================================================
