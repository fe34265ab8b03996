------------------------- MODULE Investigations_proofs -------------------------
(***************************************************************************)
(* Proofs about Investigations, for every set of services, every limit,    *)
(* window and cooldown and any number of investigations.                   *)
(*                                                                         *)
(* None of the properties is inductive: what a row may read depends on how *)
(* far its job is (Fate), a slot is only returned by who took it (Asker),  *)
(* and that the guard refuses what is recent needs its memory or the table *)
(* to be at least as young as every mark (Memory).                         *)
(***************************************************************************)
EXTENDS Investigations, FiniteSetTheorems, SequenceTheorems, TLAPS

\* How far a job is decides what its row may read, while the server is up or down.
Fate(job, row, isUp) ==
  /\ job.phase \in {"asked", "building", "stranded"} => row.status = "none"
  /\ job.phase = "running" => row.status = "running"
  /\ job.phase = "over" => ~isUp \/ row.status # "running"
  /\ ~isUp => job.phase = "over"

\* Who may be in which phase.
Asker(job) ==
  /\ job.phase \in {"building", "stranded"} => job.by = "detector"
  /\ job.phase = "asked" => job.by \in {"rerun", "chat"} /\ job.marked = Never

\* The guard's memory of the service, where it has one, and the row are as young as
\* the job's mark; a marked job that waits for its row is remembered.
Memory(job, row, time, known) ==
  job.marked # Never =>
    /\ job.marked <= time
    /\ known # Never => job.marked <= known
    /\ job.phase \in {"building", "stranded"} => known # Never
    /\ row.status # "none" => job.marked <= row.created

Told(job, row, isUp, time, known) ==
  Fate(job, row, isUp) /\ Asker(job) /\ Memory(job, row, time, known)

\* TypeOK but for the bound on the active count, which the honest count gives.
Shape ==
  /\ up \in BOOLEAN /\ now \in Times
  /\ recent \in [Services -> Times \cup {Never}]
  /\ reruns \in [Services -> Times \cup {Never}]
  /\ jobs \in Seq(Job) /\ rows \in Seq(Row)
  /\ Len(rows) = Len(jobs) /\ Len(jobs) <= MaxJobs

\* What the guard knows of a service is kept, or is from now on.
Remembering ==
  /\ now' \in Int /\ now' >= now
  /\ \A s \in Services :
       recent'[s] \in {recent[s], now} /\ (recent[s] # Never => recent'[s] # Never)

Automatic == {j \in Holding : jobs[j].by \in {"alert", "detector"}}

Story ==
  Shape /\ \A j \in Jobs : Told(jobs[j], rows[j], up, now, recent[jobs[j].service])
Slots == CountIsHonest /\ AutomaticLimit
IInv  == Story /\ Slots

-----------------------------------------------------------------------------
(* Counting.                                                               *)

\* Two disjoint sets of positions of a sequence of length n.
LEMMA SlotsFit ==
  ASSUME NEW n \in Nat, NEW S \in SUBSET (1..n), NEW T \in SUBSET (1..n), S \cap T = {}
  PROVE  /\ IsFiniteSet(S) /\ IsFiniteSet(T)
         /\ Cardinality(S) \in Nat /\ Cardinality(T) \in Nat
         /\ Cardinality(S) + Cardinality(T) <= n
  <1>1. IsFiniteSet(1..n) /\ Cardinality(1..n) = n
    BY FS_Interval
  <1>2. IsFiniteSet(S) /\ IsFiniteSet(T) /\ Cardinality(S) \in Nat /\ Cardinality(T) \in Nat
    BY <1>1, FS_Subset, FS_CardinalityType
  <1>3. Cardinality(S \cup T) = Cardinality(S) + Cardinality(T) - Cardinality(S \cap T)
    BY <1>2, FS_Union
  <1>4. Cardinality(S \cap T) = 0
    BY FS_EmptySet
  <1>5. Cardinality(S \cup T) <= n
    <2>1. S \cup T \in SUBSET (1..n)
      OBVIOUS
    <2> QED
      BY <2>1, <1>1, FS_Subset
  <1> QED
    BY <1>2, <1>3, <1>4, <1>5

\* What the counts range over.
LEMMA SlotCounts ==
  Shape => /\ IsFiniteSet(Holding) /\ IsFiniteSet(Stranded) /\ IsFiniteSet(Automatic)
           /\ Cardinality(Holding) \in Nat /\ Cardinality(Stranded) \in Nat
           /\ Cardinality(Automatic) \in Nat /\ Cardinality(Automatic) <= Cardinality(Holding)
           /\ Cardinality(Holding) + Cardinality(Stranded) <= Len(jobs)
  <1> SUFFICES ASSUME Shape
               PROVE  /\ IsFiniteSet(Holding) /\ IsFiniteSet(Stranded) /\ IsFiniteSet(Automatic)
                      /\ Cardinality(Holding) \in Nat /\ Cardinality(Stranded) \in Nat
                      /\ Cardinality(Automatic) \in Nat
                      /\ Cardinality(Automatic) <= Cardinality(Holding)
                      /\ Cardinality(Holding) + Cardinality(Stranded) <= Len(jobs)
    OBVIOUS
  <1>1. /\ Len(jobs) \in Nat /\ Holding \in SUBSET (1..Len(jobs))
        /\ Stranded \in SUBSET (1..Len(jobs)) /\ Holding \cap Stranded = {}
    BY DEF Shape, Holding, Stranded, Jobs
  <1>2. Automatic \in SUBSET Holding
    BY DEF Automatic
  <1>3. /\ IsFiniteSet(Holding) /\ IsFiniteSet(Stranded)
        /\ Cardinality(Holding) \in Nat /\ Cardinality(Stranded) \in Nat
        /\ Cardinality(Holding) + Cardinality(Stranded) <= Len(jobs)
    BY <1>1, SlotsFit
  <1> QED
    BY <1>2, <1>3, FS_Subset, FS_CardinalityType

\* The invariant carries the type of the active count.
LEMMA InvariantType == IInv => TypeOK
  <1> SUFFICES ASSUME IInv PROVE active \in 0..MaxJobs
    BY DEF IInv, Story, Shape, TypeOK
  <1>1. Shape /\ CountIsHonest
    BY DEF IInv, Story, Slots
  <1> QED
    BY <1>1, SlotCounts, InvestigationsAssumption DEF Shape, CountIsHonest

\* A slot is taken: by a detector or an alert below the limit, or by a re-run, which
\* the limit for the automatic ones does not count.
LEMMA SlotTaken ==
  ASSUME Shape, Slots, NEW k, k \notin Holding, k \notin Stranded,
         \/ Holding' = Holding \cup {k} /\ Stranded' = Stranded
         \/ Holding' = Holding /\ Stranded' = Stranded \cup {k},
         Automatic' = Automatic \/ (Below /\ Automatic' \subseteq Automatic \cup {k}),
         active' = active + 1
  PROVE  Slots'
  <1>0. /\ IsFiniteSet(Holding) /\ IsFiniteSet(Stranded) /\ IsFiniteSet(Automatic)
        /\ Cardinality(Holding) \in Nat /\ Cardinality(Stranded) \in Nat
    BY SlotCounts
  <1>1. CountIsHonest'
    <2>1. /\ Cardinality(Holding \cup {k}) = Cardinality(Holding) + 1
          /\ Cardinality(Stranded \cup {k}) = Cardinality(Stranded) + 1
      BY <1>0, FS_AddElement
    <2>2. active = Cardinality(Holding) + Cardinality(Stranded)
      BY DEF Slots, CountIsHonest
    <2>3. active' = Cardinality(Holding') + Cardinality(Stranded')
      BY <1>0, <2>1, <2>2
    <2> QED
      BY <2>3 DEF CountIsHonest
  <1>2. Cardinality(Automatic') <= MaxConcurrent
    <2>1. CASE Automatic' = Automatic
      BY <2>1 DEF Slots, AutomaticLimit, Automatic
    <2>2. CASE Below /\ Automatic' \subseteq Automatic \cup {k}
      <3>1. IsFiniteSet(Automatic \cup {k}) /\ Cardinality(Automatic \cup {k}) <= Cardinality(Automatic) + 1
        <4>1. \/ Cardinality(Automatic \cup {k}) = Cardinality(Automatic)
              \/ Cardinality(Automatic \cup {k}) = Cardinality(Automatic) + 1
          BY <1>0, FS_AddElement
        <4> QED
          BY <4>1, <1>0, SlotCounts, FS_AddElement
      <3>2. Cardinality(Automatic') <= Cardinality(Automatic \cup {k})
        BY <2>2, <3>1, FS_Subset
      <3>3. Cardinality(Automatic') \in Nat /\ Cardinality(Automatic \cup {k}) \in Nat
        BY <2>2, <3>1, FS_Subset, FS_CardinalityType
      <3>4. Cardinality(Automatic) < MaxConcurrent
        BY <2>2, SlotCounts, InvestigationsAssumption DEF Slots, CountIsHonest, Below
      <3> QED
        BY <3>1, <3>2, <3>3, <3>4, SlotCounts, InvestigationsAssumption
    <2> QED
      BY <2>1, <2>2
  <1> QED
    BY <1>1, <1>2 DEF Slots, AutomaticLimit, Automatic

\* A slot is returned by one who held it.
LEMMA SlotReturned ==
  ASSUME Shape, Slots, NEW j \in Holding,
         Holding' = Holding \ {j}, Stranded' = Stranded, Automatic' \subseteq Automatic,
         active' = IF active > 0 THEN active - 1 ELSE 0
  PROVE  Slots'
  <1>1. Cardinality(Holding') = Cardinality(Holding) - 1 /\ Cardinality(Holding) > 0
    <2>1. IsFiniteSet(Holding) /\ Cardinality(Holding) \in Nat
      BY SlotCounts
    <2>2. Cardinality(Holding \ {j}) = Cardinality(Holding) - 1
      BY <2>1, FS_RemoveElement
    <2>3. Cardinality(Holding) # 0
      BY <2>1, FS_EmptySet
    <2> QED
      BY <2>1, <2>2, <2>3
  <1>2. CountIsHonest'
    BY <1>1, SlotCounts DEF Slots, CountIsHonest
  <1>3. Cardinality(Automatic') <= Cardinality(Automatic) /\ Cardinality(Automatic') \in Nat
    BY SlotCounts, FS_Subset, FS_CardinalityType
  <1>4. Cardinality(Automatic) <= MaxConcurrent
    BY DEF Slots, AutomaticLimit, Automatic
  <1>5. Cardinality(Automatic') <= MaxConcurrent
    BY <1>3, <1>4, SlotCounts, InvestigationsAssumption
  <1> QED
    BY <1>2, <1>5 DEF Slots, AutomaticLimit, Automatic

LEMMA SlotsKept ==
  ASSUME Slots, Holding' = Holding, Stranded' = Stranded, Automatic' = Automatic, active' = active
  PROVE  Slots'
  BY DEF Slots, CountIsHonest, AutomaticLimit, Automatic

-----------------------------------------------------------------------------
(* What the actions do to jobs and rows.                                   *)

\* A job joins at the end, with its row.
LEMMA Joined ==
  ASSUME Shape, Len(jobs) < MaxJobs, NEW job \in Job, NEW row \in Row,
         jobs' = Append(jobs, job), rows' = Append(rows, row)
  PROVE  /\ jobs' \in Seq(Job) /\ rows' \in Seq(Row)
         /\ Len(rows') = Len(jobs') /\ Len(jobs') <= MaxJobs
         /\ \E k \in Nat : /\ Jobs' = Jobs \cup {k} /\ k \notin Jobs
                           /\ jobs'[k] = job /\ rows'[k] = row
         /\ \A j \in Jobs : jobs'[j] = jobs[j] /\ rows'[j] = rows[j]
  <1> DEFINE k == Len(jobs) + 1
  <1>1. /\ jobs' \in Seq(Job) /\ rows' \in Seq(Row)
        /\ Len(rows') = Len(jobs') /\ Len(jobs') <= MaxJobs
        /\ k \in Nat /\ Jobs' = Jobs \cup {k} /\ k \notin Jobs
        /\ \A j \in Jobs : jobs'[j] = jobs[j] /\ rows'[j] = rows[j]
        /\ jobs'[k] = job /\ rows'[k] = row
    BY InvestigationsAssumption DEF Shape, Jobs
  <1> HIDE DEF k
  <1> QED
    BY <1>1

\* One job moves on; every other one, and every row but its own, stays.
LEMMA MovedJob ==
  ASSUME Shape, NEW i \in Jobs, NEW job \in Job, jobs' = [jobs EXCEPT ![i] = job]
  PROVE  /\ jobs' \in Seq(Job) /\ Len(jobs') = Len(jobs) /\ Jobs' = Jobs
         /\ jobs'[i] = job /\ \A j \in Jobs : j # i => jobs'[j] = jobs[j]
  BY ExceptSeq DEF Shape, Jobs

LEMMA MovedRow ==
  ASSUME Shape, NEW i \in Jobs, NEW row \in Row, rows' = [rows EXCEPT ![i] = row]
  PROVE  /\ rows' \in Seq(Row) /\ Len(rows') = Len(rows)
         /\ rows'[i] = row /\ \A j \in Jobs : j # i => rows'[j] = rows[j]
  BY ExceptSeq DEF Shape, Jobs

LEMMA Elements ==
  ASSUME Shape, NEW j \in Jobs
  PROVE  jobs[j] \in Job /\ rows[j] \in Row
  BY ElementOfSeq DEF Shape, Jobs

LEMMA RowTypes ==
  ASSUME Shape
  PROVE  /\ NoRow \in Row /\ NewRow \in Row
         /\ NoRow.status = "none" /\ NewRow.status = "running" /\ NewRow.created = now
  BY DEF Shape, NoRow, NewRow, Row

LEMMA NewJobType ==
  ASSUME Shape, NEW by \in {"alert", "detector", "rerun", "chat"}, NEW s \in Services,
         NEW phase \in {"asked", "building", "running", "stranded", "over"}
  PROVE  /\ NewJob(by, s, phase) \in Job
         /\ NewJob(by, s, phase).by = by /\ NewJob(by, s, phase).service = s
         /\ NewJob(by, s, phase).phase = phase
         /\ NewJob(by, s, phase).marked = IF phase = "asked" THEN Never ELSE now
  BY DEF Shape, NewJob, Job

-----------------------------------------------------------------------------
(* The actions keep the invariant.                                         *)

LEMMA InitIInv == Init => IInv
  <1> SUFFICES ASSUME Init PROVE IInv
    OBVIOUS
  <1>1. Jobs = {} /\ jobs \in Seq(Job) /\ rows \in Seq(Row) /\ Len(jobs) = 0 /\ Len(rows) = 0
    BY DEF Init, Jobs
  <1>2. Shape
    BY <1>1, InvestigationsAssumption DEF Init, Shape, NoTimes, Times
  <1>3. Story
    BY <1>1, <1>2 DEF Story
  <1>4. Holding = {} /\ Stranded = {} /\ Automatic = {}
    BY <1>1 DEF Holding, Stranded, Automatic
  <1>5. Slots
    BY <1>4, FS_EmptySet, InvestigationsAssumption
       DEF Init, Slots, CountIsHonest, AutomaticLimit, Automatic
  <1> QED
    BY <1>3, <1>5 DEF IInv

\* Marking a service keeps the memory typed and at least as young as every mark.
LEMMA Marking ==
  ASSUME Shape, NEW s \in Services, recent' = [recent EXCEPT ![s] = now], now' = now
  PROVE  /\ recent' \in [Services -> Times \cup {Never}]
         /\ recent'[s] = now /\ now # Never /\ now \in Int
         /\ Remembering
  BY InvestigationsAssumption DEF Shape, Times, Never, Remembering

\* Time may pass.
LEMMA Waiting ==
  ASSUME Shape, recent' = recent, now' \in {now, now + 1}
  PROVE  Remembering
  BY InvestigationsAssumption DEF Shape, Times, Remembering

\* A job that does not move keeps its part of the story.
LEMMA Bystander ==
  ASSUME Story, NEW j \in Jobs, Remembering, up' = up
  PROVE  Told(jobs[j], rows[j], up', now', recent'[jobs[j].service])
  <1>1. /\ Shape /\ jobs[j] \in Job /\ rows[j] \in Row /\ now \in Times
        /\ jobs[j].service \in Services
    BY Elements DEF Shape, Job, Story
  <1>2. Fate(jobs[j], rows[j], up) /\ Asker(jobs[j])
        /\ Memory(jobs[j], rows[j], now, recent[jobs[j].service])
    BY DEF Story, Told
  <1>3. Memory(jobs[j], rows[j], now', recent'[jobs[j].service])
    <2> DEFINE s == jobs[j].service
               m == jobs[j].marked
    <2>1. /\ m \in Int /\ now \in Int /\ s \in Services /\ recent[s] \in Int
          /\ now' \in Int /\ now # Never
      BY <1>1, InvestigationsAssumption DEF Shape, Job, Times, Never, Remembering
    <2>2. /\ recent'[s] \in {recent[s], now} /\ (recent[s] # Never => recent'[s] # Never)
          /\ now' >= now
      BY <2>1 DEF Remembering
    <2> SUFFICES ASSUME m # Never
                 PROVE  /\ m <= now'
                        /\ recent'[s] # Never => m <= recent'[s]
                        /\ jobs[j].phase \in {"building", "stranded"} => recent'[s] # Never
                        /\ rows[j].status # "none" => m <= rows[j].created
      BY DEF Memory
    <2>3. /\ m <= now
          /\ recent[s] # Never => m <= recent[s]
          /\ jobs[j].phase \in {"building", "stranded"} => recent[s] # Never
          /\ rows[j].status # "none" => m <= rows[j].created
      BY <1>2 DEF Memory
    <2> HIDE DEF s, m
    <2> QED
      BY <2>1, <2>2, <2>3
  <1> QED
    BY <1>2, <1>3 DEF Told

\* What an action leaves of the memory of the guard and of the clock.
Steady ==
  /\ Remembering /\ up' = up /\ now' = now
  /\ recent' \in [Services -> Times \cup {Never}] /\ reruns' \in [Services -> Times \cup {Never}]

\* A job that joins with a story of its own keeps the invariant, with a slot that was
\* free or without one.
LEMMA JoinKeeps ==
  ASSUME IInv, Len(jobs) < MaxJobs, Steady, NEW job \in Job, NEW row \in Row,
         jobs' = Append(jobs, job), rows' = Append(rows, row),
         Told(job, row, up', now', recent'[job.service]),
         \/ /\ job.phase \in {"building", "running", "stranded"} /\ job.by # "chat"
            /\ Below /\ active' = active + 1
         \/ job.phase = "asked" /\ active' = active
  PROVE  IInv'
  <1>1. Shape /\ Slots /\ Story
    BY DEF IInv, Story
  <1>2. /\ jobs' \in Seq(Job) /\ rows' \in Seq(Row)
        /\ Len(rows') = Len(jobs') /\ Len(jobs') <= MaxJobs
        /\ \E k \in Nat : /\ Jobs' = Jobs \cup {k} /\ k \notin Jobs
                          /\ jobs'[k] = job /\ rows'[k] = row
        /\ \A j \in Jobs : jobs'[j] = jobs[j] /\ rows'[j] = rows[j]
    BY <1>1, Joined
  <1> PICK k \in Nat : Jobs' = Jobs \cup {k} /\ k \notin Jobs /\ jobs'[k] = job /\ rows'[k] = row
    BY <1>2
  <1>3. Shape'
    BY <1>1, <1>2 DEF Shape, Steady
  <1>4. Story'
    <2>1. ASSUME NEW j \in Jobs
          PROVE  Told(jobs'[j], rows'[j], up', now', recent'[jobs'[j].service])
      BY <1>1, <1>2, Bystander DEF Steady
    <2>2. Told(jobs'[k], rows'[k], up', now', recent'[jobs'[k].service])
      OBVIOUS
    <2> QED
      BY <1>3, <2>1, <2>2 DEF Story
  <1>5. k \notin Holding /\ k \notin Stranded
    BY DEF Holding, Stranded
  <1>6. CASE job.phase \in {"building", "running"} /\ job.by # "chat"
    <2>1. Holding' = Holding \cup {k} /\ Stranded' = Stranded
      <3>1. \A j \in Jobs' : j \in Holding' <=> j \in Holding \/ j = k
        BY <1>2, <1>6 DEF Holding
      <3>2. \A j \in Jobs' : j \in Stranded' <=> j \in Stranded
        BY <1>2, <1>5, <1>6 DEF Stranded
      <3> QED
        BY <3>1, <3>2 DEF Holding, Stranded
    <2>2. Automatic' \subseteq Automatic \cup {k}
      <3> SUFFICES ASSUME NEW j \in Automatic', j # k PROVE j \in Automatic
        OBVIOUS
      <3>1. j \in Holding' /\ jobs'[j].by \in {"alert", "detector"}
        BY DEF Automatic
      <3>2. j \in Holding /\ j \in Jobs
        BY <2>1, <3>1 DEF Holding
      <3> QED
        BY <1>2, <3>1, <3>2 DEF Automatic
    <2>3. Slots'
      BY <1>1, <1>5, <1>6, <2>1, <2>2, SlotTaken
    <2> QED
      BY <1>4, <2>3 DEF IInv
  <1>7. CASE job.phase = "stranded" /\ job.by # "chat"
    <2>1. Holding' = Holding /\ Stranded' = Stranded \cup {k}
      BY <1>2, <1>7 DEF Holding, Stranded
    <2>2. Automatic' = Automatic
      BY <1>2, <1>5, <2>1 DEF Automatic, Holding
    <2>3. Slots'
      BY <1>1, <1>5, <1>7, <2>1, <2>2, SlotTaken
    <2> QED
      BY <1>4, <2>3 DEF IInv
  <1>8. CASE job.phase = "asked"
    <2>1. Holding' = Holding /\ Stranded' = Stranded
      BY <1>2, <1>8 DEF Holding, Stranded
    <2>2. Automatic' = Automatic
      BY <1>2, <1>5, <2>1 DEF Automatic, Holding
    <2>3. Slots'
      BY <1>1, <1>8, <2>1, <2>2, SlotsKept
    <2> QED
      BY <1>4, <2>3 DEF IInv
  <1> QED
    BY <1>6, <1>7, <1>8

Holds(job) == job.phase \in {"building", "running"} /\ job.by # "chat"

\* A job that moves on keeps the invariant when the count follows its slot.
LEMMA MoveKeeps ==
  ASSUME IInv, Steady, NEW i \in Jobs, NEW job \in Job, NEW row \in Row,
         jobs' = [jobs EXCEPT ![i] = job], rows' = [rows EXCEPT ![i] = row],
         Told(job, row, up', now', recent'[job.service]),
         job.by = jobs[i].by, "stranded" \notin {job.phase, jobs[i].phase},
         \/ (Holds(job) <=> Holds(jobs[i])) /\ active' = active
         \/ Holds(job) /\ ~Holds(jobs[i]) /\ job.by = "rerun" /\ active' = active + 1
         \/ ~Holds(job) /\ Holds(jobs[i]) /\ active' = IF active > 0 THEN active - 1 ELSE 0
  PROVE  IInv'
  <1>1. Shape /\ Slots /\ Story
    BY DEF IInv, Story
  <1>2. /\ jobs' \in Seq(Job) /\ Len(jobs') = Len(jobs) /\ Jobs' = Jobs
        /\ jobs'[i] = job /\ \A j \in Jobs : j # i => jobs'[j] = jobs[j]
    BY <1>1, MovedJob
  <1>3. /\ rows' \in Seq(Row) /\ Len(rows') = Len(rows)
        /\ rows'[i] = row /\ \A j \in Jobs : j # i => rows'[j] = rows[j]
    BY <1>1, MovedRow
  <1>4. Shape'
    BY <1>1, <1>2, <1>3 DEF Shape, Steady
  <1>5. Story'
    <2>1. ASSUME NEW j \in Jobs, j # i
          PROVE  Told(jobs'[j], rows'[j], up', now', recent'[jobs'[j].service])
      BY <1>1, <1>2, <1>3, <2>1, Bystander DEF Steady
    <2>2. Told(jobs'[i], rows'[i], up', now', recent'[jobs'[i].service])
      BY <1>2, <1>3
    <2> QED
      BY <1>2, <1>4, <2>1, <2>2 DEF Story
  <1>6. Stranded' = Stranded
    BY <1>2 DEF Stranded
  <1>7. /\ \A j \in Jobs : j # i => (j \in Holding' <=> j \in Holding)
        /\ \A j \in Jobs : j # i => (j \in Automatic' <=> j \in Automatic)
        /\ i \in Holding' <=> Holds(job)
        /\ i \in Holding <=> Holds(jobs[i])
        /\ i \in Automatic' <=> Holds(job) /\ job.by \in {"alert", "detector"}
        /\ i \in Automatic <=> Holds(jobs[i]) /\ job.by \in {"alert", "detector"}
    BY <1>2 DEF Holding, Automatic, Holds
  <1>8. Holding \subseteq Jobs /\ Holding' \subseteq Jobs /\ Automatic \subseteq Jobs /\ Automatic' \subseteq Jobs
    BY <1>2 DEF Holding, Automatic
  <1>9. CASE (Holds(job) <=> Holds(jobs[i])) /\ active' = active
    <2>1. Holding' = Holding /\ Automatic' = Automatic
      <3>1. \A j \in Jobs : j \in Holding' <=> j \in Holding
        BY <1>7, <1>9
      <3>2. \A j \in Jobs : j \in Automatic' <=> j \in Automatic
        BY <1>7, <1>9
      <3> QED
        BY <3>1, <3>2, <1>8
    <2> QED
      BY <1>1, <1>5, <1>6, <1>9, <2>1, SlotsKept DEF IInv
  <1>10. CASE Holds(job) /\ ~Holds(jobs[i]) /\ job.by = "rerun" /\ active' = active + 1
    <2>1. Holding' = Holding \cup {i} /\ i \notin Holding /\ Automatic' = Automatic
      BY <1>7, <1>8, <1>10
    <2>2. i \notin Stranded
      BY DEF Stranded
    <2> QED
      BY <1>1, <1>5, <1>6, <1>10, <2>1, <2>2, SlotTaken DEF IInv
  <1>11. CASE /\ ~Holds(job) /\ Holds(jobs[i])
              /\ active' = IF active > 0 THEN active - 1 ELSE 0
    <2>1. Holding' = Holding \ {i} /\ i \in Holding /\ Automatic' \subseteq Automatic
      BY <1>7, <1>8, <1>11
    <2> QED
      BY <1>1, <1>5, <1>6, <1>11, <2>1, SlotReturned DEF IInv
  <1> QED
    BY <1>9, <1>10, <1>11

-----------------------------------------------------------------------------
(* The actions keep the invariant.                                         *)

\* Marked or not, the guard's memory stays typed.
LEMMA MarkIsSteady ==
  ASSUME Shape, NEW s \in Services, recent' = [recent EXCEPT ![s] = now],
         up' = up, now' = now, reruns' \in [Services -> Times \cup {Never}]
  PROVE  Steady /\ recent'[s] = now /\ now # Never /\ now \in Int
  BY Marking DEF Steady

LEMMA NoMarkIsSteady ==
  ASSUME Shape, UNCHANGED <<up, now, recent, reruns>>
  PROVE  Steady
  BY Waiting DEF Steady, Shape

LEMMA AlertKeeps ==
  ASSUME IInv, NEW s \in Services, Alert(s)
  PROVE  IInv'
  <1> DEFINE job == NewJob("alert", s, "running")
  <1>0. Shape
    BY DEF IInv, Story
  <1>1. /\ Len(jobs) < MaxJobs /\ jobs' = Append(jobs, job) /\ rows' = Append(rows, NewRow)
        /\ recent' = [recent EXCEPT ![s] = now] /\ active' = active + 1 /\ Below
        /\ up /\ up' = up /\ now' = now /\ reruns' = reruns
    BY DEF Alert, Mark, Allowed
  <1>2. /\ job \in Job /\ job.by = "alert" /\ job.service = s /\ job.phase = "running"
        /\ job.marked = now
    BY <1>0, NewJobType
  <1>3. NewRow \in Row /\ NewRow.status = "running" /\ NewRow.created = now
    BY <1>0, RowTypes
  <1>4. Steady /\ recent'[s] = now /\ now # Never /\ now \in Int
    BY <1>0, <1>1, MarkIsSteady DEF Shape
  <1> HIDE DEF job
  <1>5. Told(job, NewRow, up', now', recent'[job.service])
    BY <1>1, <1>2, <1>3, <1>4 DEF Told, Fate, Asker, Memory
  <1> QED
    BY <1>1, <1>2, <1>3, <1>4, <1>5, JoinKeeps

LEMMA DetectedKeeps ==
  ASSUME IInv, NEW s \in Services, Detected(s)
  PROVE  IInv'
  <1>0. Shape
    BY DEF IInv, Story
  <1>1. PICK phase \in {"building", "stranded"} : jobs' = Append(jobs, NewJob("detector", s, phase))
    BY DEF Detected
  <1> DEFINE job == NewJob("detector", s, phase)
  <1>2. /\ Len(jobs) < MaxJobs /\ rows' = Append(rows, NoRow)
        /\ recent' = [recent EXCEPT ![s] = now] /\ active' = active + 1 /\ Below
        /\ up /\ up' = up /\ now' = now /\ reruns' = reruns
    BY DEF Detected, Mark, Allowed
  <1>3. /\ job \in Job /\ job.by = "detector" /\ job.service = s /\ job.phase = phase
        /\ job.marked = now
    BY <1>0, NewJobType
  <1>4. NoRow \in Row /\ NoRow.status = "none"
    BY <1>0, RowTypes
  <1>5. Steady /\ recent'[s] = now /\ now # Never /\ now \in Int
    BY <1>0, <1>2, MarkIsSteady DEF Shape
  <1> HIDE DEF job
  <1>6. Told(job, NoRow, up', now', recent'[job.service])
    BY <1>2, <1>3, <1>4, <1>5 DEF Told, Fate, Asker, Memory
  <1>7. jobs' = Append(jobs, job)
    BY <1>1 DEF job
  <1> QED
    BY <1>2, <1>3, <1>4, <1>5, <1>6, <1>7, JoinKeeps

\* A re-run or a chat message that waits.
LEMMA AskedKeeps ==
  ASSUME IInv, NEW s \in Services, Rerun(s) \/ Chat(s)
  PROVE  IInv'
  <1>0. Shape
    BY DEF IInv, Story
  <1>1. PICK by \in {"rerun", "chat"} : jobs' = Append(jobs, NewJob(by, s, "asked"))
    BY DEF Rerun, Chat
  <1> DEFINE job == NewJob(by, s, "asked")
  <1>2. /\ Len(jobs) < MaxJobs /\ rows' = Append(rows, NoRow)
        /\ up /\ UNCHANGED <<up, now, recent, reruns, active>>
    BY DEF Rerun, Chat
  <1>3. job \in Job /\ job.by = by /\ job.phase = "asked" /\ job.marked = Never
    BY <1>0, NewJobType
  <1>4. NoRow \in Row /\ NoRow.status = "none"
    BY <1>0, RowTypes
  <1>5. Steady
    BY <1>0, <1>2, NoMarkIsSteady
  <1> HIDE DEF job
  <1>6. Told(job, NoRow, up', now', recent'[job.service])
    BY <1>2, <1>3, <1>4 DEF Told, Fate, Asker, Memory
  <1>7. jobs' = Append(jobs, job)
    BY <1>1 DEF job
  <1> QED
    BY <1>2, <1>3, <1>4, <1>5, <1>6, <1>7, JoinKeeps

\* What a job that moves on may be assumed to be.
LEMMA Mover ==
  ASSUME IInv, NEW j \in Jobs
  PROVE  /\ Shape /\ jobs[j] \in Job /\ rows[j] \in Row /\ rows = [rows EXCEPT ![j] = rows[j]]
         /\ now \in Int /\ now # Never /\ recent[jobs[j].service] \in Int
         /\ Told(jobs[j], rows[j], up, now, recent[jobs[j].service])
  <1>1. Shape /\ jobs[j] \in Job /\ rows[j] \in Row
        /\ Told(jobs[j], rows[j], up, now, recent[jobs[j].service])
    BY Elements DEF IInv, Story
  <1>2. rows \in [1..Len(rows) -> Row]
    BY <1>1, LenProperties DEF Shape
  <1>3. rows = [rows EXCEPT ![j] = rows[j]]
    BY <1>2
  <1>4. now \in Int /\ now # Never /\ recent[jobs[j].service] \in Int
    BY <1>1, InvestigationsAssumption DEF Shape, Job, Times, Never
  <1> QED
    BY <1>1, <1>3, <1>4

LEMMA AgentsBuiltKeeps ==
  ASSUME IInv, NEW j \in Jobs, AgentsBuilt(j)
  PROVE  IInv'
  <1>0. /\ Shape /\ jobs[j] \in Job /\ rows[j] \in Row /\ rows = [rows EXCEPT ![j] = rows[j]]
        /\ now \in Int /\ now # Never /\ recent[jobs[j].service] \in Int
        /\ Told(jobs[j], rows[j], up, now, recent[jobs[j].service])
    BY Mover
  <1>1. Steady /\ up /\ UNCHANGED <<up, now, recent, reruns>> /\ jobs[j].phase = "building"
    BY <1>0, NoMarkIsSteady DEF AgentsBuilt
  <1>2. jobs[j].by = "detector" /\ rows[j].status = "none" /\ jobs[j].marked \in Int
    BY <1>0, <1>1, InvestigationsAssumption DEF Told, Asker, Fate, Job, Times, Never
  <1>3. ASSUME jobs' = [jobs EXCEPT ![j].phase = "running"],
               rows' = [rows EXCEPT ![j] = NewRow], UNCHANGED active
        PROVE  IInv'
    <2> DEFINE job == [jobs[j] EXCEPT !.phase = "running"]
    <2>1. /\ job \in Job /\ job.phase = "running" /\ job.by = jobs[j].by
          /\ job.service = jobs[j].service /\ job.marked = jobs[j].marked
      BY <1>0 DEF Job
    <2>2. NewRow \in Row /\ NewRow.status = "running" /\ NewRow.created = now
      BY <1>0, RowTypes
    <2>3. jobs' = [jobs EXCEPT ![j] = job]
      BY <1>3
    <2> HIDE DEF job
    <2>4. Told(job, NewRow, up', now', recent'[job.service])
      BY <1>0, <1>1, <1>2, <2>1, <2>2 DEF Told, Fate, Asker, Memory
    <2>5. Holds(job) /\ Holds(jobs[j])
      BY <1>1, <1>2, <2>1 DEF Holds
    <2> QED
      BY <1>1, <1>3, <2>1, <2>2, <2>3, <2>4, <2>5, MoveKeeps
  <1>4. ASSUME jobs' = [jobs EXCEPT ![j].phase = "over"], Release(j, "failed"), UNCHANGED rows
        PROVE  IInv'
    <2> DEFINE job == [jobs[j] EXCEPT !.phase = "over"]
    <2>1. /\ job \in Job /\ job.phase = "over" /\ job.by = jobs[j].by
          /\ job.service = jobs[j].service /\ job.marked = jobs[j].marked
      BY <1>0 DEF Job
    <2>2. jobs' = [jobs EXCEPT ![j] = job]
      BY <1>4
    <2> HIDE DEF job
    <2>3. Told(job, rows[j], up', now', recent'[job.service])
      BY <1>0, <1>1, <1>2, <2>1 DEF Told, Fate, Asker, Memory
    <2>4. ~Holds(job) /\ Holds(jobs[j])
      BY <1>1, <1>2, <2>1 DEF Holds
    <2>5. active' = IF active > 0 THEN active - 1 ELSE 0
      BY <1>2, <1>4 DEF Release
    <2>6. rows' = [rows EXCEPT ![j] = rows[j]]
      BY <1>0, <1>4
    <2> QED
      BY <1>0, <1>1, <1>2, <2>1, <2>2, <2>3, <2>4, <2>5, <2>6, MoveKeeps
  <1> QED
    BY <1>3, <1>4 DEF AgentsBuilt

LEMMA AgentsFoundKeeps ==
  ASSUME IInv, NEW j \in Jobs, AgentsFound(j)
  PROVE  IInv'
  <1>0. /\ Shape /\ jobs[j] \in Job /\ rows[j] \in Row /\ rows = [rows EXCEPT ![j] = rows[j]]
        /\ now \in Int /\ now # Never /\ recent[jobs[j].service] \in Int
        /\ Told(jobs[j], rows[j], up, now, recent[jobs[j].service])
    BY Mover
  <1>1. up /\ UNCHANGED <<up, now>> /\ jobs[j].phase = "asked"
    BY DEF AgentsFound
  <1>2. /\ jobs[j].by \in {"rerun", "chat"} /\ jobs[j].marked = Never /\ rows[j].status = "none"
        /\ ~Holds(jobs[j])
    BY <1>0, <1>1 DEF Told, Asker, Fate, Holds
  <1>3. ASSUME jobs' = [jobs EXCEPT ![j].phase = "over"], UNCHANGED <<recent, reruns, active, rows>>
        PROVE  IInv'
    <2> DEFINE job == [jobs[j] EXCEPT !.phase = "over"]
    <2>1. /\ job \in Job /\ job.phase = "over" /\ job.by = jobs[j].by /\ job.marked = Never
          /\ ~Holds(job)
      BY <1>0, <1>2 DEF Job, Holds
    <2>2. jobs' = [jobs EXCEPT ![j] = job] /\ rows' = [rows EXCEPT ![j] = rows[j]]
      BY <1>0, <1>3
    <2> HIDE DEF job
    <2>3. Told(job, rows[j], up', now', recent'[job.service])
      BY <1>1, <1>2, <2>1 DEF Told, Fate, Asker, Memory
    <2>4. Steady
      BY <1>0, <1>1, <1>3, NoMarkIsSteady
    <2> QED
      BY <1>0, <1>1, <1>2, <1>3, <2>1, <2>2, <2>3, <2>4, MoveKeeps
  <1>4. ASSUME rows' = [rows EXCEPT ![j] = NewRow], jobs[j].by = "rerun",
               jobs' = [jobs EXCEPT ![j].phase = "running", ![j].marked = now],
               Mark(jobs[j].service), reruns' = [reruns EXCEPT ![jobs[j].service] = now]
        PROVE  IInv'
    <2> DEFINE job == [jobs[j] EXCEPT !.phase = "running", !.marked = now]
    <2>1. /\ job \in Job /\ job.phase = "running" /\ job.by = jobs[j].by /\ job.marked = now
          /\ job.service = jobs[j].service /\ Holds(job)
      BY <1>0, <1>4 DEF Job, Holds, Shape
    <2>2. NewRow \in Row /\ NewRow.status = "running" /\ NewRow.created = now
      BY <1>0, RowTypes
    <2>3. jobs' = [jobs EXCEPT ![j] = job]
      BY <1>4
    <2> HIDE DEF job
    <2>4. Steady /\ recent'[job.service] = now
      <3>1. jobs[j].service \in Services /\ reruns' \in [Services -> Times \cup {Never}]
        BY <1>0, <1>4 DEF Shape, Job
      <3> QED
        BY <1>0, <1>1, <1>4, <2>1, <3>1, MarkIsSteady DEF Mark
    <2>5. Told(job, NewRow, up', now', recent'[job.service])
      BY <1>0, <1>1, <2>1, <2>2, <2>4 DEF Told, Fate, Asker, Memory
    <2>6. active' = active + 1
      BY <1>4 DEF Mark
    <2> QED
      BY <1>1, <1>2, <1>4, <2>1, <2>2, <2>3, <2>4, <2>5, <2>6, MoveKeeps
  <1>5. ASSUME rows' = [rows EXCEPT ![j] = NewRow], jobs[j].by # "rerun",
               jobs' = [jobs EXCEPT ![j].phase = "running"], UNCHANGED <<recent, reruns, active>>
        PROVE  IInv'
    <2> DEFINE job == [jobs[j] EXCEPT !.phase = "running"]
    <2>1. /\ job \in Job /\ job.phase = "running" /\ job.by = jobs[j].by /\ job.marked = Never
          /\ ~Holds(job)
      BY <1>0, <1>2, <1>5 DEF Job, Holds
    <2>2. NewRow \in Row /\ NewRow.status = "running"
      BY <1>0, RowTypes
    <2>3. jobs' = [jobs EXCEPT ![j] = job]
      BY <1>5
    <2> HIDE DEF job
    <2>4. Told(job, NewRow, up', now', recent'[job.service])
      BY <1>1, <2>1, <2>2 DEF Told, Fate, Asker, Memory
    <2>5. Steady
      BY <1>0, <1>1, <1>5, NoMarkIsSteady
    <2> QED
      BY <1>1, <1>2, <1>5, <2>1, <2>2, <2>3, <2>4, <2>5, MoveKeeps
  <1> QED
    BY <1>3, <1>4, <1>5 DEF AgentsFound

LEMMA SettlesKeeps ==
  ASSUME IInv, NEW j \in Jobs, Settles(j)
  PROVE  IInv'
  <1>0. /\ Shape /\ jobs[j] \in Job /\ rows[j] \in Row /\ rows = [rows EXCEPT ![j] = rows[j]]
        /\ now \in Int /\ now # Never /\ recent[jobs[j].service] \in Int
        /\ Told(jobs[j], rows[j], up, now, recent[jobs[j].service])
    BY Mover
  <1>1. PICK status \in {"complete", "failed"} :
          rows' = [rows EXCEPT ![j].status = status] /\ Release(j, status)
    BY DEF Settles
  <1>2. /\ Steady /\ up /\ UNCHANGED <<up, now, recent, reruns>> /\ jobs[j].phase = "running"
        /\ jobs' = [jobs EXCEPT ![j].phase = "over"]
    BY <1>0, NoMarkIsSteady DEF Settles
  <1> DEFINE job == [jobs[j] EXCEPT !.phase = "over"]
             row == [rows[j] EXCEPT !.status = status]
  <1>3. /\ job \in Job /\ job.phase = "over" /\ job.by = jobs[j].by
        /\ job.service = jobs[j].service /\ job.marked = jobs[j].marked /\ ~Holds(job)
    BY <1>0 DEF Job, Holds
  <1>4. row \in Row /\ row.status = status /\ row.created = rows[j].created
    BY <1>0 DEF Row
  <1>5. jobs' = [jobs EXCEPT ![j] = job] /\ rows' = [rows EXCEPT ![j] = row]
    BY <1>1, <1>2
  <1>6. rows[j].status = "running"
    BY <1>0, <1>2 DEF Told, Fate
  <1> HIDE DEF job, row
  <1>7. Told(job, row, up', now', recent'[job.service])
    BY <1>0, <1>2, <1>3, <1>4, <1>6 DEF Told, Fate, Asker, Memory
  <1>8. CASE jobs[j].by = "chat"
    <2>1. ~Holds(jobs[j]) /\ active' = active
      BY <1>1, <1>8 DEF Holds, Release
    <2> QED
      BY <1>2, <1>3, <1>4, <1>5, <1>7, <2>1, MoveKeeps
  <1>9. CASE jobs[j].by # "chat"
    <2>1. Holds(jobs[j]) /\ active' = IF active > 0 THEN active - 1 ELSE 0
      BY <1>1, <1>2, <1>9 DEF Holds, Release
    <2> QED
      BY <1>2, <1>3, <1>4, <1>5, <1>7, <2>1, MoveKeeps
  <1> QED
    BY <1>8, <1>9

LEMMA CrashKeeps ==
  ASSUME IInv, Crash
  PROVE  IInv'
  <1>0. Shape /\ Story /\ Slots
    BY DEF IInv, Story
  <1>1. /\ ~up' /\ now' = now /\ rows' = rows /\ active' = 0
        /\ recent' = NoTimes /\ reruns' = NoTimes
        /\ jobs' = [j \in Jobs |-> [jobs[j] EXCEPT !.phase = "over"]]
    BY DEF Crash
  <1>2. /\ Jobs = 1..Len(jobs) /\ Len(jobs) \in Nat
    BY <1>0 DEF Shape, Jobs
  <1>3. ASSUME NEW j \in Jobs
        PROVE  /\ jobs'[j] \in Job /\ jobs'[j].phase = "over" /\ jobs'[j].service \in Services
               /\ jobs'[j].marked = jobs[j].marked
    BY <1>0, <1>1, Elements DEF Job
  <1>4. jobs' \in [1..Len(jobs) -> Job]
    BY <1>1, <1>2, <1>3
  <1>5. jobs' \in Seq(Job) /\ Len(jobs') = Len(jobs) /\ Jobs' = Jobs
    BY <1>2, <1>4, SeqDef DEF Jobs
  <1>6. Shape'
    BY <1>0, <1>1, <1>5 DEF Shape, Crash, NoTimes
  <1>7. ASSUME NEW j \in Jobs
        PROVE  Told(jobs'[j], rows'[j], up', now', recent'[jobs'[j].service])
    <2>1. Told(jobs[j], rows[j], up, now, recent[jobs[j].service])
      BY <1>0 DEF Story
    <2>2. recent'[jobs'[j].service] = Never
      BY <1>1, <1>3 DEF NoTimes
    <2> QED
      BY <1>1, <1>3, <2>1, <2>2 DEF Told, Fate, Asker, Memory
  <1>8. Story'
    BY <1>5, <1>6, <1>7 DEF Story
  <1>9. Holding' = {} /\ Stranded' = {} /\ Automatic' = {}
    BY <1>3, <1>5 DEF Holding, Stranded, Automatic
  <1>10. Slots'
    BY <1>1, <1>9, FS_EmptySet, InvestigationsAssumption
       DEF Slots, CountIsHonest, AutomaticLimit, Automatic
  <1> QED
    BY <1>8, <1>10 DEF IInv

LEMMA BootKeeps ==
  ASSUME IInv, Boot
  PROVE  IInv'
  <1>0. Shape /\ Story /\ Slots
    BY DEF IInv, Story
  <1>1. /\ ~up /\ up' /\ now' = now /\ jobs' = jobs /\ active' = active
        /\ recent' = recent /\ reruns' = reruns /\ rows' = [j \in Jobs |-> Swept(rows[j])]
    BY DEF Boot
  <1>2. /\ Jobs = 1..Len(jobs) /\ Len(jobs) \in Nat /\ Len(rows) = Len(jobs) /\ Jobs' = Jobs
    BY <1>0, <1>1 DEF Shape, Jobs
  <1>3. ASSUME NEW j \in Jobs
        PROVE  /\ rows'[j] \in Row /\ rows'[j].status # "running"
               /\ rows'[j].created = rows[j].created
               /\ rows'[j].status = "none" <=> rows[j].status = "none"
    BY <1>0, <1>1, Elements DEF Row, Swept
  <1>4. rows' \in [1..Len(jobs) -> Row]
    BY <1>1, <1>2, <1>3
  <1>5. rows' \in Seq(Row) /\ Len(rows') = Len(jobs)
    BY <1>2, <1>4, SeqDef
  <1>6. Shape'
    BY <1>0, <1>1, <1>5 DEF Shape, Boot
  <1>7. ASSUME NEW j \in Jobs
        PROVE  Told(jobs'[j], rows'[j], up', now', recent'[jobs'[j].service])
    <2>1. Told(jobs[j], rows[j], up, now, recent[jobs[j].service])
      BY <1>0 DEF Story
    <2>2. jobs[j].phase = "over"
      BY <1>1, <2>1 DEF Told, Fate
    <2> QED
      BY <1>1, <1>3, <2>1, <2>2 DEF Told, Fate, Asker, Memory
  <1>8. Story'
    BY <1>2, <1>6, <1>7 DEF Story
  <1>9. Holding' = Holding /\ Stranded' = Stranded /\ Automatic' = Automatic
    BY <1>1 DEF Holding, Stranded, Automatic, Jobs
  <1> QED
    BY <1>0, <1>1, <1>8, <1>9, SlotsKept DEF IInv

\* Time passes, or nothing happens.
LEMMA RestKeeps ==
  ASSUME IInv, Tick \/ UNCHANGED vars
  PROVE  IInv'
  <1>0. Shape /\ Story /\ Slots
    BY DEF IInv, Story
  <1>1. /\ UNCHANGED <<up, recent, reruns, active, jobs, rows>>
        /\ now' \in {now, now + 1} /\ now' \in Times
    BY <1>0, InvestigationsAssumption DEF Tick, vars, Shape, Times
  <1>2. Remembering
    BY <1>0, <1>1, Waiting
  <1>3. Shape' /\ Jobs' = Jobs
    BY <1>0, <1>1 DEF Shape, Jobs
  <1>4. ASSUME NEW j \in Jobs
        PROVE  Told(jobs'[j], rows'[j], up', now', recent'[jobs'[j].service])
    BY <1>0, <1>1, <1>2, Bystander
  <1>5. Holding' = Holding /\ Stranded' = Stranded /\ Automatic' = Automatic
    BY <1>1 DEF Holding, Stranded, Automatic, Jobs
  <1> QED
    BY <1>0, <1>1, <1>3, <1>4, <1>5, SlotsKept DEF IInv, Story

LEMMA NextKeeps == IInv /\ [Next]_vars => IInv'
  <1> SUFFICES ASSUME IInv, [Next]_vars PROVE IInv'
    OBVIOUS
  <1>1. ASSUME NEW s \in Services, Alert(s) PROVE IInv'
    BY <1>1, AlertKeeps
  <1>2. ASSUME NEW s \in Services, Detected(s) PROVE IInv'
    BY <1>2, DetectedKeeps
  <1>3. ASSUME NEW s \in Services, Rerun(s) \/ Chat(s) PROVE IInv'
    BY <1>3, AskedKeeps
  <1>4. ASSUME NEW j \in 1..MaxJobs, AgentsBuilt(j) PROVE IInv'
    BY <1>4, AgentsBuiltKeeps DEF AgentsBuilt
  <1>5. ASSUME NEW j \in 1..MaxJobs, AgentsFound(j) PROVE IInv'
    BY <1>5, AgentsFoundKeeps DEF AgentsFound
  <1>6. ASSUME NEW j \in 1..MaxJobs, Settles(j) PROVE IInv'
    BY <1>6, SettlesKeeps DEF Settles
  <1> QED
    BY <1>1, <1>2, <1>3, <1>4, <1>5, <1>6, CrashKeeps, BootKeeps, RestKeeps DEF Next, JobStep

-----------------------------------------------------------------------------
(* What follows.                                                           *)

\* The inductive invariant holds.
THEOREM InvestigationsInvariant == Spec => []IInv
  BY InitIInv, NextKeeps, PTL DEF Spec

\* Every variable keeps its type, the active count stays within the jobs.
THEOREM InvestigationsTypes == Spec => []TypeOK
  BY InvestigationsInvariant, InvariantType, PTL

\* Whatever fails on the way of an investigation, the count of the guard is the number
\* of those that hold a slot (markStarted, markCompleted).
THEOREM SlotsAreCounted == Spec => []CountIsHonest
  <1>1. IInv => CountIsHonest
    BY DEF IInv, Slots
  <1> QED
    BY <1>1, InvestigationsInvariant, PTL

\* Alerts and detectors never run more investigations at once than the configured
\* limit, whatever re-runs and the chat do (shouldInvestigate).
THEOREM LimitIsKept == Spec => []AutomaticLimit
  <1>1. IInv => AutomaticLimit
    BY DEF IInv, Slots
  <1> QED
    BY <1>1, InvestigationsInvariant, PTL

\* While the server is up the rows that read running are those of the runs that are
\* under way (createInvestigation, markStaleInvestigations).
THEOREM RowsTellTheRuns == Spec => []RowsFollowRuns
  <1>1. IInv => RowsFollowRuns
    <2> SUFFICES ASSUME IInv, up, NEW j \in Jobs
                 PROVE  rows[j].status = "running" <=> jobs[j].phase = "running"
      BY DEF RowsFollowRuns
    <2>1. Fate(jobs[j], rows[j], up) /\ jobs[j] \in Job
      BY Elements DEF IInv, Story, Told
    <2> QED
      BY <2>1 DEF Fate, Job
  <1> QED
    BY <1>1, InvestigationsInvariant, PTL

\* What the guard lets through, no earlier mark of that service forbids.
LEMMA GuardSeesMarks ==
  ASSUME IInv, NEW s \in Services, up, Allowed(s), NEW j \in Jobs,
         jobs[j].service = s, jobs[j].marked # Never,
         ~(jobs[j].phase = "over" /\ rows[j].status = "none")
  PROVE  now - jobs[j].marked >= Window
  <1> DEFINE m == jobs[j].marked
  <1>1. /\ Shape /\ jobs[j] \in Job /\ rows[j] \in Row /\ now \in Nat /\ m \in Nat
        /\ recent[s] \in Int /\ rows[j].created \in Int /\ Window \in Nat
    <2>1. Shape /\ jobs[j] \in Job /\ rows[j] \in Row
      BY Elements DEF IInv, Story
    <2>2. Times \subseteq Nat /\ Window \in Nat /\ Never \in Int
      BY InvestigationsAssumption DEF Times, Never
    <2>3. now \in Times /\ recent[s] \in Times \cup {Never}
      BY <2>1 DEF Shape
    <2>4. m \in Times \cup {Never} /\ rows[j].created \in Times \cup {Never}
      BY <2>1 DEF Job, Row
    <2>5. \A t \in Times \cup {Never} : t \in Int /\ (t # Never => t \in Nat)
      BY <2>2
    <2>6. now \in Nat
      BY <2>2, <2>3
    <2>7. m \in Nat /\ recent[s] \in Int /\ rows[j].created \in Int
      BY <2>3, <2>4, <2>5
    <2> QED
      BY <2>1, <2>2, <2>6, <2>7
  <1>2. Fate(jobs[j], rows[j], up) /\ Asker(jobs[j]) /\ Memory(jobs[j], rows[j], now, recent[s])
    BY DEF IInv, Story, Told
  <1>3. /\ m <= now /\ (recent[s] # Never => m <= recent[s])
        /\ jobs[j].phase \in {"building", "stranded"} => recent[s] # Never
        /\ rows[j].status # "none" => m <= rows[j].created
    BY <1>2 DEF Memory
  <1>4. CASE Remembered(s)
    <2>1. recent[s] # Never /\ now - recent[s] >= Window
      BY <1>4 DEF Remembered, Allowed
    <2> HIDE DEF m
    <2>2. now - m >= Window
      BY <1>1, <1>3, <2>1
    <2> QED
      BY <2>2 DEF m
  <1>5. CASE recent[s] # Never /\ now - recent[s] > Window
    <2> HIDE DEF m
    <2>1. now - m >= Window
      BY <1>1, <1>3, <1>5
    <2> QED
      BY <2>1 DEF m
  <1>6. CASE recent[s] = Never
    <2>1. rows[j].status # "none"
      BY <1>1, <1>2, <1>3, <1>6 DEF Fate, Asker, Job
    <2>2. Window > 0 => ~(now - rows[j].created < Window)
      BY <1>6, <2>1 DEF Allowed, Remembered, RowRecent
    <2> HIDE DEF m
    <2>3. now - m >= Window
      BY <1>1, <1>3, <2>1, <2>2
    <2> QED
      BY <2>3 DEF m
  <1>7. Remembered(s) \/ recent[s] = Never \/ (recent[s] # Never /\ now - recent[s] > Window)
    BY <1>1 DEF Remembered
  <1> QED
    BY <1>4, <1>5, <1>6, <1>7

\* A service that was marked less than a window ago is not investigated by alert or
\* detector, also over a restart, unless the earlier one died before it was on record
\* (shouldInvestigate, hasRecentInvestigation).
THEOREM WindowIsKept == Spec => OncePerWindow
  <1> DEFINE A == \A k \in DOMAIN jobs' \ Jobs :
                    jobs'[k].by \in {"alert", "detector"} =>
                      \A j \in Jobs :
                        \/ jobs[j].service # jobs'[k].service \/ jobs[j].marked = Never
                        \/ now - jobs[j].marked >= Window
                        \/ jobs[j].phase = "over" /\ rows[j].status = "none"
  <1>1. IInv /\ [Next]_vars => [A]_vars
    <2> SUFFICES ASSUME IInv, Next,
                        NEW k \in DOMAIN jobs' \ Jobs, jobs'[k].by \in {"alert", "detector"},
                        NEW j \in Jobs, jobs[j].service = jobs'[k].service,
                        jobs[j].marked # Never,
                        ~(jobs[j].phase = "over" /\ rows[j].status = "none")
                 PROVE  now - jobs[j].marked >= Window
      BY DEF vars
    <2>1. Shape
      BY DEF IInv, Story
    <2>2. ASSUME NEW s \in Services, NEW job \in Job, jobs' = Append(jobs, job)
          PROVE  jobs'[k] = job
      BY <2>1, <2>2 DEF Shape, Jobs
    <2>3. ASSUME NEW s \in Services, Alert(s)
          PROVE  now - jobs[j].marked >= Window
      <3>1. jobs'[k].service = s /\ up /\ Allowed(s)
        <4> DEFINE job == NewJob("alert", s, "running")
        <4>1. job \in Job /\ job.service = s
          BY <2>1, NewJobType
        <4>2. jobs' = Append(jobs, job) /\ up /\ Allowed(s)
          BY <2>3 DEF Alert
        <4> HIDE DEF job
        <4> QED
          BY <2>2, <4>1, <4>2
      <3> QED
        BY <3>1, GuardSeesMarks
    <2>4. ASSUME NEW s \in Services, Detected(s)
          PROVE  now - jobs[j].marked >= Window
      <3>1. jobs'[k].service = s /\ up /\ Allowed(s)
        BY <2>1, <2>2, <2>4, NewJobType DEF Detected
      <3> QED
        BY <3>1, GuardSeesMarks
    <2>5. ASSUME NEW s \in Services, Rerun(s) \/ Chat(s)
          PROVE  FALSE
      <3>1. PICK by \in {"rerun", "chat"} : jobs' = Append(jobs, NewJob(by, s, "asked"))
        BY <2>5 DEF Rerun, Chat
      <3>2. jobs'[k].by = by
        BY <2>1, <2>2, <3>1, NewJobType
      <3> QED
        BY <3>2
    <2>6. ASSUME Jobs' = Jobs
          PROVE  FALSE
      BY <2>6 DEF Jobs
    <2>7. ASSUME NEW i \in 1..MaxJobs, JobStep(i)
          PROVE  Jobs' = Jobs
      BY <2>1, <2>7 DEF JobStep, AgentsBuilt, AgentsFound, Settles, Jobs, Shape
    <2>8. Crash \/ Boot \/ Tick => Jobs' = Jobs
      BY DEF Crash, Boot, Tick, Jobs
    <2> QED
      BY <2>3, <2>4, <2>5, <2>6, <2>7, <2>8 DEF Next
  <1>2. Spec => [][A]_vars
    BY <1>1, InvestigationsInvariant, PTL DEF Spec
  <1> QED
    BY <1>2 DEF OncePerWindow

=============================================================================
