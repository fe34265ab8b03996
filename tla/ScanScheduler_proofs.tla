-------------------------- MODULE ScanScheduler_proofs --------------------------
(***************************************************************************)
(* Proofs about ScanScheduler, for every set of services, versions of the  *)
(* rule, schedules and connections, every threshold and any number of      *)
(* ticks.                                                                  *)
(*                                                                         *)
(* All properties rest on there being one tick at a time: the row that is  *)
(* probed is the one whose controller the scheduler holds (Flight).  That  *)
(* a crash leaves at most one open row is kept while the process is down   *)
(* (OneOpen); that the counters never run ahead of the readings holds      *)
(* between the ticks too (Backed).                                         *)
(***************************************************************************)
EXTENDS ScanScheduler, FiniteSetTheorems, SequenceTheorems, TLAPS

\* A row: it is probed only as the scheduler's own, it is open only while it is probed,
\* nothing is dispatched before the probe is over, and a cancelled one is aborted.
Flown(row, isUp, own, isCancelled) ==
  /\ row.phase = "probing" <=> own
  /\ isUp => (row.status = "running" <=> row.phase = "probing")
  /\ row.phase = "probing" => row.dispatched = {} /\ (isCancelled => row.aborted)

Flight ==
  \A r \in DOMAIN runs : Flown(runs[r], up, ticking /\ r = ac, r \in cancelled)

\* The tick that runs has a row.
Own == ticking => up /\ ac \in DOMAIN runs

OneOpen == \A q, r \in DOMAIN runs :
  runs[q].status = "running" /\ runs[r].status = "running" => q = r

\* A counter is at most the number of readings in a row that were above the threshold.
Backed == \A s \in Services, o \in Origins : counter[<<s, o>>] <= streak[s]

IInv == TypeOK /\ Flight /\ Own /\ OneOpen /\ ListenerIsServed /\ Backed

-----------------------------------------------------------------------------
(* Rows.                                                                   *)

LEMMA RowType ==
  ASSUME TypeOK, NEW r \in DOMAIN runs
  PROVE  runs[r] \in Run
  BY ElementOfSeq, LenProperties DEF TypeOK

\* Rewriting rows keeps the table.
LEMMA Rewritten ==
  ASSUME TypeOK, DOMAIN runs' = DOMAIN runs, runs' \in [DOMAIN runs -> Run]
  PROVE  runs' \in Seq(Run) /\ Len(runs') = Len(runs)
  <1>1. DOMAIN runs = 1..Len(runs) /\ Len(runs) \in Nat
    BY LenProperties DEF TypeOK
  <1>2. runs' \in Seq(Run)
    BY <1>1, SeqDef
  <1> QED
    BY <1>1, <1>2, LenProperties

\* this.ac?.abort() touches nothing but the flag of the row that is probed.
LEMMA CancelRows ==
  ASSUME TypeOK, Cancel
  PROVE  /\ runs' \in Seq(Run) /\ Len(runs') = Len(runs) /\ DOMAIN runs' = DOMAIN runs
         /\ \A r \in DOMAIN runs : r # ac => runs'[r] = runs[r]
         /\ ac \in DOMAIN runs => runs'[ac] = [runs[ac] EXCEPT !.aborted = TRUE]
  <1>1. DOMAIN runs' = DOMAIN runs
    BY DEF Cancel
  <1>2. ASSUME NEW r \in DOMAIN runs
        PROVE  runs'[r] \in Run /\ (r # ac => runs'[r] = runs[r])
               /\ (r = ac => runs'[r] = [runs[r] EXCEPT !.aborted = TRUE])
    <2>1. runs[r] \in Run /\ [runs[r] EXCEPT !.aborted = TRUE] \in Run
      BY RowType DEF Run
    <2> QED
      BY <2>1 DEF Cancel
  <1>3. runs' \in [DOMAIN runs -> Run]
    BY <1>2 DEF Cancel
  <1> QED
    BY <1>1, <1>2, <1>3, Rewritten

LEMMA Snapshot ==
  ASSUME TypeOK
  PROVE  /\ RulesNow \in [Services -> Versions \cup {"none"}]
         /\ OriginsNow \in [Services -> Origins]
         /\ NoRules \in [Services -> Versions \cup {"none"}]
         /\ ByDefault \in [Services -> Origins]
  <1>1. ASSUME NEW s \in Services
        PROVE  RulesNow[s] \in Versions \cup {"none"} /\ OriginsNow[s] \in Origins
    BY DEF TypeOK, RulesNow, OriginsNow, Origins, Config
  <1> QED
    BY <1>1 DEF RulesNow, OriginsNow, NoRules, ByDefault, Origins

LEMMA NewRunType ==
  ASSUME TypeOK, NEW client \in Clients \cup {NoClient}
  PROVE  /\ NewRun(client) \in Run /\ NewRun(client).status = "running"
         /\ NewRun(client).phase = "probing" /\ NewRun(client).by = client
         /\ NewRun(client).dispatched = {}
  BY Snapshot DEF NewRun, Run

LEMMA EndedType ==
  ASSUME TypeOK, NEW row \in Run
  PROVE  /\ Ended(row) \in Run /\ Ended(row).status = "closed" /\ Ended(row).phase = "over"
         /\ Ended(row).dispatched = row.dispatched
  BY Snapshot DEF Ended, Run

\* Begin adds one row at the end.
LEMMA BeginRows ==
  ASSUME TypeOK, NEW client \in Clients \cup {NoClient}, Begin(client)
  PROVE  /\ runs' \in Seq(Run) /\ ticking' \in BOOLEAN /\ ac' \in 0..Len(runs')
         /\ \E k \in Nat, row \in Run :
              /\ DOMAIN runs' = DOMAIN runs \cup {k} /\ k \notin DOMAIN runs /\ runs'[k] = row
              /\ \/ /\ row.status = "running" /\ row.phase = "probing" /\ row.by = client
                    /\ row.dispatched = {} /\ ticking' = TRUE /\ ac' = k /\ ac # k
                 \/ /\ row.status = "closed" /\ row.phase = "over"
                    /\ ticking' = ticking /\ ac' = ac
         /\ \A r \in DOMAIN runs : runs'[r] = runs[r]
  <1> DEFINE k == Len(runs) + 1
  <1>1. /\ DOMAIN runs = 1..Len(runs) /\ Len(runs) \in Nat /\ runs \in Seq(Run)
        /\ ac \in 0..Len(runs) /\ ticking \in BOOLEAN
    BY LenProperties DEF TypeOK
  <1>2. PICK row \in Run :
          /\ runs' = Append(runs, row)
          /\ \/ /\ row.status = "running" /\ row.phase = "probing" /\ row.by = client
                /\ row.dispatched = {} /\ ticking' = TRUE /\ ac' = k
             \/ row.status = "closed" /\ row.phase = "over" /\ ticking' = ticking /\ ac' = ac
    BY NewRunType, EndedType DEF Begin
  <1>3. /\ runs' \in Seq(Run) /\ Len(runs') = k /\ DOMAIN runs' = DOMAIN runs \cup {k}
        /\ k \in Nat /\ k \notin DOMAIN runs /\ runs'[k] = row /\ ac # k
        /\ \A r \in DOMAIN runs : runs'[r] = runs[r]
    BY <1>1, <1>2
  <1>4. ticking' \in BOOLEAN /\ ac' \in 0..Len(runs')
    <2>1. ticking' \in BOOLEAN
      BY <1>1, <1>2
    <2>2. ac' \in 0..k
      BY <1>1, <1>2
    <2> QED
      BY <1>3, <2>1, <2>2
  <1> HIDE DEF k
  <1>5. \/ /\ row.status = "running" /\ row.phase = "probing" /\ row.by = client
           /\ row.dispatched = {} /\ ticking' = TRUE /\ ac' = k /\ ac # k
        \/ /\ row.status = "closed" /\ row.phase = "over"
           /\ ticking' = ticking /\ ac' = ac
    BY <1>2, <1>3
  <1> QED
    BY <1>3, <1>4, <1>5

-----------------------------------------------------------------------------
(* What the invariant says beside the types, kind of step by kind of step. *)

Rest == Flight /\ Own /\ OneOpen /\ ListenerIsServed /\ Backed

\* The one tick that is under way.
LEMMA TheTick ==
  ASSUME IInv, NEW r \in InFlight
  PROVE  /\ r \in DOMAIN runs /\ runs[r] \in Run /\ ticking /\ r = ac /\ up
         /\ runs[r].phase = "probing" /\ runs[r].status = "running" /\ runs[r].dispatched = {}
         /\ InFlight = {r}
  BY RowType DEF IInv, InFlight, Flight, Own, Flown

\* Some counters go back to zero.
LEMMA LessBacked ==
  ASSUME TypeOK, Backed, streak' = streak,
         \A k \in Services \X Origins : counter'[k] \in {counter[k], 0}
  PROVE  Backed'
  <1> SUFFICES ASSUME NEW s \in Services, NEW o \in Origins
               PROVE  counter'[<<s, o>>] <= streak[s]
    BY DEF Backed
  <1>1. counter'[<<s, o>>] \in {counter[<<s, o>>], 0} /\ counter[<<s, o>>] <= streak[s]
    BY DEF Backed
  <1>2. streak[s] \in Nat
    BY ScanAssumption DEF TypeOK
  <1> QED
    BY <1>1, <1>2

\* A step between ticks, or beside one: no row and no reading is touched.
LEMMA AsideKeeps ==
  ASSUME IInv, UNCHANGED <<up, ticking, ac, runs, awaiting, streak>>,
         cancelled' = cancelled, listener' \in {listener, NoClient},
         \A k \in Services \X Origins : counter'[k] \in {counter[k], 0}
  PROVE  Rest'
  <1>1. Flight' /\ Own' /\ OneOpen' /\ ListenerIsServed'
    BY DEF IInv, Flight, Own, OneOpen, ListenerIsServed, InFlight
  <1>2. Backed'
    BY LessBacked DEF IInv
  <1> QED
    BY <1>1, <1>2 DEF Rest

\* The tick under way is aborted and counts as cancelled.
LEMMA CancelKeeps ==
  ASSUME IInv, UNCHANGED <<up, ticking, ac, listener, awaiting, streak>>, Cancel,
         cancelled' \subseteq cancelled \cup InFlight,
         \A k \in Services \X Origins : counter'[k] \in {counter[k], 0}
  PROVE  Rest'
  <1>0. TypeOK
    BY DEF IInv
  <1>1. /\ DOMAIN runs' = DOMAIN runs
        /\ \A r \in DOMAIN runs : r # ac => runs'[r] = runs[r]
        /\ ac \in DOMAIN runs => runs'[ac] = [runs[ac] EXCEPT !.aborted = TRUE]
    BY <1>0, CancelRows
  <1>2. ASSUME NEW r \in DOMAIN runs
        PROVE  /\ runs'[r].status = runs[r].status /\ runs'[r].phase = runs[r].phase
               /\ runs'[r].by = runs[r].by /\ runs'[r].dispatched = runs[r].dispatched
               /\ r = ac => runs'[r].aborted
               /\ r # ac => runs'[r].aborted = runs[r].aborted
    BY <1>0, <1>1, RowType DEF Run
  <1>3. Flight'
    <2> SUFFICES ASSUME NEW r \in DOMAIN runs
                 PROVE  Flown(runs'[r], up, ticking /\ r = ac, r \in cancelled')
      BY <1>1 DEF Flight
    <2>1. Flown(runs[r], up, ticking /\ r = ac, r \in cancelled)
      BY DEF IInv, Flight
    <2>2. runs[r].phase = "probing" => r = ac
      BY <2>1 DEF Flown
    <2> QED
      BY <1>2, <2>1, <2>2 DEF Flown
  <1>4. Own' /\ OneOpen'
    BY <1>1, <1>2 DEF IInv, Own, OneOpen
  <1>5. ListenerIsServed'
    BY <1>1, <1>2 DEF IInv, ListenerIsServed, InFlight
  <1>6. Backed'
    BY <1>0, LessBacked DEF IInv
  <1> QED
    BY <1>3, <1>4, <1>5, <1>6 DEF Rest

\* A tick may begin when none is under way; when a connection asked for one that
\* begins, it becomes the listener.
LEMMA BeginKeeps ==
  ASSUME IInv, up, ~ticking, UNCHANGED <<up, counter, streak, cancelled>>,
         NEW client \in Clients \cup {NoClient}, Begin(client),
         \/ UNCHANGED <<listener, awaiting>>
         \/ IF ac' # ac THEN listener' = client /\ awaiting' = awaiting \cup {client}
                        ELSE listener' = NoClient
  PROVE  Rest'
  <1>0. TypeOK
    BY DEF IInv
  <1>1. PICK k \in Nat, row \in Run :
          /\ DOMAIN runs' = DOMAIN runs \cup {k} /\ k \notin DOMAIN runs /\ runs'[k] = row
          /\ \/ /\ row.status = "running" /\ row.phase = "probing" /\ row.by = client
                /\ row.dispatched = {} /\ ticking' = TRUE /\ ac' = k /\ ac # k
             \/ /\ row.status = "closed" /\ row.phase = "over"
                /\ ticking' = ticking /\ ac' = ac
    BY <1>0, BeginRows
  <1>2. \A r \in DOMAIN runs : runs'[r] = runs[r]
    BY <1>0, BeginRows
  <1>3. ASSUME NEW r \in DOMAIN runs
        PROVE  runs[r].phase # "probing" /\ runs[r].status # "running" /\ r # k
    BY <1>1 DEF IInv, Flight, Flown
  <1>4. Flight'
    <2>1. ASSUME NEW r \in DOMAIN runs
          PROVE  Flown(runs'[r], up', ticking' /\ r = ac', r \in cancelled')
      <3>1. ~(ticking' /\ r = ac')
        BY <1>1, <1>3
      <3> QED
        BY <1>2, <1>3, <3>1 DEF Flown
    <2>2. Flown(runs'[k], up', ticking' /\ k = ac', k \in cancelled')
      <3>1. k \notin cancelled'
        BY <1>0, <1>1 DEF TypeOK
      <3> QED
        BY <1>1, <3>1 DEF Flown
    <2> QED
      BY <1>1, <2>1, <2>2 DEF Flight
  <1>5. Own'
    BY <1>1 DEF Own
  <1>6. OneOpen'
    BY <1>1, <1>2, <1>3 DEF OneOpen
  <1>7. listener = NoClient
    BY <1>3 DEF IInv, ListenerIsServed, InFlight
  <1>8. ListenerIsServed'
    <2> SUFFICES ASSUME listener' # NoClient
                 PROVE  listener' \in awaiting' /\ \E r \in InFlight' : runs'[r].by = listener'
      BY DEF ListenerIsServed
    <2>1. ac' # ac /\ listener' = client /\ awaiting' = awaiting \cup {client}
      BY <1>7
    <2>2. k \in InFlight' /\ runs'[k].by = client
      BY <1>1, <2>1 DEF InFlight
    <2> QED
      BY <2>1, <2>2
  <1>9. Backed'
    BY DEF IInv, Backed
  <1> QED
    BY <1>4, <1>5, <1>6, <1>8, <1>9 DEF Rest

\* The tick ends with its row; counters and readings move together.
LEMMA EndKeeps ==
  ASSUME IInv, up' = up, NEW r \in InFlight, NEW row \in Run,
         runs' = [runs EXCEPT ![r] = row], row.phase = "over", row.status # "running",
         Leave(r), Backed'
  PROVE  Rest'
  <1>0. TypeOK
    BY DEF IInv
  <1>1. /\ r \in DOMAIN runs /\ r = ac /\ up /\ ticking
        /\ runs[r].phase = "probing" /\ runs[r].status = "running" /\ InFlight = {r}
    BY TheTick
  <1>2. /\ DOMAIN runs' = DOMAIN runs /\ runs'[r] = row
        /\ \A q \in DOMAIN runs : q # r => runs'[q] = runs[q]
    BY <1>1
  <1>3. ASSUME NEW q \in DOMAIN runs
        PROVE  runs'[q].phase # "probing" /\ runs'[q].status # "running"
    <2>1. CASE q = r
      BY <1>2, <2>1
    <2>2. CASE q # r
      <3>1. Flown(runs[q], up, ticking /\ q = ac, q \in cancelled)
        BY DEF IInv, Flight
      <3> QED
        BY <1>1, <1>2, <2>2, <3>1 DEF Flown
    <2> QED
      BY <2>1, <2>2
  <1>4. ticking' = FALSE
    BY DEF Leave
  <1>5. Flight' /\ Own' /\ OneOpen'
    BY <1>2, <1>3, <1>4 DEF Flight, Flown, Own, OneOpen
  <1>6. listener' = NoClient
    <2>1. CASE runs[r].by \in awaiting
      BY <2>1 DEF Leave
    <2>2. CASE runs[r].by \notin awaiting
      BY <1>1, <2>2 DEF Leave, clients, IInv, ListenerIsServed
    <2> QED
      BY <2>1, <2>2
  <1>7. ListenerIsServed'
    BY <1>6 DEF ListenerIsServed
  <1> QED
    BY <1>5, <1>7 DEF Rest

-----------------------------------------------------------------------------
(* Readings, counters and hits.                                            *)

LEMMA MinOfTwo ==
  ASSUME NEW a \in Int, NEW b \in Int
  PROVE  Min({a, b}) = IF a <= b THEN a ELSE b
  <1> DEFINE m == IF a <= b THEN a ELSE b
             P(x) == x \in {a, b} /\ \A y \in {a, b} : x <= y
  <1>1. P(m)
    OBVIOUS
  <1>2. \A x : P(x) => x = m
    OBVIOUS
  <1>3. Min({a, b}) = CHOOSE x : P(x)
    BY DEF Min
  <1> HIDE DEF m, P
  <1>4. P(CHOOSE x : P(x))
    BY <1>1
  <1> QED
    BY <1>2, <1>3, <1>4 DEF m

\* Counters and streak after a probe: typed, and a counter never ahead of its streak.
LEMMA ScoresBacked ==
  ASSUME TypeOK, Backed, NEW row \in Run, NEW breach \in SUBSET Services,
         counter' = Scored(row, breach), streak' = Seen(row, breach)
  PROVE  /\ counter' \in [Services \X Origins -> 0..Ticks]
         /\ streak' \in [Services -> 0..Ticks]
         /\ Backed'
  <1>0. Ticks \in Nat
    BY ScanAssumption
  <1>1. ASSUME NEW s \in Services, NEW o \in Origins
        PROVE  /\ counter[<<s, o>>] \in 0..Ticks /\ streak[s] \in 0..Ticks
               /\ counter[<<s, o>>] <= streak[s]
    BY DEF TypeOK, Backed
  <1>2. ASSUME NEW s \in Services
        PROVE  /\ streak'[s] = IF s \in breach /\ row.rules[s] # "none"
                               THEN IF Ticks <= streak[s] + 1 THEN Ticks ELSE streak[s] + 1
                               ELSE 0
               /\ streak'[s] \in 0..Ticks
    <2>1. streak[s] \in 0..Ticks /\ streak[s] + 1 \in Int /\ Ticks \in Int
      BY <1>0 DEF TypeOK
    <2>2. Min({Ticks, streak[s] + 1}) = IF Ticks <= streak[s] + 1 THEN Ticks ELSE streak[s] + 1
      BY <2>1, MinOfTwo
    <2> QED
      BY <1>0, <2>1, <2>2 DEF Seen
  <1>3. ASSUME NEW s \in Services, NEW o \in Origins
        PROVE  /\ counter'[<<s, o>>] =
                    IF row.rules[s] # "none" /\ row.origin[s] = o
                    THEN CountCapped(counter[<<s, o>>], s \in breach) ELSE 0
               /\ counter'[<<s, o>>] \in 0..Ticks
               /\ counter'[<<s, o>>] <= streak'[s]
    <2>1. counter'[<<s, o>>] =
            IF row.rules[s] # "none" /\ row.origin[s] = o
            THEN CountCapped(counter[<<s, o>>], s \in breach) ELSE 0
      BY DEF Scored
    <2>2. CASE row.rules[s] # "none" /\ row.origin[s] = o /\ s \in breach
      BY <1>0, <1>1, <1>2, <2>1, <2>2 DEF CountCapped, Count
    <2>3. CASE ~(row.rules[s] # "none" /\ row.origin[s] = o /\ s \in breach)
      <3>1. counter'[<<s, o>>] = 0
        BY <1>0, <2>1, <2>3 DEF CountCapped, Count
      <3> QED
        BY <1>0, <1>2, <2>1, <3>1
    <2> QED
      BY <2>2, <2>3
  <1>4. counter' \in [Services \X Origins -> 0..Ticks]
    <2>1. ASSUME NEW k \in Services \X Origins PROVE counter'[k] \in 0..Ticks
      <3>1. PICK s \in Services, o \in Origins : k = <<s, o>>
        OBVIOUS
      <3> QED
        BY <1>3, <3>1
    <2>2. DOMAIN counter' = Services \X Origins /\ counter' = [k \in Services \X Origins |-> counter'[k]]
      BY DEF Scored
    <2> QED
      BY <2>1, <2>2
  <1>5. streak' \in [Services -> 0..Ticks]
    <2>1. streak' = [s \in Services |-> streak'[s]]
      BY DEF Seen
    <2> QED
      BY <1>2, <2>1
  <1> QED
    BY <1>3, <1>4, <1>5 DEF Backed

\* A hit has the readings in a row that the rule asks for.
LEMMA HitsAreSustained ==
  ASSUME IInv, NEW r \in InFlight, NEW breach \in SUBSET Services,
         ProbeSettles(r, breach), NEW s \in Hits(runs[r], breach, counter')
  PROVE  streak'[s] >= Ticks
  <1>1. runs[r] \in Run /\ TypeOK /\ Backed
    BY TheTick DEF IInv
  <1>2. counter' = Scored(runs[r], breach) /\ streak' = Seen(runs[r], breach)
    BY DEF ProbeSettles
  <1>3. Backed' /\ counter' \in [Services \X Origins -> 0..Ticks] /\ streak' \in [Services -> 0..Ticks]
    BY <1>1, <1>2, ScoresBacked
  <1>4. s \in Services /\ runs[r].origin[s] \in Origins
    BY <1>1 DEF Hits, Run
  <1>5. counter'[<<s, runs[r].origin[s]>>] >= Ticks
    BY DEF Hits
  <1>6. counter'[<<s, runs[r].origin[s]>>] <= streak'[s]
    BY <1>3, <1>4 DEF Backed
  <1>7. counter'[<<s, runs[r].origin[s]>>] \in Int /\ streak'[s] \in Int /\ Ticks \in Int
    BY <1>3, <1>4, ScanAssumption
  <1> QED
    BY <1>5, <1>6, <1>7

\* What a tick leaves of its row: nothing is dispatched that was not a hit, and nothing
\* at all after an abort.
LEMMA SettledRow ==
  ASSUME IInv, NEW r \in InFlight, NEW breach \in SUBSET Services, ProbeSettles(r, breach)
  PROVE  \E row \in Run :
           /\ runs' = [runs EXCEPT ![r] = row]
           /\ row.phase = "over" /\ row.status # "running"
           /\ \/ row.dispatched = {}
              \/ ~runs[r].aborted /\ row.dispatched \subseteq Hits(runs[r], breach, counter')
  <1>1. TypeOK /\ runs[r] \in Run /\ runs[r].dispatched = {}
    BY TheTick DEF IInv
  <1>2. CASE runs' = [runs EXCEPT ![r] = Ended(@)]
    <2>1. runs' = [runs EXCEPT ![r] = Ended(runs[r])]
      BY <1>2
    <2> QED
      BY <1>1, <2>1, EndedType
  <1>3. ASSUME ~runs[r].aborted,
               NEW chosen \in Selections(Hits(runs[r], breach, counter')),
               NEW started \in SUBSET chosen,
               runs' = [runs EXCEPT ![r] = Ended([@ EXCEPT !.dispatched = started])]
        PROVE  \E row \in Run :
                 /\ runs' = [runs EXCEPT ![r] = row]
                 /\ row.phase = "over" /\ row.status # "running"
                 /\ ~runs[r].aborted /\ row.dispatched \subseteq Hits(runs[r], breach, counter')
    <2> DEFINE before == [runs[r] EXCEPT !.dispatched = started]
    <2>1. chosen \subseteq Hits(runs[r], breach, counter')
      BY DEF Selections, kSubset
    <2>2. Hits(runs[r], breach, counter') \subseteq Services
      BY DEF Hits
    <2>3. before \in Run /\ before.dispatched = started
      BY <1>1, <2>1, <2>2 DEF Run
    <2>4. runs' = [runs EXCEPT ![r] = Ended(before)]
      BY <1>3
    <2> HIDE DEF before
    <2>5. /\ Ended(before) \in Run /\ Ended(before).phase = "over"
          /\ Ended(before).status # "running"
          /\ Ended(before).dispatched = started
      BY <1>1, <2>3, EndedType
    <2> QED
      BY <1>3, <2>1, <2>4, <2>5
  <1>4. CASE stopped \/ runs[r].aborted
    BY <1>2, <1>4 DEF ProbeSettles
  <1>5. CASE ~(stopped \/ runs[r].aborted)
    <2>1. PICK chosen \in Selections(Hits(runs[r], breach, counter')) :
            IF chosen # {} /\ ~live
            THEN runs' = [runs EXCEPT ![r] = Ended(@)]
            ELSE \E started \in SUBSET chosen :
                   runs' = [runs EXCEPT ![r] = Ended([@ EXCEPT !.dispatched = started])]
      BY <1>5 DEF ProbeSettles
    <2>2. CASE chosen # {} /\ ~live
      BY <1>2, <2>1, <2>2
    <2>3. CASE ~(chosen # {} /\ ~live)
      BY <1>3, <1>5, <2>1, <2>3
    <2> QED
      BY <2>2, <2>3
  <1> QED
    BY <1>4, <1>5

-----------------------------------------------------------------------------
(* The actions keep the invariant.                                         *)

LEMMA InvariantParts == ASSUME TypeOK, Rest PROVE IInv
  BY DEF IInv, Rest

\* start() leaves schedule, flag and queue typed.
LEMMA StartType ==
  ASSUME TypeOK, NEW c \in Config, NEW k \in Crons \cup {"none"}, StartWith(c, k)
  PROVE  cron' \in Crons \cup {"none"} /\ stopped' \in BOOLEAN /\ kicks' \in Nat
  <1>1. CASE k # "none" \/ ~c.enabled
    BY <1>1 DEF TypeOK, StartWith
  <1>2. CASE ~(k # "none" \/ ~c.enabled)
    <2>1. cron' = c.cron /\ stopped' = FALSE /\ kicks' = kicks + 1
      BY <1>2 DEF StartWith
    <2>2. c.cron \in Crons
      BY DEF Config
    <2>3. kicks + 1 \in Nat
      BY DEF TypeOK
    <2> QED
      BY <2>1, <2>2, <2>3
  <1> QED
    BY <1>1, <1>2

\* Starting the scheduler touches nothing that a tick depends on.
LEMMA JitterKeeps ==
  ASSUME IInv, JitterElapsed
  PROVE  IInv'
  <1>0. TypeOK
    BY DEF IInv
  <1>1. cron' \in Crons \cup {"none"} /\ stopped' \in BOOLEAN /\ kicks' \in Nat
    BY <1>0, StartType DEF JitterElapsed, TypeOK
  <1>2. TypeOK'
    BY <1>0, <1>1 DEF JitterElapsed, TypeOK, config, clients, history
  <1>3. Rest'
    BY AsideKeeps DEF JitterElapsed, clients, history
  <1> QED
    BY <1>2, <1>3 DEF IInv, Rest

LEMMA ProviderKeeps ==
  ASSUME IInv, ProviderChanges
  PROVE  IInv'
  <1>0. TypeOK
    BY DEF IInv
  <1>1. /\ cron' \in Crons \cup {"none"} /\ stopped' \in BOOLEAN /\ kicks' \in Nat
        /\ starter' \in {"none", "timer", "skipped"} /\ viable' \in BOOLEAN
    BY <1>0, StartType DEF ProviderChanges, TypeOK
  <1>2. TypeOK'
    BY <1>0, <1>1 DEF ProviderChanges, TypeOK, config, clients, history
  <1>3. Rest'
    BY AsideKeeps DEF ProviderChanges, clients, history
  <1> QED
    BY <1>2, <1>3 DEF IInv, Rest

LEMMA OverrideKeeps ==
  ASSUME IInv, NEW s \in Services, NEW v \in Overrides \cup {"none"}, PutOverride(s, v)
  PROVE  IInv'
  <1>0. TypeOK
    BY DEF IInv
  <1>1. \A k \in Services \X Origins : counter'[k] \in {counter[k], 0}
    BY <1>0 DEF PutOverride, TypeOK
  <1>2. counter' \in [Services \X Origins -> 0..Ticks]
    <2>1. counter' = [k \in Services \X Origins |-> IF k[1] = s THEN 0 ELSE counter[k]]
      BY <1>0 DEF PutOverride, TypeOK
    <2>2. 0 \in 0..Ticks
      BY ScanAssumption
    <2> QED
      BY <1>0, <2>1, <2>2 DEF TypeOK
  <1>3. override' \in [Services -> Versions \cup {"none", "disabled"}]
    BY <1>0, ScanAssumption DEF PutOverride, TypeOK
  <1>4. TypeOK'
    BY <1>0, <1>2, <1>3 DEF PutOverride, TypeOK, clients, history
  <1>5. Rest'
    BY <1>1, AsideKeeps DEF PutOverride, clients, history
  <1> QED
    BY <1>4, <1>5 DEF IInv, Rest

LEMMA ReapKeeps ==
  ASSUME IInv, Reap
  PROVE  IInv'
  <1>0. TypeOK
    BY DEF IInv
  <1>1. runs' \in Seq(Run) /\ Len(runs') = Len(runs) /\ DOMAIN runs' = DOMAIN runs
    BY <1>0, CancelRows DEF Reap
  <1>2. TypeOK'
    BY <1>0, <1>1 DEF Reap, TypeOK, config, clients, InFlight
  <1>3. Rest'
    BY CancelKeeps DEF Reap, clients
  <1> QED
    BY <1>2, <1>3 DEF IInv, Rest

\* A reload resets counters or keeps them, and cancels exactly when it switches off.
LEMMA ReloadEffect ==
  ASSUME TypeOK, NEW c \in Config, Reload(c)
  PROVE  /\ counter' \in [Services \X Origins -> 0..Ticks]
         /\ \A k \in Services \X Origins : counter'[k] \in {counter[k], 0}
         /\ scan' = c
         /\ cron' \in Crons \cup {"none"} /\ stopped' \in BOOLEAN /\ kicks' \in Nat
         /\ IF scan.enabled /\ ~c.enabled THEN Cancel ELSE runs' = runs
  <1>0. NoCounts \in [Services \X Origins -> 0..Ticks] /\ \A k \in Services \X Origins : NoCounts[k] = 0
    BY ScanAssumption DEF NoCounts
  <1>1. /\ counter' \in [Services \X Origins -> 0..Ticks]
        /\ \A k \in Services \X Origins : counter'[k] \in {counter[k], 0}
    BY <1>0 DEF Reload, ResetForRule, TypeOK
  <1>2. "none" \in Crons \cup {"none"} /\ cron \in Crons \cup {"none"} /\ kicks \in Nat
        /\ stopped \in BOOLEAN
    BY DEF TypeOK
  <1>3. CASE scan.enabled /\ ~c.enabled /\ Cancel /\ cron' = "none" /\ UNCHANGED <<stopped, kicks>>
    BY <1>1, <1>2, <1>3 DEF Reload
  <1>4. CASE ~scan.enabled /\ c.enabled /\ StartWith(c, cron) /\ UNCHANGED runs
    BY <1>1, <1>2, <1>4, StartType DEF Reload
  <1>5. CASE /\ scan.enabled = c.enabled /\ UNCHANGED runs
             /\ IF c.enabled /\ c.cron # scan.cron
                THEN StartWith(c, "none")
                ELSE UNCHANGED <<cron, stopped, kicks>>
    <2>1. cron' \in Crons \cup {"none"} /\ stopped' \in BOOLEAN /\ kicks' \in Nat
      BY <1>2, <1>5, StartType
    <2> QED
      BY <1>1, <1>5, <2>1 DEF Reload
  <1> QED
    BY <1>3, <1>4, <1>5 DEF Reload

LEMMA SettingsKeeps ==
  ASSUME IInv, NEW c \in Config, PutSettings(c)
  PROVE  IInv'
  <1>0. TypeOK
    BY DEF IInv
  <1>1. CASE live /\ viable
    <2>1. /\ counter' \in [Services \X Origins -> 0..Ticks]
          /\ \A k \in Services \X Origins : counter'[k] \in {counter[k], 0}
          /\ scan' = c
          /\ cron' \in Crons \cup {"none"} /\ stopped' \in BOOLEAN /\ kicks' \in Nat
          /\ IF scan.enabled /\ ~c.enabled THEN Cancel ELSE runs' = runs
      BY <1>0, <1>1, ReloadEffect DEF PutSettings
    <2>2. cancelled' = IF scan.enabled /\ ~c.enabled THEN cancelled \cup InFlight ELSE cancelled
      BY <1>1 DEF PutSettings
    <2>3. runs' \in Seq(Run) /\ Len(runs') = Len(runs) /\ DOMAIN runs' = DOMAIN runs
      BY <1>0, <2>1, CancelRows DEF TypeOK
    <2>4. TypeOK'
      BY <1>0, <2>1, <2>2, <2>3 DEF PutSettings, TypeOK, clients, InFlight
    <2>5. UNCHANGED <<up, ticking, ac, listener, awaiting, streak>>
      BY DEF PutSettings, clients
    <2>6. Rest'
      BY <2>1, <2>2, <2>5, CancelKeeps, AsideKeeps
    <2> QED
      BY <2>4, <2>6 DEF IInv, Rest
  <1>2. CASE ~(live /\ viable)
    <2>1. TypeOK'
      BY <1>0, <1>2 DEF PutSettings, TypeOK, clients
    <2>2. Rest'
      BY <1>2, AsideKeeps DEF PutSettings, clients
    <2> QED
      BY <2>1, <2>2 DEF IInv, Rest
  <1> QED
    BY <1>1, <1>2

\* A tick that is asked for and does not begin.
LEMMA AutomaticKeeps ==
  ASSUME IInv, AutomaticTick
  PROVE  IInv'
  <1>0. TypeOK /\ kicks' \in Nat
    BY DEF IInv, TypeOK, AutomaticTick
  <1>1. CASE Idle
    <2>1. Begin(NoClient) /\ ~ticking /\ up
      BY <1>1 DEF AutomaticTick, Idle
    <2>2. runs' \in Seq(Run) /\ ticking' \in BOOLEAN /\ ac' \in 0..Len(runs') /\ DOMAIN runs \subseteq DOMAIN runs'
      BY <1>0, <2>1, BeginRows
    <2>3. TypeOK'
      BY <1>0, <2>2 DEF AutomaticTick, TypeOK, config, clients, history
    <2>4. Rest'
      BY <2>1, BeginKeeps DEF AutomaticTick, clients, history
    <2> QED
      BY <2>3, <2>4 DEF IInv, Rest
  <1>2. CASE ~Idle
    <2>1. TypeOK'
      BY <1>0, <1>2 DEF AutomaticTick, TypeOK, config, clients, history
    <2>2. Rest'
      BY <1>2, AsideKeeps DEF AutomaticTick, clients, history
    <2> QED
      BY <2>1, <2>2 DEF IInv, Rest
  <1> QED
    BY <1>1, <1>2

LEMMA HttpKeeps ==
  ASSUME IInv, HttpTrigger
  PROVE  IInv'
  <1>0. TypeOK
    BY DEF IInv
  <1>1. Begin(NoClient) /\ ~ticking /\ up
    BY DEF HttpTrigger, Idle
  <1>2. runs' \in Seq(Run) /\ ticking' \in BOOLEAN /\ ac' \in 0..Len(runs') /\ DOMAIN runs \subseteq DOMAIN runs'
    BY <1>0, <1>1, BeginRows
  <1>3. TypeOK'
    BY <1>0, <1>2 DEF HttpTrigger, TypeOK, config, clients, history
  <1>4. Rest'
    BY <1>1, BeginKeeps DEF HttpTrigger, clients, history
  <1> QED
    BY <1>3, <1>4 DEF IInv, Rest

LEMMA SocketKeeps ==
  ASSUME IInv, NEW c \in Clients, SocketTrigger(c)
  PROVE  IInv'
  <1>0. TypeOK
    BY DEF IInv
  <1>1. listener' \in Clients \cup {NoClient} /\ awaiting' \subseteq Clients
    BY <1>0 DEF SocketTrigger, TypeOK
  <1>2. CASE Triggerable /\ Idle
    <2>1. Begin(c) /\ ~ticking /\ up
      BY <1>2 DEF SocketTrigger, Idle
    <2>2. runs' \in Seq(Run) /\ ticking' \in BOOLEAN /\ ac' \in 0..Len(runs') /\ DOMAIN runs \subseteq DOMAIN runs'
      BY <1>0, <2>1, BeginRows
    <2>3. TypeOK'
      BY <1>0, <1>1, <2>2 DEF SocketTrigger, TypeOK, config, history
    <2>4. /\ UNCHANGED <<up, counter, streak, cancelled>>
          /\ IF ac' # ac THEN listener' = c /\ awaiting' = awaiting \cup {c} ELSE listener' = NoClient
      BY DEF SocketTrigger, history
    <2>5. Rest'
      BY <2>1, <2>4, BeginKeeps
    <2> QED
      BY <2>3, <2>5 DEF IInv, Rest
  <1>3. CASE ~(Triggerable /\ Idle)
    <2>1. UNCHANGED <<runs, ticking, ac>> /\ listener' = NoClient /\ awaiting' = awaiting
      BY <1>3 DEF SocketTrigger
    <2>2. TypeOK'
      BY <1>0, <1>1, <2>1 DEF SocketTrigger, TypeOK, config, history
    <2>3. Rest'
      BY <2>1, AsideKeeps DEF SocketTrigger, history
    <2> QED
      BY <2>2, <2>3 DEF IInv, Rest
  <1> QED
    BY <1>2, <1>3

\* Leaving a tick keeps what is not a row typed.
LEMMA LeaveType ==
  ASSUME TypeOK, NEW r \in DOMAIN runs, NEW row \in Run, runs' = [runs EXCEPT ![r] = row], Leave(r)
  PROVE  /\ runs' \in Seq(Run) /\ Len(runs') = Len(runs) /\ DOMAIN runs' = DOMAIN runs
         /\ ticking' \in BOOLEAN /\ ac' \in 0..Len(runs')
         /\ listener' \in Clients \cup {NoClient} /\ awaiting' \subseteq Clients
         /\ cancelled' \subseteq DOMAIN runs'
  <1>1. runs' \in Seq(Run) /\ Len(runs') = Len(runs) /\ DOMAIN runs' = DOMAIN runs
    BY ExceptSeq, LenProperties DEF TypeOK
  <1>2. ticking' = FALSE /\ ac' = 0 /\ cancelled' = cancelled \ {r}
    BY DEF Leave
  <1>3. listener' \in Clients \cup {NoClient} /\ awaiting' \subseteq Clients
    BY DEF Leave, TypeOK, clients
  <1>4. ac' \in 0..Len(runs')
    BY <1>1, <1>2 DEF TypeOK
  <1> QED
    BY <1>1, <1>2, <1>3, <1>4 DEF TypeOK

LEMMA FailsKeeps ==
  ASSUME IInv, NEW r \in InFlight, ProbeFails(r)
  PROVE  IInv'
  <1>0. TypeOK /\ runs[r] \in Run /\ r \in DOMAIN runs
    BY TheTick DEF IInv
  <1>1. runs' = [runs EXCEPT ![r] = Ended(runs[r])]
    BY DEF ProbeFails
  <1> DEFINE row == Ended(runs[r])
  <1>2. row \in Run /\ row.phase = "over" /\ row.status # "running"
    BY <1>0, EndedType
  <1>3. runs' = [runs EXCEPT ![r] = row]
    BY <1>1
  <1> HIDE DEF row
  <1>4. Leave(r) /\ UNCHANGED <<up, live, viable, config, cron, stopped, starter, kicks, counter, streak>>
    BY DEF ProbeFails
  <1>5. TypeOK'
    BY <1>0, <1>2, <1>3, <1>4, LeaveType DEF TypeOK, config
  <1>6. Backed'
    BY <1>4 DEF IInv, Backed
  <1>7. Rest'
    BY <1>2, <1>3, <1>4, <1>6, EndKeeps
  <1> QED
    BY <1>5, <1>7 DEF IInv, Rest

LEMMA SettlesKeeps ==
  ASSUME IInv, NEW r \in InFlight, NEW breach \in SUBSET Services, ProbeSettles(r, breach)
  PROVE  IInv'
  <1>0. TypeOK /\ runs[r] \in Run /\ r \in DOMAIN runs /\ Backed
    BY TheTick DEF IInv
  <1>1. PICK row \in Run : /\ runs' = [runs EXCEPT ![r] = row]
                           /\ row.phase = "over" /\ row.status # "running"
    BY SettledRow
  <1>2. /\ Leave(r) /\ UNCHANGED <<up, live, viable, config, cron, stopped, starter, kicks>>
        /\ counter' = Scored(runs[r], breach) /\ streak' = Seen(runs[r], breach)
    BY DEF ProbeSettles
  <1>3. /\ counter' \in [Services \X Origins -> 0..Ticks] /\ streak' \in [Services -> 0..Ticks]
        /\ Backed'
    BY <1>0, <1>2, ScoresBacked
  <1>4. TypeOK'
    BY <1>0, <1>1, <1>2, <1>3, LeaveType DEF TypeOK, config
  <1>5. Rest'
    BY <1>1, <1>2, <1>3, EndKeeps
  <1> QED
    BY <1>4, <1>5 DEF IInv, Rest

\* A scheduler that has just been made is typed, holds no tick and serves nobody.
LEMMA FreshState ==
  ASSUME Fresh
  PROVE  /\ cron' = "none" /\ stopped' \in BOOLEAN /\ ticking' \in BOOLEAN /\ kicks' \in Nat
         /\ ac' = 0 /\ ~ticking' /\ listener' = NoClient /\ awaiting' = {}
         /\ counter' \in [Services \X Origins -> 0..Ticks] /\ streak' \in [Services -> 0..Ticks]
         /\ Backed'
  <1>1. /\ cron' = "none" /\ stopped' = FALSE /\ ticking' = FALSE /\ kicks' = 0 /\ ac' = 0
        /\ listener' = NoClient /\ awaiting' = {} /\ counter' = NoCounts /\ streak' = NoStreak
    BY DEF Fresh
  <1>2. /\ NoCounts \in [Services \X Origins -> 0..Ticks] /\ NoStreak \in [Services -> 0..Ticks]
        /\ \A s \in Services, o \in Origins : NoCounts[<<s, o>>] <= NoStreak[s]
    BY ScanAssumption DEF NoCounts, NoStreak
  <1>3. Backed'
    BY <1>1, <1>2 DEF Backed
  <1> QED
    BY <1>1, <1>2, <1>3

LEMMA BootKeeps ==
  ASSUME IInv, Boot
  PROVE  IInv'
  <1>0. TypeOK /\ Flight /\ ~up /\ up' /\ Own
    BY DEF IInv, Boot
  <1>1. /\ cron' = "none" /\ stopped' \in BOOLEAN /\ ticking' \in BOOLEAN /\ kicks' \in Nat
        /\ ac' = 0 /\ ~ticking' /\ listener' = NoClient /\ awaiting' = {}
        /\ counter' \in [Services \X Origins -> 0..Ticks] /\ streak' \in [Services -> 0..Ticks]
        /\ Backed'
    BY FreshState DEF Boot
  <1>2. ASSUME NEW r \in DOMAIN runs
        PROVE  /\ runs'[r] \in Run /\ runs'[r].phase # "probing" /\ runs'[r].status # "running"
    <2>1. runs[r] \in Run /\ Flown(runs[r], up, ticking /\ r = ac, r \in cancelled)
      BY <1>0, RowType DEF Flight
    <2>2. runs'[r] = Swept(runs[r])
      BY DEF Boot
    <2>3. runs[r].phase # "probing"
      BY <1>0, <2>1 DEF Flown, Own
    <2> QED
      BY <2>1, <2>2, <2>3 DEF Swept, Run
  <1>3. DOMAIN runs' = DOMAIN runs /\ runs' \in [DOMAIN runs -> Run]
    BY <1>2 DEF Boot
  <1>4. runs' \in Seq(Run) /\ Len(runs') = Len(runs)
    BY <1>0, <1>3, Rewritten
  <1>5. TypeOK'
    BY <1>0, <1>1, <1>3, <1>4 DEF Boot, TypeOK, config
  <1>6. Flight' /\ Own' /\ OneOpen' /\ ListenerIsServed'
    BY <1>1, <1>2, <1>3 DEF Flight, Flown, Own, OneOpen, ListenerIsServed
  <1> QED
    BY <1>1, <1>5, <1>6 DEF IInv

LEMMA CrashKeeps ==
  ASSUME IInv, Crash
  PROVE  IInv'
  <1>0. TypeOK /\ OneOpen /\ up /\ ~up' /\ cancelled' = {}
    BY DEF IInv, Crash
  <1>1. /\ cron' = "none" /\ stopped' \in BOOLEAN /\ ticking' \in BOOLEAN /\ kicks' \in Nat
        /\ ac' = 0 /\ ~ticking' /\ listener' = NoClient /\ awaiting' = {}
        /\ counter' \in [Services \X Origins -> 0..Ticks] /\ streak' \in [Services -> 0..Ticks]
        /\ Backed'
    BY FreshState DEF Crash
  <1>2. ASSUME NEW r \in DOMAIN runs
        PROVE  runs'[r] \in Run /\ runs'[r].phase = "over" /\ runs'[r].status = runs[r].status
    <2>1. runs[r] \in Run /\ runs'[r] = [runs[r] EXCEPT !.phase = "over"]
      BY <1>0, RowType DEF Crash
    <2> QED
      BY <2>1 DEF Run
  <1>3. DOMAIN runs' = DOMAIN runs /\ runs' \in [DOMAIN runs -> Run]
    BY <1>2 DEF Crash
  <1>4. runs' \in Seq(Run) /\ Len(runs') = Len(runs)
    BY <1>0, <1>3, Rewritten
  <1>5. TypeOK'
    <2>1. /\ up' = FALSE /\ live' = live /\ viable' = viable /\ starter' = "none"
          /\ UNCHANGED <<settings, override>> /\ scan' = settings
      BY DEF Crash
    <2>2. {up', live', viable', stopped', ticking'} \subseteq BOOLEAN
      BY <1>0, <1>1, <2>1 DEF TypeOK
    <2>3. cancelled' \subseteq DOMAIN runs' /\ ac' \in 0..Len(runs')
      BY <1>0, <1>1, <1>4, LenProperties
    <2> QED
      BY <1>0, <1>1, <1>4, <2>1, <2>2, <2>3 DEF TypeOK
  <1>6. Flight' /\ Own' /\ OneOpen' /\ ListenerIsServed'
    BY <1>0, <1>1, <1>2, <1>3 DEF Flight, Flown, Own, OneOpen, ListenerIsServed
  <1> QED
    BY <1>1, <1>5, <1>6 DEF IInv

LEMMA InitIInv == Init => IInv
  <1> SUFFICES ASSUME Init PROVE IInv
    OBVIOUS
  <1>1. runs \in Seq(Run) /\ Len(runs) = 0 /\ DOMAIN runs = {}
    BY DEF Init
  <1>2. /\ counter \in [Services \X Origins -> 0..Ticks] /\ streak \in [Services -> 0..Ticks]
        /\ Backed
    BY ScanAssumption DEF Init, NoCounts, NoStreak, Backed
  <1>3. settings \in Config
    BY ScanAssumption DEF Init
  <1>4. TypeOK
    <2>1. {up, live, viable, stopped, ticking} \subseteq BOOLEAN
      BY DEF Init
    <2>2. /\ override \in [Services -> Versions \cup {"none", "disabled"}]
          /\ cron \in Crons \cup {"none"} /\ ac \in 0..Len(runs) /\ kicks \in Nat
          /\ starter \in {"none", "timer", "skipped"} /\ cancelled \subseteq DOMAIN runs
          /\ listener \in Clients \cup {NoClient} /\ awaiting \subseteq Clients
          /\ scan \in Config
      BY <1>1, <1>3 DEF Init
    <2> QED
      BY <1>1, <1>2, <1>3, <2>1, <2>2 DEF TypeOK
  <1>5. Flight /\ Own /\ OneOpen /\ ListenerIsServed
    BY <1>1 DEF Init, Flight, Own, OneOpen, ListenerIsServed
  <1> QED
    BY <1>2, <1>4, <1>5 DEF IInv

LEMMA NextKeeps == IInv /\ [Next]_vars => IInv'
  <1> SUFFICES ASSUME IInv, [Next]_vars PROVE IInv'
    OBVIOUS
  <1>1. ASSUME NEW c \in Configs, PutSettings(c) PROVE IInv'
    BY <1>1, SettingsKeeps, ScanAssumption
  <1>2. ASSUME NEW s \in Services, NEW v \in Overrides \cup {"none"}, PutOverride(s, v) PROVE IInv'
    BY <1>2, OverrideKeeps
  <1>3. ASSUME NEW c \in Clients, SocketTrigger(c) PROVE IInv'
    BY <1>3, SocketKeeps
  <1>4. ASSUME NEW r \in 1..MaxRuns, Step(r) PROVE IInv'
    <2>1. CASE ProbeFails(r)
      BY <2>1, FailsKeeps DEF ProbeFails
    <2>2. CASE \E breach \in SUBSET Services : ProbeSettles(r, breach)
      BY <2>2, SettlesKeeps DEF ProbeSettles
    <2> QED
      BY <1>4, <2>1, <2>2 DEF Step
  <1>5. ASSUME UNCHANGED vars PROVE IInv'
    <2>1. UNCHANGED <<up, live, viable, settings, override, scan, cron, stopped, ticking, ac,
                      starter, kicks, counter, runs, listener, awaiting, streak, cancelled>>
      BY <1>5 DEF vars, config, clients, history
    <2>2. TypeOK'
      BY <2>1 DEF IInv, TypeOK
    <2>3. Rest'
      BY <2>1, AsideKeeps
    <2> QED
      BY <2>2, <2>3 DEF IInv, Rest
  <1> QED
    BY <1>1, <1>2, <1>3, <1>4, <1>5, BootKeeps, CrashKeeps, JitterKeeps, ProviderKeeps,
       ReapKeeps, AutomaticKeeps, HttpKeeps DEF Next

-----------------------------------------------------------------------------
(* What follows.                                                           *)

\* The inductive invariant holds.
THEOREM ScanInvariant == Spec => []IInv
  BY InitIInv, NextKeeps, PTL DEF Spec

\* Every variable of the scheduler, its rows and its connections keeps its type.
THEOREM ScanTypes == Spec => []TypeOK
  <1>1. IInv => TypeOK
    BY DEF IInv
  <1> QED
    BY <1>1, ScanInvariant, PTL

\* While the process runs, the only row that reads running is that of the tick under
\* way; a crash leaves at most one (finalize, skip, fail, sweepStaleScanRuns).
THEOREM OneRowIsOpen == Spec => []RowsAreClosed
  <1>1. IInv => RowsAreClosed
    <2> SUFFICES ASSUME IInv PROVE RowsAreClosed
      OBVIOUS
    <2> DEFINE running == {r \in DOMAIN runs : runs[r].status = "running"}
    <2>1. up => running = InFlight
      BY DEF IInv, Flight, Flown, InFlight
    <2>2. \A q, r \in running : q = r
      BY DEF IInv, OneOpen
    <2>3. Cardinality(running) <= 1
      <3>1. CASE running = {}
        BY <3>1, FS_EmptySet
      <3>2. CASE running # {}
        <4>1. PICK r \in running : TRUE
          BY <3>2
        <4>2. running = {r}
          BY <2>2, <4>1
        <4> HIDE DEF running
        <4>3. Cardinality({r}) = 1
          BY FS_Singleton
        <4> QED
          BY <4>2, <4>3
      <3> QED
        BY <3>1, <3>2
    <2> QED
      BY <2>1, <2>3 DEF RowsAreClosed
  <1> QED
    BY <1>1, ScanInvariant, PTL

\* A connection that receives the events of a tick waits for that tick, which it began
\* (the scan:trigger handler).
THEOREM ListenerHasItsTick == Spec => []ListenerIsServed
  <1>1. IInv => ListenerIsServed
    BY DEF IInv
  <1> QED
    BY <1>1, ScanInvariant, PTL

\* What a step may do to a row that is probed when it does not settle that row.
LEMMA OthersDispatchNothing ==
  ASSUME IInv, Next, NEW r \in InFlight,
         ~\E breach \in SUBSET Services : ProbeSettles(r, breach)
  PROVE  runs'[r].dispatched = {}
  <1>0. TypeOK
    BY DEF IInv
  <1>1. r \in DOMAIN runs /\ runs[r] \in Run /\ runs[r].dispatched = {} /\ ticking /\ InFlight = {r}
        /\ r = ac /\ up
    BY TheTick
  <1>2. ASSUME runs' = runs PROVE runs'[r].dispatched = {}
    BY <1>1, <1>2
  <1>3. ASSUME Cancel PROVE runs'[r].dispatched = {}
    BY <1>0, <1>1, <1>3, CancelRows DEF Run
  <1>4. ASSUME NEW c \in Configs, PutSettings(c) PROVE runs'[r].dispatched = {}
    <2>1. runs' = runs \/ Cancel
      BY <1>0, <1>4, ReloadEffect, ScanAssumption DEF PutSettings
    <2> QED
      BY <1>2, <1>3, <2>1
  <1>5. ASSUME AutomaticTick \/ HttpTrigger \/ \E c \in Clients : SocketTrigger(c)
        PROVE  runs'[r].dispatched = {}
    BY <1>1, <1>2, <1>5 DEF AutomaticTick, HttpTrigger, SocketTrigger, Idle
  <1>6. ASSUME NEW q \in 1..MaxRuns, Step(q) PROVE runs'[r].dispatched = {}
    <2>1. q \in InFlight
      BY <1>6 DEF Step, ProbeFails, ProbeSettles
    <2>2. q = r
      BY <1>1, <2>1
    <2>3. ProbeFails(r)
      BY <1>6, <2>2 DEF Step
    <2>4. runs' = [runs EXCEPT ![r] = Ended(runs[r])]
      BY <2>3 DEF ProbeFails
    <2>5. Ended(runs[r]).dispatched = {}
      BY <1>0, <1>1, EndedType
    <2> QED
      BY <1>1, <2>4, <2>5
  <1>7. ASSUME Crash PROVE runs'[r].dispatched = {}
    BY <1>1, <1>7 DEF Crash, Run
  <1>8. ~Boot
    BY <1>1 DEF Boot
  <1>9. JitterElapsed \/ ProviderChanges => runs' = runs
    BY DEF JitterElapsed, ProviderChanges
  <1>10. Reap => Cancel
    BY DEF Reap
  <1>11. \A s \in Services, v \in Overrides \cup {"none"} : PutOverride(s, v) => runs' = runs
    BY DEF PutOverride
  <1> QED
    BY <1>2, <1>3, <1>4, <1>5, <1>6, <1>7, <1>8, <1>9, <1>10, <1>11 DEF Next

\* Nobody is investigated on fewer consecutive readings above the threshold than the
\* rule asks for, whatever reloads, overrides, aborts and restarts lie between them
\* (runProbe, resetHysteresisForChangedRules, resetHysteresisForService).
THEOREM BreachesAreSustained == Spec => SustainedBreach
  <1> DEFINE A == \A r \in InFlight : \A s \in runs'[r].dispatched : streak'[s] >= Ticks
  <1>1. IInv /\ [Next]_vars => [A]_vars
    <2> SUFFICES ASSUME IInv, Next, NEW r \in InFlight, NEW s \in runs'[r].dispatched
                 PROVE  streak'[s] >= Ticks
      OBVIOUS
    <2>1. PICK breach \in SUBSET Services : ProbeSettles(r, breach)
      BY OthersDispatchNothing
    <2>2. PICK row \in Run :
            /\ runs' = [runs EXCEPT ![r] = row]
            /\ \/ row.dispatched = {}
               \/ ~runs[r].aborted /\ row.dispatched \subseteq Hits(runs[r], breach, counter')
      BY <2>1, SettledRow
    <2>3. runs'[r] = row
      BY <2>2, TheTick
    <2>4. s \in Hits(runs[r], breach, counter')
      BY <2>2, <2>3
    <2> QED
      BY <2>1, <2>4, HitsAreSustained
  <1>2. Spec => [][A]_vars
    BY <1>1, ScanInvariant, PTL DEF Spec
  <1> QED
    BY <1>2 DEF SustainedBreach

\* A tick during which the scan was switched off or its stack torn down dispatches
\* nothing, also when the scan was switched on again meanwhile (stop, reload, tick).
THEOREM CancelledIsQuiet == Spec => CancelledTickIsQuiet
  <1> DEFINE A == \A r \in InFlight \cap cancelled : runs'[r].dispatched = {}
  <1>1. IInv /\ [Next]_vars => [A]_vars
    <2> SUFFICES ASSUME IInv, Next, NEW r \in InFlight, r \in cancelled
                 PROVE  runs'[r].dispatched = {}
      OBVIOUS
    <2>1. CASE ~\E breach \in SUBSET Services : ProbeSettles(r, breach)
      BY <2>1, OthersDispatchNothing
    <2>2. CASE \E breach \in SUBSET Services : ProbeSettles(r, breach)
      <3>1. PICK breach \in SUBSET Services : ProbeSettles(r, breach)
        BY <2>2
      <3>2. PICK row \in Run :
              /\ runs' = [runs EXCEPT ![r] = row]
              /\ row.dispatched = {} \/ ~runs[r].aborted
        BY <3>1, SettledRow
      <3>3. runs'[r] = row
        BY <3>2, TheTick
      <3>4. runs[r].aborted
        BY TheTick DEF IInv, Flight, Flown
      <3> QED
        BY <3>2, <3>3, <3>4
    <2> QED
      BY <2>1, <2>2
  <1>2. Spec => [][A]_vars
    BY <1>1, ScanInvariant, PTL DEF Spec
  <1> QED
    BY <1>2 DEF CancelledTickIsQuiet

=============================================================================
