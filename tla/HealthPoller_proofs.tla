-------------------------- MODULE HealthPoller_proofs --------------------------
(***************************************************************************)
(* Proofs about HealthPoller, for every set of services, every answer the  *)
(* backend may hold and every number of overlapping polls.                 *)
(*                                                                         *)
(* That the cache agrees with rows and events while the process runs is    *)
(* not inductive: a restart takes the cache from the rows.  The rows       *)
(* themselves agree with the events, also while the process is down        *)
(* (Announced), and a cached status is that of the row (Recorded).         *)
(***************************************************************************)
EXTENDS HealthPoller, TLAPS

Announced ==
  \A s \in Services : rows[s] # "none" => feed[s] = rows[s] \/ s \in quiet

Recorded == \A s \in Services : cache[s] # "none" => rows[s] = cache[s]

IInv == TypeOK /\ (life # "gone" => Announced /\ Recorded)

-----------------------------------------------------------------------------

\* A poll yields one of the three statuses.
LEMMA VerdictType ==
  ASSUME NEW silent, NEW loud
  PROVE  Verdict(silent, loud) \in Statuses
  BY DEF Verdict, Matched, Statuses

\* Beginning a poll keeps the polls typed.
LEMMA BeginType ==
  ASSUME TypeOK, Begin
  PROVE  polls' \in [Slots -> Poll]
  <1>1. [NoPoll EXCEPT !.at = "tools", !.names = Visible] \in Poll
    BY DEF NoPoll, Poll, NoAnswer, Visible, TypeOK
  <1> QED
    BY <1>1 DEF Begin, Free, TypeOK

\* A poll that has its tools goes on to ask.
LEMMA AskedType ==
  ASSUME NEW p \in Poll
  PROVE  [p EXCEPT !.at = "queries"] \in Poll
  BY DEF Poll

LEMMA NoPollType == NoPoll \in Poll
  BY DEF NoPoll, Poll, NoAnswer

\* The initial states are typed, nothing is recorded in them.
LEMMA InitIInv == Init => IInv
  <1> SUFFICES ASSUME Init PROVE IInv
    OBVIOUS
  <1>1. TypeOK
    BY NoPollType DEF Init, TypeOK, Unread
  <1>2. Announced /\ Recorded
    BY DEF Init, Announced, Recorded, Unread
  <1> QED
    BY <1>1, <1>2 DEF IInv

\* What a poll that concludes writes.
LEMMA ConcludeWrites ==
  ASSUME TypeOK, NEW i \in Slots, Conclude(i)
  PROVE  /\ feed' \in [Services -> Statuses \cup {"none"}]
         /\ rows' \in [Services -> Statuses \cup {"none"}]
         /\ cache' \in [Services -> Statuses \cup {"none"}]
         /\ quiet' \subseteq Services /\ marked' \subseteq Services
         /\ polls' \in [Slots -> Poll]
         /\ \A s \in Services : cache'[s] # "none" => rows'[s] = cache'[s]
         /\ Announced /\ Recorded =>
              \A s \in Services : rows'[s] # "none" => feed'[s] = rows'[s] \/ s \in quiet'
         /\ \A s \in marked' \ marked : life = "live" /\ s \in Visible /\ rows'[s] = "down"
  <1> DEFINE p      == polls[i]
             status == [s \in Services |-> Verdict(p.silent[s], p.loud[s])]
             moved  == {s \in p.names :
                          IsTransition(cache[s], status[s], DownViaUp(p.silent[s], p.loud[s]))}
             From(s) == IF cache[s] = "none" THEN "unknown" ELSE cache[s]
             known  == {s \in moved : Investigable(s, From(s), status[s])}
  <1>1. /\ feed' = [s \in Services |-> IF s \in moved THEN status[s] ELSE feed[s]]
        /\ rows' = [s \in Services |-> IF s \in p.names THEN status[s] ELSE rows[s]]
        /\ cache' = CachedAfter(p.names, status)
        /\ quiet' = (quiet \ moved) \cup {s \in p.names \ moved : cache[s] = "none"}
        /\ \E granted \in SUBSET known : marked' = marked \cup granted
        /\ polls' = [polls EXCEPT ![i] = NoPoll]
    BY DEF Conclude
  <1>2. p.names \subseteq Services /\ moved \subseteq p.names /\ known \subseteq moved
    BY DEF TypeOK, Poll
  <1>3. \A s \in Services : status[s] \in Statuses
    BY VerdictType
  <1>4. \A s \in p.names : s \notin moved /\ cache[s] # "none" => status[s] = cache[s]
    BY DEF IsTransition
  <1>5. \A s \in known : life = "live" /\ s \in Visible /\ status[s] = "down"
    BY DEF Investigable, Visible
  <1> HIDE DEF status, moved, known
  <1>6. \A s \in Services : cache'[s] = IF s \in p.names THEN status[s] ELSE "none"
    BY <1>1 DEF CachedAfter
  <1>7. /\ feed' \in [Services -> Statuses \cup {"none"}]
        /\ rows' \in [Services -> Statuses \cup {"none"}]
        /\ quiet' \subseteq Services /\ marked' \subseteq Services
    BY <1>1, <1>2, <1>3 DEF TypeOK
  <1>8. cache' \in [Services -> Statuses \cup {"none"}]
    BY <1>1, <1>3 DEF CachedAfter
  <1>9. polls' \in [Slots -> Poll]
    BY <1>1, NoPollType DEF TypeOK
  <1>10. \A s \in Services : cache'[s] # "none" => rows'[s] = cache'[s]
    BY <1>1, <1>6
  <1>11. ASSUME Announced, Recorded, NEW s \in Services, rows'[s] # "none"
         PROVE  feed'[s] = rows'[s] \/ s \in quiet'
    <2>1. CASE s \in moved
      BY <1>1, <1>2, <2>1
    <2>2. CASE s \in p.names \ moved
      BY <1>1, <1>3, <1>4, <1>11, <2>2 DEF Announced, Recorded, Statuses
    <2>3. CASE s \notin p.names
      BY <1>1, <1>2, <1>11, <2>3 DEF Announced
    <2> QED
      BY <2>1, <2>2, <2>3
  <1>12. \A s \in marked' \ marked : life = "live" /\ s \in Visible /\ rows'[s] = "down"
    BY <1>1, <1>2, <1>5
  <1> QED
    BY <1>7, <1>8, <1>9, <1>10, <1>11, <1>12

\* Every step keeps the invariant.
LEMMA NextIInv ==
  ASSUME IInv, [Next]_vars
  PROVE  IInv'
  <1> USE DEF IInv, stack, config, record
  <1>1. CASE Fire
    BY <1>1, BeginType DEF Fire, TypeOK, Announced, Recorded
  <1>2. CASE \E i \in Slots : PollStep(i)
    <2> PICK i \in Slots : PollStep(i)
      BY <1>2
    <2>1. CASE ToolsFail(i)
      <3>1. polls' \in [Slots -> Poll]
        BY <2>1, NoPollType DEF ToolsFail, TypeOK
      <3> QED
        BY <2>1, <3>1 DEF ToolsFail, TypeOK, Announced, Recorded
    <2>2. CASE AskBackend(i)
      <3>1. [polls[i] EXCEPT !.at = "queries"] \in Poll
        <4>1. polls[i] \in Poll
          BY DEF TypeOK
        <4> QED
          BY <4>1, AskedType
      <3>2. polls' \in [Slots -> Poll]
        BY <2>2, <3>1 DEF AskBackend, TypeOK
      <3> QED
        BY <2>2, <3>2 DEF AskBackend, TypeOK, Announced, Recorded
    <2>3. ASSUME NEW failed, Answer(i, failed) PROVE IInv'
      <3>1. \A s \in Services : world[s].silent \in SUBSET Values /\ world[s].loud \in SUBSET Values
        BY HealthAssumption DEF TypeOK
      <3>2. /\ Seen(i, "silent", failed) \in [Services -> SUBSET Values]
            /\ Seen(i, "loud", failed) \in [Services -> SUBSET Values]
        BY <3>1 DEF Seen
      <3>3. [at |-> "answered", names |-> polls[i].names, silent |-> Seen(i, "silent", failed),
             loud |-> Seen(i, "loud", failed)] \in Poll
        BY <3>2 DEF TypeOK, Poll
      <3>4. polls' \in [Slots -> Poll]
        BY <2>3, <3>3 DEF Answer, TypeOK
      <3> QED
        BY <2>3, <3>4 DEF Answer, TypeOK, Announced, Recorded
    <2>4. CASE Conclude(i)
      <3>1. /\ life' = life /\ UNCHANGED <<up, starter, interval, world, registry, hidden, uid>>
        BY <2>4 DEF Conclude
      <3>2. TypeOK'
        BY <2>4, <3>1, ConcludeWrites DEF TypeOK
      <3>3. life # "gone" => Announced' /\ Recorded'
        BY <2>4, ConcludeWrites DEF Announced, Recorded
      <3> QED
        BY <3>1, <3>2, <3>3
    <2> QED
      BY <2>1, <2>2, <2>3, <2>4 DEF PollStep, Answered, QueriesFail
  <1>3. CASE Boot
    BY <1>3 DEF Boot, Construct, TypeOK, Announced, Recorded
  <1>4. CASE Crash
    BY <1>4, NoPollType DEF Crash, TypeOK, Announced, Recorded, Unread
  <1>5. CASE Create
    <2>1. polls' \in [Slots -> Poll] /\ interval' \in BOOLEAN /\ starter' \in {"none", "timer", "skipped"}
      BY <1>5, BeginType DEF Create, Start, TypeOK
    <2> QED
      BY <1>5, <2>1 DEF Create, Construct, TypeOK, Announced, Recorded
  <1>6. CASE JitterElapsed
    BY <1>6, BeginType DEF JitterElapsed, Start, TypeOK, Announced, Recorded
  <1>7. CASE ProviderViable
    BY <1>7, BeginType DEF ProviderViable, Start, TypeOK, Announced, Recorded
  <1>8. CASE TearDown
    BY <1>8 DEF TearDown, TypeOK, Unread
  <1>9. CASE WorldChanges
    BY <1>9 DEF WorldChanges, TypeOK, Announced, Recorded
  <1>10. CASE Reconfigure
    BY <1>10 DEF Reconfigure, TypeOK, Announced, Recorded
  <1>11. CASE DatasourceReplaced
    BY <1>11 DEF DatasourceReplaced, TypeOK, Announced, Recorded
  <1>12. CASE Forget
    BY <1>12 DEF Forget, TypeOK, Announced, Recorded
  <1>13. CASE UNCHANGED vars
    BY <1>13 DEF vars, TypeOK, Announced, Recorded
  <1> QED
    BY <1>1, <1>2, <1>3, <1>4, <1>5, <1>6, <1>7, <1>8, <1>9, <1>10, <1>11, <1>12, <1>13 DEF Next

\* The health poller's variables keep their types, and what rows and events say of a
\* service agrees with the cache and with each other in every reachable state.
THEOREM HealthInvariant == Spec => []IInv
  <1> QED
    BY InitIInv, NextIInv, PTL DEF Spec

THEOREM HealthTypeOK == Spec => []TypeOK
  <1>1. IInv => TypeOK
    BY DEF IInv
  <1> QED
    BY <1>1, HealthInvariant, PTL

\* What the Ops Desk shows is the latest row and the latest event, whatever polls
\* overlap and wherever the process is restarted.
THEOREM HealthFeedIsCurrent == Spec => []FeedIsCurrent
  <1>1. IInv => FeedIsCurrent
    BY DEF IInv, TypeOK, FeedIsCurrent, Announced, Recorded
  <1> QED
    BY <1>1, HealthInvariant, PTL

\* Only a service that is watched at that moment is marked as investigated.
THEOREM HealthOnlyWatched == Spec => OnlyWatchedIsInvestigated
  <1> DEFINE Fair == \A s \in marked' \ marked : life = "live" /\ s \in Visible /\ rows'[s] = "down"
  <1>1. ASSUME IInv, [Next]_vars PROVE Fair
    <2> USE DEF stack, config, record
    <2>1. ASSUME NEW i \in Slots, PollStep(i) PROVE Fair
      <3>1. CASE Conclude(i)
        BY <1>1, <3>1, ConcludeWrites DEF IInv
      <3> QED
        BY <2>1, <3>1 DEF PollStep, ToolsFail, AskBackend, Answered, QueriesFail, Answer
    <2>2. CASE \E i \in Slots : PollStep(i)
      BY <2>1, <2>2
    <2> QED
      BY <1>1, <2>2 DEF Next, Fire, Boot, Crash, Create, JitterElapsed, ProviderViable,
         TearDown, WorldChanges, Reconfigure, DatasourceReplaced, Forget, vars
  <1>2. IInv /\ [Next]_vars => [Fair]_vars
    BY <1>1
  <1> QED
    BY <1>2, HealthInvariant, PTL DEF Spec, OnlyWatchedIsInvestigated

=============================================================================
