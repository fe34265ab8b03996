------------------------ MODULE PeriodicDiscovery_proofs ------------------------
(***************************************************************************)
(* Proofs about PeriodicDiscovery, for every set of services and channels, *)
(* every consensus asked for and any number of runs and versions.          *)
(*                                                                         *)
(* The consensus is inductive once every row was last seen by a run there  *)
(* was and the last success before a run is well defined (Latest, which    *)
(* the runs establish one by one); that a dismissal is kept needs the word *)
(* on the removals under corroboration (Quiet), and that every channel is  *)
(* told needs what has become of each letter of the tick (Post).           *)
(***************************************************************************)
EXTENDS PeriodicDiscovery, SequenceTheorems, TLAPS

Statuses == {"running", "success", "failed", "skipped"}

TickOf ==
  [pc : {"idle", "discovering", "corroborating", "notifying"},
   registered : SUBSET Services, missing : SUBSET Services,
   todo : SUBSET Mail, sending : Mail \cup {NoMail}, tried : SUBSET Mail]

Shape ==
  /\ registry \subseteq Services /\ version \in Nat
  /\ runs \in Seq(Statuses)
  /\ streak \in Seq([Keys -> Nat]) /\ Len(streak) = Len(runs)
  /\ rows \in [Keys -> Row]
  /\ dismissed \subseteq Keys /\ probing \subseteq Ids /\ heard \subseteq Mail
  /\ tick \in TickOf

\* What a tick under way is to the runs, and what it holds where.
Ticking ==
  /\ tick.pc # "idle" => This >= 1
  /\ \A r \in 1..This : runs[r] = "running" <=> r = This /\ tick.pc # "idle"
  /\ tick.sending \in (IF tick.pc = "notifying" THEN Mail ELSE {NoMail})
  /\ tick.missing \subseteq tick.registered
  /\ tick.pc # "corroborating" => tick.missing = {}

\* Up to each run there is a last successful one, or none at all.
LastUpTo(n, m, status) ==
  /\ m > 0 => status[m] = "success"
  /\ \A q \in 1..n : status[q] = "success" => q <= m

Latest == \A n \in 0..This : \E m \in 0..n : LastUpTo(n, m, runs)

\* A row was last seen by a run there was, in a streak as long as it says.
Told(k, row, streaks) ==
  row # NoRow =>
    /\ row.last \in 1..Len(streaks) /\ row.seen <= streaks[row.last][k]
    /\ row.qualified => Needed(k) <= streaks[row.last][k]

Tallied == \A k \in Keys : Told(k, rows[k], streak)

\* A removal that was dismissed while it is corroborated has no row.
Quiet ==
  /\ DismissedIsQuiet
  /\ \A s \in tick.missing : <<"removal", s>> \in dismissed => rows[<<"removal", s>>] = NoRow

\* What is to be told was not heard, and nothing that is shown is forgotten.
Post ==
  /\ tick.todo \cap heard = {} /\ tick.sending \notin tick.todo
  /\ tick.pc = "notifying" => Letters(rows) \subseteq heard \cup tick.tried \cup tick.todo

IInv == Shape /\ Ticking /\ Latest /\ Tallied /\ Quiet /\ Post

-----------------------------------------------------------------------------
(* The last successful run, streaks and rows.                              *)

\* getPreviousSuccessfulRunId is well defined.
LEMMA PreviousType ==
  ASSUME Shape, Latest, This >= 1
  PROVE  Previous \in 0..(This - 1)
  <1> DEFINE before == {r \in 1..(This - 1) : runs[r] = "success"}
  <1>1. This \in Nat
    BY DEF Shape, This
  <1>2. CASE before = {}
    BY <1>1, <1>2 DEF Previous
  <1>3. CASE before # {}
    <2>1. This - 1 \in 0..This
      BY <1>1
    <2>2. PICK m \in 0..(This - 1) : LastUpTo(This - 1, m, runs)
      BY <2>1 DEF Latest
    <2>3. m \in before /\ \A q \in before : q <= m
      BY <1>1, <1>3, <2>2 DEF LastUpTo
    <2>4. (CHOOSE r \in before : \A q \in before : q <= r) \in before
      <3> HIDE DEF before
      <3> QED
        BY <2>3
    <2> QED
      BY <1>1, <1>3, <2>4 DEF Previous
  <1> QED
    BY <1>2, <1>3

LEMMA NoRowType == NoRow \in Row /\ Idle \in TickOf
  BY DEF NoRow, Row, Unstamped, Idle, TickOf

\* How a run continues the streaks.
LEMMA StreaksType ==
  ASSUME Shape, Latest, This >= 1, NEW seen
  PROVE  /\ Streaks(seen) \in Seq([Keys -> Nat]) /\ Len(Streaks(seen)) = Len(streak)
         /\ \A k \in Keys :
              /\ k \in seen => Streaks(seen)[This][k] =
                                 1 + (IF Previous = 0 THEN 0 ELSE streak[Previous][k])
              /\ k \notin seen => \A r \in 1..This : Streaks(seen)[r][k] = streak[r][k]
  <1> DEFINE one == [k \in Keys |-> IF k \in seen
                       THEN 1 + (IF Previous = 0 THEN 0 ELSE streak[Previous][k])
                       ELSE streak[This][k]]
  <1>1. /\ This \in Nat /\ This = Len(streak) /\ Previous \in 0..(This - 1)
        /\ streak \in [1..This -> [Keys -> Nat]]
    BY PreviousType DEF Shape, This
  <1>2. one \in [Keys -> Nat]
    <2>1. streak[This] \in [Keys -> Nat]
      BY <1>1
    <2>2. Previous # 0 => Previous \in 1..This
      BY <1>1
    <2>3. Previous # 0 => streak[Previous] \in [Keys -> Nat]
      BY <1>1, <2>2
    <2> QED
      BY <2>1, <2>3
  <1>3. Streaks(seen) = [streak EXCEPT ![This] = one]
    BY <1>1 DEF Streaks
  <1>4. \A k \in Keys : one[k] = IF k \in seen
           THEN 1 + (IF Previous = 0 THEN 0 ELSE streak[Previous][k]) ELSE streak[This][k]
    OBVIOUS
  <1> HIDE DEF one
  <1>5. Streaks(seen) \in Seq([Keys -> Nat]) /\ Len(Streaks(seen)) = Len(streak)
    <2>1. Streaks(seen) \in [1..This -> [Keys -> Nat]]
      BY <1>1, <1>2, <1>3
    <2>2. Streaks(seen) \in Seq([Keys -> Nat])
      BY <1>1, <2>1, SeqDef
    <2>3. Len(Streaks(seen)) = This
      BY <1>1, <2>1, <2>2, LenProperties
    <2> QED
      BY <1>1, <2>2, <2>3
  <1>6. \A r \in 1..This : Streaks(seen)[r] = IF r = This THEN one ELSE streak[r]
    BY <1>1, <1>3
  <1>7. \A k \in Keys : k \in seen => Streaks(seen)[This][k] =
                            1 + (IF Previous = 0 THEN 0 ELSE streak[Previous][k])
    <2>1. This \in 1..This
      BY <1>1
    <2>2. Streaks(seen)[This] = one
      BY <1>6, <2>1
    <2> QED
      BY <1>4, <2>2
  <1>8. \A k \in Keys : k \notin seen => \A r \in 1..This : Streaks(seen)[r][k] = streak[r][k]
    <2> SUFFICES ASSUME NEW k \in Keys, k \notin seen, NEW r \in 1..This
                 PROVE  Streaks(seen)[r][k] = streak[r][k]
      OBVIOUS
    <2>1. one[k] = streak[This][k]
      BY <1>4
    <2> QED
      BY <1>6, <2>1
  <1> QED
    BY <1>5, <1>7, <1>8

\* The row of a key that the run under way saw.
LEMMA SightedTold ==
  ASSUME Shape, Latest, This >= 1, NEW k \in Keys, NEW row \in Row, Told(k, row, streak),
         NEW current \in Int, NEW streaks, Len(streaks) = Len(streak),
         streaks[This][k] = 1 + (IF Previous = 0 THEN 0 ELSE streak[Previous][k])
  PROVE  /\ Sighted(row, Needed(k), current) \in Row
         /\ Told(k, Sighted(row, Needed(k), current), streaks)
         /\ row = NoRow /\ Needed(k) > 1 => ~Sighted(row, Needed(k), current).qualified
  <1> DEFINE n == Needed(k)
             Qualify(r) == [r EXCEPT !.qualified = TRUE, !.stamp = current, !.listed = TRUE]
             fresh == [born |-> This, seen |-> 1, last |-> This, qualified |-> FALSE,
                       stamp |-> Unstamped, listed |-> FALSE]
             more == [row EXCEPT !.seen = @ + 1, !.last = This]
             reset == [row EXCEPT !.seen = 1, !.last = This,
                                  !.qualified = FALSE, !.stamp = Unstamped]
             sighted == Sighted(row, n, current)
  <1>1. /\ This \in Nat /\ Previous \in 0..(This - 1) /\ Len(streaks) = This /\ n \in 1..10
        /\ Previous # 0 => streak[Previous][k] \in Nat
    <2>1. This = Len(streak) /\ streak \in [1..This -> [Keys -> Nat]] /\ This \in Nat
      BY DEF Shape, This
    <2>2. Previous \in 0..(This - 1)
      BY PreviousType
    <2>3. n \in 1..10
      BY DiscoveryAssumption DEF Needed
    <2> QED
      BY <2>1, <2>2, <2>3
  <1>2. fresh \in Row /\ more \in Row /\ reset \in Row /\ \A r \in Row : Qualify(r) \in Row
    <2>1. fresh \in Row
      BY <1>1 DEF Row, Unstamped
    <2>2. row.seen + 1 \in Nat /\ 1 \in Nat /\ Unstamped \in Int
      BY DEF Row, Unstamped
    <2>3. more \in Row /\ reset \in Row
      BY <1>1, <2>2 DEF Row
    <2>4. \A r \in Row : Qualify(r) \in Row
      BY DEF Row
    <2> QED
      BY <2>1, <2>2, <2>3, <2>4
  <1>3. /\ fresh.seen = 1 /\ fresh.last = This /\ ~fresh.qualified
        /\ more.seen = row.seen + 1 /\ more.last = This /\ more.qualified = row.qualified
        /\ reset.seen = 1 /\ reset.last = This /\ ~reset.qualified
        /\ \A r \in Row : Qualify(r).seen = r.seen /\ Qualify(r).last = r.last
    BY DEF Row
  <1>4. sighted = CASE row = NoRow -> IF n <= 1 THEN Qualify(fresh) ELSE fresh
                    [] row # NoRow /\ Recent(row) ->
                         IF ~row.qualified /\ more.seen >= n THEN Qualify(more) ELSE more
                    [] OTHER -> reset
    BY DEF Sighted
  <1> HIDE DEF n, Qualify, fresh, more, reset, sighted
  <1>5. streaks[This][k] \in Nat /\ streaks[This][k] >= 1
    BY <1>1
  <1>6. CASE row = NoRow
    <2>1. sighted \in Row /\ sighted.seen = 1 /\ sighted.last = This
      BY <1>2, <1>3, <1>4, <1>6
    <2>2. n > 1 => ~sighted.qualified
      BY <1>1, <1>3, <1>4, <1>6
    <2> QED
      BY <1>1, <1>5, <2>1, <2>2 DEF Told, n, sighted
  <1>7. CASE row # NoRow /\ Recent(row)
    <2>1. Previous # 0 /\ row.last = Previous
      BY <1>7 DEF Recent
    <2>2. /\ row.seen <= streak[Previous][k]
          /\ row.qualified => n <= streak[Previous][k]
      BY <1>7, <2>1 DEF Told, n
    <2>3. streaks[This][k] = 1 + streak[Previous][k] /\ row.seen \in Nat
      BY <2>1 DEF Row
    <2>4. sighted = IF ~row.qualified /\ more.seen >= n THEN Qualify(more) ELSE more
      BY <1>4, <1>7
    <2>5. sighted \in Row /\ sighted.seen = row.seen + 1 /\ sighted.last = This
      BY <1>2, <1>3, <2>4
    <2>6. sighted.qualified => row.qualified \/ row.seen + 1 >= n
      BY <1>3, <2>4
    <2>7. sighted.qualified => n <= streaks[This][k]
      BY <1>1, <2>1, <2>2, <2>3, <2>6
    <2>8. sighted.seen <= streaks[This][k]
      BY <1>1, <2>1, <2>2, <2>3, <2>5
    <2> QED
      BY <1>1, <1>7, <2>5, <2>7, <2>8 DEF Told, n, sighted
  <1>8. CASE row # NoRow /\ ~Recent(row)
    <2>1. sighted = reset
      BY <1>4, <1>8
    <2> QED
      BY <1>1, <1>2, <1>3, <1>5, <1>8, <2>1 DEF Told, n, sighted
  <1> QED
    BY <1>6, <1>7, <1>8

\* The additions after a run that found these services.
LEMMA AdditionsTold ==
  ASSUME IInv, This >= 1, NEW found \in SUBSET Services
  PROVE  /\ AfterAdditions(found) \in [Keys -> Row]
         /\ \A k \in Keys : /\ Told(k, AfterAdditions(found)[k], Streaks(Candidates(found)))
                            /\ k \notin Candidates(found) =>
                                 AfterAdditions(found)[k] \in {NoRow, rows[k]}
  <1> DEFINE seen == Candidates(found)
             table == AfterAdditions(found)
             streaks == Streaks(seen)
  <1>1. Shape /\ Latest /\ This \in Nat /\ Len(streak) = This /\ version \in Int
    BY DEF IInv, Shape, This
  <1>2. /\ Len(streaks) = Len(streak)
        /\ \A k \in Keys :
             /\ k \in seen => streaks[This][k] =
                              1 + (IF Previous = 0 THEN 0 ELSE streak[Previous][k])
             /\ k \notin seen => \A r \in 1..This : streaks[r][k] = streak[r][k]
    BY <1>1, StreaksType
  <1>3. \A k \in Keys : table[k] = IF k \in seen THEN Sighted(rows[k], ConsensusRuns, version)
                                  ELSE IF k[1] = "addition" /\ Has(k) /\ ~Recent(rows[k])
                                  THEN NoRow ELSE rows[k]
    BY DEF AfterAdditions
  <1>4. DOMAIN table = Keys /\ table = [k \in Keys |-> table[k]]
    BY DEF AfterAdditions
  <1>5. \A k \in seen : k \in Keys /\ Needed(k) = ConsensusRuns
    BY DEF Candidates, Needed
  <1> HIDE DEF seen, table, streaks
  <1>6. ASSUME NEW k \in Keys
        PROVE  /\ table[k] \in Row /\ Told(k, table[k], streaks)
               /\ k \notin seen => table[k] \in {NoRow, rows[k]}
    <2>1. rows[k] \in Row /\ Told(k, rows[k], streak)
      BY <1>6 DEF IInv, Shape, Tallied
    <2>2. CASE k \in seen
      <3>1. table[k] = Sighted(rows[k], Needed(k), version)
        BY <1>3, <1>5, <2>2
      <3>2. streaks[This][k] = 1 + (IF Previous = 0 THEN 0 ELSE streak[Previous][k])
        BY <1>2, <2>2
      <3> QED
        BY <1>1, <1>2, <2>1, <2>2, <3>1, <3>2, SightedTold
    <2>3. CASE k \notin seen
      <3>1. table[k] \in {NoRow, rows[k]}
        BY <1>3, <2>3
      <3>2. Told(k, rows[k], streaks)
        BY <1>1, <1>2, <2>1, <2>3 DEF Told
      <3>3. Told(k, NoRow, streaks)
        BY DEF Told
      <3> QED
        BY <2>1, <2>3, <3>1, <3>2, <3>3, NoRowType
    <2> QED
      BY <2>2, <2>3
  <1>7. table \in [Keys -> Row]
    BY <1>4, <1>6
  <1> QED
    BY <1>6, <1>7 DEF seen, table, streaks

\* The removals that the probes of the run bear out, with all others as they were.
LEMMA RemovalsTold ==
  ASSUME IInv, This >= 1, NEW registered, NEW missing \in SUBSET Services, NEW gone \in SUBSET missing
  PROVE  /\ AfterRemovals(rows, registered, missing, gone) \in [Keys -> Row]
         /\ \A k \in Keys :
              /\ Told(k, AfterRemovals(rows, registered, missing, gone)[k],
                      Streaks({"removal"} \X gone))
              /\ k \notin {"removal"} \X gone =>
                   AfterRemovals(rows, registered, missing, gone)[k] \in {NoRow, rows[k]}
              /\ rows[k] = NoRow /\ AfterRemovals(rows, registered, missing, gone)[k].qualified =>
                   RemovalRuns = 1
  <1> DEFINE seen == {"removal"} \X gone
             table == AfterRemovals(rows, registered, missing, gone)
             streaks == Streaks(seen)
  <1>1. Shape /\ Latest /\ This \in Nat /\ Len(streak) = This /\ Unstamped \in Int
    BY DEF IInv, Shape, This, Unstamped
  <1>2. /\ Len(streaks) = Len(streak)
        /\ \A k \in Keys :
             /\ k \in seen => streaks[This][k] =
                              1 + (IF Previous = 0 THEN 0 ELSE streak[Previous][k])
             /\ k \notin seen => \A r \in 1..This : streaks[r][k] = streak[r][k]
    BY <1>1, StreaksType
  <1>3. \A k \in Keys : IF k \in seen THEN table[k] = Sighted(rows[k], RemovalRuns, Unstamped)
                                  ELSE table[k] \in {NoRow, rows[k]}
    <2>1. \A k \in Keys : k \in seen <=> k[1] = "removal" /\ k[2] \in gone
      BY DEF Keys
    <2>2. \A k \in Keys : IF k[1] = "removal" /\ k[2] \in gone
                          THEN table[k] = Sighted(rows[k], RemovalRuns, Unstamped)
                          ELSE table[k] \in {NoRow, rows[k]}
      BY DEF AfterRemovals
    <2> HIDE DEF seen, table
    <2> QED
      BY <2>1, <2>2
  <1>4. DOMAIN table = Keys /\ table = [k \in Keys |-> table[k]]
    BY DEF AfterRemovals
  <1>5. \A k \in seen : Needed(k) = RemovalRuns
    BY DEF Needed
  <1> HIDE DEF seen, table, streaks
  <1>6. ASSUME NEW k \in Keys
        PROVE  /\ table[k] \in Row /\ Told(k, table[k], streaks)
               /\ k \notin seen => table[k] \in {NoRow, rows[k]}
               /\ rows[k] = NoRow /\ table[k].qualified => RemovalRuns = 1
    <2>1. rows[k] \in Row /\ Told(k, rows[k], streak)
      BY <1>6 DEF IInv, Shape, Tallied
    <2>2. CASE k \in seen
      <3>1. table[k] = Sighted(rows[k], Needed(k), Unstamped) /\ Needed(k) = RemovalRuns
        BY <1>3, <1>5, <2>2
      <3>2. streaks[This][k] = 1 + (IF Previous = 0 THEN 0 ELSE streak[Previous][k])
        BY <1>2, <2>2
      <3>3. table[k] \in Row /\ Told(k, table[k], streaks)
        BY <1>1, <1>2, <2>1, <3>1, <3>2, SightedTold
      <3>4. rows[k] = NoRow /\ RemovalRuns > 1 => ~table[k].qualified
        BY <1>1, <1>2, <2>1, <3>1, <3>2, SightedTold
      <3> QED
        BY <2>2, <3>3, <3>4, DiscoveryAssumption
    <2>3. CASE k \notin seen
      <3>1. table[k] \in {NoRow, rows[k]}
        BY <1>3, <2>3
      <3>2. Told(k, rows[k], streaks)
        BY <1>1, <1>2, <2>1, <2>3 DEF Told
      <3>3. Told(k, NoRow, streaks) /\ ~NoRow.qualified
        BY DEF Told, NoRow
      <3> QED
        BY <2>1, <2>3, <3>1, <3>2, <3>3, NoRowType
    <2> QED
      BY <2>2, <2>3
  <1>7. table \in [Keys -> Row]
    BY <1>4, <1>6
  <1> QED
    BY <1>6, <1>7 DEF seen, table, streaks

-----------------------------------------------------------------------------
(* Letters, and the end of a run.                                          *)

\* What is to be told of a table, letter by letter.
LEMMA LettersType ==
  ASSUME NEW table \in [Keys -> Row]
  PROVE  /\ Letters(table) \subseteq Mail
         /\ \A k \in Keys, c \in Channels : table[k].qualified =>
              <<<<k, table[k].born>>, c>> \in Letters(table)
         /\ \A m \in Letters(table) : \E k \in Keys, c \in Channels :
              table[k].qualified /\ m = <<<<k, table[k].born>>, c>>
  <1>1. \A k \in Keys : table[k].born \in Nat
    BY DEF Row
  <1>2. \A m : m \in Letters(table) <=> \E k \in Keys, c \in Channels :
                  table[k].qualified /\ m = <<<<k, table[k].born>>, c>>
    BY DEF Letters
  <1>3. Letters(table) \subseteq Mail
    BY <1>1, <1>2 DEF Mail, Ids
  <1> QED
    BY <1>2, <1>3

\* A table that only lost rows has no new letters.
LEMMA FewerLetters ==
  ASSUME NEW table \in [Keys -> Row], NEW old \in [Keys -> Row],
         \A k \in Keys : table[k] \in {NoRow, old[k]}
  PROVE  Letters(table) \subseteq Letters(old)
  <1> SUFFICES ASSUME NEW m \in Letters(table) PROVE m \in Letters(old)
    OBVIOUS
  <1>1. PICK k \in Keys, c \in Channels :
          table[k].qualified /\ m = <<<<k, table[k].born>>, c>>
    BY LettersType
  <1>2. table[k] = old[k]
    BY <1>1 DEF NoRow
  <1> QED
    BY <1>1, <1>2, LettersType

\* A run that ends is the last one, and a successful one becomes the latest.
LEMMA RunEnds ==
  ASSUME Shape, Latest, Ticking, tick.pc # "idle", NEW status \in {"success", "failed"},
         Ends(status)
  PROVE  /\ runs' \in Seq(Statuses) /\ Len(runs') = Len(runs) /\ runs'[This] = status
         /\ tick' = Idle /\ Ticking' /\ Latest'
  <1>1. This = Len(runs) /\ This \in Nat /\ This \in 1..This /\ \A n \in 0..This : n \in 0..n
    BY DEF Shape, Ticking, This
  <1>2. runs \in [1..This -> Statuses]
    BY DEF Shape, This
  <1>3. runs' = [runs EXCEPT ![This] = status] /\ tick' = Idle
    BY DEF Ends
  <1>4. /\ runs' \in Seq(Statuses) /\ Len(runs') = Len(runs) /\ runs'[This] = status
        /\ \A r \in 1..This : runs'[r] = IF r = This THEN status ELSE runs[r]
    <2>1. runs' \in [1..This -> Statuses]
      BY <1>2, <1>3 DEF Statuses
    <2>2. runs' \in Seq(Statuses)
      BY <1>1, <2>1, SeqDef
    <2>3. Len(runs') = Len(runs)
      BY <1>1, <2>1, <2>2, LenProperties
    <2>4. \A r \in 1..This : runs'[r] = IF r = This THEN status ELSE runs[r]
      BY <1>2, <1>3
    <2> QED
      BY <1>1, <2>2, <2>3, <2>4
  <1>5. This' = This
    BY <1>4 DEF This
  <1>6. Ticking'
    <2>1. \A r \in 1..This : runs'[r] # "running"
      BY <1>4 DEF Ticking
    <2> QED
      BY <1>1, <1>3, <1>5, <2>1 DEF Ticking, Idle
  <1>7. Latest'
    <2> SUFFICES ASSUME NEW n \in 0..This PROVE \E m \in 0..n : LastUpTo(n, m, runs')
      BY <1>5 DEF Latest
    <2>1. PICK m \in 0..n : LastUpTo(n, m, runs)
      BY DEF Latest
    <2>2. CASE n = This /\ status = "success"
      <3>1. LastUpTo(n, n, runs')
        BY <1>1, <1>4, <2>2 DEF LastUpTo
      <3> QED
        BY <1>1, <3>1
    <2>3. CASE ~(n = This /\ status = "success")
      <3>1. m > 0 => runs'[m] = "success"
        BY <1>1, <1>4, <2>1, <2>3 DEF LastUpTo, Ticking
      <3>2. \A q \in 1..n : runs'[q] = "success" => q <= m
        BY <1>1, <1>4, <2>1, <2>3 DEF LastUpTo
      <3> QED
        BY <3>1, <3>2 DEF LastUpTo
    <2> QED
      BY <2>2, <2>3
  <1> QED
    BY <1>3, <1>4, <1>6, <1>7

\* After a letter is told or the run ended.
LEMMA TellDoes ==
  ASSUME Shape, Latest, Ticking, tick.pc # "idle",
         NEW todo \in SUBSET Mail, NEW tried \in SUBSET Mail, Tell(todo, tried)
  PROVE  /\ runs' \in Seq(Statuses) /\ Len(runs') = Len(runs)
         /\ tick' \in TickOf /\ Ticking' /\ Latest' /\ tick'.missing = {}
         /\ tick'.todo \subseteq todo /\ tick'.sending \notin tick'.todo
         /\ tick'.sending \in todo \cup {NoMail}
         /\ tick'.pc = "notifying" => todo \cup tried \subseteq tick'.todo \cup tick'.tried
         /\ runs'[This] = "success" => todo = {}
  <1>1. CASE todo = {} /\ Ends("success")
    <2>1. tick' = Idle
      BY <1>1 DEF Ends
    <2>2. Idle \in TickOf /\ Idle.missing = {} /\ Idle.todo = {} /\ Idle.sending = NoMail
          /\ Idle.pc = "idle"
      BY NoRowType DEF Idle
    <2> QED
      BY <1>1, <2>1, <2>2, RunEnds
  <1>2. CASE ~(todo = {} /\ Ends("success"))
    <2>1. PICK m \in todo :
            /\ tick' = [Idle EXCEPT !.pc = "notifying", !.todo = todo \ {m},
                                    !.sending = m, !.tried = tried \cup {m}]
            /\ runs' = runs
      BY <1>2 DEF Tell
    <2>2. /\ tick'.pc = "notifying" /\ tick'.todo = todo \ {m} /\ tick'.sending = m
          /\ tick'.tried = tried \cup {m} /\ tick'.missing = {} /\ tick'.registered = {}
      BY <2>1 DEF Idle
    <2>3. tick' \in TickOf
      BY <2>1 DEF Idle, TickOf
    <2>4. This' = This /\ runs[This] = "running"
      BY <2>1 DEF This, Ticking, Shape
    <2>5. Ticking'
      BY <2>1, <2>2, <2>4 DEF Ticking
    <2>6. Latest'
      BY <2>1, <2>4 DEF Latest
    <2> QED
      BY <2>1, <2>2, <2>3, <2>4, <2>5, <2>6 DEF Shape
  <1> QED
    BY <1>1, <1>2

-----------------------------------------------------------------------------
(* The tick.                                                               *)

QuietRow(k, row) == row # NoRow => k[1] = "removal" /\ (row.qualified => RemovalRuns = 1)

LEMMA QuietRows == DismissedIsQuiet <=> \A k \in dismissed : QuietRow(k, rows[k])
  BY DEF DismissedIsQuiet, QuietRow, Has

\* A run that begins, or that is only recorded.
LEMMA RunBegins ==
  ASSUME IInv, tick.pc = "idle", NEW status \in {"running", "skipped"},
         runs' = Append(runs, status), streak' = Append(streak, Unseen),
         tick' = IF status = "running" THEN [Idle EXCEPT !.pc = "discovering"] ELSE tick,
         UNCHANGED <<registry, version, rows, dismissed, heard, probing>>
  PROVE  IInv'
  <1>1. Shape /\ Ticking /\ Latest /\ Tallied /\ Quiet /\ Post /\ This \in Nat
        /\ This = Len(runs) /\ This = Len(streak)
    BY DEF IInv, Shape, This
  <1>2. /\ runs' \in Seq(Statuses) /\ Len(runs') = This + 1 /\ runs'[This + 1] = status
        /\ \A r \in 1..This : runs'[r] = runs[r]
    BY <1>1 DEF Shape, Statuses
  <1>3. /\ streak' \in Seq([Keys -> Nat]) /\ Len(streak') = This + 1
        /\ \A r \in 1..This : streak'[r] = streak[r]
    <2>1. Unseen \in [Keys -> Nat]
      BY DEF Unseen
    <2> QED
      BY <1>1, <2>1 DEF Shape
  <1>4. /\ tick' \in TickOf /\ tick'.missing = {}
        /\ tick'.pc = (IF status = "running" THEN "discovering" ELSE "idle")
        /\ tick'.sending = NoMail
    BY <1>1, NoRowType DEF Shape, Ticking, Idle, TickOf
  <1>5. Shape'
    BY <1>1, <1>2, <1>3, <1>4 DEF Shape
  <1>6. This' = This + 1
    BY <1>2 DEF This
  <1>7. Ticking'
    <2>1. \A r \in 1..This : runs[r] # "running"
      BY <1>1 DEF Ticking
    <2>2. \A r \in 1..(This + 1) : runs'[r] = "running" <=> r = This + 1 /\ status = "running"
      BY <1>1, <1>2, <2>1
    <2>3. tick'.pc # "idle" <=> status = "running"
      BY <1>4
    <2>4. \A r \in 1..This' : runs'[r] = "running" <=> r = This' /\ tick'.pc # "idle"
      BY <1>6, <2>2, <2>3
    <2>5. This' >= 1 /\ tick'.pc # "notifying"
      BY <1>1, <1>4, <1>6
    <2>6. tick'.sending = NoMail /\ tick'.missing = {}
      BY <1>4
    <2>7. tick'.sending \in (IF tick'.pc = "notifying" THEN Mail ELSE {NoMail})
      BY <2>5, <2>6
    <2>8. /\ tick'.pc # "idle" => This' >= 1
          /\ tick'.pc # "corroborating" => tick'.missing = {}
      BY <2>5, <2>6
    <2>9. tick'.missing \subseteq tick'.registered
      BY <2>6
    <2> QED
      BY <2>4, <2>5, <2>7, <2>8, <2>9, Zenon DEF Ticking
  <1>8. Latest'
    <2> SUFFICES ASSUME NEW n \in 0..(This + 1) PROVE \E m \in 0..n : LastUpTo(n, m, runs')
      BY <1>6 DEF Latest
    <2>1. PICK j \in 0..This : j = IF n = This + 1 THEN This ELSE n
      BY <1>1
    <2>2. PICK m \in 0..j : LastUpTo(j, m, runs)
      BY DEF Latest, IInv
    <2>3. m \in 0..n /\ (m > 0 => runs'[m] = "success")
      BY <1>1, <1>2, <2>1, <2>2 DEF LastUpTo
    <2>4. \A q \in 1..n : runs'[q] = "success" => q <= m
      BY <1>1, <1>2, <2>1, <2>2 DEF LastUpTo
    <2> QED
      BY <2>3, <2>4 DEF LastUpTo
  <1>9. Tallied'
    BY <1>1, <1>3 DEF Tallied, Told
  <1>10. Quiet'
    BY <1>1, <1>4 DEF Quiet, DismissedIsQuiet, Has
  <1>11. Post'
    <2>1. CASE status = "running"
      BY <1>1, <1>4, <2>1 DEF Post, Idle
    <2>2. CASE status = "skipped"
      BY <1>1, <1>4, <2>2 DEF Post
    <2> QED
      BY <2>1, <2>2
  <1> QED
    BY <1>5, <1>7, <1>8, <1>9, <1>10, <1>11 DEF IInv

\* A run that is over before it told anything, or because the process died.
LEMMA FailKeeps == ASSUME IInv, Fail PROVE IInv'
  <1>1. /\ Shape /\ Latest /\ Ticking /\ Tallied /\ Quiet /\ tick.pc # "idle" /\ Ends("failed")
        /\ UNCHANGED <<registry, version, rows, dismissed, heard, probing, streak>>
    BY DEF IInv, Fail
  <1>2. runs' \in Seq(Statuses) /\ Len(runs') = Len(runs) /\ tick' = Idle /\ Ticking' /\ Latest'
    BY <1>1, RunEnds
  <1>3. Shape'
    BY <1>1, <1>2, NoRowType DEF Shape
  <1>4. Tallied' /\ Quiet' /\ Post'
    BY <1>1, <1>2 DEF Tallied, Quiet, DismissedIsQuiet, Has, Post, Idle
  <1> QED
    BY <1>2, <1>3, <1>4 DEF IInv

LEMMA RestartKeeps == ASSUME IInv, Restart PROVE IInv' /\ (tick.pc # "idle" => runs'[This] = "failed")
  <1>1. /\ Shape /\ Latest /\ Ticking /\ Tallied /\ Quiet /\ tick' = Idle /\ probing' = {}
        /\ UNCHANGED <<registry, version, rows, dismissed, heard, streak>>
    BY DEF IInv, Restart
  <1>2. This = Len(runs) /\ This \in Nat /\ runs \in [1..This -> Statuses] /\ DOMAIN runs = 1..This
    BY <1>1 DEF Shape, This
  <1>3. runs' \in [1..This -> Statuses]
    BY <1>2 DEF Restart, Statuses
  <1>4. runs' \in Seq(Statuses)
    BY <1>2, <1>3, SeqDef
  <1>5. Len(runs') = Len(runs)
    BY <1>2, <1>3, <1>4, LenProperties
  <1>6. \A r \in 1..This : runs'[r] # "running" /\ (runs'[r] = "success" <=> runs[r] = "success")
    BY <1>2 DEF Restart
  <1>7. This' = This
    BY <1>5 DEF This
  <1>8. Shape'
    <2>1. tick' \in TickOf
      BY <1>1, NoRowType
    <2> QED
      BY <1>1, <1>4, <1>5, <2>1 DEF Shape
  <1>9. Ticking'
    BY <1>1, <1>2, <1>6, <1>7 DEF Ticking, Idle
  <1>10. Latest'
    <2> SUFFICES ASSUME NEW n \in 0..This PROVE \E m \in 0..n : LastUpTo(n, m, runs')
      BY <1>7 DEF Latest
    <2>1. PICK m \in 0..n : LastUpTo(n, m, runs)
      BY <1>1 DEF Latest
    <2>2. LastUpTo(n, m, runs')
      BY <1>2, <1>6, <2>1 DEF LastUpTo
    <2> QED
      BY <2>2
  <1>11. Tallied' /\ Quiet' /\ Post'
    BY <1>1 DEF Tallied, Quiet, DismissedIsQuiet, Has, Post, Idle
  <1>12. tick.pc # "idle" => runs'[This] = "failed"
    <2> SUFFICES ASSUME tick.pc # "idle" PROVE runs'[This] = "failed"
      OBVIOUS
    <2>1. This \in 1..This /\ runs[This] = "running"
      BY <1>1 DEF Shape, Ticking, This
    <2> QED
      BY <1>2, <2>1 DEF Restart
  <1> QED
    BY <1>8, <1>9, <1>10, <1>11, <1>12 DEF IInv

\* A table that is told about: the invariant, and what the operator hears.
LEMMA ConcludeKeeps ==
  ASSUME IInv, tick.pc # "idle", NEW result \in [Keys -> Row], rows' = result,
         Tell(Unheard(result), {}), UNCHANGED <<registry, version, dismissed, heard, probing>>,
         streak' \in Seq([Keys -> Nat]), Len(streak') = Len(streak),
         \A k \in Keys : Told(k, result[k], streak'),
         \A k \in dismissed : QuietRow(k, result[k])
  PROVE  /\ IInv' /\ tick'.sending \notin heard
         /\ runs'[This] = "success" => Letters(result) \subseteq heard
  <1>1. Shape /\ Latest /\ Ticking
    BY DEF IInv
  <1>2. Letters(result) \subseteq Mail
    BY LettersType
  <1>3. Unheard(result) \in SUBSET Mail /\ Unheard(result) \cap heard = {}
        /\ Letters(result) \subseteq heard \cup Unheard(result)
    BY <1>2 DEF Unheard
  <1>4. /\ runs' \in Seq(Statuses) /\ Len(runs') = Len(runs)
        /\ tick' \in TickOf /\ Ticking' /\ Latest' /\ tick'.missing = {}
        /\ tick'.todo \subseteq Unheard(result) /\ tick'.sending \notin tick'.todo
        /\ tick'.sending \in Unheard(result) \cup {NoMail}
        /\ tick'.pc = "notifying" => Unheard(result) \cup {} \subseteq tick'.todo \cup tick'.tried
        /\ runs'[This] = "success" => Unheard(result) = {}
    BY <1>1, <1>3, TellDoes
  <1>5. NoMail \notin Mail
    BY DEF NoMail, Mail
  <1>6. Shape'
    BY <1>1, <1>4 DEF Shape
  <1>7. Tallied' /\ Quiet'
    BY <1>4 DEF Tallied, Quiet, DismissedIsQuiet, Has, QuietRow
  <1>8. Post'
    <2>1. heard' = heard /\ Letters(rows)' = Letters(result)
      BY DEF Letters
    <2> QED
      BY <1>3, <1>4, <2>1 DEF Post
  <1>9. heard \subseteq Mail
    BY <1>1 DEF Shape
  <1> QED
    BY <1>3, <1>4, <1>5, <1>6, <1>7, <1>8, <1>9 DEF IInv

LEMMA DiscoverKeeps ==
  ASSUME IInv, NEW found \in SUBSET Services, Discover(found)
  PROVE  /\ IInv' /\ (tick'.sending \notin heard \/ tick'.sending = tick.sending)
         /\ runs'[This] = "success" => Letters(rows') \subseteq heard
  <1> DEFINE missing == {s \in registry \ found : <<"removal", s>> \notin dismissed}
             table == AfterAdditions(found)
             seen == Candidates(found)
  <1>1. /\ Shape /\ Latest /\ Ticking /\ Tallied /\ Quiet /\ Post /\ This >= 1
        /\ tick.pc = "discovering" /\ streak' = Streaks(seen)
        /\ UNCHANGED <<registry, version, dismissed, heard, probing>>
    BY DEF IInv, Discover, Ticking
  <1>2. streak' \in Seq([Keys -> Nat]) /\ Len(streak') = Len(streak)
    BY <1>1, StreaksType
  <1>3. /\ table \in [Keys -> Row]
        /\ \A k \in Keys : /\ Told(k, table[k], streak')
                           /\ k \notin seen => table[k] \in {NoRow, rows[k]}
    BY <1>1, AdditionsTold
  <1>4. IF missing = {} THEN Conclude(table, registry, {}, {})
        ELSE /\ rows' = table
             /\ tick' = [tick EXCEPT !.pc = "corroborating",
                                     !.registered = registry, !.missing = missing]
             /\ UNCHANGED runs
    BY DEF Discover
  <1>5. \A k \in dismissed : k \in Keys /\ k \notin seen /\ QuietRow(k, rows[k])
    BY <1>1, QuietRows DEF Candidates, Quiet, Shape
  <1> HIDE DEF table, seen
  <1>6. \A k \in dismissed : QuietRow(k, table[k])
    BY <1>3, <1>5 DEF QuietRow
  <1>7. CASE missing = {}
    <2> DEFINE result == AfterRemovals(table, registry, {}, {})
    <2>1. rows' = result /\ Tell(Unheard(result), {})
      BY <1>4, <1>7 DEF Conclude
    <2>2. DOMAIN result = Keys /\ result = [k \in Keys |-> result[k]]
      BY DEF AfterRemovals
    <2>3. \A k \in Keys : result[k] \in {NoRow, table[k]}
      BY DEF AfterRemovals
    <2> HIDE DEF result
    <2>4. result \in [Keys -> Row]
      BY <1>3, <2>2, <2>3, NoRowType
    <2>5. \A k \in Keys : Told(k, result[k], streak')
      BY <1>3, <2>3 DEF Told
    <2>6. \A k \in dismissed : QuietRow(k, result[k])
      BY <1>5, <1>6, <2>3 DEF QuietRow
    <2> QED
      BY <1>1, <1>2, <2>1, <2>4, <2>5, <2>6, ConcludeKeeps
  <1>8. CASE missing # {}
    <2>1. /\ rows' = table /\ runs' = runs
          /\ tick' = [tick EXCEPT !.pc = "corroborating",
                                  !.registered = registry, !.missing = missing]
      BY <1>4, <1>8
    <2>2. missing \in SUBSET Services /\ missing \subseteq registry /\ registry \in SUBSET Services
          /\ \A s \in missing : <<"removal", s>> \notin dismissed
      BY <1>1 DEF Shape
    <2> HIDE DEF missing
    <2>3. /\ tick' \in TickOf /\ tick'.pc = "corroborating" /\ tick'.registered = registry
          /\ tick'.missing = missing /\ tick'.sending = tick.sending /\ tick'.todo = tick.todo
      BY <1>1, <2>1, <2>2 DEF Shape, TickOf
    <2>4. Shape'
      BY <1>1, <1>2, <1>3, <2>1, <2>3 DEF Shape
    <2>5. This' = This
      BY <2>1 DEF This
    <2>6. Ticking'
      BY <1>1, <2>1, <2>2, <2>3, <2>5 DEF Ticking
    <2>7. Latest'
      BY <1>1, <2>1, <2>5 DEF Latest
    <2>8. Tallied'
      BY <1>3, <2>1 DEF Tallied
    <2>9. Quiet'
      BY <1>1, <1>6, <2>1, <2>2, <2>3 DEF Quiet, DismissedIsQuiet, Has, QuietRow
    <2>10. Post'
      BY <1>1, <2>3 DEF Post
    <2>11. runs'[This] # "success"
      BY <1>1, <2>1 DEF Ticking, Shape, This
    <2> QED
      BY <2>3, <2>4, <2>6, <2>7, <2>8, <2>9, <2>10, <2>11 DEF IInv
  <1> QED
    BY <1>7, <1>8

LEMMA CorroborateKeeps ==
  ASSUME IInv, NEW gone \in SUBSET tick.missing, Corroborate(gone)
  PROVE  /\ IInv' /\ tick'.sending \notin heard
         /\ runs'[This] = "success" => Letters(rows') \subseteq heard
  <1> DEFINE seen == {"removal"} \X gone
             result == AfterRemovals(rows, tick.registered, tick.missing, gone)
  <1>1. /\ Shape /\ Latest /\ Ticking /\ Tallied /\ Quiet /\ This >= 1
        /\ tick.pc # "idle" /\ streak' = Streaks(seen) /\ rows' = result
        /\ Tell(Unheard(result), {}) /\ UNCHANGED <<registry, version, dismissed, heard, probing>>
    BY DEF IInv, Corroborate, Conclude, Ticking
  <1>2. tick.missing \in SUBSET Services
    BY <1>1 DEF Shape, TickOf
  <1>3. streak' \in Seq([Keys -> Nat]) /\ Len(streak') = Len(streak)
    BY <1>1, StreaksType
  <1>4. /\ result \in [Keys -> Row]
        /\ \A k \in Keys : /\ Told(k, result[k], streak')
                           /\ k \notin seen => result[k] \in {NoRow, rows[k]}
                           /\ rows[k] = NoRow /\ result[k].qualified => RemovalRuns = 1
    BY <1>1, <1>2, RemovalsTold
  <1>5. \A k \in dismissed : k \in Keys /\ QuietRow(k, rows[k])
    BY <1>1, QuietRows DEF Quiet, Shape
  <1>6. \A k \in seen : k[1] = "removal" /\ (k \in dismissed => rows[k] = NoRow)
    BY <1>1 DEF Quiet
  <1> HIDE DEF seen, result
  <1>7. \A k \in dismissed : QuietRow(k, result[k])
    BY <1>4, <1>5, <1>6 DEF QuietRow
  <1> QED
    BY <1>1, <1>3, <1>4, <1>7, ConcludeKeeps

LEMMA AnswerKeeps ==
  ASSUME IInv, NEW ok \in BOOLEAN, Answer(ok)
  PROVE  /\ IInv' /\ tick'.sending \notin heard
         /\ runs'[This] = "success" => Letters(rows') \subseteq heard' \cup tick.tried
  <1>1. /\ Shape /\ Latest /\ Ticking /\ Tallied /\ Quiet /\ Post
        /\ tick.pc = "notifying" /\ Tell(tick.todo, tick.tried)
        /\ heard' = IF ok THEN heard \cup {tick.sending} ELSE heard
        /\ UNCHANGED <<registry, version, rows, dismissed, probing, streak>>
    BY DEF IInv, Answer
  <1>2. tick.todo \in SUBSET Mail /\ tick.tried \in SUBSET Mail /\ tick.sending \in Mail
    BY <1>1 DEF Shape, TickOf, Ticking
  <1>3. /\ runs' \in Seq(Statuses) /\ Len(runs') = Len(runs)
        /\ tick' \in TickOf /\ Ticking' /\ Latest' /\ tick'.missing = {}
        /\ tick'.todo \subseteq tick.todo /\ tick'.sending \notin tick'.todo
        /\ tick'.sending \in tick.todo \cup {NoMail}
        /\ tick'.pc = "notifying" => tick.todo \cup tick.tried \subseteq tick'.todo \cup tick'.tried
        /\ runs'[This] = "success" => tick.todo = {}
    BY <1>1, <1>2, TellDoes
  <1>4. heard \subseteq heard' /\ heard' \subseteq heard \cup {tick.sending} /\ heard \subseteq Mail
    BY <1>1 DEF Shape
  <1>5. Shape'
    BY <1>1, <1>2, <1>3, <1>4 DEF Shape
  <1>6. Tallied' /\ Quiet'
    BY <1>1, <1>3 DEF Tallied, Quiet, DismissedIsQuiet, Has
  <1>7. Letters(rows)' = Letters(rows) /\ Letters(rows') = Letters(rows)
    BY <1>1 DEF Letters
  <1>8. Post'
    BY <1>1, <1>3, <1>4, <1>7 DEF Post
  <1>9. NoMail \notin Mail
    BY DEF NoMail, Mail
  <1>10. tick'.sending \notin heard
    BY <1>1, <1>3, <1>4, <1>9 DEF Post
  <1>11. runs'[This] = "success" => Letters(rows') \subseteq heard' \cup tick.tried
    BY <1>1, <1>3, <1>4, <1>7 DEF Post
  <1> QED
    BY <1>3, <1>5, <1>6, <1>8, <1>10, <1>11 DEF IInv

-----------------------------------------------------------------------------
(* The operator.                                                           *)

\* The operator empties rows and writes the registry; who is dismissed has no row.
LEMMA OperatorKeeps ==
  ASSUME IInv, UNCHANGED <<runs, heard, tick, streak>>,
         registry' \subseteq Services, version' \in Nat, probing' \subseteq Ids,
         dismissed' \subseteq Keys, rows' \in [Keys -> Row],
         \A k \in Keys : rows'[k] \in {NoRow, rows[k]},
         \A k \in dismissed' : k \in dismissed \/ rows'[k] = NoRow
  PROVE  IInv'
  <1>1. Shape /\ Ticking /\ Latest /\ Tallied /\ Quiet /\ Post
    BY DEF IInv
  <1>2. Shape'
    BY <1>1 DEF Shape
  <1>3. This' = This
    BY DEF This
  <1>4. Ticking' /\ Latest'
    BY <1>1, <1>3 DEF Ticking, Latest
  <1>5. Tallied'
    BY <1>1 DEF Tallied, Told
  <1>6. Quiet'
    <2>1. \A k \in dismissed : k \in Keys
      BY <1>1 DEF Shape
    <2>2. DismissedIsQuiet'
      BY <1>1, <2>1 DEF Quiet, DismissedIsQuiet, Has
    <2>3. \A s \in tick.missing : <<"removal", s>> \in Keys
      BY <1>1 DEF Shape, TickOf, Keys
    <2> QED
      BY <1>1, <2>2, <2>3 DEF Quiet
  <1>7. Post'
    <2>1. Letters(rows') \subseteq Letters(rows)
      BY <1>1, FewerLetters DEF Shape
    <2>2. Letters(rows)' = Letters(rows')
      BY DEF Letters
    <2> QED
      BY <1>1, <2>1, <2>2 DEF Post
  <1> QED
    BY <1>2, <1>4, <1>5, <1>6, <1>7 DEF IInv

LEMMA DropType ==
  ASSUME Shape, NEW k, Drop(k)
  PROVE  /\ rows' \in [Keys -> Row] /\ \A j \in Keys : rows'[j] \in {NoRow, rows[j]}
         /\ k \in Keys => rows'[k] = NoRow
  BY NoRowType DEF Shape, Drop

Operator ==
  \/ \E id \in probing, ok \in BOOLEAN : ProbeAnswers(id, ok)
  \/ \E s \in Services : AcceptAddition(s) \/ AcceptRemoval(s) \/ AskAccept(s)
  \/ \E k \in Keys : Dismiss(k) \/ Restore(k)
  \/ \E services \in SUBSET Services : Edit(services)

LEMMA OperatorSteps ==
  ASSUME IInv, Operator
  PROVE  IInv' /\ UNCHANGED <<runs, heard, tick, streak>>
  <1>1. Shape /\ version + 1 \in Nat
    BY DEF IInv, Shape
  <1>2. ASSUME NEW id \in probing, NEW ok \in BOOLEAN, ProbeAnswers(id, ok)
        PROVE  IInv' /\ UNCHANGED <<runs, heard, tick, streak>>
    <2>1. id[1][2] \in Services /\ probing' \subseteq Ids
      BY <1>1, <1>2 DEF Shape, Ids, Keys, ProbeAnswers
    <2>2. registry' \subseteq Services /\ version' \in Nat
      BY <1>1, <1>2, <2>1 DEF ProbeAnswers, Save, Shape
    <2>3. rows' \in [Keys -> Row] /\ \A j \in Keys : rows'[j] \in {NoRow, rows[j]}
      BY <1>1, <1>2, DropType DEF ProbeAnswers, Shape
    <2> QED
      BY <1>1, <1>2, <2>1, <2>2, <2>3, OperatorKeeps DEF ProbeAnswers, Shape
  <1>3. ASSUME NEW s \in Services, AcceptAddition(s) \/ AcceptRemoval(s)
        PROVE  IInv' /\ UNCHANGED <<runs, heard, tick, streak>>
    <2>1. /\ registry' \subseteq Services /\ version' \in Nat
          /\ UNCHANGED <<runs, dismissed, heard, tick, probing, streak>>
      BY <1>1, <1>3 DEF AcceptAddition, AcceptRemoval, Save, Shape
    <2>2. rows' \in [Keys -> Row] /\ \A j \in Keys : rows'[j] \in {NoRow, rows[j]}
      BY <1>1, <1>3, DropType DEF AcceptAddition, AcceptRemoval
    <2> QED
      BY <1>1, <2>1, <2>2, OperatorKeeps DEF Shape
  <1>4. ASSUME NEW s \in Services, AskAccept(s)
        PROVE  IInv' /\ UNCHANGED <<runs, heard, tick, streak>>
    <2>1. probing' \subseteq Ids
      BY <1>1, <1>4 DEF AskAccept, Shape, Id, Ids, Keys, Row
    <2> QED
      BY <1>1, <1>4, <2>1, OperatorKeeps DEF AskAccept, Shape
  <1>5. ASSUME NEW k \in Keys, Dismiss(k)
        PROVE  IInv' /\ UNCHANGED <<runs, heard, tick, streak>>
    <2>1. rows' \in [Keys -> Row] /\ rows'[k] = NoRow /\ \A j \in Keys : rows'[j] \in {NoRow, rows[j]}
      BY <1>1, <1>5, DropType DEF Dismiss
    <2> QED
      BY <1>1, <1>5, <2>1, OperatorKeeps DEF Dismiss, Shape
  <1>6. ASSUME NEW k \in Keys, Restore(k)
        PROVE  IInv' /\ UNCHANGED <<runs, heard, tick, streak>>
    BY <1>1, <1>6, OperatorKeeps DEF Restore, Shape
  <1>7. ASSUME NEW services \in SUBSET Services, Edit(services)
        PROVE  IInv' /\ UNCHANGED <<runs, heard, tick, streak>>
    BY <1>1, <1>7, OperatorKeeps DEF Edit, Save, Shape
  <1> QED
    BY <1>2, <1>3, <1>4, <1>5, <1>6, <1>7 DEF Operator

-----------------------------------------------------------------------------
(* The invariant, and what it gives.                                       *)

LEMMA InitHolds == Init => IInv
  <1> SUFFICES ASSUME Init PROVE IInv
    OBVIOUS
  <1>1. Shape
    BY NoRowType DEF Init, Shape, Statuses
  <1>2. This = 0
    BY DEF Init, This
  <1>3. Ticking /\ Post
    BY <1>2 DEF Init, Ticking, Post, Idle
  <1>4. Latest
    BY <1>2 DEF Latest, LastUpTo
  <1>5. Tallied
    BY DEF Init, Tallied, Told
  <1>6. Quiet
    BY DEF Init, Quiet, DismissedIsQuiet, Idle
  <1> QED
    BY <1>1, <1>3, <1>4, <1>5, <1>6 DEF IInv

LEMMA StartKeeps == ASSUME IInv, Start PROVE IInv'
  BY RunBegins DEF Start

LEMMA SkipKeeps == ASSUME IInv, Skip PROVE IInv'
  BY RunBegins DEF Skip

LEMMA StutterKeeps == ASSUME IInv, UNCHANGED vars PROVE IInv'
  <1>1. /\ Shape /\ Tallied
        /\ UNCHANGED <<registry, version, runs, rows, dismissed, heard, tick, probing, streak>>
    BY DEF IInv, vars
  <1>2. Shape'
    BY <1>1 DEF Shape
  <1> QED
    BY <1>1, <1>2, OperatorKeeps DEF Shape

LEMMA NextKeeps == IInv /\ [Next]_vars => IInv'
  <1> SUFFICES ASSUME IInv, [Next]_vars PROVE IInv'
    OBVIOUS
  <1> QED
    BY StartKeeps, SkipKeeps, FailKeeps, RestartKeeps, DiscoverKeeps, CorroborateKeeps,
       AnswerKeeps, OperatorSteps, StutterKeeps
    DEF Next, Operator

\* Every step of the tick and of the operator keeps the inductive invariant
\* (periodic-discovery-scheduler.ts, pending-discovery-store.ts, routes.ts).
THEOREM DiscoveryInvariant == Spec => []IInv
  BY InitHolds, NextKeeps, PTL DEF Spec

\* The types of the inbox, the runs and the tick, and a run is under way exactly in a tick.
THEOREM DiscoveryTypes == Spec => []TypeOK
  <1>1. IInv => TypeOK
    <2> SUFFICES ASSUME IInv PROVE TypeOK
      OBVIOUS
    <2>1. Shape /\ Ticking
      BY DEF IInv
    <2>2. \A r \in DOMAIN runs : runs[r] = "running" <=> r = This /\ tick.pc # "idle"
      BY <2>1 DEF Shape, Ticking, This
    <2>3. tick.sending \in (IF tick.pc = "notifying" THEN Mail ELSE {NoMail})
      BY <2>1 DEF Ticking
    <2> QED
      BY <2>1, <2>2, <2>3 DEF Shape, Ticking, TickOf, TypeOK, Statuses
  <1> QED
    BY <1>1, DiscoveryInvariant, PTL

\* Whatever fails, crashes or is skipped, and whatever the operator does meanwhile, a
\* suggestion is shown only after as many consecutive successful runs as asked for
\* (discovery-consensus.ts).
THEOREM ShownByConsensus == Spec => []QualifiedByConsensus
  <1>1. IInv => QualifiedByConsensus
    BY DEF IInv, Tallied, Told, QualifiedByConsensus, Has
  <1> QED
    BY <1>1, DiscoveryInvariant, PTL

\* What was dismissed stays out of the inbox until it is restored, but for a removal
\* that was under corroboration just then (pending-discovery-store.ts).
THEOREM DismissedStaysQuiet == Spec => []DismissedIsQuiet
  <1>1. IInv => DismissedIsQuiet
    BY DEF IInv, Quiet
  <1> QED
    BY <1>1, DiscoveryInvariant, PTL

\* No channel is told what it has heard of, and none is left out of a run that ends
\* (the notification loop of tickOnce).
THEOREM EveryChannelIsTold == Spec => ToldUntilHeard
  <1> DEFINE A == /\ tick'.sending \notin {NoMail, tick.sending} => tick'.sending \notin heard
                  /\ (tick.pc # "idle" /\ runs'[This] = "success") =>
                       \A k \in Keys : rows'[k].qualified => \A c \in Channels :
                         <<<<k, rows'[k].born>>, c>> \in heard' \cup tick.tried
  <1>1. IInv /\ [Next]_vars => [A]_vars
    <2> SUFFICES ASSUME IInv, Next PROVE A
      BY DEF vars
    <2>1. Shape /\ Shape' /\ (tick.pc # "idle" => runs[This] = "running")
      BY NextKeeps DEF IInv, Shape, Ticking, This
    <2>2. ASSUME tick'.sending \notin heard \/ tick'.sending \in {NoMail, tick.sending},
                 (tick.pc # "idle" /\ runs'[This] = "success") =>
                   Letters(rows') \subseteq heard' \cup tick.tried
          PROVE  A
      <3>1. rows' \in [Keys -> Row]
        BY <2>1 DEF Shape
      <3>2. \A k \in Keys, c \in Channels : rows'[k].qualified =>
              <<<<k, rows'[k].born>>, c>> \in Letters(rows')
        BY <3>1, LettersType
      <3> QED
        BY <2>2, <3>2
    <2>3. CASE Start \/ Skip
      BY <2>2, <2>3 DEF Start, Skip, Idle
    <2>4. CASE Fail
      <3>1. tick'.sending = NoMail /\ runs'[This] = "failed"
        BY <2>4, RunEnds DEF IInv, Fail, Idle
      <3> QED
        BY <2>2, <3>1
    <2>5. CASE Restart
      <3>1. tick'.sending = NoMail /\ (tick.pc # "idle" => runs'[This] = "failed")
        BY <2>5, RestartKeeps DEF Restart, Idle
      <3> QED
        BY <2>2, <3>1
    <2>6. ASSUME NEW found \in SUBSET Services, Discover(found)
          PROVE  A
      <3>1. heard' = heard
        BY <2>6 DEF Discover
      <3> QED
        BY <2>2, <2>6, <3>1, DiscoverKeeps
    <2>7. ASSUME NEW gone \in SUBSET tick.missing, Corroborate(gone)
          PROVE  A
      <3>1. heard' = heard
        BY <2>7 DEF Corroborate
      <3> QED
        BY <2>2, <2>7, <3>1, CorroborateKeeps
    <2>8. ASSUME NEW ok \in BOOLEAN, Answer(ok)
          PROVE  A
      BY <2>2, <2>8, AnswerKeeps
    <2>9. CASE Operator
      <3>1. UNCHANGED <<runs, heard, tick, streak>>
        BY <2>9, OperatorSteps
      <3> QED
        BY <2>1, <2>2, <3>1
    <2> QED
      BY <2>3, <2>4, <2>5, <2>6, <2>7, <2>8, <2>9 DEF Next, Operator
  <1>2. Spec => [][A]_vars
    BY <1>1, DiscoveryInvariant, PTL DEF Spec
  <1> QED
    BY <1>2 DEF ToldUntilHeard

=============================================================================
