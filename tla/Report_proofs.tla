---------------------------- MODULE Report_proofs ----------------------------
(***************************************************************************)
(* Proofs about a report: how an investigation comes to it and what deep   *)
(* mode makes of it (InvestigationPipeline), for every budget of the loop, *)
(* every ranking and every set of findings, and those who rewrite it       *)
(* afterwards (ReportWriteBack), for every number of tabs, runs and        *)
(* events.                                                                 *)
(*                                                                         *)
(* Of a prediction: more evidence never takes back an answer, and the same *)
(* evidence never bears out opposites.                                     *)
(*                                                                         *)
(* Of an investigation: which calls of the model a step has under way and  *)
(* how often they were started (Calling), what the hypothesis loop demoted *)
(* and what it stopped at (Looping), what deep mode was given and has      *)
(* found (Deep).                                                           *)
(*                                                                         *)
(* Of the write-back: the reports that requests carry around are as good   *)
(* as the one in the database (Fine), and stay so, since the log only      *)
(* grows.  That the notes are those of the applied run rests on the order  *)
(* of the log: its events are in the order of their runs (InOrder), and    *)
(* every conclusion comes after the beginning of its run (Begun).          *)
(***************************************************************************)
EXTENDS ReportWriteBack, InvestigationPipeline, SequenceTheorems, NaturalsInduction,
        WellFoundedInduction, TLAPS

(***************************************************************************)
(* The investigation.                                                      *)
(***************************************************************************)

\* The calls of the model that belong to each step of the workflow.
Mine ==
  CASE step = "planning"  -> {"planning"}
    [] step = "evidence"  -> Streams
    [] step = "synthesis" -> {"synthesis"}
    [] step = "thrown"    -> Calls
    [] OTHER              -> {}

\* A call: it is started at most as often as the tools it holds allow, and only a run
\* that is not headless puts write tools into its hands.
Called(call, isMine) ==
  /\ call.starts <= Attempts /\ (call.at = "ready" => call.starts < Attempts)
  /\ call.armed => ~readOnly
  /\ call.at = "off" => call.starts = 0
  /\ ~isMine => call.at = "off"
  /\ step = "thrown" => call.at \in {"off", "settled", "unavailable"}

Calling ==
  /\ \A c \in Calls : Called(calls[c], c \in Mine)
  /\ step = "thrown" => \E c \in Calls : calls[c].at = "unavailable"

\* The loop: what it was given, what it demoted, and what the one it stopped at had for it.
Looping ==
  /\ step \notin {"loop", "post", "reported"} => hyps = <<>> /\ ruledOut = <<>>
  /\ step \notin {"post", "reported"} => outcome = "none"
  /\ Tested <= Len(hyps) /\ Tested <= Rounds
  /\ \A i \in DOMAIN ruledOut : ruledOut[i].text = hyps[i].text
  /\ outcome \in {"confirmed", "undetermined"} =>
       Tested < Len(hyps) /\ Holds(hyps[Tested + 1].prediction, gathered)
  /\ outcome = "undetermined" =>
       Tested + 1 < Len(hyps) /\ Holds(hyps[Tested + 2].prediction, gathered)

\* A target of deep mode is the conclusion or a hypothesis that was ruled out.
Fair(i) ==
  LET t == targets[i] IN
  IF t.standing = "confirmed"
  THEN Holds(t.hypothesis.prediction, gathered) /\ ruledOut = <<>>
  ELSE /\ i \in DOMAIN ruledOut /\ t.hypothesis.text = ruledOut[i].text
       /\ t.prior # "satisfied"

Deep ==
  /\ deep # "none" => step = "reported"
  /\ deep = "none" => targets = <<>> /\ redone = <<>> /\ deepSeen = {}
  /\ deep = "running" => Len(redone) < Len(targets)
  /\ deep = "done" => Len(redone) = Len(targets)
  /\ \A i \in DOMAIN targets : Fair(i)
  /\ \A i \in DOMAIN redone :
       LET p == targets[i].hypothesis.prediction IN
       redone[i] = "satisfied" /\ p.present => Holds(p, deepSeen)

PipelineInv == PipelineTypeOK /\ Calling /\ Looping /\ Deep

-----------------------------------------------------------------------------
(* Lemmas about the operators.                                             *)

\* A set of natural numbers has a least element.
LEMMA Least ==
  ASSUME NEW T \in SUBSET Nat, T # {}
  PROVE  \E n \in T : \A m \in T : n <= m
  <1> DEFINE R == OpToRel(<, Nat)
  <1>1. IsWellFoundedOn(R, Nat)
    BY NatLessThanWellFounded, Zenon
  <1>2. \A x, y \in Nat : <<y, x>> \in R <=> y < x
    BY DEF OpToRel
  <1> HIDE DEF R
  <1>3. \E x \in T : \A y \in T : ~(<<y, x>> \in R)
    BY <1>1, WFMin
  <1>4. \E x \in T : \A y \in T : ~(y < x)
    BY <1>2, <1>3, Zenon
  <1> QED
    BY <1>4

\* A set of places in a sequence has a last one.
LEMMA LastPlace ==
  ASSUME NEW n \in Nat, NEW T \in SUBSET (1..n), T # {}
  PROVE  \E i \in T : \A j \in T : j <= i
  <1> DEFINE Left == {n - i : i \in T}
  <1>1. Left \in SUBSET Nat /\ Left # {}
    OBVIOUS
  <1>2. \A i \in T : n - i \in Left
    OBVIOUS
  <1>3. \A k \in Left : \E i \in T : k = n - i
    OBVIOUS
  <1> HIDE DEF Left
  <1>4. PICK k \in Left : \A m \in Left : k <= m
    BY <1>1, Least
  <1>5. PICK i \in T : k = n - i
    BY <1>3
  <1>6. \A j \in T : j <= i
    BY <1>2, <1>4, <1>5
  <1> QED
    BY <1>6

\* What is heard, and what it hits, grows with the observations.
LEMMA MoreIsHeard ==
  ASSUME NEW p, NEW obs, NEW more, obs \subseteq more
  PROVE  /\ About(p, obs) \subseteq About(p, more) /\ Hits(p, obs) \subseteq Hits(p, more)
         /\ Looked(p, obs) \subseteq Looked(p, more)
  BY DEF Hits, About, Hearing, Looked

\* More evidence settles a prediction for good: what was borne out of something present
\* stays so, an absence that was refuted stays refuted, and a prediction that was answered
\* is not unanswered again (corroboration.ts, evaluatePrediction, over the observations
\* that the hypothesis loop accumulates).
THEOREM EvidenceAccumulates ==
  ASSUME NEW p \in Prediction, NEW obs, NEW more, obs \subseteq more
  PROVE  /\ p.present /\ Holds(p, obs) => Holds(p, more)
         /\ ~p.present /\ Holds(p, more) => Verdict(p, obs) # "contradicted"
         /\ Verdict(p, obs) # "absent" => Verdict(p, more) # "absent"
  <1>1. /\ Hits(p, obs) \subseteq Hits(p, more) /\ About(p, obs) \subseteq About(p, more)
        /\ Looked(p, obs) \subseteq Looked(p, more)
    BY MoreIsHeard
  <1>2. CASE p.present
    BY <1>1, <1>2 DEF Holds, Verdict, Foreseen
  <1>3. CASE ~p.present
    BY <1>1, <1>3 DEF Holds, Verdict, Missing
  <1> QED
    BY <1>2, <1>3

\* The same observations never bear out both something and its absence, so two hypotheses
\* that predict opposites are always told apart; and a prediction is judged by the role it
\* is put to alone: what the others saw changes nothing (corroboration.ts,
\* evaluatePrediction and assessDiscrimination).
THEOREM OppositesAreToldApart ==
  ASSUME NEW p \in Prediction, NEW q \in Prediction, NEW obs, NEW others,
         \A o \in others : o.phase # AskedOf[p.kind]
  PROVE  /\ p.kind = q.kind /\ p.subject = q.subject /\ p.present # q.present =>
              ~(Holds(p, obs) /\ Holds(q, obs))
         /\ Verdict(p, obs \cup others) = Verdict(p, obs)
  <1>1. ASSUME p.kind = q.kind, p.subject = q.subject PROVE Hits(p, obs) = Hits(q, obs)
    BY <1>1 DEF Hits, About, Hearing
  <1>2. p.present \in BOOLEAN /\ q.present \in BOOLEAN
    BY DEF Prediction
  <1>3. ASSUME p.kind = q.kind, p.subject = q.subject, p.present # q.present
        PROVE  ~(Holds(p, obs) /\ Holds(q, obs))
    <2>1. \A r \in {p, q} : /\ r.present /\ Holds(r, obs) => Hits(r, obs) # {}
                            /\ ~r.present /\ Holds(r, obs) => Hits(r, obs) = {}
      BY DEF Holds, Verdict, Foreseen, Missing
    <2> QED
      BY <1>1, <1>2, <1>3, <2>1
  <1>4. Hearing(p, obs \cup others) = Hearing(p, obs)
    BY DEF Hearing
  <1>5. /\ About(p, obs \cup others) = About(p, obs) /\ Hits(p, obs \cup others) = Hits(p, obs)
        /\ Looked(p, obs \cup others) = Looked(p, obs)
    BY <1>4 DEF About, Hits, Looked
  <1> QED
    BY <1>3, <1>5 DEF Verdict, Foreseen, Missing

\* A prediction of something present that was borne out stays so.
LEMMA StillHolds ==
  ASSUME NEW p, NEW obs, NEW more, p.present, Holds(p, obs), obs \subseteq more
  PROVE  Holds(p, more)
  BY MoreIsHeard DEF Holds, Verdict, Foreseen

LEMMA VerdictTypes ==
  ASSUME NEW p, NEW obs
  PROVE  Verdict(p, obs) \in Verdicts
  BY DEF Verdict, Foreseen, Missing, Verdicts

\* The retries an agent may have.
LEMMA AttemptsAllowed ==
  ASSUME readOnly \in BOOLEAN
  PROVE  /\ Attempts \in 1..MaxAttempts /\ MaxAttempts \in Nat
         /\ ~readOnly => Attempts = 1
  BY PipelineAssumption DEF Attempts

\* A ranking is a sequence of hypotheses.
LEMMA RankingTypes ==
  ASSUME NEW h \in Rankings
  PROVE  /\ h \in Seq(Hypothesis) /\ Len(h) \in Nat /\ DOMAIN h = 1..Len(h)
         /\ \A i \in DOMAIN h : h[i] \in Hypothesis
  BY PipelineAssumption DEF Rankings

LEMMA RuledOutTypes ==
  ASSUME PipelineTypeOK
  PROVE  /\ ruledOut \in Seq([text : Texts, reason : Verdicts \ {"satisfied"}])
         /\ Tested \in Nat /\ DOMAIN ruledOut = 1..Tested
         /\ \A i \in DOMAIN ruledOut :
              /\ ruledOut[i] \in [text : Texts, reason : Verdicts \ {"satisfied"}]
              /\ ruledOut[i].text \in Texts
              /\ ruledOut[i].reason \in Verdicts /\ ruledOut[i].reason # "satisfied"
  <1> DEFINE R == [text : Texts, reason : Verdicts \ {"satisfied"}]
  <1>1. ruledOut \in Seq(R)
    BY DEF PipelineTypeOK
  <1>2. \A e \in R : e.text \in Texts /\ e.reason \in Verdicts /\ e.reason # "satisfied"
    OBVIOUS
  <1> HIDE DEF R
  <1>3. Tested \in Nat /\ DOMAIN ruledOut = 1..Tested
        /\ \A i \in DOMAIN ruledOut : ruledOut[i] \in R
    BY <1>1, LenProperties, ElementOfSeq DEF Tested
  <1> QED
    BY <1>1, <1>2, <1>3 DEF R

\* What is left to test, the leader at its head.
LEMMA RankedTypes ==
  ASSUME PipelineTypeOK
  PROVE  /\ Len(Ranked) = Len(hyps) - Tested
         /\ Ranked # <<>> => Tested < Len(hyps) /\ Ranked[1] = hyps[Tested + 1]
         /\ Tested + 1 < Len(hyps) => Ranked[2] = hyps[Tested + 2]
  <1>1. /\ hyps \in Seq(Hypothesis) /\ Len(hyps) \in Nat /\ Tested \in Nat
        /\ Tested <= Len(hyps)
    BY RankingTypes, RuledOutTypes DEF PipelineTypeOK, Tested
  <1>2. \A i \in (Tested + 1)..Len(hyps) : hyps[i] \in Hypothesis
    BY <1>1
  <1>3. /\ Len(Ranked) = IF Tested + 1 <= Len(hyps) THEN Len(hyps) - (Tested + 1) + 1 ELSE 0
        /\ \A i \in 1..(Len(hyps) - (Tested + 1) + 1) : Ranked[i] = hyps[Tested + 1 + i - 1]
    BY <1>1, <1>2, SubSeqProperties DEF Ranked
  <1>4. Ranked # <<>> => Tested < Len(hyps)
    <2>1. Tested = Len(hyps) => Ranked = <<>>
      BY <1>1, SubSeqEmpty DEF Ranked
    <2> QED
      BY <1>1, <2>1
  <1> QED
    BY <1>1, <1>3, <1>4

\* The first of a queue, in their order.
LEMMA CutOf ==
  ASSUME NEW S, NEW q \in Seq(S)
  PROVE  /\ Cut(q) \in Seq(S)
         /\ \A i \in DOMAIN Cut(q) : i \in DOMAIN q /\ Cut(q)[i] = q[i]
  <1> DEFINE n == IF Len(q) <= MaxReexamine THEN Len(q) ELSE MaxReexamine
  <1>1. n \in Nat /\ {j \in DOMAIN q : j <= MaxReexamine} = 1..n
    BY PipelineAssumption
  <1>2. DOMAIN Cut(q) = 1..n /\ \A i \in 1..n : i \in DOMAIN q /\ Cut(q)[i] = q[i]
    BY <1>1 DEF Cut
  <1> HIDE DEF n
  <1>3. Cut(q) \in [1..n -> S]
    <2>1. \A i \in 1..n : Cut(q)[i] \in S
      BY <1>2
    <2>2. Cut(q) = [i \in 1..n |-> q[i]]
      BY <1>1 DEF Cut
    <2> QED
      BY <1>2, <2>1, <2>2
  <1>4. Cut(q) \in Seq(S)
    BY <1>1, <1>3
  <1> QED
    BY <1>2, <1>4

\* The hypothesis a dismissed text is rejoined with has that text.
LEMMA RejoinedText ==
  ASSUME PipelineTypeOK, NEW i \in DOMAIN hyps
  PROVE  Rejoined(hyps[i].text) \in Hypothesis /\ Rejoined(hyps[i].text).text = hyps[i].text
  <1> DEFINE Same == {j \in DOMAIN hyps : hyps[j].text = hyps[i].text}
             Last(j) == /\ hyps[j].text = hyps[i].text
                        /\ \A k \in DOMAIN hyps : hyps[k].text = hyps[i].text => k <= j
  <1>1. Len(hyps) \in Nat /\ DOMAIN hyps = 1..Len(hyps)
        /\ \A j \in DOMAIN hyps : hyps[j] \in Hypothesis
    BY RankingTypes DEF PipelineTypeOK
  <1>2. \E j \in Same : \A k \in Same : k <= j
    <2>1. Same \in SUBSET (1..Len(hyps)) /\ Same # {}
      BY <1>1
    <2> QED
      BY <1>1, <2>1, LastPlace
  <1>3. \E j \in DOMAIN hyps : Last(j)
    BY <1>2
  <1>4. (CHOOSE j \in DOMAIN hyps : Last(j)) \in DOMAIN hyps
        /\ Last(CHOOSE j \in DOMAIN hyps : Last(j))
    BY <1>3
  <1>5. Rejoined(hyps[i].text) = hyps[CHOOSE j \in DOMAIN hyps : Last(j)]
    BY DEF Rejoined
  <1> HIDE DEF Last
  <1>6. hyps[CHOOSE j \in DOMAIN hyps : Last(j)].text = hyps[i].text
    BY <1>4 DEF Last
  <1> QED
    BY <1>1, <1>4, <1>5, <1>6

-----------------------------------------------------------------------------
(* What the actions do to the parts of the invariant.                      *)

Call == [at : {"off", "ready", "running", "settled", "unavailable"},
         starts : 0..MaxAttempts, armed : BOOLEAN]

\* Before the report deep mode has nothing.
LEMMA NotAskedYet ==
  ASSUME PipelineInv, step # "reported", UNCHANGED again
  PROVE  Deep' /\ deep' = "none" /\ targets' = <<>> /\ redone' = <<>> /\ deepSeen' = {}
  BY DEF PipelineInv, Deep, Fair, again

\* Which calls are under way at a step.
LEMMA AtStep ==
  ASSUME PipelineTypeOK
  PROVE  /\ Mine \subseteq Calls /\ Streams \subseteq Phases
         /\ step = "planning" => Mine = {"planning"}
         /\ step = "evidence" => Mine = Streams
         /\ step = "synthesis" => Mine = {"synthesis"}
         /\ step \in {"prefetch", "loop", "post", "reported"} => Mine = {}
         /\ \A c \in Mine : step \in {"planning", "evidence", "synthesis", "thrown"}
  <1>1. Streams \subseteq Phases
    BY DEF PipelineTypeOK, Templates, Streams, Phases
  <1> QED
    BY <1>1 DEF PipelineTypeOK, Mine, Calls, Phases

\* A call that is neither off nor at rest is one of the step under way.
LEMMA UnderWay ==
  ASSUME PipelineInv, NEW c \in Calls, calls[c].at \in {"ready", "running"}
  PROVE  /\ c \in Mine /\ step \in {"planning", "evidence", "synthesis"}
         /\ Called(calls[c], TRUE)
  <1>1. Called(calls[c], c \in Mine) /\ c \in Mine
    BY DEF PipelineInv, Calling, Called
  <1> QED
    BY <1>1, AtStep DEF PipelineInv, Called

\* One call moves on.
LEMMA OneCall ==
  ASSUME PipelineInv, NEW c \in Mine, step # "thrown", UNCHANGED flow,
         NEW k \in Call, calls' = [calls EXCEPT ![c] = k],
         k.starts <= Attempts, k.at = "ready" => k.starts < Attempts, k.armed => ~readOnly,
         k.at # "off"
  PROVE  Calling' /\ calls' \in [Calls -> Call]
  <1>1. c \in Calls /\ calls \in [Calls -> Call]
    BY AtStep DEF PipelineInv, PipelineTypeOK, Call
  <1>2. calls' \in [Calls -> Call] /\ calls'[c] = k
        /\ \A d \in Calls : d # c => calls'[d] = calls[d]
    BY <1>1
  <1>3. Mine' = Mine /\ Attempts' = Attempts /\ step' = step /\ readOnly' = readOnly
    BY DEF Mine, Streams, Attempts, flow
  <1>4. \A d \in Calls : Called(calls[d], d \in Mine)
    BY DEF PipelineInv, Calling
  <1>5. \A d \in Calls : Called(calls[d], d \in Mine)'
    BY <1>2, <1>3, <1>4 DEF Called
  <1> QED
    BY <1>2, <1>3, <1>5 DEF Calling

\* A step starts with its own call ready, or with none.
LEMMA Entered ==
  ASSUME PipelineTypeOK, readOnly' = readOnly, NEW c \in Calls,
         calls' = [Idle EXCEPT ![c].at = "ready"], c \in Mine', step' # "thrown"
  PROVE  Calling' /\ calls' \in [Calls -> Call]
  <1>1. Attempts \in 1..MaxAttempts /\ MaxAttempts \in Nat
    BY AttemptsAllowed DEF PipelineTypeOK
  <1>2. /\ calls'[c] = [at |-> "ready", starts |-> 0, armed |-> FALSE]
        /\ \A d \in Calls : d # c => calls'[d] = [at |-> "off", starts |-> 0, armed |-> FALSE]
    BY DEF Idle
  <1>3. calls' \in [Calls -> Call]
    <2>1. DOMAIN calls' = Calls /\ calls' = [d \in Calls |-> calls'[d]]
      BY DEF Idle
    <2>2. /\ [at |-> "ready", starts |-> 0, armed |-> FALSE] \in Call
          /\ [at |-> "off", starts |-> 0, armed |-> FALSE] \in Call
      BY <1>1 DEF Call
    <2> QED
      BY <1>2, <2>1, <2>2
  <1>4. Attempts' = Attempts
    BY DEF Attempts
  <1>5. \A d \in Calls : Called(calls[d], d \in Mine)'
    BY <1>1, <1>2, <1>4 DEF Called
  <1> QED
    BY <1>3, <1>5 DEF Calling

LEMMA Left ==
  ASSUME PipelineTypeOK, readOnly' = readOnly, calls' = Idle, step' # "thrown"
  PROVE  Calling' /\ calls' \in [Calls -> Call]
  <1>1. Attempts \in 1..MaxAttempts /\ MaxAttempts \in Nat
    BY AttemptsAllowed DEF PipelineTypeOK
  <1>2. \A d \in Calls : calls'[d] = [at |-> "off", starts |-> 0, armed |-> FALSE]
    BY DEF Idle
  <1>3. calls' \in [Calls -> Call]
    BY <1>1 DEF Idle, Call
  <1>4. Attempts' = Attempts
    BY DEF Attempts
  <1>5. \A d \in Calls : Called(calls[d], d \in Mine)'
    BY <1>1, <1>2, <1>4 DEF Called
  <1> QED
    BY <1>3, <1>5 DEF Calling

\* What is found is what the tools may yield.
LEMMA YieldsFindings ==
  ASSUME NEW phase, NEW fresh \in Yields(phase)
  PROVE  fresh \subseteq Findings
  BY DEF Yields

-----------------------------------------------------------------------------
(* The actions of the workflow.                                            *)

LEMMA PrefetchKeeps == PipelineInv /\ Prefetch => PipelineInv'
  <1> SUFFICES ASSUME PipelineInv, Prefetch PROVE PipelineInv'
    OBVIOUS
  <1> USE DEF Prefetch, Enter
  <1>1. Calling' /\ calls' \in [Calls -> Call]
    <2>1. "planning" \in Calls /\ "planning" \in Mine'
      BY DEF Calls, Mine
    <2> QED
      BY <2>1, Entered DEF PipelineInv
  <1>2. PipelineTypeOK'
    BY <1>1 DEF PipelineInv, PipelineTypeOK, loop, again, Call
  <1>3. Looping'
    BY DEF PipelineInv, Looping, Tested, loop
  <1> QED
    BY <1>1, <1>2, <1>3, NotAskedYet DEF PipelineInv

LEMMA PlanKeeps == PipelineInv /\ Plan => PipelineInv'
  <1> SUFFICES ASSUME PipelineInv, Plan PROVE PipelineInv'
    OBVIOUS
  <1> USE DEF Plan, Leave
  <1>1. Calling' /\ calls' \in [Calls -> Call]
    BY Left DEF PipelineInv
  <1>2. PipelineTypeOK'
    BY <1>1 DEF PipelineInv, PipelineTypeOK, loop, again, Call
  <1>0. step \in {"planning", "evidence", "synthesis"}
    BY UnderWay DEF Calls
  <1>3. Looping'
    BY <1>0 DEF PipelineInv, Looping, Tested, loop
  <1> QED
    BY <1>0, <1>1, <1>2, <1>3, NotAskedYet DEF PipelineInv

LEMMA EvidenceDoneKeeps == PipelineInv /\ EvidenceDone => PipelineInv'
  <1> SUFFICES ASSUME PipelineInv, EvidenceDone PROVE PipelineInv'
    OBVIOUS
  <1> USE DEF EvidenceDone, Enter
  <1>1. Calling' /\ calls' \in [Calls -> Call]
    <2>1. "synthesis" \in Calls /\ "synthesis" \in Mine'
      BY DEF Calls, Mine
    <2> QED
      BY <2>1, Entered DEF PipelineInv
  <1>2. PipelineTypeOK'
    BY <1>1 DEF PipelineInv, PipelineTypeOK, loop, again, Call
  <1>3. Looping'
    BY DEF PipelineInv, Looping, Tested, loop
  <1> QED
    BY <1>1, <1>2, <1>3, NotAskedYet DEF PipelineInv

LEMMA SynthesizeKeeps == PipelineInv /\ Synthesize => PipelineInv'
  <1> SUFFICES ASSUME PipelineInv, Synthesize PROVE PipelineInv'
    OBVIOUS
  <1> USE DEF Synthesize, Leave
  <1>0. step \in {"planning", "evidence", "synthesis"}
    BY UnderWay DEF Calls
  <1>1. Calling' /\ calls' \in [Calls -> Call]
    BY Left DEF PipelineInv
  <1>2. ruledOut' = <<>> /\ outcome' = "none"
    BY <1>0 DEF PipelineInv, Looping
  <1>3. hyps' \in Rankings
    <2>1. <<>> \in Rankings
      BY PipelineAssumption DEF Rankings
    <2> QED
      BY <2>1
  <1>4. Len(hyps') \in Nat
    BY <1>3, RankingTypes
  <1>5. PipelineTypeOK'
    BY <1>1, <1>2, <1>3, <1>4, PipelineAssumption
       DEF PipelineInv, PipelineTypeOK, again, Call
  <1>6. Looping'
    BY <1>2, <1>4, PipelineAssumption DEF Looping, Tested
  <1> QED
    BY <1>0, <1>1, <1>5, <1>6, NotAskedYet DEF PipelineInv

LEMMA ThrowKeeps == PipelineInv /\ Throw => PipelineInv'
  <1> SUFFICES ASSUME PipelineInv, Throw PROVE PipelineInv'
    OBVIOUS
  <1> USE DEF Throw, Failed
  <1>1. step' = "thrown" /\ Mine' = Calls /\ Attempts' = Attempts
    BY DEF Mine, Attempts
  <1>2. PipelineTypeOK'
    BY <1>1 DEF PipelineInv, PipelineTypeOK, loop, again
  <1>3. Calling'
    <2>1. \A c \in Calls : Called(calls[c], c \in Mine)
      BY DEF PipelineInv, Calling
    <2>2. \A c \in Calls : calls[c].at \in {"off", "settled", "unavailable"}
      <3> SUFFICES ASSUME NEW c \in Calls PROVE calls[c].at \in {"off", "settled", "unavailable"}
        OBVIOUS
      <3>1. CASE step = "evidence"
        BY <2>1, <3>1, AtStep DEF Called, PipelineInv
      <3>2. CASE step \in {"planning", "synthesis"}
        <4>1. PICK d \in Calls : calls[d].at = "unavailable"
          OBVIOUS
        <4>2. d \in Mine
          BY <2>1, <4>1 DEF Called
        <4>3. c # d => c \notin Mine
          BY <3>2, <4>2, AtStep DEF PipelineInv
        <4> QED
          BY <2>1, <4>1, <4>3 DEF Called
      <3> QED
        BY <3>1, <3>2
    <2>3. \A c \in Calls : Called(calls[c], c \in Mine)'
      BY <1>1, <2>1, <2>2 DEF Called
    <2> QED
      BY <2>3 DEF Calling
  <1>4. Looping'
    BY <1>1 DEF PipelineInv, Looping, Tested, loop
  <1> QED
    BY <1>2, <1>3, <1>4, NotAskedYet DEF PipelineInv

LEMMA DegradeKeeps == PipelineInv /\ Degrade => PipelineInv'
  <1> SUFFICES ASSUME PipelineInv, Degrade PROVE PipelineInv'
    OBVIOUS
  <1> USE DEF Degrade, Leave, Failed
  <1>1. Calling' /\ calls' \in [Calls -> Call]
    BY Left DEF PipelineInv
  <1>2. hyps' \in Rankings /\ Len(hyps') = 0 /\ Len(ruledOut') = 0
    BY PipelineAssumption DEF Rankings
  <1>3. PipelineTypeOK'
    BY <1>1, <1>2, PipelineAssumption DEF PipelineInv, PipelineTypeOK, again, Call
  <1>4. Looping'
    BY <1>2, PipelineAssumption DEF Looping, Tested
  <1> QED
    BY <1>1, <1>3, <1>4, NotAskedYet DEF PipelineInv

\* Nothing but the calls moves.
LEMMA OnlyCalls ==
  ASSUME PipelineInv, UNCHANGED <<flow, gathered, loop, again>>,
         Calling', calls' \in [Calls -> Call]
  PROVE  PipelineInv'
  <1>1. PipelineTypeOK'
    BY DEF PipelineInv, PipelineTypeOK, flow, loop, again, Call
  <1>2. Looping' /\ Deep'
    BY DEF PipelineInv, Looping, Deep, Fair, Tested, flow, loop, again
  <1> QED
    BY <1>1, <1>2 DEF PipelineInv

\* What a call is, by its fields.
LEMMA CallTypes ==
  ASSUME PipelineTypeOK, NEW c \in Calls
  PROVE  /\ calls[c] \in Call /\ calls[c].starts \in Nat /\ calls[c].armed \in BOOLEAN
         /\ calls[c] = [at |-> calls[c].at, starts |-> calls[c].starts, armed |-> calls[c].armed]
  <1>1. calls[c] \in Call
    BY DEF PipelineTypeOK, Call
  <1> QED
    BY <1>1, AttemptsAllowed DEF Call, PipelineTypeOK

LEMMA StartKeeps ==
  ASSUME PipelineInv, NEW c \in Calls, Start(c)
  PROVE  PipelineInv'
  <1> DEFINE k == [at |-> "running", starts |-> calls[c].starts + 1, armed |-> calls[c].armed]
  <1>1. /\ c \in Mine /\ step # "thrown" /\ Called(calls[c], TRUE)
    BY UnderWay DEF Start
  <1>2. /\ calls[c] \in Call /\ calls[c].starts \in Nat
        /\ calls[c] = [at |-> calls[c].at, starts |-> calls[c].starts, armed |-> calls[c].armed]
    BY CallTypes DEF PipelineInv
  <1>3. Attempts \in 1..MaxAttempts /\ MaxAttempts \in Nat
    BY AttemptsAllowed DEF PipelineInv, PipelineTypeOK
  <1>4. k.at = "running" /\ k.starts = calls[c].starts + 1 /\ (k.armed <=> calls[c].armed)
    OBVIOUS
  <1>5. k.starts <= Attempts
    <2>1. calls[c].starts < Attempts
      BY <1>1 DEF Called, Start
    <2> QED
      BY <1>2, <1>3, <2>1
  <1>6. k \in Call /\ (k.armed => ~readOnly)
    BY <1>1, <1>2, <1>3, <1>4, <1>5 DEF Called, Call
  <1>7. calls' = [calls EXCEPT ![c] = k]
    <2>1. calls' = [calls EXCEPT ![c].at = "running", ![c].starts = @ + 1]
      BY DEF Start
    <2> DEFINE j == [at |-> "running", starts |-> calls[c].starts, armed |-> calls[c].armed]
    <2>2. [calls[c] EXCEPT !.at = "running"] = j
      BY <1>2
    <2>3. [j EXCEPT !.starts = @ + 1] = k
      OBVIOUS
    <2> HIDE DEF j, k
    <2>4. [[calls[c] EXCEPT !.at = "running"] EXCEPT !.starts = @ + 1] = k
      BY <2>2, <2>3
    <2>5. calls' = [calls EXCEPT ![c] = [[calls[c] EXCEPT !.at = "running"] EXCEPT !.starts = @ + 1]]
      BY <2>1 DEF PipelineInv, PipelineTypeOK
    <2> QED
      BY <2>4, <2>5
  <1> HIDE DEF k
  <1>8. UNCHANGED <<flow, gathered, loop, again>>
    BY DEF Start
  <1>9. Calling' /\ calls' \in [Calls -> Call]
    BY <1>1, <1>4, <1>5, <1>6, <1>7, <1>8, OneCall
  <1> QED
    BY <1>8, <1>9, OnlyCalls

LEMMA UnavailableKeeps ==
  ASSUME PipelineInv, NEW c \in Calls, Unavailable(c)
  PROVE  PipelineInv'
  <1> DEFINE next == IF calls[c].starts < Attempts THEN "ready" ELSE "unavailable"
             k == [at |-> next, starts |-> calls[c].starts, armed |-> calls[c].armed]
  <1>1. /\ c \in Mine /\ step # "thrown" /\ Called(calls[c], TRUE)
    BY UnderWay DEF Unavailable
  <1>2. /\ calls[c] \in Call
        /\ calls[c] = [at |-> calls[c].at, starts |-> calls[c].starts, armed |-> calls[c].armed]
    BY CallTypes DEF PipelineInv
  <1>3. k \in Call /\ k.starts <= Attempts /\ (k.armed => ~readOnly)
        /\ (k.at = "ready" => k.starts < Attempts) /\ k.at # "off"
    BY <1>1, <1>2 DEF Called, Call
  <1>4. calls' = [calls EXCEPT ![c] = k]
    <2>1. calls' = [calls EXCEPT ![c].at = next]
      BY DEF Unavailable, Put
    <2>2. [calls[c] EXCEPT !.at = next] = k
      BY <1>2
    <2> QED
      BY <2>1, <2>2
  <1> HIDE DEF k
  <1>5. UNCHANGED <<flow, gathered, loop, again>>
    BY DEF Unavailable
  <1>6. Calling' /\ calls' \in [Calls -> Call]
    BY <1>1, <1>3, <1>4, <1>5, OneCall
  <1> QED
    BY <1>5, <1>6, OnlyCalls

LEMMA OpenStreamKeeps ==
  ASSUME PipelineInv, NEW s \in Phases, OpenStream(s)
  PROVE  PipelineInv'
  <1>1. s \in Calls /\ s \in Mine /\ step # "thrown" /\ calls[s].at = "off"
    BY AtStep DEF OpenStream, PipelineInv, Calls
  <1>2. PICK tools \in SUBSET {"read", "write"} :
          LET kept == IF readOnly THEN tools \ {"write"} ELSE tools IN
          calls' = [calls EXCEPT ![s].at = IF kept = {} THEN "settled" ELSE "ready",
                                 ![s].armed = "write" \in kept]
    BY DEF OpenStream
  <1> DEFINE kept == IF readOnly THEN tools \ {"write"} ELSE tools
             next == IF kept = {} THEN "settled" ELSE "ready"
             armed == "write" \in kept
             k == [at |-> next, starts |-> calls[s].starts, armed |-> armed]
  <1>3. next \in {"settled", "ready"} /\ armed \in BOOLEAN /\ (armed => ~readOnly)
    BY DEF PipelineInv, PipelineTypeOK
  <1>4. calls' = [calls EXCEPT ![s].at = next, ![s].armed = armed]
    BY <1>2
  <1> HIDE DEF next, armed
  <1>5. /\ calls[s] \in Call
        /\ calls[s] = [at |-> calls[s].at, starts |-> calls[s].starts, armed |-> calls[s].armed]
    BY <1>1, CallTypes DEF PipelineInv
  <1>6. Called(calls[s], s \in Mine) /\ Attempts \in 1..MaxAttempts /\ MaxAttempts \in Nat
    BY <1>1, AttemptsAllowed DEF PipelineInv, PipelineTypeOK, Calling
  <1>7. calls[s].starts = 0
    BY <1>1, <1>6, Zenon DEF Called
  <1>8. k \in Call /\ k.starts <= Attempts /\ (k.armed => ~readOnly)
        /\ (k.at = "ready" => k.starts < Attempts) /\ k.at # "off"
    BY <1>3, <1>5, <1>6, <1>7 DEF Call
  <1>9. calls' = [calls EXCEPT ![s] = k]
    <2> DEFINE j == [at |-> next, starts |-> calls[s].starts, armed |-> calls[s].armed]
    <2>1. [calls[s] EXCEPT !.at = next] = j
      BY <1>5
    <2>2. [j EXCEPT !.armed = armed] = k
      OBVIOUS
    <2> HIDE DEF j, k
    <2>3. [[calls[s] EXCEPT !.at = next] EXCEPT !.armed = armed] = k
      BY <2>1, <2>2
    <2>4. calls' = [calls EXCEPT ![s] = [[calls[s] EXCEPT !.at = next] EXCEPT !.armed = armed]]
      BY <1>1, <1>4 DEF PipelineInv, PipelineTypeOK
    <2> QED
      BY <2>3, <2>4
  <1> HIDE DEF k
  <1>10. UNCHANGED <<flow, gathered, loop, again>>
    BY DEF OpenStream
  <1>11. Calling' /\ calls' \in [Calls -> Call]
    BY <1>1, <1>8, <1>9, <1>10, OneCall
  <1> QED
    BY <1>10, <1>11, OnlyCalls

LEMMA StreamSettlesKeeps ==
  ASSUME PipelineInv, NEW s \in Phases, StreamSettles(s)
  PROVE  PipelineInv'
  <1> DEFINE k == [at |-> "settled", starts |-> calls[s].starts, armed |-> calls[s].armed]
  <1>1. s \in Calls /\ s \in Mine /\ step # "thrown" /\ Called(calls[s], TRUE)
    BY UnderWay DEF StreamSettles, Calls
  <1>2. step = "evidence"
    BY <1>1, UnderWay, AtStep DEF Phases, StreamSettles, PipelineInv
  <1>3. /\ calls[s] \in Call
        /\ calls[s] = [at |-> calls[s].at, starts |-> calls[s].starts, armed |-> calls[s].armed]
    BY <1>1, CallTypes DEF PipelineInv
  <1>4. k \in Call /\ k.starts <= Attempts /\ (k.armed => ~readOnly) /\ k.at = "settled"
    BY <1>1, <1>3 DEF Called, Call
  <1>5. calls' = [calls EXCEPT ![s] = k]
    <2>1. calls' = [calls EXCEPT ![s].at = "settled"]
      BY DEF StreamSettles, Put
    <2>2. [calls[s] EXCEPT !.at = "settled"] = k
      BY <1>3
    <2> QED
      BY <2>1, <2>2
  <1> HIDE DEF k
  <1>6. UNCHANGED <<flow, loop, again>>
    BY DEF StreamSettles
  <1>7. Calling' /\ calls' \in [Calls -> Call]
    BY <1>1, <1>4, <1>5, <1>6, OneCall
  <1>8. gathered' \subseteq Findings
    BY YieldsFindings DEF StreamSettles, PipelineInv, PipelineTypeOK
  <1>9. PipelineTypeOK'
    BY <1>6, <1>7, <1>8 DEF PipelineInv, PipelineTypeOK, flow, loop, again, Call
  <1>10. Looping'
    BY <1>2, <1>6 DEF PipelineInv, Looping, Tested, flow, loop
  <1> QED
    BY <1>2, <1>6, <1>7, <1>9, <1>10, NotAskedYet DEF PipelineInv

-----------------------------------------------------------------------------
(* The hypothesis loop and what follows it.                                *)

\* No call of the model is followed by the workflow once the loop is there.
LEMMA NoCall ==
  ASSUME PipelineInv, step \in {"loop", "post", "reported"},
         step' \in {"loop", "post", "reported"}, UNCHANGED <<readOnly, template, calls>>
  PROVE  Calling'
  <1>1. Mine = {} /\ Mine' = {} /\ Attempts' = Attempts
    BY DEF Mine, Attempts
  <1>2. \A c \in Calls : Called(calls[c], c \in Mine)
    BY DEF PipelineInv, Calling
  <1>3. \A c \in Calls : Called(calls[c], c \in Mine)'
    BY <1>1, <1>2 DEF Called
  <1> QED
    BY <1>3 DEF Calling

LEMMA TestLeaderKeeps == PipelineInv /\ TestLeader => PipelineInv'
  <1> SUFFICES ASSUME PipelineInv, TestLeader PROVE PipelineInv'
    OBVIOUS
  <1>1. PICK fresh \in Yields(AskedOf[Ranked[1].prediction.kind]) :
         LET seen == gathered \cup fresh
             result == Assessed(Ranked, seen) IN
         /\ gathered' = seen
         /\ IF result = "weakened"
            THEN /\ ruledOut' = Append(ruledOut, [text |-> Ranked[1].text,
                                                  reason |-> Verdict(Ranked[1].prediction, seen)])
                 /\ UNCHANGED <<step, outcome>>
            ELSE outcome' = result /\ step' = "post" /\ UNCHANGED ruledOut
    BY DEF TestLeader
  <1> DEFINE seen == gathered \cup fresh
             result == Assessed(Ranked, seen)
             demoted == [text |-> Ranked[1].text, reason |-> Verdict(Ranked[1].prediction, seen)]
  <1>2. /\ step = "loop" /\ Ranked # <<>> /\ Tested < Rounds
        /\ UNCHANGED <<readOnly, template, calls, hyps, again>>
    BY DEF TestLeader
  <1>3. seen \subseteq Findings
    BY <1>1, YieldsFindings DEF PipelineInv, PipelineTypeOK
  <1>4. /\ Tested < Len(hyps) /\ Ranked[1] = hyps[Tested + 1]
        /\ Len(Ranked) = Len(hyps) - Tested
        /\ Tested + 1 < Len(hyps) => Ranked[2] = hyps[Tested + 2]
    BY <1>2, RankedTypes DEF PipelineInv
  <1>5. /\ Len(hyps) \in Nat /\ DOMAIN hyps = 1..Len(hyps) /\ Tested \in Nat /\ Rounds \in Nat
        /\ DOMAIN ruledOut = 1..Tested /\ Len(ruledOut) = Tested
        /\ hyps[Tested + 1] \in Hypothesis
    BY <1>4, RankingTypes, RuledOutTypes, PipelineAssumption
       DEF PipelineInv, PipelineTypeOK, Tested
  <1>6. /\ outcome = "none"
        /\ \A i \in DOMAIN ruledOut : ruledOut[i].text = hyps[i].text
    BY <1>2 DEF PipelineInv, Looping
  <1>7. step' \in {"loop", "post"}
    BY <1>1, <1>2
  <1>8. Calling'
    BY <1>2, <1>7, NoCall
  <1>9. Deep'
    BY <1>2, NotAskedYet
  <1>10. CASE result = "weakened"
    <2> DEFINE R == [text : Texts, reason : Verdicts \ {"satisfied"}]
    <2>1. /\ ruledOut' = Append(ruledOut, demoted) /\ step' = step /\ outcome' = outcome
          /\ gathered' = seen
      BY <1>1, <1>10
    <2>2. ~Holds(Ranked[1].prediction, seen)
      BY <1>10 DEF Assessed
    <2>3. demoted.reason \in Verdicts /\ demoted.reason # "satisfied"
      BY <2>2, VerdictTypes DEF Holds
    <2>4. demoted \in R /\ demoted.text = hyps[Tested + 1].text
      BY <1>4, <1>5, <2>3 DEF Hypothesis
    <2>5. ruledOut \in Seq(R)
      BY DEF PipelineInv, PipelineTypeOK
    <2> HIDE DEF demoted, R
    <2>6. /\ ruledOut' \in Seq(R) /\ Len(ruledOut') = Tested + 1
          /\ DOMAIN ruledOut' = 1..(Tested + 1)
          /\ \A i \in 1..Tested : ruledOut'[i] = ruledOut[i]
          /\ ruledOut'[Tested + 1] = demoted
      BY <1>5, <2>1, <2>4, <2>5, AppendProperties, LenProperties
    <2>7. PipelineTypeOK'
      <3>1. Len(ruledOut') <= Len(hyps) /\ Len(ruledOut') <= Rounds
        BY <1>2, <1>4, <1>5, <2>6
      <3> QED
        BY <1>2, <1>3, <2>1, <2>6, <3>1 DEF PipelineInv, PipelineTypeOK, again, R
    <2>8. Looping'
      <3>1. Tested' = Tested + 1 /\ hyps' = hyps /\ outcome' = "none" /\ step' = "loop"
        BY <1>2, <1>6, <2>1, <2>6 DEF Tested
      <3>2. \A i \in DOMAIN ruledOut' : ruledOut'[i].text = hyps[i].text
        <4> SUFFICES ASSUME NEW i \in DOMAIN ruledOut' PROVE ruledOut'[i].text = hyps[i].text
          OBVIOUS
        <4>1. CASE i = Tested + 1
          BY <2>4, <2>6, <4>1
        <4>2. CASE i \in 1..Tested
          BY <1>5, <1>6, <2>6, <4>2
        <4> QED
          BY <1>5, <2>6, <4>1, <4>2
      <3> QED
        BY <1>2, <1>4, <1>5, <3>1, <3>2 DEF Looping
    <2> QED
      BY <1>8, <1>9, <2>7, <2>8 DEF PipelineInv
  <1>11. CASE result # "weakened"
    <2>1. outcome' = result /\ step' = "post" /\ ruledOut' = ruledOut /\ gathered' = seen
      BY <1>1, <1>11
    <2>2. Holds(Ranked[1].prediction, seen)
      BY <1>11 DEF Assessed
    <2>3. /\ result \in {"confirmed", "undetermined"}
          /\ result = "undetermined" => Len(Ranked) > 1 /\ Holds(Ranked[2].prediction, seen)
      BY <1>11 DEF Assessed
    <2> HIDE DEF result
    <2>4. PipelineTypeOK'
      BY <1>2, <1>3, <2>1, <2>3 DEF PipelineInv, PipelineTypeOK, again
    <2>5. Looping'
      <3>1. Tested' = Tested /\ hyps' = hyps
        BY <1>2, <2>1 DEF Tested
      <3>2. Holds(hyps[Tested + 1].prediction, gathered')
        BY <1>4, <2>1, <2>2
      <3>3. outcome' = "undetermined" =>
              Tested + 1 < Len(hyps) /\ Holds(hyps[Tested + 2].prediction, gathered')
        BY <1>4, <1>5, <2>1, <2>3
      <3>4. \A p : Holds(p, gathered)' = Holds(p, gathered')
        BY DEF Holds, Verdict, Foreseen, Missing, Looked, Hits, About, Hearing
      <3> QED
        BY <1>2, <1>4, <1>5, <1>6, <2>1, <3>1, <3>2, <3>3, <3>4 DEF Looping
    <2> QED
      BY <1>8, <1>9, <2>4, <2>5 DEF PipelineInv
  <1> QED
    BY <1>10, <1>11

LEMMA ExhaustKeeps == PipelineInv /\ Exhaust => PipelineInv'
  <1> SUFFICES ASSUME PipelineInv, Exhaust PROVE PipelineInv'
    OBVIOUS
  <1> USE DEF Exhaust
  <1>1. Calling'
    BY NoCall
  <1>2. PipelineTypeOK'
    BY DEF PipelineInv, PipelineTypeOK, again
  <1>3. Looping'
    BY DEF PipelineInv, Looping, Tested
  <1> QED
    BY <1>1, <1>2, <1>3, NotAskedYet DEF PipelineInv

LEMMA PostKeeps == PipelineInv /\ Post => PipelineInv'
  <1> SUFFICES ASSUME PipelineInv, Post PROVE PipelineInv'
    OBVIOUS
  <1> USE DEF Post
  <1>1. Calling'
    BY NoCall
  <1>2. PipelineTypeOK'
    BY DEF PipelineInv, PipelineTypeOK, loop, again
  <1>3. Looping'
    BY DEF PipelineInv, Looping, Tested, loop
  <1> QED
    BY <1>1, <1>2, <1>3, NotAskedYet DEF PipelineInv

-----------------------------------------------------------------------------
(* Deep mode.                                                              *)

Target == [hypothesis : Hypothesis, standing : {"ruled-out", "confirmed"}, prior : Verdicts]

\* Deep mode leaves the investigation itself alone.
LEMMA OnlyDeep ==
  ASSUME PipelineInv, UNCHANGED <<flow, calls, gathered, loop>>
  PROVE  Calling' /\ Looping'
  BY DEF PipelineInv, Calling, Called, Mine, Streams, Attempts, Looping, Tested, flow, loop

\* The ruled-out hypotheses are taken up again under their own texts.
LEMMA RuledOutAreFair ==
  ASSUME PipelineInv
  PROVE  /\ RuledOutTargets \in Seq(Target) /\ DOMAIN RuledOutTargets = DOMAIN ruledOut
         /\ \A i \in DOMAIN ruledOut :
              /\ RuledOutTargets[i].standing = "ruled-out"
              /\ RuledOutTargets[i].hypothesis.text = ruledOut[i].text
              /\ RuledOutTargets[i].prior # "satisfied"
  <1>1. /\ Tested \in Nat /\ DOMAIN ruledOut = 1..Tested /\ Tested <= Len(hyps)
        /\ \A i \in DOMAIN ruledOut : /\ ruledOut[i].reason \in Verdicts
                                      /\ ruledOut[i].reason # "satisfied"
    BY RuledOutTypes DEF PipelineInv, Looping
  <1>2. Len(hyps) \in Nat /\ DOMAIN hyps = 1..Len(hyps)
    BY RankingTypes DEF PipelineInv, PipelineTypeOK
  <1>3. \A i \in DOMAIN ruledOut : i \in DOMAIN hyps /\ ruledOut[i].text = hyps[i].text
    BY <1>1, <1>2 DEF PipelineInv, Looping
  <1>4. \A i \in DOMAIN ruledOut :
          /\ Rejoined(ruledOut[i].text) \in Hypothesis
          /\ Rejoined(ruledOut[i].text).text = ruledOut[i].text
    BY <1>3, RejoinedText DEF PipelineInv
  <1>5. /\ DOMAIN RuledOutTargets = DOMAIN ruledOut
        /\ \A i \in DOMAIN ruledOut :
             RuledOutTargets[i] = [hypothesis |-> Rejoined(ruledOut[i].text),
                                   standing |-> "ruled-out", prior |-> ruledOut[i].reason]
    BY DEF RuledOutTargets
  <1>6. \A i \in DOMAIN ruledOut : RuledOutTargets[i] \in Target
    BY <1>1, <1>4, <1>5 DEF Target
  <1>7. RuledOutTargets \in [1..Tested -> Target]
    BY <1>1, <1>6 DEF RuledOutTargets
  <1>8. RuledOutTargets \in Seq(Target)
    BY <1>1, <1>7
  <1> QED
    BY <1>1, <1>4, <1>5, <1>8

\* The standing conclusion bore its prediction out, and so did the one ranked next when
\* the loop could not tell them apart.
LEMMA StandingAreFair ==
  ASSUME PipelineInv, ruledOut = <<>>
  PROVE  /\ StandingTargets \in Seq(Target)
         /\ \A i \in DOMAIN StandingTargets :
              /\ StandingTargets[i].standing = "confirmed"
              /\ Holds(StandingTargets[i].hypothesis.prediction, gathered)
  <1> DEFINE top == CASE outcome = "confirmed" -> 1 [] outcome = "undetermined" -> 2 [] OTHER -> 0
             Kept(i) == [hypothesis |-> hyps[i], standing |-> "confirmed", prior |-> "satisfied"]
  <1>1. Len(hyps) \in Nat /\ DOMAIN hyps = 1..Len(hyps)
        /\ \A i \in DOMAIN hyps : hyps[i] \in Hypothesis
    BY RankingTypes DEF PipelineInv, PipelineTypeOK
  <1>2. Tested = 0
    BY DEF Tested
  <1>3. top \in 0..2 /\ top <= Len(hyps)
        /\ \A i \in 1..top : Holds(hyps[i].prediction, gathered)
    <2>1. outcome \in {"none", "confirmed", "undetermined", "exhausted"}
      BY DEF PipelineInv, PipelineTypeOK
    <2>2. /\ outcome \in {"confirmed", "undetermined"} =>
               0 < Len(hyps) /\ Holds(hyps[1].prediction, gathered)
          /\ outcome = "undetermined" => 1 < Len(hyps) /\ Holds(hyps[2].prediction, gathered)
      BY <1>2 DEF PipelineInv, Looping
    <2>3. top \in 0..2 /\ (top = 1 => outcome = "confirmed") /\ (top = 2 => outcome = "undetermined")
      BY <2>1
    <2> HIDE DEF top
    <2> QED
      BY <1>1, <2>2, <2>3
  <1>4. StandingTargets = [i \in {j \in DOMAIN hyps : j <= top} |-> Kept(i)]
    BY DEF StandingTargets
  <1> HIDE DEF top
  <1>5. {j \in DOMAIN hyps : j <= top} = 1..top
    BY <1>1, <1>3
  <1>6. \A i \in 1..top : Kept(i) \in Target
    BY <1>1, <1>3 DEF Target, Verdicts
  <1>7. StandingTargets \in [1..top -> Target]
    BY <1>4, <1>5, <1>6
  <1>8. StandingTargets \in Seq(Target) /\ DOMAIN StandingTargets = 1..top
    BY <1>3, <1>7
  <1>9. \A i \in 1..top : /\ StandingTargets[i].standing = "confirmed"
                          /\ StandingTargets[i].hypothesis = hyps[i]
    BY <1>4, <1>5
  <1> QED
    BY <1>3, <1>8, <1>9

LEMMA AskDeepModeKeeps == PipelineInv /\ AskDeepMode => PipelineInv'
  <1> SUFFICES ASSUME PipelineInv, AskDeepMode PROVE PipelineInv'
    OBVIOUS
  <1>1. /\ step = "reported" /\ deep = "none" /\ targets' = Reexamined
        /\ deep' = IF Reexamined = <<>> THEN "done" ELSE "running"
        /\ UNCHANGED <<flow, calls, gathered, loop, redone, deepSeen>>
    BY DEF AskDeepMode
  <1>2. Calling' /\ Looping'
    BY <1>1, OnlyDeep
  <1>3. redone = <<>> /\ deepSeen = {} /\ redone' = <<>> /\ deepSeen' = {}
    BY <1>1 DEF PipelineInv, Deep
  <1>4. /\ Reexamined \in Seq(Target)
        /\ \A i \in DOMAIN Reexamined :
             LET t == Reexamined[i] IN
             IF t.standing = "confirmed"
             THEN Holds(t.hypothesis.prediction, gathered) /\ ruledOut = <<>>
             ELSE i \in DOMAIN ruledOut /\ t.hypothesis.text = ruledOut[i].text
                  /\ t.prior # "satisfied"
    <2>1. CASE ruledOut # <<>>
      <3>1. Reexamined = Cut(RuledOutTargets)
        BY <2>1 DEF Reexamined
      <3>2. /\ Reexamined \in Seq(Target)
            /\ \A i \in DOMAIN Reexamined :
                 i \in DOMAIN RuledOutTargets /\ Reexamined[i] = RuledOutTargets[i]
        BY <3>1, RuledOutAreFair, CutOf
      <3>3. \A i \in DOMAIN Reexamined :
              /\ i \in DOMAIN ruledOut /\ Reexamined[i].standing = "ruled-out"
              /\ Reexamined[i].hypothesis.text = ruledOut[i].text
              /\ Reexamined[i].prior # "satisfied"
        BY <3>2, RuledOutAreFair
      <3> QED
        BY <3>2, <3>3
    <2>2. CASE ruledOut = <<>>
      <3>1. Reexamined = Cut(StandingTargets)
        BY <2>2 DEF Reexamined
      <3>2. /\ Reexamined \in Seq(Target)
            /\ \A i \in DOMAIN Reexamined :
                 i \in DOMAIN StandingTargets /\ Reexamined[i] = StandingTargets[i]
        <4>1. StandingTargets \in Seq(Target)
          BY <2>2, StandingAreFair
        <4> QED
          BY <3>1, <4>1, CutOf
      <3>3. \A i \in DOMAIN Reexamined :
              /\ Reexamined[i].standing = "confirmed"
              /\ Holds(Reexamined[i].hypothesis.prediction, gathered)
        BY <2>2, <3>2, StandingAreFair
      <3> QED
        BY <2>2, <3>2, <3>3
    <2> QED
      BY <2>1, <2>2
  <1>5. Len(Reexamined) \in Nat /\ (Reexamined # <<>> => 0 < Len(Reexamined))
        /\ (Reexamined = <<>> => Len(Reexamined) = 0)
    BY <1>4, EmptySeq, LenProperties
  <1>6. PipelineTypeOK'
    BY <1>1, <1>3, <1>4, <1>5 DEF PipelineInv, PipelineTypeOK, flow, loop, Target
  <1>7. \A i \in DOMAIN targets' : Fair(i)'
    <2>1. \A p : Holds(p, gathered)' = Holds(p, gathered)
      BY <1>1 DEF Holds, Verdict, Foreseen, Missing, Looked, Hits, About, Hearing
    <2>2. ruledOut' = ruledOut
      BY <1>1 DEF loop
    <2> QED
      BY <1>1, <1>4, <2>1, <2>2 DEF Fair
  <1>8. Deep'
    BY <1>1, <1>3, <1>5, <1>7 DEF Deep, flow
  <1> QED
    BY <1>2, <1>6, <1>8 DEF PipelineInv

LEMMA ReexamineKeeps == PipelineInv /\ Reexamine => PipelineInv'
  <1> SUFFICES ASSUME PipelineInv, Reexamine PROVE PipelineInv'
    OBVIOUS
  <1> DEFINE n == Len(redone) + 1
             p == targets[n].hypothesis.prediction
  <1>1. PICK fresh \in Yields(AskedOf[p.kind]) :
          /\ deepSeen' = deepSeen \cup fresh
          /\ redone' = Append(redone, Verdict(p, deepSeen \cup fresh))
    BY DEF Reexamine
  <1>2. /\ deep = "running" /\ deep' = IF n = Len(targets) THEN "done" ELSE "running"
        /\ UNCHANGED <<flow, calls, gathered, loop, targets>>
    BY DEF Reexamine
  <1>3. Calling' /\ Looping'
    BY <1>2, OnlyDeep
  <1>4. /\ step = "reported" /\ Len(redone) < Len(targets)
        /\ \A i \in DOMAIN targets : Fair(i)
        /\ \A i \in DOMAIN redone :
             redone[i] = "satisfied" /\ targets[i].hypothesis.prediction.present
               => Holds(targets[i].hypothesis.prediction, deepSeen)
    BY <1>2 DEF PipelineInv, Deep
  <1>5. redone \in Seq(Verdicts) /\ Len(redone) \in Nat /\ Len(targets) \in Nat
        /\ DOMAIN redone = 1..Len(redone)
    <2>1. targets \in Seq(Target) /\ redone \in Seq(Verdicts)
      BY DEF PipelineInv, PipelineTypeOK, Target
    <2> QED
      BY <2>1, LenProperties
  <1>6. deepSeen' \subseteq Findings /\ deepSeen \subseteq deepSeen'
    BY <1>1, YieldsFindings DEF PipelineInv, PipelineTypeOK
  <1> DEFINE v == Verdict(p, deepSeen')
  <1>7. v \in Verdicts /\ redone' = Append(redone, v)
    BY <1>1, VerdictTypes
  <1>8. v = "satisfied" => Holds(p, deepSeen')
    BY DEF Holds
  <1> HIDE DEF v
  <1>9. /\ redone' \in Seq(Verdicts) /\ Len(redone') = n /\ DOMAIN redone' = 1..n
        /\ \A i \in 1..Len(redone) : redone'[i] = redone[i]
        /\ redone'[n] = v
    BY <1>5, <1>7, AppendProperties, LenProperties
  <1>10. PipelineTypeOK'
    BY <1>2, <1>4, <1>5, <1>6, <1>9 DEF PipelineInv, PipelineTypeOK, flow, loop
  <1>11. Deep'
    <2>1. \A q, s : Holds(q, s)' = Holds(q, s')
      BY DEF Holds, Verdict, Foreseen, Missing, Looked, Hits, About, Hearing
    <2>2. \A i \in DOMAIN redone' :
            redone'[i] = "satisfied" /\ targets[i].hypothesis.prediction.present
              => Holds(targets[i].hypothesis.prediction, deepSeen')
      <3> SUFFICES ASSUME NEW i \in DOMAIN redone', redone'[i] = "satisfied",
                          targets[i].hypothesis.prediction.present
                   PROVE  Holds(targets[i].hypothesis.prediction, deepSeen')
        OBVIOUS
      <3>1. CASE i = n
        BY <1>8, <1>9, <3>1
      <3>2. CASE i \in 1..Len(redone)
        <4>1. Holds(targets[i].hypothesis.prediction, deepSeen)
          BY <1>4, <1>5, <1>9, <3>2
        <4> QED
          BY <1>6, <4>1, StillHolds
      <3> QED
        BY <1>5, <1>9, <3>1, <3>2
    <2>3. \A i \in DOMAIN targets' : Fair(i)'
      BY <1>2, <1>4 DEF Fair, loop
    <2>4. deep' = "running" => Len(redone') < Len(targets')
      BY <1>2, <1>4, <1>5, <1>9
    <2>5. deep' = "done" => Len(redone') = Len(targets')
      BY <1>2, <1>9
    <2>6. \A i \in DOMAIN redone' :
            LET q == targets'[i].hypothesis.prediction IN
            redone'[i] = "satisfied" /\ q.present => Holds(q, deepSeen')
      BY <1>2, <2>2
    <2> QED
      BY <1>2, <1>4, <2>3, <2>4, <2>5, <2>6 DEF Deep, flow
  <1> QED
    BY <1>3, <1>10, <1>11 DEF PipelineInv

-----------------------------------------------------------------------------
(* The theorems.                                                           *)

LEMMA PipelineStarts == PipelineInit => PipelineInv
  <1> SUFFICES ASSUME PipelineInit PROVE PipelineInv
    OBVIOUS
  <1> USE DEF PipelineInit
  <1>1. Attempts \in 1..MaxAttempts /\ MaxAttempts \in Nat
    BY AttemptsAllowed
  <1>2. \A c \in Calls : calls[c] = [at |-> "off", starts |-> 0, armed |-> FALSE]
    BY DEF Idle
  <1>3. calls \in [Calls -> Call]
    BY <1>1 DEF Idle, Call
  <1>4. Calling
    BY <1>1, <1>2 DEF Calling, Called
  <1>5. hyps \in Rankings /\ Len(hyps) = 0 /\ Len(ruledOut) = 0
    BY PipelineAssumption DEF Rankings
  <1>6. PipelineTypeOK
    BY <1>3, <1>5, PipelineAssumption DEF PipelineTypeOK, Call
  <1>7. Looping
    BY <1>5, PipelineAssumption DEF Looping, Tested
  <1>8. Deep
    BY DEF Deep
  <1> QED
    BY <1>4, <1>6, <1>7, <1>8 DEF PipelineInv

LEMMA PipelineSteps == PipelineInv /\ [PipelineNext]_pipeline => PipelineInv'
  <1> SUFFICES ASSUME PipelineInv, [PipelineNext]_pipeline PROVE PipelineInv'
    OBVIOUS
  <1>1. CASE UNCHANGED pipeline
    <2>1. UNCHANGED <<flow, calls, gathered, loop, again>>
      BY <1>1 DEF pipeline
    <2>2. Calling' /\ calls' \in [Calls -> Call]
      BY <2>1 DEF PipelineInv, PipelineTypeOK, Call, Calling, Called, Mine, Streams, Attempts, flow
    <2> QED
      BY <2>1, <2>2, OnlyCalls
  <1>2. CASE \E c \in Calls : Start(c) \/ Unavailable(c)
    BY <1>2, StartKeeps, UnavailableKeeps
  <1>3. CASE \E s \in Phases : OpenStream(s) \/ StreamSettles(s)
    BY <1>3, OpenStreamKeeps, StreamSettlesKeeps
  <1>4. CASE Prefetch \/ Plan \/ EvidenceDone \/ Synthesize \/ Throw \/ Degrade
    BY <1>4, PrefetchKeeps, PlanKeeps, EvidenceDoneKeeps, SynthesizeKeeps, ThrowKeeps, DegradeKeeps
  <1>5. CASE TestLeader \/ Exhaust \/ Post \/ Reexamine \/ AskDeepMode
    BY <1>5, TestLeaderKeeps, ExhaustKeeps, PostKeeps, ReexamineKeeps, AskDeepModeKeeps
  <1> QED
    BY <1>1, <1>2, <1>3, <1>4, <1>5 DEF PipelineNext, Run

\* The parts of the invariant hold in every state of every investigation: which calls a
\* step has under way, what the hypothesis loop demoted, what deep mode was given
\* (llm-retry.ts, hypothesis-loop.ts, deep-mode.ts).
THEOREM PipelineInvariant == PipelineSpec => []PipelineInv
  <1> QED
    BY PipelineStarts, PipelineSteps, PTL DEF PipelineSpec

\* Type correctness of an investigation.
THEOREM PipelineTypes == PipelineSpec => []PipelineTypeOK
  <1>1. PipelineInv => PipelineTypeOK
    BY DEF PipelineInv
  <1> QED
    BY <1>1, PipelineInvariant, PTL

\* An agent with write tools in its hands is started once: it belongs to a run that is not
\* headless, whose calls get no retry (llm-retry.ts:28, evidence.ts).
THEOREM WriteToolsRunOnce == PipelineSpec => []WriteRunOnce
  <1>1. PipelineInv => WriteRunOnce
    <2> SUFFICES ASSUME PipelineInv, NEW c \in Calls, calls[c].armed
                 PROVE  calls[c].starts <= 1
      BY DEF WriteRunOnce
    <2>1. calls[c].starts <= Attempts /\ ~readOnly
      BY DEF PipelineInv, Calling, Called
    <2> QED
      BY <2>1, AttemptsAllowed DEF PipelineInv, PipelineTypeOK
  <1> QED
    BY <1>1, PipelineInvariant, PTL

\* A model that stayed unavailable is thrown to the runner, from whichever of the parallel
\* calls met it, and nothing else is (agents.ts, investigate).
THEOREM UnavailabilityIsThrown == PipelineSpec => []UnavailableIsNotReported
  <1>1. PipelineInv => UnavailableIsNotReported
    <2> SUFFICES ASSUME PipelineInv PROVE UnavailableIsNotReported
      OBVIOUS
    <2>1. step = "reported" => \A c \in Calls : calls[c].at # "unavailable"
      <3>1. step = "reported" => Mine = {}
        BY AtStep DEF PipelineInv
      <3> QED
        BY <3>1 DEF PipelineInv, Calling, Called
    <2>2. step = "thrown" => \E c \in Calls : calls[c].at = "unavailable"
      BY DEF PipelineInv, Calling
    <2> QED
      BY <2>1, <2>2 DEF UnavailableIsNotReported
  <1> QED
    BY <1>1, PipelineInvariant, PTL

\* Deep mode puts to the test what the hypothesis loop was left with, and says that a
\* conclusion holds only when evidence it gathered itself bears it out (deep-mode.ts
\* against hypothesis-loop.ts).
THEOREM DeepModeIsFair == PipelineSpec => []DeepModeTestsTheStanding
  <1>1. PipelineInv => DeepModeTestsTheStanding
    <2> SUFFICES ASSUME PipelineInv, NEW i \in DOMAIN targets
                 PROVE  LET t == targets[i] p == t.hypothesis.prediction IN
                        IF t.standing = "confirmed"
                        THEN /\ Holds(p, gathered) /\ ruledOut = <<>>
                             /\ deep = "done" /\ DeepOutcome = "holds" /\ p.present => Holds(p, deepSeen)
                        ELSE t.hypothesis.text = ruledOut[i].text /\ t.prior # "satisfied"
      BY DEF DeepModeTestsTheStanding
    <2> DEFINE p == targets[i].hypothesis.prediction
    <2>1. Fair(i)
      BY DEF PipelineInv, Deep
    <2>2. ASSUME targets[i].standing = "confirmed", deep = "done", DeepOutcome = "holds", p.present
          PROVE  Holds(p, deepSeen)
      <3> DEFINE changed == {targets[k].standing : k \in {j \in DOMAIN redone : Flipped(j)}}
      <3>1. targets # <<>>
        <4>1. targets \in Seq(Target)
          BY DEF PipelineInv, PipelineTypeOK, Target
        <4> QED
          BY <4>1
      <3>2. "confirmed" \notin changed
        BY <2>2, <3>1 DEF DeepOutcome
      <3>3. i \in DOMAIN redone
        <4>1. targets \in Seq(Target) /\ redone \in Seq(Verdicts)
          BY DEF PipelineInv, PipelineTypeOK, Target
        <4>2. Len(redone) = Len(targets)
          BY <2>2 DEF PipelineInv, Deep
        <4> QED
          BY <4>1, <4>2, LenProperties
      <3>4. ~Flipped(i)
        BY <2>2, <3>2, <3>3
      <3>5. redone[i] = "satisfied"
        BY <2>2, <3>4 DEF Flipped
      <3> QED
        BY <2>2, <3>3, <3>5 DEF PipelineInv, Deep
    <2> QED
      BY <2>1, <2>2 DEF Fair
  <1> QED
    BY <1>1, PipelineInvariant, PTL

(***************************************************************************)
(* Those who rewrite the report.                                           *)
(***************************************************************************)


\* What is true of every report, in the database or in hand, over the log l.
Fine(r, l) ==
  /\ r.root = r.event
  /\ r.event > 0 => /\ r.event \in DOMAIN l
                    /\ l[r.event].type = "complete" /\ l[r.event].confirmed
                    /\ r.original < r.event
  /\ r.notes > 0 => /\ r.event > 0 /\ r.notes \in DOMAIN l
                    /\ l[r.notes].type = "locked" /\ l[r.notes].lead
                    /\ l[r.notes].run = l[r.event].run

ReportsFine ==
  /\ Fine(report, log)
  /\ \A t \in Tabs : Fine(applying[t].report, log) /\ Fine(passing[t].report, log)

\* Events of runs, as against those of an accept.
OfRun(i, l) == l[i].type # "accepted"

InOrder ==
  /\ \A i \in DOMAIN log : OfRun(i, log) => log[i].run <= runs
  /\ \A i, j \in DOMAIN log :
       i < j /\ OfRun(i, log) /\ OfRun(j, log) => log[i].run <= log[j].run

Begun ==
  \A e \in DOMAIN log : log[e].type = "complete" =>
    \E i \in 1..(e - 1) : log[i].type = "started" /\ log[i].run = log[e].run

Announced ==
  started => \E i \in DOMAIN log : log[i].type = "started" /\ log[i].run = runs

IInv == TypeOK /\ ReportsFine /\ InOrder /\ Begun /\ Announced

-----------------------------------------------------------------------------

\* What persisting an event does to the log.
LEMMA Persisted ==
  ASSUME NEW l \in Seq(Event), NEW ev \in Event, NEW k, k = Append(l, ev)
  PROVE  /\ k \in Seq(Event)
         /\ Len(k) = Len(l) + 1 /\ DOMAIN k = 1..(Len(l) + 1) /\ DOMAIN l = 1..Len(l)
         /\ \A i \in DOMAIN l : i \in DOMAIN k /\ k[i] = l[i]
         /\ k[Len(l) + 1] = ev
  OBVIOUS

\* What an element of the log is.
LEMMA Elements ==
  ASSUME NEW l \in Seq(Event), NEW i \in DOMAIN l
  PROVE  l[i] \in Event /\ l[i].run \in Nat
  <1>1. l[i] \in Event
    OBVIOUS
  <1> QED
    BY <1>1 DEF Event

\* A fine report stays fine while the log grows.
LEMMA FineStays ==
  ASSUME NEW l \in Seq(Event), NEW ev \in Event, NEW k, k = Append(l, ev),
         NEW r \in Report, Fine(r, l)
  PROVE  Fine(r, k)
  <1>1. \A i \in DOMAIN l : i \in DOMAIN k /\ k[i] = l[i]
    BY Persisted
  <1> QED
    BY <1>1, SMT DEF Fine, Report, Places

\* The order of the log survives an event of the current run, or one of no run.
LEMMA OrderStays ==
  ASSUME TypeOK, InOrder, Begun, Announced,
         NEW ev \in Event, log' = Append(log, ev), UNCHANGED <<runs, started>>,
         ev.type = "accepted" \/ ev.run = runs,
         ev.type = "complete" => started
  PROVE  InOrder' /\ Begun' /\ Announced'
  <1>1. log \in Seq(Event) /\ runs \in Nat
    BY WriteBackAssumption DEF TypeOK
  <1>2. /\ Len(log') = Len(log) + 1 /\ DOMAIN log' = 1..(Len(log) + 1)
        /\ DOMAIN log = 1..Len(log) /\ Len(log) \in Nat
        /\ \A i \in DOMAIN log : i \in DOMAIN log' /\ log'[i] = log[i]
        /\ log'[Len(log) + 1] = ev
    BY <1>1, Persisted
  <1>3. \A i \in DOMAIN log : log[i].run \in Nat
    BY <1>1, Elements
  <1>4. InOrder'
    <2>1. \A i \in DOMAIN log' : OfRun(i, log') => log'[i].run <= runs'
      BY <1>1, <1>2, SMT DEF InOrder, OfRun
    <2>2. ASSUME NEW i \in DOMAIN log', NEW j \in DOMAIN log',
                 i < j, OfRun(i, log'), OfRun(j, log')
          PROVE  log'[i].run <= log'[j].run
      BY <1>1, <1>2, <1>3, <2>1, <2>2, SMT DEF InOrder, OfRun
    <2> QED
      BY <2>1, <2>2 DEF InOrder
  <1>5. Begun'
    <2> SUFFICES ASSUME NEW e \in DOMAIN log', log'[e].type = "complete"
                 PROVE  \E i \in 1..(e - 1) :
                          log'[i].type = "started" /\ log'[i].run = log'[e].run
      BY DEF Begun
    <2>1. CASE e \in DOMAIN log
      <3>1. PICK i \in 1..(e - 1) : log[i].type = "started" /\ log[i].run = log[e].run
        BY <1>2, <2>1 DEF Begun
      <3>2. i \in DOMAIN log
        BY <1>2, <2>1, <3>1
      <3> QED
        BY <1>2, <2>1, <3>1, <3>2
    <2>2. CASE e = Len(log) + 1
      <3>1. started /\ ev.run = runs
        BY <1>2, <2>2
      <3>2. PICK i \in DOMAIN log : log[i].type = "started" /\ log[i].run = runs
        BY <3>1 DEF Announced
      <3> QED
        BY <1>2, <2>2, <3>1, <3>2
    <2> QED
      BY <1>2, <2>1, <2>2
  <1>6. Announced'
    BY <1>2 DEF Announced
  <1> QED
    BY <1>4, <1>5, <1>6

\* Nothing that is typed and leaves the log alone disturbs its order.
LEMMA OrderKept ==
  ASSUME InOrder, Begun, Announced, UNCHANGED <<log, runs>>, started' => started
  PROVE  InOrder' /\ Begun' /\ Announced'
  BY DEF InOrder, Begun, Announced, OfRun

-----------------------------------------------------------------------------

\* A steer that the search for notes finds belongs to the run of the conclusion: the
\* beginning of that run lies before it, and the log is in order.
LEMMA SteerOfTheRun ==
  ASSUME TypeOK, InOrder, Begun, NEW e \in DOMAIN log, Latest(e), NEW n \in Steers(e)
  PROVE  log[n].run = log[e].run
  <1>1. log \in Seq(Event) /\ DOMAIN log = 1..Len(log) /\ Len(log) \in Nat
    BY DEF TypeOK
  <1>2. PICK i \in 1..(e - 1) : log[i].type = "started" /\ log[i].run = log[e].run
    BY DEF Begun, Latest
  <1>3. n \in 1..(e - 1) /\ log[n].type = "locked"
    BY DEF Steers
  <1>4. ~(n < i)
    BY <1>1, <1>2, <1>3 DEF Steers
  <1>5. i < n
    BY <1>1, <1>2, <1>3, <1>4
  <1>6. {i, n, e} \subseteq DOMAIN log
    BY <1>1, <1>2, <1>3
  <1>7. log[i].run <= log[n].run /\ log[n].run <= log[e].run
    BY <1>1, <1>2, <1>3, <1>5, <1>6 DEF InOrder, OfRun, Latest
  <1>8. log[n].run \in Nat /\ log[e].run \in Nat
    BY <1>1, <1>6, Elements
  <1> QED
    BY <1>2, <1>7, <1>8

\* The report that an accept prepares is fine.
LEMMA Prepared ==
  ASSUME TypeOK, ReportsFine, InOrder, Begun,
         NEW e \in DOMAIN log, NEW n \in Places, Latest(e), Applicable(e), LastSteer(n, e)
  PROVE  LET r == [root |-> e, event |-> e, original |-> Original(e), notes |-> n,
                   deep |-> report.deep]
         IN  r \in Report /\ Fine(r, log)
  <1> DEFINE r == [root |-> e, event |-> e, original |-> Original(e), notes |-> n,
                   deep |-> report.deep]
  <1>1. /\ log \in Seq(Event) /\ DOMAIN log = 1..Len(log) /\ Len(log) \in Nat
        /\ Len(log) <= MaxLog /\ report \in Report /\ MaxLog \in Nat
    BY WriteBackAssumption DEF TypeOK
  <1>2. e \in Places /\ e > 0
    BY <1>1 DEF Places
  <1>3. Original(e) \in Places /\ Original(e) < e
    <2>1. CASE report.event = e
      BY <1>1, <1>2, <2>1 DEF Original, ReportsFine, Fine, Report
    <2>2. CASE report.event # e
      <3>1. \/ report.event = 0
            \/ report.event \in DOMAIN log /\ log[report.event].type = "complete"
        <4>1. Fine(report, log)
          BY DEF ReportsFine
        <4>2. report.event \in 0..MaxLog
          BY <1>1 DEF Report, Places
        <4>3. report.event = 0 \/ report.event > 0
          BY <1>1, <4>2
        <4>4. ASSUME report.event > 0
              PROVE  report.event \in DOMAIN log /\ log[report.event].type = "complete"
          BY <4>1, <4>4, Zenon DEF Fine
        <4> QED
          BY <4>3, <4>4, Zenon
      <3>2. report.event \in Places /\ report.root = report.event
        BY <1>1 DEF ReportsFine, Fine, Report
      <3>3. report.event < e
        BY <1>1, <1>2, <2>2, <3>1, <3>2 DEF Latest, Places
      <3> QED
        BY <2>2, <3>2, <3>3 DEF Original
    <2> QED
      BY <2>1, <2>2
  <1>4. r \in Report
    BY <1>1, <1>2, <1>3 DEF Report
  <1>5. ASSUME n > 0
        PROVE  /\ n \in DOMAIN log /\ log[n].type = "locked" /\ log[n].lead
               /\ log[n].run = log[e].run
    <2>1. n \in Steers(e)
      BY <1>5 DEF LastSteer
    <2>2. n \in 1..(e - 1) /\ log[n].type = "locked" /\ log[n].lead
      BY <2>1 DEF Steers
    <2>3. n \in DOMAIN log
      BY <1>1, <2>2
    <2> QED
      BY <2>1, <2>2, <2>3, SteerOfTheRun
  <1>6. Fine(r, log)
    BY <1>2, <1>3, <1>5 DEF Fine, Latest, Applicable
  <1> QED
    BY <1>4, <1>6

-----------------------------------------------------------------------------

LEMMA FirstIsFine == \A l : Fine(FirstReport, l) /\ FirstReport \in Report /\ NoWork \in Work
  <1>1. 0 \in Places
    BY WriteBackAssumption DEF Places
  <1> QED
    BY <1>1 DEF Fine, FirstReport, Report, NoWork, Work

LEMMA InitOK == Init => IInv
  <1> SUFFICES ASSUME Init PROVE IInv
    OBVIOUS
  <1>1. TypeOK
    <2>1. log \in Seq(Event) /\ Len(log) <= MaxLog /\ runs \in 0..MaxRuns
      BY WriteBackAssumption DEF Init
    <2> QED
      BY <2>1, FirstIsFine DEF Init, TypeOK
  <1>2. ReportsFine
    BY FirstIsFine DEF Init, ReportsFine, NoWork
  <1>3. InOrder /\ Begun /\ Announced
    BY DEF Init, InOrder, Begun, Announced
  <1> QED
    BY <1>1, <1>2, <1>3 DEF IInv

\* Persisting an event and changing no report keeps the invariant.
LEMMA EventOK ==
  ASSUME IInv, NEW ev \in Event, Persist(ev), UNCHANGED <<runs, started, report, applying, passing>>,
         live' \in BOOLEAN, entry' \in BOOLEAN,
         ev.type = "accepted" \/ ev.run = runs,
         ev.type = "complete" => started
  PROVE  IInv'
  <1>1. TypeOK /\ log' = Append(log, ev) /\ Len(log) < MaxLog /\ log \in Seq(Event)
    BY DEF IInv, Persist, TypeOK
  <1>2. TypeOK'
    BY <1>1, WriteBackAssumption, Persisted DEF TypeOK
  <1>3. ReportsFine'
    BY <1>1, FineStays DEF IInv, ReportsFine, TypeOK, Work
  <1>4. InOrder' /\ Begun' /\ Announced'
    BY <1>1, OrderStays DEF IInv
  <1> QED
    BY <1>2, <1>3, <1>4 DEF IInv

LEMMA StepOK == IInv /\ [Next]_vars => IInv'
  <1> SUFFICES ASSUME IInv, [Next]_vars PROVE IInv'
    OBVIOUS
  <1> USE WriteBackAssumption
  <1>0. TypeOK /\ ReportsFine /\ InOrder /\ Begun /\ Announced
    BY DEF IInv
  <1>1. CASE Launch
    <2>1. TypeOK'
      <3>1. runs' \in 0..MaxRuns
        BY <1>0, <1>1 DEF Launch, TypeOK
      <3> QED
        BY <1>0, <1>1, <3>1 DEF Launch, TypeOK
    <2>2. ReportsFine'
      BY <1>0, <1>1 DEF Launch, ReportsFine
    <2>3. InOrder' /\ Begun' /\ Announced'
      <3>1. runs \in Nat /\ runs' = runs + 1 /\ log' = log /\ ~started' /\ log \in Seq(Event)
        BY <1>0, <1>1 DEF Launch, TypeOK
      <3>2. \A i \in DOMAIN log : log[i].run \in Nat
        BY <3>1, Elements
      <3>3. InOrder'
        BY <1>0, <3>1, <3>2, SMT DEF InOrder, OfRun
      <3> QED
        BY <1>0, <3>1, <3>3 DEF Begun, Announced
    <2> QED
      BY <2>1, <2>2, <2>3 DEF IInv
  <1>2. CASE Starts
    <2> DEFINE ev == Row("started", runs, FALSE, FALSE)
    <2>1. ev \in Event /\ ev.type = "started" /\ ev.run = runs
      <3>1. runs \in Nat
        BY <1>0 DEF TypeOK
      <3> QED
        BY <3>1 DEF Row, Event
    <2>0. /\ Persist(ev) /\ live /\ ~started /\ started' = TRUE
          /\ UNCHANGED <<runs, live, entry, report, applying, passing>>
      BY <1>2 DEF Starts
    <2> HIDE DEF ev
    <2>2. TypeOK' /\ ReportsFine'
      <3>1. log' = Append(log, ev) /\ log \in Seq(Event) /\ Len(log) < MaxLog
        BY <1>0, <2>0 DEF Persist, TypeOK
      <3>2. TypeOK'
        BY <1>0, <2>0, <2>1, <3>1, Persisted DEF TypeOK
      <3>3. ReportsFine'
        BY <1>0, <2>0, <2>1, <3>1, FineStays DEF ReportsFine, TypeOK, Work
      <3> QED
        BY <3>2, <3>3
    <2>3. InOrder' /\ Begun' /\ Announced'
      <3>1. /\ log' = Append(log, ev) /\ log \in Seq(Event) /\ runs \in Nat /\ runs' = runs
            /\ ev.type = "started" /\ ev.run = runs
        BY <1>0, <2>0, <2>1 DEF Persist, TypeOK
      <3>2. /\ Len(log') = Len(log) + 1 /\ DOMAIN log' = 1..(Len(log) + 1)
            /\ DOMAIN log = 1..Len(log) /\ Len(log) \in Nat
            /\ \A i \in DOMAIN log : i \in DOMAIN log' /\ log'[i] = log[i]
            /\ log'[Len(log) + 1] = ev
        BY <2>1, <3>1, Persisted
      <3>3. \A i \in DOMAIN log : log[i].run \in Nat
        BY <3>1, Elements
      <3>4. InOrder'
        BY <1>0, <3>1, <3>2, <3>3, SMT DEF InOrder, OfRun
      <3>5. Begun'
        <4> SUFFICES ASSUME NEW e \in DOMAIN log', log'[e].type = "complete"
                     PROVE  \E i \in 1..(e - 1) :
                              log'[i].type = "started" /\ log'[i].run = log'[e].run
          BY DEF Begun
        <4>1. e \in DOMAIN log
          BY <3>1, <3>2
        <4>2. PICK i \in 1..(e - 1) : log[i].type = "started" /\ log[i].run = log[e].run
          BY <1>0, <3>2, <4>1 DEF Begun
        <4>3. i \in DOMAIN log
          BY <3>2, <4>1, <4>2
        <4> QED
          BY <3>2, <4>1, <4>2, <4>3
      <3>6. Announced'
        BY <3>1, <3>2 DEF Announced
      <3> QED
        BY <3>4, <3>5, <3>6
    <2> QED
      BY <2>2, <2>3 DEF IInv
  <1>3. ASSUME NEW lead \in BOOLEAN, Decides(lead) PROVE IInv'
    <2> DEFINE ev == Row("locked", runs, FALSE, lead)
    <2>1. ev \in Event /\ ev.run = runs /\ ev.type = "locked"
      <3>1. runs \in Nat
        BY <1>0 DEF TypeOK
      <3> QED
        BY <3>1 DEF Row, Event
    <2>2. Persist(ev) /\ UNCHANGED <<runs, live, entry, started, report, applying, passing>>
      BY <1>3 DEF Decides
    <2> HIDE DEF ev
    <2> QED
      BY <1>0, <2>1, <2>2, EventOK DEF TypeOK
  <1>4. ASSUME NEW confirmed \in BOOLEAN, Completes(confirmed) PROVE IInv'
    <2> DEFINE ev == Row("complete", runs, confirmed, FALSE)
    <2>1. ev \in Event /\ ev.run = runs /\ ev.type = "complete"
      <3>1. runs \in Nat
        BY <1>0 DEF TypeOK
      <3> QED
        BY <3>1 DEF Row, Event
    <2>2. /\ Persist(ev) /\ started /\ live' = FALSE
          /\ UNCHANGED <<runs, entry, started, report, applying, passing>>
      BY <1>4 DEF Completes
    <2> HIDE DEF ev
    <2> QED
      BY <1>0, <2>1, <2>2, EventOK DEF TypeOK
  <1>5. CASE Throws \/ Forget \/ Restart
    <2>1. /\ UNCHANGED <<runs, log, report>> /\ (started' => started)
          /\ live' \in BOOLEAN /\ entry' \in BOOLEAN /\ started' \in BOOLEAN
          /\ \A t \in Tabs : applying'[t] \in {applying[t], NoWork} /\ passing'[t] \in {passing[t], NoWork}
          /\ applying' \in [Tabs -> Work] /\ passing' \in [Tabs -> Work]
      <3>1. CASE Throws \/ Forget
        <4>1. UNCHANGED <<runs, log, report, applying, passing>>
          BY <3>1 DEF Throws, Forget
        <4>2. /\ started' = started /\ (live' = FALSE \/ live' = live)
              /\ (entry' = FALSE \/ entry' = entry)
          BY <3>1 DEF Throws, Forget
        <4> QED
          BY <1>0, <4>1, <4>2 DEF TypeOK
      <3>2. CASE Restart
        BY <1>0, <3>2, FirstIsFine DEF Restart, TypeOK
      <3> QED
        BY <1>5, <3>1, <3>2
    <2>2. TypeOK'
      BY <1>0, <2>1 DEF TypeOK
    <2>3. ReportsFine'
      BY <1>0, <2>1, FirstIsFine DEF ReportsFine, NoWork
    <2> QED
      BY <1>0, <2>1, <2>2, <2>3, OrderKept DEF IInv
  <1>6. ASSUME NEW t \in Tabs, AcceptBegins(t) PROVE IInv'
    <2>1. PICK e \in DOMAIN log, n \in Places :
            /\ Latest(e) /\ Applicable(e) /\ LastSteer(n, e)
            /\ applying' = [applying EXCEPT ![t] =
                 [busy   |-> TRUE,
                  report |-> [root |-> e, event |-> e, original |-> Original(e),
                              notes |-> n, deep |-> report.deep]]]
      BY <1>6 DEF AcceptBegins
    <2> DEFINE r == [root |-> e, event |-> e, original |-> Original(e), notes |-> n,
                     deep |-> report.deep]
    <2>2. r \in Report /\ Fine(r, log)
      BY <1>0, <2>1, Prepared
    <2> HIDE DEF r
    <2>3. /\ applying' = [applying EXCEPT ![t] = [busy |-> TRUE, report |-> r]]
          /\ UNCHANGED <<runs, live, entry, started, log, report, passing>>
      BY <1>6, <2>1 DEF AcceptBegins, r
    <2>4. TypeOK'
      BY <1>0, <2>2, <2>3 DEF TypeOK, Work
    <2>5. ReportsFine'
      BY <1>0, <2>2, <2>3 DEF ReportsFine, TypeOK
    <2> QED
      BY <1>0, <2>3, <2>4, <2>5, OrderKept DEF IInv
  <1>7. ASSUME NEW t \in Tabs, AcceptEnds(t) PROVE IInv'
    <2> DEFINE r == applying[t].report
               ev == Row("accepted", r.event, FALSE, FALSE)
    <2>1. r \in Report /\ Fine(r, log) /\ r.event \in Nat
      BY <1>0 DEF TypeOK, Work, ReportsFine, Report, Places
    <2>2. ev \in Event /\ ev.type = "accepted"
      BY <2>1 DEF Row, Event
    <2>3. /\ log' = Append(log, ev) /\ Len(log) < MaxLog /\ report' = r
          /\ applying' = [applying EXCEPT ![t] = NoWork]
          /\ UNCHANGED <<runs, live, entry, started, passing>> /\ log \in Seq(Event)
      BY <1>0, <1>7 DEF AcceptEnds, Persist, TypeOK
    <2> HIDE DEF r, ev
    <2>4. TypeOK'
      <3>1. log' \in Seq(Event) /\ Len(log') <= MaxLog
        <4>1. Len(log') = Len(log) + 1 /\ log' \in Seq(Event) /\ Len(log) \in Nat
          BY <2>2, <2>3, Persisted
        <4> QED
          BY <2>3, <4>1
      <3>2. applying' \in [Tabs -> Work]
        BY <1>0, <2>3, FirstIsFine DEF TypeOK
      <3> QED
        BY <1>0, <2>1, <2>3, <3>1, <3>2 DEF TypeOK
    <2>5. ReportsFine'
      <3>1. \A q \in Report : Fine(q, log) => Fine(q, log')
        BY <2>2, <2>3, FineStays
      <3>2. \A u \in Tabs : applying'[u] \in {applying[u], NoWork} /\ passing'[u] = passing[u]
        BY <1>0, <2>3 DEF TypeOK
      <3>3. Fine(report', log')
        BY <2>1, <2>3, <3>1
      <3>4. \A u \in Tabs : Fine(applying'[u].report, log') /\ Fine(passing'[u].report, log')
        BY <1>0, <3>1, <3>2, FirstIsFine DEF ReportsFine, TypeOK, Work, NoWork
      <3> QED
        BY <3>3, <3>4 DEF ReportsFine
    <2>6. InOrder' /\ Begun' /\ Announced'
      BY <1>0, <2>2, <2>3, OrderStays
    <2> QED
      BY <2>4, <2>5, <2>6 DEF IInv
  <1>8. ASSUME NEW t \in Tabs, PassBegins(t) \/ PassEnds(t) PROVE IInv'
    <2>1. /\ UNCHANGED <<runs, live, entry, started, log, applying>>
          /\ passing' \in [Tabs -> Work]
          /\ \A u \in Tabs : passing'[u].report \in {passing[u].report, report, FirstReport}
          /\ report' \in {report, PassReport(passing[t])}
      <3>1. /\ passing \in [Tabs -> Work] /\ report \in Report
            /\ [busy |-> TRUE, report |-> report] \in Work /\ NoWork \in Work
            /\ NoWork.report = FirstReport
        BY <1>0, FirstIsFine DEF TypeOK, Work, NoWork
      <3>2. CASE PassBegins(t)
        BY <3>1, <3>2 DEF PassBegins
      <3>3. CASE PassEnds(t)
        BY <3>1, <3>3 DEF PassEnds
      <3> QED
        BY <1>8, <3>2, <3>3
    <2>2. PassReport(passing[t]) \in Report /\ Fine(PassReport(passing[t]), log)
      <3>1. passing[t].report \in Report /\ Fine(passing[t].report, log)
        BY <1>0 DEF TypeOK, Work, ReportsFine
      <3> QED
        BY <3>1 DEF PassReport, Report, Fine
    <2>3. TypeOK'
      BY <1>0, <2>1, <2>2 DEF TypeOK
    <2>4. ReportsFine'
      BY <1>0, <2>1, <2>2, FirstIsFine DEF ReportsFine
    <2> QED
      BY <1>0, <2>1, <2>3, <2>4, OrderKept DEF IInv
  <1>9. CASE UNCHANGED vars
    BY <1>0, <1>9 DEF vars, IInv, TypeOK, ReportsFine, InOrder, Begun, Announced, OfRun
  <1> QED
    BY <1>1, <1>2, <1>3, <1>4, <1>5, <1>6, <1>7, <1>8, <1>9 DEF Next

LEMMA Invariant == Spec => []IInv
  BY InitOK, StepOK, PTL DEF Spec

-----------------------------------------------------------------------------

\* The variables of the module have their types.
THEOREM WriteBackTypes == Spec => []TypeOK
  <1>1. IInv => TypeOK
    BY DEF IInv
  <1> QED
    BY <1>1, Invariant, PTL

\* Whoever of deep mode and accept writes last, over whatever reading: the report's
\* root cause is the first one or the confirmed conclusion that its marker names.
THEOREM ReportIsCoherent == Spec => []ConclusionIsMarked
  <1>1. IInv => ConclusionIsMarked
    BY DEF IInv, ReportsFine, Fine, ConclusionIsMarked, Marked
  <1> QED
    BY <1>1, Invariant, PTL

\* The "was" line of a refined report never shows the conclusion itself.
THEOREM AuditIsGenuine == Spec => []WasIsEarlier
  <1>1. IInv => WasIsEarlier
    BY DEF IInv, ReportsFine, Fine, WasIsEarlier
  <1> QED
    BY <1>1, Invariant, PTL

\* The noted steer was given to the run whose conclusion is in the report.
THEOREM NotesAreTrue == Spec => []NotesAreOfItsRun
  <1>1. IInv => NotesAreOfItsRun
    BY DEF IInv, ReportsFine, Fine, NotesAreOfItsRun
  <1> QED
    BY <1>1, Invariant, PTL

=============================================================================
