------------------------ MODULE InvestigationPipeline ------------------------
(***************************************************************************)
(* One investigation as the adapter runs it (src/server/agents.ts): the    *)
(* workflow of src/workflows/investigation.ts with its retried calls of    *)
(* the language model, the parallel evidence streams, the hypothesis loop  *)
(* of the synthesis, and the deep mode an operator may ask of the finished *)
(* report.                                                                 *)
(*                                                                         *)
(* What the model answers, what the tools find and which tools are listed  *)
(* are choices.  A call of the model answers, fails in a way that is not   *)
(* unavailability (the step goes on with defaults) or finds the model      *)
(* unavailable.  Prefetch and the anomaly step swallow what fails in them; *)
(* the anomaly agent never runs, since the adapter always has a message.   *)
(***************************************************************************)
EXTENDS Corroboration, FiniteSets

CONSTANTS
  Texts,          \* wordings of hypotheses
  Predictions,    \* predictions the model may attach to them
  Findings,       \* observations the tools may yield
  MaxHypotheses,  \* model bound: length of a ranking
  Yield,          \* model bound: observations of one query
  Rounds,         \* synthesisLoopRounds
  MaxAttempts,    \* llm.retry.maxAttempts
  MaxReexamine    \* hypotheses deep mode looks at

ASSUME PipelineAssumption ==
  /\ Predictions \subseteq Prediction /\ Findings \subseteq Observation
  /\ {MaxHypotheses, Yield} \subseteq Nat
  /\ {Rounds, MaxAttempts, MaxReexamine} \subseteq Nat \ {0}

Templates == {"quick", "standard", "full"}
Calls     == Phases \cup {"planning", "synthesis"}
Hypothesis == [text : Texts, prediction : Predictions]
Rankings  == UNION {[1..n -> Hypothesis] : n \in 0..MaxHypotheses}

VARIABLES
  step,       \* where the workflow is; "reported" and "thrown" are its ends
  readOnly,   \* the run is headless: its tools are filtered to read-only ones
  template,
  calls,      \* the calls of the model: state, how often started, write tools in hand
  gathered,   \* observations of the streams, later of the loop too
  hyps,       \* the ranking the synthesis emitted
  ruledOut,   \* demoted hypotheses, each with the verdict that demoted it
  outcome,    \* loopOutcome of the report, "none" on the single-pass path
  deep,       \* deep mode: not asked for, under way, done
  targets,    \* hypotheses it re-examines
  redone,     \* their verdicts, in order
  deepSeen    \* observations it gathered

flow  == <<step, readOnly, template>>
loop  == <<hyps, ruledOut, outcome>>
again == <<deep, targets, redone, deepSeen>>
pipeline == <<flow, calls, gathered, loop, again>>

Idle == [c \in Calls |-> [at |-> "off", starts |-> 0, armed |-> FALSE]]

PipelineInit ==
  /\ step = "prefetch" /\ readOnly \in BOOLEAN /\ template \in Templates
  /\ calls = Idle
  /\ gathered = {}
  /\ hyps = <<>> /\ ruledOut = <<>> /\ outcome = "none"
  /\ deep = "none" /\ targets = <<>> /\ redone = <<>> /\ deepSeen = {}

-----------------------------------------------------------------------------
(* Calls of the model.                                                     *)

\* Mutant: the configured retries whatever tools the agent holds.
AlwaysRetried == MaxAttempts

\* safeAgentRetryConfig
Attempts == IF readOnly THEN MaxAttempts ELSE 1

Put(c, at) == calls' = [calls EXCEPT ![c].at = at]

\* A step's calls end with it: the next one starts with its own.
Enter(next, c) == step' = next /\ calls' = [Idle EXCEPT ![c].at = "ready"]
Leave(next)    == step' = next /\ calls' = Idle

\* withLlmRetry starts the agent, from scratch on every attempt.
Start(c) ==
  /\ calls[c].at = "ready"
  /\ calls' = [calls EXCEPT ![c].at = "running", ![c].starts = @ + 1]
  /\ UNCHANGED <<flow, gathered, loop, again>>

Unavailable(c) ==
  /\ calls[c].at = "running"
  /\ Put(c, IF calls[c].starts < Attempts THEN "ready" ELSE "unavailable")
  /\ UNCHANGED <<flow, gathered, loop, again>>

\* What one role's query may yield, nothing when its tools or its answer fail.
Yields(phase) == {S \in SUBSET {o \in Findings : o.phase = phase} : Cardinality(S) <= Yield}

-----------------------------------------------------------------------------
(* The workflow.                                                           *)

Prefetch ==
  /\ step = "prefetch" /\ Enter("planning", "planning")
  /\ UNCHANGED <<readOnly, template, gathered, loop, again>>

\* A plan, or the defaults after any other error.
Plan ==
  /\ calls["planning"].at = "running"
  /\ Leave("evidence")
  /\ UNCHANGED <<readOnly, template, gathered, loop, again>>

Streams ==
  CASE template = "quick" -> {"metrics"}
    [] template = "standard" -> {"metrics", "logs"}
    [] template = "full" -> Phases

\* filterToReadOnlyTools of what the role's providers list; a stream without
\* tools skips its agent.
OpenStream(s) ==
  /\ step = "evidence" /\ s \in Streams /\ calls[s].at = "off"
  /\ \E tools \in SUBSET {"read", "write"} :
       LET kept == IF readOnly THEN tools \ {"write"} ELSE tools IN
       calls' = [calls EXCEPT ![s].at = IF kept = {} THEN "settled" ELSE "ready",
                              ![s].armed = "write" \in kept]
  /\ UNCHANGED <<flow, gathered, loop, again>>

\* The answer of the agent, or what the extractors recover from it or from the
\* results its tools left, also after an error.
StreamSettles(s) ==
  /\ s \in Phases /\ calls[s].at = "running"
  /\ Put(s, "settled")
  /\ \E fresh \in Yields(s) : gathered' = gathered \cup fresh
  /\ UNCHANGED <<flow, loop, again>>

\* Mutant: the synthesis waits for phases the template leaves out.
EveryPhaseGathered == \A s \in Phases : calls[s].at = "settled"

Gathered == \A s \in Streams : calls[s].at = "settled"

\* The parallel block ends with its last stream.
EvidenceDone ==
  /\ step = "evidence" /\ Gathered
  /\ Enter("synthesis", "synthesis")
  /\ UNCHANGED <<readOnly, template, gathered, loop, again>>

\* With rounds to spend and hypotheses that parse the loop follows; after an
\* error of the call the extractor may still give an answer.
Synthesize ==
  /\ calls["synthesis"].at = "running"
  /\ hyps' \in (IF Rounds > 1 THEN Rankings ELSE {<<>>})
  /\ Leave(IF hyps' = <<>> THEN "post" ELSE "loop")
  /\ UNCHANGED <<readOnly, template, gathered, ruledOut, outcome, again>>

\* Mutant: a failed workflow is mapped to a report whatever failed in it.
AlwaysReported(unavailable) == "reported"

\* What investigate() makes of a failed workflow.
Failed(unavailable) == IF unavailable THEN "thrown" ELSE "reported"

\* The block's other streams are awaited; the adapter finds the error among
\* the steps' errors.
Throw ==
  /\ step \in {"planning", "evidence", "synthesis"}
  /\ \E c \in Calls : calls[c].at = "unavailable"
  /\ step = "evidence" => \A s \in Streams : calls[s].at \in {"settled", "unavailable"}
  /\ step' = Failed(TRUE)
  /\ UNCHANGED <<readOnly, template, calls, gathered, loop, again>>

\* A step failed for another reason (a value that the next step's schema
\* refuses): the adapter maps no output to a report of defaults.
Degrade ==
  /\ step \in {"prefetch", "evidence", "post"}
  /\ step = "evidence" => Gathered
  /\ Leave(Failed(FALSE))
  /\ hyps' = <<>> /\ ruledOut' = <<>> /\ outcome' = "none"
  /\ UNCHANGED <<readOnly, template, gathered, again>>

-----------------------------------------------------------------------------
(* runHypothesisLoop.                                                      *)

Tested == Len(ruledOut)

\* Hypotheses not tested yet, the leader first.
Ranked == SubSeq(hyps, Tested + 1, Len(hyps))

\* The requery of the leader's prediction is read-only and graceful: a failure
\* of any kind, also the model's unavailability, yields nothing.
TestLeader ==
  /\ step = "loop" /\ Ranked # <<>> /\ Tested < Rounds
  /\ \E fresh \in Yields(AskedOf[Ranked[1].prediction.kind]) :
       LET seen == gathered \cup fresh
           result == Assessed(Ranked, seen) IN
       /\ gathered' = seen
       /\ IF result = "weakened"
          THEN /\ ruledOut' = Append(ruledOut, [text |-> Ranked[1].text,
                                                reason |-> Verdict(Ranked[1].prediction, seen)])
               /\ UNCHANGED <<step, outcome>>
          ELSE outcome' = result /\ step' = "post" /\ UNCHANGED ruledOut
  /\ UNCHANGED <<readOnly, template, calls, hyps, again>>

Exhaust ==
  /\ step = "loop" /\ (Ranked = <<>> \/ Tested = Rounds)
  /\ outcome' = "exhausted" /\ step' = "post"
  /\ UNCHANGED <<readOnly, template, calls, gathered, hyps, ruledOut, again>>

\* buildPostSynthesisStep
Post ==
  /\ step = "post" /\ step' = "reported"
  /\ UNCHANGED <<readOnly, template, calls, gathered, loop, again>>

-----------------------------------------------------------------------------
(* Deep mode.                                                              *)

\* matchRuledOutToPredictions: a text's last prediction, the Map's.
Rejoined(text) ==
  hyps[CHOOSE i \in DOMAIN hyps : /\ hyps[i].text = text
                                  /\ \A j \in DOMAIN hyps : hyps[j].text = text => j <= i]

RuledOutTargets ==
  [i \in DOMAIN ruledOut |-> [hypothesis |-> Rejoined(ruledOut[i].text),
                              standing |-> "ruled-out", prior |-> ruledOut[i].reason]]

Cut(queue) == [i \in {j \in DOMAIN queue : j <= MaxReexamine} |-> queue[i]]

StandingTargets ==
  LET top == CASE outcome = "confirmed" -> 1 [] outcome = "undetermined" -> 2 [] OTHER -> 0 IN
  [i \in {j \in DOMAIN hyps : j <= top} |->
     [hypothesis |-> hyps[i], standing |-> "confirmed", prior |-> "satisfied"]]

\* Mutant: the standing conclusion is put to the test also when others fell.
AlwaysStanding == Cut(StandingTargets)

\* buildReexamineTargets
Reexamined == Cut(IF ruledOut # <<>> THEN RuledOutTargets ELSE StandingTargets)

AskDeepMode ==
  /\ step = "reported" /\ deep = "none"
  /\ targets' = Reexamined
  /\ deep' = IF Reexamined = <<>> THEN "done" ELSE "running"
  /\ UNCHANGED <<flow, calls, gathered, loop, redone, deepSeen>>

\* runDeepMode takes the next target; priorObservations is empty.
Reexamine ==
  /\ deep = "running"
  /\ LET p == targets[Len(redone) + 1].hypothesis.prediction IN
     \E fresh \in Yields(AskedOf[p.kind]) :
       /\ deepSeen' = deepSeen \cup fresh
       /\ redone' = Append(redone, Verdict(p, deepSeen \cup fresh))
  /\ deep' = IF Len(redone) + 1 = Len(targets) THEN "done" ELSE "running"
  /\ UNCHANGED <<flow, calls, gathered, loop, targets>>

Flipped(i) ==
  IF targets[i].standing = "ruled-out"
  THEN redone[i] = "satisfied" /\ targets[i].prior # "satisfied"
  ELSE redone[i] # "satisfied"

\* The outcome runDeepMode writes into the report.
DeepOutcome ==
  LET changed == {targets[i].standing : i \in {j \in DOMAIN redone : Flipped(j)}} IN
  IF targets = <<>> THEN "nothing-to-examine"
  ELSE IF "ruled-out" \in changed THEN "resurrected-candidate"
  ELSE IF "confirmed" \in changed THEN "confirmation-shaken" ELSE "holds"

-----------------------------------------------------------------------------
Run ==
  \/ Prefetch \/ Plan \/ EvidenceDone \/ Synthesize \/ Throw \/ Degrade
  \/ TestLeader \/ Exhaust \/ Post \/ Reexamine
  \/ \E c \in Calls : Start(c) \/ Unavailable(c)
  \/ \E s \in Phases : OpenStream(s) \/ StreamSettles(s)

PipelineNext == Run \/ AskDeepMode

\* Every answer of a model or a tool comes: a call that hangs is outside.
PipelineSpec == PipelineInit /\ [][PipelineNext]_pipeline /\ WF_pipeline(Run)

-----------------------------------------------------------------------------
PipelineTypeOK ==
  /\ step \in {"prefetch", "planning", "evidence", "synthesis", "loop", "post",
               "reported", "thrown"}
  /\ readOnly \in BOOLEAN /\ template \in Templates
  /\ calls \in [Calls -> [at : {"off", "ready", "running", "settled", "unavailable"},
                          starts : 0..MaxAttempts, armed : BOOLEAN]]
  /\ gathered \subseteq Findings /\ deepSeen \subseteq Findings
  /\ hyps \in Rankings
  /\ ruledOut \in Seq([text : Texts, reason : Verdicts \ {"satisfied"}])
  /\ Len(ruledOut) <= Len(hyps) /\ Len(ruledOut) <= Rounds
  /\ outcome \in {"none", "confirmed", "undetermined", "exhausted"}
  /\ deep \in {"none", "running", "done"}
  /\ targets \in Seq([hypothesis : Hypothesis, standing : {"ruled-out", "confirmed"},
                      prior : Verdicts])
  /\ redone \in Seq(Verdicts) /\ Len(redone) <= Len(targets)

\* An agent that held write tools was started once: no retry and no stream
\* runs its tools a second time (llm-retry.ts, evidence.ts).
WriteRunOnce == \A c \in Calls : calls[c].armed => calls[c].starts <= 1

\* A model that stayed unavailable ends the investigation as failed, never as
\* a report of defaults, whichever of the parallel calls met it; and nothing
\* else makes it fail (agents.ts, the runner's catch).
UnavailableIsNotReported ==
  /\ step = "reported" => \A c \in Calls : calls[c].at # "unavailable"
  /\ step = "thrown" => \E c \in Calls : calls[c].at = "unavailable"

\* What deep mode tries to refute is what the loop was left with: it held on
\* the evidence of the run, and nothing was ruled out before it; a dismissed
\* cause is tried again under its own wording.  When deep mode says that a
\* conclusion holds, evidence it gathered itself bears it out (deep-mode.ts
\* against hypothesis-loop.ts).
DeepModeTestsTheStanding ==
  \A i \in DOMAIN targets :
    LET t == targets[i] p == t.hypothesis.prediction IN
    IF t.standing = "confirmed"
    THEN /\ Holds(p, gathered) /\ ruledOut = <<>>
         /\ deep = "done" /\ DeepOutcome = "holds" /\ p.present => Holds(p, deepSeen)
    ELSE t.hypothesis.text = ruledOut[i].text /\ t.prior # "satisfied"

\* An investigation ends, with a report or an error, and so does deep mode.
InvestigationEnds ==
  /\ <>(step \in {"reported", "thrown"})
  /\ deep = "running" ~> deep = "done"
=============================================================================
