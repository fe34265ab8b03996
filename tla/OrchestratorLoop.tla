-------------------------- MODULE OrchestratorLoop --------------------------
(***************************************************************************)
(* The move loop of one Deep Investigation: runOrchestrator in             *)
(* src/agents/orchestrator.ts, wired by orchestrate in                     *)
(* src/server/agents.ts.  A language model picks the next move; the loop   *)
(* tests a ladder of guards before every move, keeps the standing of each  *)
(* hypothesis, and stops as "confirmed" only behind deterministic gates.   *)
(*                                                                         *)
(* Every await of the code is a value of pc, so an abort or the end of the *)
(* wall-clock budget may fall into any of them.  Texts are abstracted to   *)
(* the claim class the gates distinguish, observations to the kind the     *)
(* gates read, and token counts to a small cost per move.                  *)
(***************************************************************************)
EXTENDS Integers, Sequences, FiniteSets

CONSTANTS
  Services,             \* services other than the incident service that a cause may blame
  Dependencies,         \* those of them that are neighbours in the dependency graph
  Hooks,                \* the optional hooks this run is wired with
  MaxMoves,             \* MAX_MOVES
  MaxStall,             \* MAX_STALL
  MaxStrikes,           \* guards.maxStrikes
  MaxToolCalls,         \* guards.maxToolCalls
  MaxSubagents,         \* guards.maxSubagents
  MaxTokens,            \* guards.maxTokens
  MaxMoveCost,          \* the most tokens one estimateTokens call reports (model bound)
  MaxContinues,         \* MAX_OPERATOR_CONTINUES
  BailQueries,          \* NO_EVIDENCE_BAIL_QUERIES
  RecheckQueries,       \* HEALTH_RECHECK_QUERIES
  MaxHyps               \* model bound: hypotheses a run proposes

ASSUME LoopAssumption ==
  /\ Dependencies \subseteq Services
  /\ Hooks \subseteq {"operator", "subagent", "healthy", "failing"}
  /\ \A n \in {MaxMoves, MaxStall, MaxStrikes, MaxToolCalls, MaxTokens,
               BailQueries, RecheckQueries, MaxHyps} : n \in Nat \ {0}
  /\ \A n \in {MaxSubagents, MaxMoveCost, MaxContinues} : n \in Nat

\* What a hypothesis text says, as far as the conclude gates read it: it is
\* about the incident service itself, it blames a service, it blames the
\* monitoring stack, it matches a skill's incompatibleClaims pattern, or it
\* claims a failure of a running pod.
Claims    == Services \cup {"own", "tooling", "incompatible", "podRuntime"}
Verdicts  == {"satisfied", "contradicted", "absent"}
Standings == {"open", "confirmed", "ruled-out", "inconclusive"}
Readings  == {"healthy", "unhealthy", "unknown"}
Hypothesis == [claim : Claims, standing : Standings, verdict : Verdicts \cup {"none"}]
Kinds     == {"plain", "zeroPods"}      \* zeroPods: the workload has no running pod

\* The outcomes of OrchestratorResult; "threw" is a rejected runOrchestrator.
Outcomes  == {"confirmed", "operator-pause", "budget-exhausted", "tool-cap",
              "wall-clock", "exhausted", "inconclusive", "no-incident",
              "aborted", "threw"}

VARIABLES
  pc,          \* where the loop is: one value per await, plus "top" and "done"
  hyps,        \* hypotheses, in the order they were proposed
  evidence,    \* kinds of observation gathered so far
  followed,    \* followedServices
  moves, stall, strikes, toolCalls, subagents, tokensSpent, operatorContinues,
  ruledOutSinceHealthCheck, queriesSinceHealthCheck,
  leading,     \* index the pending conclude names (0 outside of it)
  pending,     \* outcome giveUp was called with ("none" outside of it)
  outcome,     \* the result, "none" while the loop runs
  confirmed,   \* hypothesis index of the result; 0 is none or the primary-signal floor
  late,        \* elapsed() >= wallClockMs
  aborted,     \* signal.aborted
  sinceAbort   \* moves taken after the abort (history variable)

gathered == <<hyps, evidence, followed>>
counters == <<moves, stall, strikes, toolCalls, subagents, tokensSpent, operatorContinues>>
due      == <<ruledOutSinceHealthCheck, queriesSinceHealthCheck>>
result   == <<leading, pending, outcome, confirmed>>
stops    == <<late, aborted>>
vars     == <<pc, gathered, counters, due, result, stops, sinceAbort>>

Init ==
  /\ pc = "top"
  /\ hyps = <<>>
  /\ evidence = {}
  /\ followed = {}
  /\ moves = 0 /\ stall = 0 /\ strikes = 0 /\ toolCalls = 0
  /\ subagents = 0 /\ tokensSpent = 0 /\ operatorContinues = 0
  /\ ruledOutSinceHealthCheck = FALSE /\ queriesSinceHealthCheck = 0
  /\ leading = 0
  /\ pending = "none"
  /\ outcome = "none"
  /\ confirmed = 0
  /\ late = FALSE
  /\ aborted = FALSE
  /\ sinceAbort = 0

-----------------------------------------------------------------------------
(* How the loop ends.                                                      *)

Finish(o, h) ==
  /\ pc' = "done"
  /\ outcome' = o
  /\ confirmed' = h
  /\ leading' = 0
  /\ pending' = "none"

\* giveUp: consult the failure floor when the run has one, else finish.
GiveUp(o) ==
  IF "failing" \in Hooks
  THEN pc' = "floor" /\ pending' = o /\ UNCHANGED <<outcome, confirmed, leading>>
  ELSE Finish(o, 0)

GoTo(label) ==
  /\ pc' = label
  /\ UNCHANGED result

\* Nothing but the control state moves.
SameData == UNCHANGED <<gathered, counters, due, sinceAbort>>

(* checkFailing answered: its cause is confirmed, or the outcome stands.   *)
Floor(failing) ==
  /\ pc = "floor"
  /\ IF failing THEN Finish("confirmed", 0) ELSE Finish(pending, 0)
  /\ SameData
  /\ UNCHANGED stops

-----------------------------------------------------------------------------
(* The ladder in front of every move.                                      *)

\* Mutant: the signal is only looked at before the first move.
StoppedEarly == aborted /\ moves = 0

\* deps.signal?.aborted, looked at on both sides of the move boundary.
Stopped == aborted

\* while (moves < MAX_MOVES), the first abort check, await onMoveBoundary.
Top ==
  /\ pc = "top"
  /\ \/ moves >= MaxMoves /\ GiveUp("inconclusive")
     \/ moves < MaxMoves /\ Stopped /\ Finish("aborted", 0)
     \/ moves < MaxMoves /\ ~Stopped /\ GoTo("boundary")
  /\ SameData
  /\ UNCHANGED stops

\* The first guard that has tripped, in the order of the code.
Tripped ==
  IF tokensSpent >= MaxTokens THEN "budget-exhausted"
  ELSE IF toolCalls >= MaxToolCalls THEN "tool-cap"
  ELSE IF late THEN "wall-clock"
  ELSE "none"

OutOfStrikes == strikes >= MaxStrikes

\* Nothing more to expect: consecutive empty moves, or queries that found nothing.
Fruitless ==
  \/ stall >= MaxStall
  \/ toolCalls >= BailQueries /\ evidence = {}

HealthCheckDue ==
  \/ ruledOutSinceHealthCheck
  \/ Len(hyps) > 0 /\ queriesSinceHealthCheck >= RecheckQueries

AskOperator == "operator" \in Hooks /\ operatorContinues < MaxContinues

HealthChecked == ruledOutSinceHealthCheck' = FALSE /\ queriesSinceHealthCheck' = 0

\* onMoveBoundary returned (a parked run was woken): abort again, then the guards.
Guards ==
  /\ pc = "boundary"
  /\ UNCHANGED <<gathered, counters, stops, sinceAbort>>
  /\ \/ /\ Stopped
        /\ Finish("aborted", 0) /\ UNCHANGED due
     \/ /\ ~Stopped /\ Tripped # "none"
        /\ GiveUp(Tripped) /\ UNCHANGED due
     \/ /\ ~Stopped /\ Tripped = "none" /\ OutOfStrikes
        /\ IF AskOperator THEN GoTo("operator") ELSE GiveUp("operator-pause")
        /\ UNCHANGED due
     \/ /\ ~Stopped /\ Tripped = "none" /\ ~OutOfStrikes /\ Fruitless
        /\ GiveUp("inconclusive") /\ UNCHANGED due
     \/ /\ ~Stopped /\ Tripped = "none" /\ ~OutOfStrikes /\ ~Fruitless
        /\ IF HealthCheckDue /\ "healthy" \in Hooks
           THEN GoTo("recheck") /\ HealthChecked
           ELSE GoTo("deciding") /\ UNCHANGED due

\* The operator answered the strike-limit pause ("escalate" and "wait" both stop).
OperatorReply(decision) ==
  /\ pc = "operator"
  /\ IF decision = "continue"
     THEN /\ GoTo("top")
          /\ operatorContinues' = operatorContinues + 1
          /\ strikes' = 0
     ELSE GiveUp("operator-pause") /\ UNCHANGED <<operatorContinues, strikes>>
  /\ UNCHANGED <<gathered, moves, stall, toolCalls, subagents, tokensSpent, due, stops, sinceAbort>>

\* checkHealthy answered the periodic re-check (a rejection counts as unknown).
Recheck(reading) ==
  /\ pc = "recheck"
  /\ IF reading = "healthy" /\ \A i \in DOMAIN hyps : hyps[i].standing # "confirmed"
     THEN Finish("no-incident", 0)
     ELSE GoTo("deciding")
  /\ SameData
  /\ UNCHANGED stops

-----------------------------------------------------------------------------
(* The moves.  A move is counted, and charged, when decideMove returns it. *)

Decided(c) ==
  /\ pc = "deciding"
  /\ moves' = moves + 1
  /\ tokensSpent' = tokensSpent + c
  /\ sinceAbort' = IF aborted THEN sinceAbort + 1 ELSE 0
  /\ UNCHANGED <<operatorContinues, stops>>

\* A move that is traced and skipped: it only counts as a stall.
Skip ==
  /\ GoTo("top")
  /\ stall' = stall + 1
  /\ UNCHANGED <<gathered, strikes, toolCalls, subagents, due>>

Hypothesize(c, claim) ==
  /\ Decided(c)
  /\ Len(hyps) < MaxHyps
  /\ hyps' = Append(hyps, [claim |-> claim, standing |-> "open", verdict |-> "none"])
  /\ stall' = 0
  /\ GoTo("top")
  /\ UNCHANGED <<evidence, followed, strikes, toolCalls, subagents, due>>

\* The query starts; it is counted when Observe takes its answer.
Query(c, t) ==
  /\ Decided(c)
  /\ \/ t \notin DOMAIN hyps /\ Skip
     \/ /\ t \in DOMAIN hyps
        /\ GoTo("gathering")
        /\ UNCHANGED <<gathered, stall, strikes, toolCalls, subagents, due>>

\* What a verdict makes of a hypothesis.
StandingOf(v) ==
  CASE v = "satisfied"    -> "confirmed"
    [] v = "contradicted" -> "ruled-out"
    [] v = "absent"       -> "inconclusive"

\* evaluatePrediction speaks to a prediction only through an observation.
Test(c, t, v) ==
  /\ Decided(c)
  /\ \/ t \notin DOMAIN hyps /\ Skip
     \/ /\ t \in DOMAIN hyps
        /\ evidence = {} => v = "absent"
        /\ hyps' = [hyps EXCEPT ![t].verdict = v, ![t].standing = StandingOf(v)]
        /\ strikes' = IF v = "satisfied" THEN 0 ELSE strikes + 1
        /\ stall' = 0
        /\ ruledOutSinceHealthCheck' = (ruledOutSinceHealthCheck \/ v = "contradicted")
        /\ GoTo("top")
        /\ UNCHANGED <<evidence, followed, toolCalls, subagents, queriesSinceHealthCheck>>

\* The deterministic gates between a conclude move and the health gate.
Keystone(h)   == h.standing = "confirmed" /\ h.verdict = "satisfied"
Unfollowed(h) == h.claim \in Services \ followed
Grounded(h) ==
  /\ ~Unfollowed(h)
  /\ h.claim \notin {"tooling", "incompatible"}
  /\ ~(h.claim = "podRuntime" /\ "zeroPods" \in evidence)

\* Mutant: a satisfied test is enough.
KeystoneOnly(t) == t \in DOMAIN hyps /\ Keystone(hyps[t])

Concludable(t) == t \in DOMAIN hyps /\ Keystone(hyps[t]) /\ Grounded(hyps[t])

\* The health gate, when the run has one.
Confirm(t) ==
  IF "healthy" \in Hooks
  THEN pc' = "confirming" /\ leading' = t /\ UNCHANGED <<outcome, confirmed, pending>>
  ELSE Finish("confirmed", t)

Conclude(c, t) ==
  /\ Decided(c)
  /\ \/ ~Concludable(t) /\ Skip
     \/ /\ Concludable(t) /\ Confirm(t)
        /\ UNCHANGED <<gathered, stall, strikes, toolCalls, subagents, due>>

\* checkHealthy answered the health gate of a conclude.
HealthGate(reading) ==
  /\ pc = "confirming"
  /\ IF reading = "healthy"
     THEN /\ pc' = "top" /\ leading' = 0
          /\ stall' = stall + 1
          /\ UNCHANGED <<outcome, confirmed, pending>>
     ELSE Finish("confirmed", leading) /\ UNCHANGED stall
  /\ UNCHANGED <<gathered, moves, strikes, toolCalls, subagents, tokensSpent,
                 operatorContinues, due, stops, sinceAbort>>

\* A sub-investigation of s starts, on either subagent move.
Dispatch(s) ==
  /\ subagents' = subagents + 1
  /\ followed' = followed \cup {s}
  /\ GoTo("dispatched")
  /\ UNCHANGED <<hyps, evidence, stall, strikes, toolCalls, due>>

\* Mutant: one sub-investigation more than maxSubagents.
CanDispatchOneMore == "subagent" \in Hooks /\ subagents <= MaxSubagents

CanDispatch == "subagent" \in Hooks /\ subagents < MaxSubagents

SpawnSubagent(c, s) ==
  /\ Decided(c)
  /\ IF CanDispatch THEN Dispatch(s) ELSE Skip

FollowCause(c, s) ==
  /\ Decided(c)
  /\ IF CanDispatch /\ s \in Dependencies THEN Dispatch(s) ELSE Skip

\* The gather or the sub-investigation returned the observations in obs; a
\* watchdog timeout is an empty reply, whatever comes later is dropped.
Observe(obs) ==
  /\ pc \in {"gathering", "dispatched"}
  /\ evidence' = evidence \cup obs
  /\ stall' = IF obs = {} THEN stall + 1 ELSE 0
  /\ IF pc = "gathering"
     THEN /\ toolCalls' = toolCalls + 1
          /\ queriesSinceHealthCheck' = queriesSinceHealthCheck + 1
     ELSE UNCHANGED <<toolCalls, queriesSinceHealthCheck>>
  /\ GoTo("top")
  /\ UNCHANGED <<hyps, followed, moves, strikes, subagents, tokensSpent, operatorContinues,
                 ruledOutSinceHealthCheck, stops, sinceAbort>>

-----------------------------------------------------------------------------
(* decideMove without a move, rejections, and the environment.             *)

\* Mutant: a timed-out decide is not counted as a stall either.
DecideTimeoutUncounted == pc = "deciding" /\ GoTo("top") /\ SameData /\ UNCHANGED stops

\* The watchdog won the race: no move is counted, the stall is.
DecideTimeout ==
  /\ pc = "deciding"
  /\ GoTo("top")
  /\ stall' = stall + 1
  /\ UNCHANGED <<gathered, moves, strikes, toolCalls, subagents, tokensSpent,
                 operatorContinues, due, stops, sinceAbort>>

NoFurtherMove ==
  /\ pc = "deciding"
  /\ GiveUp("exhausted")
  /\ SameData
  /\ UNCHANGED stops

\* A rejection the loop does not catch leaves runOrchestrator.
Throw ==
  /\ pc \in {"deciding", "gathering", "confirming"}
  /\ Finish("threw", 0)
  /\ SameData
  /\ UNCHANGED stops

Abort ==
  /\ pc # "done" /\ ~aborted
  /\ aborted' = TRUE
  /\ SameData
  /\ UNCHANGED <<pc, result, late>>

WallClock ==
  /\ pc # "done" /\ ~late
  /\ late' = TRUE
  /\ SameData
  /\ UNCHANGED <<pc, result, aborted>>

Targets == 1..MaxHyps + 1               \* the last one is never a hypothesis
Costs   == 0..MaxMoveCost

Decide ==
  \E c \in Costs :
    \/ \E claim \in Claims : Hypothesize(c, claim)
    \/ \E t \in Targets : Query(c, t)
    \/ \E t \in Targets, v \in Verdicts : Test(c, t, v)
    \/ \E t \in Targets : Conclude(c, t)
    \/ \E s \in Services : SpawnSubagent(c, s)
    \/ \E s \in Services : FollowCause(c, s)

Reply ==
  \/ \E failing \in BOOLEAN : Floor(failing)
  \/ \E d \in {"continue", "escalate", "wait"} : OperatorReply(d)
  \/ \E r \in Readings : Recheck(r)
  \/ \E r \in Readings : HealthGate(r)
  \/ \E obs \in SUBSET Kinds : Observe(obs)

Step == Top \/ Guards \/ Reply \/ Decide \/ DecideTimeout \/ NoFurtherMove \/ Throw

Next == Step \/ Abort \/ WallClock

\* Every await settles: calls to the model and to the tools are raced against
\* a watchdog or answered, and the pauses end by a reply or a timer.
Spec == Init /\ [][Next]_vars /\ WF_vars(Step)

-----------------------------------------------------------------------------
(* Properties.                                                             *)

Labels == {"top", "boundary", "operator", "recheck", "deciding", "gathering",
           "dispatched", "confirming", "floor", "done"}

ControlOK ==
  /\ pc \in Labels
  /\ leading \in Nat
  /\ confirmed \in Nat
  /\ pending \in Outcomes \cup {"none"}
  /\ outcome \in Outcomes \cup {"none"}

HypsOK == hyps \in Seq(Hypothesis)
CountersOK ==
  /\ moves \in Nat /\ stall \in Nat /\ strikes \in Nat /\ toolCalls \in Nat
  /\ subagents \in Nat /\ tokensSpent \in Nat /\ operatorContinues \in Nat
  /\ queriesSinceHealthCheck \in Nat

TypeOK ==
  /\ ControlOK /\ HypsOK /\ CountersOK
  /\ evidence \in SUBSET Kinds /\ followed \in SUBSET Services
  /\ late \in BOOLEAN /\ aborted \in BOOLEAN /\ ruledOutSinceHealthCheck \in BOOLEAN
  /\ sinceAbort \in Nat

\* DECISION 1, the hybrid stop: a run that names a hypothesis as its confirmed
\* cause has that hypothesis satisfied by the keystone, and the cause passes
\* every gate on the evidence the result carries: it blames no service the
\* agent never went into, not the monitoring stack, no incompatible
\* infrastructure, and no running pod of a workload that has none.
ConfirmedIsGrounded ==
  confirmed # 0 =>
    /\ outcome = "confirmed"
    /\ confirmed \in DOMAIN hyps
    /\ Keystone(hyps[confirmed])
    /\ Grounded(hyps[confirmed])

\* DECISION 2, the safety harness: whatever the model asks for, the run stays
\* within each limit; tokens overshoot by less than the cost of one move, and
\* the two subagent moves draw on one budget.
SpendingBounded ==
  /\ moves <= MaxMoves
  /\ toolCalls <= MaxToolCalls
  /\ subagents <= MaxSubagents
  /\ operatorContinues <= MaxContinues
  /\ strikes <= MaxStrikes
  /\ stall <= MaxStall
  /\ tokensSpent < MaxTokens + MaxMoveCost

\* Stop is cooperative: it cannot interrupt the await it falls into, but at most
\* the move that was being decided still happens after it.
AbortEndsWithinOneMove == sinceAbort <= 1

\* The run ends: every cycle of the loop spends a move, a stall or a continue.
Termination == <>(pc = "done")

=============================================================================
