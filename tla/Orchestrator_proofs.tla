-------------------------- MODULE Orchestrator_proofs --------------------------
(***************************************************************************)
(* Proofs about a Deep Investigation run, for every value of the           *)
(* constants: its move loop stays within the safety harness and a          *)
(* confirmed hypothesis passed the gates; and a browser tab keeps the      *)
(* steps of the run in order and, attached, shows the run as it is, as     *)
(* long as it is the only one of its investigation so far.                 *)
(***************************************************************************)
EXTENDS OrchestratorLoop, BrowserRun, SequenceTheorems, NaturalsInduction, WellFoundedInduction, TLAPS

-----------------------------------------------------------------------------
(* The move loop.                                                          *)

\* Between the abort check at the top of the loop and the move it leads to.
Ladder == {"boundary", "operator", "recheck", "deciding"}

\* Past the ladder, so every counted guard has been seen below its limit.
Cleared == {"recheck", "deciding"}

\* The awaits a move itself makes.
Moving == {"gathering", "dispatched", "confirming"}

Limits ==
  /\ moves <= MaxMoves /\ (pc \in Ladder => moves < MaxMoves)
  /\ toolCalls <= MaxToolCalls
  /\ pc \in Cleared \cup {"gathering"} => toolCalls < MaxToolCalls
  /\ strikes <= MaxStrikes /\ (pc \in Cleared => strikes < MaxStrikes)
  /\ stall <= MaxStall /\ (pc \in Cleared \cup Moving => stall < MaxStall)
  /\ tokensSpent < MaxTokens + MaxMoveCost /\ (pc \in Cleared => tokensSpent < MaxTokens)
  /\ subagents <= MaxSubagents
  /\ operatorContinues <= MaxContinues
  /\ pc = "operator" => operatorContinues < MaxContinues

Gates ==
  /\ confirmed # 0 => /\ pc = "done" /\ outcome = "confirmed"
                      /\ confirmed \in DOMAIN hyps
                      /\ Keystone(hyps[confirmed]) /\ Grounded(hyps[confirmed])
  /\ pc = "confirming" => /\ leading \in DOMAIN hyps
                          /\ Keystone(hyps[leading]) /\ Grounded(hyps[leading])

Stops ==
  /\ sinceAbort <= 1
  /\ sinceAbort # 0 => aborted
  /\ pc \in Ladder => sinceAbort = 0

\* The groups of variables that UNCHANGED lists name are expanded throughout.
USE DEF gathered, counters, due, result, stops

-----------------------------------------------------------------------------
(* The type invariant.                                                     *)

\* The three ways an action sets the control state keep it in its type.
LEMMA FinishControl ==
  ASSUME NEW o \in Outcomes, NEW h \in Nat, Finish(o, h) PROVE ControlOK'
BY DEF Finish, ControlOK, Labels

LEMMA GiveUpControl ==
  ASSUME ControlOK, NEW o \in Outcomes, GiveUp(o) PROVE ControlOK'
<1>1. CASE "failing" \in Hooks
  BY <1>1 DEF GiveUp, ControlOK, Labels
<1>2. CASE "failing" \notin Hooks
  BY <1>2, FinishControl DEF GiveUp
<1> QED BY <1>1, <1>2

LEMMA GoToControl ==
  ASSUME ControlOK, NEW label \in Labels, GoTo(label) PROVE ControlOK'
BY DEF GoTo, ControlOK

\* Every step keeps every variable in its type.
LEMMA TypeStep == TypeOK /\ [Next]_vars => TypeOK'
<1> SUFFICES ASSUME TypeOK, [Next]_vars PROVE TypeOK'
  OBVIOUS
<1> DEFINE Data == /\ HypsOK /\ CountersOK
                   /\ evidence \in SUBSET Kinds /\ followed \in SUBSET Services
                   /\ sinceAbort \in Nat /\ ruledOutSinceHealthCheck \in BOOLEAN
<1>a. Data /\ ControlOK /\ late \in BOOLEAN /\ aborted \in BOOLEAN
  BY DEF TypeOK
<1>b. ASSUME SameData PROVE Data'
  BY <1>a, <1>b DEF SameData, HypsOK, CountersOK
<1>1. CASE Top
  BY <1>1, <1>a, <1>b, GiveUpControl, FinishControl, GoToControl DEF Top, Stopped, TypeOK, Outcomes, Labels
<1>2. CASE Guards
  <2>1. Data'
    <3>1. HypsOK' /\ (evidence \in SUBSET Kinds)' /\ (followed \in SUBSET Services)' /\ (sinceAbort \in Nat)'
      BY <1>2, <1>a DEF Guards, Stopped, HypsOK
    <3>2. UNCHANGED due \/ HealthChecked
      BY <1>2 DEF Guards, Stopped
    <3>3. CountersOK'
      BY <1>2, <1>a, <3>2 DEF Guards, Stopped, HealthChecked, CountersOK
    <3>4. (ruledOutSinceHealthCheck \in BOOLEAN)'
      BY <1>a, <3>2 DEF HealthChecked
    <3> QED BY <3>1, <3>3, <3>4
  <2>2. Tripped \in Outcomes \cup {"none"}
    BY DEF Tripped, Outcomes
  <2>3. ControlOK'
    BY <1>2, <1>a, <2>2, GiveUpControl, FinishControl, GoToControl DEF Guards, Stopped, Outcomes, Labels
  <2> QED BY <1>2, <1>a, <2>1, <2>3 DEF Guards, Stopped, TypeOK
<1>3. CASE Reply
  <2>1. ASSUME NEW failing \in BOOLEAN, Floor(failing) PROVE TypeOK'
    <3>1. ControlOK'
      BY <2>1, <1>a DEF Floor, Finish, ControlOK, Outcomes, Labels
    <3> QED BY <2>1, <3>1, <1>a, <1>b DEF Floor, TypeOK
  <2>2. ASSUME NEW d \in {"continue", "escalate", "wait"}, OperatorReply(d) PROVE TypeOK'
    <3>1. ControlOK'
      BY <2>2, <1>a, GiveUpControl, GoToControl DEF OperatorReply, Outcomes, Labels
    <3>2. CountersOK'
      BY <2>2, <1>a DEF OperatorReply, CountersOK
    <3> QED BY <2>2, <1>a, <3>1, <3>2 DEF OperatorReply, TypeOK, HypsOK, CountersOK
  <2>3. ASSUME NEW r \in Readings, Recheck(r) PROVE TypeOK'
    BY <2>3, <1>a, <1>b, FinishControl, GoToControl DEF Recheck, TypeOK, Outcomes, Labels
  <2>4. ASSUME NEW r \in Readings, HealthGate(r) PROVE TypeOK'
    <3>1. ControlOK'
      BY <2>4, <1>a, FinishControl DEF HealthGate, ControlOK, Labels, Outcomes
    <3>2. CountersOK'
      BY <2>4, <1>a DEF HealthGate, CountersOK
    <3> QED BY <2>4, <1>a, <3>1, <3>2 DEF HealthGate, TypeOK, HypsOK, CountersOK
  <2>5. ASSUME NEW obs \in SUBSET Kinds, Observe(obs) PROVE TypeOK'
    <3>1. ControlOK'
      BY <2>5, <1>a, GoToControl DEF Observe, Labels
    <3>2. CountersOK' /\ CountersOK'
      BY <2>5, <1>a DEF Observe, CountersOK
    <3> QED BY <2>5, <1>a, <3>1, <3>2 DEF Observe, TypeOK, HypsOK
  <2> QED BY <1>3, <2>1, <2>2, <2>3, <2>4, <2>5 DEF Reply
<1>4. CASE Decide
  <2> PICK c \in Costs :
        \/ \E claim \in Claims : Hypothesize(c, claim)
        \/ \E t \in Targets : Query(c, t)
        \/ \E t \in Targets, v \in Verdicts : Test(c, t, v)
        \/ \E t \in Targets : Conclude(c, t)
        \/ \E s \in Services : SpawnSubagent(c, s)
        \/ \E s \in Services : FollowCause(c, s)
    BY <1>4 DEF Decide
  <2>a. c \in Nat
    BY LoopAssumption DEF Costs
  <2>c. Decided(c) => late' \in BOOLEAN /\ aborted' \in BOOLEAN /\ sinceAbort' \in Nat
    BY <1>a DEF Decided
  <2>d. ASSUME Decided(c), Skip PROVE TypeOK'
    <3>1. ControlOK'
      BY <2>d, <1>a, GoToControl DEF Skip, Labels
    <3>2. CountersOK'
      BY <2>d, <2>a, <1>a DEF Decided, Skip, CountersOK
    <3> QED BY <2>d, <2>c, <1>a, <3>1, <3>2 DEF Skip, TypeOK, HypsOK, CountersOK
  <2>1. ASSUME NEW claim \in Claims, Hypothesize(c, claim) PROVE TypeOK'
    <3>1. ControlOK'
      BY <2>1, <1>a, GoToControl DEF Hypothesize, Labels
    <3>2. CountersOK'
      BY <2>1, <2>a, <1>a DEF Decided, Hypothesize, CountersOK
    <3>3. HypsOK'
      BY <2>1, <1>a DEF Hypothesize, HypsOK, Hypothesis, Standings
    <3> QED BY <2>1, <2>c, <1>a, <3>1, <3>2, <3>3 DEF Hypothesize, TypeOK, CountersOK
  <2>2. ASSUME NEW t \in Targets, Query(c, t) PROVE TypeOK'
    <3>1. CASE t \in DOMAIN hyps
      <4>1. ControlOK'
        BY <2>2, <3>1, <1>a, GoToControl DEF Query, Skip, Labels
      <4>2. CountersOK'
        BY <2>2, <3>1, <2>a, <1>a DEF Decided, Query, CountersOK
      <4> QED BY <2>2, <3>1, <2>c, <1>a, <4>1, <4>2 DEF Query, TypeOK, HypsOK, CountersOK
    <3>2. CASE t \notin DOMAIN hyps
      BY <2>2, <3>2, <2>d DEF Query
    <3> QED BY <3>1, <3>2
  <2>3. ASSUME NEW t \in Targets, NEW v \in Verdicts, Test(c, t, v) PROVE TypeOK'
    <3>1. CASE t \in DOMAIN hyps
      <4>1. ControlOK'
        BY <2>3, <3>1, <1>a, GoToControl DEF Test, Labels
      <4>2. CountersOK'
        BY <2>3, <3>1, <2>a, <1>a DEF Decided, Test, CountersOK
      <4>3. HypsOK'
        <5>1. StandingOf(v) \in Standings
          BY DEF StandingOf, Standings, Verdicts
        <5> DEFINE h == [claim |-> hyps[t].claim, standing |-> StandingOf(v), verdict |-> v]
        <5>2. hyps[t] \in Hypothesis
          BY <3>1, <1>a DEF HypsOK
        <5>3. h \in Hypothesis
          BY <5>2, <5>1 DEF Hypothesis
        <5>4. hyps' = [hyps EXCEPT ![t] = h]
          BY <2>3, <3>1, <5>2, <1>a DEF Test, HypsOK, Hypothesis
        <5> HIDE DEF h
        <5> QED BY <3>1, <5>3, <5>4, <1>a DEF HypsOK
      <4>4. (ruledOutSinceHealthCheck \in BOOLEAN)'
        BY <2>3, <3>1, <1>a DEF Test
      <4> QED BY <2>3, <3>1, <2>c, <1>a, <4>1, <4>2, <4>3, <4>4 DEF Test, TypeOK
    <3>2. CASE t \notin DOMAIN hyps
      BY <2>3, <3>2, <2>d DEF Test
    <3> QED BY <3>1, <3>2
  <2>4. ASSUME NEW t \in Targets, Conclude(c, t) PROVE TypeOK'
    <3>1. CASE Skip
      BY <2>4, <3>1, <2>d DEF Conclude, Concludable, Confirm
    <3>2. CASE ~Skip
      <4>1. ControlOK'
        BY <2>4, <3>2, <1>a, FinishControl, LoopAssumption DEF Conclude, Concludable, Confirm, ControlOK, Labels, Targets, Outcomes
      <4>2. CountersOK'
        BY <2>4, <3>2, <2>a, <1>a DEF Decided, Conclude, Concludable, Confirm, CountersOK
      <4> QED BY <2>4, <3>2, <2>c, <1>a, <4>1, <4>2 DEF Conclude, Concludable, Confirm, TypeOK, HypsOK, CountersOK
    <3> QED BY <3>1, <3>2
  <2>5. ASSUME NEW s \in Services, SpawnSubagent(c, s) \/ FollowCause(c, s) PROVE TypeOK'
    <3>1. CASE Skip
      BY <2>5, <3>1, <2>d DEF SpawnSubagent, FollowCause
    <3>2. CASE Dispatch(s)
      <4>1. ControlOK'
        BY <3>2, <1>a, GoToControl DEF Dispatch, Labels
      <4>2. CountersOK'
        BY <2>5, <3>2, <2>a, <1>a DEF SpawnSubagent, FollowCause, Decided, Dispatch, CountersOK
      <4> QED BY <2>5, <3>2, <2>c, <1>a, <4>1, <4>2
             DEF SpawnSubagent, FollowCause, Dispatch, TypeOK, HypsOK, CountersOK
    <3> QED BY <2>5, <3>1, <3>2 DEF SpawnSubagent, FollowCause
  <2> QED BY <2>1, <2>2, <2>3, <2>4, <2>5
<1>5. CASE DecideTimeout
  <2>1. CountersOK'
    BY <1>5, <1>a DEF DecideTimeout, CountersOK
  <2>2. ControlOK'
    BY <1>5, <1>a, GoToControl DEF DecideTimeout, Labels
  <2> QED BY <1>5, <1>a, <2>1, <2>2 DEF DecideTimeout, TypeOK, HypsOK, CountersOK
<1>6. CASE NoFurtherMove \/ Throw
  <2>1. ControlOK'
    BY <1>6, <1>a, GiveUpControl, FinishControl DEF NoFurtherMove, Throw, Outcomes
  <2> QED BY <1>6, <1>a, <1>b, <2>1 DEF NoFurtherMove, Throw, TypeOK
<1>7. CASE Abort \/ WallClock
  <2>1. ControlOK'
    BY <1>7, <1>a DEF Abort, WallClock, ControlOK
  <2> QED BY <1>7, <1>a, <1>b, <2>1 DEF Abort, WallClock, TypeOK
<1>8. CASE UNCHANGED vars
  BY <1>8, <1>a DEF vars, TypeOK, ControlOK, HypsOK, CountersOK
<1> QED BY <1>1, <1>2, <1>3, <1>4, <1>5, <1>6, <1>7, <1>8 DEF Next, Step

\* The types hold in every reachable state.
THEOREM LoopTypeOK == Spec => []TypeOK
<1>1. Init => TypeOK
  <2>1. Init => HypsOK
    BY DEF Init, HypsOK
  <2>2. Init => CountersOK /\ ControlOK
    BY DEF Init, CountersOK, ControlOK, Labels
  <2>3. Init => /\ late \in BOOLEAN /\ aborted \in BOOLEAN /\ ruledOutSinceHealthCheck \in BOOLEAN
    BY DEF Init
  <2>4. Init => evidence \in SUBSET Kinds /\ followed \in SUBSET Services /\ sinceAbort \in Nat
    BY DEF Init
  <2> QED BY <2>1, <2>2, <2>3, <2>4 DEF TypeOK
<1> QED BY <1>1, TypeStep, PTL DEF Spec

-----------------------------------------------------------------------------
(* The safety harness.                                                     *)

\* A move leaves the ladder with every counted limit still short of one unit.
LEMMA DecideLimits ==
  ASSUME TypeOK, Limits, Decide PROVE Limits'
<1> USE LoopAssumption DEF TypeOK, CountersOK, Limits, Ladder, Cleared, Moving
<1> PICK c \in Costs :
      \/ \E claim \in Claims : Hypothesize(c, claim)
      \/ \E t \in Targets : Query(c, t)
      \/ \E t \in Targets, v \in Verdicts : Test(c, t, v)
      \/ \E t \in Targets : Conclude(c, t)
      \/ \E s \in Services : SpawnSubagent(c, s)
      \/ \E s \in Services : FollowCause(c, s)
  BY DEF Decide
<1>a. ASSUME Decided(c)
      PROVE  /\ moves' <= MaxMoves /\ tokensSpent' < MaxTokens + MaxMoveCost
             /\ operatorContinues' = operatorContinues
             /\ toolCalls < MaxToolCalls /\ strikes < MaxStrikes /\ stall < MaxStall
  BY <1>a DEF Decided, Costs
<1>b. ASSUME Decided(c), Skip PROVE Limits'
  BY <1>a, <1>b DEF Skip, GoTo
<1>1. ASSUME NEW claim \in Claims, Hypothesize(c, claim) PROVE Limits'
  BY <1>1, <1>a DEF Hypothesize, GoTo
<1>2. ASSUME NEW t \in Targets, Query(c, t) PROVE Limits'
  BY <1>2, <1>a, <1>b DEF Query, GoTo
<1>3. ASSUME NEW t \in Targets, NEW v \in Verdicts, Test(c, t, v) PROVE Limits'
  BY <1>3, <1>a, <1>b DEF Test, GoTo
<1>4. ASSUME NEW t \in Targets, Conclude(c, t) PROVE Limits'
  BY <1>4, <1>a, <1>b DEF Conclude, Concludable, Confirm, Finish
<1>5. ASSUME NEW s \in Services, SpawnSubagent(c, s) \/ FollowCause(c, s) PROVE Limits'
  BY <1>5, <1>a, <1>b DEF SpawnSubagent, FollowCause, Dispatch, CanDispatch, GoTo
<1> QED BY <1>1, <1>2, <1>3, <1>4, <1>5

LEMMA LimitsStep == TypeOK /\ Limits /\ [Next]_vars => Limits'
<1> SUFFICES ASSUME TypeOK, Limits, [Next]_vars PROVE Limits'
  OBVIOUS
<1> USE LoopAssumption DEF TypeOK, CountersOK, Limits, Ladder, Cleared, Moving
<1>1. CASE Top
  BY <1>1 DEF Top, Stopped, GiveUp, Finish, GoTo, SameData
<1>2. CASE Guards
  BY <1>2 DEF Guards, Stopped, Tripped, OutOfStrikes, Fruitless, AskOperator, GiveUp, Finish, GoTo
<1>3. CASE Reply
  BY <1>3 DEF Reply, Floor, OperatorReply, Recheck, HealthGate, Observe, GiveUp, Finish, GoTo, SameData
<1>4. CASE Decide
  BY <1>4, DecideLimits
<1>5. CASE DecideTimeout \/ NoFurtherMove \/ Throw
  BY <1>5 DEF DecideTimeout, NoFurtherMove, Throw, GiveUp, Finish, GoTo, SameData
<1>6. CASE Abort \/ WallClock
  BY <1>6 DEF Abort, WallClock, SameData
<1>7. CASE UNCHANGED vars
  BY <1>7 DEF vars
<1> QED BY <1>1, <1>2, <1>3, <1>4, <1>5, <1>6, <1>7 DEF Next, Step

\* DECISION 2: whatever the model asks for, the run stays within its limits.
THEOREM LoopSpending == Spec => []SpendingBounded
<1>1. Init => Limits
  BY LoopAssumption DEF Init, Limits, Ladder, Cleared, Moving
<1>2. Limits => SpendingBounded
  BY DEF Limits, SpendingBounded
<1> QED BY <1>1, <1>2, LimitsStep, LoopTypeOK, PTL DEF Spec

-----------------------------------------------------------------------------
(* The hybrid stop.                                                        *)

\* Only a conclude that passed the keystone and the text gates reaches the
\* health gate, and nothing changes what those gates read until it answers.
LEMMA GatesStep == TypeOK /\ Gates /\ [Next]_vars => Gates'
<1> SUFFICES ASSUME TypeOK, Gates, [Next]_vars PROVE Gates'
  OBVIOUS
<1> USE DEF Gates
<1>a. confirmed # 0 => pc = "done"
  OBVIOUS
<1>b. ASSUME pc # "done", pc' # "confirming", UNCHANGED confirmed \/ confirmed' = 0 PROVE Gates'
  BY <1>a, <1>b
<1>1. CASE Top
  BY <1>1, <1>b DEF Top, Stopped, GiveUp, Finish, GoTo
<1>2. CASE Guards
  BY <1>2, <1>b DEF Guards, Stopped, GiveUp, Finish, GoTo
<1>3. CASE Reply
  <2>1. ASSUME NEW failing \in BOOLEAN, Floor(failing) PROVE Gates'
    BY <2>1, <1>b DEF Floor, Finish
  <2>2. ASSUME NEW d \in {"continue", "escalate", "wait"}, OperatorReply(d) PROVE Gates'
    BY <2>2, <1>b DEF OperatorReply, GiveUp, Finish, GoTo
  <2>3. ASSUME NEW r \in Readings, Recheck(r) PROVE Gates'
    BY <2>3, <1>b DEF Recheck, Finish, GoTo
  <2>4. ASSUME NEW r \in Readings, HealthGate(r) PROVE Gates'
    <3>1. CASE r = "healthy"
      BY <2>4, <3>1, <1>b DEF HealthGate
    <3>2. CASE r # "healthy"
      BY <2>4, <3>2 DEF HealthGate, Finish, Grounded, Keystone, Unfollowed
    <3> QED BY <3>1, <3>2
  <2>5. ASSUME NEW obs \in SUBSET Kinds, Observe(obs) PROVE Gates'
    BY <2>5, <1>b DEF Observe, GoTo
  <2> QED BY <1>3, <2>1, <2>2, <2>3, <2>4, <2>5 DEF Reply
<1>4. CASE Decide
  <2> PICK c \in Costs :
        \/ \E claim \in Claims : Hypothesize(c, claim)
        \/ \E t \in Targets : Query(c, t)
        \/ \E t \in Targets, v \in Verdicts : Test(c, t, v)
        \/ \E t \in Targets : Conclude(c, t)
        \/ \E s \in Services : SpawnSubagent(c, s)
        \/ \E s \in Services : FollowCause(c, s)
    BY <1>4 DEF Decide
  <2>1. ASSUME NEW claim \in Claims, Hypothesize(c, claim) PROVE Gates'
    BY <2>1, <1>b DEF Hypothesize, Decided, GoTo
  <2>2. ASSUME NEW t \in Targets, Query(c, t) PROVE Gates'
    BY <2>2, <1>b DEF Query, Skip, Decided, GoTo
  <2>3. ASSUME NEW t \in Targets, NEW v \in Verdicts, Test(c, t, v) PROVE Gates'
    BY <2>3, <1>b DEF Test, Skip, Decided, GoTo
  <2>4. ASSUME NEW t \in Targets, Conclude(c, t) PROVE Gates'
    <3>1. CASE Skip
      BY <2>4, <3>1, <1>b DEF Conclude, Concludable, Confirm, Decided, Skip, GoTo
    <3>2. CASE ~Skip
      BY <2>4, <3>2, <1>a DEF Conclude, Concludable, Confirm, Decided, Finish, Grounded, Keystone, Unfollowed
    <3> QED BY <3>1, <3>2
  <2>5. ASSUME NEW s \in Services, SpawnSubagent(c, s) \/ FollowCause(c, s) PROVE Gates'
    BY <2>5, <1>b DEF SpawnSubagent, FollowCause, Dispatch, Skip, Decided, GoTo
  <2> QED BY <2>1, <2>2, <2>3, <2>4, <2>5
<1>5. CASE DecideTimeout \/ NoFurtherMove \/ Throw
  BY <1>5, <1>b DEF DecideTimeout, NoFurtherMove, Throw, GiveUp, Finish, GoTo
<1>6. CASE Abort \/ WallClock
  BY <1>6, <1>a DEF Abort, WallClock, SameData, Grounded, Keystone, Unfollowed
<1>7. CASE UNCHANGED vars
  BY <1>7 DEF vars, Grounded, Keystone, Unfollowed
<1> QED BY <1>1, <1>2, <1>3, <1>4, <1>5, <1>6, <1>7 DEF Next, Step

\* DECISION 1: a hypothesis a run confirms is satisfied and grounded.
THEOREM LoopConfirm == Spec => []ConfirmedIsGrounded
<1>1. Init => Gates
  BY DEF Init, Gates
<1>2. Gates => ConfirmedIsGrounded
  BY DEF Gates, ConfirmedIsGrounded
<1> QED BY <1>1, <1>2, GatesStep, LoopTypeOK, PTL DEF Spec

-----------------------------------------------------------------------------
(* Stop.                                                                   *)

LEMMA StopsStep == TypeOK /\ Stops /\ [Next]_vars => Stops'
<1> SUFFICES ASSUME TypeOK, Stops, [Next]_vars PROVE Stops'
  OBVIOUS
<1> USE DEF Stops, Ladder
<1>1. CASE Top
  BY <1>1 DEF Top, Stopped, GiveUp, Finish, GoTo, SameData
<1>2. CASE Guards
  BY <1>2 DEF Guards, Stopped, GiveUp, Finish, GoTo
<1>3. CASE Reply
  BY <1>3 DEF Reply, Floor, OperatorReply, Recheck, HealthGate, Observe, GiveUp, Finish, GoTo, SameData
<1>4. CASE Decide
  <2>1. PICK c \in Costs : Decided(c) /\ pc' \notin Ladder
    BY <1>4 DEF Decide, Hypothesize, Query, Test, Conclude, Concludable, Confirm, SpawnSubagent, FollowCause,
                Dispatch, Skip, GoTo, Finish
  <2> QED BY <2>1 DEF Decided
<1>5. CASE DecideTimeout \/ NoFurtherMove \/ Throw
  BY <1>5 DEF DecideTimeout, NoFurtherMove, Throw, GiveUp, Finish, GoTo, SameData
<1>6. CASE Abort \/ WallClock
  BY <1>6 DEF Abort, WallClock, SameData
<1>7. CASE UNCHANGED vars
  BY <1>7 DEF vars
<1> QED BY <1>1, <1>2, <1>3, <1>4, <1>5, <1>6, <1>7 DEF Next, Step

\* Stop: at most the move being decided when it arrives is still taken.
THEOREM LoopStop == Spec => []AbortEndsWithinOneMove
<1>1. Init => Stops
  BY DEF Init, Stops, Ladder
<1>2. Stops => AbortEndsWithinOneMove
  BY DEF Stops, AbortEndsWithinOneMove
<1> QED BY <1>1, <1>2, StopsStep, LoopTypeOK, PTL DEF Spec

-----------------------------------------------------------------------------
(* The run as a tab shows it: the log and the views.                       *)

Ends == {"complete", "error"}
Rows == {Event(t) : t \in {"started", "pause", "parked", "locked"} \cup Ends}
          \cup {StepEvent(n) : n \in 0..MaxSteps}

\* The run has ended by the first n rows of l.
Ended(l, n) == \E i \in 1..n : l[i].type \in Ends

\* How many steps the first n rows of l hold, as the reducer counts them.
Told(l, n) == Len(Rebuilt(l, n).steps)

\* A view that shows the first steps of the run and no others.
Whole(v) == v.lastSeq = Len(v.steps) - 1 /\ \A i \in 1..Len(v.steps) : v.steps[i] = i - 1

\* The log of one run.
Chronicle(l) ==
  /\ l \in Seq(Rows)
  /\ \A i \in 1..Len(l) : l[i].type = "started" <=> i = 1
  /\ \A i \in 1..Len(l) :
       IF l[i].type = "step"
       THEN l[i].seq = Told(l, i - 1) /\ Told(l, i) = Told(l, i - 1) + 1
       ELSE Told(l, i) = Told(l, i - 1)
  /\ \A n \in 0..Len(l) :
       /\ Rebuilt(l, n) \in View /\ Whole(Rebuilt(l, n)) /\ ~Rebuilt(l, n).hydrated
       /\ Rebuilt(l, n).shown <=> n > 0
       /\ Rebuilt(l, n).running <=> n > 0 /\ ~Ended(l, n)
  /\ \A m, n \in 0..Len(l) : m <= n => Told(l, m) <= Told(l, n)

-----------------------------------------------------------------------------
(* Folds.                                                                  *)

\* A set of natural numbers has a least element.
LEMMA Least ==
  ASSUME NEW T \in SUBSET Nat, T # {}
  PROVE  \E n \in T : \A m \in T : n <= m
  <1> DEFINE R == OpToRel(<, Nat)
  <1>1. IsWellFoundedOn(R, Nat)
    BY NatLessThanWellFounded, Zenon
  <1>2. \A x, y \in Nat : <<y, x>> \in R <=> y < x
    BY DEF OpToRel
  <1> HIDE DEF R
  <1>3. \E x \in T : \A y \in T : ~(<<y, x>> \in R)
    BY <1>1, WFMin
  <1>4. \E x \in T : \A y \in T : ~(y < x)
    BY <1>2, <1>3, Zenon
  <1> QED
    BY <1>4

\* What holds of 0 and of k whenever it holds of k - 1 holds up to n.
LEMMA UpTo ==
  ASSUME NEW n \in Nat, NEW S \in SUBSET (0..n), 0 \in S,
         \A k \in 1..n : k - 1 \in S => k \in S
  PROVE  S = 0..n
  <1> DEFINE T == (0..n) \ S
  <1> SUFFICES ASSUME T # {} PROVE FALSE
    OBVIOUS
  <1>1. T \in SUBSET Nat
    OBVIOUS
  <1> HIDE DEF T
  <1>2. PICK k \in T : \A m \in T : k <= m
    BY <1>1, Least
  <1>3. k \in 1..n /\ k - 1 \in 0..n /\ k - 1 \notin T
    BY <1>1, <1>2 DEF T
  <1> QED
    BY <1>3 DEF T

\* The values of a fold.
IsFold(f, next, v0, n) == f[0] = v0 /\ \A k \in 1..n : f[k] = next[<<f[k - 1], k>>]

LEMMA FoldExists ==
  ASSUME NEW V, NEW n \in Nat, NEW next \in [V \X (1..n) -> V], NEW v0 \in V
  PROVE  \E f \in [0..n -> V] : IsFold(f, next, v0, n)
  <1> DEFINE S == {m \in 0..n : \E f \in [0..m -> V] : IsFold(f, next, v0, m)}
  <1>1. 0 \in S
    <2> DEFINE f == [k \in 0..0 |-> v0]
    <2>1. f \in [0..0 -> V] /\ f[0] = v0
      OBVIOUS
    <2> HIDE DEF f
    <2>2. IsFold(f, next, v0, 0)
      BY <2>1 DEF IsFold
    <2> QED
      BY <2>1, <2>2
  <1>2. \A k \in 1..n : k - 1 \in S => k \in S
    <2> SUFFICES ASSUME NEW m \in 1..n, m - 1 \in S PROVE m \in S
      OBVIOUS
    <2>1. PICK f \in [0..(m - 1) -> V] : IsFold(f, next, v0, m - 1)
      OBVIOUS
    <2> DEFINE last == next[<<f[m - 1], m>>]
               g == [k \in 0..m |-> IF k = m THEN last ELSE f[k]]
    <2>2. last \in V
      <3>1. <<f[m - 1], m>> \in V \X (1..n)
        OBVIOUS
      <3> QED
        BY <3>1
    <2> HIDE DEF last
    <2>3. g \in [0..m -> V] /\ g[m] = last /\ \A k \in 0..(m - 1) : g[k] = f[k]
      BY <2>2
    <2> HIDE DEF g
    <2>4. g[0] = v0
      BY <2>1, <2>3 DEF IsFold
    <2>5. \A k \in 1..m : g[k] = next[<<g[k - 1], k>>]
      <3> SUFFICES ASSUME NEW k \in 1..m PROVE g[k] = next[<<g[k - 1], k>>]
        OBVIOUS
      <3>1. g[k - 1] = f[k - 1]
        BY <2>3
      <3>2. CASE k = m
        BY <2>3, <3>1, <3>2 DEF last
      <3>3. CASE k # m
        BY <2>1, <2>3, <3>1, <3>3 DEF IsFold
      <3> QED
        BY <3>2, <3>3
    <2>6. IsFold(g, next, v0, m)
      BY <2>4, <2>5 DEF IsFold
    <2> QED
      BY <2>3, <2>6
  <1> HIDE DEF S
  <1>3. S \in SUBSET (0..n)
    BY DEF S
  <1>4. n \in S
    BY <1>1, <1>2, <1>3, UpTo
  <1> QED
    BY <1>4 DEF S

-----------------------------------------------------------------------------
(* The reducer over the log.                                               *)

LEMMA RowTypes ==
  ASSUME NEW m \in Rows
  PROVE  /\ m.type \in {"started", "step", "pause", "parked", "locked", "complete", "error"}
         /\ m.type = "step" => m.seq \in 0..MaxSteps /\ m = StepEvent(m.seq)
         /\ m.type # "step" => m = Event(m.type)
  BY DEF Rows, Event, StepEvent, Ends

\* Fields of a view.
LEMMA ViewTypes ==
  ASSUME NEW v \in View
  PROVE  /\ v.shown \in BOOLEAN /\ v.running \in BOOLEAN /\ v.pause \in BOOLEAN
         /\ v.submitted \in BOOLEAN /\ v.parked \in BOOLEAN /\ v.hydrated \in BOOLEAN
         /\ v.lastSeq \in -1..MaxSteps /\ v.lastSeq \in Int
         /\ v.steps \in Seq(0..MaxSteps) /\ Len(v.steps) \in Nat /\ DOMAIN v.steps = 1..Len(v.steps)
         /\ \A i \in 1..Len(v.steps) : v.steps[i] \in 0..MaxSteps
  BY BrowserAssumption DEF View

LEMMA NoViewType ==
  /\ NoView \in View /\ FreshView \in View
  /\ ~NoView.shown /\ ~NoView.running /\ NoView.steps = <<>> /\ NoView.lastSeq = -1
  /\ ~NoView.pause /\ ~NoView.parked /\ ~NoView.hydrated
  /\ FreshView.shown /\ FreshView.running /\ FreshView.steps = <<>> /\ FreshView.lastSeq = -1
  /\ ~FreshView.pause /\ ~FreshView.parked /\ ~FreshView.hydrated
  <1>1. <<>> \in Seq(0..MaxSteps) /\ -1 \in -1..MaxSteps
    BY BrowserAssumption
  <1>2. NoView \in View
    BY <1>1 DEF View, NoView
  <1>3. /\ ~NoView.shown /\ ~NoView.running /\ NoView.steps = <<>> /\ NoView.lastSeq = -1
        /\ ~NoView.pause /\ ~NoView.parked /\ ~NoView.hydrated
    BY DEF NoView
  <1>4. FreshView \in View
    BY <1>2 DEF View, FreshView
  <1>5. /\ FreshView.shown /\ FreshView.running /\ FreshView.steps = NoView.steps
        /\ FreshView.lastSeq = NoView.lastSeq /\ FreshView.pause = NoView.pause
        /\ FreshView.parked = NoView.parked /\ FreshView.hydrated = NoView.hydrated
    BY <1>2 DEF View, FreshView
  <1> QED
    BY <1>2, <1>3, <1>4, <1>5

LEMMA AppliedTypes ==
  ASSUME NEW v \in View, NEW m \in Rows
  PROVE  Applied(v, m) \in View
  <1>1. CASE m.type = "started"
    BY <1>1, NoViewType DEF Applied
  <1>2. CASE m.type # "started" /\ ~v.shown
    BY <1>2 DEF Applied
  <1>3. CASE m.type = "step" /\ v.shown
    <2>1. m.seq \in 0..MaxSteps /\ m.seq \in -1..MaxSteps
      BY <1>3, RowTypes, BrowserAssumption
    <2>2. Append(v.steps, m.seq) \in Seq(0..MaxSteps)
      BY <2>1, ViewTypes, AppendProperties
    <2>3. Applied(v, m) = StepApplied(v, m.seq)
      BY <1>3 DEF Applied
    <2>4. [v EXCEPT !.steps = Append(@, m.seq), !.lastSeq = m.seq,
                    !.pause = FALSE, !.submitted = FALSE, !.parked = FALSE] \in View
      BY <2>1, <2>2 DEF View
    <2> QED
      BY <2>3, <2>4 DEF StepApplied
  <1>4. CASE m.type \in {"pause", "parked", "locked", "complete", "error"} /\ v.shown
    BY <1>4 DEF Applied, View
  <1> QED
    BY <1>1, <1>2, <1>3, <1>4, RowTypes

\* The views of the first rows of a log, one from the other.
LEMMA RebuiltSteps ==
  ASSUME NEW l \in Seq(Rows)
  PROVE  /\ Rebuilt(l, 0) = NoView
         /\ \A n \in 1..Len(l) : Rebuilt(l, n) = Applied(Rebuilt(l, n - 1), l[n])
         /\ \A n \in 0..Len(l) : Rebuilt(l, n) \in View
  <1> DEFINE N == Len(l)
             next == [x \in View \X (1..N) |-> Applied(x[1], l[x[2]])]
  <1>1. N \in Nat /\ \A k \in 1..N : l[k] \in Rows
    OBVIOUS
  <1>2. next \in [View \X (1..N) -> View]
    BY <1>1, AppliedTypes
  <1>3. \A v \in View, k \in 1..N : next[<<v, k>>] = Applied(v, l[k])
    OBVIOUS
  <1> HIDE DEF next
  <1>0. NoView \in View
    BY NoViewType
  <1> HIDE DEF N
  <1>4. PICK f \in [0..N -> View] : IsFold(f, next, NoView, N)
    BY <1>0, <1>1, <1>2, FoldExists
  <1>5. f[0] = NoView /\ \A k \in 1..N : f[k] = Applied(f[k - 1], l[k])
    <2>1. f[0] = NoView
      BY <1>4 DEF IsFold
    <2>2. ASSUME NEW k \in 1..N PROVE f[k] = Applied(f[k - 1], l[k])
      <3>1. f[k - 1] \in View
        BY <1>1
      <3>2. f[k] = next[<<f[k - 1], k>>]
        BY <1>4 DEF IsFold
      <3> QED
        BY <1>3, <3>1, <3>2
    <2> QED
      BY <2>1, <2>2
  <1>6. \A n \in 0..N : Rebuilt(l, n) = f[n]
    <2> SUFFICES ASSUME NEW n \in 0..N PROVE Rebuilt(l, n) = f[n]
      OBVIOUS
    <2> DEFINE Is(g) == g = [k \in 0..n |-> IF k = 0 THEN NoView ELSE Applied(g[k - 1], l[k])]
               u == CHOOSE g : Is(g)
               h == [k \in 0..n |-> f[k]]
    <2>1. Rebuilt(l, n) = u[n]
      BY DEF Rebuilt
    <2>2. Is(h)
      <3>1. \A k \in 0..n : h[k] = IF k = 0 THEN NoView ELSE Applied(h[k - 1], l[k])
        BY <1>1, <1>5
      <3> QED
        BY <3>1
    <2>3. Is(u)
      BY <2>2
    <2> DEFINE S == {k \in 0..n : u[k] = f[k]}
    <2>4. \A k \in 0..n : u[k] = IF k = 0 THEN NoView ELSE Applied(u[k - 1], l[k])
      BY <2>3
    <2> HIDE DEF u, h, Is
    <2>5. 0 \in S
      BY <1>5, <2>4
    <2>6. \A k \in 1..n : k - 1 \in S => k \in S
      BY <1>1, <1>5, <2>4
    <2> HIDE DEF S
    <2>7. S \in SUBSET (0..n) /\ n \in Nat
      BY <1>1 DEF S
    <2>8. S = 0..n
      BY <2>5, <2>6, <2>7, UpTo
    <2> QED
      BY <2>1, <2>7, <2>8 DEF S
  <1> QED
    BY <1>1, <1>5, <1>6 DEF N

\* One log continues another.
Extends(l, k) ==
  /\ l \in Seq(Rows) /\ k \in Seq(Rows) /\ Len(l) <= Len(k)
  /\ \A i \in 1..Len(l) : k[i] = l[i]

LEMMA RebuiltKept ==
  ASSUME NEW l, NEW k, Extends(l, k)
  PROVE  \A n \in 0..Len(l) : Rebuilt(k, n) = Rebuilt(l, n) /\ Told(k, n) = Told(l, n)
  <1> DEFINE S == {n \in 0..Len(l) : Rebuilt(k, n) = Rebuilt(l, n)}
  <1>1. l \in Seq(Rows) /\ k \in Seq(Rows) /\ Len(l) \in Nat /\ Len(k) \in Nat /\ Len(l) <= Len(k)
        /\ \A i \in 1..Len(l) : k[i] = l[i]
    BY DEF Extends
  <1>2. 0 \in S
    BY <1>1, RebuiltSteps
  <1>3. \A n \in 1..Len(l) : n - 1 \in S => n \in S
    <2> SUFFICES ASSUME NEW n \in 1..Len(l), n - 1 \in S PROVE n \in S
      OBVIOUS
    <2>1. n \in 1..Len(k) /\ k[n] = l[n] /\ Rebuilt(k, n - 1) = Rebuilt(l, n - 1)
      BY <1>1
    <2>2. Rebuilt(k, n) = Applied(Rebuilt(k, n - 1), k[n])
      BY <1>1, <2>1, RebuiltSteps
    <2>3. Rebuilt(l, n) = Applied(Rebuilt(l, n - 1), l[n])
      BY <1>1, RebuiltSteps
    <2> QED
      BY <2>1, <2>2, <2>3
  <1> HIDE DEF S
  <1>4. S \in SUBSET (0..Len(l))
    BY DEF S
  <1>5. S = 0..Len(l)
    BY <1>1, <1>2, <1>3, <1>4, UpTo
  <1> QED
    BY <1>5 DEF S, Told

\* What a row does to the view.
LEMMA AppliedIs ==
  ASSUME NEW v \in View, NEW m \in Rows
  PROVE  LET w == Applied(v, m) IN
         /\ m.type = "started" => w = FreshView
         /\ m.type # "started" /\ ~v.shown => w = v
         /\ m.type # "started" /\ v.shown =>
              /\ w.shown /\ w.hydrated = v.hydrated
              /\ w.running = (v.running /\ m.type \notin Ends)
              /\ m.type # "parked" /\ ~v.parked => ~w.parked
              /\ m.type # "step" \/ m.seq <= v.lastSeq => w.steps = v.steps /\ w.lastSeq = v.lastSeq
              /\ m.type = "step" /\ v.lastSeq < m.seq =>
                   w.steps = Append(v.steps, m.seq) /\ w.lastSeq = m.seq
  <1> DEFINE w == Applied(v, m)
  <1>1. m.type = "started" => w = FreshView
    BY DEF Applied
  <1>2. m.type # "started" /\ ~v.shown => w = v
    BY DEF Applied
  <1>3. ASSUME v.shown, m.type = "step"
        PROVE  /\ w.shown /\ w.hydrated = v.hydrated /\ w.running = v.running
               /\ ~v.parked => ~w.parked
               /\ m.seq <= v.lastSeq => w.steps = v.steps /\ w.lastSeq = v.lastSeq
               /\ v.lastSeq < m.seq => w.steps = Append(v.steps, m.seq) /\ w.lastSeq = m.seq
    <2>1. w = StepApplied(v, m.seq)
      BY <1>3 DEF Applied
    <2>2. m.seq \in Int /\ v.lastSeq \in Int
      BY <1>3, RowTypes, ViewTypes, BrowserAssumption
    <2>3. CASE m.seq <= v.lastSeq
      BY <1>3, <2>1, <2>2, <2>3 DEF StepApplied
    <2>4. CASE ~(m.seq <= v.lastSeq)
      <3>1. w = [v EXCEPT !.steps = Append(@, m.seq), !.lastSeq = m.seq,
                          !.pause = FALSE, !.submitted = FALSE, !.parked = FALSE]
        BY <2>1, <2>4 DEF StepApplied
      <3>2. /\ w.shown = v.shown /\ w.hydrated = v.hydrated /\ w.running = v.running /\ ~w.parked
            /\ w.steps = Append(v.steps, m.seq) /\ w.lastSeq = m.seq
        BY <3>1 DEF View
      <3> QED
        BY <1>3, <2>2, <2>4, <3>2
    <2> QED
      BY <2>3, <2>4
  <1>4. ASSUME v.shown, m.type \in {"pause", "parked", "locked", "complete", "error"}
        PROVE  /\ w.shown /\ w.hydrated = v.hydrated /\ w.steps = v.steps /\ w.lastSeq = v.lastSeq
               /\ m.type \in Ends => ~w.running
               /\ m.type \notin Ends => w.running = v.running
               /\ m.type # "parked" => w.parked = v.parked
    <2>1. CASE m.type = "pause"
      <3>1. w = [v EXCEPT !.pause = TRUE, !.submitted = FALSE]
        BY <1>4, <2>1 DEF Applied
      <3> QED
        BY <1>4, <2>1, <3>1 DEF View, Ends
    <2>2. CASE m.type = "parked"
      <3>1. w = [v EXCEPT !.parked = TRUE]
        BY <1>4, <2>2 DEF Applied
      <3> QED
        BY <1>4, <2>2, <3>1 DEF View, Ends
    <2>3. CASE m.type = "locked"
      <3>1. w = [v EXCEPT !.submitted = TRUE]
        BY <1>4, <2>3 DEF Applied
      <3> QED
        BY <1>4, <2>3, <3>1 DEF View, Ends
    <2>4. CASE m.type = "complete"
      <3>1. w = [v EXCEPT !.running = FALSE, !.pause = FALSE, !.submitted = FALSE]
        BY <1>4, <2>4 DEF Applied
      <3> QED
        BY <1>4, <2>4, <3>1 DEF View, Ends
    <2>5. CASE m.type = "error"
      <3>1. w = [v EXCEPT !.running = FALSE, !.pause = FALSE]
        BY <1>4, <2>5 DEF Applied
      <3> QED
        BY <1>4, <2>5, <3>1 DEF View, Ends
    <2> QED
      BY <1>4, <2>1, <2>2, <2>3, <2>4, <2>5
  <1> HIDE DEF w
  <1>5. m.type \in {"started", "step", "pause", "parked", "locked", "complete", "error"}
        /\ w \in View /\ (m.type = "step" => m.seq \in Int) /\ v.lastSeq \in Int
        /\ w.running \in BOOLEAN /\ v.running \in BOOLEAN
    BY RowTypes, AppliedTypes, ViewTypes, BrowserAssumption DEF w
  <1>6. ASSUME m.type # "started", v.shown
        PROVE  /\ w.shown /\ w.hydrated = v.hydrated
               /\ w.running = (v.running /\ m.type \notin Ends)
               /\ m.type # "parked" /\ ~v.parked => ~w.parked
               /\ m.type # "step" \/ m.seq <= v.lastSeq => w.steps = v.steps /\ w.lastSeq = v.lastSeq
               /\ m.type = "step" /\ v.lastSeq < m.seq =>
                    w.steps = Append(v.steps, m.seq) /\ w.lastSeq = m.seq
    <2>1. CASE m.type = "step"
      BY <1>3, <1>5, <1>6, <2>1 DEF Ends
    <2>2. CASE m.type # "step"
      BY <1>4, <1>5, <1>6, <2>2
    <2> QED
      BY <2>1, <2>2
  <1> QED
    BY <1>1, <1>2, <1>6 DEF w

-----------------------------------------------------------------------------
(* The log of one run.                                                     *)

LEMMA ChronicleFacts ==
  ASSUME NEW l, Chronicle(l)
  PROVE  /\ l \in Seq(Rows) /\ Len(l) \in Nat /\ DOMAIN l = 1..Len(l)
         /\ \A i \in 1..Len(l) : l[i] \in Rows
         /\ \A n \in 0..Len(l) : Told(l, n) \in Nat
         /\ Extends(l, l)
  <1>1. l \in Seq(Rows) /\ Len(l) \in Nat /\ DOMAIN l = 1..Len(l)
        /\ \A i \in 1..Len(l) : l[i] \in Rows
    BY DEF Chronicle
  <1>2. \A n \in 0..Len(l) : Told(l, n) \in Nat
    BY ViewTypes DEF Chronicle, Told
  <1> QED
    BY <1>1, <1>2 DEF Extends

LEMMA EmptyChronicle == Chronicle(<<>>) /\ Told(<<>>, 0) = 0
  <1>1. <<>> \in Seq(Rows) /\ Len(<<>>) = 0
    OBVIOUS
  <1>2. Rebuilt(<<>>, 0) = NoView
    BY <1>1, RebuiltSteps
  <1>3. Told(<<>>, 0) = 0
    BY <1>2, NoViewType DEF Told
  <1>4. Whole(NoView)
    BY NoViewType DEF Whole
  <1> QED
    BY <1>1, <1>2, <1>3, <1>4, NoViewType DEF Chronicle

\* A run persists one more row.
LEMMA ChronicleGrows ==
  ASSUME NEW l, Chronicle(l), NEW e \in Rows, e.type = "started" <=> l = <<>>,
         e.type = "step" => e.seq = Told(l, Len(l))
  PROVE  LET k == Append(l, e) IN
         /\ Chronicle(k) /\ Extends(l, k) /\ Len(k) = Len(l) + 1 /\ k[Len(k)] = e
         /\ Told(k, Len(k)) = Told(l, Len(l)) + (IF e.type = "step" THEN 1 ELSE 0)
  <1> DEFINE N == Len(l)
             k == Append(l, e)
             r == Rebuilt(l, N)
             w == Applied(r, e)
  <1>1. l \in Seq(Rows) /\ N \in Nat /\ DOMAIN l = 1..N /\ \A n \in 0..N : Told(l, n) \in Nat
    BY ChronicleFacts
  <1>2. k \in Seq(Rows) /\ Len(k) = N + 1 /\ k[N + 1] = e /\ \A i \in 1..N : k[i] = l[i]
    BY <1>1, AppendProperties
  <1> HIDE DEF k
  <1>3. Extends(l, k)
    BY <1>1, <1>2 DEF Extends
  <1>4. \A n \in 0..N : Rebuilt(k, n) = Rebuilt(l, n) /\ Told(k, n) = Told(l, n)
    BY <1>3, RebuiltKept
  <1>5. Rebuilt(k, N + 1) = w
    <2>1. Rebuilt(k, N + 1) = Applied(Rebuilt(k, N + 1 - 1), k[N + 1])
      BY <1>1, <1>2, RebuiltSteps
    <2> QED
      BY <1>1, <1>2, <1>4, <2>1
  <1>6. /\ r \in View /\ Whole(r) /\ ~r.hydrated /\ (r.shown <=> N > 0)
        /\ (r.running <=> N > 0 /\ ~Ended(l, N)) /\ Len(r.steps) = Told(l, N)
    BY <1>1 DEF Chronicle, Told
  <1>7. w \in View
    BY <1>6, AppliedTypes
  <1>8. e.type = "started" => N = 0
    BY <1>1
  <1>9. e.type # "started" => N > 0
    BY <1>1, EmptySeq
  <1>10. Ended(k, N + 1) <=> Ended(l, N) \/ e.type \in Ends
    BY <1>1, <1>2 DEF Ended
  <1>11. \A n \in 0..N : Ended(k, n) <=> Ended(l, n)
    BY <1>1, <1>2 DEF Ended
  <1>12. /\ w.shown /\ ~w.hydrated /\ (w.running <=> ~Ended(k, N + 1)) /\ Whole(w)
         /\ Len(w.steps) = Told(l, N) + (IF e.type = "step" THEN 1 ELSE 0)
    <2>1. CASE e.type = "started"
      <3>1. w = FreshView /\ N = 0
        BY <1>6, <1>8, <2>1, AppliedIs
      <3>2. Told(l, 0) = 0
        BY <1>1, RebuiltSteps, NoViewType DEF Told
      <3>3. ~Ended(k, N + 1)
        BY <1>10, <2>1, <3>1 DEF Ended, Ends
      <3> QED
        BY <2>1, <3>1, <3>2, <3>3, NoViewType DEF Whole
    <2>2. CASE e.type # "started"
      <3>1. N > 0 /\ r.shown
        BY <1>6, <1>9, <2>2
      <3>2. /\ w.shown /\ ~w.hydrated /\ w.running = (r.running /\ e.type \notin Ends)
            /\ e.type # "step" => w.steps = r.steps /\ w.lastSeq = r.lastSeq
            /\ e.type = "step" /\ r.lastSeq < e.seq => w.steps = Append(r.steps, e.seq) /\ w.lastSeq = e.seq
        BY <1>6, <2>2, <3>1, AppliedIs
      <3>3. w.running <=> ~Ended(k, N + 1)
        BY <1>6, <1>10, <3>1, <3>2
      <3>4. CASE e.type # "step"
        BY <1>6, <3>2, <3>3, <3>4 DEF Whole
      <3>5. CASE e.type = "step"
        <4>1. e.seq = Len(r.steps) /\ r.lastSeq = Len(r.steps) - 1 /\ Len(r.steps) \in Nat
              /\ r.steps \in Seq(0..MaxSteps) /\ e.seq \in 0..MaxSteps
          BY <1>6, <3>5, RowTypes, ViewTypes DEF Whole
        <4>2. w.steps = Append(r.steps, e.seq) /\ w.lastSeq = e.seq
          BY <3>2, <3>5, <4>1
        <4>3. Len(w.steps) = Len(r.steps) + 1 /\ w.steps[Len(r.steps) + 1] = e.seq
              /\ \A i \in 1..Len(r.steps) : w.steps[i] = r.steps[i]
          BY <4>1, <4>2, AppendProperties
        <4>4. Whole(w)
          BY <1>6, <4>1, <4>2, <4>3 DEF Whole
        <4> QED
          BY <1>6, <3>2, <3>3, <3>5, <4>3, <4>4
      <3> QED
        BY <3>4, <3>5
    <2> QED
      BY <2>1, <2>2
  <1> HIDE DEF w, r
  <1>13. Told(k, N + 1) = Told(l, N) + (IF e.type = "step" THEN 1 ELSE 0)
    BY <1>5, <1>12 DEF Told
  <1>14. \A i \in 1..(N + 1) : k[i].type = "started" <=> i = 1
    <2>1. \A i \in 1..N : k[i].type = "started" <=> i = 1
      BY <1>2 DEF Chronicle
    <2> QED
      BY <1>1, <1>2, <1>8, <1>9, <2>1
  <1>15. \A i \in 1..(N + 1) :
           IF k[i].type = "step"
           THEN k[i].seq = Told(k, i - 1) /\ Told(k, i) = Told(k, i - 1) + 1
           ELSE Told(k, i) = Told(k, i - 1)
    <2> SUFFICES ASSUME NEW i \in 1..(N + 1)
                 PROVE  IF k[i].type = "step"
                        THEN k[i].seq = Told(k, i - 1) /\ Told(k, i) = Told(k, i - 1) + 1
                        ELSE Told(k, i) = Told(k, i - 1)
      OBVIOUS
    <2>1. CASE i = N + 1
      BY <1>1, <1>2, <1>4, <1>13, <2>1
    <2>2. CASE i # N + 1
      <3>1. i \in 1..N /\ i - 1 \in 0..N /\ i \in 0..N
        BY <1>1, <2>2
      <3> QED
        BY <1>2, <1>4, <3>1 DEF Chronicle
    <2> QED
      BY <2>1, <2>2
  <1>16. \A n \in 0..(N + 1) :
           /\ Rebuilt(k, n) \in View /\ Whole(Rebuilt(k, n)) /\ ~Rebuilt(k, n).hydrated
           /\ Rebuilt(k, n).shown <=> n > 0
           /\ Rebuilt(k, n).running <=> n > 0 /\ ~Ended(k, n)
    <2> SUFFICES ASSUME NEW n \in 0..(N + 1)
                 PROVE  /\ Rebuilt(k, n) \in View /\ Whole(Rebuilt(k, n)) /\ ~Rebuilt(k, n).hydrated
                        /\ Rebuilt(k, n).shown <=> n > 0
                        /\ Rebuilt(k, n).running <=> n > 0 /\ ~Ended(k, n)
      OBVIOUS
    <2>1. CASE n = N + 1
      BY <1>1, <1>5, <1>7, <1>12, <2>1
    <2>2. CASE n # N + 1
      <3>1. n \in 0..N
        BY <1>1, <2>2
      <3> QED
        BY <1>4, <1>11, <3>1 DEF Chronicle
    <2> QED
      BY <2>1, <2>2
  <1>17. \A m, n \in 0..(N + 1) : m <= n => Told(k, m) <= Told(k, n)
    <2>1. \A m, n \in 0..N : m <= n => Told(k, m) <= Told(k, n)
      BY <1>4 DEF Chronicle
    <2>2. \A m \in 0..N : Told(k, m) <= Told(k, N + 1)
      <3> SUFFICES ASSUME NEW m \in 0..N PROVE Told(k, m) <= Told(k, N + 1)
        OBVIOUS
      <3>1. Told(l, m) <= Told(l, N) /\ Told(l, m) \in Nat /\ Told(l, N) \in Nat
        BY <1>1 DEF Chronicle
      <3> QED
        BY <1>1, <1>4, <1>13, <3>1
    <2>3. Told(k, N + 1) \in Nat
      BY <1>1, <1>13
    <2> QED
      BY <1>1, <2>1, <2>2, <2>3
  <1>18. Chronicle(k)
    BY <1>2, <1>14, <1>15, <1>16, <1>17 DEF Chronicle
  <1> QED
    BY <1>2, <1>3, <1>13, <1>18 DEF k

-----------------------------------------------------------------------------
(* What is on its way to a view, over the log l.                           *)

\* A message that is about the log and not in it.
Note(m) == m.type \in {"replay", "not_live"}

\* What may be queued: a replay was sent while the run was live, and no run parks while
\* the tab is attached.
Mail(m, l) ==
  \/ m = NotLive
  \/ m.type # "parked" /\ \E i \in 1..Len(l) : m = l[i]
  \/ \E n \in 0..Len(l) : m = Replay(n) /\ ~Ended(l, n)

\* A replay knows the steps that were sent before it.
InOrder(q, l) ==
  \A i, j \in 1..Len(q) :
    i < j /\ q[i].type = "step" /\ q[j].type = "replay" => q[i].seq < Told(l, q[j].seq)

\* A replay that is behind the view finds it without a gap.
NoGapAhead(v, q, from, l) ==
  \A j \in (from + 1)..Len(q) :
    q[j].type = "replay" => v.lastSeq < Told(l, q[j].seq) \/ Whole(v)

\* What is true of every view: its steps are some of the run's, in their order.
Viewed(v, l) ==
  /\ v \in View
  /\ v.shown => l # <<>>
  /\ ~v.shown => v.steps = <<>> /\ v.lastSeq = -1 /\ ~v.pause
  /\ \A i \in 1..Len(v.steps) : i - 1 <= v.steps[i] /\ v.steps[i] <= v.lastSeq
  /\ \A i, j \in 1..Len(v.steps) : i <= j => v.steps[i] + (j - i) <= v.steps[j]
  /\ v.lastSeq < Told(l, Len(l))
  /\ v.shown /\ ~v.running => Ended(l, Len(l))

\* The view has the first n rows, and nothing that is wrong.
Current(v, n, l) ==
  n > 0 => /\ v.shown /\ ~v.hydrated /\ ~v.parked
           /\ Whole(v) /\ Told(l, n) <= Len(v.steps)
           /\ v.running => ~Ended(l, n)

\* p[j] rows have been told when the queue is read up to j, and what comes after from
\* tells the rest.
Follows(p, q, from, l) ==
  /\ p[Len(q)] = Len(l)
  /\ \A j \in from..Len(q) : p[j] \in 0..Len(l)
  /\ \A j \in (from + 1)..Len(q) :
       IF Note(q[j]) THEN p[j] = p[j - 1] ELSE p[j] = p[j - 1] + 1 /\ q[j] = l[p[j]]

\* The tab can catch up: from its view as it is, or from the last replay in the queue.
Traced(v, q, from, p, l) ==
  /\ Follows(p, q, from, l)
  /\ IF from = 0 THEN Current(v, p[0], l) ELSE q[from].type = "replay" /\ p[from] = q[from].seq
  /\ \A j \in (from + 1)..Len(q) : q[j].type # "replay"

LEMMA MailTypes ==
  ASSUME NEW l, Chronicle(l), NEW m, Mail(m, l)
  PROVE  \/ m = NotLive /\ m.type = "not_live" /\ Note(m)
         \/ /\ m \in Rows /\ m.type # "parked" /\ ~Note(m) /\ \E i \in 1..Len(l) : m = l[i]
            /\ m.type \in {"started", "step", "pause", "locked", "complete", "error"}
         \/ /\ m.type = "replay" /\ Note(m) /\ m.seq \in 0..Len(l) /\ m = Replay(m.seq)
            /\ ~Ended(l, m.seq)
  <1>1. CASE m = NotLive
    BY <1>1 DEF NotLive, Event, Note
  <1>2. CASE m.type # "parked" /\ \E i \in 1..Len(l) : m = l[i]
    <2>1. m \in Rows
      BY <1>2, ChronicleFacts
    <2> QED
      BY <1>2, <2>1, RowTypes DEF Note
  <1>3. CASE \E n \in 0..Len(l) : m = Replay(n) /\ ~Ended(l, n)
    BY <1>3 DEF Replay, Note
  <1> QED
    BY <1>1, <1>2, <1>3 DEF Mail

\* Nothing of this is lost when the log grows.
LEMMA EndedKept ==
  ASSUME NEW l, NEW k, Extends(l, k)
  PROVE  /\ \A n \in 0..Len(l) : Ended(k, n) <=> Ended(l, n)
         /\ Ended(l, Len(l)) => Ended(k, Len(k))
  BY DEF Extends, Ended

LEMMA MailKept ==
  ASSUME NEW l, NEW k, Extends(l, k), NEW m, Mail(m, l)
  PROVE  Mail(m, k)
  <1>1. /\ Len(l) \in Nat /\ Len(k) \in Nat /\ Len(l) <= Len(k)
        /\ \A i \in 1..Len(l) : k[i] = l[i]
    BY DEF Extends
  <1> QED
    BY <1>1, EndedKept DEF Mail

LEMMA ToldKept ==
  ASSUME NEW l, NEW k, Chronicle(l), Chronicle(k), Extends(l, k)
  PROVE  /\ \A n \in 0..Len(l) : Told(k, n) = Told(l, n) /\ Told(k, n) \in Nat
         /\ Told(l, Len(l)) <= Told(k, Len(k))
         /\ Told(l, Len(l)) \in Nat /\ Told(k, Len(k)) \in Nat
  <1>1. Len(l) \in Nat /\ Len(k) \in Nat /\ Len(l) <= Len(k)
    BY DEF Extends
  <1>2. \A n \in 0..Len(l) : Told(k, n) = Told(l, n)
    BY RebuiltKept
  <1>3. Told(k, Len(l)) <= Told(k, Len(k))
    BY <1>1 DEF Chronicle
  <1>4. \A n \in 0..Len(k) : Told(k, n) \in Nat
    BY ChronicleFacts
  <1> QED
    BY <1>1, <1>2, <1>3, <1>4

LEMMA ViewedKept ==
  ASSUME NEW l, NEW k, Chronicle(l), Chronicle(k), Extends(l, k), NEW v, Viewed(v, l)
  PROVE  Viewed(v, k)
  <1>1. v.lastSeq \in Int
    BY ViewTypes DEF Viewed
  <1>2. l # <<>> => k # <<>>
    BY DEF Extends
  <1> QED
    BY <1>1, <1>2, ToldKept, EndedKept DEF Viewed

LEMMA OrderKept ==
  ASSUME NEW l, NEW k, Chronicle(l), Chronicle(k), Extends(l, k), NEW q, NEW v,
         \A j \in 1..Len(q) : Mail(q[j], l)
  PROVE  /\ InOrder(q, l) => InOrder(q, k)
         /\ NoGapAhead(v, q, 0, l) => NoGapAhead(v, q, 0, k)
  <1>1. \A j \in 1..Len(q) : q[j].type = "replay" => Told(k, q[j].seq) = Told(l, q[j].seq)
    <2> SUFFICES ASSUME NEW j \in 1..Len(q), q[j].type = "replay"
                 PROVE  Told(k, q[j].seq) = Told(l, q[j].seq)
      OBVIOUS
    <2>1. q[j].seq \in 0..Len(l)
      BY MailTypes, RowTypes
    <2> QED
      BY <2>1, RebuiltKept
  <1>2. InOrder(q, l) => InOrder(q, k)
    BY <1>1 DEF InOrder
  <1>3. NoGapAhead(v, q, 0, l) => NoGapAhead(v, q, 0, k)
    BY <1>1 DEF NoGapAhead
  <1> QED
    BY <1>2, <1>3

LEMMA CurrentKept ==
  ASSUME NEW l, NEW k, Chronicle(l), Chronicle(k), Extends(l, k), NEW v, NEW n \in 0..Len(l),
         Current(v, n, l)
  PROVE  Current(v, n, k)
  BY ToldKept, EndedKept DEF Current

-----------------------------------------------------------------------------
(* One message after the other.                                            *)

\* The view a replay leaves.
LEMMA ReplayedIs ==
  ASSUME Chronicle(log), NEW n \in 0..Len(log), NEW v \in View
  PROVE  LET r == Rebuilt(log, n)  w == Reduced(v, Replay(n)) IN
         /\ w \in View
         /\ n = 0 => w = v
         /\ n > 0 => /\ ~w.hydrated /\ ~w.parked
                     /\ IF Ahead(v, r)
                        THEN w.steps = v.steps /\ w.lastSeq = v.lastSeq /\ w.shown = v.shown
                             /\ w.running = v.running
                        ELSE w.steps = r.steps /\ w.lastSeq = r.lastSeq /\ w.shown = r.shown
                             /\ w.running = r.running
  <1> DEFINE r == Rebuilt(log, n)
             w == Reduced(v, Replay(n))
             b == IF Ahead(v, r) THEN v ELSE r
  <1>1. r \in View /\ (r.shown <=> n > 0)
    BY DEF Chronicle
  <1>2. w = IF ~r.shown THEN v ELSE [b EXCEPT !.hydrated = FALSE, !.parked = FALSE]
    BY DEF Reduced, Replay, Replayed, Reconstructed
  <1>3. b \in View
    BY <1>1
  <1>4. CASE n = 0
    BY <1>1, <1>2, <1>4
  <1>5. CASE n > 0
    <2> HIDE DEF b, r
    <2>1. w = [b EXCEPT !.hydrated = FALSE, !.parked = FALSE]
      BY <1>1, <1>2, <1>5
    <2>2. /\ w \in View /\ ~w.hydrated /\ ~w.parked
          /\ w.steps = b.steps /\ w.lastSeq = b.lastSeq /\ w.shown = b.shown
          /\ w.running = b.running
      BY <1>3, <2>1 DEF View
    <2> HIDE DEF w
    <2>3. CASE Ahead(v, r)
      BY <1>5, <2>2, <2>3 DEF b, r, w
    <2>4. CASE ~Ahead(v, r)
      BY <1>5, <2>2, <2>4 DEF b, r, w
    <2> QED
      BY <2>3, <2>4
  <1> QED
    BY <1>4, <1>5

LEMMA NotLiveIs ==
  ASSUME NEW v \in View
  PROVE  LET w == Reduced(v, NotLive) IN
         /\ w \in View /\ ~w.parked
         /\ w.steps = v.steps /\ w.lastSeq = v.lastSeq /\ w.shown = v.shown
         /\ w.running = v.running /\ w.hydrated = v.hydrated /\ w.pause = v.pause
  <1>1. Reduced(v, NotLive) = [v EXCEPT !.parked = FALSE]
    BY DEF Reduced, NotLive, Event
  <1> QED
    BY <1>1 DEF View

LEMMA RowIs ==
  ASSUME NEW v, NEW m, m.type \notin {"replay", "not_live"}
  PROVE  Reduced(v, m) = Applied(v, m)
  BY DEF Reduced

\* Steps that are some of the run's and reach as far as the first n of them, but no
\* further, are the first n.
LEMMA NoGap ==
  ASSUME NEW l, NEW v, Viewed(v, l), NEW n \in Nat, v.lastSeq = n - 1, n <= Len(v.steps)
  PROVE  Whole(v) /\ Len(v.steps) = n
  <1> DEFINE L == Len(v.steps)
  <1>1. L \in Nat /\ \A i \in 1..L : v.steps[i] \in Int
    BY ViewTypes DEF Viewed
  <1>2. \A i \in 1..L : i - 1 <= v.steps[i] /\ v.steps[i] + (L - i) <= v.steps[L]
                        /\ v.steps[L] <= n - 1
    <2> SUFFICES ASSUME NEW i \in 1..L
                 PROVE  /\ i - 1 <= v.steps[i] /\ v.steps[i] + (L - i) <= v.steps[L]
                        /\ v.steps[L] <= n - 1
      OBVIOUS
    <2>1. L \in 1..L /\ i <= L
      BY <1>1
    <2>2. i - 1 <= v.steps[i]
      BY DEF Viewed
    <2>3. v.steps[L] <= v.lastSeq
      BY <2>1 DEF Viewed
    <2>4. v.steps[i] + (L - i) <= v.steps[L]
      BY <2>1 DEF Viewed
    <2> QED
      BY <2>2, <2>3, <2>4
  <1> HIDE DEF L
  <1>3. L > 0 => L - 1 <= n - 1
    <2> SUFFICES ASSUME L > 0 PROVE L - 1 <= n - 1
      OBVIOUS
    <2>1. L \in 1..L
      BY <1>1
    <2>2. L - 1 <= v.steps[L] /\ v.steps[L] <= n - 1 /\ v.steps[L] \in Int
      BY <1>1, <1>2, <2>1
    <2> QED
      BY <1>1, <2>2
  <1>4. L = n
    BY <1>1, <1>3 DEF L
  <1>5. \A i \in 1..L : v.steps[i] = i - 1
    <2> SUFFICES ASSUME NEW i \in 1..L PROVE v.steps[i] = i - 1
      OBVIOUS
    <2>1. L \in 1..L /\ v.steps[i] \in Int /\ v.steps[L] \in Int
      BY <1>1
    <2>2. i - 1 <= v.steps[i] /\ v.steps[i] + (L - i) <= v.steps[L] /\ v.steps[L] <= n - 1
      BY <1>2
    <2> QED
      BY <1>1, <1>4, <2>1, <2>2
  <1> QED
    BY <1>4, <1>5 DEF Whole, L

\* A step that comes after those the view has seen.
LEMMA ViewGrows ==
  ASSUME Chronicle(log), NEW v, Viewed(v, log), v.shown, NEW w \in View, NEW s \in 0..MaxSteps,
         v.lastSeq < s, s < Told(log, Len(log)), w.shown, w.running = v.running,
         w.steps = Append(v.steps, s), w.lastSeq = s
  PROVE  Viewed(w, log) /\ ToSet(v.steps) \subseteq ToSet(w.steps)
  <1> DEFINE L == Len(v.steps)
  <1>1. /\ L \in Nat /\ s \in Int /\ v.lastSeq \in Int /\ DOMAIN v.steps = 1..L
        /\ v.steps \in Seq(0..MaxSteps) /\ \A i \in 1..L : v.steps[i] \in Int
    <2>1. v \in View /\ MaxSteps \in Nat
      BY BrowserAssumption DEF Viewed
    <2>2. /\ L \in Nat /\ v.lastSeq \in Int /\ DOMAIN v.steps = 1..L /\ v.steps \in Seq(0..MaxSteps)
          /\ \A i \in 1..L : v.steps[i] \in 0..MaxSteps
      BY <2>1, ViewTypes
    <2> QED
      BY <2>1, <2>2
  <1>2. Len(w.steps) = L + 1 /\ w.steps[L + 1] = s /\ \A i \in 1..L : w.steps[i] = v.steps[i]
        /\ DOMAIN w.steps = 1..(L + 1)
    BY <1>1, AppendProperties
  <1>3. \A i \in 1..L : i - 1 <= v.steps[i] /\ v.steps[i] <= v.lastSeq
    BY DEF Viewed
  <1>4. \A i, j \in 1..L : i <= j => v.steps[i] + (j - i) <= v.steps[j]
    BY DEF Viewed
  <1> HIDE DEF L
  <1>5. \A i \in 1..L : v.steps[i] + (L - i) <= v.lastSeq
    <2> SUFFICES ASSUME NEW i \in 1..L PROVE v.steps[i] + (L - i) <= v.lastSeq
      OBVIOUS
    <2>1. L \in 1..L /\ i <= L
      BY <1>1
    <2>2. v.steps[i] + (L - i) <= v.steps[L]
      BY <1>4, <2>1
    <2>3. v.steps[L] <= v.lastSeq
      BY <1>3, <2>1
    <2>4. v.steps[i] \in Int /\ v.steps[L] \in Int /\ v.lastSeq \in Int /\ i \in Int /\ L \in Int
      BY <1>1, <2>1
    <2> HIDE DEF L
    <2> QED
      BY <2>2, <2>3, <2>4
  <1>6. \A i \in 1..(L + 1) : i - 1 <= w.steps[i] /\ w.steps[i] <= s
    <2>1. L <= s
      <3>1. CASE L = 0
        BY <3>1
      <3>2. CASE L > 0
        <4>1. L \in 1..L
          BY <1>1, <3>2
        <4>2. L - 1 <= v.steps[L] /\ v.steps[L] <= v.lastSeq
          BY <1>3, <4>1
        <4> QED
          BY <1>1, <4>1, <4>2
      <3> QED
        BY <1>1, <3>1, <3>2
    <2>2. \A i \in 1..L : i - 1 <= w.steps[i] /\ w.steps[i] <= s
      BY <1>1, <1>2, <1>3
    <2> QED
      BY <1>1, <1>2, <2>1, <2>2
  <1>7. \A i, j \in 1..(L + 1) : i <= j => w.steps[i] + (j - i) <= w.steps[j]
    <2> SUFFICES ASSUME NEW i \in 1..(L + 1), NEW j \in 1..(L + 1), i <= j
                 PROVE  w.steps[i] + (j - i) <= w.steps[j]
      OBVIOUS
    <2>1. CASE j # L + 1
      <3>1. i \in 1..L /\ j \in 1..L
        BY <1>1, <2>1
      <3> QED
        BY <1>2, <1>4, <3>1
    <2>2. CASE j = L + 1 /\ i # L + 1
      <3>1. i \in 1..L
        BY <1>1, <2>2
      <3>2. v.steps[i] + (L - i) <= v.lastSeq /\ v.steps[i] \in Int /\ w.steps[i] = v.steps[i]
        BY <1>1, <1>2, <1>5, <3>1
      <3>3. v.steps[i] + ((L + 1) - i) <= s
        BY <1>1, <3>1, <3>2
      <3>4. w.steps[j] = s
        BY <1>2, <2>2, Zenon
      <3>5. j - i = (L + 1) - i
        BY <2>2, Zenon
      <3>6. w.steps[i] + (j - i) <= s
        BY <3>2, <3>3, <3>5
      <3> QED
        BY <3>4, <3>6
    <2>3. CASE j = L + 1 /\ i = L + 1
      BY <1>1, <1>2, <2>3
    <2> QED
      BY <2>1, <2>2, <2>3
  <1>8. w.shown => log # <<>>
    BY DEF Viewed
  <1>9. w.shown /\ ~w.running => Ended(log, Len(log))
    BY DEF Viewed
  <1>10. Viewed(w, log)
    BY <1>2, <1>6, <1>7, <1>8, <1>9 DEF Viewed
  <1>11. ToSet(v.steps) \subseteq ToSet(w.steps)
    BY <1>1, <1>2 DEF ToSet
  <1> QED
    BY <1>10, <1>11

\* A view whose steps and end are those of another.
LEMMA SameSteps ==
  ASSUME NEW l, NEW v, Viewed(v, l), NEW w \in View, w.steps = v.steps, w.lastSeq = v.lastSeq,
         w.shown = v.shown, w.shown \/ w.pause = v.pause, w.shown /\ ~w.running => Ended(l, Len(l))
  PROVE  Viewed(w, l)
  BY DEF Viewed

\* The view of the first rows.
LEMMA RebuiltIsViewed ==
  ASSUME NEW l, Chronicle(l), NEW n \in 0..Len(l), NEW w \in View, n > 0 \/ w = Rebuilt(l, 0),
         w.steps = Rebuilt(l, n).steps, w.lastSeq = Rebuilt(l, n).lastSeq,
         w.shown = Rebuilt(l, n).shown, w.running = Rebuilt(l, n).running
  PROVE  Viewed(w, l) /\ Whole(w) /\ Len(w.steps) = Told(l, n) /\ w.lastSeq = Told(l, n) - 1
  <1>1. /\ l \in Seq(Rows) /\ Len(l) \in Nat /\ Told(l, n) \in Nat /\ Told(l, Len(l)) \in Nat
        /\ Told(l, n) <= Told(l, Len(l))
    BY ChronicleFacts DEF Chronicle
  <1>2. Whole(Rebuilt(l, n)) /\ (w.shown <=> n > 0) /\ (w.running <=> n > 0 /\ ~Ended(l, n))
    BY DEF Chronicle
  <1>3. Len(w.steps) = Told(l, n)
    BY DEF Told
  <1>4. Whole(w) /\ w.lastSeq = Told(l, n) - 1
    BY <1>2, <1>3 DEF Whole
  <1>5. w.shown => l # <<>>
    BY <1>1, <1>2
  <1>6. ~w.shown => w.steps = <<>> /\ w.lastSeq = -1 /\ ~w.pause
    BY <1>1, <1>2, RebuiltSteps, NoViewType
  <1>7. /\ \A i \in 1..Len(w.steps) : i - 1 <= w.steps[i] /\ w.steps[i] <= w.lastSeq
        /\ \A i, j \in 1..Len(w.steps) : i <= j => w.steps[i] + (j - i) <= w.steps[j]
    BY <1>1, <1>3, <1>4 DEF Whole
  <1>8. w.lastSeq < Told(l, Len(l))
    BY <1>1, <1>4
  <1>9. w.shown /\ ~w.running => Ended(l, Len(l))
    BY <1>1, <1>2 DEF Ended
  <1> QED
    BY <1>3, <1>4, <1>5, <1>6, <1>7, <1>8, <1>9 DEF Viewed

\* The row of a run that a message is.
LEMMA RowOf ==
  ASSUME NEW l, Chronicle(l), NEW i \in 1..Len(l)
  PROVE  /\ l # <<>>
         /\ l[i].type = "step" => l[i].seq \in 0..MaxSteps /\ l[i].seq < Told(l, Len(l))
         /\ l[i].type \in Ends => Ended(l, Len(l))
  <1>1. l \in Seq(Rows) /\ Len(l) \in Nat /\ l[i] \in Rows /\ i \in 0..Len(l) /\ i - 1 \in 0..Len(l)
        /\ Len(l) \in 0..Len(l)
    BY ChronicleFacts
  <1>2. Told(l, i) \in Nat /\ Told(l, i - 1) \in Nat /\ Told(l, Len(l)) \in Nat
    BY <1>1, ChronicleFacts
  <1>3. Told(l, i) <= Told(l, Len(l))
    BY <1>1 DEF Chronicle
  <1>4. l[i].type = "step" => l[i].seq = Told(l, i - 1) /\ Told(l, i) = Told(l, i - 1) + 1
    BY DEF Chronicle
  <1>5. l[i].type = "step" => l[i].seq \in 0..MaxSteps
    BY <1>1, RowTypes
  <1> QED
    BY <1>1, <1>2, <1>3, <1>4, <1>5 DEF Ended

\* One message of the queue leaves a view that is as true as before, and no step is lost but
\* by the run's own beginning.
LEMMA OneMessage ==
  ASSUME Chronicle(log), NEW q, NEW k \in 1..Len(q), Len(q) \in Nat, \A j \in 1..Len(q) : Mail(q[j], log),
         InOrder(q, log), NEW v, Viewed(v, log), NoGapAhead(v, q, k - 1, log)
  PROVE  LET w == Reduced(v, q[k]) IN
         /\ Viewed(w, log) /\ NoGapAhead(w, q, k, log)
         /\ q[k].type # "started" => ToSet(v.steps) \subseteq ToSet(w.steps)
  <1> DEFINE m == q[k]
             w == Reduced(v, m)
             Good == /\ Viewed(w, log) /\ NoGapAhead(w, q, k, log)
                     /\ m.type # "started" => ToSet(v.steps) \subseteq ToSet(w.steps)
  <1> SUFFICES Good
    OBVIOUS
  <1>1. v \in View /\ v.lastSeq \in Int /\ (v.shown => log # <<>>)
        /\ (v.shown /\ ~v.running => Ended(log, Len(log)))
    BY ViewTypes DEF Viewed
  <1>2. NoGapAhead(v, q, k, log)
    BY DEF NoGapAhead
  <1>3. Mail(m, log)
    OBVIOUS
  <1>4. w.steps = v.steps /\ w.lastSeq = v.lastSeq => NoGapAhead(w, q, k, log)
    BY <1>2 DEF NoGapAhead, Whole
  <1>5. Whole(w) => NoGapAhead(w, q, k, log)
    BY DEF NoGapAhead
  <1>6. CASE m = NotLive
    <2>1. w = Reduced(v, NotLive)
      BY <1>6
    <2> HIDE DEF w
    <2>2. /\ w \in View /\ w.steps = v.steps /\ w.lastSeq = v.lastSeq /\ w.shown = v.shown
          /\ w.running = v.running /\ w.pause = v.pause
      BY <1>1, <2>1, NotLiveIs
    <2> QED
      BY <1>1, <1>4, <2>2, SameSteps
  <1>7. CASE m.type \in {"started", "step", "pause", "locked", "complete", "error"}
             /\ \E i \in 1..Len(log) : m = log[i]
    <2> PICK i \in 1..Len(log) : m = log[i]
      BY <1>7
    <2>1. m \in Rows /\ w = Applied(v, m)
      BY <1>7, ChronicleFacts, RowIs
    <2>2. w \in View
      BY <1>1, <2>1, AppliedTypes
    <2> HIDE DEF w, m
    <2>3. /\ log # <<>>
          /\ m.type = "step" => m.seq \in 0..MaxSteps /\ m.seq < Told(log, Len(log))
          /\ m.type \in Ends => Ended(log, Len(log))
      BY RowOf
    <2>4. CASE m.type = "started"
      <3>1. w = FreshView
        BY <1>1, <2>1, <2>4, AppliedIs
      <3>2. Told(log, Len(log)) \in Nat
        BY ChronicleFacts
      <3>3. Viewed(w, log) /\ Whole(w)
        BY <2>2, <2>3, <3>1, <3>2, NoViewType DEF Viewed, Whole
      <3> QED
        BY <1>5, <2>4, <3>3
    <2>5. CASE m.type # "started" /\ ~v.shown
      <3>1. w = v
        BY <1>1, <2>1, <2>5, AppliedIs
      <3> QED
        BY <1>4, <3>1
    <2>6. CASE m.type # "started" /\ v.shown /\ (m.type # "step" \/ m.seq <= v.lastSeq)
      <3>1. /\ w.shown /\ w.running = (v.running /\ m.type \notin Ends)
            /\ w.steps = v.steps /\ w.lastSeq = v.lastSeq
        BY <1>1, <2>1, <2>6, AppliedIs
      <3>2. w.shown /\ ~w.running => Ended(log, Len(log))
        BY <1>1, <2>3, <2>6, <3>1
      <3>3. Viewed(w, log)
        BY <2>2, <2>6, <3>1, <3>2, SameSteps, ViewTypes, <1>1
      <3> QED
        BY <1>4, <3>1, <3>3
    <2>7. CASE m.type = "step" /\ v.shown /\ ~(m.seq <= v.lastSeq)
      <3>1. m.seq \in 0..MaxSteps /\ m.seq \in Int /\ v.lastSeq < m.seq
        BY <1>1, <2>3, <2>7, BrowserAssumption
      <3>2. /\ w.shown /\ w.running = v.running
            /\ w.steps = Append(v.steps, m.seq) /\ w.lastSeq = m.seq
        <4>1. m.type \notin Ends /\ v.running \in BOOLEAN
          BY <1>1, <2>7, ViewTypes DEF Ends
        <4> QED
          BY <1>1, <2>1, <2>7, <3>1, <4>1, AppliedIs
      <3>3. Viewed(w, log) /\ ToSet(v.steps) \subseteq ToSet(w.steps)
        BY <2>2, <2>3, <2>7, <3>1, <3>2, ViewGrows
      <3>4. NoGapAhead(w, q, k, log)
        BY <2>7, <3>2 DEF NoGapAhead, InOrder, m
      <3> QED
        BY <3>3, <3>4
    <2> QED
      BY <2>4, <2>5, <2>6, <2>7
  <1>8. CASE m.type = "replay" /\ m.seq \in 0..Len(log) /\ m = Replay(m.seq) /\ ~Ended(log, m.seq)
    <2> DEFINE n == m.seq
               r == Rebuilt(log, n)
    <2>1. n \in 0..Len(log) /\ w = Reduced(v, Replay(n))
      BY <1>8
    <2>2. v.lastSeq < Told(log, n) \/ Whole(v)
      BY <1>8 DEF NoGapAhead
    <2>3. r \in View /\ Whole(r) /\ (r.shown <=> n > 0)
          /\ (r.running <=> n > 0) /\ Len(r.steps) = Told(log, n)
          /\ Told(log, n) \in Nat
      BY <1>8, <2>1, ChronicleFacts DEF Chronicle, Told
    <2>4. m.type # "started"
      BY <1>8
    <2> HIDE DEF w, m, n
    <2>5. CASE n = 0
      <3>1. w = v
        BY <1>1, <2>1, <2>5, ReplayedIs
      <3> QED
        BY <1>4, <3>1
    <2>6. CASE n > 0 /\ Ahead(v, r)
      <3>1. /\ w \in View /\ w.steps = v.steps /\ w.lastSeq = v.lastSeq /\ w.shown = v.shown
            /\ w.running = v.running
        BY <1>1, <2>1, <2>6, ReplayedIs
      <3>2. w.shown
        BY <2>6, <3>1 DEF Ahead
      <3> QED
        BY <1>1, <1>4, <3>1, <3>2, SameSteps
    <2>7. CASE n > 0 /\ ~Ahead(v, r)
      <3>1. /\ w \in View /\ w.steps = r.steps /\ w.lastSeq = r.lastSeq /\ w.shown = r.shown
            /\ w.running = r.running
        BY <1>1, <2>1, <2>7, ReplayedIs
      <3>2. Viewed(w, log) /\ Whole(w)
        BY <2>1, <2>7, <3>1, RebuiltIsViewed
      <3>3. ToSet(v.steps) \subseteq ToSet(w.steps)
        <4>1. CASE ~v.shown
          BY <4>1 DEF Viewed, ToSet
        <4>2. CASE v.shown
          <5>1. v.lastSeq < Told(log, n)
            BY <1>1, <2>2, <2>3, <2>7, <4>2 DEF Ahead, Whole
          <5>2. \A i \in 1..Len(v.steps) : v.steps[i] \in 0..(Told(log, n) - 1)
            <6> SUFFICES ASSUME NEW i \in 1..Len(v.steps) PROVE v.steps[i] \in 0..(Told(log, n) - 1)
              OBVIOUS
            <6>1. v.steps[i] \in Int /\ v.lastSeq \in Int /\ v.steps[i] >= 0
              BY <1>1, ViewTypes, BrowserAssumption
            <6>2. v.steps[i] <= v.lastSeq
              BY DEF Viewed
            <6> QED
              BY <2>3, <5>1, <6>1, <6>2
          <5>3. \A x \in 0..(Told(log, n) - 1) : x + 1 \in 1..Len(r.steps) /\ r.steps[x + 1] = x
            BY <2>3 DEF Whole
          <5>4. DOMAIN v.steps = 1..Len(v.steps) /\ DOMAIN r.steps = 1..Len(r.steps)
            BY <1>1, <2>3, ViewTypes
          <5> QED
            BY <3>1, <5>2, <5>3, <5>4 DEF ToSet
        <4> QED
          BY <4>1, <4>2
      <3> QED
        BY <1>5, <3>2, <3>3
    <2> QED
      BY <2>1, <2>5, <2>6, <2>7
  <1> QED
    BY <1>3, <1>6, <1>7, <1>8, MailTypes

\* A replay leaves the view with the rows it was made of.
LEMMA OneReplay ==
  ASSUME Chronicle(log), NEW n \in 0..Len(log), ~Ended(log, n), NEW v, Viewed(v, log),
         v.lastSeq < Told(log, n) \/ Whole(v)
  PROVE  Current(Reduced(v, Replay(n)), n, log)
  <1> DEFINE r == Rebuilt(log, n)
             w == Reduced(v, Replay(n))
  <1>1. v \in View /\ v.lastSeq \in Int
    BY ViewTypes DEF Viewed
  <1>2. r \in View /\ Whole(r) /\ (r.shown <=> n > 0) /\ Len(r.steps) = Told(log, n)
        /\ Told(log, n) \in Nat
    BY ChronicleFacts DEF Chronicle, Told
  <1> SUFFICES ASSUME n > 0
               PROVE  /\ w.shown /\ ~w.hydrated /\ ~w.parked
                      /\ Whole(w) /\ Told(log, n) <= Len(w.steps)
    BY DEF Current
  <1>3. ~w.hydrated /\ ~w.parked
    BY <1>1, ReplayedIs
  <1>4. CASE Ahead(v, r)
    <2>1. w.steps = v.steps /\ w.lastSeq = v.lastSeq /\ w.shown = v.shown
      BY <1>1, <1>4, ReplayedIs
    <2> HIDE DEF w
    <2>2. v.shown /\ v.lastSeq >= Told(log, n) - 1 /\ Len(v.steps) >= Told(log, n)
      BY <1>2, <1>4 DEF Ahead, Whole
    <2> HIDE DEF r
    <2>3. Whole(v)
      <3>1. CASE v.lastSeq < Told(log, n)
        <4>1. v.lastSeq = Told(log, n) - 1 /\ Told(log, n) <= Len(v.steps)
          BY <1>1, <1>2, <2>2, <3>1
        <4> QED
          BY <1>2, <4>1, NoGap
      <3> QED
        BY <3>1
    <2> QED
      BY <1>3, <2>1, <2>2, <2>3 DEF Whole
  <1>5. CASE ~Ahead(v, r)
    <2>1. w.steps = r.steps /\ w.lastSeq = r.lastSeq /\ w.shown = r.shown
      BY <1>1, <1>5, ReplayedIs
    <2> HIDE DEF w
    <2> QED
      BY <1>2, <1>3, <2>1 DEF Whole
  <1> QED
    BY <1>4, <1>5

\* The next row keeps the view up with the run.
LEMMA OneRow ==
  ASSUME Chronicle(log), NEW n \in 1..Len(log), log[n].type # "parked", NEW v, Viewed(v, log),
         Current(v, n - 1, log)
  PROVE  Current(Reduced(v, log[n]), n, log)
  <1> DEFINE m == log[n]
             w == Reduced(v, m)
  <1>1. /\ v \in View /\ m \in Rows /\ n \in Nat /\ n > 0 /\ n - 1 \in 0..Len(log) /\ n \in 0..Len(log)
        /\ (m.type = "started" <=> n = 1)
        /\ Told(log, n) \in Nat /\ Told(log, n - 1) \in Nat
    BY ChronicleFacts DEF Viewed, Chronicle
  <1>2. w = Applied(v, m)
    BY <1>1, RowTypes, RowIs
  <1> SUFFICES Current(w, n, log)
    OBVIOUS
  <1> HIDE DEF w
  <1>3. IF m.type = "step" THEN m.seq = Told(log, n - 1) /\ Told(log, n) = Told(log, n - 1) + 1
                           ELSE Told(log, n) = Told(log, n - 1)
    BY DEF Chronicle
  <1>4. Ended(log, n) <=> Ended(log, n - 1) \/ m.type \in Ends
    BY <1>1 DEF Ended
  <1> HIDE DEF m
  <1>5. CASE n = 1
    <2>1. w = FreshView
      BY <1>1, <1>2, <1>5, AppliedIs
    <2>2. Told(log, 0) = 0
      BY ChronicleFacts, RebuiltSteps, NoViewType DEF Told
    <2>3. Told(log, 1) = 0
      BY <1>1, <1>3, <1>5, <2>2
    <2>4. ~Ended(log, 0)
      BY DEF Ended
    <2>5. ~Ended(log, 1)
      BY <1>1, <1>4, <1>5, <2>4 DEF Ends
    <2> QED
      BY <1>5, <2>1, <2>3, <2>5, NoViewType DEF Current, Whole
  <1>6. CASE n # 1
    <2>1. /\ v.shown /\ ~v.hydrated /\ ~v.parked /\ Whole(v) /\ Told(log, n - 1) <= Len(v.steps)
          /\ v.running => ~Ended(log, n - 1)
      BY <1>1, <1>6 DEF Current
    <2>2. m.type # "started" /\ m.type # "parked"
      BY <1>1, <1>6 DEF m
    <2>3. w.shown /\ ~w.hydrated /\ ~w.parked /\ w.running = (v.running /\ m.type \notin Ends)
      BY <1>1, <1>2, <2>1, <2>2, AppliedIs
    <2>4. v.running \in BOOLEAN /\ Len(v.steps) \in Nat /\ v.lastSeq = Len(v.steps) - 1
          /\ v.steps \in Seq(0..MaxSteps)
      BY <1>1, <2>1, ViewTypes DEF Whole
    <2>5. w.running => ~Ended(log, n)
      BY <1>4, <2>1, <2>3, <2>4
    <2>6. Whole(w) /\ Told(log, n) <= Len(w.steps)
      <3>1. CASE m.type # "step" \/ m.seq <= v.lastSeq
        <4>1. w.steps = v.steps /\ w.lastSeq = v.lastSeq
          BY <1>1, <1>2, <2>1, <2>2, <3>1, AppliedIs
        <4> QED
          BY <1>1, <1>3, <2>1, <2>4, <3>1, <4>1 DEF Whole
      <3>2. CASE m.type = "step" /\ ~(m.seq <= v.lastSeq)
        <4>1. m.seq = Len(v.steps) /\ v.lastSeq < m.seq
          BY <1>1, <1>3, <2>1, <2>4, <3>2
        <4>2. w.steps = Append(v.steps, m.seq) /\ w.lastSeq = m.seq
          BY <1>1, <1>2, <2>1, <2>2, <3>2, <4>1, AppliedIs
        <4>3. m.seq \in 0..MaxSteps
          BY <1>1, <3>2, RowTypes
        <4>4. Len(w.steps) = Len(v.steps) + 1 /\ w.steps[Len(v.steps) + 1] = m.seq
              /\ \A i \in 1..Len(v.steps) : w.steps[i] = v.steps[i]
          BY <2>4, <4>2, <4>3, AppendProperties
        <4>5. Whole(w)
          BY <2>1, <2>4, <4>1, <4>2, <4>4 DEF Whole
        <4> QED
          BY <1>1, <1>3, <2>1, <2>4, <3>2, <4>4, <4>5
      <3> QED
        BY <3>1, <3>2
    <2> QED
      BY <2>3, <2>5, <2>6 DEF Current
  <1> QED
    BY <1>5, <1>6 DEF w, m

\* So does a message of the queue, by what the queue tells.
LEMMA OneTraced ==
  ASSUME Chronicle(log), NEW q, NEW k \in 1..Len(q), Len(q) \in Nat, Mail(q[k], log),
         NEW from \in Nat, from < k, NEW p, Follows(p, q, from, log), q[k].type # "replay",
         NEW v, Viewed(v, log), Current(v, p[k - 1], log)
  PROVE  Current(Reduced(v, q[k]), p[k], log)
  <1>1. k \in (from + 1)..Len(q) /\ k - 1 \in from..Len(q) /\ k \in from..Len(q)
    OBVIOUS
  <1>2. p[k - 1] \in 0..Len(log) /\ p[k] \in 0..Len(log)
        /\ IF Note(q[k]) THEN p[k] = p[k - 1] ELSE p[k] = p[k - 1] + 1 /\ q[k] = log[p[k]]
    BY <1>1 DEF Follows
  <1>3. CASE q[k] = NotLive
    <2>1. Note(q[k]) /\ v \in View
      BY <1>3 DEF Note, NotLive, Event, Viewed
    <2>2. Reduced(v, q[k]) = Reduced(v, NotLive)
      BY <1>3
    <2> DEFINE w == Reduced(v, NotLive)
    <2>3. /\ ~w.parked /\ w.steps = v.steps /\ w.lastSeq = v.lastSeq /\ w.shown = v.shown
          /\ w.running = v.running /\ w.hydrated = v.hydrated
      BY <2>1, NotLiveIs
    <2> HIDE DEF w
    <2>4. Current(w, p[k - 1], log)
      BY <2>3 DEF Current, Whole
    <2> QED
      BY <1>2, <2>1, <2>2, <2>4 DEF w
  <1>4. CASE q[k] # NotLive
    <2>1. q[k].type # "parked" /\ ~Note(q[k])
      BY <1>4, MailTypes
    <2>2. p[k] = p[k - 1] + 1 /\ q[k] = log[p[k]]
      BY <1>2, <2>1
    <2>3. p[k] \in 1..Len(log) /\ p[k] - 1 = p[k - 1]
      <3>1. Len(log) \in Nat
        BY ChronicleFacts
      <3> QED
        BY <1>2, <2>2, <3>1
    <2>4. Current(v, p[k] - 1, log) /\ log[p[k]].type # "parked"
      BY <2>1, <2>2, <2>3
    <2>5. Current(Reduced(v, log[p[k]]), p[k], log)
      BY <2>3, <2>4, OneRow
    <2> QED
      BY <2>2, <2>5
  <1> QED
    BY <1>3, <1>4

-----------------------------------------------------------------------------
(* The queue.                                                              *)

\* k is q with e after it; k is q without its first d.
Longer(q, k, e) ==
  /\ Len(q) \in Nat /\ Len(k) = Len(q) + 1 /\ k[Len(k)] = e
  /\ \A i \in 1..Len(q) : k[i] = q[i]

Suffix(q, k, d) ==
  /\ Len(q) \in Nat /\ d \in 0..Len(q) /\ Len(k) = Len(q) - d
  /\ \A i \in 1..Len(k) : k[i] = q[i + d]

\* What every queue is, whether it is read or lost.
Posted(v, q, l) ==
  /\ \A i \in 1..Len(q) : Mail(q[i], l)
  /\ InOrder(q, l)
  /\ Viewed(v, l)
  /\ NoGapAhead(v, q, 0, l)

HasReplay(q) == \E i \in 1..Len(q) : q[i].type = "replay"

CanCatchUp(v, q, l) ==
  \E from \in 0..Len(q) : \E p \in [0..Len(q) -> 0..Len(l)] : Traced(v, q, from, p, l)

LEMMA PostedKept ==
  ASSUME NEW l, NEW k, Chronicle(l), Chronicle(k), Extends(l, k), NEW v, NEW q, Posted(v, q, l)
  PROVE  Posted(v, q, k)
  <1>1. \A i \in 1..Len(q) : Mail(q[i], k)
    BY MailKept DEF Posted
  <1>2. Viewed(v, k)
    BY ViewedKept DEF Posted
  <1>3. InOrder(q, k) /\ NoGapAhead(v, q, 0, k)
    <2>1. \A i \in 1..Len(q) : Mail(q[i], l)
      BY DEF Posted
    <2>2. InOrder(q, l) /\ NoGapAhead(v, q, 0, l) /\ 0 \in Nat
      BY DEF Posted
    <2> QED
      BY <2>1, <2>2, OrderKept
  <1> QED
    BY <1>1, <1>2, <1>3 DEF Posted

LEMMA PostedLonger ==
  ASSUME NEW l, Chronicle(l), NEW v, NEW q, Posted(v, q, l), NEW k, NEW e, Longer(q, k, e),
         Mail(e, l), e.type = "replay" => e.seq = Len(l)
  PROVE  Posted(v, k, l)
  <1>1. Len(q) \in Nat /\ Len(k) = Len(q) + 1 /\ k[Len(q) + 1] = e /\ \A i \in 1..Len(q) : k[i] = q[i]
    BY DEF Longer
  <1>2. \A i \in 1..Len(k) : Mail(k[i], l)
    BY <1>1 DEF Posted
  <1>3. InOrder(k, l)
    <2> SUFFICES ASSUME NEW i \in 1..Len(k), NEW j \in 1..Len(k), i < j,
                        k[i].type = "step", k[j].type = "replay"
                 PROVE  k[i].seq < Told(l, k[j].seq)
      BY DEF InOrder
    <2>1. i \in 1..Len(q) /\ k[i] = q[i]
      BY <1>1
    <2>2. CASE j \in 1..Len(q)
      BY <1>1, <2>1, <2>2 DEF Posted, InOrder
    <2>3. CASE j = Len(q) + 1
      <3>1. k[j].seq = Len(l)
        BY <1>1, <2>3
      <3>2. Mail(k[i], l)
        BY <1>2
      <3>3. PICK n \in 1..Len(l) : k[i] = l[n]
        BY <3>2, MailTypes
      <3> QED
        BY <3>1, <3>3, RowOf
    <2> QED
      BY <1>1, <2>2, <2>3
  <1>4. NoGapAhead(v, k, 0, l)
    <2> SUFFICES ASSUME NEW j \in 1..Len(k), k[j].type = "replay"
                 PROVE  v.lastSeq < Told(l, k[j].seq) \/ Whole(v)
      BY DEF NoGapAhead
    <2>1. CASE j \in 1..Len(q)
      <3>1. j \in (0 + 1)..Len(q) /\ k[j] = q[j]
        BY <1>1, <2>1
      <3> QED
        BY <3>1 DEF Posted, NoGapAhead
    <2>2. CASE j = Len(q) + 1
      BY <1>1, <2>2 DEF Posted, Viewed
    <2> QED
      BY <1>1, <2>1, <2>2
  <1> QED
    BY <1>2, <1>3, <1>4 DEF Posted

\* What is left of a queue, whatever was lost at its end.
LEMMA PostedPart ==
  ASSUME NEW l, NEW v, NEW q, Posted(v, q, l), NEW w, Viewed(w, l), NEW k, NEW d \in Nat, NEW c \in Nat,
         Len(q) \in Nat, Len(k) \in Nat, Len(k) + d + c = Len(q),
         \A i \in 1..Len(k) : k[i] = q[i + d], NoGapAhead(w, q, d, l)
  PROVE  Posted(w, k, l)
  <1>1. \A i \in 1..Len(k) : i + d \in 1..Len(q) /\ k[i] = q[i + d] /\ i + d \in (d + 1)..Len(q)
    OBVIOUS
  <1>2. \A i \in 1..Len(k) : Mail(k[i], l)
    BY <1>1 DEF Posted
  <1>3. InOrder(k, l)
    <2> SUFFICES ASSUME NEW i \in 1..Len(k), NEW j \in 1..Len(k), i < j,
                        k[i].type = "step", k[j].type = "replay"
                 PROVE  k[i].seq < Told(l, k[j].seq)
      BY DEF InOrder
    <2>1. i + d < j + d
      OBVIOUS
    <2> QED
      BY <1>1, <2>1 DEF Posted, InOrder
  <1>4. NoGapAhead(w, k, 0, l)
    <2> SUFFICES ASSUME NEW j \in 1..Len(k), k[j].type = "replay"
                 PROVE  w.lastSeq < Told(l, k[j].seq) \/ Whole(w)
      BY DEF NoGapAhead
    <2> QED
      BY <1>1 DEF NoGapAhead
  <1> QED
    BY <1>2, <1>3, <1>4 DEF Posted

\* A message more, of the log or about it.
LEMMA CatchUpLonger ==
  ASSUME NEW l, NEW m, Chronicle(l), Chronicle(m), Extends(l, m), NEW v, NEW q, CanCatchUp(v, q, l),
         NEW k, NEW e, Longer(q, k, e), e.type # "replay",
         IF Note(e) THEN Len(m) = Len(l) ELSE Longer(l, m, e)
  PROVE  CanCatchUp(v, k, m)
  <1> PICK from \in 0..Len(q), p \in [0..Len(q) -> 0..Len(l)] : Traced(v, q, from, p, l)
    BY DEF CanCatchUp
  <1> DEFINE r == [j \in 0..Len(k) |-> IF j = Len(k) THEN Len(m) ELSE p[j]]
  <1>1. /\ Len(q) \in Nat /\ Len(k) = Len(q) + 1 /\ k[Len(q) + 1] = e /\ \A i \in 1..Len(q) : k[i] = q[i]
        /\ Len(l) \in Nat /\ Len(m) \in Nat /\ Len(l) <= Len(m) /\ \A i \in 1..Len(l) : m[i] = l[i]
    BY DEF Longer, Extends
  <1>2. r \in [0..Len(k) -> 0..Len(m)] /\ r[Len(k)] = Len(m) /\ \A j \in 0..Len(q) : r[j] = p[j]
    BY <1>1
  <1> HIDE DEF r
  <1>3. p[Len(q)] = Len(l)
    BY DEF Traced, Follows
  <1>4. Follows(r, k, from, m)
    <2>1. \A j \in from..Len(k) : r[j] \in 0..Len(m)
      BY <1>1, <1>2
    <2>2. \A j \in (from + 1)..Len(k) :
            IF Note(k[j]) THEN r[j] = r[j - 1] ELSE r[j] = r[j - 1] + 1 /\ k[j] = m[r[j]]
      <3> SUFFICES ASSUME NEW j \in (from + 1)..Len(k)
                   PROVE  IF Note(k[j]) THEN r[j] = r[j - 1]
                                        ELSE r[j] = r[j - 1] + 1 /\ k[j] = m[r[j]]
        OBVIOUS
      <3>1. CASE j = Len(k)
        <4>1. k[j] = e /\ r[j] = Len(m) /\ r[j - 1] = Len(l)
          BY <1>1, <1>2, <1>3, <3>1
        <4>2. CASE Note(e)
          BY <4>1, <4>2
        <4>3. CASE ~Note(e)
          BY <1>1, <4>1, <4>3 DEF Longer
        <4> QED
          BY <4>2, <4>3
      <3>2. CASE j # Len(k)
        <4>1. j \in (from + 1)..Len(q) /\ j \in 1..Len(q) /\ j - 1 \in 0..Len(q) /\ j \in 0..Len(q)
          BY <1>1, <3>2
        <4>2. k[j] = q[j] /\ r[j] = p[j] /\ r[j - 1] = p[j - 1] /\ p[j] \in 0..Len(l) /\ p[j - 1] \in 0..Len(l)
          BY <1>1, <1>2, <4>1
        <4>3. IF Note(q[j]) THEN p[j] = p[j - 1] ELSE p[j] = p[j - 1] + 1 /\ q[j] = l[p[j]]
          BY <4>1 DEF Traced, Follows
        <4>4. p[j] = p[j - 1] + 1 => m[p[j]] = l[p[j]]
          <5>1. p[j] \in Int /\ p[j - 1] \in Int /\ p[j - 1] >= 0 /\ p[j] <= Len(l)
            BY <1>1, <4>2
          <5>2. p[j] = p[j - 1] + 1 => p[j] \in 1..Len(l)
            BY <1>1, <5>1
          <5> QED
            BY <1>1, <5>2
        <4> QED
          BY <4>2, <4>3, <4>4
      <3> QED
        BY <3>1, <3>2
    <2> QED
      BY <1>2, <2>1, <2>2 DEF Follows
  <1>5. IF from = 0 THEN Current(v, r[0], m) ELSE k[from].type = "replay" /\ r[from] = k[from].seq
    <2>1. CASE from = 0
      <3>1. Current(v, p[0], l) /\ p[0] \in 0..Len(l) /\ r[0] = p[0]
        BY <1>1, <1>2, <2>1 DEF Traced
      <3> QED
        BY <2>1, <3>1, CurrentKept
    <2>2. CASE from # 0
      BY <1>1, <1>2, <2>2 DEF Traced
    <2> QED
      BY <2>1, <2>2
  <1>6. \A j \in (from + 1)..Len(k) : k[j].type # "replay"
    <2> SUFFICES ASSUME NEW j \in (from + 1)..Len(k) PROVE k[j].type # "replay"
      OBVIOUS
    <2>1. CASE j = Len(k)
      BY <1>1, <2>1
    <2>2. CASE j # Len(k)
      <3>1. j \in (from + 1)..Len(q) /\ k[j] = q[j]
        BY <1>1, <2>2
      <3> QED
        BY <3>1 DEF Traced
    <2> QED
      BY <2>1, <2>2
  <1>7. Traced(v, k, from, r, m) /\ from \in 0..Len(k)
    BY <1>1, <1>4, <1>5, <1>6 DEF Traced
  <1> QED
    BY <1>2, <1>7 DEF CanCatchUp

\* The beginning of the queue is read or lost: the last replay, or the view it leaves, is enough.
LEMMA CatchUpSuffix ==
  ASSUME NEW l, NEW q, NEW from \in 0..Len(q), NEW p \in [0..Len(q) -> 0..Len(l)], NEW v,
         Traced(v, q, from, p, l), NEW k, NEW d, Suffix(q, k, d), NEW w,
         d < from \/ (from <= d /\ Current(w, p[d], l))
  PROVE  CanCatchUp(w, k, l)
  <1> DEFINE r == [j \in 0..Len(k) |-> p[j + d]]
             at == IF d < from THEN from - d ELSE 0
  <1>1. /\ Len(q) \in Nat /\ d \in 0..Len(q) /\ Len(k) = Len(q) - d
        /\ \A i \in 1..Len(k) : k[i] = q[i + d]
    BY DEF Suffix
  <1>2. /\ r \in [0..Len(k) -> 0..Len(l)] /\ \A j \in 0..Len(k) : r[j] = p[j + d]
        /\ at \in 0..Len(k) /\ at + d >= from /\ (d < from => at + d = from /\ at > 0)
        /\ (from <= d => at = 0)
    BY <1>1
  <1> HIDE DEF r, at
  <1>3. Follows(r, k, at, l)
    <2>1. r[Len(k)] = Len(l)
      BY <1>1, <1>2 DEF Traced, Follows
    <2>2. \A j \in at..Len(k) : r[j] \in 0..Len(l)
      BY <1>1, <1>2
    <2>3. \A j \in (at + 1)..Len(k) :
            IF Note(k[j]) THEN r[j] = r[j - 1] ELSE r[j] = r[j - 1] + 1 /\ k[j] = l[r[j]]
      <3> SUFFICES ASSUME NEW j \in (at + 1)..Len(k)
                   PROVE  IF Note(k[j]) THEN r[j] = r[j - 1]
                                        ELSE r[j] = r[j - 1] + 1 /\ k[j] = l[r[j]]
        OBVIOUS
      <3>1. /\ j + d \in (from + 1)..Len(q) /\ j \in 1..Len(k) /\ j \in 0..Len(k) /\ j - 1 \in 0..Len(k)
            /\ (j - 1) + d = (j + d) - 1
        BY <1>1, <1>2
      <3>2. k[j] = q[j + d] /\ r[j] = p[j + d] /\ r[j - 1] = p[(j + d) - 1]
        BY <1>1, <1>2, <3>1
      <3>3. IF Note(q[j + d]) THEN p[j + d] = p[(j + d) - 1]
            ELSE p[j + d] = p[(j + d) - 1] + 1 /\ q[j + d] = l[p[j + d]]
        BY <3>1 DEF Traced, Follows
      <3> QED
        BY <3>2, <3>3
    <2> QED
      BY <2>1, <2>2, <2>3 DEF Follows
  <1>4. IF at = 0 THEN Current(w, r[0], l) ELSE k[at].type = "replay" /\ r[at] = k[at].seq
    <2>1. CASE d < from
      <3>1. at # 0 /\ at \in 1..Len(k) /\ at \in 0..Len(k) /\ at + d = from /\ from # 0
        BY <1>1, <1>2, <2>1
      <3>2. k[at] = q[from] /\ r[at] = p[from]
        BY <1>1, <1>2, <3>1
      <3> QED
        BY <3>1, <3>2 DEF Traced
    <2>2. CASE from <= d
      <3>1. at = 0 /\ r[0] = p[d] /\ Current(w, p[d], l)
        BY <1>1, <1>2, <2>2
      <3> QED
        BY <3>1
    <2> QED
      BY <1>1, <2>1, <2>2
  <1>5. \A j \in (at + 1)..Len(k) : k[j].type # "replay"
    <2> SUFFICES ASSUME NEW j \in (at + 1)..Len(k) PROVE k[j].type # "replay"
      OBVIOUS
    <2>1. j + d \in (from + 1)..Len(q) /\ k[j] = q[j + d]
      BY <1>1, <1>2
    <2> QED
      BY <2>1 DEF Traced
  <1>6. Traced(w, k, at, r, l)
    BY <1>3, <1>4, <1>5 DEF Traced
  <1> QED
    BY <1>2, <1>6 DEF CanCatchUp

\* A replay is the last thing in the queue.
LEMMA CatchUpReplay ==
  ASSUME NEW l, Len(l) \in Nat, NEW v, NEW q, NEW k, NEW e, Longer(q, k, e), e.type = "replay",
         e.seq = Len(l)
  PROVE  CanCatchUp(v, k, l)
  <1> DEFINE r == [j \in 0..Len(k) |-> Len(l)]
             at == Len(k)
  <1>1. Len(k) \in Nat /\ Len(k) > 0 /\ k[Len(k)] = e
    BY DEF Longer
  <1>2. r \in [0..Len(k) -> 0..Len(l)] /\ \A j \in 0..Len(k) : r[j] = Len(l)
    OBVIOUS
  <1> HIDE DEF r
  <1>3. Follows(r, k, at, l)
    BY <1>1, <1>2 DEF Follows
  <1>4. Traced(v, k, at, r, l)
    BY <1>1, <1>2, <1>3 DEF Traced
  <1> QED
    BY <1>1, <1>2, <1>4 DEF CanCatchUp

\* Before the first row there is nothing to miss.
LEMMA CatchUpNothing ==
  ASSUME NEW l, Chronicle(l), Len(l) = 0, NEW v, NEW q, Len(q) \in Nat, \A i \in 1..Len(q) : Mail(q[i], l)
  PROVE  CanCatchUp(v, q, l)
  <1> DEFINE r == [j \in 0..Len(q) |-> 0]
  <1>1. r \in [0..Len(q) -> 0..Len(l)] /\ \A j \in 0..Len(q) : r[j] = 0
    OBVIOUS
  <1> HIDE DEF r
  <1>2. \A i \in 1..Len(q) : Note(q[i]) /\ (q[i].type = "replay" => q[i].seq = 0)
    <2> SUFFICES ASSUME NEW i \in 1..Len(q) PROVE Note(q[i]) /\ (q[i].type = "replay" => q[i].seq = 0)
      OBVIOUS
    <2>1. Mail(q[i], l)
      OBVIOUS
    <2> QED
      BY <2>1, MailTypes
  <1>3. \A at \in 0..Len(q) : Follows(r, q, at, l)
    <2> SUFFICES ASSUME NEW at \in 0..Len(q) PROVE Follows(r, q, at, l)
      OBVIOUS
    <2>1. \A j \in (at + 1)..Len(q) : Note(q[j]) /\ r[j] = r[j - 1]
      BY <1>1, <1>2
    <2> QED
      BY <1>1, <2>1 DEF Follows
  <1>4. CASE HasReplay(q)
    <2> DEFINE T == {c \in Nat : c < Len(q) /\ q[Len(q) - c].type = "replay"}
    <2>1. PICK i \in 1..Len(q) : q[i].type = "replay"
      BY <1>4 DEF HasReplay
    <2>2. Len(q) - i \in T /\ T \in SUBSET Nat
      <3>1. Len(q) - (Len(q) - i) = i /\ Len(q) - i \in Nat /\ Len(q) - i < Len(q)
        OBVIOUS
      <3> QED
        BY <2>1, <3>1
    <2>3. \A j \in 1..Len(q) : q[j].type = "replay" => Len(q) - j \in T
      <3> SUFFICES ASSUME NEW j \in 1..Len(q), q[j].type = "replay" PROVE Len(q) - j \in T
        OBVIOUS
      <3>1. Len(q) - (Len(q) - j) = j /\ Len(q) - j \in Nat /\ Len(q) - j < Len(q)
        OBVIOUS
      <3> QED
        BY <3>1
    <2>4. \A c \in T : c \in Nat /\ c < Len(q) /\ q[Len(q) - c].type = "replay"
      OBVIOUS
    <2> HIDE DEF T
    <2>5. PICK c \in T : \A b \in T : c <= b
      BY <2>2, Least
    <2> DEFINE at == Len(q) - c
    <2>6. at \in 1..Len(q) /\ q[at].type = "replay"
      BY <2>4
    <2>7. \A j \in (at + 1)..Len(q) : q[j].type # "replay"
      <3> SUFFICES ASSUME NEW j \in (at + 1)..Len(q), q[j].type = "replay" PROVE FALSE
        OBVIOUS
      <3>1. j \in 1..Len(q) /\ Len(q) - j < c /\ Len(q) - j \in Nat /\ c \in Nat
        BY <2>4, <2>6
      <3>2. c <= Len(q) - j
        BY <2>3, <2>5, <3>1
      <3> QED
        BY <3>1, <3>2
    <2> HIDE DEF at
    <2>8. Follows(r, q, at, l) /\ at \in 0..Len(q) /\ at # 0 /\ r[at] = 0 /\ q[at].seq = 0
      BY <1>1, <1>2, <1>3, <2>6
    <2>9. Traced(v, q, at, r, l)
      BY <2>6, <2>7, <2>8 DEF Traced
    <2> QED
      BY <1>1, <2>8, <2>9 DEF CanCatchUp
  <1>5. CASE ~HasReplay(q)
    <2>1. Follows(r, q, 0, l) /\ 0 \in 0..Len(q) /\ Current(v, r[0], l)
      BY <1>1, <1>3 DEF Current
    <2>2. Traced(v, q, 0, r, l)
      BY <1>5, <2>1 DEF Traced, HasReplay
    <2> QED
      BY <1>1, <2>1, <2>2 DEF CanCatchUp
  <1> QED
    BY <1>4, <1>5

-----------------------------------------------------------------------------
(* The messages of a batch.                                                *)

LEMMA ReducedTypes ==
  ASSUME Chronicle(log), NEW v \in View, NEW m, Mail(m, log)
  PROVE  Reduced(v, m) \in View
  <1>1. CASE m = NotLive
    BY <1>1, NotLiveIs
  <1>2. CASE m \in Rows /\ ~Note(m)
    BY <1>2, RowIs, AppliedTypes DEF Note
  <1>3. CASE m.seq \in 0..Len(log) /\ m = Replay(m.seq)
    <2>1. Reduced(v, Replay(m.seq)) \in View
      BY <1>3, ReplayedIs
    <2> QED
      BY <1>3, <2>1
  <1> QED
    BY <1>1, <1>2, <1>3, MailTypes

\* The views of a batch, one from the other.
LEMMA RenderedSteps ==
  ASSUME NEW b, Len(b) \in Nat, \A i \in 1..Len(b), v \in View : Reduced(v, b[i]) \in View,
         NEW v0 \in View
  PROVE  \E f \in [0..Len(b) -> View] :
           /\ f[0] = v0 /\ \A k \in 1..Len(b) : f[k] = Reduced(f[k - 1], b[k])
           /\ Rendered(v0, b) = f[Len(b)]
  <1> DEFINE N == Len(b)
             next == [x \in View \X (1..N) |-> Reduced(x[1], b[x[2]])]
  <1>1. next \in [View \X (1..N) -> View]
    OBVIOUS
  <1>2. \A v \in View, k \in 1..N : next[<<v, k>>] = Reduced(v, b[k])
    OBVIOUS
  <1> HIDE DEF next
  <1>3. N \in Nat
    OBVIOUS
  <1> HIDE DEF N
  <1>4. PICK f \in [0..N -> View] : IsFold(f, next, v0, N)
    BY <1>1, <1>3, FoldExists
  <1>5. f[0] = v0 /\ \A k \in 1..N : f[k] = Reduced(f[k - 1], b[k])
    <2>1. f[0] = v0
      BY <1>4 DEF IsFold
    <2>2. ASSUME NEW k \in 1..N PROVE f[k] = Reduced(f[k - 1], b[k])
      <3>1. f[k - 1] \in View
        BY <1>3
      <3>2. f[k] = next[<<f[k - 1], k>>]
        BY <1>4 DEF IsFold
      <3> QED
        BY <1>2, <3>1, <3>2
    <2> QED
      BY <2>1, <2>2
  <1> DEFINE Is(g) == g = [k \in 0..N |-> IF k = 0 THEN v0 ELSE Reduced(g[k - 1], b[k])]
             u == CHOOSE g : Is(g)
             h == [k \in 0..N |-> f[k]]
  <1>6. Rendered(v0, b) = u[N]
    BY DEF Rendered, N
  <1>7. Is(h)
    <2>1. \A k \in 0..N : h[k] = IF k = 0 THEN v0 ELSE Reduced(h[k - 1], b[k])
      BY <1>3, <1>5
    <2> QED
      BY <2>1
  <1>8. Is(u)
    BY <1>7
  <1> DEFINE S == {k \in 0..N : u[k] = f[k]}
  <1>9. \A k \in 0..N : u[k] = IF k = 0 THEN v0 ELSE Reduced(u[k - 1], b[k])
    BY <1>8
  <1> HIDE DEF u, h, Is
  <1>10. 0 \in S
    BY <1>3, <1>5, <1>9
  <1>11. \A k \in 1..N : k - 1 \in S => k \in S
    BY <1>3, <1>5, <1>9
  <1> HIDE DEF S
  <1>12. S \in SUBSET (0..N)
    BY DEF S
  <1>13. S = 0..N
    BY <1>3, <1>10, <1>11, <1>12, UpTo
  <1>14. Rendered(v0, b) = f[N]
    BY <1>3, <1>6, <1>13 DEF S
  <1> QED
    BY <1>5, <1>14 DEF N

\* Every view of the batch is true, and the steps only grow until the run begins.
LEMMA BatchViewed ==
  ASSUME Chronicle(log), NEW q, Len(q) \in Nat, NEW v0, Posted(v0, q, log), NEW n \in 0..Len(q),
         NEW f, f[0] = v0, \A k \in 1..n : f[k] = Reduced(f[k - 1], q[k])
  PROVE  \A k \in 0..n :
           /\ Viewed(f[k], log) /\ NoGapAhead(f[k], q, k, log)
           /\ (\A i \in 1..k : q[i].type # "started") => ToSet(v0.steps) \subseteq ToSet(f[k].steps)
  <1> DEFINE Good(k) == /\ Viewed(f[k], log) /\ NoGapAhead(f[k], q, k, log)
                        /\ (\A i \in 1..k : q[i].type # "started") =>
                             ToSet(v0.steps) \subseteq ToSet(f[k].steps)
             S == {k \in 0..n : Good(k)}
  <1>1. 0 \in S
    BY DEF Posted
  <1>2. \A k \in 1..n : k - 1 \in S => k \in S
    <2> SUFFICES ASSUME NEW k \in 1..n, Good(k - 1) PROVE Good(k)
      OBVIOUS
    <2>1. k \in 1..Len(q) /\ k - 1 \in Nat
      OBVIOUS
    <2>2. /\ Viewed(f[k], log) /\ NoGapAhead(f[k], q, k, log)
          /\ q[k].type # "started" => ToSet(f[k - 1].steps) \subseteq ToSet(f[k].steps)
      BY <2>1, OneMessage DEF Posted
    <2>3. (\A i \in 1..k : q[i].type # "started") =>
            (\A i \in 1..(k - 1) : q[i].type # "started") /\ q[k].type # "started"
      BY <2>1
    <2> QED
      BY <2>2, <2>3
  <1> HIDE DEF Good
  <1>3. S \in SUBSET (0..n) /\ n \in Nat
    OBVIOUS
  <1> HIDE DEF S
  <1>4. S = 0..n
    BY <1>1, <1>2, <1>3, UpTo
  <1>5. \A k \in 0..n : Good(k)
    BY <1>4 DEF S
  <1> QED
    BY <1>5 DEF Good

\* From where the tab can catch up, every view of the batch is up with the rows it was told.
LEMMA BatchCurrent ==
  ASSUME Chronicle(log), NEW q, Len(q) \in Nat, NEW v0, Posted(v0, q, log), NEW n \in 0..Len(q),
         NEW f, f[0] = v0, \A k \in 1..n : f[k] = Reduced(f[k - 1], q[k]),
         NEW from \in 0..n, NEW p \in [0..Len(q) -> 0..Len(log)], Traced(v0, q, from, p, log)
  PROVE  Current(f[n], p[n], log)
  <1> DEFINE S == {k \in 0..n : from <= k => Current(f[k], p[k], log)}
  <1>1. \A k \in 0..n : Viewed(f[k], log) /\ NoGapAhead(f[k], q, k, log)
    BY BatchViewed
  <1>2. from = 0 => Current(f[0], p[0], log)
    BY DEF Traced
  <1>3. from > 0 => Current(f[from], p[from], log)
    <2> SUFFICES ASSUME from > 0 PROVE Current(f[from], p[from], log)
      OBVIOUS
    <2>1. /\ q[from].type = "replay" /\ p[from] = q[from].seq /\ from \in 1..Len(q)
          /\ from - 1 \in 0..n /\ from \in 1..n /\ from \in ((from - 1) + 1)..Len(q)
      BY DEF Traced
    <2>2. q[from] = Replay(p[from]) /\ p[from] \in 0..Len(log) /\ ~Ended(log, p[from])
      <3>1. Mail(q[from], log)
        BY <2>1 DEF Posted
      <3>2. q[from].type # "not_live" /\ q[from].type \notin
              {"started", "step", "pause", "locked", "complete", "error"}
        BY <2>1
      <3>3. q[from].seq \in 0..Len(log) /\ q[from] = Replay(q[from].seq) /\ ~Ended(log, q[from].seq)
        BY <3>1, <3>2, MailTypes
      <3> QED
        BY <2>1, <3>3
    <2>3. f[from] = Reduced(f[from - 1], Replay(p[from])) /\ Viewed(f[from - 1], log)
      BY <1>1, <2>1, <2>2
    <2>4. f[from - 1].lastSeq < Told(log, p[from]) \/ Whole(f[from - 1])
      BY <1>1, <2>1 DEF NoGapAhead
    <2>5. Current(Reduced(f[from - 1], Replay(p[from])), p[from], log)
      BY <2>2, <2>3, <2>4, OneReplay
    <2> QED
      BY <2>3, <2>5
  <1>4. 0 \in S
    BY <1>2
  <1>5. \A k \in 1..n : k - 1 \in S => k \in S
    <2> SUFFICES ASSUME NEW k \in 1..n, from <= k - 1 => Current(f[k - 1], p[k - 1], log), from <= k
                 PROVE  Current(f[k], p[k], log)
      OBVIOUS
    <2>1. CASE from = k
      BY <1>3, <2>1
    <2>2. CASE from # k
      <3>1. /\ from < k /\ from \in Nat /\ k \in 1..Len(q) /\ k - 1 \in 0..n /\ k \in (from + 1)..Len(q)
            /\ Current(f[k - 1], p[k - 1], log)
        BY <2>2
      <3>2. Mail(q[k], log) /\ q[k].type # "replay" /\ Follows(p, q, from, log)
        BY <3>1 DEF Posted, Traced
      <3>3. Viewed(f[k - 1], log) /\ f[k] = Reduced(f[k - 1], q[k])
        BY <1>1, <3>1
      <3> QED
        BY <3>1, <3>2, <3>3, OneTraced
    <2> QED
      BY <2>1, <2>2
  <1>6. S \in SUBSET (0..n) /\ n \in Nat
    OBVIOUS
  <1> HIDE DEF S
  <1>7. S = 0..n
    BY <1>4, <1>5, <1>6, UpTo
  <1>8. n \in S /\ from <= n
    BY <1>7
  <1> QED
    BY <1>8 DEF S

-----------------------------------------------------------------------------
(* The invariant of one run.                                               *)

\* What the view has still to read.
Queue == Batch \o down

\* Nothing was cut from the buffer unread since the last replay.
Lossless == Len(Batch) = unread /\ ~skipped

\* Where the run is, and what it has left in the log.
OneRun ==
  /\ launches \in {0, 1} /\ (launches = 0 => run = "none" /\ log = <<>>)
  /\ run = "starting" => log = <<>>
  /\ run \in {"running", "asking", "parked"} => log # <<>>
  /\ run \in Live => ~Ended(log, Len(log))
  /\ run = "over" /\ log # <<>> => Ended(log, Len(log))
  /\ attached => run # "none"
  /\ \A i \in 1..Len(up) : up[i] = "decision" => log # <<>>

Logged == Chronicle(log) /\ seq = Told(log, Len(log))

Mailed == Len(Batch) <= unread /\ Posted(view, Queue, log)

\* An attached tab that lost nothing, or will read a replay, can catch up with the run.
Tailed == attached /\ (Lossless \/ HasReplay(Queue)) => CanCatchUp(view, Queue, log)

BrowserInv == BrowserTypeOK /\ Logged /\ OneRun /\ Mailed /\ Tailed

LEMMA LastOfFacts ==
  ASSUME NEW S, NEW s \in Seq(S), NEW n \in Nat
  PROVE  LET t == LastOf(s, n) IN
         /\ t \in Seq(S) /\ Len(t) = (IF Len(s) > n THEN n ELSE Len(s))
         /\ \A i \in 1..Len(t) : t[i] = s[i + (Len(s) - Len(t))]
  <1>1. CASE Len(s) > n
    <2> DEFINE m == (Len(s) - n) + 1
               t == SubSeq(s, m, Len(s))
    <2>1. m \in Int /\ Len(s) \in Int /\ m >= 1 /\ \A i \in m..Len(s) : s[i] \in S
      BY <1>1
    <2>2. /\ t \in Seq(S) /\ Len(t) = IF m <= Len(s) THEN Len(s) - m + 1 ELSE 0
          /\ \A i \in 1..(Len(s) - m + 1) : t[i] = s[m + i - 1]
      BY <2>1, SubSeqProperties
    <2>3. LastOf(s, n) = t
      BY <1>1 DEF LastOf
    <2> HIDE DEF t
    <2>4. Len(t) = n
      BY <1>1, <2>2
    <2>5. \A i \in 1..n : t[i] = s[i + (Len(s) - n)]
      <3> SUFFICES ASSUME NEW i \in 1..n PROVE t[i] = s[i + (Len(s) - n)]
        OBVIOUS
      <3>1. i \in 1..(Len(s) - m + 1) /\ m + i - 1 = i + (Len(s) - n)
        OBVIOUS
      <3> QED
        BY <2>2, <3>1
    <2> QED
      BY <1>1, <2>2, <2>3, <2>4, <2>5
  <1>2. CASE ~(Len(s) > n)
    <2>1. LastOf(s, n) = s
      BY <1>2 DEF LastOf
    <2>2. Len(s) \in Nat /\ Len(s) - Len(s) = 0
      OBVIOUS
    <2> QED
      BY <1>2, <2>1, <2>2
  <1> QED
    BY <1>1, <1>2

\* How many elements of fresh the effect has to read.
Owed == IF size < processed THEN 1 ELSE size - processed

LEMMA BatchFacts ==
  ASSUME BrowserTypeOK
  PROVE  /\ Owed \in Nat /\ Batch = LastOf(fresh, Owed) /\ Len(fresh) \in Nat
         /\ Batch \in Seq(Messages) /\ Len(Batch) \in Nat
         /\ Len(Batch) = (IF Len(fresh) > Owed THEN Owed ELSE Len(fresh))
         /\ \A i \in 1..Len(Batch) : Batch[i] = fresh[i + (Len(fresh) - Len(Batch))]
  <1>1. Owed \in Nat
    BY BrowserAssumption DEF BrowserTypeOK, Owed
  <1>2. Batch = LastOf(fresh, Owed)
    BY DEF Batch, Owed
  <1>3. fresh \in Seq(Messages) /\ Len(fresh) \in Nat
    BY DEF BrowserTypeOK
  <1>4. /\ Batch \in Seq(Messages)
        /\ Len(Batch) = (IF Len(fresh) > Owed THEN Owed ELSE Len(fresh))
        /\ \A i \in 1..Len(Batch) : Batch[i] = fresh[i + (Len(fresh) - Len(Batch))]
    BY <1>1, <1>2, <1>3, LastOfFacts
  <1> QED
    BY <1>1, <1>2, <1>3, <1>4

LEMMA QueueFacts ==
  ASSUME BrowserTypeOK
  PROVE  /\ Batch \in Seq(Messages) /\ Len(Batch) \in Nat
         /\ down \in Seq(Messages) /\ Len(down) \in Nat
         /\ Queue \in Seq(Messages) /\ Len(Queue) \in Nat /\ Len(Queue) = Len(Batch) + Len(down)
         /\ \A i \in 1..Len(Batch) : Queue[i] = Batch[i]
         /\ \A i \in 1..Len(down) : Queue[i + Len(Batch)] = down[i]
  <1>1. Batch \in Seq(Messages) /\ Len(Batch) \in Nat /\ down \in Seq(Messages) /\ Len(down) \in Nat
    BY BatchFacts DEF BrowserTypeOK
  <1>2. /\ Queue \in Seq(Messages) /\ Len(Queue) = Len(Batch) + Len(down)
        /\ \A i \in 1..(Len(Batch) + Len(down)) :
             Queue[i] = IF i <= Len(Batch) THEN Batch[i] ELSE down[i - Len(Batch)]
    BY <1>1, ConcatProperties DEF Queue
  <1>3. \A i \in 1..Len(Batch) : Queue[i] = Batch[i]
    BY <1>1, <1>2
  <1>4. \A i \in 1..Len(down) : Queue[i + Len(Batch)] = down[i]
    <2> SUFFICES ASSUME NEW i \in 1..Len(down) PROVE Queue[i + Len(Batch)] = down[i]
      OBVIOUS
    <2>1. i + Len(Batch) \in 1..(Len(Batch) + Len(down)) /\ ~(i + Len(Batch) <= Len(Batch))
          /\ (i + Len(Batch)) - Len(Batch) = i
      BY <1>1
    <2> QED
      BY <1>2, <2>1
  <1> QED
    BY <1>1, <1>2, <1>3, <1>4

LEMMA AppendIsLonger ==
  ASSUME NEW S, NEW q \in Seq(S), NEW e
  PROVE  Longer(q, Append(q, e), e) /\ Append(q, e) \in Seq(S \cup {e})
  <1>1. q \in Seq(S \cup {e}) /\ e \in S \cup {e}
    OBVIOUS
  <1>2. /\ Append(q, e) \in Seq(S \cup {e}) /\ Len(Append(q, e)) = Len(q) + 1
        /\ \A i \in 1..Len(q) : Append(q, e)[i] = q[i]
        /\ Append(q, e)[Len(q) + 1] = e
    BY <1>1, AppendProperties
  <1> QED
    BY <1>2 DEF Longer

\* A message is sent to the tab.
LEMMA QueueLonger ==
  ASSUME BrowserTypeOK, NEW e, down' = Append(down, e), UNCHANGED <<size, fresh, processed>>
  PROVE  Longer(Queue, Queue', e)
  <1>1. Batch' = Batch
    BY DEF Batch
  <1> DEFINE M == Messages \cup {e}
             next == Append(down, e)
  <1>2. /\ Batch \in Seq(M) /\ Len(Batch) \in Nat /\ down \in Seq(M) /\ Len(down) \in Nat
        /\ Queue \in Seq(M) /\ Len(Queue) = Len(Batch) + Len(down)
        /\ \A i \in 1..Len(Batch) : Queue[i] = Batch[i]
        /\ \A i \in 1..Len(down) : Queue[i + Len(Batch)] = down[i]
    BY QueueFacts
  <1>3. /\ next \in Seq(M) /\ Len(next) = Len(down) + 1 /\ next[Len(down) + 1] = e
        /\ \A i \in 1..Len(down) : next[i] = down[i]
    BY <1>2, AppendIsLonger DEF Longer
  <1> HIDE DEF next, M
  <1>4. /\ Len(Batch \o next) = Len(Batch) + Len(next)
        /\ \A i \in 1..(Len(Batch) + Len(next)) :
             (Batch \o next)[i] = IF i <= Len(Batch) THEN Batch[i] ELSE next[i - Len(Batch)]
    <2>1. Batch \in Seq(M) /\ next \in Seq(M)
      BY <1>2, <1>3
    <2>2. \A b \in Seq(M), c \in Seq(M) :
            /\ Len(b \o c) = Len(b) + Len(c)
            /\ \A i \in 1..(Len(b) + Len(c)) : (b \o c)[i] = IF i <= Len(b) THEN b[i] ELSE c[i - Len(b)]
      BY ConcatProperties
    <2> QED
      BY <2>1, <2>2
  <1>5. Queue' = Batch \o next
    BY <1>1 DEF Queue, next
  <1>6. Len(Queue') = Len(Queue) + 1
    BY <1>2, <1>3, <1>4, <1>5
  <1>7. Queue'[Len(Queue) + 1] = e
    <2>1. Len(Queue) + 1 \in 1..(Len(Batch) + Len(next)) /\ ~(Len(Queue) + 1 <= Len(Batch))
          /\ (Len(Queue) + 1) - Len(Batch) = Len(down) + 1
      BY <1>2, <1>3
    <2> QED
      BY <1>3, <1>4, <1>5, <2>1
  <1>8. \A i \in 1..Len(Queue) : Queue'[i] = Queue[i]
    <2> SUFFICES ASSUME NEW i \in 1..Len(Queue) PROVE Queue'[i] = Queue[i]
      OBVIOUS
    <2>1. CASE i <= Len(Batch)
      BY <1>2, <1>3, <1>4, <1>5, <2>1
    <2>2. CASE ~(i <= Len(Batch))
      <3>1. i - Len(Batch) \in 1..Len(down) /\ (i - Len(Batch)) + Len(Batch) = i
            /\ i \in 1..(Len(Batch) + Len(next))
        BY <1>2, <1>3, <2>2
      <3>2. Queue'[i] = next[i - Len(Batch)]
        BY <1>4, <1>5, <2>2, <3>1
      <3> QED
        BY <1>2, <1>3, <3>1, <3>2
    <2> QED
      BY <2>1, <2>2
  <1> QED
    BY <1>2, <1>6, <1>7, <1>8 DEF Longer

\* What a log may hold.
LEMMA RowsAreMessages ==
  ASSUME Len(log) \in Nat
  PROVE  /\ Rows \subseteq Messages /\ NotLive \in Messages /\ Replay(Len(log)) \in Messages
         /\ Len(log') \in Nat /\ Len(log) <= Len(log') => Messages \subseteq Messages'
  <1>1. MaxSteps \in Nat
    BY BrowserAssumption
  <1>2. \A n \in 0..MaxSteps : n \in -1..(Len(log) + MaxSteps)
    BY <1>1
  <1>3. -1 \in -1..(Len(log) + MaxSteps) /\ Len(log) \in -1..(Len(log) + MaxSteps)
    BY <1>1
  <1>4. Rows \subseteq Messages
    BY <1>2, <1>3 DEF Rows, Messages, Event, StepEvent, Ends
  <1>5. NotLive \in Messages /\ Replay(Len(log)) \in Messages
    BY <1>3 DEF Messages, NotLive, Event, Replay
  <1>6. ASSUME Len(log') \in Nat, Len(log) <= Len(log') PROVE Messages \subseteq Messages'
    <2>1. -1..(Len(log) + MaxSteps) \subseteq -1..(Len(log') + MaxSteps)
      BY <1>1, <1>6
    <2> QED
      BY <2>1 DEF Messages
  <1> QED
    BY <1>4, <1>5, <1>6

-----------------------------------------------------------------------------
(* What the steps of the server and the tab do to the queue.               *)

\* Nothing is sent, received or rendered.
LEMMA Quiet ==
  ASSUME BrowserInv, UNCHANGED <<log, seq, down, size, fresh, processed, view, unread, skipped>>,
         attached' => attached
  PROVE  /\ Logged' /\ Mailed' /\ Tailed' /\ Messages' = Messages
         /\ log' \in Seq(Messages') /\ down' \in Seq(Messages') /\ fresh' \in Seq(Messages')
  <1>1. Batch' = Batch /\ Messages' = Messages
    BY DEF Batch, Messages
  <1>2. Queue' = Queue
    BY <1>1 DEF Queue
  <1>3. Lossless' = Lossless
    BY <1>1 DEF Lossless
  <1>4. Logged'
    BY DEF BrowserInv, Logged
  <1>5. Mailed'
    BY <1>1, <1>2 DEF BrowserInv, Mailed
  <1>6. Tailed'
    BY <1>2, <1>3 DEF BrowserInv, Tailed
  <1> QED
    BY <1>1, <1>4, <1>5, <1>6 DEF BrowserInv, BrowserTypeOK

\* A row is persisted and sent to the tab that is attached.
LEMMA Emitted ==
  ASSUME BrowserInv, NEW e \in Rows, Emit(e), UNCHANGED <<attached, tab>>,
         e.type = "parked" => ~attached, e.type = "started" <=> log = <<>>,
         e.type = "step" => e.seq = seq, seq' = seq + (IF e.type = "step" THEN 1 ELSE 0)
  PROVE  /\ Logged' /\ Mailed' /\ Tailed' /\ log' # <<>> /\ Len(log') = Len(log) + 1
         /\ Ended(log', Len(log')) <=> Ended(log, Len(log)) \/ e.type \in Ends
         /\ log' \in Seq(Messages') /\ down' \in Seq(Messages') /\ fresh' \in Seq(Messages')
  <1>1. /\ BrowserTypeOK /\ Chronicle(log) /\ seq = Told(log, Len(log)) /\ log \in Seq(Rows)
        /\ Len(log) \in Nat
    BY ChronicleFacts DEF BrowserInv, Logged
  <1>2. log' = Append(log, e)
    BY DEF Emit
  <1>3. /\ Chronicle(log') /\ Extends(log, log') /\ Len(log') = Len(log) + 1 /\ log'[Len(log')] = e
        /\ Told(log', Len(log')) = Told(log, Len(log)) + (IF e.type = "step" THEN 1 ELSE 0)
    BY <1>1, <1>2, ChronicleGrows
  <1>4. /\ Longer(log, log', e) /\ log' \in Seq(Rows) /\ Len(log') \in Nat /\ Len(log') > 0
        /\ log' # <<>>
    <2>1. log' \in Seq(Rows) /\ Len(log') \in Nat /\ Len(log') > 0
      BY <1>1, <1>3, ChronicleFacts
    <2> QED
      BY <1>1, <1>2, <2>1, AppendIsLonger, EmptySeq
  <1>5. Ended(log', Len(log')) <=> Ended(log, Len(log)) \/ e.type \in Ends
    BY <1>1, <1>3, <1>4 DEF Ended, Longer
  <1>6. Logged'
    BY <1>1, <1>3 DEF Logged
  <1>7. /\ Batch' = Batch /\ Lossless' = Lossless
        /\ UNCHANGED <<size, fresh, processed, view, unread, skipped>>
    BY DEF Batch, Lossless, tab
  <1>8. Posted(view, Queue, log')
    BY <1>1, <1>3, PostedKept DEF BrowserInv, Mailed
  <1>9. e.type # "parked" => Mail(e, log')
    BY <1>3, <1>4 DEF Mail
  <1>10. ~Note(e) /\ e.type # "replay"
    BY RowTypes DEF Note
  <1>11. CASE attached
    <2>1. down' = Append(down, e)
      BY <1>11 DEF Emit
    <2>2. Longer(Queue, Queue', e)
      BY <1>1, <1>7, <2>1, QueueLonger
    <2>3. Posted(view, Queue', log')
      BY <1>3, <1>8, <1>9, <1>10, <1>11, <2>2, PostedLonger
    <2>4. Mailed'
      BY <1>7, <2>3 DEF BrowserInv, Mailed
    <2>5. HasReplay(Queue') => HasReplay(Queue)
      BY <1>10, <2>2 DEF HasReplay, Longer
    <2>6. Tailed'
      <3> SUFFICES ASSUME CanCatchUp(view, Queue, log) PROVE CanCatchUp(view, Queue', log')
        BY <1>7, <2>5 DEF BrowserInv, Tailed
      <3> QED
        BY <1>1, <1>3, <1>4, <1>10, <2>2, CatchUpLonger
    <2>7. down \in Seq(Messages)
      BY <1>1 DEF BrowserTypeOK
    <2>8. down' \in Seq(Messages')
      <3>1. Rows \subseteq Messages /\ Messages \subseteq Messages'
        BY <1>1, <1>3, <1>4, RowsAreMessages
      <3>2. down \in Seq(Messages') /\ e \in Messages'
        BY <2>7, <3>1
      <3> QED
        BY <2>1, <3>2
    <2> QED
      BY <2>4, <2>6, <2>8, <1>1, <1>3, <1>4, <1>5, <1>6, <1>7, RowsAreMessages DEF BrowserTypeOK
  <1>12. CASE ~attached
    <2>1. down' = down
      BY <1>12 DEF Emit
    <2>2. Queue' = Queue
      BY <1>7, <2>1 DEF Queue
    <2>3. Mailed'
      BY <1>7, <1>8, <2>2 DEF BrowserInv, Mailed
    <2>4. Tailed'
      BY <1>12 DEF Tailed
    <2> QED
      BY <2>1, <2>3, <2>4, <1>1, <1>3, <1>4, <1>5, <1>6, <1>7, RowsAreMessages DEF BrowserTypeOK
  <1> QED
    BY <1>11, <1>12

\* A message that is not a row.
LEMMA Noted ==
  ASSUME BrowserInv, NEW e, down' = Append(down, e),
         UNCHANGED <<log, seq, size, fresh, processed, view, unread, skipped>>,
         \/ e = NotLive /\ (attached' => attached)
         \/ e = Replay(Len(log)) /\ ~Ended(log, Len(log))
  PROVE  /\ Logged' /\ Mailed' /\ Tailed' /\ Messages' = Messages
         /\ log' \in Seq(Messages') /\ down' \in Seq(Messages') /\ fresh' \in Seq(Messages')
  <1>1. BrowserTypeOK /\ Chronicle(log) /\ log \in Seq(Rows) /\ Len(log) \in Nat /\ Extends(log, log)
    BY ChronicleFacts DEF BrowserInv, Logged
  <1>2. Logged' /\ Messages' = Messages
    BY DEF BrowserInv, Logged, Messages
  <1>3. Longer(Queue, Queue', e)
    BY <1>1, QueueLonger
  <1>4. Mail(e, log) /\ (e.type = "replay" => e.seq = Len(log)) /\ Note(e)
        /\ (e = NotLive => e.type # "replay") /\ (e # NotLive => e.type = "replay")
    BY <1>1 DEF Mail, NotLive, Event, Replay, Note
  <1>5. Posted(view, Queue', log')
    <2>1. Posted(view, Queue', log)
      BY <1>1, <1>3, <1>4, PostedLonger DEF BrowserInv, Mailed
    <2> QED
      BY <2>1
  <1>6. Batch' = Batch /\ Lossless' = Lossless
    BY DEF Batch, Lossless
  <1>7. Mailed'
    BY <1>5, <1>6 DEF BrowserInv, Mailed
  <1>8. Tailed'
    <2>1. CASE e = NotLive /\ (attached' => attached)
      <3>1. HasReplay(Queue') => HasReplay(Queue)
        BY <1>3, <1>4, <2>1 DEF HasReplay, Longer
      <3>2. CanCatchUp(view, Queue, log) => CanCatchUp(view, Queue', log)
        BY <1>1, <1>3, <1>4, <2>1, CatchUpLonger
      <3> QED
        BY <1>6, <2>1, <3>1, <3>2 DEF BrowserInv, Tailed
    <2>2. CASE e.type = "replay"
      <3>1. CanCatchUp(view, Queue', log)
        BY <1>1, <1>3, <1>4, <2>2, CatchUpReplay
      <3> QED
        BY <3>1 DEF Tailed
    <2>3. e = Replay(Len(log)) => e.type = "replay"
      BY DEF Replay
    <2> QED
      BY <2>1, <2>2, <2>3
  <1>9. e \in Messages
    BY <1>1, RowsAreMessages
  <1> QED
    BY <1>1, <1>2, <1>7, <1>8, <1>9 DEF BrowserTypeOK

\* The connection is gone, and with it what was on its way.
LEMMA Lost ==
  ASSUME BrowserInv, down' = <<>>, ~attached',
         UNCHANGED <<log, seq, size, fresh, processed, view, unread, skipped>>
  PROVE  /\ Logged' /\ Mailed' /\ Tailed' /\ Messages' = Messages
         /\ log' \in Seq(Messages') /\ down' \in Seq(Messages') /\ fresh' \in Seq(Messages')
  <1>1. BrowserTypeOK
    BY DEF BrowserInv
  <1>2. Logged' /\ Messages' = Messages /\ Tailed'
    BY DEF BrowserInv, Logged, Messages, Tailed
  <1>3. Batch' = Batch
    BY DEF Batch
  <1>4. /\ Len(Batch) \in Nat /\ Len(down) \in Nat /\ Len(Queue) \in Nat
        /\ Len(Queue) = Len(Batch) + Len(down) /\ \A i \in 1..Len(Batch) : Queue[i] = Batch[i]
        /\ Batch \in Seq(Messages)
    BY <1>1, QueueFacts
  <1>5. Queue' = Batch
    BY <1>3, <1>4, ConcatEmptySeq DEF Queue
  <1>6. Posted(view, Batch, log)
    <2>1. Posted(view, Queue, log) /\ Viewed(view, log) /\ NoGapAhead(view, Queue, 0, log)
      BY DEF BrowserInv, Mailed, Posted
    <2>2. \A i \in 1..Len(Batch) : Batch[i] = Queue[i + 0]
      BY <1>4
    <2>3. Len(Batch) + 0 + Len(down) = Len(Queue) /\ 0 \in Nat
      BY <1>4
    <2> QED
      BY <1>4, <2>1, <2>2, <2>3, PostedPart
  <1>7. Mailed'
    BY <1>3, <1>5, <1>6 DEF BrowserInv, Mailed
  <1> QED
    BY <1>1, <1>2, <1>7 DEF BrowserTypeOK

-----------------------------------------------------------------------------
(* The tab reads its queue.                                                *)

\* What onmessage leaves to read is the queue without its first d messages.
LEMMA ReceivedQueue ==
  ASSUME BrowserInv, Receive
  PROVE  /\ fresh' \in Seq(Messages) /\ Len(fresh') <= size' /\ size' \in 0..Cap
         /\ \E d \in 0..Len(Queue) : /\ Suffix(Queue, Queue', d)
                                     /\ Len(Batch') = Len(Batch) + 1 - d
                                     /\ Len(Batch') \in Nat
  <1> DEFINE h == Head(down)
             whole == Append(fresh, h)
             n == IF size' < processed' THEN 1 ELSE size' - processed'
             rest == Tail(down)
  <1>1. /\ BrowserTypeOK /\ down \in Seq(Messages) /\ down # <<>> /\ fresh \in Seq(Messages)
        /\ down' = rest /\ processed' = processed
        /\ size \in 0..Cap /\ Len(fresh) <= size /\ processed \in 0..Cap
        /\ Cap \in Nat /\ Keep \in 1..Cap
    BY BrowserAssumption DEF BrowserInv, BrowserTypeOK, Receive
  <1>2. /\ h \in Messages /\ rest \in Seq(Messages) /\ Len(rest) = Len(down) - 1 /\ Len(down) \in Nat
        /\ Len(rest) \in Nat /\ h = down[1] /\ \A i \in 1..Len(rest) : rest[i] = down[i + 1]
    BY <1>1, HeadTailProperties
  <1>3. /\ whole \in Seq(Messages) /\ Len(whole) = Len(fresh) + 1 /\ whole[Len(fresh) + 1] = h
        /\ \A i \in 1..Len(fresh) : whole[i] = fresh[i]
        /\ Len(fresh) \in Nat
    BY <1>1, <1>2, AppendProperties
  <1>4. IF size = Cap THEN size' = Keep /\ fresh' = LastOf(whole, Keep)
                      ELSE size' = size + 1 /\ fresh' = whole
    BY DEF Receive
  <1>5. Batch' = LastOf(fresh', n)
    BY DEF Batch
  <1> HIDE DEF h, whole, rest
  <1>6. n \in Nat /\ n <= Owed + 1 /\ Owed \in Nat /\ size' \in 0..Cap
    BY <1>1, <1>4 DEF Owed
  <1> HIDE DEF n
  <1>7. /\ fresh' \in Seq(Messages) /\ Len(fresh') \in Nat /\ Len(fresh') <= Len(whole)
        /\ Len(fresh') <= size'
        /\ \A i \in 1..Len(fresh') : fresh'[i] = whole[i + (Len(whole) - Len(fresh'))]
    <2>1. CASE size = Cap
      <3>1. fresh' = LastOf(whole, Keep) /\ Keep \in Nat /\ size' = Keep
        BY <1>1, <1>4, <2>1
      <3>2. /\ fresh' \in Seq(Messages) /\ Len(fresh') = (IF Len(whole) > Keep THEN Keep ELSE Len(whole))
            /\ \A i \in 1..Len(fresh') : fresh'[i] = whole[i + (Len(whole) - Len(fresh'))]
        BY <1>3, <3>1, LastOfFacts
      <3>3. Len(fresh') \in Nat /\ Len(fresh') <= Len(whole) /\ Len(fresh') <= size'
        <4>1. Len(whole) \in Nat /\ Len(fresh') \in Nat
          BY <1>3, <3>2
        <4>2. Len(fresh') = (IF Len(whole) > Keep THEN Keep ELSE Len(whole))
          BY <3>2
        <4> QED
          BY <3>1, <4>1, <4>2
      <3> QED
        BY <3>2, <3>3
    <2>2. CASE size # Cap
      <3>1. fresh' = whole /\ size' = size + 1
        BY <1>4, <2>2
      <3>2. Len(whole) \in Nat /\ Len(whole) <= size' /\ whole \in Seq(Messages)
        BY <1>1, <1>3, <3>1
      <3>3. \A i \in 1..Len(whole) : i + (Len(whole) - Len(whole)) = i
        BY <3>2
      <3> HIDE DEF whole
      <3> QED
        BY <3>1, <3>2, <3>3
    <2> QED
      BY <2>1, <2>2
  <1>8. /\ Batch' \in Seq(Messages) /\ Len(Batch') \in Nat
        /\ Len(Batch') = (IF Len(fresh') > n THEN n ELSE Len(fresh'))
        /\ \A i \in 1..Len(Batch') : Batch'[i] = fresh'[i + (Len(fresh') - Len(Batch'))]
    BY <1>5, <1>6, <1>7, LastOfFacts
  <1>9. /\ Batch \in Seq(Messages) /\ Len(Batch) \in Nat
        /\ Len(Batch) = (IF Len(fresh) > Owed THEN Owed ELSE Len(fresh))
        /\ \A i \in 1..Len(Batch) : Batch[i] = fresh[i + (Len(fresh) - Len(Batch))]
    BY <1>1, BatchFacts
  <1> DEFINE F == Len(fresh)
             G == Len(fresh')
             B == Len(Batch)
             C == Len(Batch')
             W == Len(whole)
             d == (B + 1) - C
  <1>17. /\ F \in Nat /\ G \in Nat /\ B \in Nat /\ C \in Nat /\ W = F + 1 /\ G <= W
         /\ C = (IF G > n THEN n ELSE G) /\ B = (IF F > Owed THEN Owed ELSE F)
    BY <1>3, <1>7, <1>8, <1>9
  <1> HIDE DEF F, G, B, C, W
  <1>18. C <= G /\ B <= F /\ C <= B + 1
    BY <1>6, <1>17
  <1>11. d \in Nat /\ d <= B + 1 /\ C = B + 1 - d
    BY <1>17, <1>18
  <1>19. \A i \in 1..C : i + (G - C) \in 1..G /\ (i + (G - C)) + (W - G) = i + (W - C)
    BY <1>17, <1>18
  <1>20. \A i \in 1..C : i + (W - C) = (i + d) + (F - B) /\ i + d \in 1..(B + 1)
    BY <1>17, <1>18
  <1>10. \A i \in 1..Len(Batch') : Batch'[i] = whole[i + (Len(whole) - Len(Batch'))]
    <2> SUFFICES ASSUME NEW i \in 1..Len(Batch') PROVE Batch'[i] = whole[i + (Len(whole) - Len(Batch'))]
      OBVIOUS
    <2> DEFINE j == i + (Len(fresh') - Len(Batch'))
    <2>1. j \in 1..Len(fresh') /\ j + (Len(whole) - Len(fresh')) = i + (Len(whole) - Len(Batch'))
      BY <1>19 DEF G, C, W
    <2>2. Batch'[i] = fresh'[j]
      BY <1>8
    <2> HIDE DEF j
    <2>3. fresh'[j] = whole[j + (Len(whole) - Len(fresh'))]
      BY <1>7, <2>1
    <2> QED
      BY <2>1, <2>2, <2>3
  <1> HIDE DEF d
  <1>12. /\ Queue' \in Seq(Messages) /\ Len(Queue') = Len(Batch') + Len(rest)
         /\ \A i \in 1..(Len(Batch') + Len(rest)) :
              Queue'[i] = IF i <= Len(Batch') THEN Batch'[i] ELSE rest[i - Len(Batch')]
    <2>1. Queue' = Batch' \o rest
      BY <1>1 DEF Queue
    <2>2. \A b \in Seq(Messages), c \in Seq(Messages) :
            /\ b \o c \in Seq(Messages) /\ Len(b \o c) = Len(b) + Len(c)
            /\ \A i \in 1..(Len(b) + Len(c)) : (b \o c)[i] = IF i <= Len(b) THEN b[i] ELSE c[i - Len(b)]
      BY ConcatProperties
    <2> QED
      BY <1>2, <1>8, <2>1, <2>2
  <1>13. /\ Len(Queue) \in Nat /\ Len(Queue) = Len(Batch) + Len(down)
         /\ \A i \in 1..Len(Batch) : Queue[i] = Batch[i]
         /\ \A i \in 1..Len(down) : Queue[i + Len(Batch)] = down[i]
    BY <1>1, QueueFacts
  <1>14. Len(Queue') = Len(Queue) - d /\ d \in 0..Len(Queue)
    <2>1. Len(Queue') = C + Len(rest) /\ Len(Queue) = B + Len(down)
      BY <1>12, <1>13 DEF B, C
    <2>2. /\ C \in Nat /\ B \in Nat /\ d \in Nat /\ C = B + 1 - d /\ d <= B + 1
          /\ Len(down) \in Nat /\ Len(rest) \in Nat /\ Len(rest) = Len(down) - 1
      BY <1>2, <1>11, <1>17
    <2> QED
      BY <2>1, <2>2
  <1>15. \A i \in 1..Len(Queue') : Queue'[i] = Queue[i + d]
    <2> SUFFICES ASSUME NEW i \in 1..Len(Queue') PROVE Queue'[i] = Queue[i + d]
      OBVIOUS
    <2>1. CASE i <= Len(Batch')
      <3>1. i \in 1..Len(Batch') /\ Queue'[i] = Batch'[i]
        BY <1>2, <1>8, <1>12, <2>1
      <3>2. Batch'[i] = whole[i + (Len(whole) - Len(Batch'))]
        BY <1>10, <3>1
      <3>3. i + (Len(whole) - Len(Batch')) = (i + d) + (Len(fresh) - Len(Batch))
            /\ i + d \in 1..(Len(Batch) + 1)
        BY <1>20, <3>1 DEF F, B, C, W
      <3>4. CASE i + d = Len(Batch) + 1
        <4>1. i + (Len(whole) - Len(Batch')) = Len(fresh) + 1
          <5>1. i + (Len(whole) - Len(Batch')) = (B + 1) + (F - B)
            BY <3>3, <3>4 DEF B, F
          <5>2. (B + 1) + (F - B) = F + 1
            BY <1>17
          <5> QED
            BY <5>1, <5>2 DEF F
        <4>2. Queue[i + d] = down[1]
          <5>1. 1 \in 1..Len(down) /\ 1 + Len(Batch) = i + d
            BY <1>1, <1>2, <1>9, <3>4
          <5> QED
            BY <1>13, <5>1
        <4> QED
          BY <1>2, <1>3, <3>1, <3>2, <4>1, <4>2
      <3>5. CASE i + d # Len(Batch) + 1
        <4>1. i + d \in 1..Len(Batch)
          BY <1>17, <3>3, <3>5 DEF B
        <4>2. Queue[i + d] = fresh[(i + d) + (Len(fresh) - Len(Batch))]
          BY <1>9, <1>13, <4>1
        <4>3. (i + d) + (Len(fresh) - Len(Batch)) \in 1..Len(fresh)
          BY <1>3, <1>9, <4>1
        <4> QED
          BY <1>3, <3>1, <3>2, <3>3, <4>2, <4>3
      <3> QED
        BY <3>4, <3>5
    <2>2. CASE ~(i <= Len(Batch'))
      <3>1. i - Len(Batch') \in 1..Len(rest) /\ i \in 1..(Len(Batch') + Len(rest))
        BY <1>2, <1>8, <1>12, <2>2
      <3>2. Queue'[i] = rest[i - Len(Batch')]
        BY <1>12, <2>2, <3>1
      <3>3. rest[i - Len(Batch')] = down[(i - Len(Batch')) + 1]
        BY <1>2, <3>1
      <3>4. (i - Len(Batch')) + 1 \in 1..Len(down) /\ ((i - Len(Batch')) + 1) + Len(Batch) = i + d
        <4>1. i \in Nat /\ d \in Nat /\ B \in Nat /\ C \in Nat /\ C = B + 1 - d /\ Len(down) \in Nat
              /\ Len(rest) = Len(down) - 1
          BY <1>2, <1>11, <1>17, <3>1
        <4>2. i - C \in 1..(Len(down) - 1)
          BY <3>1, <4>1 DEF C
        <4>3. (i - C) + 1 \in 1..Len(down) /\ ((i - C) + 1) + B = i + d
          BY <4>1, <4>2
        <4> QED
          BY <4>3 DEF B, C
      <3> QED
        BY <1>13, <3>2, <3>3, <3>4
    <2> QED
      BY <2>1, <2>2
  <1>16. Suffix(Queue, Queue', d)
    BY <1>13, <1>14, <1>15 DEF Suffix
  <1> QED
    BY <1>6, <1>7, <1>8, <1>11, <1>14, <1>16 DEF B, C

\* Without its first messages the queue is still good.
LEMMA PostedSuffix ==
  ASSUME NEW l, NEW v, NEW q, Posted(v, q, l), NEW k, NEW d, Suffix(q, k, d), NEW w, Viewed(w, l),
         NoGapAhead(w, q, d, l)
  PROVE  Posted(w, k, l)
  <1>1. Len(q) \in Nat /\ d \in Nat /\ Len(k) \in Nat /\ Len(k) + d + 0 = Len(q) /\ 0 \in Nat
        /\ \A i \in 1..Len(k) : k[i] = q[i + d]
    BY DEF Suffix
  <1> QED
    BY <1>1, PostedPart

LEMMA Received ==
  ASSUME BrowserInv, Receive
  PROVE  BrowserTypeOK' /\ Logged' /\ Mailed' /\ Tailed'
  <1>1. PICK d \in 0..Len(Queue) : /\ Suffix(Queue, Queue', d)
                                   /\ Len(Batch') = Len(Batch) + 1 - d /\ Len(Batch') \in Nat
    BY ReceivedQueue
  <1>2. UNCHANGED <<log, seq, run, locked, attached, online, open, up, fetch, processed, view, skipped>>
        /\ unread' = unread + 1 /\ down # <<>> /\ down' = Tail(down)
    BY DEF Receive, server, page
  <1>3. BrowserTypeOK /\ Len(Batch) \in Nat /\ unread \in Nat /\ Len(Queue) \in Nat /\ d \in Nat
    BY BatchFacts, QueueFacts DEF BrowserInv, BrowserTypeOK
  <1>4. Messages' = Messages
    BY <1>2 DEF Messages
  <1>5. Logged'
    BY <1>2 DEF BrowserInv, Logged
  <1>6. BrowserTypeOK'
    <2>1. Tail(down) \in Seq(Messages)
      BY <1>2, <1>3 DEF BrowserTypeOK
    <2>2. fresh' \in Seq(Messages) /\ Len(fresh') <= size' /\ size' \in 0..Cap
      BY ReceivedQueue
    <2> QED
      BY <1>2, <1>3, <1>4, <2>1, <2>2 DEF BrowserTypeOK
  <1>7. Posted(view, Queue, log) /\ Viewed(view, log) /\ NoGapAhead(view, Queue, 0, log)
        /\ Len(Batch) <= unread
    BY DEF BrowserInv, Mailed, Posted
  <1>8. NoGapAhead(view, Queue, d, log)
    <2>1. \A j \in (d + 1)..Len(Queue) : j \in (0 + 1)..Len(Queue)
      BY <1>3
    <2> QED
      BY <1>7, <2>1 DEF NoGapAhead
  <1>9. Posted(view, Queue', log)
    BY <1>1, <1>7, <1>8, PostedSuffix
  <1>10. Mailed'
    BY <1>1, <1>2, <1>3, <1>7, <1>9 DEF Mailed
  <1>11. Tailed'
    <2> SUFFICES ASSUME attached, Lossless' \/ HasReplay(Queue') PROVE CanCatchUp(view, Queue', log)
      BY <1>2 DEF Tailed
    <2>1. CASE HasReplay(Queue')
      <3>1. PICK i \in 1..Len(Queue') : Queue'[i].type = "replay"
        BY <2>1 DEF HasReplay
      <3>2. i + d \in 1..Len(Queue) /\ Queue[i + d].type = "replay" /\ i + d > d
        BY <1>1, <1>3, <3>1 DEF Suffix
      <3>3. CanCatchUp(view, Queue, log)
        BY <3>2 DEF BrowserInv, Tailed, HasReplay
      <3>4. PICK from \in 0..Len(Queue), p \in [0..Len(Queue) -> 0..Len(log)] :
              Traced(view, Queue, from, p, log)
        BY <3>3 DEF CanCatchUp
      <3>5. d < from
        <4> SUFFICES ASSUME from <= d PROVE FALSE
          BY <1>3
        <4>1. i + d \in (from + 1)..Len(Queue)
          BY <1>3, <3>2
        <4> QED
          BY <3>2, <3>4, <4>1 DEF Traced
      <3> QED
        BY <1>1, <3>4, <3>5, CatchUpSuffix
    <2>2. CASE Lossless'
      <3>1. d = 0 /\ Lossless
        <4>1. Len(Batch') = unread + 1 /\ ~skipped
          BY <1>2, <2>2 DEF Lossless
        <4> QED
          BY <1>1, <1>3, <1>7, <4>1 DEF Lossless
      <3>2. PICK from \in 0..Len(Queue), p \in [0..Len(Queue) -> 0..Len(log)] :
              Traced(view, Queue, from, p, log)
        BY <3>1 DEF BrowserInv, Tailed, CanCatchUp
      <3>3. d < from \/ (from <= d /\ Current(view, p[d], log))
        BY <1>3, <3>1, <3>2 DEF Traced
      <3> QED
        BY <1>1, <3>2, <3>3, CatchUpSuffix
    <2> QED
      BY <2>1, <2>2
  <1> QED
    BY <1>5, <1>6, <1>10, <1>11

\* The effect renders the batch.
LEMMA Rendering ==
  ASSUME BrowserInv, Effect
  PROVE  /\ BrowserTypeOK' /\ Logged' /\ Mailed' /\ Tailed'
         /\ Event("started") \notin ToSet(Batch) => ToSet(view.steps) \subseteq ToSet(view'.steps)
  <1> DEFINE N == Len(Batch)
  <1>1. UNCHANGED <<log, seq, run, locked, attached, online, open, up, fetch, down, size>>
        /\ unread' = 0 /\ fresh' = <<>> /\ processed' = size /\ view' = Rendered(view, Batch)
        /\ skipped' = (ReplaysIn(Batch) = {} /\ (skipped \/ Len(Batch) < unread))
    BY DEF Effect, server, wire, page
  <1>2. /\ BrowserTypeOK /\ N \in Nat /\ Len(down) \in Nat /\ Len(Queue) = N + Len(down)
        /\ Len(Queue) \in Nat /\ unread \in Nat /\ N <= unread
        /\ \A i \in 1..N : Queue[i] = Batch[i]
        /\ \A i \in 1..Len(down) : Queue[i + N] = down[i]
        /\ N \in 0..Len(Queue) /\ Chronicle(log) /\ view \in View /\ Batch \in Seq(Messages)
        /\ DOMAIN Batch = 1..N /\ down \in Seq(Messages)
    BY QueueFacts DEF BrowserInv, BrowserTypeOK, Mailed, Logged
  <1>3. Posted(view, Queue, log) /\ \A i \in 1..N : Mail(Batch[i], log)
    BY <1>2 DEF BrowserInv, Mailed, Posted
  <1>4. PICK f \in [0..N -> View] :
          /\ f[0] = view /\ \A k \in 1..N : f[k] = Reduced(f[k - 1], Batch[k])
          /\ Rendered(view, Batch) = f[N]
    <2>1. \A i \in 1..N, v \in View : Reduced(v, Batch[i]) \in View
      BY <1>2, <1>3, ReducedTypes
    <2> QED
      BY <1>2, <2>1, RenderedSteps
  <1>5. Batch' = <<>>
    <2> DEFINE n == IF size' < processed' THEN 1 ELSE size' - processed'
    <2>1. Batch' = LastOf(<<>>, n)
      BY <1>1 DEF Batch
    <2>2. n \in Nat
      BY <1>1, <1>2 DEF BrowserTypeOK
    <2> HIDE DEF n
    <2> QED
      BY <2>1, <2>2 DEF LastOf
  <1>6. Queue' = down
    BY <1>1, <1>2, <1>5, ConcatEmptySeq DEF Queue
  <1>7. Suffix(Queue, Queue', N)
    BY <1>2, <1>6 DEF Suffix
  <1> HIDE DEF N
  <1>8. \A k \in 1..N : f[k] = Reduced(f[k - 1], Queue[k])
    BY <1>2, <1>4
  <1>9. \A k \in 0..N :
          /\ Viewed(f[k], log) /\ NoGapAhead(f[k], Queue, k, log)
          /\ (\A i \in 1..k : Queue[i].type # "started") => ToSet(view.steps) \subseteq ToSet(f[k].steps)
    <2>1. Len(Queue) \in Nat /\ N \in 0..Len(Queue) /\ Chronicle(log)
      BY <1>2 DEF N
    <2>2. f[0] = view /\ Posted(view, Queue, log)
      BY <1>3, <1>4
    <2> QED
      BY <1>8, <2>1, <2>2, BatchViewed
  <1>10. view' = f[N] /\ N \in 0..N /\ view' \in View
    BY <1>1, <1>2, <1>4
  <1>11. Posted(view', Queue', log)
    BY <1>3, <1>7, <1>9, <1>10, PostedSuffix
  <1>12. Mailed'
    BY <1>1, <1>5, <1>11 DEF Mailed
  <1>13. Messages' = Messages
    BY <1>1 DEF Messages
  <1>14. BrowserTypeOK'
    BY <1>1, <1>2, <1>10, <1>13 DEF BrowserTypeOK
  <1>15. Logged'
    BY <1>1 DEF BrowserInv, Logged
  <1>16. ReplaysIn(Batch) # {} <=> \E i \in 1..N : Queue[i].type = "replay"
    BY <1>2 DEF ReplaysIn, ToSet
  <1>17. Tailed'
    <2> SUFFICES ASSUME attached, Lossless' \/ HasReplay(Queue') PROVE CanCatchUp(view', Queue', log)
      BY <1>1 DEF Tailed
    <2>1. Lossless \/ HasReplay(Queue)
      <3>1. CASE HasReplay(Queue')
        <4>1. PICK i \in 1..Len(down) : down[i].type = "replay"
          BY <1>6, <3>1 DEF HasReplay
        <4>2. N \in Nat /\ Len(down) \in Nat /\ Len(Queue) = N + Len(down) /\ Queue[i + N] = down[i]
          BY <1>2, <4>1 DEF N
        <4>3. i + N \in 1..Len(Queue) /\ Queue[i + N].type = "replay"
          BY <4>1, <4>2
        <4> QED
          BY <4>3 DEF HasReplay
      <3>2. CASE Lossless' /\ ReplaysIn(Batch) # {}
        <4>1. PICK i \in 1..N : Queue[i].type = "replay"
          BY <1>16, <3>2
        <4>2. i \in 1..Len(Queue)
          BY <1>2
        <4> QED
          BY <4>1, <4>2 DEF HasReplay
      <3>3. CASE Lossless' /\ ReplaysIn(Batch) = {}
        <4>1. ~skipped /\ ~(N < unread)
          BY <1>1, <3>3 DEF Lossless, N
        <4>2. N \in Nat /\ unread \in Nat /\ N <= unread
          BY <1>2 DEF N
        <4>3. N = unread
          BY <4>1, <4>2
        <4> QED
          BY <4>1, <4>3 DEF Lossless, N
      <3> QED
        BY <3>1, <3>2, <3>3
    <2>2. PICK from \in 0..Len(Queue), p \in [0..Len(Queue) -> 0..Len(log)] :
            Traced(view, Queue, from, p, log)
      BY <2>1 DEF BrowserInv, Tailed, CanCatchUp
    <2>3. CASE N < from
      BY <1>7, <2>2, <2>3, CatchUpSuffix
    <2>4. CASE ~(N < from)
      <3>1. from \in 0..N /\ from <= N
        BY <1>2, <2>4
      <3>2. Current(f[N], p[N], log)
        BY <1>2, <1>3, <1>4, <1>8, <2>2, <3>1, BatchCurrent
      <3> QED
        BY <1>7, <1>10, <2>2, <3>1, <3>2, CatchUpSuffix
    <2> QED
      BY <2>3, <2>4
  <1>18. Event("started") \notin ToSet(Batch) => ToSet(view.steps) \subseteq ToSet(view'.steps)
    <2> SUFFICES ASSUME Event("started") \notin ToSet(Batch)
                 PROVE  \A i \in 1..N : Queue[i].type # "started"
      BY <1>9, <1>10
    <2> SUFFICES ASSUME NEW i \in 1..N, Queue[i].type = "started" PROVE FALSE
      OBVIOUS
    <2>1. Mail(Batch[i], log) /\ Batch[i].type = "started"
      BY <1>2, <1>3
    <2>2. Batch[i] \in Rows
      BY <1>2, <2>1, MailTypes
    <2>3. Batch[i] = Event("started")
      BY <2>1, <2>2, RowTypes
    <2> QED
      BY <1>2, <2>3 DEF ToSet
  <1> QED
    BY <1>12, <1>14, <1>15, <1>17, <1>18

-----------------------------------------------------------------------------
(* The invariant is kept, an action at a time.                             *)

\* An action that persists a row.
LEMMA EmitStep ==
  ASSUME BrowserInv, NEW e \in Rows, Emit(e), UNCHANGED <<attached, launches, online, open, fetch, tab>>,
         e.type = "parked" => ~attached, e.type = "started" <=> log = <<>>,
         e.type = "step" => e.seq = seq, seq' = seq + (IF e.type = "step" THEN 1 ELSE 0),
         seq' \in 0..MaxSteps, locked' \in BOOLEAN, up' = up \/ (up # <<>> /\ up' = Tail(up)),
         run' \in {"running", "asking", "parked", "over"}, launches # 0,
         run' = "over" <=> Ended(log, Len(log)) \/ e.type \in Ends
  PROVE  BrowserInv'
  <1>1. /\ Logged' /\ Mailed' /\ Tailed' /\ log' # <<>> /\ Len(log') = Len(log) + 1
        /\ Ended(log', Len(log')) <=> Ended(log, Len(log)) \/ e.type \in Ends
        /\ log' \in Seq(Messages') /\ down' \in Seq(Messages') /\ fresh' \in Seq(Messages')
    BY Emitted
  <1>2. BrowserTypeOK /\ OneRun /\ Len(log) \in Nat
    BY ChronicleFacts DEF BrowserInv, Logged
  <1>3. up' \in Seq({"subscribe", "unsubscribe", "decision"})
    <2>1. up \in Seq({"subscribe", "unsubscribe", "decision"})
      BY <1>2 DEF BrowserTypeOK
    <2> QED
      BY <2>1, HeadTailProperties
  <1>4. BrowserTypeOK'
    <2>1. fetch' \in {NoFetch, Sent} \cup 0..Len(log')
      BY <1>1, <1>2 DEF BrowserTypeOK
    <2> QED
      BY <1>1, <1>2, <1>3, <2>1 DEF BrowserTypeOK, tab, Live
  <1>5. OneRun'
    BY <1>1, <1>2 DEF OneRun, Live
  <1> QED
    BY <1>1, <1>4, <1>5 DEF BrowserInv

LEMMA RunEmits ==
  ASSUME BrowserInv, Start \/ RunSteps \/ Ask \/ Park \/ Over \/ OtherTabDecides
  PROVE  BrowserInv'
  <1>1. /\ BrowserTypeOK /\ OneRun /\ seq \in 0..MaxSteps /\ locked \in BOOLEAN /\ MaxSteps \in Nat
        /\ NoFetch # Sent
    BY BrowserAssumption DEF BrowserInv, BrowserTypeOK, NoFetch, Sent
  <1>2. \A t \in {"started", "pause", "parked", "locked", "complete", "error"} :
          Event(t) \in Rows /\ Event(t).type = t
    BY DEF Rows, Event, Ends
  <1>3. CASE Start
    <2>1. Event("started") \in Rows /\ Event("started").type = "started" /\ "started" \notin Ends
      BY <1>2 DEF Ends
    <2>2. /\ Emit(Event("started")) /\ UNCHANGED <<attached, launches, online, open, fetch, tab>>
          /\ seq' = seq /\ locked' = locked /\ up' = up /\ run = "starting" /\ run' = "running"
      BY <1>3 DEF Start, page
    <2>3. log = <<>> /\ launches # 0 /\ ~Ended(log, Len(log))
      BY <1>1, <2>2 DEF OneRun, Live
    <2> QED
      BY <1>1, <2>1, <2>2, <2>3, EmitStep
  <1>4. CASE RunSteps
    <2>1. /\ Emit(StepEvent(seq)) /\ UNCHANGED <<attached, launches, online, open, fetch, tab>>
          /\ seq' = seq + 1 /\ locked' = locked /\ up' = up /\ run = "running" /\ run' = "running"
          /\ seq < MaxSteps
      BY <1>4 DEF RunSteps, page
    <2>2. StepEvent(seq) \in Rows /\ StepEvent(seq).type = "step" /\ StepEvent(seq).seq = seq
          /\ "step" \notin Ends
      BY <1>1 DEF Rows, StepEvent, Ends
    <2>3. log # <<>> /\ launches # 0 /\ ~Ended(log, Len(log))
      BY <1>1, <2>1 DEF OneRun, Live
    <2>4. seq + 1 \in 0..MaxSteps
      BY <1>1, <2>1
    <2> QED
      BY <1>1, <2>1, <2>2, <2>3, <2>4, EmitStep
  <1>5. CASE Ask
    <2>1. Event("pause") \in Rows /\ Event("pause").type = "pause" /\ "pause" \notin Ends
      BY <1>2 DEF Ends
    <2>2. /\ Emit(Event("pause")) /\ UNCHANGED <<attached, launches, online, open, fetch, tab>>
          /\ seq' = seq /\ locked' \in BOOLEAN /\ up' = up /\ run = "running" /\ run' = "asking"
      BY <1>5 DEF Ask, page
    <2>3. log # <<>> /\ launches # 0 /\ ~Ended(log, Len(log))
      BY <1>1, <2>2 DEF OneRun, Live
    <2> QED
      BY <1>1, <2>1, <2>2, <2>3, EmitStep
  <1>6. CASE Park
    <2>1. Event("parked") \in Rows /\ Event("parked").type = "parked" /\ "parked" \notin Ends
      BY <1>2 DEF Ends
    <2>2. /\ Emit(Event("parked")) /\ UNCHANGED <<attached, launches, online, open, fetch, tab>>
          /\ seq' = seq /\ locked' \in BOOLEAN /\ up' = up /\ run = "running" /\ run' = "parked" /\ ~attached
      BY <1>6 DEF Park, page
    <2>3. log # <<>> /\ launches # 0 /\ ~Ended(log, Len(log))
      BY <1>1, <2>2 DEF OneRun, Live
    <2> QED
      BY <1>1, <2>1, <2>2, <2>3, EmitStep
  <1>7. CASE Over
    <2>1. PICK t \in Ends : Emit(Event(t))
      BY <1>7 DEF Over, Ends
    <2>2. Event(t) \in Rows /\ Event(t).type = t /\ t # "started" /\ t # "parked" /\ t # "step"
      BY <1>2 DEF Ends
    <2>3. /\ UNCHANGED <<attached, launches, online, open, fetch, tab>>
          /\ seq' = seq /\ locked' = locked /\ up' = up /\ run \in {"running", "asking", "parked"}
          /\ run' = "over"
      BY <1>7 DEF Over, page, Live
    <2>4. log # <<>> /\ launches # 0
      BY <1>1, <2>3 DEF OneRun
    <2> QED
      BY <1>1, <2>1, <2>2, <2>3, <2>4, EmitStep
  <1>8. CASE OtherTabDecides
    <2>1. Event("locked") \in Rows /\ Event("locked").type = "locked" /\ "locked" \notin Ends
      BY <1>2 DEF Ends
    <2>2. /\ Emit(Event("locked")) /\ UNCHANGED <<attached, launches, online, open, fetch, tab>>
          /\ seq' = seq /\ locked' \in BOOLEAN /\ up' = up /\ run # "none"
          /\ run' = (IF run \in Blocked THEN "running" ELSE run)
      BY <1>8 DEF OtherTabDecides, Resolved, page
    <2>3. log # <<>>
      BY <1>8, EmptySeq DEF OtherTabDecides, ToSet
    <2>4. /\ launches # 0 /\ run \in {"running", "asking", "parked", "over"}
          /\ run = "over" <=> Ended(log, Len(log))
      BY <1>1, <2>2, <2>3 DEF OneRun, BrowserTypeOK, Live
    <2>5. run' \in {"running", "asking", "parked", "over"} /\ (run' = "over" <=> run = "over")
      BY <2>2, <2>4 DEF Blocked
    <2> QED
      BY <1>1, <2>1, <2>2, <2>3, <2>4, <2>5, EmitStep
  <1> QED
    BY <1>3, <1>4, <1>5, <1>6, <1>7, <1>8

\* An action of the server or of the page that persists, sends and renders nothing.
LEMMA QuietSteps ==
  ASSUME BrowserInv,
         StartFails \/ Wake \/ Connect \/ OpenPage \/ ClosePage \/ FetchReads \/ UNCHANGED browser
  PROVE  BrowserInv'
  <1>1. /\ UNCHANGED <<log, seq, down, attached, launches, size, fresh, processed, view, unread, skipped>>
    BY DEF StartFails, Wake, Connect, OpenPage, ClosePage, FetchReads, browser, server, wire, page, tab
  <1>2. /\ Logged' /\ Mailed' /\ Tailed' /\ Messages' = Messages
        /\ log' \in Seq(Messages') /\ down' \in Seq(Messages') /\ fresh' \in Seq(Messages')
    BY <1>1, Quiet
  <1>3. BrowserTypeOK /\ OneRun /\ Len(log) \in Nat
    BY ChronicleFacts DEF BrowserInv, Logged
  <1> DEFINE Asks == {"subscribe", "unsubscribe", "decision"}
  <1>4. up \in Seq(Asks) /\ Len(up) \in Nat
    BY <1>3 DEF BrowserTypeOK
  <1>5. /\ up' \in Seq(Asks)
        /\ \A i \in 1..Len(up') : up'[i] = "decision" => log # <<>>
    <2>1. CASE up' = up
      BY <1>3, <1>4, <2>1 DEF OneRun
    <2>2. CASE up' = <<>>
      BY <2>2
    <2>3. CASE up' = <<"subscribe">>
      BY <2>3
    <2>4. CASE \E m \in {"subscribe", "unsubscribe"} : up' = Append(up, m)
      <3>1. PICK m \in {"subscribe", "unsubscribe"} : up' = Append(up, m)
        BY <2>4
      <3>2. /\ Append(up, m) \in Seq(Asks) /\ Len(Append(up, m)) = Len(up) + 1
            /\ \A i \in 1..Len(up) : Append(up, m)[i] = up[i]
            /\ Append(up, m)[Len(up) + 1] = m
        BY <1>4, AppendProperties
      <3>3. \A i \in 1..(Len(up) + 1) : i \in 1..Len(up) \/ i = Len(up) + 1
        BY <1>4
      <3> QED
        BY <1>3, <3>1, <3>2, <3>3 DEF OneRun
    <2> QED
      BY <2>1, <2>2, <2>3, <2>4
      DEF StartFails, Wake, Connect, OpenPage, ClosePage, FetchReads, browser, wire
  <1>6. /\ locked' \in BOOLEAN /\ online' \in BOOLEAN /\ open' \in BOOLEAN
        /\ fetch' \in {NoFetch, Sent} \cup 0..Len(log)
    <2>1. /\ locked \in BOOLEAN /\ online \in BOOLEAN /\ open \in BOOLEAN
          /\ fetch \in {NoFetch, Sent} \cup 0..Len(log) /\ Len(log) \in 0..Len(log)
      BY <1>3 DEF BrowserTypeOK
    <2>2. CASE StartFails \/ Wake \/ UNCHANGED browser
      BY <2>1, <2>2 DEF StartFails, Wake, browser, server, wire, page
    <2>3. CASE Connect
      BY <2>1, <2>3 DEF Connect, server, page
    <2>4. CASE OpenPage
      BY <2>1, <2>4 DEF OpenPage, server
    <2>5. CASE ClosePage
      BY <2>1, <2>5 DEF ClosePage, server
    <2>6. CASE FetchReads
      BY <2>1, <2>6 DEF FetchReads, server, wire
    <2> QED
      BY <2>2, <2>3, <2>4, <2>5, <2>6
  <1>7. \/ run' = run
        \/ run = "starting" /\ run' = "over"
        \/ run = "parked" /\ run' = "running"
    BY DEF StartFails, Wake, Connect, OpenPage, ClosePage, FetchReads, browser, server
  <1>8. BrowserTypeOK'
    <2>1. run' \in Live \cup {"none", "over"}
      BY <1>3, <1>7 DEF BrowserTypeOK, Live
    <2> QED
      BY <1>1, <1>2, <1>3, <1>5, <1>6, <2>1 DEF BrowserTypeOK
  <1>9. OneRun'
    BY <1>1, <1>3, <1>5, <1>7 DEF OneRun, Live
  <1> QED
    BY <1>2, <1>8, <1>9 DEF BrowserInv

\* A launch: nothing was sent before it that is about the run.
LEMMA LaunchStep ==
  ASSUME BrowserInv, NEW here \in BOOLEAN, Launch(here), launches' <= 1
  PROVE  BrowserInv'
  <1>1. /\ UNCHANGED <<log, down, size, fresh, processed, view, unread, skipped, online, open, fetch, up>>
        /\ run' = "starting" /\ seq' = 0 /\ locked' = FALSE /\ attached' = here /\ launches' = launches + 1
    BY DEF Launch, wire, page, tab
  <1>2. BrowserTypeOK /\ Chronicle(log) /\ seq = Told(log, Len(log)) /\ OneRun
    BY DEF BrowserInv, Logged
  <1>3. launches = 0 /\ log = <<>>
    BY <1>1, <1>2, BrowserAssumption DEF OneRun
  <1>4. Len(log) = 0 /\ Told(log, Len(log)) = 0
    BY <1>3, EmptyChronicle
  <1>5. Logged' /\ Messages' = Messages
    BY <1>1, <1>2, <1>4 DEF Logged, Messages
  <1>6. Batch' = Batch
    BY <1>1 DEF Batch
  <1>7. Queue' = Queue
    BY <1>1, <1>6 DEF Queue
  <1>8. Mailed'
    BY <1>1, <1>6, <1>7 DEF BrowserInv, Mailed
  <1>9. Tailed'
    <2>1. \A i \in 1..Len(Queue) : Mail(Queue[i], log)
      BY DEF BrowserInv, Mailed, Posted
    <2>2. Len(Queue) \in Nat
      BY <1>2, QueueFacts
    <2>3. CanCatchUp(view, Queue, log)
      BY <1>2, <1>4, <2>1, <2>2, CatchUpNothing
    <2> QED
      BY <1>1, <1>7, <2>3 DEF Tailed
  <1>10. BrowserTypeOK'
    <2>1. seq' \in 0..MaxSteps
      BY <1>1, BrowserAssumption
    <2>2. run' \in Live \cup {"none", "over"} /\ locked' \in BOOLEAN /\ attached' \in BOOLEAN
      BY <1>1 DEF Live
    <2> QED
      BY <1>1, <1>2, <1>5, <2>1, <2>2 DEF BrowserTypeOK
  <1>11. OneRun'
    <2>1. ~Ended(log, Len(log))
      BY <1>4 DEF Ended
    <2> QED
      BY <1>1, <1>2, <1>3, <2>1 DEF OneRun
  <1> QED
    BY <1>5, <1>8, <1>9, <1>10, <1>11 DEF BrowserInv

\* The connection or the server is lost.
LEMMA AbsenceStep ==
  ASSUME BrowserInv, Disconnect \/ ServerRestarts
  PROVE  BrowserInv'
  <1>1. /\ UNCHANGED <<log, seq, launches, open, size, fresh, processed, view, unread, skipped>>
        /\ down' = <<>> /\ up' = <<>> /\ attached' = FALSE /\ online' = FALSE
        /\ \/ run' = run /\ locked' = locked /\ fetch' = fetch
           \/ run' = "none" /\ locked' = FALSE /\ fetch' = IF fetch = Sent THEN NoFetch ELSE fetch
    BY DEF Disconnect, ServerRestarts, page, tab
  <1>2. /\ Logged' /\ Mailed' /\ Tailed' /\ Messages' = Messages
        /\ log' \in Seq(Messages') /\ down' \in Seq(Messages') /\ fresh' \in Seq(Messages')
    BY <1>1, Lost
  <1>3. BrowserTypeOK /\ OneRun
    BY DEF BrowserInv
  <1>4. BrowserTypeOK'
    <2>1. run' \in Live \cup {"none", "over"} /\ locked' \in BOOLEAN
      BY <1>1, <1>3 DEF BrowserTypeOK
    <2>2. fetch' \in {NoFetch, Sent} \cup 0..Len(log)
      BY <1>1, <1>3 DEF BrowserTypeOK
    <2>3. up' \in Seq({"subscribe", "unsubscribe", "decision"})
      BY <1>1
    <2>4. online' \in BOOLEAN /\ attached' \in BOOLEAN
      BY <1>1
    <2> QED
      BY <1>1, <1>2, <1>3, <2>1, <2>2, <2>3, <2>4 DEF BrowserTypeOK
  <1>5. OneRun'
    <2>1. \A i \in 1..Len(up') : up'[i] = "decision" => log' # <<>>
      BY <1>1
    <2> QED
      BY <1>1, <1>3, <2>1 DEF OneRun, Live
  <1> QED
    BY <1>2, <1>4, <1>5 DEF BrowserInv

\* The server takes a message of the tab.
LEMMA ServeStep ==
  ASSUME BrowserInv, Serve
  PROVE  BrowserInv'
  <1> DEFINE Asks == {"subscribe", "unsubscribe", "decision"}
             rest == Tail(up)
  <1>1. /\ UNCHANGED <<seq, launches, online, open, fetch, size, fresh, processed, view, unread, skipped>>
        /\ up # <<>> /\ up' = rest /\ UNCHANGED tab
    BY DEF Serve, page, tab
  <1>2. BrowserTypeOK /\ OneRun /\ Len(log) \in Nat /\ up \in Seq(Asks) /\ Len(up) \in Nat /\ Len(up) # 0
    BY <1>1, ChronicleFacts, EmptySeq DEF BrowserInv, Logged, BrowserTypeOK
  <1>3. /\ rest \in Seq(Asks) /\ Len(rest) = Len(up) - 1 /\ \A i \in 1..Len(rest) : rest[i] = up[i + 1]
    BY <1>1, <1>2, HeadTailProperties
  <1> HIDE DEF rest
  <1>4. \A i \in 1..Len(up') : up'[i] = "decision" => log # <<>>
    <2> SUFFICES ASSUME NEW i \in 1..Len(rest), rest[i] = "decision" PROVE log # <<>>
      BY <1>1
    <2>1. i + 1 \in 1..Len(up) /\ up[i + 1] = "decision"
      BY <1>2, <1>3
    <2> QED
      BY <1>2, <2>1 DEF OneRun
  <1>5. ASSUME Logged', Mailed', Tailed', Messages' = Messages, log' = log, locked' = locked,
               down' \in Seq(Messages'), fresh' \in Seq(Messages'), attached' \in BOOLEAN,
               run' = run \/ (run = "parked" /\ run' = "running"),
               attached' => run' # "none"
        PROVE  BrowserInv'
    <2>1. BrowserTypeOK'
      <3>1. run' \in Live \cup {"none", "over"}
        BY <1>2, <1>5 DEF BrowserTypeOK, Live
      <3>2. up' \in Seq(Asks)
        BY <1>1, <1>3
      <3> QED
        BY <1>1, <1>2, <1>5, <3>1, <3>2 DEF BrowserTypeOK
    <2>2. OneRun'
      BY <1>1, <1>2, <1>4, <1>5 DEF OneRun, Live
    <2> QED
      BY <1>5, <2>1, <2>2 DEF BrowserInv
  <1>6. CASE Head(up) = "subscribe" /\ ServeSubscribe
    <2>1. log' = log /\ locked' = locked
      BY <1>6 DEF ServeSubscribe
    <2>2. CASE run \in Live /\ Attach
      <3>1. /\ attached' = TRUE /\ down' = Append(down, Replay(Len(log)))
            /\ run' = run \/ (run = "parked" /\ run' = "running")
        BY <2>2 DEF Attach
      <3>2. ~Ended(log, Len(log)) /\ run # "none" /\ run' # "none"
        BY <1>2, <2>2, <3>1 DEF OneRun, Live
      <3>3. /\ Logged' /\ Mailed' /\ Tailed' /\ Messages' = Messages
            /\ log' \in Seq(Messages') /\ down' \in Seq(Messages') /\ fresh' \in Seq(Messages')
        BY <1>1, <2>1, <3>1, <3>2, Noted
      <3>4. attached' \in BOOLEAN
        BY <3>1
      <3> QED
        BY <1>5, <2>1, <3>1, <3>2, <3>3, <3>4
    <2>3. CASE run \notin Live /\ down' = Append(down, NotLive) /\ UNCHANGED <<run, attached>>
      <3>1. /\ Logged' /\ Mailed' /\ Tailed' /\ Messages' = Messages
            /\ log' \in Seq(Messages') /\ down' \in Seq(Messages') /\ fresh' \in Seq(Messages')
        BY <1>1, <2>1, <2>3, Noted
      <3>2. attached' \in BOOLEAN /\ (attached' => run' # "none")
        BY <1>2, <2>3 DEF BrowserTypeOK, OneRun
      <3> QED
        BY <1>5, <2>1, <2>3, <3>1, <3>2
    <2> QED
      BY <1>6, <2>2, <2>3 DEF ServeSubscribe
  <1>7. CASE Head(up) = "unsubscribe" /\ attached' = FALSE /\ UNCHANGED <<log, run, locked, down>>
    <2>1. /\ Logged' /\ Mailed' /\ Tailed' /\ Messages' = Messages
          /\ log' \in Seq(Messages') /\ down' \in Seq(Messages') /\ fresh' \in Seq(Messages')
      BY <1>1, <1>7, Quiet
    <2>2. attached' \in BOOLEAN /\ ~attached'
      BY <1>7
    <2> QED
      BY <1>5, <1>7, <2>1, <2>2
  <1>8. CASE Head(up) = "decision" /\ Resolved /\ UNCHANGED attached
    <2>1. CASE locked \/ run = "none"
      <3>1. UNCHANGED <<log, run, locked, down, attached>>
        BY <1>8, <2>1 DEF Resolved
      <3>2. /\ Logged' /\ Mailed' /\ Tailed' /\ Messages' = Messages
            /\ log' \in Seq(Messages') /\ down' \in Seq(Messages') /\ fresh' \in Seq(Messages')
        BY <1>1, <3>1, Quiet
      <3>3. attached' \in BOOLEAN /\ (attached' => run' # "none")
        BY <1>2, <3>1 DEF BrowserTypeOK, OneRun
      <3> QED
        BY <1>5, <3>1, <3>2, <3>3
    <2>2. CASE ~(locked \/ run = "none")
      <3>1. /\ Emit(Event("locked")) /\ locked' \in BOOLEAN
            /\ run' = IF run \in Blocked THEN "running" ELSE run
        BY <1>8, <2>2 DEF Resolved
      <3>2. Event("locked") \in Rows /\ Event("locked").type = "locked" /\ "locked" \notin Ends
        BY DEF Rows, Event, Ends
      <3>3. log # <<>>
        <4>1. up[1] = "decision" /\ 1 \in 1..Len(up)
          BY <1>1, <1>2, <1>8
        <4> QED
          BY <1>2, <4>1 DEF OneRun
      <3>4. /\ launches # 0 /\ run \in {"running", "asking", "parked", "over"}
            /\ run \in Live => ~Ended(log, Len(log))
            /\ run = "over" => Ended(log, Len(log))
        BY <1>2, <2>2, <3>3 DEF OneRun, BrowserTypeOK, Live
      <3>5. /\ run' \in {"running", "asking", "parked", "over"}
            /\ run' = "over" <=> Ended(log, Len(log))
        BY <3>1, <3>4 DEF Blocked, Live
      <3>6. up' = Tail(up) /\ seq' = seq /\ seq' \in 0..MaxSteps /\ seq \in Int
        BY <1>1, <1>2, BrowserAssumption DEF rest, BrowserTypeOK
      <3> QED
        BY <1>1, <1>8, <3>1, <3>2, <3>3, <3>4, <3>5, <3>6, EmitStep
    <2> QED
      BY <2>1, <2>2
  <1> QED
    BY <1>6, <1>7, <1>8 DEF Serve

\* The tab changes what it shows, and reads nothing.
LEMMA ViewStep ==
  ASSUME BrowserInv, UNCHANGED <<server, online, down, open, size, fresh, processed, unread, skipped>>,
         Viewed(view', log), view'.lastSeq = view.lastSeq \/ Whole(view'),
         Whole(view) => Whole(view'), \A n \in 0..Len(log) : Current(view, n, log) => Current(view', n, log),
         up' \in Seq({"subscribe", "unsubscribe", "decision"}),
         \A i \in 1..Len(up') : up'[i] = "decision" => log # <<>>,
         fetch' \in {NoFetch, fetch}
  PROVE  BrowserInv'
  <1>1. UNCHANGED <<log, run, seq, locked, attached, launches>>
    BY DEF server
  <1>2. BrowserTypeOK /\ Chronicle(log) /\ OneRun /\ Len(Queue) \in Nat /\ Posted(view, Queue, log)
        /\ Len(Batch) <= unread
    BY QueueFacts DEF BrowserInv, Logged, Mailed
  <1>3. Logged' /\ Messages' = Messages
    BY <1>1 DEF BrowserInv, Logged, Messages
  <1>4. Batch' = Batch
    BY DEF Batch
  <1>5. Queue' = Queue /\ Lossless' = Lossless
    BY <1>4 DEF Queue, Lossless
  <1>6. NoGapAhead(view', Queue, 0, log)
    BY <1>2 DEF Posted, NoGapAhead
  <1>7. Posted(view', Queue, log)
    BY <1>2, <1>6 DEF Posted
  <1>8. Mailed'
    BY <1>1, <1>2, <1>4, <1>5, <1>7 DEF Mailed
  <1>9. Tailed'
    <2>1. ASSUME CanCatchUp(view, Queue, log) PROVE CanCatchUp(view', Queue, log)
      <3>1. PICK from \in 0..Len(Queue), p \in [0..Len(Queue) -> 0..Len(log)] :
              Traced(view, Queue, from, p, log)
        BY <2>1 DEF CanCatchUp
      <3>2. p[0] \in 0..Len(log)
        BY <1>2
      <3>3. Traced(view', Queue, from, p, log)
        BY <3>1, <3>2 DEF Traced
      <3> QED
        BY <3>3 DEF CanCatchUp
    <2> QED
      BY <1>1, <1>5, <2>1 DEF BrowserInv, Tailed
  <1>10. BrowserTypeOK'
    <2>1. view' \in View
      BY DEF Viewed
    <2>2. fetch' \in {NoFetch, Sent} \cup 0..Len(log)
      BY <1>2 DEF BrowserTypeOK
    <2> QED
      BY <1>1, <1>2, <1>3, <2>1, <2>2 DEF BrowserTypeOK
  <1>11. OneRun'
    BY <1>1, <1>2 DEF OneRun
  <1> QED
    BY <1>3, <1>8, <1>9, <1>10, <1>11 DEF BrowserInv

\* A fetched history is shown only where nothing was.
LEMMA HydrateStep ==
  ASSUME BrowserInv, Hydrate
  PROVE  BrowserInv' /\ ToSet(view.steps) \subseteq ToSet(view'.steps)
  <1>1. /\ UNCHANGED <<server, online, up, down, open, size, fresh, processed, unread, skipped>>
        /\ fetch' = NoFetch /\ fetch >= 0
    BY DEF Hydrate, wire
  <1>2. /\ BrowserTypeOK /\ Chronicle(log) /\ OneRun /\ Viewed(view, log) /\ Len(log) \in Nat
        /\ view \in View
    BY ChronicleFacts DEF BrowserInv, Logged, Mailed, Posted, Viewed
  <1>3. fetch \in 0..Len(log)
    BY <1>1, <1>2 DEF BrowserTypeOK, NoFetch, Sent
  <1>4. /\ up' \in Seq({"subscribe", "unsubscribe", "decision"})
        /\ \A i \in 1..Len(up') : up'[i] = "decision" => log # <<>>
    BY <1>1, <1>2 DEF BrowserTypeOK, OneRun
  <1> DEFINE r == Rebuilt(log, fetch)
  <1>5. r \in View /\ (r.shown <=> fetch > 0)
    BY <1>2, <1>3 DEF Chronicle
  <1>6. CASE view.shown \/ ~r.shown
    <2>1. view' = view
      BY <1>6 DEF Hydrate, Reconstructed
    <2>2. BrowserInv'
      BY <1>1, <1>2, <1>4, <2>1, ViewStep
    <2> QED
      BY <2>1, <2>2
  <1>7. CASE ~(view.shown \/ ~r.shown)
    <2>1. view' = [r EXCEPT !.hydrated = TRUE]
      BY <1>7 DEF Hydrate, Reconstructed
    <2>2. /\ view' \in View /\ view'.steps = r.steps /\ view'.lastSeq = r.lastSeq
          /\ view'.shown = r.shown /\ view'.running = r.running
      BY <1>5, <2>1 DEF View
    <2>3. Viewed(view', log) /\ Whole(view')
      BY <1>2, <1>3, <1>5, <1>7, <2>2, RebuiltIsViewed
    <2>4. \A n \in 0..Len(log) : Current(view, n, log) => Current(view', n, log)
      BY <1>7 DEF Current
    <2>5. BrowserInv'
      BY <1>1, <1>2, <1>4, <2>3, <2>4, ViewStep
    <2>6. view.steps = <<>>
      BY <1>2, <1>7 DEF Viewed
    <2> QED
      BY <2>5, <2>6 DEF ToSet
  <1> QED
    BY <1>6, <1>7

\* The operator decides in this tab: there is a pause, so there is a run.
LEMMA TabDecidesStep ==
  ASSUME BrowserInv, TabDecides
  PROVE  BrowserInv' /\ view'.steps = view.steps
  <1>1. /\ UNCHANGED <<server, online, down, open, fetch, size, fresh, processed, unread, skipped>>
        /\ view' = [view EXCEPT !.submitted = TRUE] /\ view.pause
        /\ up' = IF online THEN Append(up, "decision") ELSE up
    BY DEF TabDecides, page
  <1>2. /\ BrowserTypeOK /\ OneRun /\ Viewed(view, log) /\ view \in View
    BY DEF BrowserInv, Mailed, Posted, Viewed
  <1>3. log # <<>> /\ view.shown
    BY <1>1, <1>2 DEF Viewed
  <1>4. /\ view' \in View /\ view'.steps = view.steps /\ view'.lastSeq = view.lastSeq
        /\ view'.shown = view.shown /\ view'.running = view.running /\ view'.parked = view.parked
        /\ view'.hydrated = view.hydrated
    BY <1>1, <1>2 DEF View
  <1>5. Viewed(view', log)
    <2>1. view'.shown /\ ~view'.running => Ended(log, Len(log))
      BY <1>2, <1>4 DEF Viewed
    <2> QED
      BY <1>2, <1>3, <1>4, <2>1, SameSteps
  <1>6. /\ Whole(view) => Whole(view')
        /\ \A n \in 0..Len(log) : Current(view, n, log) => Current(view', n, log)
    BY <1>4 DEF Whole, Current
  <1>7. up' \in Seq({"subscribe", "unsubscribe", "decision"})
    BY <1>1, <1>2, AppendProperties DEF BrowserTypeOK
  <1>8. \A i \in 1..Len(up') : up'[i] = "decision" => log # <<>>
    BY <1>3
  <1> QED
    BY <1>1, <1>4, <1>5, <1>6, <1>7, <1>8, ViewStep

LEMMA BrowserStep ==
  ASSUME BrowserInv, [BrowserNext]_browser, launches' <= 1
  PROVE  BrowserInv'
  <1>1. CASE \E here \in BOOLEAN : Launch(here)
    BY <1>1, LaunchStep
  <1>2. CASE Start \/ RunSteps \/ Ask \/ Park \/ Over \/ OtherTabDecides
    BY <1>2, RunEmits
  <1>3. CASE StartFails \/ Wake \/ Connect \/ OpenPage \/ ClosePage \/ FetchReads \/ UNCHANGED browser
    BY <1>3, QuietSteps
  <1>4. CASE Serve
    BY <1>4, ServeStep
  <1>5. CASE Disconnect \/ ServerRestarts
    BY <1>5, AbsenceStep
  <1>6. CASE Hydrate
    BY <1>6, HydrateStep
  <1>7. CASE Receive
    <2>1. BrowserTypeOK' /\ Logged' /\ Mailed' /\ Tailed'
      BY <1>7, Received
    <2>2. OneRun'
      BY <1>7 DEF BrowserInv, OneRun, Receive, server
    <2> QED
      BY <2>1, <2>2 DEF BrowserInv
  <1>8. CASE Effect
    <2>1. BrowserTypeOK' /\ Logged' /\ Mailed' /\ Tailed'
      BY <1>8, Rendering
    <2>2. OneRun'
      BY <1>8 DEF BrowserInv, OneRun, Effect, server, wire
    <2> QED
      BY <2>1, <2>2 DEF BrowserInv
  <1>9. CASE TabDecides
    BY <1>9, TabDecidesStep
  <1> QED
    BY <1>1, <1>2, <1>3, <1>4, <1>5, <1>6, <1>7, <1>8, <1>9 DEF BrowserNext

\* A view whose steps are some of the run's has them in order.
LEMMA ViewedInOrder ==
  ASSUME NEW l, NEW v, Viewed(v, l)
  PROVE  \A i, j \in 1..Len(v.steps) : i < j => v.steps[i] < v.steps[j]
  <1>1. \A i \in 1..Len(v.steps) : v.steps[i] \in Int
    BY ViewTypes, BrowserAssumption DEF Viewed
  <1> SUFFICES ASSUME NEW i \in 1..Len(v.steps), NEW j \in 1..Len(v.steps), i < j
               PROVE  v.steps[i] < v.steps[j]
    OBVIOUS
  <1>2. v.steps[i] + (j - i) <= v.steps[j]
    BY DEF Viewed
  <1>3. v.steps[i] \in Int /\ v.steps[j] \in Int /\ j - i \in Int /\ j - i > 0
    BY <1>1
  <1> QED
    BY <1>2, <1>3

LEMMA InitialBrowser ==
  ASSUME BrowserInit
  PROVE  BrowserInv
  <1>1. /\ log = <<>> /\ down = <<>> /\ fresh = <<>> /\ up = <<>> /\ view = NoView /\ ~attached
        /\ run = "none" /\ seq = 0 /\ launches = 0 /\ size = 0 /\ processed = 0 /\ unread = 0
        /\ fetch = NoFetch /\ locked = FALSE /\ online = FALSE /\ open = FALSE /\ skipped = FALSE
        /\ attached = FALSE
    BY DEF BrowserInit
  <1>2. Chronicle(log) /\ Told(log, Len(log)) = 0 /\ Len(log) = 0
    BY <1>1, EmptyChronicle
  <1>3. BrowserTypeOK
    <2>1. NoView \in View /\ MaxSteps \in Nat /\ Cap \in Nat
      BY NoViewType, BrowserAssumption
    <2>2. /\ log \in Seq(Messages) /\ down \in Seq(Messages) /\ fresh \in Seq(Messages)
          /\ up \in Seq({"subscribe", "unsubscribe", "decision"}) /\ Len(fresh) = 0
      BY <1>1
    <2>3. seq \in 0..MaxSteps /\ size \in 0..Cap /\ processed \in 0..Cap /\ unread \in Nat
          /\ Len(fresh) <= size
      BY <1>1, <2>1, <2>2
    <2>4. run \in Live \cup {"none", "over"} /\ fetch \in {NoFetch, Sent} \cup 0..Len(log)
      BY <1>1
    <2>5. locked \in BOOLEAN /\ attached \in BOOLEAN /\ online \in BOOLEAN /\ open \in BOOLEAN
          /\ skipped \in BOOLEAN /\ view \in View
      BY <1>1, <2>1
    <2> QED
      BY <2>2, <2>3, <2>4, <2>5 DEF BrowserTypeOK
  <1>4. OneRun
    BY <1>1, <1>2 DEF OneRun, Live, Ended
  <1>5. Len(Batch) = 0 /\ Len(Queue) = 0
    <2>1. Len(fresh) = 0 /\ Len(down) = 0
      BY <1>1
    <2> QED
      BY <1>3, <2>1, BatchFacts, QueueFacts
  <1>6. Viewed(view, log)
    BY <1>1, <1>2, NoViewType DEF Viewed
  <1>7. Mailed
    BY <1>1, <1>5, <1>6 DEF Mailed, Posted, InOrder, NoGapAhead
  <1>8. Tailed
    BY <1>1 DEF Tailed
  <1> QED
    BY <1>1, <1>2, <1>3, <1>4, <1>7, <1>8 DEF BrowserInv, Logged

-----------------------------------------------------------------------------
(* What follows until a second run is launched.                            *)

\* Launches are only ever counted up.
LEMMA LaunchesGrow ==
  ASSUME launches \in Nat, [BrowserNext]_browser
  PROVE  launches' \in Nat /\ launches <= launches'
  <1>1. launches' = launches \/ launches' = launches + 1
    BY DEF BrowserNext, Launch, Start, StartFails, RunSteps, Ask, Park, Wake, Over,
       OtherTabDecides, Serve, Connect, Disconnect, ServerRestarts, OpenPage, ClosePage, FetchReads,
       Hydrate, Receive, Effect, TabDecides, browser, server
  <1> QED
    BY <1>1

FirstRunInv == launches \in Nat /\ (launches <= 1 => BrowserInv)

LEMMA InitialFirstRun ==
  ASSUME BrowserInit
  PROVE  FirstRunInv
  <1>1. launches = 0
    BY DEF BrowserInit
  <1>2. BrowserInv
    BY InitialBrowser
  <1> QED
    BY <1>1, <1>2 DEF FirstRunInv

LEMMA FirstRunStep ==
  ASSUME FirstRunInv, [BrowserNext]_browser
  PROVE  FirstRunInv'
  <1>1. launches \in Nat /\ launches' \in Nat /\ launches <= launches'
    BY LaunchesGrow DEF FirstRunInv
  <1>2. ASSUME launches' <= 1 PROVE BrowserInv'
    <2>1. launches <= 1
      BY <1>1, <1>2
    <2> QED
      BY <1>2, <2>1, BrowserStep DEF FirstRunInv
  <1> QED
    BY <1>1, <1>2 DEF FirstRunInv

\* In every state until a second run is launched, what is on its way to the view leaves it
\* true, and an attached tab that lost nothing, or will read a replay, can catch up with the run.
THEOREM BrowserInvariant == BrowserSpec => [](launches <= 1 => BrowserInv)
  <1>1. BrowserInit => FirstRunInv
    BY InitialFirstRun
  <1>2. FirstRunInv /\ [BrowserNext]_browser => FirstRunInv'
    BY FirstRunStep
  <1>3. FirstRunInv => (launches <= 1 => BrowserInv)
    BY DEF FirstRunInv
  <1> QED
    BY <1>1, <1>2, <1>3, PTL DEF BrowserSpec

\* A tab among the run's sinks that has rendered everything it was sent shows the run,
\* the first of its investigation, as it is (OrchestratorRunContext.tsx,
\* orchestrator:replay and applyMessage; ws-handler.ts, orchestrator_subscribe),
\* whatever the buffer cut before its last replay.
THEOREM AttachedTabIsUpToDate == BrowserSpec => []AttachedTabShowsTheRun
  <1>1. (launches <= 1 => BrowserInv) => AttachedTabShowsTheRun
    <2> SUFFICES ASSUME BrowserInv, attached, down = <<>>, unread = 0, ~skipped, log # <<>>
                 PROVE  /\ view.steps = [i \in 1..seq |-> i - 1]
                        /\ view.running = (run # "over")
                        /\ ~view.hydrated /\ ~view.parked
      BY DEF AttachedTabShowsTheRun
    <2>1. /\ BrowserTypeOK /\ Chronicle(log) /\ seq = Told(log, Len(log)) /\ OneRun
          /\ Viewed(view, log) /\ Len(Batch) <= unread
      BY DEF BrowserInv, Logged, Mailed, Posted
    <2>2. Len(Batch) = 0 /\ Len(Queue) = 0 /\ Len(log) \in Nat /\ Len(log) > 0
      <3>1. Len(Batch) \in Nat /\ Len(Queue) = Len(Batch) + Len(down) /\ Len(down) = 0
        BY <2>1, QueueFacts
      <3>2. Len(log) \in Nat /\ log \in Seq(Rows)
        BY <2>1, ChronicleFacts
      <3> QED
        BY <2>1, <3>1, <3>2, EmptySeq
    <2>3. Lossless
      BY <2>2 DEF Lossless
    <2>4. PICK from \in 0..Len(Queue), p \in [0..Len(Queue) -> 0..Len(log)] :
            Traced(view, Queue, from, p, log)
      BY <2>3 DEF BrowserInv, Tailed, CanCatchUp
    <2>5. Current(view, Len(log), log)
      BY <2>2, <2>4 DEF Traced, Follows
    <2>6. /\ view.shown /\ ~view.hydrated /\ ~view.parked /\ Whole(view) /\ seq <= Len(view.steps)
          /\ view.running => ~Ended(log, Len(log))
      BY <2>1, <2>2, <2>5 DEF Current
    <2>7. Len(view.steps) = seq /\ view.steps \in Seq(0..MaxSteps)
      <3>1. Len(view.steps) \in Nat /\ seq \in Nat /\ view.lastSeq = Len(view.steps) - 1
            /\ view.lastSeq < seq /\ view.steps \in Seq(0..MaxSteps)
        BY <2>1, <2>6, ViewTypes, BrowserAssumption DEF Whole, Viewed, BrowserTypeOK
      <3> QED
        BY <2>6, <3>1
    <2>8. view.steps = [i \in 1..seq |-> i - 1]
      <3>1. \A i \in 1..seq : view.steps[i] = i - 1
        BY <2>6, <2>7 DEF Whole
      <3>2. view.steps = [i \in 1..Len(view.steps) |-> view.steps[i]]
        BY <2>7
      <3> QED
        BY <2>7, <3>1, <3>2
    <2>9. view.running = (run # "over")
      <3>1. view.running \in BOOLEAN
        BY <2>1, ViewTypes DEF Viewed
      <3>2. view.running => run # "over"
        BY <2>1, <2>6 DEF OneRun
      <3>3. ~view.running => run = "over"
        BY <2>1, <2>6 DEF Viewed, OneRun, BrowserTypeOK, Live
      <3> QED
        BY <3>1, <3>2, <3>3
    <2> QED
      BY <2>6, <2>8, <2>9
  <1> QED
    BY <1>1, BrowserInvariant, PTL

-----------------------------------------------------------------------------
(* Any number of runs.                                                     *)

\* What may be on its way when nothing is known of the runs.
Posts(l) == Rows \cup {NotLive} \cup {Replay(n) : n \in 0..Len(l)}

\* The steps of a view are in order, and none comes after the last.
Ordered(v) ==
  /\ v \in View
  /\ \A i \in 1..Len(v.steps) : v.steps[i] <= v.lastSeq
  /\ \A i, j \in 1..Len(v.steps) : i < j => v.steps[i] < v.steps[j]

\* The variables that hold no messages and no steps are within their types.
Bounded ==
  /\ run \in Live \cup {"none", "over"}
  /\ seq \in 0..MaxSteps /\ locked \in BOOLEAN /\ attached \in BOOLEAN
  /\ online \in BOOLEAN /\ open \in BOOLEAN
  /\ up \in Seq({"subscribe", "unsubscribe", "decision"})
  /\ fetch \in {NoFetch, Sent} \cup 0..Len(log)
  /\ size \in 0..Cap /\ Len(fresh) <= size /\ processed \in 0..Cap /\ unread \in Nat
  /\ skipped \in BOOLEAN

OrderedInv ==
  /\ log \in Seq(Rows) /\ down \in Seq(Posts(log)) /\ fresh \in Seq(Posts(log))
  /\ Ordered(view) /\ Bounded

LEMMA OrderedSame ==
  ASSUME NEW v, Ordered(v), NEW w \in View, w.steps = v.steps, w.lastSeq = v.lastSeq
  PROVE  Ordered(w)
  BY DEF Ordered

LEMMA OrderedApplied ==
  ASSUME NEW v, Ordered(v), NEW m \in Rows
  PROVE  Ordered(Applied(v, m))
  <1> DEFINE w == Applied(v, m)
  <1>1. v \in View /\ w \in View
    BY AppliedTypes DEF Ordered
  <1>2. m.type = "step" => m.seq \in Int /\ m.seq \in 0..MaxSteps
    BY RowTypes, BrowserAssumption
  <1>3. v.lastSeq \in Int /\ v.steps \in Seq(0..MaxSteps) /\ Len(v.steps) \in Nat
        /\ \A i \in 1..Len(v.steps) : v.steps[i] \in Int
    <2>1. MaxSteps \in Nat
      BY BrowserAssumption
    <2>2. v.lastSeq \in Int /\ v.steps \in Seq(0..MaxSteps) /\ Len(v.steps) \in Nat
          /\ \A i \in 1..Len(v.steps) : v.steps[i] \in 0..MaxSteps
      BY <1>1, ViewTypes
    <2> QED
      BY <2>1, <2>2
  <1>4. CASE m.type = "started"
    <2>1. w = FreshView
      BY <1>1, <1>4, AppliedIs
    <2> HIDE DEF w
    <2>2. Ordered(FreshView)
      BY NoViewType DEF Ordered
    <2> QED
      BY <2>1, <2>2 DEF w
  <1>5. CASE m.type # "started" /\ ~v.shown
    <2>1. w = v
      BY <1>1, <1>5, AppliedIs
    <2> QED
      BY <2>1
  <1>6. CASE m.type # "started" /\ v.shown /\ (m.type # "step" \/ m.seq <= v.lastSeq)
    <2>1. w.steps = v.steps /\ w.lastSeq = v.lastSeq
      BY <1>1, <1>6, AppliedIs
    <2> QED
      BY <1>1, <2>1, OrderedSame
  <1>7. CASE m.type = "step" /\ v.shown /\ ~(m.seq <= v.lastSeq)
    <2>1. v.lastSeq < m.seq /\ m.seq \in 0..MaxSteps /\ m.seq \in Int
      BY <1>2, <1>3, <1>7
    <2>2. w.steps = Append(v.steps, m.seq) /\ w.lastSeq = m.seq
      BY <1>1, <1>7, <2>1, AppliedIs
    <2> HIDE DEF w
    <2> DEFINE L == Len(v.steps)
    <2>3. Len(w.steps) = L + 1 /\ w.steps[L + 1] = m.seq /\ \A i \in 1..L : w.steps[i] = v.steps[i]
      BY <1>3, <2>1, <2>2, AppendProperties
    <2>4. \A i \in 1..L : v.steps[i] < m.seq
      <3>1. \A i \in 1..L : v.steps[i] <= v.lastSeq
        BY DEF Ordered
      <3> QED
        BY <1>3, <2>1, <3>1
    <2>5. \A i, j \in 1..L : i < j => v.steps[i] < v.steps[j]
      BY DEF Ordered
    <2>6. L \in Nat /\ \A i \in 1..L : v.steps[i] \in Int
      BY <1>3
    <2> HIDE DEF L
    <2>7. \A i \in 1..(L + 1) : w.steps[i] <= m.seq
      <3> SUFFICES ASSUME NEW i \in 1..(L + 1) PROVE w.steps[i] <= m.seq
        OBVIOUS
      <3>1. CASE i = L + 1
        BY <2>1, <2>3, <3>1
      <3>2. CASE i # L + 1
        <4>1. i \in 1..L
          BY <2>6, <3>2
        <4>2. w.steps[i] = v.steps[i] /\ v.steps[i] < m.seq /\ v.steps[i] \in Int
          BY <2>3, <2>4, <2>6, <4>1
        <4> QED
          BY <2>1, <4>2
      <3> QED
        BY <3>1, <3>2
    <2>8. \A i, j \in 1..(L + 1) : i < j => w.steps[i] < w.steps[j]
      <3> SUFFICES ASSUME NEW i \in 1..(L + 1), NEW j \in 1..(L + 1), i < j
                   PROVE  w.steps[i] < w.steps[j]
        OBVIOUS
      <3>1. i \in 1..L
        BY <2>6
      <3>2. CASE j = L + 1
        BY <2>3, <2>4, <3>1, <3>2
      <3>3. CASE j # L + 1
        <4>1. j \in 1..L
          BY <2>6, <3>3
        <4> QED
          BY <2>3, <2>5, <3>1, <4>1
      <3> QED
        BY <3>2, <3>3
    <2> QED
      BY <1>1, <2>2, <2>3, <2>7, <2>8 DEF Ordered, w
  <1> QED
    BY <1>4, <1>5, <1>6, <1>7

LEMMA OrderedRebuilt ==
  ASSUME NEW l \in Seq(Rows)
  PROVE  \A n \in 0..Len(l) : Ordered(Rebuilt(l, n))
  <1> DEFINE S == {n \in 0..Len(l) : Ordered(Rebuilt(l, n))}
  <1>1. Ordered(NoView)
    BY NoViewType DEF Ordered
  <1>2. 0 \in S
    BY <1>1, RebuiltSteps
  <1>3. \A n \in 1..Len(l) : n - 1 \in S => n \in S
    <2> SUFFICES ASSUME NEW n \in 1..Len(l), Ordered(Rebuilt(l, n - 1)) PROVE Ordered(Rebuilt(l, n))
      OBVIOUS
    <2>1. l[n] \in Rows /\ Rebuilt(l, n) = Applied(Rebuilt(l, n - 1), l[n])
      BY RebuiltSteps
    <2>2. Ordered(Applied(Rebuilt(l, n - 1), l[n]))
      BY <2>1, OrderedApplied
    <2> QED
      BY <2>1, <2>2
  <1>4. S \in SUBSET (0..Len(l)) /\ Len(l) \in Nat
    OBVIOUS
  <1> HIDE DEF S
  <1>5. S = 0..Len(l)
    BY <1>2, <1>3, <1>4, UpTo
  <1> QED
    BY <1>5 DEF S

LEMMA OrderedReduced ==
  ASSUME log \in Seq(Rows), NEW v, Ordered(v), NEW m \in Posts(log)
  PROVE  Ordered(Reduced(v, m))
  <1>1. v \in View
    BY DEF Ordered
  <1>2. CASE m \in Rows
    <2>1. m.type \notin {"replay", "not_live"}
      BY <1>2, RowTypes
    <2> QED
      BY <1>2, <2>1, RowIs, OrderedApplied
  <1>3. CASE m = NotLive
    <2>1. Ordered(Reduced(v, NotLive))
      BY <1>1, NotLiveIs, OrderedSame
    <2> QED
      BY <1>3, <2>1
  <1>4. CASE \E n \in 0..Len(log) : m = Replay(n)
    <2>1. PICK n \in 0..Len(log) : m = Replay(n)
      BY <1>4
    <2> DEFINE r == Rebuilt(log, n)
               b == IF Ahead(v, r) THEN v ELSE r
    <2>2. Reduced(v, m) = IF ~r.shown THEN v ELSE [b EXCEPT !.hydrated = FALSE, !.parked = FALSE]
      BY <2>1 DEF Reduced, Replay, Replayed, Reconstructed
    <2>3. Ordered(b)
      BY OrderedRebuilt
    <2> HIDE DEF b, r
    <2>4. b \in View
      BY <2>3 DEF Ordered
    <2> DEFINE w == [b EXCEPT !.hydrated = FALSE, !.parked = FALSE]
    <2>5. w \in View /\ w.steps = b.steps /\ w.lastSeq = b.lastSeq
      BY <2>4 DEF View
    <2> HIDE DEF w
    <2>6. Ordered(w)
      BY <2>3, <2>5, OrderedSame
    <2> QED
      BY <2>2, <2>6 DEF w
  <1> QED
    BY <1>2, <1>3, <1>4 DEF Posts

LEMMA OrderedRendered ==
  ASSUME log \in Seq(Rows), NEW b \in Seq(Posts(log)), NEW v, Ordered(v)
  PROVE  Ordered(Rendered(v, b))
  <1>1. v \in View /\ Len(b) \in Nat /\ \A i \in 1..Len(b) : b[i] \in Posts(log)
    BY DEF Ordered
  <1>2. \A i \in 1..Len(b), u \in View : Reduced(u, b[i]) \in View
    <2> SUFFICES ASSUME NEW i \in 1..Len(b), NEW u \in View PROVE Reduced(u, b[i]) \in View
      OBVIOUS
    <2>1. CASE b[i] \in Rows
      <3>1. b[i].type \notin {"replay", "not_live"}
        BY <2>1, RowTypes
      <3> QED
        BY <2>1, <3>1, RowIs, AppliedTypes
    <2>2. CASE b[i] = NotLive
      <3>1. Reduced(u, NotLive) \in View
        BY NotLiveIs
      <3> QED
        BY <2>2, <3>1
    <2>3. CASE \E n \in 0..Len(log) : b[i] = Replay(n)
      <3>1. PICK n \in 0..Len(log) : b[i] = Replay(n)
        BY <2>3
      <3> DEFINE r == Rebuilt(log, n)
                 c == IF Ahead(u, r) THEN u ELSE r
      <3>2. Reduced(u, b[i]) = IF ~r.shown THEN u ELSE [c EXCEPT !.hydrated = FALSE, !.parked = FALSE]
        BY <3>1 DEF Reduced, Replay, Replayed, Reconstructed
      <3>3. c \in View
        BY RebuiltSteps
      <3> HIDE DEF c, r
      <3> QED
        BY <3>2, <3>3 DEF View
    <2> QED
      BY <1>1, <2>1, <2>2, <2>3 DEF Posts
  <1>3. PICK f \in [0..Len(b) -> View] :
          /\ f[0] = v /\ \A k \in 1..Len(b) : f[k] = Reduced(f[k - 1], b[k])
          /\ Rendered(v, b) = f[Len(b)]
    BY <1>1, <1>2, RenderedSteps
  <1> DEFINE S == {k \in 0..Len(b) : Ordered(f[k])}
  <1>4. 0 \in S
    BY <1>3
  <1>5. \A k \in 1..Len(b) : k - 1 \in S => k \in S
    <2> SUFFICES ASSUME NEW k \in 1..Len(b), Ordered(f[k - 1]) PROVE k \in 0..Len(b) /\ Ordered(f[k])
      OBVIOUS
    <2>1. b[k] \in Posts(log) /\ f[k] = Reduced(f[k - 1], b[k])
      BY <1>1, <1>3
    <2>2. Ordered(Reduced(f[k - 1], b[k]))
      BY <2>1, OrderedReduced
    <2> QED
      BY <1>1, <2>1, <2>2
  <1>6. S \in SUBSET (0..Len(b))
    OBVIOUS
  <1> HIDE DEF S
  <1>7. S = 0..Len(b)
    BY <1>1, <1>4, <1>5, <1>6, UpTo
  <1> QED
    BY <1>1, <1>3, <1>7 DEF S

LEMMA PostsFacts ==
  ASSUME log \in Seq(Rows)
  PROVE  /\ Rows \subseteq Posts(log) /\ NotLive \in Posts(log) /\ Replay(Len(log)) \in Posts(log)
         /\ Posts(log) \subseteq Messages
         /\ log' \in Seq(Rows) /\ Len(log) <= Len(log') => Posts(log) \subseteq Posts(log')
  <1>1. Len(log) \in Nat /\ MaxSteps \in Nat
    BY BrowserAssumption
  <1>2. Rows \subseteq Messages /\ NotLive \in Messages
    BY <1>1, RowsAreMessages
  <1>3. \A n \in 0..Len(log) : Replay(n) \in Messages
    <2>1. \A n \in 0..Len(log) : n \in -1..(Len(log) + MaxSteps)
      BY <1>1
    <2> QED
      BY <2>1 DEF Messages, Replay
  <1>4. log' \in Seq(Rows) /\ Len(log) <= Len(log') => Posts(log) \subseteq Posts(log')
    <2> SUFFICES ASSUME log' \in Seq(Rows), Len(log) <= Len(log')
                 PROVE  Posts(log) \subseteq Posts(log')
      OBVIOUS
    <2>1. 0..Len(log) \subseteq 0..Len(log')
      BY <1>1
    <2> QED
      BY <2>1 DEF Posts
  <1> QED
    BY <1>1, <1>2, <1>3, <1>4 DEF Posts

LEMMA OrderedIsTyped ==
  ASSUME OrderedInv
  PROVE  BrowserTypeOK
  <1>1. log \in Seq(Rows) /\ down \in Seq(Posts(log)) /\ fresh \in Seq(Posts(log))
        /\ Rows \subseteq Messages /\ Posts(log) \subseteq Messages
    BY PostsFacts, RowsAreMessages DEF OrderedInv
  <1>2. log \in Seq(Messages) /\ down \in Seq(Messages) /\ fresh \in Seq(Messages)
    BY <1>1
  <1> QED
    BY <1>2 DEF OrderedInv, Ordered, Bounded, BrowserTypeOK

\* A row is persisted and sent to the tab that is attached.
LEMMA OrderedEmit ==
  ASSUME OrderedInv, NEW e \in Rows, Emit(e), UNCHANGED <<attached, online, open, fetch, tab>>,
         run' \in Live \cup {"none", "over"}, seq' \in 0..MaxSteps, locked' \in BOOLEAN,
         up' \in Seq({"subscribe", "unsubscribe", "decision"})
  PROVE  OrderedInv'
  <1>1. log \in Seq(Rows) /\ down \in Seq(Posts(log)) /\ fresh \in Seq(Posts(log)) /\ Len(log) \in Nat
    BY DEF OrderedInv
  <1>2. log' \in Seq(Rows) /\ Len(log') = Len(log) + 1
    BY <1>1, AppendProperties DEF Emit
  <1>3. Rows \subseteq Posts(log) /\ Posts(log) \subseteq Posts(log')
    BY <1>1, <1>2, PostsFacts
  <1>4. down \in Seq(Posts(log')) /\ fresh \in Seq(Posts(log')) /\ e \in Posts(log')
    BY <1>1, <1>3
  <1>5. Append(down, e) \in Seq(Posts(log'))
    BY <1>4, AppendProperties
  <1>6. down' \in Seq(Posts(log')) /\ fresh' \in Seq(Posts(log')) /\ Ordered(view')
    BY <1>4, <1>5 DEF Emit, tab, OrderedInv
  <1>7. fetch' \in {NoFetch, Sent} \cup 0..Len(log')
    BY <1>1, <1>2 DEF OrderedInv, Bounded
  <1> QED
    BY <1>2, <1>6, <1>7 DEF OrderedInv, Bounded, tab

\* No row is persisted, and the tab does not render.
LEMMA OrderedQuiet ==
  ASSUME OrderedInv, UNCHANGED <<log, tab>>, Bounded',
         \/ down' \in {down, <<>>} \/ \E e \in Posts(log) : down' = Append(down, e)
  PROVE  OrderedInv'
  <1>1. down \in Seq(Posts(log))
    BY DEF OrderedInv
  <1>2. down' \in Seq(Posts(log))
    <2>1. CASE down' \in {down, <<>>}
      <3>1. <<>> \in Seq(Posts(log))
        OBVIOUS
      <3> QED
        BY <1>1, <2>1, <3>1
    <2>2. ASSUME NEW e \in Posts(log), down' = Append(down, e) PROVE down' \in Seq(Posts(log))
      BY <1>1, <2>2, AppendProperties
    <2> QED
      BY <2>1, <2>2
  <1> QED
    BY <1>2 DEF OrderedInv, tab

LEMMA OrderedServer ==
  ASSUME OrderedInv,
         \/ \E here \in BOOLEAN : Launch(here)
         \/ Start \/ StartFails \/ RunSteps \/ Ask \/ Park \/ Wake \/ Over \/ OtherTabDecides
  PROVE  OrderedInv'
  <1>1. Bounded /\ MaxSteps \in Nat
    BY BrowserAssumption DEF OrderedInv
  <1>2. CASE \/ \E here \in BOOLEAN : Launch(here)
             \/ StartFails \/ Wake
    <2>1. /\ UNCHANGED <<log, down, tab, online, open, up, fetch>>
          /\ run' \in Live \cup {"over"} /\ seq' \in {seq, 0}
          /\ locked' \in BOOLEAN /\ attached' \in BOOLEAN
      BY <1>1, <1>2 DEF Launch, StartFails, Wake, wire, page, Live, Bounded
    <2>2. Bounded'
      BY <1>1, <2>1 DEF Bounded, tab
    <2> QED
      BY <2>1, <2>2, OrderedQuiet
  <1>3. CASE Start
    <2>1. Event("started") \in Rows
      BY DEF Rows
    <2> QED
      BY <1>1, <1>3, <2>1, OrderedEmit DEF Start, Bounded, Live, page
  <1>4. CASE RunSteps
    <2>1. seq \in 0..MaxSteps /\ seq + 1 \in 0..MaxSteps
      BY <1>1, <1>4 DEF RunSteps, Bounded
    <2>2. StepEvent(seq) \in Rows
      BY <2>1 DEF Rows
    <2> QED
      BY <1>1, <1>4, <2>1, <2>2, OrderedEmit DEF RunSteps, Bounded, Live, page
  <1>5. CASE Ask
    <2>1. Event("pause") \in Rows
      BY DEF Rows
    <2> QED
      BY <1>1, <1>5, <2>1, OrderedEmit DEF Ask, Bounded, Live, page
  <1>6. CASE Park
    <2>1. Event("parked") \in Rows
      BY DEF Rows
    <2> QED
      BY <1>1, <1>6, <2>1, OrderedEmit DEF Park, Bounded, Live, page
  <1>7. CASE Over
    <2>1. PICK type \in {"complete", "error"} : Emit(Event(type))
      BY <1>7 DEF Over
    <2>2. Event(type) \in Rows
      BY DEF Rows, Ends
    <2> QED
      BY <1>1, <1>7, <2>1, <2>2, OrderedEmit DEF Over, Bounded, Live, page
  <1>8. CASE OtherTabDecides
    <2>1. Event("locked") \in Rows
      BY DEF Rows
    <2>2. /\ Emit(Event("locked")) /\ locked' = TRUE
          /\ run' = run \/ run' = "running"
          /\ UNCHANGED <<seq, attached, online, up, page, tab>>
      BY <1>8 DEF OtherTabDecides, Resolved
    <2> QED
      BY <1>1, <2>1, <2>2, OrderedEmit DEF Bounded, Live, page
  <1> QED
    BY <1>2, <1>3, <1>4, <1>5, <1>6, <1>7, <1>8

LEMMA OrderedServe ==
  ASSUME OrderedInv, Serve
  PROVE  OrderedInv'
  <1> DEFINE Asks == {"subscribe", "unsubscribe", "decision"}
  <1>1. Bounded /\ log \in Seq(Rows)
    BY DEF OrderedInv
  <1>2. UNCHANGED <<seq, online, open, fetch, tab>> /\ up # <<>> /\ up' = Tail(up)
    BY DEF Serve, page
  <1>3. up' \in Seq(Asks)
    BY <1>1, <1>2, HeadTailProperties DEF Bounded
  <1>4. ASSUME log' = log, locked' = locked, run' = run \/ run' = "running", attached' \in BOOLEAN,
               \/ down' \in {down, <<>>} \/ \E e \in Posts(log) : down' = Append(down, e)
        PROVE  OrderedInv'
    <2>1. Bounded'
      BY <1>1, <1>2, <1>3, <1>4 DEF Bounded, Live, tab
    <2> QED
      BY <1>2, <1>4, <2>1, OrderedQuiet
  <1>5. CASE ServeSubscribe
    <2>1. log' = log /\ locked' = locked
      BY <1>5 DEF ServeSubscribe
    <2>2. Replay(Len(log)) \in Posts(log) /\ NotLive \in Posts(log)
      BY <1>1, PostsFacts
    <2>3. CASE Attach
      <3>1. /\ run' = run \/ run' = "running"
            /\ attached' = TRUE /\ down' = Append(down, Replay(Len(log)))
        BY <2>3 DEF Attach
      <3>2. attached' \in BOOLEAN
        BY <3>1
      <3> QED
        BY <1>4, <2>1, <2>2, <3>1, <3>2
    <2>4. CASE down' = Append(down, NotLive) /\ UNCHANGED <<run, attached>>
      <3>1. attached' \in BOOLEAN
        BY <1>1, <2>4 DEF Bounded
      <3> QED
        BY <1>4, <2>1, <2>2, <2>4, <3>1
    <2> QED
      BY <1>5, <2>3, <2>4 DEF ServeSubscribe
  <1>6. CASE attached' = FALSE /\ UNCHANGED <<log, run, locked, down>>
    <2>1. attached' \in BOOLEAN
      BY <1>6
    <2> QED
      BY <1>4, <1>6, <2>1
  <1>7. CASE Resolved /\ UNCHANGED attached
    <2>1. CASE locked \/ run = "none"
      <3>1. UNCHANGED <<log, run, locked, down, attached>> /\ attached' \in BOOLEAN
        BY <1>1, <1>7, <2>1 DEF Resolved, Bounded
      <3> QED
        BY <1>4, <3>1
    <2>2. CASE ~(locked \/ run = "none")
      <3>1. /\ Emit(Event("locked")) /\ locked' \in BOOLEAN
            /\ run' = run \/ run' = "running"
        BY <1>7, <2>2 DEF Resolved
      <3>2. run' \in Live \cup {"none", "over"} /\ seq' \in 0..MaxSteps
        BY <1>1, <1>2, <3>1 DEF Bounded, Live
      <3>3. Event("locked") \in Rows
        BY DEF Rows
      <3> QED
        BY <1>2, <1>3, <1>7, <3>1, <3>2, <3>3, OrderedEmit
    <2> QED
      BY <2>1, <2>2
  <1> QED
    BY <1>5, <1>6, <1>7 DEF Serve

LEMMA OrderedReceive ==
  ASSUME OrderedInv, Receive
  PROVE  OrderedInv'
  <1>1. /\ log \in Seq(Rows) /\ down \in Seq(Posts(log)) /\ fresh \in Seq(Posts(log)) /\ Bounded
        /\ Cap \in Nat /\ Keep \in 1..Cap
    BY BrowserAssumption DEF OrderedInv
  <1>2. /\ UNCHANGED <<log, run, seq, locked, attached, online, up, open, fetch, processed, view, skipped>>
        /\ down # <<>> /\ down' = Tail(down) /\ unread' = unread + 1
    BY DEF Receive, server, page
  <1>3. down' \in Seq(Posts(log)) /\ Head(down) \in Posts(log)
    BY <1>1, <1>2, HeadTailProperties
  <1> DEFINE whole == Append(fresh, Head(down))
  <1>4. whole \in Seq(Posts(log)) /\ Len(whole) = Len(fresh) + 1 /\ Len(fresh) \in Nat
    BY <1>1, <1>3, AppendProperties
  <1>5. fresh' \in Seq(Posts(log)) /\ size' \in 0..Cap /\ Len(fresh') <= size'
    <2>1. CASE size = Cap
      <3>1. size' = Keep /\ fresh' = LastOf(whole, Keep) /\ Keep \in Nat
        BY <1>1, <2>1 DEF Receive
      <3> HIDE DEF whole
      <3>2. /\ LastOf(whole, Keep) \in Seq(Posts(log))
            /\ Len(LastOf(whole, Keep)) = (IF Len(whole) > Keep THEN Keep ELSE Len(whole))
        BY <1>4, <3>1, LastOfFacts
      <3> QED
        BY <1>1, <1>4, <3>1, <3>2
    <2>2. CASE size # Cap
      <3>1. size' = size + 1 /\ fresh' = whole
        BY <2>2 DEF Receive
      <3> HIDE DEF whole
      <3> QED
        BY <1>1, <1>4, <2>2, <3>1 DEF Bounded
    <2> QED
      BY <2>1, <2>2
  <1>6. Bounded'
    BY <1>1, <1>2, <1>5 DEF Bounded
  <1> QED
    BY <1>1, <1>2, <1>3, <1>5, <1>6 DEF OrderedInv

LEMMA OrderedEffect ==
  ASSUME OrderedInv, Effect
  PROVE  OrderedInv'
  <1>1. /\ log \in Seq(Rows) /\ fresh \in Seq(Posts(log)) /\ down \in Seq(Posts(log)) /\ Bounded
        /\ Ordered(view) /\ BrowserTypeOK
    BY OrderedIsTyped DEF OrderedInv
  <1>2. /\ UNCHANGED <<log, run, seq, locked, attached, online, up, down, open, fetch, size>>
        /\ processed' = size /\ fresh' = <<>> /\ view' = Rendered(view, Batch) /\ unread' = 0
        /\ skipped' = (ReplaysIn(Batch) = {} /\ (skipped \/ Len(Batch) < unread))
    BY DEF Effect, server, wire, page
  <1>3. Batch \in Seq(Posts(log))
    <2>1. Owed \in Nat /\ Batch = LastOf(fresh, Owed)
      BY <1>1, BatchFacts
    <2> QED
      BY <1>1, <2>1, LastOfFacts
  <1>4. Ordered(view')
    BY <1>1, <1>2, <1>3, OrderedRendered
  <1>5. fresh' \in Seq(Posts(log)) /\ Len(fresh') = 0 /\ skipped' \in BOOLEAN
    BY <1>2
  <1>6. Bounded'
    BY <1>1, <1>2, <1>5 DEF Bounded
  <1> QED
    BY <1>1, <1>2, <1>4, <1>5, <1>6 DEF OrderedInv

LEMMA OrderedTab ==
  ASSUME OrderedInv,
         \/ Connect \/ Disconnect \/ ServerRestarts \/ OpenPage \/ ClosePage \/ FetchReads
         \/ Hydrate \/ TabDecides \/ UNCHANGED browser
  PROVE  OrderedInv'
  <1> DEFINE Asks == {"subscribe", "unsubscribe", "decision"}
  <1>1. log \in Seq(Rows) /\ Len(log) \in Nat /\ Bounded /\ Ordered(view) /\ view \in View
    BY DEF OrderedInv, Ordered
  <1>2. up \in Seq(Asks)
    BY <1>1 DEF Bounded
  <1>3. \A a \in Asks : Append(up, a) \in Seq(Asks)
    BY <1>2, AppendProperties
  <1>4. CASE Connect \/ Disconnect \/ ServerRestarts \/ OpenPage \/ ClosePage \/ FetchReads
    <2>1. UNCHANGED <<log, seq, tab>> /\ down' \in {down, <<>>}
      BY <1>4 DEF Connect, Disconnect, ServerRestarts, OpenPage, ClosePage, FetchReads, server, wire
    <2>2. /\ run' \in {run, "none"} /\ locked' \in {locked, FALSE} /\ attached' \in {attached, FALSE}
          /\ online' \in BOOLEAN /\ open' \in BOOLEAN
      BY <1>1, <1>4 DEF Connect, Disconnect, ServerRestarts, OpenPage, ClosePage, FetchReads,
         server, wire, page, Bounded
    <2>3. fetch' \in {fetch, NoFetch, Sent, Len(log)}
      BY <1>4 DEF Connect, Disconnect, ServerRestarts, OpenPage, ClosePage, FetchReads, page
    <2>4. up' \in {up, <<>>, <<"subscribe">>, Append(up, "subscribe"), Append(up, "unsubscribe")}
      BY <1>4 DEF Connect, Disconnect, ServerRestarts, OpenPage, ClosePage, FetchReads, wire
    <2>5. up' \in Seq(Asks)
      <3>1. <<>> \in Seq(Asks) /\ <<"subscribe">> \in Seq(Asks)
        OBVIOUS
      <3> QED
        BY <1>2, <1>3, <2>4, <3>1
    <2>6. fetch' \in {NoFetch, Sent} \cup 0..Len(log)
      BY <1>1, <2>3 DEF Bounded
    <2>7. Bounded'
      BY <1>1, <2>1, <2>2, <2>5, <2>6 DEF Bounded, tab
    <2> QED
      BY <2>1, <2>7, OrderedQuiet
  <1>5. ASSUME UNCHANGED <<server, online, down, open, size, fresh, processed, unread, skipped>>,
               Ordered(view'), fetch' \in {fetch, NoFetch}, up' \in Seq(Asks)
        PROVE  OrderedInv'
    <2>1. fetch' \in {NoFetch, Sent} \cup 0..Len(log)
      BY <1>1, <1>5 DEF Bounded
    <2>2. UNCHANGED <<log, run, seq, locked, attached, down, fresh>>
      BY <1>5 DEF server
    <2>3. Bounded'
      BY <1>1, <1>5, <2>1, <2>2 DEF Bounded
    <2> QED
      BY <1>5, <2>2, <2>3 DEF OrderedInv
  <1>6. CASE Hydrate
    <2> DEFINE r == Rebuilt(log, fetch)
               w == [r EXCEPT !.hydrated = TRUE]
    <2>1. /\ UNCHANGED <<server, online, up, down, open, size, fresh, processed, unread, skipped>>
          /\ fetch' = NoFetch /\ fetch >= 0 /\ (view' = view \/ view' = w)
      BY <1>6 DEF Hydrate, wire, Reconstructed
    <2>2. fetch \in 0..Len(log)
      BY <1>1, <2>1 DEF Bounded, NoFetch, Sent
    <2>3. Ordered(r)
      BY <1>1, <2>2, OrderedRebuilt
    <2> HIDE DEF r
    <2>4. w \in View /\ w.steps = r.steps /\ w.lastSeq = r.lastSeq
      BY <2>3 DEF Ordered, View
    <2> HIDE DEF w
    <2>5. Ordered(w)
      BY <2>3, <2>4, OrderedSame
    <2> QED
      BY <1>1, <1>2, <1>5, <2>1, <2>5
  <1>7. CASE TabDecides
    <2> DEFINE w == [view EXCEPT !.submitted = TRUE]
    <2>1. /\ UNCHANGED <<server, online, down, open, fetch, size, fresh, processed, unread, skipped>>
          /\ view' = w /\ up' \in {up, Append(up, "decision")}
      BY <1>7 DEF TabDecides, page
    <2>2. w \in View /\ w.steps = view.steps /\ w.lastSeq = view.lastSeq
      BY <1>1 DEF View
    <2> HIDE DEF w
    <2>3. Ordered(w)
      BY <1>1, <2>2, OrderedSame
    <2> QED
      BY <1>2, <1>3, <1>5, <2>1, <2>3
  <1>8. CASE UNCHANGED browser
    BY <1>1, <1>2, <1>5, <1>8 DEF browser, wire, page, tab
  <1> QED
    BY <1>4, <1>6, <1>7, <1>8

LEMMA OrderedStep ==
  ASSUME OrderedInv, [BrowserNext]_browser
  PROVE  OrderedInv'
  BY OrderedServer, OrderedServe, OrderedTab, OrderedReceive, OrderedEffect DEF BrowserNext

LEMMA InitialOrdered ==
  ASSUME BrowserInit
  PROVE  OrderedInv
  <1>1. /\ log = <<>> /\ down = <<>> /\ fresh = <<>> /\ up = <<>> /\ view = NoView
        /\ run = "none" /\ seq = 0 /\ size = 0 /\ processed = 0 /\ unread = 0 /\ fetch = NoFetch
        /\ locked = FALSE /\ attached = FALSE /\ online = FALSE /\ open = FALSE /\ skipped = FALSE
    BY DEF BrowserInit
  <1>2. Ordered(view)
    BY <1>1, NoViewType DEF Ordered
  <1>3. MaxSteps \in Nat /\ Cap \in Nat
    BY BrowserAssumption
  <1>4. log \in Seq(Rows) /\ down \in Seq(Posts(log)) /\ fresh \in Seq(Posts(log)) /\ Len(fresh) = 0
        /\ up \in Seq({"subscribe", "unsubscribe", "decision"})
    BY <1>1
  <1>5. Bounded
    <2>1. seq \in 0..MaxSteps /\ size \in 0..Cap /\ processed \in 0..Cap /\ unread \in Nat
          /\ Len(fresh) <= size
      BY <1>1, <1>3, <1>4
    <2>2. run \in Live \cup {"none", "over"} /\ fetch \in {NoFetch, Sent} \cup 0..Len(log)
      BY <1>1
    <2>3. locked \in BOOLEAN /\ attached \in BOOLEAN /\ online \in BOOLEAN /\ open \in BOOLEAN
          /\ skipped \in BOOLEAN
      BY <1>1
    <2> QED
      BY <1>4, <2>1, <2>2, <2>3 DEF Bounded
  <1> QED
    BY <1>2, <1>4, <1>5 DEF OrderedInv

\* The variables stay within their types, whatever is launched.
THEOREM BrowserTypes == BrowserSpec => []BrowserTypeOK
  <1>1. BrowserInit => OrderedInv
    BY InitialOrdered
  <1>2. OrderedInv /\ [BrowserNext]_browser => OrderedInv'
    BY OrderedStep
  <1>3. OrderedInv => BrowserTypeOK
    BY OrderedIsTyped
  <1> QED
    BY <1>1, <1>2, <1>3, PTL DEF BrowserSpec

ShownInOrder == \A i, j \in 1..Len(view.steps) : i < j => view.steps[i] < view.steps[j]

\* Whatever is launched, delivered twice, late or not at all, the steps a tab shows are
\* in the order of a run and none of them is there twice (applyMessage, "Dedup the
\* reattach overlap").
THEOREM StepsInOrder == BrowserSpec => []ShownInOrder
  <1>1. BrowserInit => OrderedInv
    BY InitialOrdered
  <1>2. OrderedInv /\ [BrowserNext]_browser => OrderedInv'
    BY OrderedStep
  <1>3. OrderedInv => ShownInOrder
    BY DEF OrderedInv, Ordered, ShownInOrder
  <1> QED
    BY <1>1, <1>2, <1>3, PTL DEF BrowserSpec

\* A step once shown stays, until a second run is launched: only the run's own started message
\* begins anew (applyMessage; orchestrator:replay, "don't roll it back").
LEMMA FirstRunKeepsSteps ==
  ASSUME BrowserInv, [BrowserNext]_browser
  PROVE  \/ ToSet(view.steps) \subseteq ToSet(view'.steps)
         \/ Effect /\ Event("started") \in ToSet(Batch)
  <1>1. CASE Effect
    BY <1>1, Rendering
  <1>2. CASE Hydrate
    BY <1>2, HydrateStep
  <1>3. CASE TabDecides
    <2>1. view'.steps = view.steps
      BY <1>3, TabDecidesStep
    <2> QED
      BY <2>1
  <1>4. CASE view' = view
    BY <1>4
  <1>5. Effect \/ Hydrate \/ TabDecides \/ view' = view
    BY DEF BrowserNext, Launch, Start, StartFails, RunSteps, Ask, Park, Wake, Over,
       OtherTabDecides, Serve, Connect, Disconnect, ServerRestarts, OpenPage, ClosePage, FetchReads,
       Receive, browser, tab
  <1> QED
    BY <1>1, <1>2, <1>3, <1>4, <1>5

\* The steps a tab shows are in order and none is there twice, whatever is launched, and a
\* step of the first run once shown stays.
THEOREM StepsStay == BrowserSpec => StepsOnlyGrow
  <1> DEFINE Grows == /\ \A i, j \in 1..Len(view'.steps) : i < j => view'.steps[i] < view'.steps[j]
                      /\ \/ ToSet(view.steps) \subseteq ToSet(view'.steps)
                         \/ Effect /\ Event("started") \in ToSet(Batch)
                         \/ launches > 1
  <1>1. ASSUME FirstRunInv, OrderedInv', [BrowserNext]_browser PROVE Grows
    <2>1. \A i, j \in 1..Len(view'.steps) : i < j => view'.steps[i] < view'.steps[j]
      BY <1>1 DEF OrderedInv, Ordered
    <2>2. launches \in Nat /\ (launches <= 1 => BrowserInv)
      BY <1>1 DEF FirstRunInv
    <2>3. launches > 1 \/ BrowserInv
      BY <2>2
    <2> QED
      BY <1>1, <2>1, <2>3, FirstRunKeepsSteps
  <1>2. FirstRunInv /\ OrderedInv' /\ [BrowserNext]_browser => [Grows]_browser
    BY <1>1
  <1> HIDE DEF Grows
  <1>3. BrowserInit => FirstRunInv /\ OrderedInv
    BY InitialFirstRun, InitialOrdered
  <1>4. FirstRunInv /\ OrderedInv /\ [BrowserNext]_browser => FirstRunInv' /\ OrderedInv'
    BY FirstRunStep, OrderedStep
  <1>5. BrowserSpec => [][Grows]_browser
    BY <1>2, <1>3, <1>4, PTL DEF BrowserSpec
  <1> QED
    BY <1>5 DEF StepsOnlyGrow, Grows

=============================================================================
