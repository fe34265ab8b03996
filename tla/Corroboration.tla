---------------------------- MODULE Corroboration ----------------------------
(***************************************************************************)
(* The deterministic check of an investigation's hypotheses                *)
(* (src/workflows/steps/corroboration.ts): what the observations say of a  *)
(* structured prediction, and whether the leading hypothesis stands out    *)
(* from the one ranked next.                                               *)
(*                                                                         *)
(* An observation names what it is about and whether it bears a prediction *)
(* about that out: the metric crosses the threshold, the log line shows    *)
(* the pattern, the resource has the status, the change fell in the window *)
(* before the incident.  The onset of the incident is known: the anomaly   *)
(* step always resolves a time range.                                      *)
(***************************************************************************)
EXTENDS Naturals, Sequences, TLC

CONSTANT Subjects   \* metrics, log patterns and resources that may be named

ASSUME CorroborationAssumption == "any" \notin Subjects

Phases   == {"metrics", "logs", "infra", "changes"}
Verdicts == {"satisfied", "contradicted", "absent"}

Observation == [phase : Phases, subject : Subjects, hit : BOOLEAN]

\* The role that can speak to each kind of prediction.
AskedOf == ("metric-threshold" :> "metrics") @@ ("log-pattern" :> "logs") @@
           ("infra-status" :> "infra") @@ ("change-in-window" :> "changes")

\* Only a log or infra prediction may foretell an absence; a change is not
\* named, and an infra status need not name its resource.
Prediction ==
  [kind : {"metric-threshold"}, subject : Subjects, present : {TRUE}]
    \cup [kind : {"log-pattern"}, subject : Subjects, present : BOOLEAN]
    \cup [kind : {"infra-status"}, subject : Subjects \cup {"any"}, present : BOOLEAN]
    \cup [kind : {"change-in-window"}, subject : {"any"}, present : {TRUE}]

Hearing(p, obs) == {o \in obs : o.phase = AskedOf[p.kind]}
About(p, obs)   == {o \in Hearing(p, obs) : p.subject \in {"any", o.subject}}
Hits(p, obs)    == {o \in About(p, obs) : o.hit}

Foreseen(p, obs) ==
  IF Hits(p, obs) # {} THEN "satisfied"
  ELSE IF p.kind \in {"metric-threshold", "change-in-window"} /\ About(p, obs) # {}
       THEN "contradicted" ELSE "absent"

\* What speaks for an absence: any log line, but the named resource itself.
Looked(p, obs) == IF p.kind = "infra-status" THEN About(p, obs) ELSE Hearing(p, obs)

Missing(p, obs) ==
  IF Hits(p, obs) # {} THEN "contradicted"
  ELSE IF Looked(p, obs) # {} THEN "satisfied" ELSE "absent"

\* evaluatePrediction
Verdict(p, obs) == IF p.present THEN Foreseen(p, obs) ELSE Missing(p, obs)

Holds(p, obs) == Verdict(p, obs) = "satisfied"

\* assessDiscrimination of the first of a ranking against the second
Assessed(ranked, obs) ==
  IF ~Holds(ranked[1].prediction, obs) THEN "weakened"
  ELSE IF Len(ranked) > 1 /\ Holds(ranked[2].prediction, obs) THEN "undetermined"
  ELSE "confirmed"

=============================================================================
