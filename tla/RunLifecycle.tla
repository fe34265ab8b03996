---------------------------- MODULE RunLifecycle ----------------------------
(***************************************************************************)
(* What the server promises about the Deep Investigation runs of one       *)
(* investigation, without its registry, timers and messages: one run at a  *)
(* time, which works until it is over, sleeps only while nobody watches,   *)
(* is awake as soon as somebody does, and never falls asleep once stopped. *)
(* DeepRun implements it.                                                  *)
(***************************************************************************)
CONSTANT Runs

VARIABLES
  phase,      \* "unborn", "active", "parked" or "over", for each run
  watched,    \* whether somebody watches the current run
  stopped     \* runs the operator has stopped

vars == <<phase, watched, stopped>>

Phases == {"unborn", "active", "parked", "over"}

Init ==
  /\ phase = [r \in Runs |-> "unborn"]
  /\ watched = FALSE
  /\ stopped = {}

Becomes(r, p) == phase' = [phase EXCEPT ![r] = p]

Launch(r) ==
  /\ \A q \in Runs : phase[q] \in {"unborn", "over"}
  /\ phase[r] = "unborn"
  /\ Becomes(r, "active")
  /\ watched' = TRUE
  /\ UNCHANGED stopped

Park(r) ==
  /\ phase[r] = "active" /\ ~watched /\ r \notin stopped
  /\ Becomes(r, "parked")
  /\ UNCHANGED <<watched, stopped>>

\* Somebody came back, decided something, or stopped the run.
Resume(r) ==
  /\ phase[r] = "parked"
  /\ Becomes(r, "active")
  /\ watched' \in BOOLEAN
  /\ stopped' \in {stopped, stopped \cup {r}}

\* Telling the watchers of its end may reveal that they are gone.
Finish(r) ==
  /\ phase[r] = "active"
  /\ Becomes(r, "over")
  /\ watched' \in {watched, FALSE}
  /\ UNCHANGED stopped

Stop(r) ==
  /\ phase[r] \in {"active", "over"}
  /\ stopped' = stopped \cup {r}
  /\ UNCHANGED <<phase, watched>>

Look ==
  /\ watched' \in BOOLEAN
  /\ watched' => \A r \in Runs : phase[r] # "parked"
  /\ UNCHANGED <<phase, stopped>>

Next == Look \/ \E r \in Runs : Launch(r) \/ Park(r) \/ Resume(r) \/ Finish(r) \/ Stop(r)

Spec == Init /\ [][Next]_vars

=============================================================================
