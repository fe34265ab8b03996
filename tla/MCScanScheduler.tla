---------------------------- MODULE MCScanScheduler ----------------------------
EXTENDS ScanScheduler
CONSTANTS v1, hourly, daily

On(schedule, rule) == [enabled |-> TRUE, cron |-> schedule, rule |-> rule]

\* On, off, and on with another schedule and the rule removed: between them every way
\* a reload can go.
MCConfigs ==
  {On(hourly, v1), [On(hourly, v1) EXCEPT !.enabled = FALSE], On(daily, "none")}

=============================================================================
