----------------------- MODULE MCInvestigationPipeline -----------------------
EXTENDS InvestigationPipeline
CONSTANTS m, r, q

\* A threshold, the absence of a status on a named resource, a log pattern.
MCPredictions ==
  {[kind |-> "metric-threshold", subject |-> m, present |-> TRUE],
   [kind |-> "infra-status", subject |-> r, present |-> FALSE],
   [kind |-> "log-pattern", subject |-> m, present |-> TRUE]}

\* The metric over and under the threshold, the pattern, the resource with and
\* without the status, another resource.
MCFindings ==
  {[phase |-> "metrics", subject |-> m, hit |-> TRUE],
   [phase |-> "metrics", subject |-> m, hit |-> FALSE],
   [phase |-> "logs", subject |-> m, hit |-> TRUE],
   [phase |-> "infra", subject |-> r, hit |-> TRUE],
   [phase |-> "infra", subject |-> r, hit |-> FALSE],
   [phase |-> "infra", subject |-> q, hit |-> FALSE]}

=============================================================================
