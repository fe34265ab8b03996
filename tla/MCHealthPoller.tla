---------------------------- MODULE MCHealthPoller ----------------------------
EXTENDS HealthPoller

\* Serving, failing with a scrape target or a Consul check at zero, scaled to zero.
MCReadings ==
  {[silent |-> {"one"},  loud |-> {"one", "zero"}],
   [silent |-> {},       loud |-> {"zero"}],
   [silent |-> {"zero"}, loud |-> {}]}

=============================================================================
