SPECIFICATION FairSpec
CONSTANTS
  MaxRuns = 2
  Mixes <- MCMixes
  Processes = {p1, p2}
  Nobody = Nobody
  Window = 1
  MaxMishaps = 2
INVARIANTS OneThreadPerRun
PROPERTIES BlocksIdleTask DeadRunsSettle
CHECK_DEADLOCK FALSE
