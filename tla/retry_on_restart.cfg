\* One app call, an exception while it is processed, and a restart.
SPECIFICATION FairSpec
CONSTANTS
  t1 = t1
  t2 = t2
  c1 = c1
  c2 = c2
  w1 = w1
  Task = {t1}
  AppTask = {t1}
  DeclaredUntrusted = {}
  Consumer = {c1}
  Worker = {w1}
  MaxCalls = 1
  MaxRoundCalls = 1
  MaxToolResultIterations = 2
  MaxFailures = 2
PROPERTY
  UnackedIsRetriedOnRestart
CHECK_DEADLOCK FALSE
