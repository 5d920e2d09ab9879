\* One app task whose rounds make up to two tool calls, with two failures: late
\* results, repeated and lost deliveries, and termination.
SPECIFICATION FairSpec
CONSTANTS
  t1 = t1
  t2 = t2
  c1 = c1
  c2 = c2
  w1 = w1
  Task = {t1}
  AppTask = {t1}
  DeclaredUntrusted = {}
  Consumer = {c1}
  Worker = {w1}
  MaxCalls = 2
  MaxRoundCalls = 2
  MaxToolResultIterations = 2
  MaxFailures = 2
INVARIANT
  ResultUsedOnce
PROPERTIES
  NothingAfterTheEnd
  CancelledTaskEnds
  PublishedTaskEnds
CHECK_DEADLOCK FALSE
