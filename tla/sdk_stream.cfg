\* A task that ends before the app gets to await its result, without any failure.
SPECIFICATION ListenSpec
CONSTANTS
  MaxEvents = 2
  Buffer = 2
  ChanSize = 1
  MaxFailures = 0
INVARIANT
  TimeoutMeansNoOutcome
CHECK_DEADLOCK FALSE
