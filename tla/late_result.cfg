\* A slow runner and a second call of the same task, no failure.
SPECIFICATION Spec
CONSTANTS
  t1 = t1
  t2 = t2
  c1 = c1
  c2 = c2
  w1 = w1
  Task = {t1}
  AppTask = {}
  DeclaredUntrusted = {}
  Consumer = {c1}
  Worker = {w1}
  MaxCalls = 2
  MaxRoundCalls = 2
  MaxToolResultIterations = 2
  MaxFailures = 0
INVARIANT
  AnswersAreForTheCall
CHECK_DEADLOCK FALSE
