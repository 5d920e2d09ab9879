\* Safety of the pipeline: an app task and a user task, one process of each kind, one tool
\* call each, one crash or one failing await anywhere.
SPECIFICATION Spec
CONSTANTS
  t1 = t1
  t2 = t2
  c1 = c1
  c2 = c2
  w1 = w1
  Task = {t1, t2}
  AppTask = {t1}
  DeclaredUntrusted = {}
  Consumer = {c1}
  Worker = {w1}
  MaxCalls = 1
  MaxRoundCalls = 1
  MaxToolResultIterations = 1
  MaxFailures = 1
INVARIANTS
  TypeOK
  HostsRespectTrust
  ExecutedAtMostOnce
  OutcomeIsFinal
  AckedMeansReported
  AnswersBelongToTheTask
PROPERTY
  ImplementsLifecycle
CHECK_DEADLOCK FALSE
