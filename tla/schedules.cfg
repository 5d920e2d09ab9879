\* Two schedules, an operation from the stream and two over HTTP, with a crash or a failing
\* operation; HTTP requests have valid cron expressions.
SPECIFICATION ScheduleFairSpec
CONSTANTS
  i1 = i1
  i2 = i2
  p = p
  q = q
  daily = daily
  weekly = weekly
  bad = bad
  None = None
  Unknown = Unknown
  Consumer = Consumer
  Table <- Tables
  Id = {i1, i2}
  App = {p}
  ValidCron = {daily, weekly}
  Entry <- All
  HttpEntry <- Posted
  MaxOps = 1
  MaxRequests = 2
  MaxFailures = 1
INVARIANTS
  ScheduleTypeOK
  RowsAndJobsAgree
  RowsAreSchedulable
PROPERTIES
  EverythingIsProcessed
CHECK_DEADLOCK FALSE
