\* The same with an HTTP request that has an invalid cron expression, and no failure.
SPECIFICATION ScheduleSpec
CONSTANTS
  i1 = i1
  i2 = i2
  p = p
  q = q
  daily = daily
  weekly = weekly
  bad = bad
  None = None
  Unknown = Unknown
  Consumer = Consumer
  Table <- NoTable
  Id = {i1, i2}
  App = {p}
  ValidCron = {daily, weekly}
  Entry <- All
  HttpEntry <- All
  MaxOps = 1
  MaxRequests = 1
  MaxFailures = 0
INVARIANT
  RowsAreSchedulable
CHECK_DEADLOCK FALSE
