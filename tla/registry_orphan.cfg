\* The same with one failure: a pipeline cut short leaves a tool behind for good.
SPECIFICATION RegistrySpec
CONSTANTS
  a = a
  b = b
  url1 = url1
  url2 = url2
  x = x
  y = y
  h1 = h1
  h2 = h2
  None = None
  Tool = {a, b}
  Url = {url1, url2}
  Topic = {x, y}
  Request <- Versions
  Handler = {h1}
  MaxRegistrations = 3
  MaxFailures = 1
INVARIANT
  RegistrationReplacesTools
CHECK_DEADLOCK FALSE
