\* Three registrations of four versions of one app, one after the other or two at a time, with
\* two crashes or failing Redis operations.
SPECIFICATION RegistrySpec
CONSTANTS
  a = a
  b = b
  url1 = url1
  url2 = url2
  x = x
  y = y
  h1 = h1
  h2 = h2
  None = None
  Tool = {a, b}
  Url = {url1, url2}
  Topic = {x, y}
  Request <- Versions
  Handler = {h1, h2}
  MaxRegistrations = 3
  MaxFailures = 2
SYMMETRY Handlers
INVARIANTS
  RegistryTypeOK
  RegistrationIsServed
PROPERTIES
  StoreIsAhead
CHECK_DEADLOCK FALSE
