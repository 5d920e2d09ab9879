\* Two chunks and an outcome, or two errors, through a library buffer of two events and a channel of one, with a failure.
SPECIFICATION ListenFairSpec
CONSTANTS
  MaxEvents = 3
  Buffer = 2
  ChanSize = 1
  MaxFailures = 1
INVARIANTS
  ListenTypeOK
  EventsInOrder
  CreatedStreamIsComplete
PROPERTIES
  SubscriptionIsReleased
  OutcomeEndsTheStream
CHECK_DEADLOCK FALSE
