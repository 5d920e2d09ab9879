\* Two apps.  The supervisor alone: four starts, two lives of the controller, a change of a
\* folder, a crash.  A call beside it: three starts, two lives, a crash.
SPECIFICATION AppsFairSpec
CONSTANTS
  own = own
  given = given
  App = {own, given}
  OwnPort <- Ports
  MaxStarts = 4
  MaxLives = 2
  MaxEdits = 1
  MaxAppFailures = 1
  CallStarts = 3
  CallLives = 2
  CallFailures = 1
INVARIANTS
  AppsTypeOK
  NoneIsForgotten
  AnsweredByItsApp
  CallsGoToTheKnown
  AnswerIsTrue
PROPERTY
  DeadAppIsRestarted
CHECK_DEADLOCK FALSE
