SPECIFICATION Spec
CONSTANTS
  Utterances = 2
  Partials = 1
  Replies = {1}
  Short <- MCShort
  ServerFaults = TRUE
CHECK_DEADLOCK FALSE
INVARIANTS
  TaughtAndToldOnce
  ClosedStaysGone
PROPERTY
  CoroutinesEnd
