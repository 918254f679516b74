SPECIFICATION Spec
CONSTANTS
  Utterances = 2
  Partials = 1
  BotDirections = {"down", "up"}
  NoFrame = NoFrame
CHECK_DEADLOCK FALSE
INVARIANTS
  FinalizedOnce
  AnsweredInOrder
  ContextPrecedesTranscript
  ClosedStaysGone
PROPERTY
  TranscriptsPassOn
