SPECIFICATION Spec
CONSTANTS
  Utterances = 2
  Partials = 1
  BotDirections = {"up"}
  NoFrame = NoFrame
CHECK_DEADLOCK FALSE
INVARIANT
  ContextReachesLLM
