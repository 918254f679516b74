SPECIFICATION PredictorSpec
CONSTANTS
  MaxOrder = 2
  Smoothing = 1
  Decays = TRUE
  LastTick = 2
  Warmup = 4
  EventIds = {1, 2, 3}
  TrainingSets <- MCTrainingSets
  Kinds = {"markov", "sr", "hybrid"}
  TopNs = {1, 3}
  NeverSaved = NeverSaved
  MaxTurns = 4
CHECK_DEADLOCK FALSE
INVARIANTS
  RowsAddUp
  ProbabilitiesAddUp
  RestartInvisible
  SrForesees
  HybridSpeaks
