SPECIFICATION PrefetchSpec
CONSTANTS
  Signatures = {0, 1, 2, 3}
  Distance <- LineDistance
  Corpus <- MCCorpus
  Scopes <- MCScopes
  CoarseK = 1
  MaxCandidateEvents = 1
  TopKs = {1, 2}
  NoEvent = NoEvent
  DeltaTolerance = 1
  MaxEntriesPerScope = 2
  MaxOrder = 1
  Smoothing = 1
  Decays = FALSE
  LastTick = 0
  Training <- MCTraining
  TopNEvents = 2
  Confidence <- MCConfidence
  DriftThreshold = 2
  AcceptDrift = 1
  WithDelta = {TRUE, FALSE}
  NoSig = NoSig
  NoResults = NoResults
  NoReply = NoReply
  MaxCalls = 5
CHECK_DEADLOCK FALSE
INVARIANTS
  FinalsHonest
