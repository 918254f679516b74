SPECIFICATION Spec
CONSTANTS
  Signatures = {0, 1, 2, 7}
  Distance <- LineDistance
  Corpus <- SmallCorpus
  Scopes <- SmallScopes
  CoarseK = 1
  MaxCandidateEvents = 1
  NoEvent = NoEvent
  DeltaTolerance = 1
  MaxEntriesPerScope = 2
  TopKs = {1, 2}
  DriftThreshold = 2
  SpeculativeTolerance = 1
  WindowCapacity = 2
  MaxAge = 1
  NoSig = NoSig
  NoResults = NoResults
  NoOutput = NoOutput
  MaxCalls = 5
CHECK_DEADLOCK FALSE
INVARIANTS
  TypeOK
  ServedNearQuery
  DistancesHonest
  RegretBounded
  SpeculationKeepsUp
  DeltaEntriesApart
  WindowLearned
PROPERTY
  ImplementsTurns
