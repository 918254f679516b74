CONSTANTS
  Signatures <- MCSignatures
  Distance <- MCDistance
  Corpus <- MCCorpus
  Scopes <- MCScopes
  CoarseK = 2
  MaxCandidateEvents = 2
  TopKs = {1, 2}
  NoEvent = NoEvent
  RayonThreads = 2
  MinChunk = 2
  Threads = {t1, t2}
  NoThread = NoThread
  Requests <- MCRequests
  Parallel = TRUE
  MinShardSize = 2
  WarmFiles <- MCWarmFiles
  NoFile = NoFile
  NoResult = NoResult
  MaxCalls = 3
  MaxRestarts = 1

SPECIFICATION Spec

INVARIANTS
  BuiltOnce
  ShardAnswersHonest
  ScansNearest
  LargeEventAnswers

PROPERTY
  CallsEnd

CHECK_DEADLOCK FALSE
