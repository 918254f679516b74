CONSTANTS
  Signatures <- MCSignatures
  Distance <- MCDistance
  Corpus <- MCCorpus
  Scopes <- MCScopes
  CoarseK = 2
  MaxCandidateEvents = 2
  TopKs = {1, 2}
  NoEvent = NoEvent
  RayonThreads = 2
  MinChunk = 2
  Threads = {t1}
  NoThread = NoThread
  Requests <- MCRequests
  Parallel = TRUE
  MinShardSize = 2
  WarmFiles <- MCWarmFiles
  NoFile = NoFile
  NoResult = NoResult
  MaxCalls = 2
  MaxRestarts = 0

SPECIFICATION Spec

INVARIANT
  SmallScopesRescanned

CHECK_DEADLOCK FALSE
