SPECIFICATION Spec
CONSTANTS
  anna = anna
  annaToo = annaToo
  bob = bob
  fileA = fileA
  fileB = fileB
  oldMemories = oldMemories
  SessionIds = {anna, annaToo, bob}
  Files = {fileA, fileB}
  FileOf <- TwoShareAFile
  Events = {1, 2}
  NoEvent = NoEvent
  Indexer = Indexer
  Prior <- SharedPrior
  ColdTiers = {oldMemories, EmptyCold}
  EmptyCold = EmptyCold
  NoCold = NoCold
  ColdAtStart <- Memories
  Configs <- SomeConfigs
  NoSession = NoSession
  Absent = Absent
  Torn = Torn
  MaxRequests = 6
  MaxFaults = 1
CHECK_DEADLOCK FALSE
INVARIANTS
  OwnLessonsOnly
  SavedIsRemembered
  ColdTiersKept
