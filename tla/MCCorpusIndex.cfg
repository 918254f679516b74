SPECIFICATION CorpusSpec
CONSTANTS
  textA = textA
  textB = textB
  textC = textC
  id1 = id1
  id2 = id2
  Texts = {textA, textB, textC}
  DocIds = {id1, id2}
  EventNames = {2, 3}
  DefaultName = 1
  Unnamed = Unnamed
  Embedders = {"hashed", "local"}
  Encoding <- SomeEncoding
  Signatures = {0, 1, 2}
  Distance <- LineDistance
  Corpora <- SomeCorpora
  Transcripts <- SomeTranscripts
  Blank = 0
  UnknownId = UnknownId
  NoFile = NoFile
  Nobody = Nobody
  MaxWriters = 3
  MaxReaders = 1
CHECK_DEADLOCK FALSE
INVARIANTS
  HitsOfOneEntry
  HitsAreListed
  PredictedAsTaught
