CONSTANTS
  SubblockBits = 2
  SubblocksPerBlock = 2
  SigBits = 2
  Entries <- MCEntries
  Queries <- MCQueries
  TopKs = {1, 3}
  Thresholds = {0, 3}
  DocRange = 2
  MaxEntries = 5

SPECIFICATION Spec

INVARIANTS
  TypeOK
  TailBounded
  TablesAgree
  RadiusCutsRanking

PROPERTY
  ImplementsLog
