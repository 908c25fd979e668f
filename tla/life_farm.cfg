SPECIFICATION FairSpec
CONSTANTS
  Bits = 2
  Words = 2
  NumSync = 2
  NumStreaming = 1
  RowsPerWorker = 3
  Capacity = 2
  Boards <- TwoBoards
  Unset = Unset
INVARIANTS
  TypeOK
  WorkersAgree
PROPERTIES
  PlaysLife
  CountsEveryCell
