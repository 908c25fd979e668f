SPECIFICATION FilesSpec
CONSTANTS
  RowWords = 2
  ImageWords = 4
  ButtonCapacity = 2
  SW1Again = FALSE
  OpenMayFail = TRUE
  InFiles <- MCInFiles
  Evolve <- MCEvolve
  Junk <- MCJunk
INVARIANTS
  TypeOK
  TimerFollows
  ExportReadable
  StreamsOpen
PROPERTIES
  TiltAndLevelAlternate
  RoundsGoOn
  RequestsServed
  KeepsListening
  ImageIsTheFile
