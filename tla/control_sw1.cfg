SPECIFICATION FairSpec
CONSTANTS
  RowWords = 1
  ImageWords = 2
  ButtonCapacity = 2
  SW1Again = TRUE
  OpenMayFail = TRUE
PROPERTIES
  KeepsListening
