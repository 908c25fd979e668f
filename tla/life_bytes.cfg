SPECIFICATION Spec
CONSTANTS
  Bits = 3
  Words = 2
INVARIANTS
  SumsAreBits
  WordsFollowTheRule
  ExportRestores
