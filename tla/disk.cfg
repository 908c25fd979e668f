SPECIFICATION Spec
CONSTANTS
  Radix = 4
  BlockNum = 3
  BlockLen = 2
  DISK_RETRY = 3
  Addresses = {0, 2, 3, 65535}
  Payloads <- MCPayloads
  Blank <- MCBlank
INVARIANTS
  TypeOK
  InStep
PROPERTIES
  ImplementsBlockStore
  CallsReturn
CHECK_DEADLOCK FALSE
