SPECIFICATION Spec
CONSTANTS
  NumChannels = 4
  SYS_CHECKSTATUS = 2
  SYS_CHECKMESSAGE = 3
  N = 3
  Forks = 5
  Waiter = 1
  MaxForks = 7
INVARIANTS
  TypeOK
  SendsInTable
PROPERTIES
  RequestsStay
  RequestsAnswered
  OneChannel
  GivingEnds
