CONSTANTS
  NPcb = 3
  StackSize = 2
  MainConsole = 10
  Traps <- TableTraps
  MayExit <- AllSlots
  Priorities = {4, 7}
  UserStates <- TableUsers
  FrameA = FrameA
  FrameB = FrameB
  Blank = Blank
  SvcFrames = SvcFrames
  MaxAge = 2
SPECIFICATION Spec
INVARIANTS
  TypeOK
  TableOK
  SpInOwnStack
