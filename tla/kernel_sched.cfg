CONSTANTS
  NPcb = 4
  StackSize = 2
  MainConsole = 10
  Traps <- SchedTraps
  MayExit <- NoSlots
  Priorities = {4, 7}
  UserStates <- SchedUsers
  FrameA = FrameA
  FrameB = FrameB
  Blank = Blank
  SvcFrames = SvcFrames
  MaxAge = 8
SPECIFICATION FairSpec
INVARIANTS
  WaitBounded
  ScanAgrees
PROPERTIES
  EveryLiveRuns
