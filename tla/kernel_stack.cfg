CONSTANTS
  NPcb = 3
  StackSize = 2
  MainConsole = 10
  Traps <- ShippedTraps
  MayExit <- ChildSlots
  Priorities = {4, 7}
  UserStates <- RefinesUsers
  FrameA = FrameA
  FrameB = FrameB
  Blank = Blank
  SvcFrames = SvcFrames
  MaxAge = 2
SPECIFICATION Spec
INVARIANTS
  KernelStackIntact
