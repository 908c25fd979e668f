SPECIFICATION Spec
CONSTANTS
  IntMax = 3
  Console = console
  Children = {c1, c2}
  BufferSize = 10
  Stale <- MCStale
  Behind <- MCBehind
  AtNull <- MCAtNull
  Execute <- MCExecute
  Terminate <- MCTerminate
  P3 <- MCP3
  P4 <- MCP4
  P5 <- MCP5
  Waiter <- MCWaiter
  Philosopher <- MCPhilosopher
  Lines <- MCKnownLines
  Rounds = 2
  NoProgram <- MCNoProgram
  WeightArgs <- MCWeightArgs
  GcdArgs <- MCGcdArgs
  PrimeArgs <- MCPrimeArgs
SYMMETRY MCSymmetry
INVARIANTS
  ExecutesWhatIsNamed
