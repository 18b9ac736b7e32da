CONSTANTS
  p1 = p1
  p2 = p2
  mint = mint
  ice = ice
  Pod = {p1, p2}
  Command <- MCCommand
  PodOf <- MCPodOf
  Program <- MCProgram
  MaxRuns = 1
  MaxEvents = 0
SPECIFICATION FairSpec
PROPERTY EmptyDispenserForcesSafeState
CHECK_DEADLOCK FALSE
