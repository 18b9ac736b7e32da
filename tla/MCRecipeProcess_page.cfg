CONSTANTS
  p1 = p1
  mint = mint
  ice = ice
  Pod = {p1}
  Command <- MCCommand
  PodOf <- MCPodOf
  Program <- MCProgram
  MaxRuns = 2
  MaxEvents = 0
SPECIFICATION Spec
INVARIANT EveryMixIsAttended
CHECK_DEADLOCK FALSE
