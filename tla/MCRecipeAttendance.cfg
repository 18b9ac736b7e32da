CONSTANTS
  p1 = p1
  p2 = p2
  mint = mint
  ice = ice
  Pod = {p1, p2}
  Command <- MCCommand
  PodOf <- MCPodOf
  Program <- MCProgram
  MaxRuns = 2
  MaxEvents = 1
SPECIFICATION AttendanceSpec
SYMMETRY MCSymmetry
INVARIANTS
  TypeOK
  NothingOutlivesItsRecipe
  NoPourEscapes
  OneRecipeAtATime
  NoUnattendedRecipe
  NoAbortIsLost
CHECK_DEADLOCK FALSE
