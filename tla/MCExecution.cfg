CONSTANTS
  p1 = p1
  mint = mint
  ice = ice
  Pod = {p1}
  Command <- MCParallelCommand
  PodOf <- MCPodOf
  Program <- MCParallelProgram
  MaxRuns = 2
  MaxEvents = 0
  MaxRequests = 2
  TidMod = 3
  WriteCapacity = 1
SPECIFICATION ExecutionSpec
INVARIANTS
  SessionTypeOK
  DispatchNeverFails
  EntriesAreHeld
  FirstAnswerFindsItsRequest
  EndReleasesWaiters
PROPERTIES
  AbortIsCarriedOut
  RecipeEndsOrAsks
  MixingRefined
  RpcRefined
  EveryRequestEnds
CHECK_DEADLOCK FALSE
