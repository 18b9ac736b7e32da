CONSTANTS
  MaxAttempts = 3
  LockTicks = 2
  MaxFailed = 5
  MaxTasks = 2
  MaxReports = 1
  Ingredient = {gin, lime}
  Dispenser = {d1, d2}
  Unassigned = Unassigned
  MaxPosts = 2
  Glass = {"tumbler", "highball"}
  Common <- MCCommon
  FullBoost = 5
  Recipe = {"sour", "neat"}
  Content <- MCContent
  BoostValue <- MCBoost
  None = None
  MaxQueued = 1
  MaxEdits = 1
  Operation = {o1, o2, o3}
  NoOperation = NoOperation
  MaxOpen = 1
SPECIFICATION AssignSpec
INVARIANT LookupFindsTheAssigned
CHECK_DEADLOCK FALSE
