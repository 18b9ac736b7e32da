CONSTANTS
  o1 = o1
  o2 = o2
  Operation = {o1, o2}
  NoOperation = NoOperation
  MaxOpen = 2
SPECIFICATION FairPopupSpec
PROPERTY EveryPopupIsAnswered
CHECK_DEADLOCK FALSE
