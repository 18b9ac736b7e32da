CONSTANTS
  p1 = p1
  p2 = p2
  d1 = d1
  d2 = d2
  s1 = s1
  s2 = s2
  None = None
  Pod = {p1, p2}
  Port = {d1, d2}
  Session = {s1, s2}
  MaxLag = 1
  MaxClosures = 1
SPECIFICATION FairSpec
INVARIANTS
  TypeOK
  OneSessionPerPod
  ReadyIsCurrent
  RowsAreTrue
PROPERTY UnpluggedPodDisappears
CHECK_DEADLOCK FALSE
