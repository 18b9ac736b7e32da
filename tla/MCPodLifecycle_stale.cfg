CONSTANTS
  p1 = p1
  d1 = d1
  s1 = s1
  s2 = s2
  None = None
  Pod = {p1}
  Port = {d1}
  Session = {s1, s2}
  MaxLag = 2
  MaxClosures = 1
SPECIFICATION Spec
INVARIANT OneSessionPerPod
CHECK_DEADLOCK FALSE
