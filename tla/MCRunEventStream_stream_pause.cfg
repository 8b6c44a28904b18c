SPECIFICATION Spec
CONSTANTS
  None = None
  r1 = r1
  r2 = r2
  s1 = s1
  s2 = s2
  p1 = p1
  Runs = {r1}
  Publishers = {p1}
  Streams = {s1, s2}
  MaxEvents = 2
  PublishMayFail = FALSE
SYMMETRY Symmetric
INVARIANT PauseKeepsSubscribers
