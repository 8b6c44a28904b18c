SPECIFICATION Spec
CONSTANTS
  None = None
  r1 = r1
  r2 = r2
  s1 = s1
  s2 = s2
  p1 = p1
  Runs = {r1, r2}
  Publishers = {p1}
  Streams = {s1, s2}
  MaxEvents = 2
  PublishMayFail = TRUE
SYMMETRY Symmetric
INVARIANT TypeOK
INVARIANT NoGapNoRepeat
INVARIANT IdleStreamIsCurrent
INVARIANT StateFollowsLog
