\* Input for a session whose run is stopping.
SPECIFICATION Spec
CONSTANTS
  s1 = s1
  None = None
  Runs = {r1, r2}
  Sessions = {s1}
  SessionOf <- OneSession
  Drivers = {d1}
  Stoppers = {p1}
  Workers = {w1, w2}
  StoreMayFail = FALSE
  CanRestart = FALSE
\* All run ids can be used up, with every run ended.
CHECK_DEADLOCK FALSE
INVARIANT StoppingBlocksSession
