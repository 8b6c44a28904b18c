\* A stop whose status write comes late.
SPECIFICATION Spec
CONSTANTS
  s1 = s1
  None = None
  Runs = {r1}
  Sessions = {s1}
  SessionOf <- OneSession
  Drivers = {d1}
  Stoppers = {p1}
  Workers = {w1}
  StoreMayFail = FALSE
  CanRestart = FALSE
\* All run ids can be used up, with every run ended.
CHECK_DEADLOCK FALSE
INVARIANT StoppingIsInProgress
