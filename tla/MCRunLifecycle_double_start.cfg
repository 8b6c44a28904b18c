\* Two requests resume one stopped run.
SPECIFICATION Spec
CONSTANTS
  s1 = s1
  None = None
  Runs = {r1}
  Sessions = {s1}
  SessionOf <- OneSession
  Drivers = {d1, d2}
  Stoppers = {}
  Workers = {w1, w2}
  StoreMayFail = FALSE
  CanRestart = FALSE
\* All run ids can be used up, with every run ended.
CHECK_DEADLOCK FALSE
INVARIANT OneWorkerPerRun
