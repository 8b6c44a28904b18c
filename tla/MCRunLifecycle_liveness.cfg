\* One run, stopped and resumed with two task objects: its next task may start
\* while the one before it still unwinds.  No symmetry: liveness is checked.
SPECIFICATION FairSpec
CONSTANTS
  s1 = s1
  None = None
  Runs = {r1}
  Sessions = {s1}
  SessionOf <- OneSession
  Drivers = {d1}
  Stoppers = {p1}
  Workers = {w1, w2}
  StoreMayFail = TRUE
  CanRestart = FALSE
\* All run ids can be used up, with every run ended.
CHECK_DEADLOCK FALSE
 
PROPERTY LeaseSpec
PROPERTY GateOpens
 
