\* Two runs of a session, one executing at a time: a start that may fail, a
\* stop and a server restart at any point.
SPECIFICATION Spec
CONSTANTS
  s1 = s1
  None = None
  Runs = {r1, r2}
  Sessions = {s1}
  SessionOf <- OneSession
  Drivers = {d1}
  Stoppers = {p1}
  Workers = {w1}
  StoreMayFail = TRUE
  CanRestart = TRUE
SYMMETRY Symmetric
INVARIANT TypeOK
INVARIANT GateHoldsWorker
 
INVARIANT ExecutingIsRegistered
PROPERTY LeaseSpec
