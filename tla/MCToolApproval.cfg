\* Two identical calls with one thread between them, two requests that resolve
\* their tickets, and a stop or a restart.
SPECIFICATION FairSpec
CONSTANTS
  None = None
  k1 = k1
  k2 = k2
  once = once
  Calls = {k1, k2}
  Signatures = {once}
  SigOf <- AllAlike
  Keeping = {}
  Requests = {u1, u2}
  Threads = 1
  MaxBreaks = 1
\* All calls have ended and all requests are used up.
CHECK_DEADLOCK FALSE
INVARIANT TypeOK
INVARIANT DecisionStands
INVARIANT AnswerFollowsDecision
INVARIANT UnregisteredWasShared
PROPERTY CallSettles
