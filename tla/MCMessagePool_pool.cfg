\* Two messages of one chat with a run each, retried, cleared and answered.
SPECIFICATION Spec
CONSTANTS
  Chats = {c1}
  MaxRows = 2
  MaxRuns = 2
  MaxAttempts = 2
  MaxRestarts = 0
\* The handler may have delivered everything.
CHECK_DEADLOCK FALSE
INVARIANT TypeOK
INVARIANT OneInFlight
INVARIANT StartsInOrder
INVARIANT AnsweredOnce
