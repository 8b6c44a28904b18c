\* One message, more runs than its attempts and a restart allow.
SPECIFICATION FairSpec
CONSTANTS
  Chats = {c1}
  MaxRows = 1
  MaxRuns = 4
  MaxAttempts = 2
  MaxRestarts = 1
\* The handler may have delivered everything.
CHECK_DEADLOCK FALSE
INVARIANT OneBusyRun
INVARIANT AnsweredOnce
INVARIANT RunsBounded
PROPERTY ClaimSettles
