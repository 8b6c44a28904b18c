\* One message that is cleared while the worker has it in hand.
SPECIFICATION Spec
CONSTANTS
  Chats = {c1}
  MaxRows = 1
  MaxRuns = 1
  MaxAttempts = 2
  MaxRestarts = 0
CHECK_DEADLOCK FALSE
PROPERTY ClearedNotExecuted
