\* Any three of two injects, a follow-up and a reminder against two model requests and
\* one restarted iteration, retry or recovery.
SPECIFICATION Spec
CONSTANTS
  Injects = {i1, i2}
  Followups = {f1}
  Reminders = {m1}
  MaxRequests = 2
  MaxRestarts = 1
SYMMETRY Symmetric
CONSTRAINT AnyThree
\* The run ends.
CHECK_DEADLOCK FALSE
INVARIANT TypeOK
INVARIANT PairsIntact
INVARIANT AnswerSeesInjections
INVARIANT AnswerSeesHistory
INVARIANT ShownOnceInOrder
PROPERTY MailboxSpec
