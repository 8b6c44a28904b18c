--------------------------- MODULE MCRunInjection ---------------------------
EXTENDS RunInjection, TLC

\* Messages of one kind are interchangeable.
Symmetric ==
  Permutations(Injects) \cup Permutations(Followups) \cup Permutations(Reminders)

\* Any three of the messages in one behaviour.
AnyThree == Cardinality(sent) <= 3

=============================================================================
