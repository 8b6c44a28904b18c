--------------------------- MODULE MCRunLifecycle ---------------------------
EXTENDS RunLifecycle, TLC

CONSTANTS s1

\* Every run belongs to the one session, so that runs compete for it.
OneSession == [r \in Runs |-> s1]

\* Run ids, task slots and requests are interchangeable.
Symmetric == Permutations(Runs) \cup Permutations(Workers)
               \cup Permutations(Drivers) \cup Permutations(Stoppers)

=============================================================================
