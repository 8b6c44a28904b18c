-------------------------- MODULE MCRunEventStream --------------------------
EXTENDS RunEventStream, TLC

CONSTANTS r1, r2, s1, s2, p1

Symmetric == Permutations({r1, r2}) \cup Permutations({s1, s2})

=============================================================================
