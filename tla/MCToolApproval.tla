--------------------------- MODULE MCToolApproval ---------------------------
EXTENDS ToolApproval

CONSTANTS k1, k2, once

\* Calls of one tool with the same input.
AllAlike == [c \in Calls |-> once]

=============================================================================
