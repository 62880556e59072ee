--------------------------- MODULE MCAgentJournal ---------------------------
EXTENDS AgentJournal, TLC

CONSTANTS c1, c2

Swapped == Permutations({c1, c2})
=============================================================================
