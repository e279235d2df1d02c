---------------------------- MODULE MCStdioPool ----------------------------
EXTENDS StdioPool, TLC

CONSTANTS c1, c2, c3, s1, s2, s3, s4, k1, k2, k3, k4

Perms == Permutations(Callers) \cup Permutations(Slots) \cup Permutations(Children)
=============================================================================
