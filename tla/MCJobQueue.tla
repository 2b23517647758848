---------------------------- MODULE MCJobQueue ----------------------------
EXTENDS JobQueueProps, TLC
CONSTANTS j1, j2, u1, u2, c1, c2, c3, c4, s1, s2
Symmetry == Permutations(Calls) \cup Permutations(Slots) \cup Permutations(Users)
=============================================================================
