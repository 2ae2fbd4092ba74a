--------------------------- MODULE MCEventServer ---------------------------
EXTENDS EventServer, TLC

CONSTANTS s1, s2, t1, t2

Symmetry == Permutations(Socks) \cup Permutations(Threads)
=============================================================================
