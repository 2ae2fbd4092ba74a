------------------------------ MODULE MCTimers ------------------------------
EXTENDS Timers, TLC

CONSTANTS c1, c2, t1, t2

Symmetry == Permutations(Coros) \cup Permutations(Threads)
=============================================================================
