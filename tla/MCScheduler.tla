---------------------------- MODULE MCScheduler ----------------------------
EXTENDS SchedulerInv, SchedulerPromises, TLC

CONSTANTS m, c1, c2, c3

MCCoros == {m, c1, c2}
MCCoros2 == {m, c1}
MCCoros4 == {m, c1, c2, c3}
Symmetry == Permutations({c1, c2})
Symmetry4 == Permutations({c1, c2, c3})

\* Bound of the runs about the start of threads: nobody waits.
NoWaits == \A c \in Coros : wait[c] = "none"
=============================================================================
