---------------------------- MODULE MCWebServer ----------------------------
EXTENDS WebServer, TLC

CONSTANTS h1, h2, s1, s2, t1, t2

Symmetry ==
    Permutations(Handlers) \cup Permutations(Socks) \cup Permutations(Threads)
=============================================================================
