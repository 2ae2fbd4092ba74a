------------------------------- MODULE MCHeap -------------------------------
EXTENDS Heap

MCKeys == 1 .. 3
=============================================================================
