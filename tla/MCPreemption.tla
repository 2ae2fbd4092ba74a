---------------------------- MODULE MCPreemption ----------------------------
EXTENDS Preemption
CONSTANT c1
=============================================================================
