---------------------------- MODULE MCScheduler ----------------------------
\* Instance of Scheduler for TLC: the objects are interchangeable.
EXTENDS Scheduler, TLC

ObjectSymmetry == Permutations(Objects)
=============================================================================
