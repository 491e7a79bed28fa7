---------------------------- MODULE MCQueuedLock ----------------------------
EXTENDS QueuedLock, TLC

Symmetry == Permutations(Threads)
=============================================================================
