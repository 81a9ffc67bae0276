---------------------------- MODULE MCMessageStore ----------------------------
\* An instance of MessageStore for TLC.
EXTENDS MessageStore, TLC

CONSTANTS w1, w2, a, b

MCSymmetry == Permutations(Worker) \cup Permutations(User)
===============================================================================
