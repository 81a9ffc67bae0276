---------------------------- MODULE MCGroupStore ----------------------------
\* An instance of GroupStore for TLC.
EXTENDS GroupStore, TLC

CONSTANTS w1, w2, a, b, c

MCSymmetry == Permutations(Worker) \cup Permutations(Founder)
=============================================================================
