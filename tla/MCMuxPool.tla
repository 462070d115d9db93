----------------------------- MODULE MCMuxPool -----------------------------
EXTENDS MuxPool, TLC

Symmetry == Permutations(Dialers) \cup Permutations(Sessions) \cup Permutations(MuxIDs)
=============================================================================
