--------------------------- MODULE MCReleaseQueue ---------------------------
EXTENDS ReleaseQueue, TLC

Symmetry == Permutations(Runs)
=============================================================================
