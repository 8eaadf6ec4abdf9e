------------------------------ MODULE MCQcRun -------------------------------
EXTENDS QcRun, TLC

Symmetry == Permutations(Runs) \cup Permutations(Symbols)
=============================================================================
