------------------------------ MODULE MCExitGuard ------------------------------
EXTENDS ExitGuard, TLC

Symmetry == Permutations(Task)
================================================================================
