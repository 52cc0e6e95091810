------------------------------ MODULE MCPublication ------------------------------
EXTENDS Publication, TLC

CallerSymmetry == Permutations(Callers)
=============================================================================
