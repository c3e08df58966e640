------------------------------ MODULE MCControl ------------------------------
EXTENDS MachineControl, TLC
SessionSymmetry == Permutations(Sessions)
=============================================================================
