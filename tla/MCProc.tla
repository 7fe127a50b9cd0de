------------------------------- MODULE MCProc -------------------------------
EXTENDS Proc, TLC
CpuSymmetry == Permutations(Cpu)
=============================================================================
