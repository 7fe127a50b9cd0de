---------------------------- MODULE MCVirtioDisk ----------------------------
EXTENDS VirtioDisk, TLC
VirtioSymmetry == Permutations(Thread) \cup Permutations(Block) \cup Permutations(Val)
=============================================================================
