------------------------------ MODULE MCBcache ------------------------------
EXTENDS Bcache, TLC
BcacheSymmetry == Permutations(Thread) \cup Permutations(Block)
=============================================================================
