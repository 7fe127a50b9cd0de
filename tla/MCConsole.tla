----------------------------- MODULE MCConsole -----------------------------
EXTENDS Console, TLC
ConsoleSymmetry == Permutations(Reader)
=============================================================================
