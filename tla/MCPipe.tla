------------------------------- MODULE MCPipe -------------------------------
\* The instance of Pipe for TLC.  Its liveness property rules out symmetry.
EXTENDS Pipe
=============================================================================
