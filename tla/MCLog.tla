------------------------------- MODULE MCLog --------------------------------
\* The instance of Log for TLC.  Its liveness property rules out symmetry.  The
\* log on disk is a block short of LOGSIZE, so that two blocks fill it and
\* log_write() panics.
EXTENDS Log
=============================================================================
