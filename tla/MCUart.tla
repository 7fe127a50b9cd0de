------------------------------- MODULE MCUart -------------------------------
(***************************************************************************)
(* The instance of MCUart.cfg.  It has no symmetry set because the run     *)
(* checks liveness too.                                                    *)
(***************************************************************************)
EXTENDS Uart
=============================================================================
