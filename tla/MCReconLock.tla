---------------------------- MODULE MCReconLock ----------------------------
(* Small instances of ReconLock for TLC.                                   *)
EXTENDS ReconLock

CONSTANTS r1, r2
===========================================================================
