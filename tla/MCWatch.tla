------------------------------- MODULE MCWatch -------------------------------
(* Instances of Watch for TLC.                                               *)
EXTENDS Watch

CONSTANTS config, block, right, wrong
=============================================================================
