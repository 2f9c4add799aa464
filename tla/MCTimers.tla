------------------------------ MODULE MCTimers ------------------------------
(* The instance of Timers for TLC: its values are in timers.cfg.             *)
EXTENDS Timers
=============================================================================
