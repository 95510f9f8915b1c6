----------------------------- MODULE MCHeartbeat -----------------------------
(***************************************************************************)
(* Heartbeat for TLC: the constants are scaled down in the configuration,  *)
(* the window is 2% of the period and as long as the longest tick.         *)
(***************************************************************************)
EXTENDS Heartbeat

=============================================================================
