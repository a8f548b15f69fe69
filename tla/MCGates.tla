------------------------------- MODULE MCGates ------------------------------
(* One client at 20 requests a minute, the clock in seconds.               *)
EXTENDS Gates

MCTwentyAMinute == {[auth |-> "none", global |-> 0, rpm |-> 20]}
=============================================================================
