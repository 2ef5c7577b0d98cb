-------------------------- MODULE MCTunnelRuntime --------------------------
(* Window 3 numbers the packets unambiguously: at most MaxQueue = 1 waits  *)
(* in the channel and one is in the TX worker's hand.                      *)
EXTENDS TunnelRuntime
=============================================================================
