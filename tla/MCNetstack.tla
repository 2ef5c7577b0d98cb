---------------------------- MODULE MCNetstack ----------------------------
(* The clients of each kind run the same code; the two kinds are never     *)
(* exchanged.                                                              *)
EXTENDS Netstack, TLC

Symmetry == Permutations(TcpClients) \cup Permutations(UdpClients)
=============================================================================
