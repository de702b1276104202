------------------------------ MODULE MCPeers ------------------------------
(* Values for TLC: the peer objects are interchangeable.                   *)
EXTENDS PeersInv, TLC

Symmetry == Permutations(Peer)
=============================================================================
