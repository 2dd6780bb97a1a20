---------------------------- MODULE MCPeerNetwork ----------------------------
(* PeerNetwork with two nodes, one of which also calls us. *)
EXTENDS PeerNetwork, TLC

CONSTANTS peer_a, peer_b, caller

MCListening == {peer_a, peer_b}
MCCalling == {caller}
MCNode(nk) == IF nk = peer_b THEN "B" ELSE "A"
MCKnown == {peer_b}
MCAllowed == {}
=============================================================================
