-------------------------- MODULE MCPeerConnection --------------------------
(* Model-checking instance of PeerConnection: two connections, each of     *)
(* either direction and possibly a loopback, channels of capacity one.     *)
EXTENDS PeerConnection

CONSTANTS p1, p2

MCPeers == {p1, p2}
MCOutgoing == {p1}
\* Notifications arrive on the incoming connection p2, at most n of them.
MCNotifies(n) == [c \in MCPeers |-> IF c = p2 THEN n ELSE 0]
MCOneNotify == MCNotifies(1)
MCNoNotify == MCNotifies(0)
=============================================================================
