\* Honest remotes, as in MCPeerConnection.cfg; the engine may time out or
\* cancel the hello request.
CONSTANTS
    p1 = p1
    p2 = p2
    Peers <- MCPeers
    Outgoing <- MCOutgoing
    Loopbacks = {}
    Heights = {1}
    ChanCap = 1
    MaxHellos = 1
    MaxNotifies <- MCNoNotify
    MaxRequests = 2
    MaxItems = 1
    NoState = NoState
    NoPeer = NoPeer

SPECIFICATION Spec

INVARIANT HandshakeStateFromHello

CHECK_DEADLOCK FALSE
