\* Honest remotes; the incoming connection receives one notification, which
\* the orchestrator may fan out as a broadcast to the other peer.
CONSTANTS
    p1 = p1
    p2 = p2
    Peers <- MCPeers
    Outgoing <- MCOutgoing
    Loopbacks = {}
    Heights = {1}
    ChanCap = 1
    MaxHellos = 1
    MaxNotifies <- MCOneNotify
    MaxRequests = 2
    MaxItems = 1
    NoState = NoState
    NoPeer = NoPeer

SPECIFICATION Spec

INVARIANT BroadcastRetainsNoRequest

CHECK_DEADLOCK FALSE
