\* Honest remotes: each sends at most one hello request.
CONSTANTS
    p1 = p1
    p2 = p2
    Peers <- MCPeers
    Outgoing <- MCOutgoing
    Loopbacks = {}
    Heights = {1}
    ChanCap = 1
    MaxHellos = 1
    MaxNotifies <- MCOneNotify
    MaxRequests = 2
    MaxItems = 1
    NoState = NoState
    NoPeer = NoPeer

SPECIFICATION Spec

INVARIANT TypeOK
INVARIANT BlocksBeforeDone

PROPERTY CorrelatedRPCImplemented
PROPERTY NoGoroutineBlockedForever
PROPERTY DownloadEventuallyEnds
PROPERTY ClosedPeerRemoved

\* Once the remotes have nothing more to send every goroutine waits on the
\* network, as the node does; blocked goroutines are caught by
\* NoGoroutineBlockedForever.
CHECK_DEADLOCK FALSE
