\* A remote that sends hello twice on a connection (nothing in the code
\* stops it: the hello handler stays registered after the handshake).
CONSTANTS
    p1 = p1
    p2 = p2
    Peers <- MCPeers
    Outgoing <- MCOutgoing
    Loopbacks = {}
    Heights = {1}
    ChanCap = 1
    MaxHellos = 2
    MaxNotifies <- MCNoNotify
    MaxRequests = 2
    MaxItems = 1
    NoState = NoState
    NoPeer = NoPeer

SPECIFICATION Spec

PROPERTY NoGoroutineBlockedForever

\* The node may go quiet waiting on the network; the goroutines that stay
\* blocked are what the property is about.
CHECK_DEADLOCK FALSE
