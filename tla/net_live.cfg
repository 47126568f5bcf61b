SPECIFICATION FairSpec
CONSTANTS
    None = None
    p1 = p1
    Peer = {p1}
    h1 = h1
    Host = {h1}
    c1 = c1
    c2 = c2
    Caller = {c1, c2}
    Fd = {3}
    BroadcastKinds = {"block"}
    RequestKinds = {}
    MaxCalls = 2
    MaxVersions = 0
INVARIANTS
    CallersFramesOrdered
PROPERTIES
    ConnectionsGetListed
    ClosedConnectionsReleased
    CallsReturn
CHECK_DEADLOCK FALSE
