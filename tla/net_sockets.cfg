SPECIFICATION Spec
CONSTANTS
    None = None
    p1 = p1
    p2 = p2
    Peer = {p1, p2}
    h1 = h1
    h2 = h2
    Host = {h1, h2}
    c1 = c1
    Caller = {c1}
    Fd = {3, 4}
    BroadcastKinds = {"block"}
    RequestKinds = {"getblocks"}
    MaxCalls = 1
    MaxVersions = 1
INVARIANTS
    WorkersOwnTheirSocket
    StartedPeersAccountedFor
VIEW AllButOut
SYMMETRY Interchangeable
CHECK_DEADLOCK FALSE
