SPECIFICATION Spec
CONSTANTS
    None = None
    p1 = p1
    Peer = {p1}
    h1 = h1
    Host = {h1}
    c1 = c1
    Caller = {c1}
    Fd = {3}
    BroadcastKinds = {"block"}
    RequestKinds = {}
    MaxCalls = 1
    MaxVersions = 1
INVARIANTS
    StreamsAreFramed
SYMMETRY Interchangeable
CHECK_DEADLOCK FALSE
