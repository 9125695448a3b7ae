CONSTANTS
    r1 = r1
    r2 = r2
    r3 = r3
    b1 = b1
    p1 = p1
    self = self
    Requests = {r1, r2}
    Backends = {b1}
    Peers = {p1}
    Self = self
    Slots <- OneSlot
    Host <- AnyHost
    Prefer <- NoPreference
    Images <- ImageOnly
    Sessions = {}
    Forwarded = {}
    LocalImages = "no"
    Performance = FALSE
    QueueMax = 2
    ForwardRetry = 1
    MaxChanges = 2
    PeerImages = {"no"}
SPECIFICATION Spec
INVARIANT ImageWaiterAnswered
CHECK_DEADLOCK FALSE
