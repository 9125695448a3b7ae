CONSTANTS
    r1 = r1
    r2 = r2
    r3 = r3
    b1 = b1
    p1 = p1
    self = self
    Requests = {r1, r2, r3}
    Backends = {b1}
    Peers = {}
    Self = self
    Slots <- OneSlot
    Host <- AnyHost
    Prefer <- NoPreference
    Images <- ImageOnly
    Sessions = {}
    Forwarded <- Third
    LocalImages = "yes"
    Performance = FALSE
    QueueMax = 2
    ForwardRetry = 1
    MaxChanges = 1
    PeerImages = {"yes"}
SPECIFICATION FairSpec
INVARIANT NoLostWakeup
PROPERTIES DispatchFifo EveryoneAnswered
CHECK_DEADLOCK FALSE
