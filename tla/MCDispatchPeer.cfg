CONSTANTS
    r1 = r1
    r2 = r2
    r3 = r3
    b1 = b1
    p1 = p1
    self = self
    Requests = {r1, r2}
    Backends = {b1}
    Peers = {p1}
    Self = self
    Slots <- OneSlot
    Host <- PinSecond
    Prefer <- PreferPeer
    Images = {}
    Sessions <- First
    Forwarded = {}
    LocalImages = "yes"
    Performance = TRUE
    QueueMax = 1
    ForwardRetry = 1
    MaxChanges = 3
    PeerImages = {"yes"}
SPECIFICATION Spec
INVARIANTS SlotsTyped OverbookedOnlyByMissed
PROPERTY NotSentBack
CHECK_DEADLOCK FALSE
