SPECIFICATION FairSpec
CONSTANTS
    a1 = a1
    a2 = a2
    b1 = b1
    c1 = c1
    d1 = d1
    Confs = {a1, a2, b1, c1, d1}
    ModelName <- MCModelName
    Gpus <- MCGpus
    Sourced = {b1}
    Lists <- WideLists
    MaxApplies = 1
    MaxModels = 2
    MaxWidth = 2
    MaxRespawns = 0
    NoConf = NoConf
    NoTicket = NoTicket
INVARIANT RoundRobin
PROPERTIES GateRefined EveryBackendSettles ShutdownCompletes
CHECK_DEADLOCK FALSE
