SPECIFICATION Spec
CONSTANTS
    a1 = a1
    a2 = a2
    b1 = b1
    c1 = c1
    d1 = d1
    Confs = {a1, a2, b1, c1, d1}
    ModelName <- MCModelName
    Gpus <- MCGpus
    Sourced = {b1}
    Lists <- MCLists
    MaxApplies = 3
    MaxModels = 2
    MaxWidth = 2
    MaxRespawns = 1
    NoConf = NoConf
    NoTicket = NoTicket
INVARIANTS GpuExclusive ProcessesTracked DrainedForGood ShutdownLeavesNothing
CONSTRAINT SwapOrChain
CHECK_DEADLOCK FALSE
