SPECIFICATION FairSpec
CONSTANTS
    MaxFailures = 2
    RespawnGrace = 2
    MaxRespawns = 2
    StartupTimeout = 2
    RespawnRefill = 3
    QuickExitWindow = 1
    WarmUp = 1
    MaxInFlight = 1
    m = m
    gpu = gpu
    none = none
INVARIANTS BudgetsKept AdmittedIsWatched
PROPERTIES GraceKept SupervisorRefined NeverLimbo
