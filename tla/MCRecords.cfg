SPECIFICATION RecordsSpec
CONSTANTS
 Labels = {a}
 Other = o
 Nobody = n
 SamplesPerMinute = 2
 MinutesPerHour = 2
 HoursPerDay = 2
 MaxCovered = 5
 MinuteSlots = 2
 HourSlots = 2
 DaySlots = 1
 MaxClock = 14
 MaxUses = 1
 MaxEnergyFaults = 1
 PerfModels = {"m"}
 PerfKeys = {"k1","k2"}
 Rates = {1,2}
 Buckets = 2
 K = 2
 maxPerBucket = 1
 saveAge = 1
 MaxMinute = 2
 MaxSetKeys = 1
 MaxPerfFaults = 1
 Cards = {c1}
 Setups <- MCSetups
 DayLength = 3
 PriceLength = 3
 minRefetchInterval = 2
 MaxTime = 5
 MaxFlips = 1
 Viewers = {v1}
 Requests = {1}
 MaxStarts = 1
 maxEvents = 2
 subBuffer = 1
 viewerBuffer = 2
 mirrorCap = 2
 MaxFollowers = 2
 MaxBreaks = 1
 MaxAges = 1
 MaxSnapshots = 2
 Machines = {"a", "b"}
 MaxPowerRequests = 2
 Weight = {"m", "o"}
 Card = {0, 1}
 OperatorPath = {"binary", "engDir"}
 MaxStuck = 1
 Mib = 4
 ContextSteps <- MCPlanSteps
 OverheadMB = 1
 Parallel = 2
 MinHeadroom = 4
 Vram = {2, 3, 5}
 MaxCards = 3
 MaxModels = 2
 Chosen <- MCChosen
 LlRelease = {0, 1, 2, 3}
 PinOf <- MCPinOf
 NoPin = "none"
 Configured = "b1"
 Attempts = 3
CHECK_DEADLOCK FALSE
INVARIANTS StreamSafe HostSafe
PROPERTIES RecordsTrue OutageNotBilled
