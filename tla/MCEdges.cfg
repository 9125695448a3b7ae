SPECIFICATION EdgesSpec
CONSTANTS
 MaxStream = 4
 maxThinkBufSize = 2
 MaxLines = 6
 MaxSegments = 3
 MaxEvents = 3
 MaxPiece = 4
 edgeLen = 2
 maxCaptureBytes = 3
 captureTailBytes = 2
 Spellings = {"plain", "escaped", "cased"}
 MaxFields = 3
 MaxNames = 3
 maxPrefer = 2
 Peers = {"p1", "p2"}
 SlotCounts = {0, 2}
 BusyCounts = {1}
 Windows = {1, 2}
 staleAfter = 0
 MaxAge = 1
 Pipe = {"loc"}
 NoPipe = "none"
 Suffix = {"pt-br", "br", "zz"}
 LocaleOf = {"pt-br"}
 LocaleAlias <- MCLocaleAlias
 MaxDepth = 3
 StepSeqs <- MCStepSeqs
 GpuCard = {0}
 RingSize = 3
 StaleIntervals = 1
 PeriodWindow = 3
 MinPeriod = 1
 DefaultPeriod = 2
 Client = {"a", "b"}
 MaxSubscribers = 1
 ChannelSize = 1
 MaxClock = 6
 MaxSamples = 4
 Proc = {1, 2, 3}
 NameOf <- MCNameOf
 Roll <- MCRoll
 OutOfRange = {3}
 MaxProcess = 2
 MaxRequest = 1
 MaxUptime = 1
 ViewerBuffer = 1
 Gpu = {0, 1}
 GpuWatts = {1, 5}
 NodeWatts = {0, 4, 9}
 Window = 2
 Kind = {"llamacpp", "vllm", "freetoken", "strata"}
 SlotsAsked = 2
 ConfiguredCtx = 2
 Build <- MCBuild
 Work = {1, 2}
 StaleTicks = 1
 OtherViews <- MCOtherViews
 Expect = {"m", "n"}
 WaitTimeout = 3
 PollEvery = 2
 RequestLimit = 1
 EntryHost = "a"
 PeerHosts = {"b", "c"}
 Session = {1, 2, 3}
 RankOf <- MCRankOf
 GroupsOf <- MCGroupsOf
 SessionMemory = 2
 AwaitStall = 2
 AwaitPoll = 1
 AwaitMax = 4
 AskLimit = 1
 FetchPoll = 1
 FetchRetryMax = 3
 Waiters = {1, 2}
 Percents = {0, 1, 2}
 MaxTicks = 8
 AliasMember = {1, 2, 3}
 EntryMember = 1
 MaxWrites = 3
 MaxRounds = 2
 Exported <- MCExported
CHECK_DEADLOCK FALSE
INVARIANTS ProxySafe EnginesTrue FleetTrue
