SPECIFICATION UpkeepSpec
CONSTANTS
 Original = 1
 Newest = 3
 MaxActs = 3
 MaxFaults = 1
 MaxCrashes = 1
 HistoryMax = 2
 MaxAttempts = 3
 Rounds = 2
 Idle = Idle
 Faulty = {1}
 MaxPurges = 1
 Node = {1, 2}
 Name = {"a"}
 Real = {}
 Refs <- MCRefs
 Skew <- MCSkew
 MaxAliases = 1
 MaxAliasHistory = 2
 MaxAliasVer = 2
 TombstoneTTL = 0
 MaxWrites = 3
 MaxClock = 1
 MaxAliasCrashes = 1
 MaxFailures = 1
CHECK_DEADLOCK FALSE
CONSTRAINT ActsOrTrouble
INVARIANTS ImagesKept
PROPERTIES HelperFollows AliasesAgree
