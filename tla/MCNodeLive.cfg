SPECIFICATION LiveSpec
CONSTANTS
 Tickets = {t1, t2, t3, t4}
 NoTicket = NoTicket
 Member = {1,2}
 EventBuffer = 1
 NoReading = NoReading
 MaxChanges = 3
 Models = {m1}
 MaxVersion = 1
 MaxEdits = 2
 MaxParks = 2
 MaxRequests = 1
 Nothing = Nothing
 Hosts = {1,2,3}
 Fleets <- MCFleets
 MaxPolls = 2
 MaxTroubles = 2
 Senders = {1,2}
 Absent = Absent
 MaxFiles = 3
 MaxChunks = 2
 MaxTurns <- MCTurns
 MaxShareFaults = 1
CHECK_DEADLOCK FALSE
INVARIANTS OneLoadAtATime NeverStuck FirstComeFirstServed NodeSafe ShareSafe
PROPERTIES MembersTracked RolloutOrderly PartsSettle
