SPECIFICATION FairSpec
CONSTANTS
    Versions = {2, 3, 4}
    Floor = 1
    Upgrades = {3}
    Follows = {TRUE, FALSE}
    MaxFaults = 1
INVARIANT WaysBackSafe
PROPERTIES RejectedStaysOut PendingDecided
CONSTRAINT OneMishap
