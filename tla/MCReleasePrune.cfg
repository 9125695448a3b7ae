SPECIFICATION Spec
CONSTANTS
    Versions = {2, 3, 4}
    Floor = 1
    Upgrades = {}
    Follows = {FALSE}
    MaxFaults = 0
PROPERTIES PruneKeepsCurrent
