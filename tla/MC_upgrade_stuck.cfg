CONSTANTS
    m1 = m1
    w1 = w1
    Machines <- MC_Machines
    Master = m1
    Versions <- MC_Versions
    MaxPolls = 2
    MaxOps = 2
    MaxUpgrades = 1
    MaxCrashes = 0

SPECIFICATION FairSpec
CHECK_DEADLOCK FALSE

PROPERTY UpgradeSettles
