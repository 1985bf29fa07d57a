CONSTANTS
    m1 = m1
    w1 = w1
    Machines <- MC_Machines
    Master = m1
    Versions <- MC_Versions
    MaxPolls = 2
    MaxOps = 3
    MaxUpgrades = 2
    MaxCrashes = 1

SPECIFICATION Spec
CHECK_DEADLOCK FALSE

INVARIANT TypeOK
PROPERTY WorkerUpgradeFollowsMaster
