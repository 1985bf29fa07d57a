CONSTANTS
    m1 = m1
    w1 = w1
    s1 = s1
    s2 = s2
    NoSid = NoSid
    Absent = Absent
    Machines <- MC_Machines
    Master = m1
    SysIds <- MC_SysIds
    MaxOps = 2
    MaxCrashes = 1
    MaxClusterChanges = 2

SPECIFICATION FairSpec
CHECK_DEADLOCK FALSE

PROPERTY ClusterLossSurfaces
