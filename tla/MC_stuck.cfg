CONSTANTS
    m1 = m1
    w1 = w1
    s1 = s1
    s2 = s2
    NoSid = NoSid
    Absent = Absent
    Machines <- MC_Machines
    Master = m1
    SysIds <- MC_SysIds
    MaxOps = 2
    MaxCrashes = 0
    MaxClusterChanges = 0

SPECIFICATION FairSpec
CHECK_DEADLOCK FALSE

PROPERTY DeletionCompletes
