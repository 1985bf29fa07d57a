CONSTANTS
    c1 = c1
    c2 = c2
    m1 = m1
    w1 = w1
    m2 = m2
    None = None
    Clusters <- MC_Clusters2
    Machines <- MC_Machines2
    ClusterOf <- MC_ClusterOf2
    Masters <- MC_Masters2
    MaxPolls = 2
    MaxOps = 3
    MaxCrashes = 1

SPECIFICATION Spec
CHECK_DEADLOCK FALSE

INVARIANT WorkerJoinsOwnCluster
