CONSTANTS
    c1 = c1
    c2 = c2
    m1 = m1
    w1 = w1
    m2 = m2
    None = None
    Clusters <- MC_Clusters
    Machines <- MC_Machines
    ClusterOf <- MC_ClusterOf
    Masters <- MC_Masters
    MaxPolls = 2
    MaxOps = 3
    MaxCrashes = 1

SPECIFICATION Spec
CHECK_DEADLOCK FALSE

INVARIANT TypeOK
INVARIANT ReadyMeansBootstrapped
