----------------------------- MODULE MC_Bootstrap -----------------------------
EXTENDS Bootstrap, TLC

CONSTANTS c1, c2, m1, w1, m2

\* One cluster: a master and a worker.
MC_Clusters  == {c1}
MC_Machines  == {m1, w1}
MC_ClusterOf == (m1 :> c1) @@ (w1 :> c1)
MC_Masters   == {m1}

\* Two clusters: the second has only its master.
MC_Clusters2  == {c1, c2}
MC_Machines2  == {m1, w1, m2}
MC_ClusterOf2 == (m1 :> c1) @@ (w1 :> c1) @@ (m2 :> c2)
MC_Masters2   == {m1, m2}

=============================================================================
