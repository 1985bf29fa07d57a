---------------------------- MODULE MachineRecords ----------------------------
(***************************************************************************)
(* What the machine controller promises about machine records and the MAAS *)
(* nodes they name, with no cache, no phases and no goroutines (spec 3 and *)
(* 4.6).  A node is allocated for one machine; a record names at most one  *)
(* node, one allocated for it; a node is released only once its machine   *)
(* is marked for deletion; a record goes away only once it is marked and   *)
(* the node it names is no longer allocated.                               *)
(***************************************************************************)
CONSTANTS Machines, SysIds, NoSid, Absent

VARIABLES
    records,  \* each machine's record: Absent or [marked, node]
    nodes,    \* each system id: "new", "allocated" or "released"
    owner     \* the machine a system id was allocated for

vars == <<records, nodes, owner>>

Live(m) == records[m] # Absent

Init ==
    /\ records = [m \in Machines |-> [marked |-> FALSE, node |-> NoSid]]
    /\ nodes = [s \in SysIds |-> "new"]
    /\ owner = [s \in SysIds |-> Absent]

\* The provisioner hands a new node out for machine m.  Nothing promises m
\* still has a record: handleCreate may act on a cached copy of a record
\* already gone.
Allocate(s, m) ==
    /\ nodes[s] = "new"
    /\ nodes' = [nodes EXCEPT ![s] = "allocated"]
    /\ owner' = [owner EXCEPT ![s] = m]
    /\ UNCHANGED records

\* The record of m comes to name node s, allocated for m, or none.
Name(m, s) ==
    /\ Live(m)
    /\ s = NoSid \/ (nodes[s] = "allocated" /\ owner[s] = m)
    /\ records' = [records EXCEPT ![m].node = s]
    /\ UNCHANGED <<nodes, owner>>

NodeFree(m) == records[m].node = NoSid \/ nodes[records[m].node] # "allocated"

\* A user or the cluster's deletion marks the record of m; a record that
\* holds nothing back (no finalizer) may go at once if its node is free.
Delete(m) ==
    /\ Live(m)
    /\ \/ records' = [records EXCEPT ![m].marked = TRUE]
       \/ NodeFree(m) /\ records' = [records EXCEPT ![m] = Absent]
    /\ UNCHANGED <<nodes, owner>>

\* The node s goes back to the provisioner once its machine is marked or gone.
Release(s) ==
    /\ nodes[s] = "allocated"
    /\ ~Live(owner[s]) \/ records[owner[s]].marked
    /\ nodes' = [nodes EXCEPT ![s] = "released"]
    /\ UNCHANGED <<records, owner>>

\* A marked record whose node is not allocated is removed.
Remove(m) ==
    /\ Live(m) /\ records[m].marked /\ NodeFree(m)
    /\ records' = [records EXCEPT ![m] = Absent]
    /\ UNCHANGED <<nodes, owner>>

Next ==
    \/ \E s \in SysIds, m \in Machines : Allocate(s, m)
    \/ \E m \in Machines : \E s \in SysIds \cup {NoSid} : Name(m, s)
    \/ \E m \in Machines : Delete(m) \/ Remove(m)
    \/ \E s \in SysIds : Release(s)

Spec == Init /\ [][Next]_vars

=============================================================================
