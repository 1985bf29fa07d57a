------------------------- MODULE MC_MachineRecords -------------------------
(* The refinement mapping from MachineController to MachineRecords: a     *)
(* record is the stored CnctMachine's DeletionTimestamp and its            *)
(* maas-system-id annotation; the nodes are the MAAS pool.                 *)
EXTENDS MC_MachineController

AbsRecords ==
    [m \in Machines |-> IF store[m] = Absent THEN Absent
                        ELSE [marked |-> store[m].del, node |-> store[m].sid]]

Abs == INSTANCE MachineRecords WITH records <- AbsRecords, nodes <- maas, owner <- owner

\* The controller, with its cache, goroutines, restarts and cluster changes,
\* implements the abstract record and node lifecycle.
RecordsRefinement == Abs!Spec

=============================================================================
