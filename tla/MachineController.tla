-------------------------- MODULE MachineController --------------------------
(***************************************************************************)
(* The machine reconciler of pkg/controller/machine/machine_controller.go. *)
(*                                                                         *)
(* One reconcile worker (controller-runtime's default of one concurrent    *)
(* Reconcile) runs Reconcile for the machines of one cluster.  It reads    *)
(* records through the manager's cached client, so every Get and List sees *)
(* the informer cache, which may lag the API server.  Writes go through    *)
(* updateStatus: re-read the cached copy, copy annotations, finalizers and *)
(* phase onto it, Update; the API server refuses an Update whose copy is   *)
(* not the stored version.  handleDelete starts doDelete in the background *)
(* runner, whose watcher goroutine races the operation against a timer.    *)
(* The MAAS provisioner is a pool of system ids.  Users, the API server    *)
(* handlers and process restarts are the environment.                      *)
(***************************************************************************)
EXTENDS Naturals, Sequences, FiniteSets

CONSTANTS
    Machines,          \* names of the CnctMachine records of the cluster
    Master,            \* the machine whose Spec.Roles contains "master"
    SysIds,            \* system ids the MAAS provisioner can hand out
    NoSid,             \* empty maas-system-id / maas-ip annotations
    Absent,            \* no record under a name: Get returns NotFound
    MaxOps,            \* bound on background operations started
    MaxCrashes,        \* bound on controller process restarts
    MaxClusterChanges  \* bound on deletions and re-creations of the cluster

ASSUME /\ Master \in Machines
       /\ NoSid \notin SysIds
       /\ Absent \notin Machines \cup SysIds
       /\ MaxOps \in Nat /\ MaxCrashes \in Nat /\ MaxClusterChanges \in Nat

\* common.*MachinePhase values this code writes; "" is the phase of a new record
UnsetMachinePhase        == ""
ProvisioningMachinePhase == "Provisioning"
DeletingMachinePhase     == "Deleting"
ErrorMachinePhase        == "Error"
Phases == {UnsetMachinePhase, ProvisioningMachinePhase,
           DeletingMachinePhase, ErrorMachinePhase}

\* The fields of a CnctMachine the controller reads or writes: Status.Phase,
\* the MachineFinalizer, DeletionTimestamp, and the maas-system-id / maas-ip
\* annotations (always written together, so one field stands for both).
Record == [phase : Phases, fin : BOOLEAN, del : BOOLEAN, sid : SysIds \cup {NoSid}]

VARIABLES
    store,           \* the API server's record of each machine, or Absent
    cache,           \* the informer cache's copy of each machine, or Absent
    clusterExists,   \* the CnctCluster record exists
    clusterStopping, \* the cluster's Status.Phase is StoppingClusterPhase
    kubeconfig,      \* the "cluster-private-key" kubeconfig secret exists
    maas,            \* state of each MAAS system id: "new", "allocated", "released"
    owner,           \* the machine name a system id was created for
    rec,             \* the reconcile worker: where it is inside a handler
    ops,             \* background operations started by backgroundRunner
    crashes,         \* restarts so far
    clusterChanges   \* cluster deletions and re-creations so far

vars == <<store, cache, clusterExists, clusterStopping, kubeconfig, maas, owner,
          rec, ops, crashes, clusterChanges>>

Idle == [pc |-> "idle", m |-> Absent, mi |-> Absent]

\* A background operation: the machine it runs for, the in-memory machine
\* copy it shares with its watcher, whether op has returned and with an
\* error, and where the watcher goroutine is.
OpRec == [m : Machines, snap : Record, st : {"run", "done"}, err : BOOLEAN,
          w : {"wait", "timedout", "exit"}]

TypeOK ==
    /\ store \in [Machines -> Record \cup {Absent}]
    /\ cache \in [Machines -> Record \cup {Absent}]
    /\ clusterExists \in BOOLEAN /\ clusterStopping \in BOOLEAN
    /\ kubeconfig \in BOOLEAN
    /\ maas \in [SysIds -> {"new", "allocated", "released"}]
    /\ owner \in [SysIds -> Machines \cup {Absent}]
    /\ rec \in {Idle} \cup [pc : {"persist", "maas", "unfin", "runner"},
                            m : Machines, mi : Record]
    /\ ops \in Seq(OpRec) /\ Len(ops) <= MaxOps
    /\ crashes \in 0..MaxCrashes /\ clusterChanges \in 0..MaxClusterChanges

-----------------------------------------------------------------------------
(* Helpers *)

\* The API server removes a record once it is marked for deletion and its
\* last finalizer is gone.
Stored(r) == IF r.del /\ ~r.fin THEN Absent ELSE r

\* updateStatus: the Get of the fresh instance reads the cache; the Update
\* succeeds only if that copy is the stored version.
UpdateOk(m) == cache[m] # Absent /\ cache[m] = store[m]

\* The fresh instance with the in-memory copy's annotations, finalizers and
\* phase; DeletionTimestamp stays the fresh instance's.
Patched(m, mi) == [cache[m] EXCEPT !.phase = mi.phase, !.fin = mi.fin, !.sid = mi.sid]

\* Variant: Update without the resourceVersion check (a forced write).
UpdateStatusNoConflictCheck(m, mi) ==
    store' = [store EXCEPT ![m] = IF cache[m] # Absent THEN Stored(Patched(m, mi)) ELSE @]

UpdateStatus(m, mi) ==
    store' = [store EXCEPT ![m] = IF UpdateOk(m) THEN Stored(Patched(m, mi)) ELSE @]

\* util.GetClusterMachineList, read from the cache
MachineList == {cache[x] : x \in {y \in Machines : cache[y] # Absent}}

\* util.IsReadyForDeletion: no machine of the cluster is still being created
IsReadyForDeletion(list) == \A r \in list : r.phase # ProvisioningMachinePhase

\* util.GetMaster on the cached list, then its maas-ip annotation
MasterIP == IF cache[Master] = Absent THEN NoSid ELSE cache[Master].sid

\* A process restart: goroutines die, the worker forgets what it was doing,
\* the new informer lists every record afresh.
Restart ==
    /\ rec' = Idle
    /\ ops' = [i \in 1..Len(ops) |->
                 IF ops[i].w = "exit" THEN ops[i]
                 ELSE [ops[i] EXCEPT !.st = "done", !.w = "exit"]]
    /\ cache' = store

-----------------------------------------------------------------------------
(* Reconcile(request) *)

\* Variant: updateStatus without setting the phase first.
ReconcileClusterNotFoundNoPhase(m) ==
    /\ rec = Idle /\ cache[m] # Absent /\ ~clusterExists
    /\ UpdateStatus(m, cache[m])
    /\ UNCHANGED <<cache, clusterExists, clusterStopping, kubeconfig, maas,
                   owner, rec, ops, crashes, clusterChanges>>

\* The machine exists but its cluster does not: set ErrorMachinePhase.
ReconcileClusterNotFound(m) ==
    /\ rec = Idle /\ cache[m] # Absent /\ ~clusterExists
    /\ UpdateStatus(m, [cache[m] EXCEPT !.phase = ErrorMachinePhase])
    /\ UNCHANGED <<cache, clusterExists, clusterStopping, kubeconfig, maas,
                   owner, rec, ops, crashes, clusterChanges>>

\* handleDelete, reached on a DeletionTimestamp or in DeletingMachinePhase:
\* unless some machine is Provisioning (requeue) or the finalizer is gone
\* (return), write DeletingMachinePhase and go on to deleteMachine.
HandleDelete(m) ==
    LET mi == cache[m]
        mi2 == [mi EXCEPT !.phase = DeletingMachinePhase]
    IN /\ rec = Idle /\ mi # Absent /\ clusterExists
       /\ mi.del \/ mi.phase = DeletingMachinePhase
       /\ IsReadyForDeletion(MachineList)
       /\ mi.fin
       /\ UpdateOk(m)
       /\ Len(ops) < MaxOps
       /\ UpdateStatus(m, mi2)
       /\ rec' = [pc |-> "maas", m |-> m, mi |-> mi2]
       /\ UNCHANGED <<cache, clusterExists, clusterStopping, kubeconfig, maas,
                      owner, ops, crashes, clusterChanges>>

\* handleCreate up to MAAS Create: add the finalizer in memory; a worker
\* needs the master's maas-ip (else requeue); MAAS hands out a machine.  A
\* reply without an IP address returns "no ip" and keeps the machine.
HandleCreate(m) ==
    LET mi == cache[m] IN
    /\ rec = Idle /\ mi # Absent /\ clusterExists
    /\ ~mi.del /\ mi.phase = UnsetMachinePhase
    /\ m # Master => MasterIP # NoSid
    /\ \E s \in SysIds :
         /\ maas[s] = "new"
         /\ maas' = [maas EXCEPT ![s] = "allocated"]
         /\ owner' = [owner EXCEPT ![s] = m]
         /\ \/ rec' = [pc |-> "persist", m |-> m,
                       mi |-> [mi EXCEPT !.phase = ProvisioningMachinePhase,
                                         !.fin = TRUE, !.sid = s]]
            \/ rec' = rec
    /\ UNCHANGED <<store, cache, clusterExists, clusterStopping, kubeconfig,
                   ops, crashes, clusterChanges>>

\* handleCreate after MAAS Create: updateStatus with ProvisioningMachinePhase,
\* the finalizer and the annotations; for the master, create the kubeconfig
\* secret, which may fail with nothing retrying it.
HandleCreatePersist ==
    LET m == rec.m IN
    /\ rec.pc = "persist"
    /\ rec' = Idle
    /\ UpdateStatus(m, rec.mi)
    /\ kubeconfig' \in IF UpdateOk(m) /\ m = Master THEN {kubeconfig, TRUE} ELSE {kubeconfig}
    /\ UNCHANGED <<cache, clusterExists, clusterStopping, maas, owner, ops,
                   crashes, clusterChanges>>

\* deleteMachine: MAAS Delete unless maas-system-id is empty; its error
\* ends the dispatch with a requeue.
DeleteMachineRelease ==
    LET s == rec.mi.sid IN
    /\ rec.pc = "maas"
    /\ \/ /\ s = NoSid
          /\ rec' = [rec EXCEPT !.pc = "unfin"]
          /\ UNCHANGED maas
       \/ /\ s # NoSid
          /\ rec' = [rec EXCEPT !.pc = "unfin"]
          /\ maas' = [maas EXCEPT ![s] = "released"]
       \/ /\ s # NoSid
          /\ rec' = Idle
          /\ UNCHANGED maas
    /\ UNCHANGED <<store, cache, clusterExists, clusterStopping, kubeconfig,
                   owner, ops, crashes, clusterChanges>>

\* deleteMachine: drop the finalizer in memory and updateStatus; an error of
\* that write is only logged and handleDelete goes on.
DeleteMachineRemoveFinalizer ==
    LET mi2 == [rec.mi EXCEPT !.fin = FALSE] IN
    /\ rec.pc = "unfin"
    /\ UpdateStatus(rec.m, mi2)
    /\ rec' = [rec EXCEPT !.pc = "runner", !.mi = mi2]
    /\ UNCHANGED <<cache, clusterExists, clusterStopping, kubeconfig, maas,
                   owner, ops, crashes, clusterChanges>>

\* Variant: the operation re-reads the machine instead of taking the
\* in-memory copy, and gets nothing once the record is gone.
BackgroundRunnerStartRefetch ==
    /\ rec.pc = "runner"
    /\ \/ /\ clusterExists
          /\ ops' = Append(ops, [m |-> rec.m, snap |-> cache[rec.m], st |-> "run",
                                 err |-> FALSE, w |-> "wait"])
          /\ rec' = Idle
          /\ UNCHANGED cache
       \/ /\ clusterExists
          /\ rec' = Idle
          /\ UNCHANGED <<cache, ops>>
       \/ /\ ~clusterExists
          /\ Restart
    /\ UNCHANGED <<store, clusterExists, clusterStopping, kubeconfig, maas,
                   owner, crashes, clusterChanges>>

\* backgroundRunner(doDelete): getCluster, the private-key secret, then the
\* operation and its watcher.  A missing cluster makes the error log call
\* GetName on a nil cluster: the panic restarts the process.
BackgroundRunnerStart ==
    /\ rec.pc = "runner"
    /\ \/ /\ clusterExists
          /\ ops' = Append(ops, [m |-> rec.m, snap |-> rec.mi, st |-> "run",
                                 err |-> FALSE, w |-> "wait"])
          /\ rec' = Idle
          /\ UNCHANGED cache
       \/ /\ clusterExists    \* the private-key secret cannot be read
          /\ rec' = Idle
          /\ UNCHANGED <<cache, ops>>
       \/ /\ ~clusterExists
          /\ Restart
    /\ UNCHANGED <<store, clusterExists, clusterStopping, kubeconfig, maas,
                   owner, crashes, clusterChanges>>

-----------------------------------------------------------------------------
(* The background operation and its watcher goroutine *)

\* doDelete: unless the cluster is stopping, find the master and drain the
\* node; DeleteNode; then updateStatus with the finalizer dropped.  Any
\* failing step returns before the write.
DoDelete(i) ==
    LET op == ops[i] IN
    /\ op.st = "run"
    /\ \/ /\ ops' = [ops EXCEPT ![i].st = "done", ![i].err = TRUE]
          /\ UNCHANGED <<store>>
       \/ /\ clusterExists
          /\ clusterStopping \/ cache[Master] # Absent
          /\ UpdateStatus(op.m, [op.snap EXCEPT !.fin = FALSE])
          /\ ops' = [ops EXCEPT ![i].st = "done"]
    /\ UNCHANGED <<cache, clusterExists, clusterStopping, kubeconfig, maas,
                   owner, rec, crashes, clusterChanges>>

\* The 30 minute timer fires first in the watcher's select.
OpTimeout(i) ==
    /\ ops[i].w = "wait"
    /\ ops' = [ops EXCEPT ![i].w = "timedout"]
    /\ UNCHANGED <<store, cache, clusterExists, clusterStopping, kubeconfig,
                   maas, owner, rec, crashes, clusterChanges>>

\* The watcher receives the result: an error, or any result after a
\* timeout, sets ErrorMachinePhase on the shared copy and updateStatus.
OpResult(i) ==
    LET op == ops[i] IN
    /\ op.st = "done" /\ op.w # "exit"
    /\ ops' = [ops EXCEPT ![i].w = "exit"]
    /\ IF op.w = "timedout" \/ op.err
         THEN UpdateStatus(op.m, [op.snap EXCEPT !.phase = ErrorMachinePhase])
         ELSE UNCHANGED store
    /\ UNCHANGED <<cache, clusterExists, clusterStopping, kubeconfig, maas,
                   owner, rec, crashes, clusterChanges>>

-----------------------------------------------------------------------------
(* The environment *)

\* The informer delivers the latest version of a record.
InformerSync(m) ==
    /\ cache[m] # store[m]
    /\ cache' = [cache EXCEPT ![m] = store[m]]
    /\ UNCHANGED <<store, clusterExists, clusterStopping, kubeconfig, maas,
                   owner, rec, ops, crashes, clusterChanges>>

\* A client deletes the machine (a user, or the namespace deletion that
\* DeleteCluster starts): DeletionTimestamp is set.
DeleteMachineRecord(m) ==
    /\ store[m] # Absent /\ ~store[m].del
    /\ store' = [store EXCEPT ![m] = Stored([@ EXCEPT !.del = TRUE])]
    /\ UNCHANGED <<cache, clusterExists, clusterStopping, kubeconfig, maas,
                   owner, rec, ops, crashes, clusterChanges>>

\* DeleteCluster removes the CnctCluster record.
DeleteCluster ==
    /\ clusterExists /\ clusterChanges < MaxClusterChanges
    /\ clusterExists' = FALSE
    /\ clusterChanges' = clusterChanges + 1
    /\ UNCHANGED <<store, cache, clusterStopping, kubeconfig, maas, owner, rec,
                   ops, crashes>>

\* A client creates the CnctCluster record again, as CreateCluster does.
CreateCluster ==
    /\ ~clusterExists /\ clusterChanges < MaxClusterChanges
    /\ clusterExists' = TRUE /\ clusterStopping' = FALSE
    /\ clusterChanges' = clusterChanges + 1
    /\ UNCHANGED <<store, cache, kubeconfig, maas, owner, rec, ops, crashes>>

\* The cluster controller marks the cluster as stopping.
ClusterStopping ==
    /\ clusterExists /\ ~clusterStopping
    /\ clusterStopping' = TRUE
    /\ UNCHANGED <<store, cache, clusterExists, kubeconfig, maas, owner, rec,
                   ops, crashes, clusterChanges>>

\* The controller process is restarted.
ControllerRestart ==
    /\ crashes < MaxCrashes
    /\ crashes' = crashes + 1
    /\ Restart
    /\ UNCHANGED <<store, clusterExists, clusterStopping, kubeconfig, maas,
                   owner, clusterChanges>>

-----------------------------------------------------------------------------

Init ==
    /\ store = [m \in Machines |-> [phase |-> UnsetMachinePhase, fin |-> FALSE,
                                    del |-> FALSE, sid |-> NoSid]]
    /\ cache = store
    /\ clusterExists = TRUE /\ clusterStopping = FALSE
    /\ kubeconfig = FALSE
    /\ maas = [s \in SysIds |-> "new"]
    /\ owner = [s \in SysIds |-> Absent]
    /\ rec = Idle
    /\ ops = <<>>
    /\ crashes = 0 /\ clusterChanges = 0

\* Reconcile dispatches on the cached record: NotFound returns, a missing
\* cluster sets Error, a DeletionTimestamp or Deleting goes to handleDelete,
\* "" to handleCreate; Provisioning (handleWaitingForReady) and Error return.
Reconcile(m) ==
    \/ ReconcileClusterNotFound(m)
    \/ HandleDelete(m)
    \/ HandleCreate(m)

Controller ==
    \/ \E m \in Machines : Reconcile(m)
    \/ HandleCreatePersist
    \/ DeleteMachineRelease
    \/ DeleteMachineRemoveFinalizer
    \/ BackgroundRunnerStart
    \/ \E i \in 1..Len(ops) : DoDelete(i) \/ OpTimeout(i) \/ OpResult(i)

Environment ==
    \/ \E m \in Machines : InformerSync(m) \/ DeleteMachineRecord(m)
    \/ DeleteCluster \/ CreateCluster \/ ClusterStopping
    \/ ControllerRestart

Next == Controller \/ Environment

\* Watch events, requeues and the informer's resync keep calling Reconcile;
\* the informer keeps delivering; goroutines keep running.
Fairness ==
    /\ \A m \in Machines : WF_vars(Reconcile(m)) /\ WF_vars(InformerSync(m))
    /\ WF_vars(HandleCreatePersist) /\ WF_vars(DeleteMachineRelease)
    /\ WF_vars(DeleteMachineRemoveFinalizer) /\ WF_vars(BackgroundRunnerStart)
    /\ \A i \in 1..MaxOps : WF_vars(i <= Len(ops) /\ (DoDelete(i) \/ OpResult(i)))

Spec == Init /\ [][Next]_vars
FairSpec == Spec /\ Fairness

-----------------------------------------------------------------------------
(* Properties *)

\* The phases a record may move to from r: it keeps its phase, fails to
\* Error, moves to Deleting once marked for deletion, or "" to Provisioning.
AllowedPhases(r) ==
    {r.phase, ErrorMachinePhase}
        \cup (IF r.del THEN {DeletingMachinePhase} ELSE {})
        \cup (IF r.phase = UnsetMachinePhase THEN {ProvisioningMachinePhase} ELSE {})

\* No write of Reconcile, doDelete or the watcher moves a machine's phase
\* backwards (to "" or out of Error or Deleting into Provisioning), however
\* stale the cached copy behind the write.
PhaseNeverRegresses ==
    [][\A m \in Machines :
          store[m] # Absent /\ store'[m] # Absent =>
              store'[m].phase \in AllowedPhases(store[m])]_store

\* A machine marked for deletion is eventually removed: handleDelete's wait
\* for Provisioning machines ends and the finalizer is dropped (spec 4.6).
DeletionCompletes ==
    \A m \in Machines :
        (store[m] # Absent /\ store[m].del) ~> store[m] = Absent

\* deleteMachine never releases a machine's MAAS node while another machine
\* of the cluster is Provisioning (spec section 8: such a delete requeues).
DeleteWaitsForProvisioning ==
    [][\A s \in SysIds :
          maas[s] = "allocated" /\ maas'[s] = "released" =>
              \A x \in Machines \ {owner[s]} :
                  store[x] = Absent \/ store[x].phase # ProvisioningMachinePhase]_vars

\* Once the watcher's timer fires while the operation still runs, the
\* machine is in Error (spec 4.3: "immediately mark the machine Error").
TimedOutOperationMarksError ==
    \A i \in 1..Len(ops) :
        ops[i].w = "timedout" /\ ops[i].st = "run" =>
            \/ store[ops[i].m] = Absent
            \/ store[ops[i].m].phase = ErrorMachinePhase

\* While the cluster record is missing, every machine of it eventually shows
\* ErrorMachinePhase, or is gone, or the cluster comes back (spec 4.2).
ClusterLossSurfaces ==
    \A m \in Machines :
        (~clusterExists /\ store[m] # Absent)
            ~> (clusterExists \/ store[m] = Absent
                \/ store[m].phase = ErrorMachinePhase)

\* Every machine MAAS handed out is named by its record, or is in the hands
\* of handleCreate between MAAS Create and updateStatus (spec 4.4 step 4).
AllocatedMachineRecorded ==
    \A s \in SysIds :
        maas[s] = "allocated" =>
            \/ store[owner[s]] # Absent /\ store[owner[s]].sid = s
            \/ rec.pc = "persist" /\ rec.mi.sid = s

\* Spec 4.1: a worker's boot configuration embeds a join command targeting
\* the address of its cluster's control-plane machine.  handleCreate reads
\* that maas-ip from the cached machine list: whenever MAAS hands out a node
\* for a worker, the master IP it was given must name the master's node,
\* still allocated.
WorkerJoinsAllocatedMasterNode ==
    [][\A s \in SysIds :
         (maas[s] = "new" /\ maas'[s] = "allocated" /\ owner'[s] # Master)
             => /\ MasterIP \in SysIds
                /\ maas[MasterIP] = "allocated" /\ owner[MasterIP] = Master]_vars

=============================================================================
