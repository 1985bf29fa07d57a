# TLA+ models of the cma-ssh machine controller

This directory holds TLA+ models of the cma-ssh machine reconciler
(`src/pkg/controller/machine/machine_controller.go`) and of the API-server
handlers that drive it (`src/internal/apiserver/cluster.go`). TLC checks
them. Each model is written from the Go source. Code that is not under
`src/` (the `util`, `maas`, `ssh` and `cert` packages) is modelled from
`spec.md`; `PROJECT.json` marks those definitions `spec_modelled`.

## 1. Inventory

### Components

| Component | Source | State it keeps | Operations |
|---|---|---|---|
| Reconciliation dispatcher | `machine_controller.go` `Reconcile` 111-161, `add` 73-93 | none of its own; it reads the machine and the cluster through the manager's **cached** client | Get machine (NotFound → return); Get cluster (NotFound → write Error); DeletionTimestamp → `handleDelete`; otherwise switch on phase: `Provisioning` → `handleWaitingForReady` (a no-op), `Deleting` → `handleDelete`, `Error` → return, `""` → `handleCreate`, anything else → "unknown phase" error |
| Create workflow | `handleCreate` 293-408 | the in-memory machine copy; the CA bundle | add the finalizer in memory; master: CA bundle and cloud-init; worker: find the master in the cached list and read its `maas-ip` (missing → requeue); MAAS `Create`; no IP → return "no ip" **without releasing**; `updateStatus` (Provisioning, finalizer, maas-ip, maas-system-id); master only: build the kubeconfig and create the `cluster-private-key` secret |
| Status writer | `updateStatus` 415-444 | none | re-read the machine *from the cache*; copy annotations, finalizers, phase and version from the in-memory copy; `Update`. The API server refuses the Update when the cached copy is not the current version. |
| Delete workflow | `handleDelete` 163-201, `deleteMachine` 203-220, `doDelete` 714-782 | in-memory copy | gate: if any machine of the cluster is Provisioning, requeue; if the finalizer is present: write Deleting; MAAS `Delete` (skipped if there is no system id; an error requeues); remove the finalizer and `updateStatus` (its error is only logged); start `doDelete` in the background. `doDelete` drains the node through the master (unless the cluster is stopping), runs `DeleteNode`, and writes the finalizer removal again. |
| Background operation runner | `backgroundRunner` 784-902 | an op goroutine, a watcher goroutine, an unbuffered channel, a 30-minute timer, the shared in-memory copy | getCluster (on error the log call dereferences a nil cluster and panics); read the private-key secret; start the op; the watcher receives the result or times out. Error result → write Error. Timeout → **wait for the op to finish**, then write Error, even if the op succeeded. |
| Waiting-for-ready | `handleWaitingForReady` 410-413 | none | logs only; nothing moves a machine out of Provisioning |
| Upgrade workflow | `handleUpgrade` 222-265, `doUpgrade` 613-712 | in-memory copy | **not reachable**: nothing calls `handleUpgrade`, and `Reconcile` answers Ready or Upgrading with "unknown phase". A worker polls (`util.Retry` 120×10s) until the master is Ready at the cluster's version, then upgrades. |
| Bootstrap workflow | `doBootstrap` 513-611, `createMachine` 462-511 | in-memory copy | **not reachable**: nothing starts them. Installs packages; the master runs kubeadm init; a worker lists the machines of **every namespace**, takes a master, polls it for a join token and joins; the machine becomes Ready. |
| Retry helper | `util.Retry` (not under src/; spec 4.7) | attempt counter | call, sleep, retry, and return the last error |
| Cluster API handlers | `cluster.go` `CreateCluster` 22-157, `DeleteCluster` 262-305, `UpgradeCluster` 354-385; the Get/List handlers | none (they read and write records) | create the namespace, the cluster, the control-plane machine and the worker machine sets; delete the cluster and its namespace; change the cluster's version |
| gRPC/REST mux, CRD assets, tools | `pkg/apiserver/apiserver.go`, `pkg/crd/*`, `tools.go` | none | server wiring, static assets, build tools |
| `GetClusterFromNamespace` | `pkg/util/clusterFromNamespace.go` | none | a read-only lookup; the controller does not use it |

### How the components interact

Records live in the API server. The controller reads them through an
informer cache, which can lag behind the server. Reconcile runs on a single
worker, and watch events, requeues and resyncs trigger it. Reconcile runs
`handleCreate` or `handleDelete`. `handleDelete` starts `doDelete` in a
goroutine that runs alongside later Reconciles. That goroutine and its
watcher write the record through `updateStatus` after Reconcile has
returned, and they keep the in-memory copy that Reconcile read. The MAAS
provisioner (create and release a node) and the SSH commands are external
calls. Users and the API handlers create and delete clusters and machines.
The controller process can restart at any point, and a nil-pointer panic
in `backgroundRunner` also restarts it.

### The hard behaviours

* **Stale reads.** Every Get and List goes to the cache. `updateStatus`
  re-reads the record just before the Update. Optimistic concurrency
  therefore only protects the copy re-read at that moment, not the copy
  the handler read when it decided what to do.
* **Interleavings.** The background goroutines write while later Reconciles,
  user deletes and cluster deletes run.
* **Partial failure and crashes.** A MAAS node can be allocated while the
  annotation that names it is not yet written. The kubeconfig secret is
  created after the phase is written. MAAS release happens before the
  finalizer is removed. Any of these steps can fail, or the process can
  restart between them.
* **Timeouts.** The 30-minute timer races the operation, and there is no
  cancellation.
* **Liveness.** Several waits depend on Provisioning ending, and nothing
  ends it.

### Properties that make each component correct

* Create: every MAAS node is named by a record or released. A re-run never
  allocates twice. Annotations are written once.
* Status writer: no write moves the phase backwards and no write replaces
  annotations.
* Delete: a record is never removed while its node is still allocated. A
  node is released only for a machine marked for deletion. The delete waits
  for Provisioning machines. A deleted machine is eventually gone.
* Runner: a timed-out operation marks the machine Error at once (spec 4.3).
  A late success does not undo Error.
* Dispatcher: a missing cluster eventually shows as Error on every machine.
* Upgrade (not reachable): a worker runs the node upgrade only after the
  master is Ready at the target version.
* Create, worker: the master IP a worker is given names the master's
  node while MAAS still holds it for the master (spec 4.1).
* Bootstrap (not reachable): a Ready record means the host is in a
  cluster. A worker joins its own cluster's master.

## 2. Modules

### `MachineController.tla`: dispatcher, create, delete, status writer, runner

State:

* `store[m]` and `cache[m]`: the API server's record and the informer's
  copy. A record holds the phase, the finalizer, the DeletionTimestamp and
  the system id; `maas-ip` and `maas-system-id` are always written
  together, so one field stands for both.
* `clusterExists`, `clusterStopping`.
* `kubeconfig`: whether the secret exists.
* `maas[s]`, `owner[s]`: the MAAS node pool.
* `rec`: where the single reconcile worker is inside a multi-step handler,
  and its in-memory copy.
* `ops`: the background operations, each with its op and watcher state.
* `crashes`, `clusterChanges`: bound counters.

Actions and the code they model:

| Action | Code |
|---|---|
| `ReconcileClusterNotFound(m)` | `Reconcile` 125-143 |
| `HandleDelete(m)` | `Reconcile` 145-153, `handleDelete` 163-189 |
| `HandleCreate(m)` | `handleCreate` 293-343, up to and including MAAS Create and the "no ip" return |
| `HandleCreatePersist` | 345-407: `updateStatus`, then the kubeconfig secret |
| `DeleteMachineRelease` | `deleteMachine` 203-211 |
| `DeleteMachineRemoveFinalizer` | `deleteMachine` 212-220 |
| `BackgroundRunnerStart` | `handleDelete` 196, `backgroundRunner` 784-817, including the nil-cluster panic |
| `DoDelete(i)` | `doDelete` 714-782 |
| `OpTimeout(i)`, `OpResult(i)` | the watcher goroutine 819-900 |
| `InformerSync(m)` | the informer delivering the latest version of a record |
| `DeleteMachineRecord(m)` | a user, or the namespace deletion that `DeleteCluster` starts |
| `DeleteCluster`, `CreateCluster` | the API handlers; `CreateCluster` stands for any client re-creating the cluster record |
| `ClusterStopping` | the cluster controller, which is not in src/ |
| `ControllerRestart` | a process restart |

`updateStatus` is the operator `UpdateStatus(m, mi)`. Its Update succeeds
exactly when the cached copy equals the stored one (`UpdateOk`). It writes
the cached copy patched with the in-memory copy's phase, finalizer and
annotations. A record that has a DeletionTimestamp and no finalizer is
removed (`Stored`).

Abstractions:

* Versions are identified by the record's contents.
* API errors other than conflicts behave like conflicts.
* Kubernetes versions, roles other than master/worker, cloud-init text,
  certificates and SSH commands are left out.
* A remote step of `doDelete` can fail at any time (nondeterminism).
* Branches of a handler that change nothing (requeue, log-and-return) are
  covered by the guards of the actions that do change something.

### `MachineRecords.tla`: the abstract record and node lifecycle

This module states what the controller promises about machine records and
MAAS nodes. It has no cache, no phases and no goroutines.

* `records[m]`: Absent, or whether the record is marked for deletion and
  which node it names.
* `nodes[s]`: new, allocated or released.
* `owner[s]`: the machine a node was allocated for.

Its actions:

* `Allocate`: a node is allocated.
* `Name`: a record comes to name a node allocated for it, or none.
* `Delete`: a record is marked. A record whose node is free can be removed
  at once, which is a record with no finalizer.
* `Release`: a node is released, but only once its machine is marked or
  gone.
* `Remove`: a marked record goes, but only once its node is not allocated.

`MC_MachineRecords.tla` is the refinement. It instantiates the module
`WITH records <- AbsRecords, nodes <- maas, owner <- owner`, where
`AbsRecords` maps each stored CnctMachine to its DeletionTimestamp and
its `maas-system-id`. It checks `RecordsRefinement == Abs!Spec` as a
property of the full controller.

`Allocate` does not require a live record. Checking the refinement showed
why: a stale cache lets `handleCreate` allocate a node for a machine whose
record is already gone, which is the node leak that `mc_alloc_unrecorded`
reports. The refinement also allows a record to switch from one node to
another, so it says nothing about leaks. The leak has its own run.

### `UpgradeWorkflow.tla`: handleUpgrade, doUpgrade, watcher, UpgradeCluster

Nothing in the source calls `handleUpgrade`. Spec 4.1 runs it on an
external upgrade request, so the model has an input, `HandleUpgrade(m)`,
for a cached Ready machine whose version is behind the cached cluster's
target. Every machine starts Ready at version 1, which is where
`doBootstrap` leaves it.

State:

* `store`, `cache`: phase and KubernetesVersion per machine.
* `clusterVer`, `clusterCache`: the cluster's Spec.KubernetesVersion and
  its cached copy.
* `ops`: per doUpgrade, the machine, the shared in-memory copy, the target
  version read at start (`cfg.clusterInstance`), the op's pc, the Retry
  attempts left, its error and the watcher.
* `masterHist`: history, every (phase, version) the master's record has
  had.

Actions and the code they model:

| Action | Code |
|---|---|
| `HandleUpgrade(m)` | 222-265 with the `backgroundRunner` start |
| `UpgradeMaster(i)` | 613-629 |
| `PollMaster(i)` | one call of the Retry function and the loop's attempt count, 630-669 |
| `UpgradeNode(i)` | 671-697 |
| `WriteReady(i)` | 699-712 |
| `OpTimeout(i)`, `OpResult(i)` | the watcher, 819-900 |
| `UpgradeCluster(v)` | `cluster.go` 354-385 |
| `InformerSync`, `ClusterInformerSync`, `ControllerRestart` | the environment |

`IsReadyForUpgrade` (in util, not under src/) looks for Provisioning
machines. None exist here, so the gate always passes.

### `Bootstrap.tla`: doBootstrap, its watcher, and util.Retry

Nothing in the source starts `doBootstrap`. Spec 4.4 runs it after
creation, once the machine is reachable. The model has an input,
`BootstrapRequest(m)`, for a machine that the cache shows as Provisioning
and that no live operation is bootstrapping. Every machine starts the way
`handleCreate` leaves it: Provisioning, with an untouched host. The
machines may belong to several clusters, each in its own namespace.

State:

* `store`, `cache`: the phase and a resourceVersion per machine. The
  version makes a stale cached copy of the same phase count as a conflict.
* `inited[m]`: kubeadm init has run on master m's host.
* `joined[w]`: the master whose cluster worker w's host joined.
* `ops`: per doBootstrap:
  * the machine and the op's pc;
  * the master the worker took;
  * the attempts left to the join-token Retry;
  * its error;
  * the watcher's state.

Actions and the code they model:

| Action | Code |
|---|---|
| `BootstrapRequest(m)` | the trigger of spec 4.4, then the `backgroundRunner` start |
| `Install(i)` | 513-539: NewCmdConfig and the four installs |
| `KubeadmInit(i)` | 540-545. A failure may leave the host initialised. |
| `ListMaster(i)` | 546-570: the List with no namespace, `GetMaster`, and NewCmdConfig for the master |
| `TokenCreate(i)` | 571-590: one call of the Retry function, and the Retry loop (spec 4.7) |
| `KubeadmJoin(i)` | 592-599 |
| `WriteReady(i)` | 602-611 |
| `OpTimeout(i)`, `OpResult(i)` | the watcher, 819-900 |
| `InformerSync`, `ControllerRestart` | the environment |

The model takes `util.Retry`'s loop from spec 4.7, since its code is not
under `src/`. No property is stated about the loop itself: a check of a
loop written from the spec against the spec's own formula would hold
whatever the code does.

### MC modules

* `MC_MachineController.tla` has two machines, `m1` (the master) and `w1`
  (a worker), and three MAAS system ids. `MC_MachineRecords.tla` extends
  it with the refinement mapping.
* `MC_MachineController_live.tla` has the same machines and two system
  ids, for the liveness runs.
* `MC_UpgradeWorkflow.tla` has `m1` and `w1` and versions 1..3.
* `MC_Bootstrap.tla` has one cluster, with master `m1` and worker `w1`.
  It also has a two-cluster instance, which adds `m2`, the master of a
  second cluster.

## 3. Runs

| Run (cfg) | Expect | What it shows |
|---|---|---|
| `mc_safety` (`MC_MachineRecords.cfg`) | pass | `TypeOK`; `RecordsRefinement`: across stale caches, conflicts, background deletes, cluster loss and a restart, the controller implements `MachineRecords`. A record names only a node allocated for it, a node is released only for a machine marked for deletion, and a record is removed only after its node, whichever of deleteMachine, doDelete or the watcher writes. |
| `mc_liveness` (`MC_MachineController_live.cfg`) | pass | `ClusterLossSurfaces`: with the cluster missing, every machine eventually shows Error, even though conflicts can refuse the write |
| `mc_phase_regress` (`MC_regress.cfg`) | violation | `PhaseNeverRegresses`: updateStatus re-reads the fresh record and patches it from a stale in-memory copy, which turns Error back into Provisioning |
| `mc_delete_stuck` (`MC_stuck.cfg`) | violation | `DeletionCompletes`: a machine deleted after it became Provisioning is never removed |
| `mc_delete_gate_stale` (`MC_gate.cfg`) | violation | `DeleteWaitsForProvisioning`: the gate reads the cached list, so the master's node is released while the worker is Provisioning |
| `mc_timeout_error` (`MC_timeout.cfg`) | violation | `TimedOutOperationMarksError`: after a timeout the machine stays out of Error until the operation returns |
| `mc_master_ip_released` (`MC_masterip.cfg`) | violation | `WorkerJoinsAllocatedMasterNode` (spec 4.1): deleteMachine releases the master's node (line 191) and the record stays, at Deleting and with its maas-ip, until doDelete ends; a worker's handleCreate in that window reads the IP (line 326) and MAAS provisions the worker to join a released node. No stale cache or restart is needed. |
| `mc_alloc_unrecorded` (`MC_alloc.cfg`) | violation | `AllocatedMachineRecorded`: a node is left that no record names. Causes: the "no ip" return; a failure or restart between MAAS Create and updateStatus; a second handleCreate on a stale copy, which overwrites the first node's id. |
| `upgrade_safety` (`MC_UpgradeWorkflow.cfg`) | pass | `TypeOK`; `WorkerUpgradeFollowsMaster`: a worker's UpgradeNode for version v happens only after the master's record has been Ready at v, despite stale caches, target changes, timeouts and a restart |
| `upgrade_stuck` (`MC_upgrade_stuck.cfg`) | violation | `UpgradeSettles`: when the upgrade's last status write is refused, or the process restarts, the machine stays Upgrading forever, because handleUpgrade returns at once for Upgrading |
| `bootstrap_safety` (`MC_Bootstrap.cfg`) | pass | Across failed SSH steps, refused writes, timeouts and a restart: `TypeOK`; `ReadyMeansBootstrapped`, a Ready record means a master ran kubeadm init, or a worker joined a master that had |
| `bootstrap_cross_cluster` (`MC_bootstrap_cross.cfg`) | violation | `WorkerJoinsOwnCluster`: the worker lists the machines of all namespaces, takes the other cluster's master, and joins that cluster |

### Bounds

* Two machines are enough for every cross-machine rule: a worker needs the
  master's IP, and the delete gate looks at the other machine.
* Three system ids allow a duplicate create plus a worker.
* `MaxOps = 2` allows a second doDelete started while a first is still
  running.
* One restart.
* Two cluster changes (delete, then re-create). Re-creating the cluster
  is the only way for a machine with a system id to reach a
  non-Provisioning phase and then be deleted.

For UpgradeWorkflow:

* Versions 1..3 with two UpgradeCluster calls, so the target can move
  while an upgrade runs.
* `MaxPolls = 2` lets a poll fail and then succeed, or run out.
* `MaxOps = 3` allows a master op, a worker op and a second round.
* The liveness run uses one upgrade, two ops and no restart, so its
  counterexample needs no crash.

For Bootstrap:

* One cluster with a master and a worker for the passing run. This
  covers the worker waiting on its master's bootstrap.
* The violation run adds a second cluster that has only a master. That
  is the smallest instance in which the master lookup can pick the
  wrong cluster. The passing run's properties do not depend on which
  master is taken.
* `MaxPolls = 2`, `MaxOps = 3` (one op per machine plus one after a
  failure or the restart), one restart.

The violation runs reach their counterexamples within these bounds. The
liveness configuration uses two system ids to stay under five minutes.

### Fairness

`Reconcile(m)` is weakly fair: watch events, requeues (`Requeue: true` and
error returns) and the informer's periodic resync keep calling it.
`InformerSync` is weakly fair because the informer keeps delivering. The
worker's continuation steps and the goroutine steps are weakly fair because
they run to completion. User, cluster and restart actions have no fairness.
`OpTimeout` has no fairness, since the timer need not fire before the
operation returns. `Bootstrap` has no fairness and no liveness property. Its op could only
be made fair by assuming that every SSH command returns, and the code
does not ensure that: it has no cancellation and no command timeout, and
the watcher waits for the op (line 870). So termination of a bootstrap
is not claimed.

### Deadlock

`CHECK_DEADLOCK FALSE` is set for the controller runs because the
controller really does go idle when no record changes. It is set for
`Bootstrap` because bootstrapping ends once every machine has been tried.

## 4. What is not modelled, and why

* `doBootstrap` is modelled, driven by a bootstrap request, because
  nothing calls it. `createMachine` is not modelled. It has no caller
  and no role in the spec. It repeats handleCreate's MAAS Create on an
  in-memory copy, and it persists nothing.
* The failed kubeconfig secret create (line 403) has no run. After the
  Provisioning write, nothing retries the secret: Reconcile only calls
  `handleWaitingForReady` for Provisioning. An earlier run showed this.
  It was dropped to make room for the bootstrap runs within the
  12-run budget.
* In `UpgradeWorkflow` the worker reads the cluster's target version once,
  when the op starts (line 635), and polls the cached master against it.
  A property that demands the live target at UpgradeNode is violated by
  any check-then-act code, so it would not isolate that read; no such
  run is kept. `WorkerUpgradeFollowsMaster` checks what the poll does
  guarantee.
* `doDelete` ignores `GetKubeConfig`'s error (line 750) and drains with an
  empty `admin.conf`. The fetch, drain and `DeleteNode` are one SSH step
  that may fail, so this is one cause of a modelled failure.
* `UpdateOk` compares record contents, not resourceVersions, so a write
  after an A->B->A change of a record is accepted where the API server
  would refuse it. A refused write is the only API error modelled. That is why
  `backgroundRunner and doDelete` is listed as partly modelled.
* `handleUpgrade` and `doUpgrade` are modelled in their own module, driven
  by an upgrade request, because no code calls them.
* Ordering of delete: `deleteMachine` releases the MAAS node (line 191)
  before `doDelete` drains the node (196). Spec 4.6 says the opposite. This
  holds on every path, so it is recorded here rather than checked; its
  consequence for a worker created meanwhile is `mc_master_ip_released`.
* `Reconcile`'s "unknown phase" branch cannot be reached, because nothing
  writes Ready or Upgrading.
* In `UpgradeWorkflow`, Error is not terminal. An earlier upgrade's watcher
  can time out and write Error (line 893) while a later upgrade of the
  same machine runs. That later op then writes Ready over the Error,
  sometimes at an older version. TLC found this with an `ErrorTerminal`
  action property. It has no run for two reasons: the project is at its
  run budget, and `mc_timeout_error` already reports the missing
  cancellation that causes it.
* Certificates, cloud-init templates and kubeconfig contents are data with
  no control in them.
* The gRPC/REST mux, the CRD asset code and the tools file are server
  wiring and build tooling.
* The read-only API handlers (`GetCluster`, `GetClusterList`,
  `GetClusterNodesStatus`, `GetUpgradeClusterInformation`) change no state.
  Every Cluster API handler that does is an environment action, so that
  component is listed as modelled.
* The project uses all 12 of its runs. A further question needs a
  violation run, and would have to replace one of the present ones.

## 5. Plan

1. Done: `MachineController`, its safety, liveness and violation runs.
2. Done: `Retry`, now part of `Bootstrap`; its loop comes from spec 4.7,
   so no property is checked on it.
3. Done: `UpgradeWorkflow`, and the refinement of `MachineRecords` by
   `MachineController`.
4. Done: `Bootstrap` for `doBootstrap`, with the Retry loop composed into
   the join-token poll.
5. Compose the upgrade path with the delete path, to see a delete that
   arrives while a machine is Upgrading. `handleDelete` is gated only on
   Provisioning.
6. An abstract phase lifecycle (spec 4.1) for `UpgradeWorkflow` would not
   be refined: Error is not terminal there (see section 4). It needs a
   violation run, so it waits for a run slot.
