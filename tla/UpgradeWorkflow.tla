--------------------------- MODULE UpgradeWorkflow ---------------------------
(***************************************************************************)
(* The upgrade path of pkg/controller/machine/machine_controller.go:       *)
(* handleUpgrade, the doUpgrade operation it hands to backgroundRunner,    *)
(* the watcher goroutine, and the UpgradeCluster API handler of            *)
(* internal/apiserver/cluster.go that changes the cluster's target         *)
(* Kubernetes version.                                                     *)
(*                                                                         *)
(* Nothing in the sources calls handleUpgrade; spec 4.1 has it run on an   *)
(* external upgrade request for a Ready (or Upgrading) machine, which is   *)
(* the UpgradeRequest input here.  Every machine starts Ready at version   *)
(* 1, as doBootstrap leaves it.  As in MachineController, all reads go     *)
(* through the informer cache and updateStatus is refused when the cached  *)
(* copy is not the stored version.                                         *)
(***************************************************************************)
EXTENDS Naturals, Sequences

CONSTANTS
    Machines,     \* the machines of the cluster
    Master,       \* the machine with the master role
    Versions,     \* Kubernetes versions the cluster can be asked for
    MaxPolls,     \* attempts of the worker's util.Retry (120 in the code)
    MaxOps,       \* bound on background operations started
    MaxUpgrades,  \* bound on UpgradeCluster calls
    MaxCrashes    \* bound on controller process restarts

ASSUME /\ Master \in Machines /\ 1 \in Versions /\ Versions \subseteq Nat
       /\ MaxPolls \in Nat \ {0}
       /\ MaxOps \in Nat /\ MaxUpgrades \in Nat /\ MaxCrashes \in Nat

ReadyMachinePhase     == "Ready"
UpgradingMachinePhase == "Upgrading"
ErrorMachinePhase     == "Error"

\* Status.Phase and Status.KubernetesVersion of a CnctMachine
Record == [phase : {ReadyMachinePhase, UpgradingMachinePhase, ErrorMachinePhase},
           ver : Versions]

VARIABLES
    store,         \* the API server's machine records
    cache,         \* the informer's copies of them
    clusterVer,    \* the CnctCluster's Spec.KubernetesVersion
    clusterCache,  \* the informer's copy of it
    ops,           \* background doUpgrade operations
    upgrades,      \* UpgradeCluster calls so far
    crashes,       \* restarts so far
    masterHist     \* history: every (phase, version) the master's record had

vars == <<store, cache, clusterVer, clusterCache, ops, upgrades, crashes, masterHist>>

\* A doUpgrade operation: its machine, the in-memory machine copy it shares
\* with the watcher, the target version of cfg.clusterInstance, where the
\* op goroutine is, the Retry attempts left, its error, the watcher.
OpRec == [m : Machines, snap : Record, ver : Versions,
          pc : {"master", "poll", "node", "write", "done"},
          attempts : 1..MaxPolls, err : BOOLEAN, w : {"wait", "timedout", "exit"}]

TypeOK ==
    /\ store \in [Machines -> Record] /\ cache \in [Machines -> Record]
    /\ clusterVer \in Versions /\ clusterCache \in Versions
    /\ ops \in Seq(OpRec) /\ Len(ops) <= MaxOps
    /\ upgrades \in 0..MaxUpgrades /\ crashes \in 0..MaxCrashes
    /\ masterHist \subseteq Record

-----------------------------------------------------------------------------
(* updateStatus: re-read the cached copy, copy phase and version onto it,  *)
(* Update; refused unless the cached copy is the stored version.           *)

UpdateOk(m) == cache[m] = store[m]

UpdateStatus(m, mi) ==
    store' = [store EXCEPT ![m] = IF UpdateOk(m) THEN mi ELSE @]

Finish(i, failed) == ops' = [ops EXCEPT ![i].pc = "done", ![i].err = failed]

-----------------------------------------------------------------------------
(* handleUpgrade, then backgroundRunner starting doUpgrade *)

\* Requested for a Ready machine behind the cluster's version.
\* Already Upgrading: return.  Otherwise write Upgrading; if that write is
\* refused, return the error; else start doUpgrade with the cached
\* cluster's target version.  (IsReadyForUpgrade looks for machines still
\* Provisioning; no machine here is.)
HandleUpgrade(m) ==
    /\ cache[m].phase = ReadyMachinePhase /\ cache[m].ver # clusterCache
    /\ Len(ops) < MaxOps
    /\ UpdateStatus(m, [cache[m] EXCEPT !.phase = UpgradingMachinePhase])
    /\ ops' = IF UpdateOk(m)
              THEN Append(ops, [m |-> m, ver |-> clusterCache,
                                snap |-> [cache[m] EXCEPT !.phase = UpgradingMachinePhase],
                                pc |-> IF m = Master THEN "master" ELSE "poll",
                                attempts |-> MaxPolls, err |-> FALSE, w |-> "wait"])
              ELSE ops
    /\ UNCHANGED <<cache, clusterVer, clusterCache, upgrades, crashes>>

-----------------------------------------------------------------------------
(* doUpgrade *)

\* The master runs UpgradeMaster over SSH, which may fail.
UpgradeMaster(i) ==
    /\ ops[i].pc = "master"
    /\ \/ ops' = [ops EXCEPT ![i].pc = "write"]
       \/ Finish(i, TRUE)
    /\ UNCHANGED <<store, cache, clusterVer, clusterCache, upgrades, crashes>>

\* Variant: the Retry loop goes on after its last attempt.
PollMasterOffByOne(i) ==
    LET master == cache[Master]
        done   == master.phase = ReadyMachinePhase /\ master.ver = ops[i].ver
    IN
    /\ ops[i].pc = "poll"
    /\ \/ /\ done
          /\ ops' = [ops EXCEPT ![i].pc = "node"]
       \/ /\ ~done /\ ops[i].attempts >= 1
          /\ ops' = [ops EXCEPT ![i].attempts = @ - 1]
    /\ UNCHANGED <<store, cache, clusterVer, clusterCache, upgrades, crashes>>

\* Variant: the poll accepts a Ready master whatever its version.
PollMasterAnyVersion(i) ==
    LET master == cache[Master] IN
    /\ ops[i].pc = "poll"
    /\ \/ /\ master.phase = ReadyMachinePhase
          /\ ops' = [ops EXCEPT ![i].pc = "node"]
       \/ /\ master.phase # ReadyMachinePhase /\ ops[i].attempts > 1
          /\ ops' = [ops EXCEPT ![i].attempts = @ - 1]
       \/ /\ master.phase # ReadyMachinePhase /\ ops[i].attempts = 1
          /\ Finish(i, TRUE)
    /\ UNCHANGED <<store, cache, clusterVer, clusterCache, upgrades, crashes>>

\* One call of the function a worker hands to util.Retry: list the
\* machines (cache), take the master, succeed only if it is Ready at the
\* target version; a failure uses up an attempt, the last one ends the op.
PollMaster(i) ==
    LET master == cache[Master]
        done   == master.phase = ReadyMachinePhase /\ master.ver = ops[i].ver
    IN
    /\ ops[i].pc = "poll"
    /\ \/ /\ done
          /\ ops' = [ops EXCEPT ![i].pc = "node"]
       \/ /\ ~done /\ ops[i].attempts > 1
          /\ ops' = [ops EXCEPT ![i].attempts = @ - 1]
       \/ /\ ~done /\ ops[i].attempts = 1
          /\ Finish(i, TRUE)
    /\ UNCHANGED <<store, cache, clusterVer, clusterCache, upgrades, crashes>>

\* List again, take the master's admin kubeconfig and run UpgradeNode;
\* any of these remote steps may fail.
UpgradeNode(i) ==
    /\ ops[i].pc = "node"
    /\ \/ ops' = [ops EXCEPT ![i].pc = "write"]
       \/ Finish(i, TRUE)
    /\ UNCHANGED <<store, cache, clusterVer, clusterCache, upgrades, crashes>>

\* Set Ready and the target version on the shared copy and updateStatus;
\* a refused write is the op's error.
WriteReady(i) ==
    LET mi == [ops[i].snap EXCEPT !.phase = ReadyMachinePhase, !.ver = ops[i].ver] IN
    /\ ops[i].pc = "write"
    /\ UpdateStatus(ops[i].m, mi)
    /\ ops' = [ops EXCEPT ![i].snap = mi, ![i].pc = "done",
                          ![i].err = ~UpdateOk(ops[i].m)]
    /\ UNCHANGED <<cache, clusterVer, clusterCache, upgrades, crashes>>

-----------------------------------------------------------------------------
(* The watcher goroutine of backgroundRunner *)

OpTimeout(i) ==
    /\ ops[i].w = "wait"
    /\ ops' = [ops EXCEPT ![i].w = "timedout"]
    /\ UNCHANGED <<store, cache, clusterVer, clusterCache, upgrades, crashes>>

\* Receive the result; after an error, or after a timeout whatever the
\* result, write Error onto the shared copy.
OpResult(i) ==
    LET op == ops[i] IN
    /\ op.pc = "done" /\ op.w # "exit"
    /\ ops' = [ops EXCEPT ![i].w = "exit"]
    /\ IF op.w = "timedout" \/ op.err
       THEN UpdateStatus(op.m, [op.snap EXCEPT !.phase = ErrorMachinePhase])
       ELSE UNCHANGED store
    /\ UNCHANGED <<cache, clusterVer, clusterCache, upgrades, crashes>>

-----------------------------------------------------------------------------
(* Environment *)

\* UpgradeCluster: Get the cluster, set Spec.KubernetesVersion, Update.
UpgradeCluster(v) ==
    /\ upgrades < MaxUpgrades /\ v # clusterVer
    /\ clusterVer' = v /\ upgrades' = upgrades + 1
    /\ UNCHANGED <<store, cache, clusterCache, ops, crashes>>

InformerSync(m) ==
    /\ cache[m] # store[m]
    /\ cache' = [cache EXCEPT ![m] = store[m]]
    /\ UNCHANGED <<store, clusterVer, clusterCache, ops, upgrades, crashes>>

ClusterInformerSync ==
    /\ clusterCache # clusterVer
    /\ clusterCache' = clusterVer
    /\ UNCHANGED <<store, cache, clusterVer, ops, upgrades, crashes>>

\* A restart kills every goroutine; the new informer lists afresh.
ControllerRestart ==
    /\ crashes < MaxCrashes /\ crashes' = crashes + 1
    /\ ops' = [i \in 1..Len(ops) |-> [ops[i] EXCEPT !.pc = "done", !.w = "exit"]]
    /\ cache' = store /\ clusterCache' = clusterVer
    /\ UNCHANGED <<store, clusterVer, upgrades>>

-----------------------------------------------------------------------------

Init ==
    /\ store = [m \in Machines |-> [phase |-> ReadyMachinePhase, ver |-> 1]]
    /\ cache = store
    /\ clusterVer = 1 /\ clusterCache = 1
    /\ ops = <<>> /\ upgrades = 0 /\ crashes = 0
    /\ masterHist = {store[Master]}

OpStep(i) ==
    UpgradeMaster(i) \/ PollMaster(i) \/ UpgradeNode(i) \/ WriteReady(i) \/ OpResult(i)

Next ==
    /\ \/ \E m \in Machines : HandleUpgrade(m) \/ InformerSync(m)
       \/ \E i \in 1..Len(ops) : OpStep(i) \/ OpTimeout(i)
       \/ \E v \in Versions : UpgradeCluster(v)
       \/ ClusterInformerSync \/ ControllerRestart
    /\ masterHist' = masterHist \cup {store'[Master]}

Fairness ==
    /\ \A m \in Machines : WF_vars(InformerSync(m) /\ masterHist' = masterHist)
    /\ WF_vars(ClusterInformerSync /\ masterHist' = masterHist)
    /\ \A i \in 1..MaxOps :
         WF_vars(i <= Len(ops) /\ OpStep(i) /\ masterHist' = masterHist \cup {store'[Master]})

Spec == Init /\ [][Next]_vars
FairSpec == Spec /\ Fairness

-----------------------------------------------------------------------------
(* Properties *)

IsUpgradeNode(i) == i \in 1..Len(ops) /\ ops[i].pc = "node" /\ ops'[i].pc = "write"

\* What doUpgrade's poll does guarantee: a worker runs UpgradeNode for
\* version v only after the master's record has at some time been Ready at
\* v, however stale the cache and whatever the timer and restarts did.
WorkerUpgradeFollowsMaster ==
    [][\A i \in 1..Len(ops) :
         IsUpgradeNode(i) =>
           [phase |-> ReadyMachinePhase, ver |-> ops[i].ver] \in masterHist]_vars

\* Spec 4.1: an Upgrading machine eventually leaves Upgrading (Ready or
\* Error), since handleUpgrade returns at once for an Upgrading machine.
UpgradeSettles ==
    \A m \in Machines :
        store[m].phase = UpgradingMachinePhase ~> store[m].phase # UpgradingMachinePhase

=============================================================================
