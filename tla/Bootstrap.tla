------------------------------ MODULE Bootstrap ------------------------------
(***************************************************************************)
(* doBootstrap of pkg/controller/machine/machine_controller.go, run by     *)
(* backgroundRunner's op and watcher goroutines.  A machine left           *)
(* Provisioning by handleCreate has its packages installed over SSH; a     *)
(* master then runs kubeadm init; a worker lists the machines, takes a     *)
(* master, polls it with util.Retry for a join token and joins it.  Then   *)
(* the machine is written Ready.                                           *)
(*                                                                         *)
(* Nothing in the sources starts doBootstrap; spec 4.4 has it follow       *)
(* creation once the machine is reachable, the BootstrapRequest input      *)
(* here, taken for a machine the cache shows Provisioning and no live      *)
(* operation is bootstrapping.  Machines of several clusters share the     *)
(* API server, each cluster in its own namespace.                          *)
(*                                                                         *)
(* util.Retry is not under src/: its loop follows spec 4.7.  No SSH       *)
(* command has a timeout, so nothing here is claimed to terminate.        *)
(***************************************************************************)
EXTENDS Naturals, Sequences

CONSTANTS
    Clusters,    \* the CnctClusters, one namespace each
    Machines,    \* the CnctMachines of all clusters
    ClusterOf,   \* ClusterOf[m]: the cluster machine m belongs to
    Masters,     \* the machines with the master role
    None,        \* no machine
    MaxPolls,    \* attempts of the join-token util.Retry (120 in the code)
    MaxOps,      \* bound on background operations started
    MaxCrashes   \* bound on controller process restarts

ASSUME /\ ClusterOf \in [Machines -> Clusters] /\ Masters \subseteq Machines
       /\ None \notin Machines
       /\ MaxPolls \in Nat \ {0} /\ MaxOps \in Nat /\ MaxCrashes \in Nat

Workers == Machines \ Masters

ProvisioningMachinePhase == "Provisioning"
ReadyMachinePhase        == "Ready"
ErrorMachinePhase        == "Error"
Phases == {ProvisioningMachinePhase, ReadyMachinePhase, ErrorMachinePhase}

\* Status.Phase and the resourceVersion every successful Update bumps.
Record == [phase : Phases, rv : 0..(2 * MaxOps)]

VARIABLES
    store,    \* the API server's machine records
    cache,    \* the informer's copies of them
    inited,   \* inited[m]: kubeadm init has run on master m's host
    joined,   \* joined[w]: the master whose cluster worker w's host joined
    ops,      \* background doBootstrap operations
    crashes   \* restarts so far

vars == <<store, cache, inited, joined, ops, crashes>>

\* A doBootstrap operation: its machine, where the op goroutine is, the
\* master it took, the attempts left to the join-token Retry, its error,
\* and the watcher.
OpRec == [m : Machines,
          pc : {"install", "init", "list", "token", "join", "write", "done"},
          master : Masters \cup {None},
          attempts : 1..MaxPolls,
          err : BOOLEAN, w : {"wait", "timedout", "exit"}]

TypeOK ==
    /\ store \in [Machines -> Record] /\ cache \in [Machines -> Record]
    /\ inited \in [Masters -> BOOLEAN] /\ joined \in [Workers -> Masters \cup {None}]
    /\ ops \in Seq(OpRec) /\ Len(ops) <= MaxOps
    /\ crashes \in 0..MaxCrashes

-----------------------------------------------------------------------------
(* updateStatus: re-read the cached copy, set the phase, Update; refused   *)
(* unless the cached copy is the stored version.                           *)

UpdateOk(m) == cache[m] = store[m]

UpdateStatus(m, ph) ==
    store' = [store EXCEPT ![m] = IF UpdateOk(m) THEN [phase |-> ph, rv |-> @.rv + 1]
                                                 ELSE @]

Finish(i, failed) == ops' = [ops EXCEPT ![i].pc = "done", ![i].err = failed]

Live(m) == \E i \in 1..Len(ops) : ops[i].m = m /\ ops[i].w # "exit"

-----------------------------------------------------------------------------
(* backgroundRunner(doBootstrap) *)

\* The cluster and its private-key secret are found (the failure paths are
\* in MachineController); the op and the watcher start.
BootstrapRequest(m) ==
    /\ cache[m].phase = ProvisioningMachinePhase /\ ~Live(m)
    /\ Len(ops) < MaxOps
    /\ ops' = Append(ops, [m |-> m, pc |-> "install", master |-> None,
                           attempts |-> MaxPolls,
                           err |-> FALSE, w |-> "wait"])
    /\ UNCHANGED <<store, cache, inited, joined, crashes>>

-----------------------------------------------------------------------------
(* doBootstrap *)

\* NewCmdConfig, then the bootstrap repo, nginx, docker and the Kubernetes
\* packages over SSH; the first failure is the op's error.
Install(i) ==
    /\ ops[i].pc = "install"
    /\ \/ ops' = [ops EXCEPT ![i].pc = IF ops[i].m \in Masters THEN "init" ELSE "list"]
       \/ Finish(i, TRUE)
    /\ UNCHANGED <<store, cache, inited, joined, crashes>>

\* A master runs kubeadm init.  The SSH command can fail after kubeadm has
\* brought the control plane up, so a failure may leave the host inited.
KubeadmInit(i) ==
    LET m == ops[i].m IN
    /\ ops[i].pc = "init"
    /\ \/ /\ inited' = [inited EXCEPT ![m] = TRUE]
          /\ ops' = [ops EXCEPT ![i].pc = "write"]
       \/ /\ inited' \in {inited, [inited EXCEPT ![m] = TRUE]}
          /\ Finish(i, TRUE)
    /\ UNCHANGED <<store, cache, joined, crashes>>

\* A worker Lists machines with labels.Everything() and no namespace, so
\* the cached list holds the machines of every cluster; GetMaster takes a
\* master from it, in list order, which the informer does not fix.  Then
\* NewCmdConfig for that master, which may fail.
ListMaster(i) ==
    /\ ops[i].pc = "list"
    /\ \/ \E x \in Masters : ops' = [ops EXCEPT ![i].pc = "token", ![i].master = x]
       \/ Finish(i, TRUE)
    /\ UNCHANGED <<store, cache, inited, joined, crashes>>

\* Variant: the Retry loop goes on after its last attempt.
TokenCreateOffByOne(i) ==
    LET x == ops[i].master IN
    /\ ops[i].pc = "token"
    /\ \E ok \in IF inited[x] THEN BOOLEAN ELSE {FALSE} :
         \/ ok /\ ops' = [ops EXCEPT ![i].pc = "join"]
         \/ ~ok /\ ops' = [ops EXCEPT ![i].attempts = @ - 1]
    /\ UNCHANGED <<store, cache, inited, joined, crashes>>

\* One call of util.Retry's fn: kubeadm token create on the master over
\* SSH, which can only succeed once kubeadm init has run there.  Success
\* returns at once; a failure sleeps and retries while attempts remain,
\* and the last one is the op's error.
TokenCreate(i) ==
    LET x == ops[i].master IN
    /\ ops[i].pc = "token"
    /\ \E ok \in IF inited[x] THEN BOOLEAN ELSE {FALSE} :
         \/ ok /\ ops' = [ops EXCEPT ![i].pc = "join"]
         \/ ~ok /\ ops[i].attempts > 1
            /\ ops' = [ops EXCEPT ![i].attempts = @ - 1]
         \/ ~ok /\ ops[i].attempts = 1
            /\ ops' = [ops EXCEPT ![i].pc = "done", ![i].err = TRUE]
    /\ UNCHANGED <<store, cache, inited, joined, crashes>>

\* Variant: the error of kubeadm join is not returned.
KubeadmJoinIgnoreError(i) ==
    /\ ops[i].pc = "join"
    /\ \/ joined' = [joined EXCEPT ![ops[i].m] = ops[i].master]
       \/ UNCHANGED joined
    /\ ops' = [ops EXCEPT ![i].pc = "write"]
    /\ UNCHANGED <<store, cache, inited, crashes>>

\* kubeadm join with the token against the master's host; it may fail.
KubeadmJoin(i) ==
    /\ ops[i].pc = "join"
    /\ \/ /\ joined' = [joined EXCEPT ![ops[i].m] = ops[i].master]
          /\ ops' = [ops EXCEPT ![i].pc = "write"]
       \/ /\ Finish(i, TRUE) /\ UNCHANGED joined
    /\ UNCHANGED <<store, cache, inited, crashes>>

\* Set Ready and updateStatus; a refused write is the op's error.
WriteReady(i) ==
    /\ ops[i].pc = "write"
    /\ UpdateStatus(ops[i].m, ReadyMachinePhase)
    /\ Finish(i, ~UpdateOk(ops[i].m))
    /\ UNCHANGED <<cache, inited, joined, crashes>>

-----------------------------------------------------------------------------
(* The watcher goroutine of backgroundRunner *)

OpTimeout(i) ==
    /\ ops[i].w = "wait"
    /\ ops' = [ops EXCEPT ![i].w = "timedout"]
    /\ UNCHANGED <<store, cache, inited, joined, crashes>>

\* Receive the result; after an error, or after a timeout whatever the
\* result, write Error.
OpResult(i) ==
    /\ ops[i].pc = "done" /\ ops[i].w # "exit"
    /\ ops' = [ops EXCEPT ![i].w = "exit"]
    /\ IF ops[i].w = "timedout" \/ ops[i].err
       THEN UpdateStatus(ops[i].m, ErrorMachinePhase)
       ELSE UNCHANGED store
    /\ UNCHANGED <<cache, inited, joined, crashes>>

-----------------------------------------------------------------------------
(* Environment *)

InformerSync(m) ==
    /\ cache[m] # store[m]
    /\ cache' = [cache EXCEPT ![m] = store[m]]
    /\ UNCHANGED <<store, inited, joined, ops, crashes>>

\* A restart kills every goroutine; the hosts keep what kubeadm did.
ControllerRestart ==
    /\ crashes < MaxCrashes /\ crashes' = crashes + 1
    /\ ops' = [i \in 1..Len(ops) |-> [ops[i] EXCEPT !.pc = "done", !.w = "exit"]]
    /\ cache' = store
    /\ UNCHANGED <<store, inited, joined>>

-----------------------------------------------------------------------------

\* Every machine as handleCreate leaves it: Provisioning, host untouched.
Init ==
    /\ store = [m \in Machines |-> [phase |-> ProvisioningMachinePhase, rv |-> 0]]
    /\ cache = store
    /\ inited = [m \in Masters |-> FALSE] /\ joined = [w \in Workers |-> None]
    /\ ops = <<>> /\ crashes = 0

OpStep(i) ==
    \/ Install(i) \/ KubeadmInit(i) \/ ListMaster(i) \/ TokenCreate(i)
    \/ KubeadmJoin(i) \/ WriteReady(i) \/ OpResult(i)

Next ==
    \/ \E m \in Machines : BootstrapRequest(m) \/ InformerSync(m)
    \/ \E i \in 1..Len(ops) : OpStep(i) \/ OpTimeout(i)
    \/ ControllerRestart

Spec == Init /\ [][Next]_vars

-----------------------------------------------------------------------------
(* Properties *)

\* A machine's record says Ready only when its host is in a cluster: a
\* master has run kubeadm init, a worker has joined a master on which
\* kubeadm init had run, whatever failed, timed out or restarted between
\* the steps of the worker's and the master's operations.
ReadyMeansBootstrapped ==
    \A m \in Machines :
        store[m].phase = ReadyMachinePhase =>
            IF m \in Masters THEN inited[m]
            ELSE joined[m] # None /\ inited[joined[m]]

\* Spec 4.4: a worker polls the control-plane machine of its own cluster
\* for a join token and joins that cluster.
WorkerJoinsOwnCluster ==
    \A w \in Workers :
        joined[w] \in {None} \cup {x \in Masters : ClusterOf[x] = ClusterOf[w]}

=============================================================================
