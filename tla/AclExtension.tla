---------------------------- MODULE AclExtension ----------------------------
(***************************************************************************)
(* The ACL extension controller on one seed: the actuator of               *)
(* pkg/controller/actuator.go behind Gardener's generic extension          *)
(* reconciler, the Infrastructure watch of pkg/controller/add.go, the      *)
(* objects it reads through its client, the ManagedResource it writes and  *)
(* the gardener-resource-manager (GRM) that applies the rendered chart.    *)
(*                                                                         *)
(* Every API call of the actuator is an action of its own, so that the     *)
(* cluster may change between any two of them; the pure code between two   *)
(* calls belongs to the call before it.  The objects are as the manager's  *)
(* cache shows them.                                                       *)
(*                                                                         *)
(* A definition introduced as a "Variant" is a plausible bug that a run    *)
(* must notice when it takes the place of the definition after it.         *)
(***************************************************************************)
EXTENDS EnvoyFilters, FiniteSets

CONSTANTS
    Shoots,             \* shoots with an ACL extension; one namespace each
    Workerless,         \* those without workers
    SeedNetworks,       \* the seed's node and pod networks
    Namespaces,         \* istio namespaces
    Selectors,          \* selectors of istio Gateways
    DeploymentLists,    \* [Selectors -> lists of the selected Deployments' namespaces]
    ProviderConfigs,    \* provider configs of the Extension resources
    Malformed,          \* the provider config that does not unmarshal
    ClusterStates,      \* [Shoots -> states of its Cluster resource]
    Gateways,           \* Selectors of the kube-apiserver Gateway, or None
    EgressLists,        \* Infrastructure egress CIDR lists, or None
    ServiceStates,      \* "NotFound", "VIP", "Proxy": the ingressgateway Service
    ShootInfos,         \* contents of ConfigMap shoot-info, or None
    IngressGateways,    \* Selectors of garden/nginx-ingress-controller, or None
    AdditionalCIDRs,    \* values of --additional-allowed-cidrs
    MaxAllowedCIDRs,    \* the actuator's limit, 0 for none
    MaxConcurrent,      \* MaxConcurrentReconciles
    MaxChanges,         \* bound on the changes made by users, gardenlet and seed
    MaxFaults,          \* bound on failed API calls and restarts
    None

ASSUME ShootsAssumption ==
    /\ Workerless \subseteq Shoots
    /\ SeedNetworks \subseteq STRING

ASSUME ValuesAssumption ==
    /\ ClusterStates \in
          [Shoots -> SUBSET [hibernated : BOOLEAN, advertised : Seq(STRING),
                             nodes : SUBSET STRING]]
    /\ Gateways \subseteq Selectors \cup {None}
    /\ DeploymentLists \in [Selectors -> SUBSET Seq(Namespaces)]
    /\ EgressLists \subseteq Seq(STRING) \cup {None}
    /\ ServiceStates \subseteq {"NotFound", "VIP", "Proxy"}
    /\ ShootInfos \subseteq [hasKey : BOOLEAN, cidrs : Seq(STRING)] \cup {None}
    /\ IngressGateways \subseteq Selectors \cup {None}
    /\ AdditionalCIDRs \subseteq SUBSET STRING

\* None is what an object that does not exist is read as.
ASSUME NoneAssumption == None \notin ProviderConfigs /\ None \notin Selectors

ASSUME BoundsAssumption == MaxChanges \in Nat /\ MaxFaults \in Nat

VARIABLES
    \* what the controller reads
    cluster,            \* [Shoots -> Cluster]
    gateway,            \* [Shoots -> Gateways]
    deployments,        \* [Selectors -> DeploymentLists]
    infra,              \* [Shoots -> EgressLists]
    service,            \* [Namespaces -> ServiceStates]
    shootInfo, ingressGateway,
    \* the Extension resources, and what is written for them
    ext,                \* [Shoots -> Extension]
    mr,                 \* [Shoots -> ManagedResource]
    installed,          \* [Shoots -> EnvoyFilter objects on the seed]
    \* the controller process
    additional,         \* AdditionalAllowedCIDRs of this process
    queue,              \* keys waiting in the work queue
    infraEvent,         \* [Shoots -> an egress CIDR change is not delivered yet]
    pc, run,            \* [Shoots -> where its worker is, and its locals]
    \* bookkeeping of the model
    stale,              \* [Shoots -> why the filters may be outdated]
    changes, faults

seedVars == <<cluster, gateway, deployments, infra, service, shootInfo, ingressGateway>>
workVars == <<pc, run>>
objectVars == <<ext, mr, installed>>
\* Everything but the state of the workers.
restVars == <<seedVars, objectVars, additional, queue, infraEvent, stale,
              changes, faults>>
vars == <<restVars, workVars>>

-----------------------------------------------------------------------------
(* Types *)

\* A rendered EnvoyFilter is known by its kind and namespace; hosts, rule and
\* allowed are what the Build functions of EnvoyFilters turn into its spec.
Kinds == {"api", "vpn", "http-proxy", "ingress"}

Object ==
    [kind : Kinds, namespace : Namespaces \cup {"istio-ingress"},
     labels : Selectors, hosts : Seq(STRING), rule : ProviderConfigs,
     allowed : SUBSET STRING]

NoExtension ==
    [phase |-> "Absent", config |-> None, operation |-> "none",
     finalizer |-> FALSE, lastOp |-> "New", istioNamespace |-> None]

\* status.lastOperation: "Migrated" is a succeeded operation of type Migrate.
Extension ==
    [phase : {"Absent", "Live", "Deleting"},
     config : ProviderConfigs \cup {None},
     operation : {"none", "reconcile", "migrate", "restore"},
     finalizer : BOOLEAN,
     lastOp : {"New", "Processing", "Succeeded", "Error", "Migrated"},
     istioNamespace : Namespaces \cup {None}]

ManagedResource ==
    [phase : {"Absent", "Present", "Deleting"}, objects : SUBSET Object]

NoManagedResource == [phase |-> "Absent", objects |-> {}]

\* nodes is the node network, if the Shoot has one.
Cluster == [hibernated : BOOLEAN, advertised : Seq(STRING), nodes : SUBSET STRING]

\* The locals of Reconcile: the operation, the Extension and Cluster read,
\* the istio namespace and labels, the always allowed CIDRs so far.
NoRun == [op |-> "none", config |-> None, cluster |-> None, namespace |-> None,
          labels |-> None, allowed |-> {}, defaultLabels |-> None]

Run == [op : {"none", "reconcile", "restore", "delete", "migrate"},
        config : ProviderConfigs \cup {None},
        cluster : Cluster \cup {None},
        namespace : Namespaces \cup {None},
        labels : Selectors \cup {None},
        allowed : SUBSET STRING,
        defaultLabels : Selectors \cup {None}]

ReadPoints == {"cluster", "gateway", "deployments", "service", "shootInfo",
               "infrastructure", "ingressGateway"}
ReconcilePoints == ReadPoints \cup {"create", "patch"}
DeletePoints == {"delete", "wait"}
FinishPoints == {"success", "release", "failed"}

Points == {"idle"} \cup ReconcilePoints \cup DeletePoints \cup FinishPoints

SeedType ==
    /\ cluster \in [Shoots -> Cluster]
    /\ gateway \in [Shoots -> Selectors \cup {None}]
    /\ deployments \in [Selectors -> Seq(Namespaces)]
    /\ infra \in [Shoots -> Seq(STRING) \cup {None}]
    /\ service \in [Namespaces -> {"NotFound", "VIP", "Proxy"}]
    /\ shootInfo \in [hasKey : BOOLEAN, cidrs : Seq(STRING)] \cup {None}
    /\ ingressGateway \in Selectors \cup {None}

ObjectType ==
    /\ ext \in [Shoots -> Extension]
    /\ mr \in [Shoots -> ManagedResource]
    /\ installed \in [Shoots -> SUBSET Object]

ControllerType ==
    /\ additional \in SUBSET STRING
    /\ queue \in SUBSET Shoots
    /\ infraEvent \in [Shoots -> BOOLEAN]

WorkerType ==
    /\ pc \in [Shoots -> Points]
    /\ run \in [Shoots -> Run]

BookType ==
    /\ stale \in [Shoots -> SUBSET {"unwatched", "missed"}]
    /\ changes \in 0 .. MaxChanges
    /\ faults \in 0 .. MaxFaults

TypeOK == SeedType /\ ObjectType /\ ControllerType /\ WorkerType /\ BookType

Init ==
    /\ cluster \in {c \in [Shoots -> UNION {ClusterStates[s] : s \in Shoots}] :
                      \A s \in Shoots : c[s] \in ClusterStates[s]}
    /\ gateway \in [Shoots -> Gateways]
    /\ deployments \in {d \in [Selectors -> UNION {DeploymentLists[l] : l \in Selectors}] :
                          \A l \in Selectors : d[l] \in DeploymentLists[l]}
    /\ infra \in [Shoots -> EgressLists]
    /\ service \in [Namespaces -> ServiceStates]
    /\ shootInfo \in ShootInfos
    /\ ingressGateway \in IngressGateways
    /\ ext = [s \in Shoots |-> NoExtension]
    /\ mr = [s \in Shoots |-> NoManagedResource]
    /\ installed = [s \in Shoots |-> {}]
    /\ additional \in AdditionalCIDRs
    /\ queue = {}
    /\ infraEvent = [s \in Shoots |-> FALSE]
    /\ pc = [s \in Shoots |-> "idle"]
    /\ run = [s \in Shoots |-> NoRun]
    /\ stale = [s \in Shoots |-> {}]
    /\ changes = 0
    /\ faults = 0

-----------------------------------------------------------------------------
(* The generic extension reconciler (external: gardener/extensions), which  *)
(* the actuator is registered with in add.go.                               *)

\* DefaultPredicates: updates of an Extension wake the controller up when it
\* carries an operation annotation or is being deleted; the initial list also
\* when its last operation has not succeeded.
UpdatePasses(e) == e.operation # "none" \/ e.phase = "Deleting"

CreatePasses(e) ==
    /\ e.phase # "Absent"
    /\ UpdatePasses(e) \/ e.lastOp \notin {"Succeeded", "Migrated"}

Operation(e) ==
    CASE e.operation = "migrate" -> "migrate"
      [] e.operation # "migrate" /\ e.phase = "Deleting" -> "delete"
      [] e.operation = "restore" /\ e.phase # "Deleting" -> "restore"
      [] OTHER -> "reconcile"

Skipped(e) ==
    \/ e.phase = "Absent"
    \/ e.lastOp = "Migrated" /\ Operation(e) \notin {"migrate", "restore"}
    \/ Operation(e) = "delete" /\ ~ e.finalizer

Running == {s \in Shoots : pc[s] # "idle"}

\* A key that is being processed stays in the queue until its worker is done.
Dequeue(s) ==
    /\ s \in queue
    /\ pc[s] = "idle"
    /\ Cardinality(Running) < MaxConcurrent
    /\ \/ /\ Skipped(ext[s])
          /\ queue' = queue \ {s}
          /\ UNCHANGED <<ext, workVars, stale>>
       \/ /\ ~ Skipped(ext[s])
          /\ LET op == Operation(ext[s])
                 e  == [ext[s] EXCEPT
                          !.operation  = IF @ = "reconcile" THEN "none" ELSE @,
                          !.finalizer  = @ \/ op \in {"reconcile", "restore"},
                          !.lastOp     = "Processing"]
             IN /\ ext' = [ext EXCEPT ![s] = e]
                /\ queue' = IF UpdatePasses(e) THEN queue ELSE queue \ {s}
                /\ run' = [run EXCEPT ![s] = [NoRun EXCEPT !.op = op, !.config = e.config]]
                /\ pc' = [pc EXCEPT ![s] = IF op \in {"reconcile", "restore"}
                                           THEN "cluster" ELSE "delete"]
          /\ stale' = [stale EXCEPT ![s] = {}]
    /\ UNCHANGED <<seedVars, mr, installed, additional, infraEvent, changes, faults>>

\* The status of the operation, after the actuator returned nil.
Succeed(s) ==
    /\ pc[s] = "success"
    /\ ext' = [ext EXCEPT ![s].lastOp =
                  IF run[s].op = "migrate" THEN "Migrated" ELSE "Succeeded"]
    /\ IF run[s].op = "reconcile"
       THEN /\ pc' = [pc EXCEPT ![s] = "idle"]
            /\ run' = [run EXCEPT ![s] = NoRun]
       ELSE /\ pc' = [pc EXCEPT ![s] = "release"]
            /\ UNCHANGED run
    /\ queue' = IF UpdatePasses(ext'[s]) THEN queue \cup {s} ELSE queue
    /\ UNCHANGED <<seedVars, mr, installed, additional, infraEvent, stale, changes, faults>>

\* Finalizer and operation annotation go last; an Extension that is being
\* deleted disappears with its finalizer.
Release(s) ==
    /\ pc[s] = "release"
    /\ LET keep == run[s].op = "restore"
           e    == [ext[s] EXCEPT !.finalizer = keep, !.operation = "none"]
           gone == ext[s].phase = "Deleting" /\ ~ keep
       IN /\ ext' = [ext EXCEPT ![s] = IF gone THEN NoExtension ELSE e]
          /\ queue' = IF UpdatePasses(ext'[s]) THEN queue \cup {s} ELSE queue
    /\ pc' = [pc EXCEPT ![s] = "idle"]
    /\ run' = [run EXCEPT ![s] = NoRun]
    /\ UNCHANGED <<seedVars, mr, installed, additional, infraEvent, stale, changes, faults>>

\* An error is recorded and the key is queued again.
Fail(s) ==
    /\ pc[s] = "failed"
    /\ ext' = [ext EXCEPT ![s].lastOp = "Error"]
    /\ queue' = queue \cup {s}
    /\ pc' = [pc EXCEPT ![s] = "idle"]
    /\ run' = [run EXCEPT ![s] = NoRun]
    /\ UNCHANGED <<seedVars, mr, installed, additional, infraEvent, stale, changes, faults>>

-----------------------------------------------------------------------------
(* The actuator: Reconcile (Restore calls it), call by call *)

Goto(s, point) == pc' = [pc EXCEPT ![s] = point]

\* Variant: the provider config is decoded, not validated.
GetClusterUnvalidated(s) ==
    /\ pc[s] = "cluster"
    /\ run' = [run EXCEPT ![s].cluster = cluster[s]]
    /\ Goto(s, IF run[s].config # Malformed THEN "gateway" ELSE "failed")
    /\ UNCHANGED restVars

\* GetClusterForExtension, then the provider config is decoded and validated.
GetCluster(s) ==
    /\ pc[s] = "cluster"
    /\ run' = [run EXCEPT ![s].cluster = cluster[s]]
    /\ IF /\ run[s].config # Malformed
          /\ ValidateExtensionSpec(run[s].config, MaxAllowedCIDRs)
       THEN Goto(s, "gateway")
       ELSE Goto(s, "failed")
    /\ UNCHANGED restVars

\* Variant: the filters of a hibernated shoot are removed.
GetGatewayTearingDown(s) ==
    /\ pc[s] = "gateway"
    /\ run' = [run EXCEPT ![s].labels = gateway[s]]
    /\ IF gateway[s] # None THEN Goto(s, "deployments")
       ELSE IF run[s].cluster.hibernated THEN Goto(s, "delete")
       ELSE Goto(s, "failed")
    /\ UNCHANGED restVars

\* Variant: a missing Gateway is an error for hibernated shoots too.
GetGatewayStrictly(s) ==
    /\ pc[s] = "gateway"
    /\ run' = [run EXCEPT ![s].labels = gateway[s]]
    /\ Goto(s, IF gateway[s] # None THEN "deployments" ELSE "failed")
    /\ UNCHANGED restVars

\* Variant: a hibernated shoot is skipped although it has a Gateway.
GetGatewayUnlessHibernated(s) ==
    /\ pc[s] = "gateway"
    /\ run' = [run EXCEPT ![s].labels = gateway[s]]
    /\ IF run[s].cluster.hibernated THEN Goto(s, "success")
       ELSE Goto(s, IF gateway[s] # None THEN "deployments" ELSE "failed")
    /\ UNCHANGED restVars

\* First call of findIstioNamespaceForExtension.  For a hibernated shoot
\* without a Gateway, Reconcile returns nil and leaves everything as it is.
GetGateway(s) ==
    /\ pc[s] = "gateway"
    /\ run' = [run EXCEPT ![s].labels = gateway[s]]
    /\ IF gateway[s] # None THEN Goto(s, "deployments")
       ELSE IF run[s].cluster.hibernated THEN Goto(s, "success")
       ELSE Goto(s, "failed")
    /\ UNCHANGED restVars

\* Variant: of several selected Deployments the first one is taken.
ListFirstDeployment(s) ==
    /\ pc[s] = "deployments"
    /\ IF run[s].cluster.advertised = <<>> \/ deployments[run[s].labels] = <<>>
       THEN Goto(s, "failed") /\ UNCHANGED run
       ELSE /\ run' = [run EXCEPT ![s].namespace = deployments[run[s].labels][1],
                                  ![s].allowed = SeedNetworks]
            /\ Goto(s, "service")
    /\ UNCHANGED restVars

\* Second call: exactly one selected Deployment has to exist, hibernated or
\* not.  Then the advertised addresses and the seed networks are taken.
ListDeployments(s) ==
    /\ pc[s] = "deployments"
    /\ \/ /\ run[s].cluster.advertised # <<>>
          /\ \E ns \in Namespaces :
                /\ deployments[run[s].labels] = <<ns>>
                /\ run' = [run EXCEPT ![s].namespace = ns, ![s].allowed = SeedNetworks]
          /\ Goto(s, "service")
       \/ /\ \/ run[s].cluster.advertised = <<>>
             \/ \A ns \in Namespaces : deployments[run[s].labels] # <<ns>>
          /\ Goto(s, "failed")
          /\ UNCHANGED run
    /\ UNCHANGED restVars

\* Variant: the flag --additional-allowed-cidrs is not applied.
AllowSeedEgressOnly(s, cidrs) ==
    /\ run' = [run EXCEPT ![s].allowed = @ \cup cidrs]
    /\ Goto(s, IF s \in Workerless THEN "ingressGateway" ELSE "infrastructure")

\* AdditionalAllowedCIDRs, and on to the shoot-specific CIDRs.
AllowSeedEgress(s, cidrs) ==
    /\ run' = [run EXCEPT ![s].allowed = @ \cup cidrs \cup additional]
    /\ Goto(s, IF s \in Workerless THEN "ingressGateway" ELSE "infrastructure")

\* usesProxyTypeLBService.
GetService(s) ==
    /\ pc[s] = "service"
    /\ IF service[run[s].namespace] = "Proxy"
       THEN Goto(s, "shootInfo") /\ UNCHANGED run
       ELSE AllowSeedEgress(s, {})
    /\ UNCHANGED restVars

\* getSeedEgressIPOnManagedSeeds: a missing ConfigMap means no managed seed, a
\* missing key or an entry that is no CIDR is an error.
GetShootInfo(s) ==
    /\ pc[s] = "shootInfo"
    /\ IF shootInfo = None THEN AllowSeedEgress(s, {})
       ELSE IF shootInfo.hasKey /\ ToSet(shootInfo.cidrs) \subseteq Cidr
            THEN AllowSeedEgress(s, ToSet(shootInfo.cidrs))
       ELSE Goto(s, "failed") /\ UNCHANGED run
    /\ UNCHANGED restVars

\* Node network (read with the Cluster) and egress CIDRs of a shoot with workers.
GetInfrastructure(s) ==
    /\ pc[s] = "infrastructure"
    /\ IF infra[s] = None
       THEN Goto(s, "failed") /\ UNCHANGED run
       ELSE /\ run' = [run EXCEPT ![s].allowed =
                          @ \cup run[s].cluster.nodes \cup ToSet(infra[s])]
            /\ Goto(s, "ingressGateway")
    /\ UNCHANGED restVars

\* findDefaultIstioLabels; without the Gateway there is no ingress filter.
GetIngressGateway(s) ==
    /\ pc[s] = "ingressGateway"
    /\ run' = [run EXCEPT ![s].defaultLabels = ingressGateway]
    /\ Goto(s, "create")
    /\ UNCHANGED restVars

\* The objects the seed chart renders; the ingress filter always goes to
\* istio-ingress, and only if the seed has an ingress domain.
Objects(r) ==
    LET Obj(kind, namespace, labels) ==
            [kind |-> kind, namespace |-> namespace, labels |-> labels,
             hosts |-> r.cluster.advertised, rule |-> r.config, allowed |-> r.allowed]
    IN {Obj(kind, r.namespace, r.labels) : kind \in {"api", "vpn", "http-proxy"}}
       \cup IF r.defaultLabels # None /\ IngressDomain # ""
            THEN {Obj("ingress", "istio-ingress", r.defaultLabels)}
            ELSE {}

\* Variant: a write that fails has got only as far as the first filter.
CreatePartly(s, answered) ==
    /\ pc[s] = "create"
    /\ mr' = [mr EXCEPT ![s] =
                 [phase   |-> IF @.phase = "Absent" THEN "Present" ELSE @.phase,
                  objects |-> {o \in Objects(run[s]) : answered \/ o.kind = "api"}]]
    /\ Goto(s, IF answered THEN "patch" ELSE "failed")
    /\ UNCHANGED <<seedVars, ext, installed, additional, queue, infraEvent, run,
                   stale, changes>>

\* createManagedResource; the answer of the write may get lost, which the
\* actuator sees as an error.
CreateManagedResource(s, answered) ==
    /\ pc[s] = "create"
    /\ mr' = [mr EXCEPT ![s] =
                 [phase   |-> IF @.phase = "Absent" THEN "Present" ELSE @.phase,
                  objects |-> Objects(run[s])]]
    /\ Goto(s, IF answered THEN "patch" ELSE "failed")
    /\ UNCHANGED <<seedVars, ext, installed, additional, queue, infraEvent, run,
                   stale, changes>>

\* Variant: the state is written once and never updated.
PatchStatusOnce(s) ==
    /\ pc[s] = "patch"
    /\ ext' = [ext EXCEPT ![s].istioNamespace = IF @ = None THEN run[s].namespace ELSE @]
    /\ queue' = IF UpdatePasses(ext[s]) THEN queue \cup {s} ELSE queue
    /\ Goto(s, "success")
    /\ UNCHANGED <<seedVars, mr, installed, additional, infraEvent, run, stale,
                   changes, faults>>

\* Variant: the selector is recorded in place of the namespace.
PatchStatusWithLabels(s) ==
    /\ pc[s] = "patch"
    /\ ext' = [ext EXCEPT ![s].istioNamespace = run[s].labels]
    /\ queue' = IF UpdatePasses(ext[s]) THEN queue \cup {s} ELSE queue
    /\ Goto(s, "success")
    /\ UNCHANGED <<seedVars, mr, installed, additional, infraEvent, run, stale,
                   changes, faults>>

\* updateStatus.
PatchStatus(s) ==
    /\ pc[s] = "patch"
    /\ ext' = [ext EXCEPT ![s].istioNamespace = run[s].namespace]
    /\ queue' = IF UpdatePasses(ext[s]) THEN queue \cup {s} ELSE queue
    /\ Goto(s, "success")
    /\ UNCHANGED <<seedVars, mr, installed, additional, infraEvent, run, stale,
                   changes, faults>>

-----------------------------------------------------------------------------
(* The actuator: Delete (Migrate and ForceDelete call it) *)

\* Variant: the Secret is deleted, the ManagedResource is forgotten.
DeleteSecretOnly(s, answered) ==
    /\ pc[s] = "delete"
    /\ Goto(s, IF answered THEN "wait" ELSE "failed")
    /\ UNCHANGED <<seedVars, ext, mr, installed, additional, queue, infraEvent, run,
                   stale, changes>>

\* managedresources.Delete; one that is gone already is no error.
DeleteManagedResource(s, answered) ==
    /\ pc[s] = "delete"
    /\ mr' = [mr EXCEPT ![s].phase = IF @ = "Present" THEN "Deleting" ELSE @]
    /\ Goto(s, IF answered THEN "wait" ELSE "failed")
    /\ UNCHANGED <<seedVars, ext, installed, additional, queue, infraEvent, run,
                   stale, changes>>

\* Variant: the deletion is not waited for.
NotWaitUntilDeleted(s) ==
    /\ pc[s] = "wait"
    /\ Goto(s, "success")
    /\ UNCHANGED <<restVars, run>>

\* Variant: the ManagedResource of some other namespace is waited for.
WaitUntilSomeDeleted(s) ==
    /\ pc[s] = "wait"
    /\ \E t \in Shoots : mr[t].phase = "Absent"
    /\ Goto(s, "success")
    /\ UNCHANGED <<restVars, run>>

\* WaitUntilDeleted polls until the ManagedResource is gone ...
WaitUntilDeleted(s) ==
    /\ pc[s] = "wait"
    /\ mr[s].phase = "Absent"
    /\ Goto(s, "success")
    /\ UNCHANGED <<restVars, run>>

\* Variant: the timeout is no error.
DeletionTimeoutIgnored(s) ==
    /\ pc[s] = "wait"
    /\ mr[s].phase # "Absent"
    /\ Goto(s, "success")
    /\ UNCHANGED <<restVars, run>>

\* ... or deletionTimeout has passed.
DeletionTimeout(s) ==
    /\ pc[s] = "wait"
    /\ mr[s].phase # "Absent"
    /\ Goto(s, "failed")
    /\ UNCHANGED <<restVars, run>>

-----------------------------------------------------------------------------
(* Failures of the controller *)

\* Any API call of the actuator may fail, the writes with or without effect.
ApiError(s) ==
    /\ faults < MaxFaults
    /\ faults' = faults + 1
    /\ \/ /\ pc[s] \in ReconcilePoints \cup DeletePoints
          /\ Goto(s, "failed")
          /\ UNCHANGED <<mr, run, seedVars, ext, installed, additional, queue,
                         infraEvent, stale, changes>>
       \/ CreateManagedResource(s, FALSE)
       \/ DeleteManagedResource(s, FALSE)

\* A new process, perhaps with another configuration, takes over: workers,
\* queue and undelivered events are gone.  It lists the Extensions; the list
\* of the Infrastructures wakes nobody up, CreateFunc returns false.
Restart ==
    /\ faults < MaxFaults
    /\ faults' = faults + 1
    /\ additional' \in AdditionalCIDRs
    /\ queue' = {s \in Shoots : CreatePasses(ext[s])}
    /\ stale' = [s \in Shoots |->
                    stale[s]
                    \cup (IF additional' # additional THEN {"unwatched"} ELSE {})
                    \cup (IF infraEvent[s] \/ s \in queue THEN {"missed"} ELSE {})]
    /\ infraEvent' = [s \in Shoots |-> FALSE]
    /\ pc' = [s \in Shoots |-> "idle"]
    /\ run' = [s \in Shoots |-> NoRun]
    /\ UNCHANGED <<seedVars, objectVars, changes>>

-----------------------------------------------------------------------------
(* gardenlet and users, through the Extension resource (external) *)

Change == changes < MaxChanges /\ changes' = changes + 1

\* An update of the Extension and the event it causes.
Write(s, e) ==
    /\ ext' = [ext EXCEPT ![s] = e]
    /\ queue' = IF UpdatePasses(e) THEN queue \cup {s} ELSE queue
    /\ UNCHANGED <<seedVars, mr, installed, additional, infraEvent, workVars, stale, faults>>

CreateExtension(s) ==
    /\ Change
    /\ ext[s].phase = "Absent"
    /\ \E config \in ProviderConfigs, operation \in {"reconcile", "restore"} :
          Write(s, [NoExtension EXCEPT !.phase = "Live", !.config = config,
                                       !.operation = operation])

\* gardenlet asks for a reconciliation, with a new or the same config.  It
\* does not interrupt a migration or a restore it has asked for.
ReconcileExtension(s) ==
    /\ Change
    /\ ext[s].phase = "Live"
    /\ ext[s].operation \notin {"migrate", "restore"}
    /\ ext[s].lastOp # "Migrated"
    /\ \E config \in ProviderConfigs :
          Write(s, [ext[s] EXCEPT !.config = config, !.operation = "reconcile"])

\* Only a control plane that has been deployed is migrated.
MigrateExtension(s) ==
    /\ Change
    /\ ext[s].phase = "Live" /\ ext[s].finalizer
    /\ ext[s].operation \notin {"migrate", "restore"}
    /\ Write(s, [ext[s] EXCEPT !.operation = "migrate"])

\* Without a finalizer the object is gone at once.
DeleteExtension(s) ==
    /\ Change
    /\ ext[s].phase = "Live"
    /\ Write(s, IF ext[s].finalizer THEN [ext[s] EXCEPT !.phase = "Deleting"]
                                    ELSE NoExtension)

-----------------------------------------------------------------------------
(* The objects the controller reads (external) *)

\* A change nothing tells the controller about, for the shoots in S.
Unwatched(S) ==
    /\ Change
    /\ stale' = [s \in Shoots |-> IF s \in S THEN stale[s] \cup {"unwatched"} ELSE stale[s]]
    /\ UNCHANGED <<objectVars, additional, queue, infraEvent, workVars, faults>>

ChangeCluster(s) ==
    /\ \E c \in ClusterStates[s] \ {cluster[s]} : cluster' = [cluster EXCEPT ![s] = c]
    /\ Unwatched({s})
    /\ UNCHANGED <<gateway, deployments, infra, service, shootInfo, ingressGateway>>

ChangeGateway(s) ==
    /\ \E g \in Gateways \ {gateway[s]} : gateway' = [gateway EXCEPT ![s] = g]
    /\ Unwatched({s})
    /\ UNCHANGED <<cluster, deployments, infra, service, shootInfo, ingressGateway>>

\* Istio ingress gateways are set up, moved or removed; several of them with
\* the same labels may even run in one namespace.
ChangeDeployments(l) ==
    /\ \E d \in DeploymentLists[l] \ {deployments[l]} :
          deployments' = [deployments EXCEPT ![l] = d]
    /\ Unwatched({s \in Shoots : gateway[s] = l})
    /\ UNCHANGED <<cluster, gateway, infra, service, shootInfo, ingressGateway>>

ChangeService(ns) ==
    /\ \E x \in ServiceStates \ {service[ns]} : service' = [service EXCEPT ![ns] = x]
    /\ Unwatched(Shoots)
    /\ UNCHANGED <<cluster, gateway, deployments, infra, shootInfo, ingressGateway>>

ChangeShootInfo ==
    /\ shootInfo' \in ShootInfos \ {shootInfo}
    /\ Unwatched(Shoots)
    /\ UNCHANGED <<cluster, gateway, deployments, infra, service, ingressGateway>>

ChangeIngressGateway ==
    /\ ingressGateway' \in IngressGateways \ {ingressGateway}
    /\ Unwatched(Shoots)
    /\ UNCHANGED <<cluster, gateway, deployments, infra, service, shootInfo>>

\* Variant: only added CIDRs count as a change.
EgressCIDRsAdded(old, new) ==
    old # None /\ new # None /\ ToSet(new) \ ToSet(old) # {}

\* infrastructurePredicate: only an update that changes the egress CIDRs, in
\* whatever order they are listed, is an event for the Extension.
EgressCIDRsChanged(old, new) ==
    old # None /\ new # None /\ ToBag(old) # ToBag(new)

ChangeInfrastructure(s) ==
    /\ Change
    /\ \E i \in EgressLists \ {infra[s]} :
          /\ infra' = [infra EXCEPT ![s] = i]
          /\ infraEvent' = [infraEvent EXCEPT ![s] = @ \/ EgressCIDRsChanged(infra[s], i)]
          /\ stale' = [stale EXCEPT ![s] = IF infra[s] = None \/ i = None
                                           THEN @ \cup {"unwatched"} ELSE @]
    /\ UNCHANGED <<cluster, gateway, deployments, service, shootInfo, ingressGateway,
                   objectVars, additional, queue, workVars, faults>>

\* Variant: the Infrastructure is mapped to an Extension "acl" of any namespace.
DeliverToAnyNamespace(s) ==
    /\ infraEvent[s]
    /\ infraEvent' = [infraEvent EXCEPT ![s] = FALSE]
    /\ \E t \in Shoots : queue' = queue \cup {t}
    /\ UNCHANGED <<seedVars, objectVars, additional, workVars, stale, changes, faults>>

\* watchInfrastructure maps the Infrastructure to the Extension "acl" in its
\* namespace.
DeliverInfrastructureEvent(s) ==
    /\ infraEvent[s]
    /\ infraEvent' = [infraEvent EXCEPT ![s] = FALSE]
    /\ queue' = queue \cup {s}
    /\ UNCHANGED <<seedVars, objectVars, additional, workVars, stale, changes, faults>>

-----------------------------------------------------------------------------
(* gardener-resource-manager (external) applies, prunes and deletes the     *)
(* objects of a ManagedResource one at a time; nothing is assumed about the *)
(* order of applying and pruning.                                           *)

SameObject(o, p) == o.kind = p.kind /\ o.namespace = p.namespace

GrmUnchanged ==
    UNCHANGED <<seedVars, ext, additional, queue, infraEvent, workVars, stale, changes, faults>>

GrmApply(s) ==
    /\ mr[s].phase = "Present"
    /\ \E o \in mr[s].objects \ installed[s] :
          installed' = [installed EXCEPT ![s] = {p \in @ : ~ SameObject(o, p)} \cup {o}]
    /\ UNCHANGED mr
    /\ GrmUnchanged

GrmPrune(s) ==
    /\ mr[s].phase = "Present"
    /\ \E o \in installed[s] :
          /\ \A p \in mr[s].objects : ~ SameObject(o, p)
          /\ installed' = [installed EXCEPT ![s] = @ \ {o}]
    /\ UNCHANGED mr
    /\ GrmUnchanged

GrmDelete(s) ==
    /\ mr[s].phase = "Deleting"
    /\ IF installed[s] = {}
       THEN /\ mr' = [mr EXCEPT ![s] = NoManagedResource]
            /\ UNCHANGED installed
       ELSE /\ \E o \in installed[s] : installed' = [installed EXCEPT ![s] = @ \ {o}]
            /\ UNCHANGED mr
    /\ GrmUnchanged

-----------------------------------------------------------------------------
Reconcile(s) ==
    \/ GetCluster(s) \/ GetGateway(s) \/ ListDeployments(s) \/ GetService(s)
    \/ GetShootInfo(s) \/ GetInfrastructure(s) \/ GetIngressGateway(s)
    \/ (CreateManagedResource(s, TRUE) /\ UNCHANGED faults)
    \/ PatchStatus(s)

Delete(s) ==
    \/ (DeleteManagedResource(s, TRUE) /\ UNCHANGED faults)
    \/ WaitUntilDeleted(s) \/ DeletionTimeout(s)

Finish(s) == Succeed(s) \/ Release(s) \/ Fail(s)

Grm(s) == GrmApply(s) \/ GrmPrune(s) \/ GrmDelete(s)

Gardenlet(s) ==
    \/ CreateExtension(s) \/ ReconcileExtension(s)
    \/ MigrateExtension(s) \/ DeleteExtension(s)

SeedChange(s) == ChangeCluster(s) \/ ChangeGateway(s) \/ ChangeInfrastructure(s)

SharedChange ==
    \/ \E l \in Selectors : ChangeDeployments(l)
    \/ \E ns \in Namespaces : ChangeService(ns)
    \/ ChangeShootInfo \/ ChangeIngressGateway

Next ==
    \/ \E s \in Shoots :
          \/ Dequeue(s) \/ Reconcile(s) \/ Delete(s) \/ Finish(s) \/ ApiError(s)
          \/ DeliverInfrastructureEvent(s) \/ Grm(s) \/ Gardenlet(s) \/ SeedChange(s)
    \/ SharedChange
    \/ Restart

Spec == Init /\ [][Next]_vars

\* The worker pool runs what it has begun and the FIFO queue passes no ready
\* key over for ever; the informers deliver; GRM reconciles.
Fairness ==
    \A s \in Shoots :
        /\ SF_vars(Dequeue(s))
        /\ WF_vars(Reconcile(s) \/ Delete(s) \/ Finish(s))
        /\ WF_vars(DeliverInfrastructureEvent(s))
        /\ WF_vars(Grm(s))

FairSpec == Spec /\ Fairness

-----------------------------------------------------------------------------
(* Safety *)

Migrating(s) == ext[s].operation = "migrate"

\* The last request for s has been served and nothing is under way.
Settled(s) ==
    /\ ext[s].phase = "Live" /\ ext[s].lastOp = "Succeeded"
    /\ ext[s].operation = "none"
    /\ pc[s] = "idle" /\ s \notin queue /\ ~ infraEvent[s]

\* What the seed calls for at this moment, computed from the objects at once
\* and not by the controller's steps.
DesiredAllowed(s, ns) ==
    SeedNetworks \cup additional
    \cup (IF service[ns] = "Proxy" /\ shootInfo # None THEN ToSet(shootInfo.cidrs) ELSE {})
    \cup (IF s \in Workerless THEN {} ELSE cluster[s].nodes \cup ToSet(infra[s]))

Desired(s, ns) ==
    Objects([config |-> ext[s].config, cluster |-> cluster[s], namespace |-> ns,
             labels |-> gateway[s], allowed |-> DesiredAllowed(s, ns),
             defaultLabels |-> ingressGateway])

\* When a request has been served without an error, and no input nobody
\* watches has changed since, the ManagedResource holds what the seed calls for
\* now, although Reconcile reads its nine inputs one after the other
\* (actuator.go:109).  Hibernated shoots without a Gateway are left alone.
UpToDateWhenSettled ==
    \A s \in Shoots : Settled(s) /\ stale[s] = {} /\ gateway[s] # None =>
        /\ mr[s].phase = "Present"
        /\ \E ns \in Namespaces :
              deployments[gateway[s]] = <<ns>> /\ mr[s].objects = Desired(s, ns)

\* No ManagedResource and no filter stays behind without an Extension whose
\* finalizer makes the controller clean it up, whatever fails or restarts in
\* whichever step (actuator.go:187, 344; the finalizer goes last).
NoOrphanFilters ==
    \A s \in Shoots : mr[s].phase # "Absent" \/ installed[s] # {} =>
        ext[s].phase # "Absent" /\ ext[s].finalizer

\* The namespace in the Extension's state is the one its filters are in: the
\* ManagedResource and the status are two writes (actuator.go:187, 204).  A
\* shoot hibernated after only the first of them keeps the older record.
RecordedNamespaceMatches ==
    \A s \in Shoots : Settled(s) /\ stale[s] = {} /\ gateway[s] # None =>
        \A o \in mr[s].objects : o.kind # "ingress" => o.namespace = ext[s].istioNamespace

\* Reconcile never writes a ManagedResource that is being deleted: GRM would
\* tear down filters the run reports as deployed.
CreateNeverRacesDeletion ==
    \A s \in Shoots : pc[s] = "create" => mr[s].phase # "Deleting"

\* A rule the controller rejects never reaches the seed, and does not replace
\* the filters of the rule before it by those of half a rule.
OnlyValidRules ==
    \A s \in Shoots : \A o \in mr[s].objects \cup installed[s] :
        o.rule # Malformed /\ ValidateExtensionSpec(o.rule, MaxAllowedCIDRs)

\* The filters are torn down only for an Extension that is being deleted or
\* migrated; hibernation, an invalid config or a vanished Gateway keep them.
TornDownOnRequest ==
    [][\A s \in Shoots : mr[s].phase = "Present" /\ mr'[s].phase # "Present" =>
          ext[s].phase = "Deleting" \/ Migrating(s)]_vars

\* "We want to reconcile if the EgressCIDRs of the Infrastructure changed"
\* (add.go:84): once settled, the filters admit the egress CIDRs of now.
EgressChangesReconciled ==
    \A s \in Shoots :
        /\ Settled(s) /\ "unwatched" \notin stale[s]
        /\ s \notin Workerless /\ gateway[s] # None
        => \A o \in mr[s].objects : ToSet(infra[s]) \subseteq o.allowed

-----------------------------------------------------------------------------
(* Liveness *)

\* What makes every reconciliation of s fail.
Blocked(s) ==
    \/ ext[s].config = Malformed
    \/ ~ ValidateExtensionSpec(ext[s].config, MaxAllowedCIDRs)
    \/ IF gateway[s] = None THEN ~ cluster[s].hibernated
       ELSE \/ cluster[s].advertised = <<>>
            \/ \A ns \in Namespaces : deployments[gateway[s]] # <<ns>>
            \/ s \notin Workerless /\ infra[s] = None
            \/ /\ \E ns \in ToSet(deployments[gateway[s]]) : service[ns] = "Proxy"
               /\ shootInfo # None
               /\ ~ (shootInfo.hasKey /\ ToSet(shootInfo.cidrs) \subseteq Cidr)

\* Whatever failed before, an Extension nothing blocks gets settled: a failed
\* run is retried, and a hibernated shoot does not wait for a Gateway.
EventuallySettled ==
    \A s \in Shoots :
        <>[](ext[s].phase = "Live" /\ ext[s].lastOp # "Migrated" /\ ~ Blocked(s))
            => []<>Settled(s)

\* Then the seed gets the filters the ManagedResource holds.
EventuallyInstalled ==
    \A s \in Shoots :
        <>[](Settled(s) /\ stale[s] = {} /\ gateway[s] # None)
            => <>[](\E ns \in Namespaces : installed[s] = Desired(s, ns))

\* An Extension that is deleted or migrated away lets go of its finalizer,
\* however often the deletion times out or fails, and leaves no filter.
DeletionCompletes ==
    \A s \in Shoots :
        ext[s].phase = "Deleting" \/ Migrating(s) ~>
            ~ ext[s].finalizer /\ mr[s].phase = "Absent" /\ installed[s] = {}
=============================================================================
