------------------------ MODULE AclExtension_proofs -------------------------
(***************************************************************************)
(* Type correctness and clean-up of the ACL extension controller, for any  *)
(* number of shoots, any values of the inputs and any number of changes,   *)
(* failures and restarts.                                                  *)
(***************************************************************************)
EXTENDS AclExtension, TLAPS

-----------------------------------------------------------------------------
(* Types *)

AfterGateway == {"deployments", "service", "shootInfo", "infrastructure",
                 "ingressGateway", "create", "patch"}
AfterDeployments == AfterGateway \ {"deployments"}

\* What a worker with locals r has read by the time it is at a point.
ReadAt(point, r) ==
    /\ point \in ReconcilePoints => r.config \in ProviderConfigs
    /\ point \in ReconcilePoints \ {"cluster"} => r.cluster \in Cluster
    /\ point \in AfterGateway => r.labels \in Selectors
    /\ point \in AfterDeployments => r.namespace \in Namespaces

ReadInv ==
    \A s \in Shoots :
        /\ ext[s].phase # "Absent" => ext[s].config \in ProviderConfigs
        /\ ReadAt(pc[s], run[s])

\* TypeOK is inductive with it.
TypeInv == TypeOK /\ ReadInv

LEMMA SeqElements ==
    ASSUME NEW S, NEW q \in Seq(S)
    PROVE  ToSet(q) \subseteq S
BY DEF ToSet

LEMMA ObjectsType ==
    ASSUME NEW r, r.cluster \in Cluster, r.config \in ProviderConfigs,
           r.namespace \in Namespaces, r.labels \in Selectors,
           r.allowed \in SUBSET STRING, r.defaultLabels \in Selectors \cup {None}
    PROVE  Objects(r) \in SUBSET Object
<1>1. r.cluster.advertised \in Seq(STRING)
  BY DEF Cluster
<1>2. ASSUME NEW o \in Objects(r)
      PROVE  o \in Object
  <2>1. PICK kind \in Kinds, ns \in Namespaces \cup {"istio-ingress"},
             labels \in Selectors :
           o = [kind |-> kind, namespace |-> ns, labels |-> labels,
                hosts |-> r.cluster.advertised, rule |-> r.config,
                allowed |-> r.allowed]
    BY DEF Objects, Kinds
  <2> QED
    BY <1>1, <2>1 DEF Object
<1> QED
  BY <1>2

LEMMA EmptyTypes ==
    /\ NoExtension \in Extension
    /\ NoManagedResource \in ManagedResource
    /\ NoRun \in Run
<1>1. NoExtension \in Extension
  BY DEF NoExtension, Extension
<1>2. NoManagedResource \in ManagedResource
  BY DEF NoManagedResource, ManagedResource
<1>3. NoRun \in Run
  BY DEF NoRun, Run
<1> QED
  BY <1>1, <1>2, <1>3

LEMMA InitType == Init => TypeInv
<1> SUFFICES ASSUME Init PROVE TypeInv
  OBVIOUS
<1> USE DEF Init
<1>1. cluster \in [Shoots -> Cluster]
  BY ValuesAssumption DEF Cluster
<1>2. SeedType
  <2>1. gateway \in [Shoots -> Selectors \cup {None}]
    BY ValuesAssumption
  <2>2. infra \in [Shoots -> Seq(STRING) \cup {None}]
    BY ValuesAssumption
  <2>3. service \in [Namespaces -> {"NotFound", "VIP", "Proxy"}]
    BY ValuesAssumption
  <2>4. shootInfo \in [hasKey : BOOLEAN, cidrs : Seq(STRING)] \cup {None}
    BY ValuesAssumption
  <2>5. ingressGateway \in Selectors \cup {None}
    BY ValuesAssumption
  <2>6. deployments \in [Selectors -> Seq(Namespaces)]
    BY ValuesAssumption
  <2> QED BY <1>1, <2>1, <2>2, <2>3, <2>4, <2>5, <2>6 DEF SeedType
<1>3. ObjectType
  BY EmptyTypes DEF ObjectType
<1>4. ControllerType
  BY ValuesAssumption DEF ControllerType
<1>5. WorkerType
  BY EmptyTypes DEF WorkerType, Points
<1>6. BookType
  BY BoundsAssumption DEF BookType
<1>7. ReadInv
  BY DEF ReadInv, ReadAt, NoExtension, ReconcilePoints, ReadPoints,
         AfterGateway, AfterDeployments
<1> QED
  BY <1>2, <1>3, <1>4, <1>5, <1>6, <1>7 DEF TypeInv, TypeOK

\* Parts of the state that stay as they are keep their type.
LEMMA UnchangedTypes ==
    /\ SeedType /\ UNCHANGED seedVars => SeedType'
    /\ ObjectType /\ UNCHANGED objectVars => ObjectType'
    /\ ControllerType /\ UNCHANGED <<additional, queue, infraEvent>> => ControllerType'
    /\ WorkerType /\ UNCHANGED workVars => WorkerType'
    /\ BookType /\ UNCHANGED <<stale, changes, faults>> => BookType'
BY DEF SeedType, seedVars, ObjectType, objectVars, ControllerType, WorkerType,
       workVars, BookType

LEMMA RunFields ==
    ASSUME NEW r \in Run
    PROVE  /\ \A c \in Cluster : [r EXCEPT !.cluster = c] \in Run
           /\ \A l \in Selectors \cup {None} : [r EXCEPT !.labels = l] \in Run
           /\ \A l \in Selectors \cup {None} : [r EXCEPT !.defaultLabels = l] \in Run
           /\ \A a \in SUBSET STRING : [r EXCEPT !.allowed = a] \in Run
           /\ \A ns \in Namespaces, a \in SUBSET STRING :
                 [r EXCEPT !.namespace = ns, !.allowed = a] \in Run
BY DEF Run

\* A step of one worker that writes nothing else.
LEMMA WorkerStep ==
    ASSUME TypeInv, NEW s \in Shoots, UNCHANGED restVars,
           NEW point \in Points, pc' = [pc EXCEPT ![s] = point],
           NEW r \in Run, run' = [run EXCEPT ![s] = r], ReadAt(point, r)
    PROVE  TypeInv'
<1>1. SeedType' /\ ObjectType' /\ ControllerType' /\ BookType'
  BY UnchangedTypes DEF TypeInv, TypeOK, restVars
<1>2. WorkerType'
  BY DEF TypeInv, TypeOK, WorkerType
<1>3. ReadInv'
  <2> SUFFICES ASSUME NEW t \in Shoots
               PROVE  /\ ext'[t].phase # "Absent" => ext'[t].config \in ProviderConfigs
                      /\ ReadAt(pc'[t], run'[t])
    BY DEF ReadInv, ReadAt
  <2>1. ext' = ext
    BY DEF restVars, objectVars
  <2>2. ReadAt(pc'[t], run'[t])
    <3>1. CASE t = s
      BY <3>1 DEF TypeInv, TypeOK, WorkerType
    <3>2. CASE t # s
      BY <3>2 DEF TypeInv, TypeOK, WorkerType, ReadInv
    <3> QED BY <3>1, <3>2
  <2> QED
    BY <2>1, <2>2 DEF TypeInv, ReadInv
<1> QED
  BY <1>1, <1>2, <1>3 DEF TypeInv, TypeOK

LEMMA GetClusterType ==
    ASSUME TypeInv, NEW s \in Shoots, GetCluster(s)
    PROVE  TypeInv'
<1> DEFINE r == [run[s] EXCEPT !.cluster = cluster[s]]
<1>1. run[s] \in Run /\ cluster[s] \in Cluster
  BY DEF TypeInv, TypeOK, SeedType, WorkerType
<1>2. r \in Run /\ r.cluster = cluster[s] /\ r.config = run[s].config
  BY <1>1, RunFields DEF Run
<1>3. run' = [run EXCEPT ![s] = r] /\ UNCHANGED restVars
  BY DEF GetCluster
<1>4. run[s].config \in ProviderConfigs
  BY DEF TypeInv, ReadInv, ReadAt, GetCluster, ReconcilePoints, ReadPoints
<1>5. PICK point \in {"gateway", "failed"} : pc' = [pc EXCEPT ![s] = point]
  BY DEF GetCluster, Goto
<1>6. ReadAt(point, r)
  BY <1>1, <1>2, <1>4 DEF ReadAt, ReconcilePoints, ReadPoints, AfterGateway,
     AfterDeployments
<1>7. point \in Points
  BY DEF Points, ReconcilePoints, ReadPoints, FinishPoints
<1> QED
  BY <1>2, <1>3, <1>5, <1>6, <1>7, WorkerStep

LEMMA GetGatewayType ==
    ASSUME TypeInv, NEW s \in Shoots, GetGateway(s)
    PROVE  TypeInv'
<1> DEFINE r == [run[s] EXCEPT !.labels = gateway[s]]
<1>1. run[s] \in Run /\ gateway[s] \in Selectors \cup {None}
  BY DEF TypeInv, TypeOK, SeedType, WorkerType
<1>2. /\ r \in Run /\ r.labels = gateway[s]
      /\ r.config = run[s].config /\ r.cluster = run[s].cluster
  BY <1>1, RunFields DEF Run
<1>3. run' = [run EXCEPT ![s] = r] /\ UNCHANGED restVars
  BY DEF GetGateway
<1>4. run[s].config \in ProviderConfigs /\ run[s].cluster \in Cluster
  BY DEF TypeInv, ReadInv, ReadAt, GetGateway, ReconcilePoints, ReadPoints
<1>5. PICK point \in {"deployments", "success", "failed"} :
        /\ pc' = [pc EXCEPT ![s] = point]
        /\ point = "deployments" => gateway[s] # None
  BY DEF GetGateway, Goto
<1>6. ReadAt(point, r)
  BY <1>1, <1>2, <1>4, <1>5 DEF ReadAt, ReconcilePoints, ReadPoints,
     AfterGateway, AfterDeployments
<1>7. point \in Points
  BY DEF Points, ReconcilePoints, ReadPoints, FinishPoints
<1> QED
  BY <1>2, <1>3, <1>5, <1>6, <1>7, WorkerStep

LEMMA ListDeploymentsType ==
    ASSUME TypeInv, NEW s \in Shoots, ListDeployments(s)
    PROVE  TypeInv'
<1>1. run[s] \in Run /\ UNCHANGED restVars
  BY DEF TypeInv, TypeOK, WorkerType, ListDeployments
<1>2. /\ run[s].config \in ProviderConfigs /\ run[s].cluster \in Cluster
      /\ run[s].labels \in Selectors
  BY DEF TypeInv, ReadInv, ReadAt, ListDeployments, ReconcilePoints, ReadPoints,
     AfterGateway
<1>3. CASE pc' = [pc EXCEPT ![s] = "failed"] /\ UNCHANGED run
  <2>1. run' = [run EXCEPT ![s] = run[s]]
    BY <1>3 DEF TypeInv, TypeOK, WorkerType
  <2>2. "failed" \in Points /\ ReadAt("failed", run[s])
    BY DEF Points, FinishPoints, ReadAt, ReconcilePoints, ReadPoints,
       AfterGateway, AfterDeployments
  <2> QED
    BY <1>1, <1>3, <2>1, <2>2, WorkerStep
<1>4. CASE /\ pc' = [pc EXCEPT ![s] = "service"]
           /\ \E ns \in Namespaces :
                 run' = [run EXCEPT ![s].namespace = ns, ![s].allowed = SeedNetworks]
  <2>1. PICK ns \in Namespaces :
           run' = [run EXCEPT ![s].namespace = ns, ![s].allowed = SeedNetworks]
    BY <1>4
  <2> DEFINE r == [run[s] EXCEPT !.namespace = ns, !.allowed = SeedNetworks]
  <2>2. /\ r \in Run /\ r.namespace = ns
        /\ r.config = run[s].config /\ r.cluster = run[s].cluster
        /\ r.labels = run[s].labels
    BY <1>1, RunFields, ShootsAssumption DEF Run
  <2>3. run' = [run EXCEPT ![s] = r]
    BY <2>1 DEF TypeInv, TypeOK, WorkerType
  <2>4. "service" \in Points /\ ReadAt("service", r)
    BY <1>2, <2>2 DEF Points, ReadAt, ReconcilePoints, ReadPoints
  <2> QED
    BY <1>1, <1>4, <2>2, <2>3, <2>4, WorkerStep
<1> QED
  BY <1>3, <1>4 DEF ListDeployments, Goto

\* Past the Deployments, a worker only adds CIDRs, moves on or gives up.
LEMMA AllowStep ==
    ASSUME TypeInv, NEW s \in Shoots, UNCHANGED restVars,
           pc[s] \in AfterDeployments,
           NEW cidrs \in SUBSET STRING, run' = [run EXCEPT ![s].allowed = @ \cup cidrs],
           NEW point \in AfterDeployments, pc' = [pc EXCEPT ![s] = point]
    PROVE  TypeInv'
<1> DEFINE r == [run[s] EXCEPT !.allowed = @ \cup cidrs]
<1>1. run[s] \in Run /\ run[s].allowed \cup cidrs \in SUBSET STRING
  BY DEF TypeInv, TypeOK, WorkerType, Run
<1>2. /\ r \in Run /\ r.namespace = run[s].namespace
      /\ r.config = run[s].config /\ r.cluster = run[s].cluster
      /\ r.labels = run[s].labels
  BY <1>1, RunFields DEF Run
<1>3. run' = [run EXCEPT ![s] = r]
  BY DEF TypeInv, TypeOK, WorkerType
<1>4. point \in Points /\ ReadAt(point, r)
  BY <1>2 DEF TypeInv, ReadInv, ReadAt, Points, ReconcilePoints, ReadPoints,
     AfterGateway, AfterDeployments
<1> QED
  BY <1>2, <1>3, <1>4, WorkerStep

\* A step that leaves Reconcile keeps the locals until they are cleared.
LEMMA StayStep ==
    ASSUME TypeInv, NEW s \in Shoots, UNCHANGED <<restVars, run>>,
           NEW point \in Points \ ReconcilePoints, pc' = [pc EXCEPT ![s] = point]
    PROVE  TypeInv'
<1>1. run[s] \in Run /\ run' = [run EXCEPT ![s] = run[s]]
  BY DEF TypeInv, TypeOK, WorkerType
<1>2. ReadAt(point, run[s])
  BY DEF ReadAt, ReconcilePoints, ReadPoints, AfterGateway, AfterDeployments
<1> QED
  BY <1>1, <1>2, WorkerStep

LEMMA AllowSeedEgressType ==
    ASSUME TypeInv, NEW s \in Shoots, UNCHANGED restVars,
           pc[s] \in AfterDeployments, NEW cidrs \in SUBSET STRING,
           AllowSeedEgress(s, cidrs)
    PROVE  TypeInv'
<1>1. cidrs \cup additional \in SUBSET STRING
  BY DEF TypeInv, TypeOK, ControllerType
<1>2. run' = [run EXCEPT ![s].allowed = @ \cup (cidrs \cup additional)]
  BY DEF AllowSeedEgress
<1>3. PICK point \in {"ingressGateway", "infrastructure"} :
         pc' = [pc EXCEPT ![s] = point]
  BY DEF AllowSeedEgress, Goto
<1>4. point \in AfterDeployments
  BY DEF AfterDeployments, AfterGateway
<1> QED
  BY <1>1, <1>2, <1>3, <1>4, AllowStep

LEMMA GetServiceType ==
    ASSUME TypeInv, NEW s \in Shoots, GetService(s)
    PROVE  TypeInv'
<1>1. pc[s] \in AfterDeployments /\ UNCHANGED restVars
  BY DEF GetService, AfterDeployments, AfterGateway
<1>2. CASE Goto(s, "shootInfo") /\ UNCHANGED run
  <2>1. run' = [run EXCEPT ![s].allowed = @ \cup {}]
    BY <1>2 DEF TypeInv, TypeOK, WorkerType, Run
  <2>2. "shootInfo" \in AfterDeployments /\ pc' = [pc EXCEPT ![s] = "shootInfo"]
    BY <1>2 DEF Goto, AfterDeployments, AfterGateway
  <2>3. {} \in SUBSET STRING
    OBVIOUS
  <2> HIDE DEF AfterDeployments
  <2> QED
    BY <1>1, <2>1, <2>2, <2>3, AllowStep
<1>3. CASE AllowSeedEgress(s, {})
  BY <1>1, <1>3, AllowSeedEgressType
<1> QED
  BY <1>2, <1>3 DEF GetService

LEMMA GetShootInfoType ==
    ASSUME TypeInv, NEW s \in Shoots, GetShootInfo(s)
    PROVE  TypeInv'
<1>1. pc[s] \in AfterDeployments /\ UNCHANGED restVars
  BY DEF GetShootInfo, AfterDeployments, AfterGateway
<1>2. CASE AllowSeedEgress(s, {})
  BY <1>1, <1>2, AllowSeedEgressType
<1>3. CASE shootInfo # None /\ AllowSeedEgress(s, ToSet(shootInfo.cidrs))
  <2>1. shootInfo.cidrs \in Seq(STRING)
    BY <1>3 DEF TypeInv, TypeOK, SeedType
  <2>2. ToSet(shootInfo.cidrs) \in SUBSET STRING
    BY <2>1, SeqElements
  <2> QED
    BY <1>1, <1>3, <2>2, AllowSeedEgressType
<1>4. CASE Goto(s, "failed") /\ UNCHANGED run
  BY <1>1, <1>4, StayStep DEF Goto, Points, FinishPoints, ReconcilePoints, ReadPoints
<1> QED
  BY <1>2, <1>3, <1>4 DEF GetShootInfo

LEMMA GetInfrastructureType ==
    ASSUME TypeInv, NEW s \in Shoots, GetInfrastructure(s)
    PROVE  TypeInv'
<1>1. pc[s] \in AfterDeployments /\ UNCHANGED restVars
  BY DEF GetInfrastructure, AfterDeployments, AfterGateway
<1>2. CASE Goto(s, "failed") /\ UNCHANGED run
  BY <1>1, <1>2, StayStep DEF Goto, Points, FinishPoints, ReconcilePoints, ReadPoints
<1>3. CASE /\ infra[s] # None
           /\ run' = [run EXCEPT ![s].allowed =
                         @ \cup run[s].cluster.nodes \cup ToSet(infra[s])]
           /\ Goto(s, "ingressGateway")
  <2>0. run[s].cluster \in Cluster
    BY DEF TypeInv, ReadInv, ReadAt, GetInfrastructure, ReconcilePoints, ReadPoints
  <2>1. infra[s] \in Seq(STRING) /\ run[s].cluster.nodes \in SUBSET STRING
    BY <1>3, <2>0 DEF TypeInv, TypeOK, SeedType, Cluster
  <2> DEFINE cidrs == run[s].cluster.nodes \cup ToSet(infra[s])
  <2>2. cidrs \in SUBSET STRING
    BY <2>1, SeqElements
  <2>3. run' = [run EXCEPT ![s].allowed = @ \cup cidrs]
    BY <1>3
  <2>4. /\ "ingressGateway" \in AfterDeployments
        /\ pc' = [pc EXCEPT ![s] = "ingressGateway"]
    BY <1>3 DEF Goto, AfterDeployments, AfterGateway
  <2> QED
    BY <1>1, <2>2, <2>3, <2>4, AllowStep
<1> QED
  BY <1>2, <1>3 DEF GetInfrastructure

LEMMA GetIngressGatewayType ==
    ASSUME TypeInv, NEW s \in Shoots, GetIngressGateway(s)
    PROVE  TypeInv'
<1> DEFINE r == [run[s] EXCEPT !.defaultLabels = ingressGateway]
<1>1. run[s] \in Run /\ ingressGateway \in Selectors \cup {None}
  BY DEF TypeInv, TypeOK, SeedType, WorkerType
<1>2. /\ r \in Run /\ r.namespace = run[s].namespace
      /\ r.config = run[s].config /\ r.cluster = run[s].cluster
      /\ r.labels = run[s].labels
  BY <1>1, RunFields DEF Run
<1>3. /\ run' = [run EXCEPT ![s] = r] /\ UNCHANGED restVars
      /\ pc' = [pc EXCEPT ![s] = "create"]
  BY DEF GetIngressGateway, Goto
<1>4. "create" \in Points /\ ReadAt("create", r)
  BY <1>2 DEF TypeInv, ReadInv, ReadAt, GetIngressGateway, Points,
     ReconcilePoints, ReadPoints, AfterGateway, AfterDeployments
<1> QED
  BY <1>2, <1>3, <1>4, WorkerStep

\* The worker of s goes back to idle, or starts with locals r.
LEMMA RunSteps ==
    ASSUME TypeInv, NEW s \in Shoots, NEW point \in Points, NEW r \in Run,
           pc' = [pc EXCEPT ![s] = point], run' = [run EXCEPT ![s] = r],
           ReadAt(point, r)
    PROVE  WorkerType' /\ \A t \in Shoots : ReadAt(pc'[t], run'[t])
<1>1. WorkerType'
  BY DEF TypeInv, TypeOK, WorkerType
<1>2. ASSUME NEW t \in Shoots
      PROVE  ReadAt(pc'[t], run'[t])
  <2>1. CASE t = s
    BY <2>1 DEF TypeInv, TypeOK, WorkerType
  <2>2. CASE t # s
    BY <2>2 DEF TypeInv, TypeOK, WorkerType, ReadInv
  <2> QED BY <2>1, <2>2
<1> QED
  BY <1>1, <1>2

\* Points outside Reconcile ask nothing of the locals.
LEMMA ReadElsewhere ==
    ASSUME NEW point, point \notin ReconcilePoints, NEW r
    PROVE  ReadAt(point, r)
BY DEF ReadAt, ReconcilePoints, ReadPoints, AfterGateway, AfterDeployments

\* A write of one Extension, with whatever its worker does.
LEMMA ExtensionStep ==
    ASSUME TypeInv, NEW s \in Shoots, NEW e \in Extension,
           e.phase # "Absent" => e.config \in ProviderConfigs,
           ext' = [ext EXCEPT ![s] = e],
           queue' \in SUBSET Shoots,
           UNCHANGED <<seedVars, mr, installed, additional, infraEvent>>,
           BookType', WorkerType', \A t \in Shoots : ReadAt(pc'[t], run'[t])
    PROVE  TypeInv'
<1>1. SeedType'
  BY UnchangedTypes DEF TypeInv, TypeOK
<1>2. ObjectType'
  BY DEF TypeInv, TypeOK, ObjectType
<1>3. ControllerType'
  BY DEF TypeInv, TypeOK, ControllerType
<1>4. ReadInv'
  <2>1. ASSUME NEW t \in Shoots, ext'[t].phase # "Absent"
        PROVE  ext'[t].config \in ProviderConfigs
    BY <2>1 DEF TypeInv, TypeOK, ObjectType, ReadInv
  <2> QED
    BY <2>1 DEF ReadInv, ReadAt
<1> QED
  BY <1>1, <1>2, <1>3, <1>4 DEF TypeInv, TypeOK

LEMMA ExtensionFields ==
    ASSUME TypeInv, NEW s \in Shoots
    PROVE  /\ ext[s] \in Extension
           /\ ext[s].phase # "Absent" => ext[s].config \in ProviderConfigs
           /\ run[s] \in Run /\ pc[s] \in Points
           /\ queue \in SUBSET Shoots /\ queue \cup {s} \in SUBSET Shoots
           /\ queue \ {s} \in SUBSET Shoots
BY DEF TypeInv, TypeOK, ObjectType, WorkerType, ControllerType, ReadInv

LEMMA SucceedType ==
    ASSUME TypeInv, NEW s \in Shoots, Succeed(s)
    PROVE  TypeInv'
<1>1. PICK op \in {"Migrated", "Succeeded"} : ext' = [ext EXCEPT ![s].lastOp = op]
  BY DEF Succeed
<1> DEFINE e == [ext[s] EXCEPT !.lastOp = op]
<1>2. /\ e \in Extension /\ e.phase = ext[s].phase /\ e.config = ext[s].config
  BY ExtensionFields DEF Extension
<1>3. ext' = [ext EXCEPT ![s] = e]
  BY <1>1 DEF TypeInv, TypeOK, ObjectType
<1>4. PICK point \in {"idle", "release"}, r \in {NoRun, run[s]} :
         pc' = [pc EXCEPT ![s] = point] /\ run' = [run EXCEPT ![s] = r]
  BY DEF Succeed, TypeInv, TypeOK, WorkerType
<1>5. point \in Points /\ point \notin ReconcilePoints /\ r \in Run
  BY <1>4, EmptyTypes, ExtensionFields
     DEF Points, ReconcilePoints, ReadPoints, FinishPoints
<1>6. WorkerType' /\ \A t \in Shoots : ReadAt(pc'[t], run'[t])
  BY <1>4, <1>5, ReadElsewhere, RunSteps
<1>7. queue' \in SUBSET Shoots /\ BookType'
  BY UnchangedTypes, ExtensionFields DEF Succeed, TypeInv, TypeOK
<1> QED
  BY <1>2, <1>3, <1>6, <1>7, ExtensionFields, ExtensionStep DEF Succeed

LEMMA FailType ==
    ASSUME TypeInv, NEW s \in Shoots, Fail(s)
    PROVE  TypeInv'
<1> DEFINE e == [ext[s] EXCEPT !.lastOp = "Error"]
<1>1. /\ e \in Extension /\ e.phase = ext[s].phase /\ e.config = ext[s].config
  BY ExtensionFields DEF Extension
<1>2. ext' = [ext EXCEPT ![s] = e]
  BY DEF Fail, TypeInv, TypeOK, ObjectType
<1>3. "idle" \in Points /\ "idle" \notin ReconcilePoints
  BY DEF Points, ReconcilePoints, ReadPoints
<1>4. WorkerType' /\ \A t \in Shoots : ReadAt(pc'[t], run'[t])
  BY <1>3, EmptyTypes, ReadElsewhere, RunSteps DEF Fail
<1>5. queue' \in SUBSET Shoots /\ BookType'
  BY UnchangedTypes, ExtensionFields DEF Fail, TypeInv, TypeOK
<1> QED
  BY <1>1, <1>2, <1>4, <1>5, ExtensionFields, ExtensionStep DEF Fail

LEMMA ReleaseType ==
    ASSUME TypeInv, NEW s \in Shoots, Release(s)
    PROVE  TypeInv'
<1>1. PICK keep \in BOOLEAN, gone \in BOOLEAN :
         ext' = [ext EXCEPT ![s] =
                   IF gone THEN NoExtension
                   ELSE [ext[s] EXCEPT !.finalizer = keep, !.operation = "none"]]
  BY DEF Release
<1> DEFINE e == IF gone THEN NoExtension
                ELSE [ext[s] EXCEPT !.finalizer = keep, !.operation = "none"]
<1>2. e \in Extension /\ (e.phase # "Absent" => e.config \in ProviderConfigs)
  <2>1. CASE gone
    BY <2>1, EmptyTypes DEF NoExtension
  <2>2. CASE ~ gone
    <3>1. e = [ext[s] EXCEPT !.finalizer = keep, !.operation = "none"]
      BY <2>2
    <3>2. ext[s] \in Extension
      BY ExtensionFields
    <3> HIDE DEF e
    <3>3. e \in Extension /\ e.phase = ext[s].phase /\ e.config = ext[s].config
      BY <3>1, <3>2 DEF Extension
    <3> QED
      BY <3>3, ExtensionFields
  <2> QED BY <2>1, <2>2
<1>3. "idle" \in Points /\ "idle" \notin ReconcilePoints
  BY DEF Points, ReconcilePoints, ReadPoints
<1>4. WorkerType' /\ \A t \in Shoots : ReadAt(pc'[t], run'[t])
  BY <1>3, EmptyTypes, ReadElsewhere, RunSteps DEF Release
<1>5. queue' \in SUBSET Shoots /\ BookType'
  BY UnchangedTypes, ExtensionFields DEF Release, TypeInv, TypeOK
<1>6. UNCHANGED <<seedVars, mr, installed, additional, infraEvent>>
  BY DEF Release
<1> HIDE DEF e
<1> QED
  BY <1>1, <1>2, <1>4, <1>5, <1>6, ExtensionStep DEF e

LEMMA PatchStatusType ==
    ASSUME TypeInv, NEW s \in Shoots, PatchStatus(s)
    PROVE  TypeInv'
<1> DEFINE e == [ext[s] EXCEPT !.istioNamespace = run[s].namespace]
<1>1. /\ e \in Extension /\ e.phase = ext[s].phase /\ e.config = ext[s].config
  BY ExtensionFields DEF Extension, Run
<1>2. ext' = [ext EXCEPT ![s] = e]
  BY DEF PatchStatus, TypeInv, TypeOK, ObjectType
<1>3. "success" \in Points /\ "success" \notin ReconcilePoints
  BY DEF Points, FinishPoints, ReconcilePoints, ReadPoints
<1>4. run' = [run EXCEPT ![s] = run[s]] /\ pc' = [pc EXCEPT ![s] = "success"]
  BY DEF PatchStatus, Goto, TypeInv, TypeOK, WorkerType
<1>5. WorkerType' /\ \A t \in Shoots : ReadAt(pc'[t], run'[t])
  BY <1>3, <1>4, ExtensionFields, ReadElsewhere, RunSteps
<1>6. queue' \in SUBSET Shoots /\ BookType'
  BY UnchangedTypes, ExtensionFields DEF PatchStatus, TypeInv, TypeOK
<1> QED
  BY <1>1, <1>2, <1>5, <1>6, ExtensionFields, ExtensionStep DEF PatchStatus

LEMMA DequeueType ==
    ASSUME TypeInv, NEW s \in Shoots, Dequeue(s)
    PROVE  TypeInv'
<1>1. CASE Skipped(ext[s]) /\ queue' = queue \ {s} /\ UNCHANGED <<ext, workVars, stale>>
  <2>1. UNCHANGED <<seedVars, mr, installed, additional, infraEvent, changes, faults>>
    BY DEF Dequeue
  <2>2. SeedType' /\ ObjectType' /\ WorkerType' /\ BookType'
    BY <1>1, <2>1, UnchangedTypes DEF TypeInv, TypeOK, objectVars
  <2>3. ControllerType'
    BY <1>1, <2>1 DEF TypeInv, TypeOK, ControllerType
  <2>4. ReadInv'
    BY <1>1 DEF TypeInv, ReadInv, ReadAt, workVars
  <2> QED
    BY <2>2, <2>3, <2>4 DEF TypeInv, TypeOK
<1>2. CASE ~ Skipped(ext[s])
  <2> DEFINE op == Operation(ext[s])
             e  == [ext[s] EXCEPT
                      !.operation = IF @ = "reconcile" THEN "none" ELSE @,
                      !.finalizer = @ \/ op \in {"reconcile", "restore"},
                      !.lastOp    = "Processing"]
             r  == [NoRun EXCEPT !.op = op, !.config = e.config]
             point == IF op \in {"reconcile", "restore"} THEN "cluster" ELSE "delete"
  <2>1. /\ ext' = [ext EXCEPT ![s] = e]
        /\ run' = [run EXCEPT ![s] = r]
        /\ pc' = [pc EXCEPT ![s] = point]
        /\ queue' \in SUBSET Shoots
        /\ stale' = [stale EXCEPT ![s] = {}]
        /\ UNCHANGED <<seedVars, mr, installed, additional, infraEvent, changes, faults>>
    BY <1>2, ExtensionFields DEF Dequeue
  <2>2. op \in {"migrate", "delete", "restore", "reconcile"}
    BY DEF Operation
  <2>3. ext[s].phase # "Absent"
    BY <1>2 DEF Skipped
  <2>4. /\ e \in Extension /\ e.config \in ProviderConfigs
    <3>1. ext[s].finalizer \in BOOLEAN /\ ext[s].operation \in {"none", "reconcile", "migrate", "restore"}
      BY ExtensionFields DEF Extension
    <3>2. PICK o \in {"none", "reconcile", "migrate", "restore"}, f \in BOOLEAN :
             e = [ext[s] EXCEPT !.operation = o, !.finalizer = f, !.lastOp = "Processing"]
      <4> DEFINE o == IF ext[s].operation = "reconcile" THEN "none" ELSE ext[s].operation
                 f == ext[s].finalizer \/ op \in {"reconcile", "restore"}
      <4>1. o \in {"none", "reconcile", "migrate", "restore"}
        BY <3>1
      <4>2. f \in BOOLEAN
        BY <3>1
      <4>3. e = [ext[s] EXCEPT !.operation = o, !.finalizer = f, !.lastOp = "Processing"]
        OBVIOUS
      <4> HIDE DEF e, o, f
      <4> QED BY <4>1, <4>2, <4>3
    <3> HIDE DEF e
    <3>3. ext[s] \in Extension
      BY ExtensionFields
    <3>4. e \in Extension /\ e.config = ext[s].config
      BY <3>2, <3>3 DEF Extension
    <3> QED
      BY <2>3, <3>4, ExtensionFields
  <2>5. r \in Run /\ r.config = e.config
    <3> HIDE DEF op, e
    <3> QED BY <2>2, <2>4 DEF Run, NoRun
  <2>6. point \in Points /\ ReadAt(point, r)
    <3> HIDE DEF op, e, r
    <3> QED
      BY <2>4, <2>5 DEF Points, ReadAt, ReconcilePoints, ReadPoints, DeletePoints,
         AfterGateway, AfterDeployments
  <2> HIDE DEF op, e, r, point
  <2>7. WorkerType' /\ \A t \in Shoots : ReadAt(pc'[t], run'[t])
    BY <2>1, <2>5, <2>6, RunSteps
  <2>8. BookType'
    BY <2>1 DEF TypeInv, TypeOK, BookType
  <2> QED
    BY <2>1, <2>4, <2>7, <2>8, ExtensionStep
<1> QED
  BY <1>1, <1>2 DEF Dequeue

\* Steps that leave the Extensions alone and write s's ManagedResource or
\* filters.
LEMMA ManagedResourceStep ==
    ASSUME TypeInv, NEW s \in Shoots,
           NEW m \in ManagedResource, mr' = [mr EXCEPT ![s] = m],
           NEW o \in SUBSET Object, installed' = [installed EXCEPT ![s] = o],
           UNCHANGED <<seedVars, ext, additional, queue, infraEvent>>,
           BookType', WorkerType', \A t \in Shoots : ReadAt(pc'[t], run'[t])
    PROVE  TypeInv'
<1>1. SeedType' /\ ControllerType'
  BY UnchangedTypes DEF TypeInv, TypeOK
<1>2. ObjectType'
  BY DEF TypeInv, TypeOK, ObjectType
<1>3. ReadInv'
  BY DEF TypeInv, ReadInv, ReadAt
<1> QED
  BY <1>1, <1>2, <1>3 DEF TypeInv, TypeOK

LEMMA ManagedResourceFields ==
    ASSUME TypeInv, NEW s \in Shoots
    PROVE  /\ mr[s] \in ManagedResource /\ mr[s].objects \in SUBSET Object
           /\ mr[s].phase \in {"Absent", "Present", "Deleting"}
           /\ installed[s] \in SUBSET Object
           /\ installed' = installed => installed' = [installed EXCEPT ![s] = installed[s]]
           /\ mr' = mr => mr' = [mr EXCEPT ![s] = mr[s]]
BY DEF TypeInv, TypeOK, ObjectType, ManagedResource

LEMMA CreateManagedResourceType ==
    ASSUME TypeInv, NEW s \in Shoots, NEW answered \in BOOLEAN,
           CreateManagedResource(s, answered), BookType'
    PROVE  TypeInv'
<1> DEFINE m == [phase   |-> IF mr[s].phase = "Absent" THEN "Present" ELSE mr[s].phase,
                 objects |-> Objects(run[s])]
           point == IF answered THEN "patch" ELSE "failed"
<1>1. /\ run[s].cluster \in Cluster /\ run[s].config \in ProviderConfigs
      /\ run[s].namespace \in Namespaces /\ run[s].labels \in Selectors
      /\ pc[s] = "create"
  BY DEF TypeInv, ReadInv, ReadAt, CreateManagedResource, ReconcilePoints,
     ReadPoints, AfterGateway, AfterDeployments
<1>2. run[s] \in Run /\ run[s].allowed \in SUBSET STRING
      /\ run[s].defaultLabels \in Selectors \cup {None}
  BY ExtensionFields DEF Run
<1>3. Objects(run[s]) \in SUBSET Object
  BY <1>1, <1>2, ObjectsType
<1>4. m \in ManagedResource
  BY <1>3, ManagedResourceFields DEF ManagedResource
<1>5. /\ mr' = [mr EXCEPT ![s] = m]
      /\ run' = [run EXCEPT ![s] = run[s]] /\ pc' = [pc EXCEPT ![s] = point]
  BY DEF CreateManagedResource, Goto, TypeInv, TypeOK, WorkerType, ObjectType
<1>6. point \in Points /\ ReadAt(point, run[s])
  BY <1>1 DEF ReadAt, Points, ReconcilePoints, ReadPoints, FinishPoints,
     AfterGateway, AfterDeployments
<1>7. WorkerType' /\ \A t \in Shoots : ReadAt(pc'[t], run'[t])
  BY <1>2, <1>5, <1>6, RunSteps
<1>8. installed' = [installed EXCEPT ![s] = installed[s]] /\ installed[s] \in SUBSET Object
  BY ManagedResourceFields DEF CreateManagedResource
<1>9. UNCHANGED <<seedVars, ext, additional, queue, infraEvent>>
  BY DEF CreateManagedResource
<1> HIDE DEF m, point
<1> QED
  BY <1>4, <1>5, <1>7, <1>8, <1>9, ManagedResourceStep

LEMMA DeleteManagedResourceType ==
    ASSUME TypeInv, NEW s \in Shoots, NEW answered \in BOOLEAN,
           DeleteManagedResource(s, answered), BookType'
    PROVE  TypeInv'
<1> DEFINE m == [mr[s] EXCEPT !.phase = IF @ = "Present" THEN "Deleting" ELSE @]
           point == IF answered THEN "wait" ELSE "failed"
<1>1. m \in ManagedResource
  BY ManagedResourceFields DEF ManagedResource
<1>2. /\ mr' = [mr EXCEPT ![s] = m]
      /\ run' = [run EXCEPT ![s] = run[s]] /\ pc' = [pc EXCEPT ![s] = point]
  BY DEF DeleteManagedResource, Goto, TypeInv, TypeOK, WorkerType, ObjectType
<1>3. point \in Points /\ point \notin ReconcilePoints
  BY DEF Points, ReconcilePoints, ReadPoints, FinishPoints, DeletePoints
<1>4. WorkerType' /\ \A t \in Shoots : ReadAt(pc'[t], run'[t])
  BY <1>2, <1>3, ExtensionFields, ReadElsewhere, RunSteps
<1>5. installed' = [installed EXCEPT ![s] = installed[s]] /\ installed[s] \in SUBSET Object
  BY ManagedResourceFields DEF DeleteManagedResource
<1>6. UNCHANGED <<seedVars, ext, additional, queue, infraEvent>>
  BY DEF DeleteManagedResource
<1> HIDE DEF m, point
<1> QED
  BY <1>1, <1>2, <1>4, <1>5, <1>6, ManagedResourceStep

LEMMA GrmType ==
    ASSUME TypeInv, NEW s \in Shoots, Grm(s)
    PROVE  TypeInv'
<1>1. /\ UNCHANGED <<seedVars, ext, additional, queue, infraEvent>>
      /\ UNCHANGED <<workVars, stale, changes, faults>>
  BY DEF Grm, GrmApply, GrmPrune, GrmDelete, GrmUnchanged
<1>2. BookType' /\ WorkerType' /\ \A t \in Shoots : ReadAt(pc'[t], run'[t])
  BY <1>1, UnchangedTypes DEF TypeInv, TypeOK, ReadInv, workVars
<1>3. PICK m \in ManagedResource, o \in SUBSET Object :
         mr' = [mr EXCEPT ![s] = m] /\ installed' = [installed EXCEPT ![s] = o]
  <2>1. CASE GrmApply(s)
    <3>1. PICK x \in mr[s].objects :
             installed' = [installed EXCEPT
                             ![s] = {p \in @ : ~ SameObject(x, p)} \cup {x}]
      BY <2>1 DEF GrmApply
    <3> DEFINE o == {p \in installed[s] : ~ SameObject(x, p)} \cup {x}
    <3>2. o \in SUBSET Object
      BY ManagedResourceFields
    <3>3. installed' = [installed EXCEPT ![s] = o]
      BY <3>1 DEF TypeInv, TypeOK, ObjectType
    <3> HIDE DEF o
    <3> QED
      BY <2>1, <3>2, <3>3, ManagedResourceFields DEF GrmApply
  <2>2. CASE GrmPrune(s)
    <3>1. PICK x \in installed[s] : installed' = [installed EXCEPT ![s] = @ \ {x}]
      BY <2>2 DEF GrmPrune
    <3>2. installed' = [installed EXCEPT ![s] = installed[s] \ {x}]
      BY <3>1 DEF TypeInv, TypeOK, ObjectType
    <3> QED
      BY <2>2, <3>2, ManagedResourceFields DEF GrmPrune
  <2>3. CASE GrmDelete(s)
    <3>1. CASE mr' = [mr EXCEPT ![s] = NoManagedResource] /\ UNCHANGED installed
      BY <3>1, EmptyTypes, ManagedResourceFields
    <3>2. CASE /\ \E x \in installed[s] : installed' = [installed EXCEPT ![s] = @ \ {x}]
               /\ UNCHANGED mr
      <4>1. PICK x \in installed[s] : installed' = [installed EXCEPT ![s] = @ \ {x}]
        BY <3>2
      <4>2. installed' = [installed EXCEPT ![s] = installed[s] \ {x}]
        BY <4>1 DEF TypeInv, TypeOK, ObjectType
      <4> QED
        BY <3>2, <4>2, ManagedResourceFields
    <3> QED
      BY <2>3, <3>1, <3>2 DEF GrmDelete
  <2> QED
    BY <2>1, <2>2, <2>3 DEF Grm
<1> QED
  BY <1>1, <1>2, <1>3, ManagedResourceStep

LEMMA WaitType ==
    ASSUME TypeInv, NEW s \in Shoots, WaitUntilDeleted(s) \/ DeletionTimeout(s)
    PROVE  TypeInv'
<1>1. PICK point \in {"success", "failed"} : pc' = [pc EXCEPT ![s] = point]
  BY DEF WaitUntilDeleted, DeletionTimeout, Goto
<1>2. point \in Points \ ReconcilePoints
  BY DEF Points, FinishPoints, ReconcilePoints, ReadPoints
<1>3. UNCHANGED <<restVars, run>>
  BY DEF WaitUntilDeleted, DeletionTimeout
<1> QED
  BY <1>1, <1>2, <1>3, StayStep

LEMMA ApiErrorType ==
    ASSUME TypeInv, NEW s \in Shoots, ApiError(s)
    PROVE  TypeInv'
<1>1. faults' \in 0 .. MaxFaults
  BY BoundsAssumption DEF ApiError, TypeInv, TypeOK, BookType
<1>2. CASE CreateManagedResource(s, FALSE)
  <2>1. BookType'
    BY <1>1, <1>2 DEF CreateManagedResource, TypeInv, TypeOK, BookType
  <2> QED
    BY <1>2, <2>1, CreateManagedResourceType
<1>3. CASE DeleteManagedResource(s, FALSE)
  <2>1. BookType'
    BY <1>1, <1>3 DEF DeleteManagedResource, TypeInv, TypeOK, BookType
  <2> QED
    BY <1>3, <2>1, DeleteManagedResourceType
<1>4. CASE /\ Goto(s, "failed")
           /\ UNCHANGED <<mr, run, seedVars, ext, installed, additional, queue,
                          infraEvent, stale, changes>>
  <2>1. BookType'
    BY <1>1, <1>4 DEF TypeInv, TypeOK, BookType
  <2>2. "failed" \in Points /\ "failed" \notin ReconcilePoints
    BY DEF Points, FinishPoints, ReconcilePoints, ReadPoints
  <2>3. run' = [run EXCEPT ![s] = run[s]] /\ pc' = [pc EXCEPT ![s] = "failed"]
    BY <1>4 DEF Goto, TypeInv, TypeOK, WorkerType
  <2>4. WorkerType' /\ \A t \in Shoots : ReadAt(pc'[t], run'[t])
    BY <2>2, <2>3, ExtensionFields, ReadElsewhere, RunSteps
  <2> QED
    BY <1>4, <2>1, <2>4, ManagedResourceFields, ManagedResourceStep
<1> QED
  BY <1>2, <1>3, <1>4 DEF ApiError

LEMMA RestartType ==
    ASSUME TypeInv, Restart
    PROVE  TypeInv'
<1>1. SeedType' /\ ObjectType'
  BY UnchangedTypes DEF Restart, TypeInv, TypeOK
<1>2. ControllerType'
  BY ValuesAssumption DEF Restart, ControllerType
<1>3. WorkerType'
  BY EmptyTypes DEF Restart, WorkerType, Points
<1>4. BookType'
  <2>1. stale' \in [Shoots -> SUBSET {"unwatched", "missed"}]
    BY DEF Restart, TypeInv, TypeOK, BookType
  <2> QED
    BY <2>1, BoundsAssumption DEF Restart, TypeInv, TypeOK, BookType
<1>5. ReadInv'
  <2>1. ASSUME NEW t \in Shoots
        PROVE  pc'[t] = "idle" /\ ext' = ext /\ ReadAt(pc'[t], run'[t])
    <3>1. pc'[t] = "idle" /\ ext' = ext
      BY DEF Restart, objectVars
    <3>2. "idle" \notin ReconcilePoints
      BY DEF ReconcilePoints, ReadPoints
    <3> QED
      BY <3>1, <3>2, ReadElsewhere
  <2> QED
    BY <2>1 DEF TypeInv, ReadInv, ReadAt
<1> QED
  BY <1>1, <1>2, <1>3, <1>4, <1>5 DEF TypeInv, TypeOK

LEMMA ChangeType ==
    ASSUME TypeInv, Change
    PROVE  changes' \in 0 .. MaxChanges
BY BoundsAssumption DEF Change, TypeInv, TypeOK, BookType

LEMMA WriteTyped ==
    ASSUME TypeInv, NEW s \in Shoots, changes' \in 0 .. MaxChanges, NEW e \in Extension,
           e.phase # "Absent" => e.config \in ProviderConfigs, Write(s, e)
    PROVE  TypeInv'
<1>1. WorkerType' /\ \A t \in Shoots : ReadAt(pc'[t], run'[t])
  BY UnchangedTypes DEF Write, TypeInv, TypeOK, ReadInv, workVars
<1>2. BookType'
  BY DEF Write, TypeInv, TypeOK, BookType
<1>3. queue' \in SUBSET Shoots
  BY ExtensionFields DEF Write
<1> QED
  BY <1>1, <1>2, <1>3, ExtensionStep DEF Write

LEMMA WriteType ==
    ASSUME TypeInv, NEW s \in Shoots, Change, NEW e \in Extension,
           e.phase # "Absent" => e.config \in ProviderConfigs, Write(s, e)
    PROVE  TypeInv'
BY ChangeType, WriteTyped

LEMMA GardenletType ==
    ASSUME TypeInv, NEW s \in Shoots, Gardenlet(s)
    PROVE  TypeInv'
<1>1. CASE CreateExtension(s)
  <2>1. PICK config \in ProviderConfigs, operation \in {"reconcile", "restore"} :
           Write(s, [NoExtension EXCEPT !.phase = "Live", !.config = config,
                                        !.operation = operation])
    BY <1>1 DEF CreateExtension
  <2> DEFINE e == [NoExtension EXCEPT !.phase = "Live", !.config = config,
                                      !.operation = operation]
  <2>2. e \in Extension /\ e.config = config
    BY DEF NoExtension, Extension
  <2> HIDE DEF e
  <2> QED
    BY <1>1, <2>1, <2>2, WriteType DEF CreateExtension, e
<1>2. CASE ReconcileExtension(s)
  <2>1. PICK config \in ProviderConfigs :
           Write(s, [ext[s] EXCEPT !.config = config, !.operation = "reconcile"])
    BY <1>2 DEF ReconcileExtension
  <2> DEFINE e == [ext[s] EXCEPT !.config = config, !.operation = "reconcile"]
  <2>2. e \in Extension /\ e.config = config
    <3>1. ext[s] \in Extension
      BY ExtensionFields
    <3> QED
      BY <3>1 DEF Extension
  <2>3. Write(s, e) /\ Change
    BY <1>2, <2>1 DEF ReconcileExtension
  <2> HIDE DEF e
  <2> QED
    BY <2>2, <2>3, WriteType
<1>3. CASE MigrateExtension(s)
  <2> DEFINE e == [ext[s] EXCEPT !.operation = "migrate"]
  <2>1. e \in Extension /\ e.config = ext[s].config /\ e.phase = ext[s].phase
    BY ExtensionFields DEF Extension
  <2>2. Write(s, e) /\ Change
    BY <1>3 DEF MigrateExtension
  <2> HIDE DEF e
  <2> QED
    BY <2>1, <2>2, ExtensionFields, WriteType
<1>4. CASE DeleteExtension(s)
  <2> DEFINE d == [ext[s] EXCEPT !.phase = "Deleting"]
             e == IF ext[s].finalizer THEN d ELSE NoExtension
  <2>1. d \in Extension /\ d.config = ext[s].config /\ ext[s].phase # "Absent"
    BY <1>4, ExtensionFields DEF DeleteExtension, Extension
  <2>2. NoExtension.phase = "Absent"
    BY DEF NoExtension
  <2>3. Write(s, e) /\ Change
    BY <1>4 DEF DeleteExtension
  <2> HIDE DEF d
  <2>4. e \in Extension /\ (e.phase # "Absent" => e.config \in ProviderConfigs)
    BY <2>1, <2>2, EmptyTypes, ExtensionFields
  <2> HIDE DEF e
  <2> QED
    BY <2>3, <2>4, WriteType
<1> QED
  BY <1>1, <1>2, <1>3, <1>4 DEF Gardenlet

\* A change of what the controller reads.
LEMMA SeedStep ==
    ASSUME TypeInv, SeedType', infraEvent' \in [Shoots -> BOOLEAN],
           stale' \in [Shoots -> SUBSET {"unwatched", "missed"}],
           changes' \in 0 .. MaxChanges,
           UNCHANGED <<objectVars, additional, queue, workVars, faults>>
    PROVE  TypeInv'
<1>1. ObjectType' /\ WorkerType' /\ ControllerType' /\ BookType'
  BY UnchangedTypes DEF TypeInv, TypeOK, ControllerType, BookType
<1>2. ReadInv'
  BY DEF TypeInv, ReadInv, ReadAt, objectVars, workVars
<1> QED
  BY <1>1, <1>2 DEF TypeInv, TypeOK

LEMMA UnwatchedType ==
    ASSUME TypeInv, NEW S, Unwatched(S), SeedType'
    PROVE  TypeInv'
<1>1. stale' \in [Shoots -> SUBSET {"unwatched", "missed"}]
  BY DEF Unwatched, TypeInv, TypeOK, BookType
<1>2. infraEvent' \in [Shoots -> BOOLEAN]
  BY DEF Unwatched, TypeInv, TypeOK, ControllerType
<1> QED
  BY <1>1, <1>2, ChangeType, SeedStep DEF Unwatched

LEMMA SeedChangeType ==
    ASSUME TypeInv, NEW s \in Shoots, SeedChange(s)
    PROVE  TypeInv'
<1>1. CASE ChangeCluster(s)
  <2>1. PICK c \in ClusterStates[s] : cluster' = [cluster EXCEPT ![s] = c]
    BY <1>1 DEF ChangeCluster
  <2>2. c \in Cluster
    BY <2>1, ValuesAssumption DEF Cluster
  <2>3. SeedType'
    BY <1>1, <2>1, <2>2 DEF ChangeCluster, TypeInv, TypeOK, SeedType
  <2> QED
    BY <1>1, <2>3, UnwatchedType DEF ChangeCluster
<1>2. CASE ChangeGateway(s)
  <2>1. SeedType'
    BY <1>2, ValuesAssumption DEF ChangeGateway, TypeInv, TypeOK, SeedType
  <2> QED
    BY <1>2, <2>1, UnwatchedType DEF ChangeGateway
<1>3. CASE ChangeInfrastructure(s)
  <2>1. PICK i \in EgressLists :
           /\ infra' = [infra EXCEPT ![s] = i]
           /\ infraEvent' = [infraEvent EXCEPT ![s] = @ \/ EgressCIDRsChanged(infra[s], i)]
           /\ stale' = [stale EXCEPT ![s] = IF infra[s] = None \/ i = None
                                            THEN @ \cup {"unwatched"} ELSE @]
    BY <1>3 DEF ChangeInfrastructure
  <2>2. SeedType'
    BY <1>3, <2>1, ValuesAssumption DEF ChangeInfrastructure, TypeInv, TypeOK, SeedType
  <2>3. infraEvent' \in [Shoots -> BOOLEAN]
    <3>1. (infraEvent[s] \/ EgressCIDRsChanged(infra[s], i)) \in BOOLEAN
      BY DEF TypeInv, TypeOK, ControllerType, EgressCIDRsChanged
    <3> QED
      BY <2>1, <3>1 DEF TypeInv, TypeOK, ControllerType
  <2>4. stale' \in [Shoots -> SUBSET {"unwatched", "missed"}]
    BY <2>1 DEF TypeInv, TypeOK, BookType
  <2> QED
    BY <1>3, <2>2, <2>3, <2>4, ChangeType, SeedStep DEF ChangeInfrastructure
<1> QED
  BY <1>1, <1>2, <1>3 DEF SeedChange

LEMMA SharedChangeType ==
    ASSUME TypeInv, SharedChange
    PROVE  TypeInv'
<1>1. ASSUME NEW ns \in Namespaces, ChangeService(ns)
      PROVE  TypeInv'
  <2>1. SeedType'
    BY <1>1, ValuesAssumption DEF ChangeService, TypeInv, TypeOK, SeedType
  <2> QED
    BY <1>1, <2>1, UnwatchedType DEF ChangeService
<1>2. CASE ChangeShootInfo
  <2>1. SeedType'
    BY <1>2, ValuesAssumption DEF ChangeShootInfo, TypeInv, TypeOK, SeedType
  <2> QED
    BY <1>2, <2>1, UnwatchedType DEF ChangeShootInfo
<1>3. CASE ChangeIngressGateway
  <2>1. SeedType'
    BY <1>3, ValuesAssumption DEF ChangeIngressGateway, TypeInv, TypeOK, SeedType
  <2> QED
    BY <1>3, <2>1, UnwatchedType DEF ChangeIngressGateway
<1>4. ASSUME NEW l \in Selectors, ChangeDeployments(l)
      PROVE  TypeInv'
  <2>1. PICK d \in DeploymentLists[l] : deployments' = [deployments EXCEPT ![l] = d]
    BY <1>4 DEF ChangeDeployments
  <2>2. d \in Seq(Namespaces)
    BY <2>1, ValuesAssumption
  <2>3. SeedType'
    BY <1>4, <2>1, <2>2 DEF ChangeDeployments, TypeInv, TypeOK, SeedType
  <2> QED
    BY <1>4, <2>3, UnwatchedType DEF ChangeDeployments
<1> QED
  BY <1>1, <1>2, <1>3, <1>4 DEF SharedChange

LEMMA DeliverType ==
    ASSUME TypeInv, NEW s \in Shoots, DeliverInfrastructureEvent(s)
    PROVE  TypeInv'
<1>1. SeedType' /\ ObjectType' /\ WorkerType' /\ BookType'
  BY UnchangedTypes DEF DeliverInfrastructureEvent, TypeInv, TypeOK
<1>2. ControllerType'
  BY DEF DeliverInfrastructureEvent, TypeInv, TypeOK, ControllerType
<1>3. ReadInv'
  BY DEF DeliverInfrastructureEvent, TypeInv, ReadInv, ReadAt, objectVars, workVars
<1> QED
  BY <1>1, <1>2, <1>3 DEF TypeInv, TypeOK

LEMMA ReconcileType ==
    ASSUME TypeInv, NEW s \in Shoots, Reconcile(s)
    PROVE  TypeInv'
<1>1. CASE CreateManagedResource(s, TRUE) /\ UNCHANGED faults
  <2>1. BookType'
    BY <1>1 DEF CreateManagedResource, TypeInv, TypeOK, BookType
  <2> QED
    BY <1>1, <2>1, CreateManagedResourceType
<1> QED
  BY <1>1, GetClusterType, GetGatewayType, ListDeploymentsType, GetServiceType,
     GetShootInfoType, GetInfrastructureType, GetIngressGatewayType,
     PatchStatusType DEF Reconcile

LEMMA DeleteType ==
    ASSUME TypeInv, NEW s \in Shoots, Delete(s)
    PROVE  TypeInv'
<1>1. CASE DeleteManagedResource(s, TRUE) /\ UNCHANGED faults
  <2>1. BookType'
    BY <1>1 DEF DeleteManagedResource, TypeInv, TypeOK, BookType
  <2> QED
    BY <1>1, <2>1, DeleteManagedResourceType
<1> QED
  BY <1>1, WaitType DEF Delete

LEMMA StutterType ==
    ASSUME TypeInv, UNCHANGED vars
    PROVE  TypeInv'
<1>1. TypeOK'
  BY UnchangedTypes DEF TypeInv, TypeOK, vars, restVars
<1>2. ReadInv'
  BY DEF TypeInv, ReadInv, ReadAt, vars, restVars, objectVars, workVars
<1> QED
  BY <1>1, <1>2 DEF TypeInv

LEMMA NextType == TypeInv /\ [Next]_vars => TypeInv'
<1> SUFFICES ASSUME TypeInv, [Next]_vars PROVE TypeInv'
  OBVIOUS
<1>1. ASSUME NEW s \in Shoots, Finish(s) PROVE TypeInv'
  BY <1>1, SucceedType, ReleaseType, FailType DEF Finish
<1>2. ASSUME NEW s \in Shoots,
             \/ Dequeue(s) \/ Reconcile(s) \/ Delete(s) \/ Finish(s) \/ ApiError(s)
             \/ DeliverInfrastructureEvent(s) \/ Grm(s) \/ Gardenlet(s) \/ SeedChange(s)
      PROVE  TypeInv'
  BY <1>1, <1>2, DequeueType, ReconcileType, DeleteType, ApiErrorType,
     DeliverType, GrmType, GardenletType, SeedChangeType
<1> QED
  BY <1>2, SharedChangeType, RestartType, StutterType DEF Next

\* Every variable keeps its type, for all values of the constants.
THEOREM TypeCorrect == Spec => []TypeOK
<1>1. TypeInv => TypeOK
  BY DEF TypeInv
<1> QED
  BY <1>1, InitType, NextType, PTL DEF Spec
=============================================================================
