------------------------- MODULE AclContents_proofs -------------------------
(***************************************************************************)
(* What the controller has the seed deploy: only rules it has validated,   *)
(* whatever the Extension holds by the time the filters are written; and,  *)
(* once a request has been served, what the seed calls for now, although   *)
(* the inputs are read one after the other while they change.              *)
(***************************************************************************)
EXTENDS AclCleanup_proofs

-----------------------------------------------------------------------------
(* Rules are validated *)

Accepted(config) ==
    config # Malformed /\ ValidateExtensionSpec(config, MaxAllowedCIDRs)

Validated == ReconcilePoints \ {"cluster"}

Rendered(s) == mr[s].objects \cup installed[s]

\* Past the validation a worker holds an accepted rule, and so do all objects.
RuleInv ==
    \A s \in Shoots :
        /\ pc[s] \in Validated => Accepted(run[s].config)
        /\ \A o \in Rendered(s) : Accepted(o.rule)

\* What every step but one guarantees: objects are only dropped or applied.
Kept == \A s \in Shoots : Rendered(s)' \subseteq Rendered(s)

\* A worker gets past the validation only with an accepted rule.
Checked ==
    \A s \in Shoots : pc'[s] \in Validated =>
        \/ pc[s] \in Validated /\ run'[s].config = run[s].config
        \/ Accepted(run'[s].config)

LEMMA KeptRules ==
    ASSUME RuleInv, Kept, Checked
    PROVE  RuleInv'
BY DEF RuleInv, Kept, Checked, Rendered

LEMMA FinishChecked ==
    ASSUME CleanInv, NEW s \in Shoots, Dequeue(s) \/ Finish(s) \/ Delete(s)
    PROVE  Checked
<1> USE Domains DEF Checked, Validated, ReconcilePoints, ReadPoints
<1>1. CASE Dequeue(s)
  BY <1>1 DEF Dequeue, workVars
<1>2. CASE Finish(s)
  BY <1>2 DEF Finish, Succeed, Release, Fail
<1>3. CASE Delete(s)
  BY <1>3 DEF Delete, DeleteManagedResource, WaitUntilDeleted, DeletionTimeout, Goto
<1> QED
  BY <1>1, <1>2, <1>3

LEMMA DeleteKept ==
    ASSUME CleanInv, NEW s \in Shoots, NEW answered, DeleteManagedResource(s, answered)
    PROVE  Kept
<1>1. \A t \in Shoots : mr'[t].objects = mr[t].objects
  BY Domains DEF DeleteManagedResource, ManagedResource
<1>2. installed' = installed
  BY DEF DeleteManagedResource
<1> QED
  BY <1>1, <1>2 DEF Kept, Rendered

LEMMA FinishKept ==
    ASSUME CleanInv, NEW s \in Shoots, Dequeue(s) \/ Finish(s) \/ Delete(s)
    PROVE  Kept
<1>1. CASE Dequeue(s)
  BY <1>1 DEF Dequeue, Kept, Rendered
<1>2. CASE Finish(s)
  BY <1>2 DEF Finish, Succeed, Release, Fail, Kept, Rendered
<1>3. CASE DeleteManagedResource(s, TRUE)
  BY <1>3, DeleteKept
<1>4. CASE WaitUntilDeleted(s) \/ DeletionTimeout(s)
  BY <1>4 DEF WaitUntilDeleted, DeletionTimeout, restVars, objectVars, Kept, Rendered
<1> QED
  BY <1>1, <1>2, <1>3, <1>4 DEF Delete

LEMMA CreateRules ==
    ASSUME CleanInv, RuleInv, NEW s \in Shoots, NEW answered,
           CreateManagedResource(s, answered)
    PROVE  RuleInv'
<1> USE Domains
<1>1. Accepted(run[s].config)
  BY DEF CreateManagedResource, RuleInv, Validated, ReconcilePoints
<1>2. ASSUME NEW o \in Objects(run[s]) PROVE o.rule = run[s].config
  <2>1. PICK kind, namespace, labels :
           o = [kind |-> kind, namespace |-> namespace, labels |-> labels,
                hosts |-> run[s].cluster.advertised, rule |-> run[s].config,
                allowed |-> run[s].allowed]
    BY Zenon DEF Objects
  <2> QED
    BY <2>1
<1>3. mr'[s].objects = Objects(run[s]) /\ \A t \in Shoots \ {s} : mr'[t] = mr[t]
  BY DEF CreateManagedResource
<1>4. installed' = installed /\ run' = run
  BY DEF CreateManagedResource
<1>5. \A t \in Shoots : \A o \in Rendered(t)' : Accepted(o.rule)
  BY <1>1, <1>2, <1>3, <1>4 DEF RuleInv, Rendered
<1>6. \A t \in Shoots : pc'[t] \in Validated => pc[t] \in Validated
  BY DEF CreateManagedResource, Goto, Validated, ReconcilePoints
<1> QED
  BY <1>4, <1>5, <1>6 DEF RuleInv

LEMMA ReadKeeps ==
    ASSUME CleanInv, NEW s \in Shoots,
           \/ GetCluster(s) \/ GetGateway(s) \/ ListDeployments(s) \/ GetService(s)
           \/ GetShootInfo(s) \/ GetInfrastructure(s) \/ GetIngressGateway(s)
           \/ PatchStatus(s)
    PROVE  /\ pc[s] \in ReconcilePoints
           /\ pc' \in [Shoots -> Points]
           /\ \A t \in Shoots \ {s} : pc'[t] = pc[t] /\ run'[t] = run[t]
           /\ run'[s].config = run[s].config
<1> USE Domains
<1>1. pc[s] \in ReconcilePoints
  BY DEF GetCluster, GetGateway, ListDeployments, GetService, GetShootInfo,
     GetInfrastructure, GetIngressGateway, PatchStatus, ReconcilePoints, ReadPoints
<1>2. ASSUME NEW cidrs, AllowSeedEgress(s, cidrs)
      PROVE  run'[s].config = run[s].config /\ \A t \in Shoots \ {s} : run'[t] = run[t]
  BY <1>2 DEF AllowSeedEgress, Run
<1>3. /\ run'[s].config = run[s].config
      /\ \A t \in Shoots \ {s} : run'[t] = run[t]
  <2>1. CASE GetCluster(s)
    BY <2>1 DEF GetCluster, Run
  <2>2. CASE GetGateway(s)
    BY <2>2 DEF GetGateway, Run
  <2>3. CASE ListDeployments(s)
    BY <2>3 DEF ListDeployments, Run
  <2>4. CASE GetService(s) \/ GetShootInfo(s)
    BY <2>4, <1>2 DEF GetService, GetShootInfo
  <2>5. CASE GetInfrastructure(s)
    BY <2>5 DEF GetInfrastructure, Run
  <2>6. CASE GetIngressGateway(s)
    BY <2>6 DEF GetIngressGateway, Run
  <2>7. CASE PatchStatus(s)
    BY <2>7 DEF PatchStatus
  <2> QED
    BY <2>1, <2>2, <2>3, <2>4, <2>5, <2>6, <2>7
<1>4. PICK point \in Points : pc' = [pc EXCEPT ![s] = point]
  BY DEF GetCluster, GetGateway, ListDeployments, GetService, GetShootInfo,
     GetInfrastructure, GetIngressGateway, PatchStatus, AllowSeedEgress, Goto,
     Points, ReconcilePoints, ReadPoints, FinishPoints
<1> QED
  BY <1>1, <1>3, <1>4

\* The reads: only the first one passes the validation.
LEMMA ReadChecked ==
    ASSUME CleanInv, NEW s \in Shoots,
           \/ GetCluster(s) \/ GetGateway(s) \/ ListDeployments(s) \/ GetService(s)
           \/ GetShootInfo(s) \/ GetInfrastructure(s) \/ GetIngressGateway(s)
           \/ PatchStatus(s)
    PROVE  Checked
<1> USE Domains
<1>1. /\ pc' \in [Shoots -> Points]
      /\ \A t \in Shoots \ {s} : pc'[t] = pc[t] /\ run'[t] = run[t]
      /\ run'[s].config = run[s].config
  BY ReadKeeps
<1>2. CASE ~ GetCluster(s)
  <2>1. pc[s] \in Validated
    BY <1>2 DEF GetGateway, ListDeployments, GetService, GetShootInfo,
       GetInfrastructure, GetIngressGateway, PatchStatus, Validated, ReconcilePoints,
       ReadPoints
  <2> QED
    BY <1>1, <2>1 DEF Checked
<1>3. CASE GetCluster(s)
  <2>1. pc'[s] \in Validated => Accepted(run[s].config)
    BY <1>3 DEF GetCluster, Goto, Validated, ReconcilePoints, ReadPoints, Accepted
  <2> QED
    BY <1>1, <2>1 DEF Checked
<1> QED
  BY <1>2, <1>3

LEMMA ReconcileRules ==
    ASSUME CleanInv, RuleInv, NEW s \in Shoots, Reconcile(s)
    PROVE  RuleInv'
<1>1. CASE CreateManagedResource(s, TRUE)
  BY <1>1, CreateRules
<1>2. CASE ~ CreateManagedResource(s, TRUE)
  <2>1. UNCHANGED <<mr, installed>>
    BY <1>2 DEF Reconcile, GetCluster, GetGateway, ListDeployments, GetService,
       GetShootInfo, GetInfrastructure, GetIngressGateway, PatchStatus, restVars, objectVars
  <2>2. Kept
    BY <2>1 DEF Kept, Rendered
  <2> QED
    BY <1>2, <2>2, ReadChecked, KeptRules DEF Reconcile
<1> QED
  BY <1>1, <1>2

LEMMA ApiErrorRules ==
    ASSUME CleanInv, RuleInv, NEW s \in Shoots, ApiError(s)
    PROVE  RuleInv'
<1>1. CASE Goto(s, "failed") /\ UNCHANGED <<mr, run, installed>>
  <2>1. Kept
    BY <1>1 DEF Kept, Rendered
  <2>2. Checked
    BY <1>1, Domains DEF Checked, Goto, Validated, ReconcilePoints, ReadPoints
  <2> QED
    BY <2>1, <2>2, KeptRules
<1>2. CASE DeleteManagedResource(s, FALSE)
  <2>1. Checked
    BY <1>2, Domains DEF Checked, DeleteManagedResource, Goto, Validated,
       ReconcilePoints, ReadPoints
  <2> QED
    BY <1>2, <2>1, DeleteKept, KeptRules
<1> QED
  BY <1>1, <1>2, CreateRules DEF ApiError

LEMMA GrmKept ==
    ASSUME CleanInv, NEW s \in Shoots, Grm(s)
    PROVE  Kept
<1> USE Domains
<1>1. CASE GrmApply(s)
  <2>1. PICK o \in mr[s].objects :
           installed' = [installed EXCEPT ![s] = {p \in @ : ~ SameObject(o, p)} \cup {o}]
    BY <1>1 DEF GrmApply
  <2>2. mr' = mr
    BY <1>1 DEF GrmApply
  <2>3. installed'[s] \subseteq installed[s] \cup {o}
    BY <2>1
  <2> QED
    BY <2>1, <2>2, <2>3 DEF Kept, Rendered
<1>2. CASE GrmPrune(s)
  <2>1. PICK o : installed' = [installed EXCEPT ![s] = @ \ {o}]
    BY <1>2 DEF GrmPrune
  <2>2. mr' = mr
    BY <1>2 DEF GrmPrune
  <2> QED
    BY <2>1, <2>2 DEF Kept, Rendered
<1>3. CASE GrmDelete(s) /\ installed[s] = {}
  <2>1. mr' = [mr EXCEPT ![s] = NoManagedResource] /\ installed' = installed
    BY <1>3 DEF GrmDelete
  <2> QED
    BY <2>1 DEF Kept, Rendered, NoManagedResource
<1>4. CASE GrmDelete(s) /\ installed[s] # {}
  <2>1. PICK o : installed' = [installed EXCEPT ![s] = @ \ {o}]
    BY <1>4 DEF GrmDelete
  <2>2. mr' = mr
    BY <1>4 DEF GrmDelete
  <2> QED
    BY <2>1, <2>2 DEF Kept, Rendered
<1> QED
  BY <1>1, <1>2, <1>3, <1>4 DEF Grm

LEMMA GrmRules ==
    ASSUME CleanInv, RuleInv, NEW s \in Shoots, Grm(s)
    PROVE  RuleInv'
<1>1. Checked
  BY DEF Grm, GrmApply, GrmPrune, GrmDelete, GrmUnchanged, workVars, Checked
<1> QED
  BY <1>1, GrmKept, KeptRules

\* Everything that leaves the objects and the workers alone, and a restart.
LEMMA OtherRules ==
    ASSUME RuleInv, UNCHANGED <<mr, installed>>,
           UNCHANGED workVars \/ \A s \in Shoots : pc'[s] = "idle"
    PROVE  RuleInv'
<1>1. Kept
  BY DEF Kept, Rendered
<1>2. Checked
  BY DEF Checked, workVars, Validated, ReconcilePoints, ReadPoints
<1> QED
  BY <1>1, <1>2, KeptRules

LEMMA NextRules == CleanInv /\ RuleInv /\ [Next]_vars => RuleInv'
<1> SUFFICES ASSUME CleanInv, RuleInv, [Next]_vars PROVE RuleInv'
  OBVIOUS
<1>1. ASSUME NEW s \in Shoots, Dequeue(s) \/ Finish(s) \/ Delete(s)
      PROVE  RuleInv'
  BY <1>1, FinishChecked, FinishKept, KeptRules
<1>2. ASSUME NEW s \in Shoots, Gardenlet(s)
      PROVE  RuleInv'
  <2>1. ASSUME NEW e, Write(s, e) PROVE UNCHANGED <<mr, installed, workVars>>
    BY <2>1 DEF Write
  <2>2. UNCHANGED <<mr, installed, workVars>>
    BY <1>2, <2>1 DEF Gardenlet, CreateExtension, ReconcileExtension,
       MigrateExtension, DeleteExtension
  <2> QED
    BY <2>2, OtherRules
<1>3. ASSUME NEW s \in Shoots, DeliverInfrastructureEvent(s) \/ SeedChange(s)
      PROVE  RuleInv'
  <2>1. UNCHANGED <<objectVars, workVars>>
    BY <1>3 DEF DeliverInfrastructureEvent, SeedChange, ChangeCluster,
       ChangeGateway, ChangeInfrastructure, Unwatched
  <2> QED
    BY <2>1, OtherRules DEF objectVars
<1>4. CASE SharedChange
  <2>1. UNCHANGED <<objectVars, workVars>>
    BY <1>4 DEF SharedChange, ChangeDeployments, ChangeService, ChangeShootInfo,
       ChangeIngressGateway, Unwatched
  <2> QED
    BY <2>1, OtherRules DEF objectVars
<1>5. CASE Restart
  BY <1>5, OtherRules DEF Restart, objectVars
<1>6. CASE UNCHANGED vars
  BY <1>6, OtherRules DEF vars, restVars, objectVars
<1> QED
  BY <1>1, <1>2, <1>3, <1>4, <1>5, <1>6, ReconcileRules, ApiErrorRules, GrmRules DEF Next

\* Every filter on the seed, and every one on its way there, comes from a rule
\* that ValidateExtensionSpec accepts (actuator.go:122).
THEOREM RulesValidated == Spec => []OnlyValidRules
<1>1. Init => RuleInv
  BY DEF Init, RuleInv, Rendered, NoManagedResource, Validated, ReconcilePoints, ReadPoints
<1>2. RuleInv => OnlyValidRules
  BY DEF RuleInv, OnlyValidRules, Rendered, Accepted
<1> QED
  BY <1>1, <1>2, NextRules, CleanAlways, PTL DEF Spec

-----------------------------------------------------------------------------
(* What a settled ManagedResource contains *)

\* The shoot is exposed in ns, where the only Deployment its Gateway selects runs.
Exposed(s, ns) ==
    /\ gateway[s] # None
    /\ deployments[gateway[s]] = <<ns>>
    /\ cluster[s].advertised # <<>>

\* The part of DesiredAllowed that ConfigMap shoot-info adds.
ManagedSeedCIDRs(ns) ==
    IF service[ns] = "Proxy" /\ shootInfo # None THEN ToSet(shootInfo.cidrs) ELSE {}

\* The allowed CIDRs a worker has collected by the time it is at a point.
AllowedAt(s, point, r) ==
    /\ point \in {"service", "shootInfo"} => r.allowed = SeedNetworks
    /\ point = "shootInfo" => service[r.namespace] = "Proxy"
    /\ point = "infrastructure" =>
          /\ s \notin Workerless
          /\ r.allowed = SeedNetworks \cup additional \cup ManagedSeedCIDRs(r.namespace)
    /\ point \in {"ingressGateway", "create", "patch"} =>
          r.allowed = DesiredAllowed(s, r.namespace)

\* What a worker with locals r has read by the time it is at a point is what
\* the objects say now.
CurrentAt(s, point, r) ==
    /\ point \in ReconcilePoints => r.config = ext[s].config
    /\ point \in ReconcilePoints \ {"cluster"} => r.cluster = cluster[s]
    /\ point \in AfterGateway => r.labels = gateway[s]
    /\ point \in AfterDeployments => Exposed(s, r.namespace)
    /\ AllowedAt(s, point, r)
    /\ point \in {"create", "patch"} => r.defaultLabels = ingressGateway

\* The ManagedResource is the one the seed calls for, in namespace ns.
HoldsDesired(s, ns) ==
    mr[s].phase = "Present" /\ mr[s].objects = Desired(s, ns) /\ Exposed(s, ns)

\* A reconciliation has come to its end, or all requests have been served.
Done(s) ==
    \/ pc[s] = "success" /\ run[s].op = "reconcile"
    \/ /\ pc[s] = "idle" /\ ext[s].phase = "Live" /\ ext[s].lastOp = "Succeeded"
       /\ ext[s].operation = "none"

Lasting(s) ==
    /\ pc[s] = "patch" => HoldsDesired(s, run[s].namespace)
    /\ Done(s) /\ gateway[s] # None =>
          \E ns \in Namespaces : HoldsDesired(s, ns) /\ ext[s].istioNamespace = ns

\* No input has changed since the last run began, but for changes that will
\* wake the controller up.
Unspoilt(s) == stale[s] = {} /\ ~ infraEvent[s] /\ s \notin queue

\* A request made during a run is not lost: the key is queued.
Noticed(s) == pc[s] # "idle" /\ UpdatePasses(ext[s]) => s \in queue

\* The status shows that a run is under way, so that a restart repeats it.
Marked(s) == pc[s] \notin {"idle", "release"} => ext[s].lastOp = "Processing"

Tracked(s) ==
    /\ Noticed(s)
    /\ Marked(s)
    /\ Unspoilt(s) => CurrentAt(s, pc[s], run[s]) /\ Lasting(s)

TrackInv == CleanInv /\ \A s \in Shoots : Tracked(s)

-----------------------------------------------------------------------------
(* Steps that leave a shoot alone, or that it will look at again *)

\* Nothing a shoot's filters depend on changes.
Same(t) ==
    /\ UNCHANGED <<ext[t], mr[t], pc[t], run[t], cluster[t], gateway[t], ToSet(infra[t])>>
    /\ gateway[t] # None => UNCHANGED deployments[gateway[t]]
    /\ UNCHANGED <<stale[t], infraEvent[t], service, shootInfo, ingressGateway, additional>>
    /\ t \in queue' <=> t \in queue

LEMMA SameAllowed ==
    ASSUME NEW t, NEW ns, UNCHANGED <<cluster[t], ToSet(infra[t])>>,
           UNCHANGED <<service, shootInfo, additional>>
    PROVE  DesiredAllowed(t, ns)' = DesiredAllowed(t, ns)
BY DEF DesiredAllowed

LEMMA SameDesired ==
    ASSUME NEW t, NEW ns, UNCHANGED <<ext[t].config, cluster[t], gateway[t], ingressGateway>>,
           DesiredAllowed(t, ns)' = DesiredAllowed(t, ns)
    PROVE  Desired(t, ns)' = Desired(t, ns)
BY DEF Desired

LEMMA SameTracked ==
    ASSUME NEW t, Tracked(t), Same(t)
    PROVE  Tracked(t)'
<1>1. \A ns : DesiredAllowed(t, ns)' = DesiredAllowed(t, ns)
  BY SameAllowed DEF Same
<1>2. \A ns : Desired(t, ns)' = Desired(t, ns)
  BY <1>1, SameDesired DEF Same
<1>3. (Noticed(t) /\ Marked(t))'
  BY DEF Same, Tracked, Noticed, Marked
<1>4. Unspoilt(t)' <=> Unspoilt(t)
  BY DEF Same, Unspoilt
<1>5. AllowedAt(t, pc[t], run[t])' <=> AllowedAt(t, pc[t], run[t])
  BY <1>1 DEF Same, AllowedAt, ManagedSeedCIDRs
<1>6. \A ns : Exposed(t, ns)' <=> Exposed(t, ns)
  BY DEF Same, Exposed
<1>7. CurrentAt(t, pc[t], run[t])' <=> CurrentAt(t, pc[t], run[t])
  BY <1>5, <1>6 DEF Same, CurrentAt
<1>8. \A ns : HoldsDesired(t, ns)' <=> HoldsDesired(t, ns)
  BY <1>2, <1>6 DEF Same, HoldsDesired
<1>9. Lasting(t)' <=> Lasting(t)
  BY <1>8 DEF Same, Lasting, Done
<1> QED
  BY <1>3, <1>4, <1>7, <1>9 DEF Tracked

\* A change that is recorded, or that queues the key, spoils what was known.
LEMMA SpoiltTracked ==
    ASSUME NEW t, Noticed(t)', Marked(t)', ~ Unspoilt(t)'
    PROVE  Tracked(t)'
BY DEF Tracked

LEMMA TrackDomains ==
    ASSUME TrackInv
    PROVE  /\ CleanInv
           /\ ext \in [Shoots -> Extension] /\ mr \in [Shoots -> ManagedResource]
           /\ pc \in [Shoots -> Points] /\ run \in [Shoots -> Run]
           /\ cluster \in [Shoots -> Cluster]
           /\ gateway \in [Shoots -> Selectors \cup {None}]
           /\ infra \in [Shoots -> Seq(STRING) \cup {None}]
           /\ infraEvent \in [Shoots -> BOOLEAN]
           /\ stale \in [Shoots -> SUBSET {"unwatched", "missed"}]
           /\ service \in [Namespaces -> {"NotFound", "VIP", "Proxy"}]
BY DEF TrackInv, CleanInv, TypeInv, TypeOK, SeedType, ObjectType, WorkerType,
       ControllerType, BookType

\* A step that concerns one shoot has to be checked for that shoot only.
LEMMA OneTracked ==
    ASSUME TrackInv, NEW s \in Shoots, Tracked(s)',
           \A t \in Shoots \ {s} : Same(t)
    PROVE  \A t \in Shoots : Tracked(t)'
BY SameTracked DEF TrackInv

LEMMA InitTrack == Init => TrackInv
<1> SUFFICES ASSUME Init, NEW s \in Shoots PROVE Tracked(s)
  BY InitClean DEF TrackInv
<1>1. ext[s] = NoExtension /\ pc[s] = "idle"
  BY DEF Init
<1>2. AllowedAt(s, pc[s], run[s])
  BY <1>1 DEF AllowedAt
<1> QED
  BY <1>1, <1>2 DEF Tracked, Noticed, Marked, CurrentAt, Lasting, Done, NoExtension,
     ReconcilePoints, ReadPoints, AfterGateway, AfterDeployments

-----------------------------------------------------------------------------
(* The reconciler *)

\* A worker that does not reconcile is asked nothing about what it has read.
LEMMA CurrentElsewhere ==
    ASSUME NEW s, pc'[s] \notin ReconcilePoints
    PROVE  CurrentAt(s, pc[s], run[s])'
BY DEF CurrentAt, AllowedAt, ReconcilePoints, ReadPoints, AfterGateway, AfterDeployments

LEMMA DequeueTracked ==
    ASSUME TrackInv, NEW s \in Shoots, Dequeue(s)
    PROVE  \A t \in Shoots : Tracked(t)'
<1> USE TrackDomains
<1>1. pc[s] = "idle" /\ Tracked(s)
  BY DEF Dequeue, TrackInv
<1>2. CASE Skipped(ext[s]) /\ queue' = queue \ {s} /\ UNCHANGED <<ext, workVars, stale>>
  <2>1. \A t \in Shoots \ {s} : Same(t)
    BY <1>2 DEF Dequeue, Same, workVars, seedVars
  <2>2. ~ (ext[s].phase = "Live" /\ ext[s].lastOp = "Succeeded" /\ ext[s].operation = "none")
    BY <1>2 DEF Skipped, Operation
  <2>3. pc'[s] = "idle" /\ ext' = ext
    BY <1>1, <1>2 DEF workVars
  <2>4. CurrentAt(s, pc[s], run[s])'
    BY <2>3, CurrentElsewhere DEF ReconcilePoints, ReadPoints
  <2>5. Lasting(s)'
    BY <2>2, <2>3 DEF Lasting, Done
  <2>6. Tracked(s)'
    BY <2>3, <2>4, <2>5 DEF Tracked, Noticed, Marked
  <2> QED
    BY <2>1, <2>6, OneTracked
<1>3. CASE ~ Skipped(ext[s])
  <2> DEFINE op == Operation(ext[s])
             e  == [ext[s] EXCEPT
                      !.operation  = IF @ = "reconcile" THEN "none" ELSE @,
                      !.finalizer  = @ \/ op \in {"reconcile", "restore"},
                      !.lastOp     = "Processing"]
  <2>1. /\ ext' = [ext EXCEPT ![s] = e]
        /\ queue' = IF UpdatePasses(e) THEN queue ELSE queue \ {s}
        /\ run' = [run EXCEPT ![s] = [NoRun EXCEPT !.op = op, !.config = e.config]]
        /\ pc' = [pc EXCEPT ![s] = IF op \in {"reconcile", "restore"}
                                   THEN "cluster" ELSE "delete"]
        /\ s \in queue
        /\ stale' = [stale EXCEPT ![s] = {}]
        /\ UNCHANGED <<seedVars, mr, installed, additional, infraEvent>>
    BY <1>3 DEF Dequeue
  <2>2. e.lastOp = "Processing"
    <3>1. ext[s] \in Extension
      OBVIOUS
    <3> QED
      BY <3>1 DEF Extension
  <2> HIDE DEF e, op
  <2>3. /\ ext'[s] = e /\ run'[s].config = e.config
        /\ pc'[s] \in {"cluster", "delete"}
    BY <2>1 DEF NoRun
  <2>4. Noticed(s)' /\ Marked(s)'
    BY <2>1, <2>2, <2>3 DEF Noticed, Marked
  <2>5. CurrentAt(s, pc[s], run[s])'
    BY <2>3 DEF CurrentAt, AllowedAt, ReconcilePoints, ReadPoints, AfterGateway,
       AfterDeployments
  <2>6. Lasting(s)'
    BY <2>3 DEF Lasting, Done
  <2>7. \A t \in Shoots \ {s} : Same(t)
    BY <2>1 DEF Same, seedVars
  <2> QED
    BY <2>4, <2>5, <2>6, <2>7, OneTracked DEF Tracked
<1> QED
  BY <1>2, <1>3 DEF Dequeue

LEMMA SucceedTracked ==
    ASSUME TrackInv, NEW s \in Shoots, Succeed(s)
    PROVE  \A t \in Shoots : Tracked(t)'
<1> USE TrackDomains
<1>1. pc[s] = "success" /\ Tracked(s)
  BY DEF Succeed, TrackInv
<1>2. \A t \in Shoots \ {s} : Same(t)
  BY DEF Succeed, Same, seedVars
<1>3. /\ ext'[s].phase = ext[s].phase /\ ext'[s].operation = ext[s].operation
      /\ ext'[s].config = ext[s].config
      /\ ext'[s].istioNamespace = ext[s].istioNamespace
  BY DEF Succeed, Extension
<1>4. pc'[s] = (IF run[s].op = "reconcile" THEN "idle" ELSE "release")
  BY DEF Succeed
<1>5. queue' = IF UpdatePasses(ext'[s]) THEN queue \cup {s} ELSE queue
  BY DEF Succeed
<1>6. Noticed(s)' /\ Marked(s)'
  BY <1>4, <1>5 DEF Noticed, Marked
<1>7. CurrentAt(s, pc[s], run[s])'
  BY <1>4, CurrentElsewhere DEF ReconcilePoints, ReadPoints
<1>8. ASSUME Unspoilt(s)' PROVE Lasting(s)'
  <2>1. Unspoilt(s)
    BY <1>5, <1>8 DEF Unspoilt, Succeed
  <2>2. ASSUME Done(s)', gateway'[s] # None
        PROVE  \E ns \in Namespaces : (HoldsDesired(s, ns) /\ ext[s].istioNamespace = ns)'
    <3>1. run[s].op = "reconcile"
      BY <1>4, <2>2 DEF Done
    <3>2. Done(s) /\ gateway[s] # None
      BY <1>1, <2>2, <3>1 DEF Done, Succeed, seedVars
    <3>3. PICK ns \in Namespaces : HoldsDesired(s, ns) /\ ext[s].istioNamespace = ns
      BY <1>1, <2>1, <3>2 DEF Tracked, Lasting
    <3>4. DesiredAllowed(s, ns)' = DesiredAllowed(s, ns)
      BY SameAllowed DEF Succeed, seedVars
    <3>5. Desired(s, ns)' = Desired(s, ns)
      BY <1>3, <3>4, SameDesired DEF Succeed, seedVars
    <3>6. HoldsDesired(s, ns)'
      BY <3>3, <3>5 DEF HoldsDesired, Exposed, Succeed, seedVars
    <3> QED
      BY <1>3, <3>3, <3>6
  <2> QED
    BY <1>4, <2>2 DEF Lasting
<1> QED
  BY <1>2, <1>6, <1>7, <1>8, OneTracked DEF Tracked

LEMMA ReleaseTracked ==
    ASSUME TrackInv, NEW s \in Shoots, Release(s)
    PROVE  \A t \in Shoots : Tracked(t)'
<1> USE TrackDomains
<1>1. pc[s] = "release" /\ Tracked(s) /\ Clean(s)
  BY DEF Release, TrackInv, CleanInv
<1>2. \A t \in Shoots \ {s} : Same(t)
  BY DEF Release, Same, seedVars
<1>3. pc'[s] = "idle" /\ queue \subseteq queue'
  BY DEF Release
<1>4. UpdatePasses(ext[s])
  <2>1. run[s].op \in {"restore", "delete", "migrate"}
    BY <1>1 DEF Clean, Serving, Run
  <2> QED
    BY <1>1, <2>1 DEF Clean, Serving, Migrating, UpdatePasses
<1>5. s \in queue'
  BY <1>1, <1>3, <1>4 DEF Tracked, Noticed
<1> QED
  BY <1>2, <1>3, <1>5, OneTracked, SpoiltTracked DEF Noticed, Marked, Unspoilt

LEMMA FailTracked ==
    ASSUME TrackInv, NEW s \in Shoots, Fail(s)
    PROVE  \A t \in Shoots : Tracked(t)'
<1> USE TrackDomains
<1>1. \A t \in Shoots \ {s} : Same(t)
  BY DEF Fail, Same, seedVars
<1>2. pc'[s] = "idle" /\ s \in queue'
  BY DEF Fail
<1> QED
  BY <1>1, <1>2, OneTracked, SpoiltTracked DEF Noticed, Marked, Unspoilt

-----------------------------------------------------------------------------
(* The actuator *)

\* A call of the actuator, up to the write of the ManagedResource: what the
\* worker has read has to be what the objects say.
LEMMA CallTracked ==
    ASSUME TrackInv, NEW s \in Shoots,
           UNCHANGED <<seedVars, ext, additional, queue, infraEvent, stale>>,
           \A t \in Shoots \ {s} : Same(t),
           pc[s] \notin {"idle", "release"}, pc'[s] \notin {"idle", "release", "patch"},
           pc'[s] = "success" /\ run'[s].op = "reconcile" => gateway[s] = None,
           Unspoilt(s) => CurrentAt(s, pc[s], run[s])'
    PROVE  \A t \in Shoots : Tracked(t)'
<1>1. Tracked(s)
  BY DEF TrackInv
<1>2. Noticed(s)' /\ Marked(s)'
  BY <1>1 DEF Tracked, Noticed, Marked
<1>3. Unspoilt(s)' <=> Unspoilt(s)
  BY DEF Unspoilt
<1>4. Lasting(s)'
  BY DEF Lasting, Done, seedVars
<1> QED
  BY <1>2, <1>3, <1>4, OneTracked DEF Tracked

\* The reads move one worker and leave the rest alone.
LEMMA ReadTracked ==
    ASSUME TrackInv, NEW s \in Shoots, UNCHANGED restVars,
           \/ GetCluster(s) \/ GetGateway(s) \/ ListDeployments(s) \/ GetService(s)
           \/ GetShootInfo(s) \/ GetInfrastructure(s) \/ GetIngressGateway(s),
           pc'[s] \notin {"idle", "release", "patch"},
           pc'[s] = "success" => gateway[s] = None,
           Unspoilt(s) /\ CurrentAt(s, pc[s], run[s]) => CurrentAt(s, pc[s], run[s])'
    PROVE  \A t \in Shoots : Tracked(t)'
<1>1. /\ pc[s] \in ReconcilePoints
      /\ \A t \in Shoots \ {s} : pc'[t] = pc[t] /\ run'[t] = run[t]
  BY ReadKeeps DEF TrackInv
<1>2. pc[s] \notin {"idle", "release"}
  BY <1>1 DEF ReconcilePoints, ReadPoints
<1>3. UNCHANGED <<seedVars, ext, mr, additional, queue, infraEvent, stale>>
  BY DEF restVars, objectVars
<1>4. \A t \in Shoots \ {s} : Same(t)
  BY <1>1, <1>3 DEF Same, seedVars
<1>5. Unspoilt(s) => CurrentAt(s, pc[s], run[s])'
  BY DEF TrackInv, Tracked
<1> QED
  BY <1>2, <1>3, <1>4, <1>5, CallTracked

LEMMA GetClusterTracked ==
    ASSUME TrackInv, NEW s \in Shoots, GetCluster(s)
    PROVE  \A t \in Shoots : Tracked(t)'
<1> USE TrackDomains
<1>1. pc'[s] \in {"gateway", "failed"} /\ UNCHANGED restVars
  BY DEF GetCluster, Goto
<1>2. run'[s].cluster = cluster[s] /\ run'[s].config = run[s].config
  BY DEF GetCluster, Run
<1>3. CurrentAt(s, pc[s], run[s]) => CurrentAt(s, pc[s], run[s])'
  BY <1>1, <1>2 DEF GetCluster, CurrentAt, AllowedAt, ReconcilePoints, ReadPoints,
     AfterGateway, AfterDeployments, restVars, objectVars, seedVars
<1> QED
  BY <1>1, <1>3, ReadTracked

LEMMA GetGatewayTracked ==
    ASSUME TrackInv, NEW s \in Shoots, GetGateway(s)
    PROVE  \A t \in Shoots : Tracked(t)'
<1> USE TrackDomains
<1>1. /\ pc'[s] \in {"deployments", "success", "failed"} /\ UNCHANGED restVars
      /\ pc'[s] = "success" => gateway[s] = None
  BY DEF GetGateway, Goto
<1>2. /\ run'[s].labels = gateway[s] /\ run'[s].cluster = run[s].cluster
      /\ run'[s].config = run[s].config
  BY DEF GetGateway, Run
<1>3. CurrentAt(s, pc[s], run[s]) => CurrentAt(s, pc[s], run[s])'
  BY <1>1, <1>2 DEF GetGateway, CurrentAt, AllowedAt, ReconcilePoints, ReadPoints,
     AfterGateway, AfterDeployments, restVars, objectVars, seedVars
<1> QED
  BY <1>1, <1>3, ReadTracked

LEMMA ListDeploymentsTracked ==
    ASSUME TrackInv, NEW s \in Shoots, ListDeployments(s)
    PROVE  \A t \in Shoots : Tracked(t)'
<1> USE TrackDomains
<1>1. pc'[s] \in {"service", "failed"} /\ UNCHANGED restVars
  BY DEF ListDeployments, Goto
<1>2. CASE pc'[s] = "failed"
  <2>1. CurrentAt(s, pc[s], run[s])'
    BY <1>2, CurrentElsewhere DEF ReconcilePoints, ReadPoints
  <2> QED
    BY <1>1, <2>1, ReadTracked
<1>3. CASE pc'[s] = "service"
  <2>1. PICK ns \in Namespaces :
           /\ deployments[run[s].labels] = <<ns>> /\ run[s].cluster.advertised # <<>>
           /\ run' = [run EXCEPT ![s].namespace = ns, ![s].allowed = SeedNetworks]
    BY <1>3 DEF ListDeployments, Goto
  <2>2. /\ run'[s].namespace = ns /\ run'[s].allowed = SeedNetworks
        /\ run'[s].labels = run[s].labels /\ run'[s].cluster = run[s].cluster
        /\ run'[s].config = run[s].config
    BY <2>1 DEF Run
  <2>3. run[s].labels \in Selectors
    BY DEF ListDeployments, TrackInv, CleanInv, TypeInv, ReadInv, ReadAt, AfterGateway
  <2>4. ASSUME CurrentAt(s, pc[s], run[s]) PROVE CurrentAt(s, pc[s], run[s])'
    <3>1. /\ run[s].config = ext[s].config /\ run[s].cluster = cluster[s]
          /\ run[s].labels = gateway[s]
      BY <2>4 DEF ListDeployments, CurrentAt, ReconcilePoints, ReadPoints, AfterGateway
    <3>2. Exposed(s, ns)
      BY <2>1, <2>3, <3>1, NoneAssumption DEF Exposed
    <3>3. Exposed(s, run[s].namespace)'
      BY <1>1, <2>2, <3>2 DEF Exposed, restVars, seedVars
    <3> QED
      BY <1>1, <1>3, <2>2, <3>1, <3>3 DEF CurrentAt, AllowedAt, restVars, objectVars, seedVars
  <2> QED
    BY <1>1, <1>3, <2>4, ReadTracked
<1> QED
  BY <1>1, <1>2, <1>3

LEMMA AllowTracked ==
    ASSUME TrackInv, NEW s \in Shoots, GetService(s) \/ GetShootInfo(s),
           NEW cidrs, AllowSeedEgress(s, cidrs),
           CurrentAt(s, pc[s], run[s]) => cidrs = ManagedSeedCIDRs(run[s].namespace)
    PROVE  \A t \in Shoots : Tracked(t)'
<1> USE TrackDomains
<1>1. /\ pc[s] \in {"service", "shootInfo"} /\ UNCHANGED restVars
      /\ pc'[s] = (IF s \in Workerless THEN "ingressGateway" ELSE "infrastructure")
  BY DEF GetService, GetShootInfo, AllowSeedEgress, Goto
<1>2. /\ run'[s].allowed = run[s].allowed \cup cidrs \cup additional
      /\ run'[s].namespace = run[s].namespace /\ run'[s].labels = run[s].labels
      /\ run'[s].cluster = run[s].cluster /\ run'[s].config = run[s].config
  BY DEF AllowSeedEgress, Run
<1>3. UNCHANGED <<seedVars, ext, additional>>
  BY <1>1 DEF restVars, objectVars
<1>4. ASSUME CurrentAt(s, pc[s], run[s]) PROVE CurrentAt(s, pc[s], run[s])'
  <2>1. /\ run[s].config = ext[s].config /\ run[s].cluster = cluster[s]
        /\ run[s].labels = gateway[s] /\ Exposed(s, run[s].namespace)
    BY <1>1, <1>4 DEF CurrentAt, ReconcilePoints, ReadPoints, AfterGateway, AfterDeployments
  <2>2. run'[s].allowed = SeedNetworks \cup additional \cup ManagedSeedCIDRs(run[s].namespace)
    BY <1>1, <1>2, <1>4 DEF CurrentAt, AllowedAt
  <2>3. s \in Workerless => run'[s].allowed = DesiredAllowed(s, run[s].namespace)
    BY <2>2 DEF DesiredAllowed, ManagedSeedCIDRs
  <2>4. /\ Exposed(s, run[s].namespace)'
        /\ ManagedSeedCIDRs(run[s].namespace)' = ManagedSeedCIDRs(run[s].namespace)
        /\ DesiredAllowed(s, run[s].namespace)' = DesiredAllowed(s, run[s].namespace)
    BY <1>2, <1>3, <2>1 DEF Exposed, ManagedSeedCIDRs, DesiredAllowed, seedVars
  <2>5. AllowedAt(s, pc[s], run[s])'
    BY <1>1, <1>2, <1>3, <2>2, <2>3, <2>4 DEF AllowedAt
  <2> QED
    BY <1>1, <1>2, <1>3, <2>1, <2>4, <2>5 DEF CurrentAt, seedVars
<1> QED
  BY <1>1, <1>4, ReadTracked

LEMMA GetServiceTracked ==
    ASSUME TrackInv, NEW s \in Shoots, GetService(s)
    PROVE  \A t \in Shoots : Tracked(t)'
<1> USE TrackDomains
<1>1. CASE service[run[s].namespace] # "Proxy" /\ AllowSeedEgress(s, {})
  BY <1>1, AllowTracked DEF ManagedSeedCIDRs
<1>2. CASE service[run[s].namespace] = "Proxy" /\ Goto(s, "shootInfo") /\ UNCHANGED run
  <2>1. /\ pc[s] = "service" /\ pc'[s] = "shootInfo" /\ run' = run
        /\ UNCHANGED <<seedVars, ext, additional, restVars>>
    BY <1>2 DEF GetService, Goto, restVars, objectVars
  <2>2. ASSUME CurrentAt(s, pc[s], run[s]) PROVE CurrentAt(s, pc[s], run[s])'
    BY <1>2, <2>1, <2>2 DEF CurrentAt, AllowedAt, Exposed, ReconcilePoints, ReadPoints,
       AfterGateway, AfterDeployments, seedVars
  <2> QED
    BY <2>1, <2>2, ReadTracked
<1> QED
  BY <1>1, <1>2 DEF GetService

LEMMA GetShootInfoTracked ==
    ASSUME TrackInv, NEW s \in Shoots, GetShootInfo(s)
    PROVE  \A t \in Shoots : Tracked(t)'
<1> USE TrackDomains
<1>1. CurrentAt(s, pc[s], run[s]) => service[run[s].namespace] = "Proxy"
  BY DEF GetShootInfo, CurrentAt, AllowedAt
<1>2. CASE shootInfo = None /\ AllowSeedEgress(s, {})
  BY <1>2, AllowTracked DEF ManagedSeedCIDRs
<1>3. CASE shootInfo # None /\ AllowSeedEgress(s, ToSet(shootInfo.cidrs))
  BY <1>1, <1>3, AllowTracked DEF ManagedSeedCIDRs
<1>4. CASE Goto(s, "failed") /\ UNCHANGED run
  <2>1. pc'[s] = "failed" /\ UNCHANGED restVars
    BY <1>4 DEF GetShootInfo, Goto
  <2>2. CurrentAt(s, pc[s], run[s])'
    BY <2>1, CurrentElsewhere DEF ReconcilePoints, ReadPoints
  <2> QED
    BY <2>1, <2>2, ReadTracked
<1> QED
  BY <1>2, <1>3, <1>4 DEF GetShootInfo

LEMMA GetInfrastructureTracked ==
    ASSUME TrackInv, NEW s \in Shoots, GetInfrastructure(s)
    PROVE  \A t \in Shoots : Tracked(t)'
<1> USE TrackDomains
<1>1. pc[s] = "infrastructure" /\ UNCHANGED <<seedVars, ext, additional, restVars>>
  BY DEF GetInfrastructure, restVars, objectVars
<1>2. CASE infra[s] = None
  <2>1. pc'[s] = "failed"
    BY <1>2 DEF GetInfrastructure, Goto
  <2>2. CurrentAt(s, pc[s], run[s])'
    BY <2>1, CurrentElsewhere DEF ReconcilePoints, ReadPoints
  <2> QED
    BY <1>1, <2>1, <2>2, ReadTracked
<1>3. CASE infra[s] # None
  <2>1. /\ pc'[s] = "ingressGateway"
        /\ run'[s].allowed = run[s].allowed \cup run[s].cluster.nodes \cup ToSet(infra[s])
        /\ run'[s].namespace = run[s].namespace /\ run'[s].labels = run[s].labels
        /\ run'[s].cluster = run[s].cluster /\ run'[s].config = run[s].config
    BY <1>3 DEF GetInfrastructure, Goto, Run
  <2>2. ASSUME CurrentAt(s, pc[s], run[s]) PROVE CurrentAt(s, pc[s], run[s])'
    <3>1. /\ run[s].config = ext[s].config /\ run[s].cluster = cluster[s]
          /\ run[s].labels = gateway[s] /\ Exposed(s, run[s].namespace)
      BY <1>1, <2>2 DEF CurrentAt, ReconcilePoints, ReadPoints, AfterGateway,
         AfterDeployments
    <3>2. run'[s].allowed = DesiredAllowed(s, run[s].namespace)
      BY <1>1, <2>1, <2>2, <3>1 DEF CurrentAt, AllowedAt, DesiredAllowed, ManagedSeedCIDRs
    <3>3. /\ Exposed(s, run[s].namespace)'
          /\ DesiredAllowed(s, run[s].namespace)' = DesiredAllowed(s, run[s].namespace)
      BY <1>1, <2>1, <3>1 DEF Exposed, DesiredAllowed, seedVars
    <3> QED
      BY <1>1, <2>1, <3>1, <3>2, <3>3 DEF CurrentAt, AllowedAt, seedVars
  <2> QED
    BY <1>1, <2>1, <2>2, ReadTracked
<1> QED
  BY <1>2, <1>3

LEMMA GetIngressGatewayTracked ==
    ASSUME TrackInv, NEW s \in Shoots, GetIngressGateway(s)
    PROVE  \A t \in Shoots : Tracked(t)'
<1> USE TrackDomains
<1>1. /\ pc[s] = "ingressGateway" /\ pc'[s] = "create"
      /\ UNCHANGED <<seedVars, ext, additional, restVars>>
  BY DEF GetIngressGateway, Goto, restVars, objectVars
<1>2. /\ run'[s].allowed = run[s].allowed /\ run'[s].defaultLabels = ingressGateway
      /\ run'[s].namespace = run[s].namespace /\ run'[s].labels = run[s].labels
      /\ run'[s].cluster = run[s].cluster /\ run'[s].config = run[s].config
  BY DEF GetIngressGateway, Run
<1>3. ASSUME CurrentAt(s, pc[s], run[s]) PROVE CurrentAt(s, pc[s], run[s])'
  <2>1. /\ run[s].config = ext[s].config /\ run[s].cluster = cluster[s]
        /\ run[s].labels = gateway[s] /\ Exposed(s, run[s].namespace)
        /\ run[s].allowed = DesiredAllowed(s, run[s].namespace)
    BY <1>1, <1>3 DEF CurrentAt, AllowedAt, ReconcilePoints, ReadPoints, AfterGateway,
       AfterDeployments
  <2>2. /\ Exposed(s, run[s].namespace)'
        /\ DesiredAllowed(s, run[s].namespace)' = DesiredAllowed(s, run[s].namespace)
    BY <1>1, <1>2, <2>1 DEF Exposed, DesiredAllowed, seedVars
  <2> QED
    BY <1>1, <1>2, <2>1, <2>2 DEF CurrentAt, AllowedAt, seedVars
<1> QED
  BY <1>1, <1>3, ReadTracked

LEMMA CreateTracked ==
    ASSUME TrackInv, NEW s \in Shoots, NEW answered \in BOOLEAN,
           CreateManagedResource(s, answered)
    PROVE  \A t \in Shoots : Tracked(t)'
<1> USE TrackDomains
<1>1. /\ pc[s] = "create" /\ pc'[s] = (IF answered THEN "patch" ELSE "failed")
      /\ run' = run /\ UNCHANGED <<seedVars, ext, additional, queue, infraEvent, stale>>
  BY DEF CreateManagedResource, Goto
<1>2. \A t \in Shoots \ {s} : Same(t)
  BY DEF CreateManagedResource, Goto, Same, seedVars
<1>3. /\ mr'[s].objects = Objects(run[s])
      /\ mr'[s].phase = (IF mr[s].phase = "Absent" THEN "Present" ELSE mr[s].phase)
  BY DEF CreateManagedResource
<1>4. mr'[s].phase = "Present"
  <2>1. mr[s].phase # "Deleting" /\ mr[s].phase \in {"Absent", "Present", "Deleting"}
    BY <1>1 DEF TrackInv, CleanInv, Clean, Ordered, ReconcilePoints, ManagedResource
  <2> QED
    BY <1>3, <2>1
<1>5. Noticed(s)' /\ Marked(s)'
  BY <1>1 DEF TrackInv, Tracked, Noticed, Marked
<1>6. ASSUME Unspoilt(s)' PROVE CurrentAt(s, pc[s], run[s])' /\ Lasting(s)'
  <2>1. CurrentAt(s, "create", run[s])
    BY <1>1, <1>6 DEF TrackInv, Tracked, Unspoilt
  <2>2. /\ run[s].config = ext[s].config /\ run[s].cluster = cluster[s]
        /\ run[s].labels = gateway[s] /\ Exposed(s, run[s].namespace)
        /\ run[s].allowed = DesiredAllowed(s, run[s].namespace)
        /\ run[s].defaultLabels = ingressGateway
    BY <2>1 DEF CurrentAt, AllowedAt, ReconcilePoints, AfterGateway, AfterDeployments
  <2>3. \A ns : DesiredAllowed(s, ns)' = DesiredAllowed(s, ns)
    BY <1>1, SameAllowed DEF seedVars
  <2>4. CurrentAt(s, pc[s], run[s])'
    BY <1>1, <2>2, <2>3 DEF CurrentAt, AllowedAt, Exposed, seedVars
  <2>5. Objects(run[s]) = Desired(s, run[s].namespace)
    BY <2>2, Zenon DEF Objects, Desired
  <2>6. Desired(s, run[s].namespace)' = Desired(s, run[s].namespace)
    BY <1>1, <2>3, SameDesired DEF seedVars
  <2>7. HoldsDesired(s, run[s].namespace)'
    BY <1>1, <1>3, <1>4, <2>2, <2>5, <2>6 DEF HoldsDesired, Exposed, seedVars
  <2>8. Lasting(s)'
    BY <1>1, <2>7 DEF Lasting, Done
  <2> QED
    BY <2>4, <2>8
<1> QED
  BY <1>2, <1>5, <1>6, OneTracked DEF Tracked

LEMMA PatchStatusTracked ==
    ASSUME TrackInv, NEW s \in Shoots, PatchStatus(s)
    PROVE  \A t \in Shoots : Tracked(t)'
<1> USE TrackDomains
<1>1. /\ pc[s] = "patch" /\ pc'[s] = "success" /\ run' = run
      /\ UNCHANGED <<seedVars, mr, additional, infraEvent, stale>>
  BY DEF PatchStatus, Goto
<1>2. \A t \in Shoots \ {s} : Same(t)
  BY DEF PatchStatus, Goto, Same, seedVars
<1>3. /\ ext'[s].istioNamespace = run[s].namespace /\ ext'[s].phase = ext[s].phase
      /\ ext'[s].operation = ext[s].operation /\ ext'[s].lastOp = ext[s].lastOp
      /\ ext'[s].config = ext[s].config
  BY DEF PatchStatus, Extension
<1>4. queue' = IF UpdatePasses(ext[s]) THEN queue \cup {s} ELSE queue
  BY DEF PatchStatus
<1>5. Noticed(s)' /\ Marked(s)'
  BY <1>1, <1>3, <1>4 DEF TrackInv, Tracked, Noticed, Marked, UpdatePasses
<1>6. ASSUME Unspoilt(s)' PROVE CurrentAt(s, pc[s], run[s])' /\ Lasting(s)'
  <2>1. Unspoilt(s)
    BY <1>1, <1>4, <1>6 DEF Unspoilt
  <2>2. HoldsDesired(s, run[s].namespace)
    BY <1>1, <2>1 DEF TrackInv, Tracked, Lasting
  <2>3. \A ns : DesiredAllowed(s, ns)' = DesiredAllowed(s, ns)
    BY <1>1, SameAllowed DEF seedVars
  <2>4. Desired(s, run[s].namespace)' = Desired(s, run[s].namespace)
    BY <1>1, <1>3, <2>3, SameDesired DEF seedVars
  <2>5. HoldsDesired(s, run[s].namespace)'
    BY <1>1, <2>2, <2>4 DEF HoldsDesired, Exposed, seedVars
  <2>6. run[s].namespace \in Namespaces
    BY <1>1 DEF TrackInv, CleanInv, TypeInv, ReadInv, ReadAt, AfterDeployments, AfterGateway
  <2>7. Lasting(s)'
    BY <1>1, <1>3, <2>5, <2>6 DEF Lasting
  <2>8. CurrentAt(s, pc[s], run[s])'
    BY <1>1, CurrentElsewhere DEF ReconcilePoints, ReadPoints
  <2> QED
    BY <2>7, <2>8
<1> QED
  BY <1>2, <1>5, <1>6, OneTracked DEF Tracked

\* The steps of Delete read nothing, and do not end a reconciliation.
LEMMA DeleteTracked ==
    ASSUME TrackInv, NEW s \in Shoots,
           \/ \E answered \in BOOLEAN : DeleteManagedResource(s, answered)
           \/ WaitUntilDeleted(s) \/ DeletionTimeout(s)
    PROVE  \A t \in Shoots : Tracked(t)'
<1> USE TrackDomains
<1>1. /\ pc[s] \in DeletePoints /\ pc'[s] \in {"wait", "failed", "success"} /\ run' = run
      /\ UNCHANGED <<seedVars, ext, additional, queue, infraEvent, stale>>
  BY DEF DeleteManagedResource, WaitUntilDeleted, DeletionTimeout, Goto, DeletePoints,
     restVars, objectVars
<1>2. \A t \in Shoots \ {s} : Same(t)
  BY DEF DeleteManagedResource, WaitUntilDeleted, DeletionTimeout, Goto, Same,
     restVars, objectVars, seedVars
<1>3. run[s].op # "reconcile"
  BY <1>1 DEF TrackInv, CleanInv, Clean, Serving
<1>4. CurrentAt(s, pc[s], run[s])'
  BY <1>1, CurrentElsewhere DEF ReconcilePoints, ReadPoints
<1>5. pc[s] \notin {"idle", "release"}
  BY <1>1 DEF DeletePoints
<1> QED
  BY <1>1, <1>2, <1>3, <1>4, <1>5, CallTracked

LEMMA ApiErrorTracked ==
    ASSUME TrackInv, NEW s \in Shoots, ApiError(s)
    PROVE  \A t \in Shoots : Tracked(t)'
<1> USE TrackDomains
<1>1. CASE /\ pc[s] \in ReconcilePoints \cup DeletePoints
           /\ Goto(s, "failed")
           /\ UNCHANGED <<mr, run, seedVars, ext, installed, additional, queue,
                          infraEvent, stale, changes>>
  <2>1. pc'[s] = "failed" /\ pc[s] \notin {"idle", "release"}
    BY <1>1 DEF Goto, ReconcilePoints, ReadPoints, DeletePoints
  <2>2. \A t \in Shoots \ {s} : Same(t)
    BY <1>1 DEF Goto, Same, seedVars
  <2>3. CurrentAt(s, pc[s], run[s])'
    BY <2>1, CurrentElsewhere DEF ReconcilePoints, ReadPoints
  <2> QED
    BY <1>1, <2>1, <2>2, <2>3, CallTracked
<1> QED
  BY <1>1, CreateTracked, DeleteTracked DEF ApiError

-----------------------------------------------------------------------------
(* Restarts, requests, events and changes of the seed *)

\* A shoot no worker is busy with keeps what its last reconciliation left.
LEMMA IdleLasting ==
    ASSUME NEW t, Lasting(t), pc[t] = "idle", pc'[t] = "idle",
           UNCHANGED <<ext[t], mr[t], cluster[t], gateway[t], ToSet(infra[t])>>,
           UNCHANGED <<deployments, service, shootInfo, ingressGateway, additional>>
    PROVE  Lasting(t)'
<1>1. \A ns : DesiredAllowed(t, ns)' = DesiredAllowed(t, ns)
  BY SameAllowed
<1>2. \A ns : Desired(t, ns)' = Desired(t, ns)
  BY <1>1, SameDesired
<1>3. \A ns : HoldsDesired(t, ns)' <=> HoldsDesired(t, ns)
  BY <1>2 DEF HoldsDesired, Exposed
<1> QED
  BY <1>3 DEF Lasting, Done

\* The new process looks at every shoot whose status does not say that its
\* last request has been served.
LEMMA RestartTracked ==
    ASSUME TrackInv, Restart
    PROVE  \A t \in Shoots : Tracked(t)'
<1> USE TrackDomains
<1> SUFFICES ASSUME NEW t \in Shoots PROVE Tracked(t)'
  OBVIOUS
<1>1. pc'[t] = "idle" /\ UNCHANGED <<seedVars, ext, mr>>
  BY DEF Restart, objectVars
<1>2. CurrentAt(t, pc[t], run[t])'
  BY <1>1, CurrentElsewhere DEF ReconcilePoints, ReadPoints
<1>3. ASSUME Unspoilt(t)' PROVE Lasting(t)'
  <2>1. /\ stale'[t] = stale[t]
                         \cup (IF additional' # additional THEN {"unwatched"} ELSE {})
                         \cup (IF infraEvent[t] \/ t \in queue THEN {"missed"} ELSE {})
        /\ stale'[t] = {}
    BY <1>3 DEF Unspoilt, Restart
  <2>2. additional' = additional
    BY <2>1
  <2>3. Unspoilt(t)
    BY <2>1 DEF Unspoilt
  <2>4. Lasting(t) /\ Noticed(t) /\ Marked(t)
    BY <2>3 DEF TrackInv, Tracked
  <2>5. CASE pc[t] = "idle"
    BY <1>1, <2>2, <2>4, <2>5, IdleLasting DEF seedVars
  <2>6. CASE pc[t] # "idle"
    <3>1. ~ UpdatePasses(ext[t])
      BY <2>3, <2>4, <2>6 DEF Noticed, Unspoilt
    <3>2. pc[t] # "release"
      <4>1. ASSUME pc[t] = "release" PROVE UpdatePasses(ext[t])
        <5>1. Clean(t)
          BY DEF TrackInv, CleanInv
        <5>2. run[t].op \in {"restore", "delete", "migrate"}
          BY <4>1, <5>1 DEF Clean, Serving, Run
        <5> QED
          BY <5>1, <5>2 DEF Clean, Serving, Migrating, UpdatePasses
      <4> QED
        BY <3>1, <4>1
    <3>3. ext'[t].lastOp = "Processing"
      BY <1>1, <2>4, <2>6, <3>2 DEF Marked
    <3> QED
      BY <1>1, <3>3 DEF Lasting, Done
  <2> QED
    BY <2>5, <2>6
<1> QED
  BY <1>1, <1>2, <1>3 DEF Tracked, Noticed, Marked

\* A request queues the key.
LEMMA AskTracked ==
    ASSUME TrackInv, NEW s \in Shoots, NEW e, Write(s, e), UpdatePasses(e),
           Marked(s)'
    PROVE  \A t \in Shoots : Tracked(t)'
<1>1. \A t \in Shoots \ {s} : Same(t)
  BY TrackDomains DEF Write, Same, seedVars, workVars
<1>2. s \in queue'
  BY DEF Write
<1> QED
  BY <1>1, <1>2, OneTracked, SpoiltTracked DEF Noticed, Unspoilt

\* An Extension without a finalizer is gone at once.
LEMMA GoneTracked ==
    ASSUME TrackInv, NEW s \in Shoots, Write(s, NoExtension), pc[s] = "idle"
    PROVE  \A t \in Shoots : Tracked(t)'
<1> USE TrackDomains
<1>1. ext'[s] = NoExtension /\ pc'[s] = "idle"
  BY DEF Write, workVars
<1>2. \A t \in Shoots \ {s} : Same(t)
  BY DEF Write, Same, seedVars, workVars
<1>3. CurrentAt(s, pc[s], run[s])'
  BY <1>1, CurrentElsewhere DEF ReconcilePoints, ReadPoints
<1>4. Lasting(s)'
  BY <1>1 DEF Lasting, Done, NoExtension
<1> QED
  BY <1>1, <1>2, <1>3, <1>4, OneTracked DEF Tracked, Noticed, Marked

LEMMA GardenletTracked ==
    ASSUME TrackInv, NEW s \in Shoots, Gardenlet(s)
    PROVE  \A t \in Shoots : Tracked(t)'
<1>0. Held(s) /\ Marked(s) /\ ext \in [Shoots -> Extension]
  BY TrackDomains DEF TrackInv, CleanInv, Clean, Tracked
<1>1. CASE CreateExtension(s)
  <2>1. PICK config \in ProviderConfigs, operation \in {"reconcile", "restore"} :
           Write(s, [NoExtension EXCEPT !.phase = "Live", !.config = config,
                                        !.operation = operation])
    BY <1>1 DEF CreateExtension
  <2> DEFINE e == [NoExtension EXCEPT !.phase = "Live", !.config = config,
                                      !.operation = operation]
  <2>2. UpdatePasses(e)
    BY <2>1 DEF UpdatePasses, NoExtension
  <2>3. Write(s, e)
    BY <2>1
  <2>4. Marked(s)'
    BY <1>0, <1>1, <2>3 DEF CreateExtension, Held, Write, workVars, Marked
  <2> HIDE DEF e
  <2> QED
    BY <2>2, <2>3, <2>4, AskTracked
<1>2. CASE ReconcileExtension(s)
  <2>1. PICK config \in ProviderConfigs :
           Write(s, [ext[s] EXCEPT !.config = config, !.operation = "reconcile"])
    BY <1>2 DEF ReconcileExtension
  <2> DEFINE e == [ext[s] EXCEPT !.config = config, !.operation = "reconcile"]
  <2>2. UpdatePasses(e) /\ e.lastOp = ext[s].lastOp
    BY <1>0 DEF UpdatePasses, Extension
  <2>3. Write(s, e)
    BY <2>1
  <2> HIDE DEF e
  <2>4. Marked(s)'
    BY <1>0, <2>2, <2>3 DEF Write, workVars, Marked
  <2> QED
    BY <2>2, <2>3, <2>4, AskTracked
<1>3. CASE MigrateExtension(s)
  <2> DEFINE e == [ext[s] EXCEPT !.operation = "migrate"]
  <2>1. UpdatePasses(e) /\ e.lastOp = ext[s].lastOp
    BY <1>0 DEF UpdatePasses, Extension
  <2>2. Write(s, e)
    BY <1>3 DEF MigrateExtension
  <2> HIDE DEF e
  <2>3. Marked(s)'
    BY <1>0, <2>1, <2>2 DEF Write, workVars, Marked
  <2> QED
    BY <2>1, <2>2, <2>3, AskTracked
<1>4. CASE DeleteExtension(s) /\ ext[s].finalizer
  <2> DEFINE e == [ext[s] EXCEPT !.phase = "Deleting"]
  <2>1. UpdatePasses(e) /\ e.lastOp = ext[s].lastOp
    BY <1>0 DEF UpdatePasses, Extension
  <2>2. Write(s, e)
    BY <1>4 DEF DeleteExtension
  <2> HIDE DEF e
  <2>3. Marked(s)'
    BY <1>0, <2>1, <2>2 DEF Write, workVars, Marked
  <2> QED
    BY <2>1, <2>2, <2>3, AskTracked
<1>5. CASE DeleteExtension(s) /\ ~ ext[s].finalizer
  <2>1. pc[s] = "idle" /\ Write(s, NoExtension)
    BY <1>0, <1>5 DEF Held, DeleteExtension
  <2> QED
    BY <2>1, GoneTracked
<1> QED
  BY <1>1, <1>2, <1>3, <1>4, <1>5 DEF Gardenlet

LEMMA DeliverTracked ==
    ASSUME TrackInv, NEW s \in Shoots, DeliverInfrastructureEvent(s)
    PROVE  \A t \in Shoots : Tracked(t)'
<1> USE TrackDomains
<1>1. \A t \in Shoots \ {s} : Same(t)
  BY DEF DeliverInfrastructureEvent, Same, seedVars, objectVars, workVars
<1>2. s \in queue' /\ UNCHANGED <<ext, pc>>
  BY DEF DeliverInfrastructureEvent, objectVars, workVars
<1> QED
  BY <1>1, <1>2, OneTracked, SpoiltTracked DEF TrackInv, Tracked, Noticed, Marked, Unspoilt

\* GRM changes a ManagedResource only by completing its deletion.
LEMMA GrmTracked ==
    ASSUME TrackInv, NEW s \in Shoots, Grm(s)
    PROVE  \A t \in Shoots : Tracked(t)'
<1> USE TrackDomains
<1>1. \A t \in Shoots \ {s} : Same(t)
  BY DEF Grm, GrmApply, GrmPrune, GrmDelete, GrmUnchanged, Same, seedVars, workVars
<1>2. CASE mr' = mr
  <2>1. Same(s)
    BY <1>2 DEF Grm, GrmApply, GrmPrune, GrmDelete, GrmUnchanged, Same, seedVars, workVars
  <2> QED
    BY <1>1, <2>1, OneTracked, SameTracked DEF TrackInv
<1>3. CASE mr' # mr
  <2>1. /\ mr[s].phase = "Deleting"
        /\ UNCHANGED <<seedVars, ext, additional, queue, infraEvent, stale, workVars>>
    BY <1>3 DEF Grm, GrmApply, GrmPrune, GrmDelete, GrmUnchanged
  <2>2. Noticed(s)' /\ Marked(s)'
    BY <2>1 DEF TrackInv, Tracked, Noticed, Marked, workVars
  <2>3. ASSUME Unspoilt(s)' PROVE CurrentAt(s, pc[s], run[s])' /\ Lasting(s)'
    <3>1. CurrentAt(s, pc[s], run[s]) /\ Lasting(s)
      BY <2>1, <2>3 DEF TrackInv, Tracked, Unspoilt
    <3>2. \A ns : DesiredAllowed(s, ns)' = DesiredAllowed(s, ns)
      BY <2>1, SameAllowed DEF seedVars
    <3>3. CurrentAt(s, pc[s], run[s])'
      BY <2>1, <3>1, <3>2 DEF CurrentAt, AllowedAt, Exposed, ManagedSeedCIDRs, seedVars,
         workVars
    <3>4. \A ns : ~ HoldsDesired(s, ns)
      BY <2>1 DEF HoldsDesired
    <3>5. Lasting(s)'
      BY <2>1, <3>1, <3>4 DEF Lasting, Done, seedVars, workVars
    <3> QED
      BY <3>3, <3>5
  <2> QED
    BY <1>1, <2>2, <2>3, OneTracked DEF Tracked
<1> QED
  BY <1>2, <1>3

\* A change nothing tells the controller about is on record.
LEMMA UnwatchedTracked ==
    ASSUME TrackInv, NEW S \in SUBSET Shoots, Unwatched(S),
           \A t \in Shoots \ S : Same(t)
    PROVE  \A t \in Shoots : Tracked(t)'
<1> USE TrackDomains
<1> SUFFICES ASSUME NEW t \in Shoots PROVE Tracked(t)'
  OBVIOUS
<1>1. CASE t \in S
  <2>1. stale'[t] # {} /\ UNCHANGED <<ext, queue, pc>>
    BY <1>1 DEF Unwatched, objectVars, workVars
  <2> QED
    BY <2>1, SpoiltTracked DEF TrackInv, Tracked, Noticed, Marked, Unspoilt
<1>2. CASE t \notin S
  BY <1>2, SameTracked DEF TrackInv
<1> QED
  BY <1>1, <1>2

\* The bag of the egress CIDRs, which the predicate compares, tells their set.
LEMMA SameBagSameSet ==
    ASSUME NEW p, NEW q, ToBag(p) = ToBag(q)
    PROVE  ToSet(p) = ToSet(q)
<1>1. DOMAIN ToBag(p) = ToSet(p) /\ DOMAIN ToBag(q) = ToSet(q)
  BY DEF ToBag, ToSet, Range
<1> QED
  BY <1>1

LEMMA ChangeInfrastructureTracked ==
    ASSUME TrackInv, NEW s \in Shoots, ChangeInfrastructure(s)
    PROVE  \A t \in Shoots : Tracked(t)'
<1> USE TrackDomains
<1>1. PICK i :
        /\ infra' = [infra EXCEPT ![s] = i]
        /\ infraEvent' = [infraEvent EXCEPT ![s] = @ \/ EgressCIDRsChanged(infra[s], i)]
        /\ stale' = [stale EXCEPT ![s] = IF infra[s] = None \/ i = None
                                         THEN @ \cup {"unwatched"} ELSE @]
  BY DEF ChangeInfrastructure
<1>2. UNCHANGED <<cluster, gateway, deployments, service, shootInfo, ingressGateway,
                  objectVars, additional, queue, workVars>>
  BY DEF ChangeInfrastructure
<1>3. \A t \in Shoots \ {s} : Same(t)
  BY <1>1, <1>2 DEF Same, objectVars, workVars
<1>4. Noticed(s)' /\ Marked(s)'
  BY <1>2 DEF TrackInv, Tracked, Noticed, Marked, objectVars, workVars
<1>5. CASE infra[s] = None \/ i = None
  <2>1. stale'[s] # {}
    BY <1>1, <1>5
  <2> QED
    BY <1>3, <1>4, <2>1, OneTracked, SpoiltTracked DEF Unspoilt
<1>6. CASE infra[s] # None /\ i # None /\ ToBag(infra[s]) # ToBag(i)
  <2>1. infraEvent'[s]
    BY <1>1, <1>6 DEF EgressCIDRsChanged
  <2> QED
    BY <1>3, <1>4, <2>1, OneTracked, SpoiltTracked DEF Unspoilt
<1>7. CASE infra[s] # None /\ i # None /\ ToBag(infra[s]) = ToBag(i)
  <2>1. infraEvent'[s] = infraEvent[s] /\ stale'[s] = stale[s] /\ infra'[s] = i
    BY <1>1, <1>7 DEF EgressCIDRsChanged
  <2>2. ToSet(infra'[s]) = ToSet(infra[s])
    BY <1>7, <2>1, SameBagSameSet
  <2>3. ToSet(infra[s])' = ToSet(infra[s])
    BY <2>2 DEF ToSet
  <2>4. Same(s)
    BY <1>2, <2>1, <2>3 DEF Same, objectVars, workVars
  <2> QED
    BY <1>3, <2>4, OneTracked, SameTracked DEF TrackInv
<1> QED
  BY <1>5, <1>6, <1>7

LEMMA SeedChangeTracked ==
    ASSUME TrackInv, NEW s \in Shoots, SeedChange(s)
    PROVE  \A t \in Shoots : Tracked(t)'
<1> USE TrackDomains
<1>1. CASE ChangeCluster(s) \/ ChangeGateway(s)
  <2>1. Unwatched({s}) /\ \A t \in Shoots \ {s} : Same(t)
    BY <1>1 DEF ChangeCluster, ChangeGateway, Unwatched, Same, objectVars, workVars
  <2> QED
    BY <2>1, UnwatchedTracked
<1> QED
  BY <1>1, ChangeInfrastructureTracked DEF SeedChange

LEMMA SharedChangeTracked ==
    ASSUME TrackInv, SharedChange
    PROVE  \A t \in Shoots : Tracked(t)'
<1>1. CASE Unwatched(Shoots)
  BY <1>1, UnwatchedTracked
<1>2. ASSUME NEW l \in Selectors, ChangeDeployments(l)
      PROVE  \A t \in Shoots : Tracked(t)'
  <2> DEFINE S == {s \in Shoots : gateway[s] = l}
  <2>1. PICK d : deployments' = [deployments EXCEPT ![l] = d]
    BY <1>2 DEF ChangeDeployments
  <2>2. \A t \in Shoots \ S : gateway[t] # None => UNCHANGED deployments[gateway[t]]
    BY <1>2, <2>1 DEF ChangeDeployments
  <2>3. Unwatched(S)
    BY <1>2 DEF ChangeDeployments
  <2>4. \A t \in Shoots \ S : Same(t)
    BY <1>2, <2>2 DEF ChangeDeployments, Unwatched, Same, objectVars, workVars
  <2> QED
    BY <2>3, <2>4, UnwatchedTracked
<1> QED
  BY <1>1, <1>2 DEF SharedChange, ChangeService, ChangeShootInfo, ChangeIngressGateway

LEMMA NextTrack == TrackInv /\ [Next]_vars => TrackInv'
<1> SUFFICES ASSUME TrackInv, [Next]_vars PROVE \A t \in Shoots : Tracked(t)'
  BY NextClean DEF TrackInv
<1>1. ASSUME NEW s \in Shoots, Reconcile(s) PROVE \A t \in Shoots : Tracked(t)'
  BY <1>1, GetClusterTracked, GetGatewayTracked, ListDeploymentsTracked,
     GetServiceTracked, GetShootInfoTracked, GetInfrastructureTracked,
     GetIngressGatewayTracked, CreateTracked, PatchStatusTracked DEF Reconcile
<1>2. ASSUME NEW s \in Shoots, Delete(s) PROVE \A t \in Shoots : Tracked(t)'
  BY <1>2, DeleteTracked DEF Delete
<1>3. ASSUME NEW s \in Shoots, Finish(s) PROVE \A t \in Shoots : Tracked(t)'
  BY <1>3, SucceedTracked, ReleaseTracked, FailTracked DEF Finish
<1>4. CASE UNCHANGED vars
  <2>1. \A t \in Shoots : Same(t)
    BY <1>4 DEF vars, restVars, seedVars, objectVars, workVars, Same
  <2> QED
    BY <2>1, SameTracked DEF TrackInv
<1> QED
  BY <1>1, <1>2, <1>3, <1>4, DequeueTracked, ApiErrorTracked, DeliverTracked, GrmTracked,
     GardenletTracked, SeedChangeTracked, SharedChangeTracked, RestartTracked DEF Next

LEMMA TrackAlways == Spec => []TrackInv
BY InitTrack, NextTrack, PTL DEF Spec

\* What an object says of itself, by the locals it was rendered from.
LEMMA ObjectFields ==
    ASSUME NEW r, NEW o \in Objects(r)
    PROVE  /\ o.hosts = r.cluster.advertised /\ o.rule = r.config
           /\ o.allowed = r.allowed
           /\ \/ /\ o.kind \in {"api", "vpn", "http-proxy"}
                 /\ o.namespace = r.namespace /\ o.labels = r.labels
              \/ /\ o.kind = "ingress" /\ o.namespace = "istio-ingress"
                 /\ o.labels = r.defaultLabels /\ r.defaultLabels # None
                 /\ IngressDomain # ""
<1> DEFINE Obj(kind, namespace, labels) ==
        [kind |-> kind, namespace |-> namespace, labels |-> labels,
         hosts |-> r.cluster.advertised, rule |-> r.config, allowed |-> r.allowed]
<1>1. \/ \E kind \in {"api", "vpn", "http-proxy"} : o = Obj(kind, r.namespace, r.labels)
      \/ /\ o = Obj("ingress", "istio-ingress", r.defaultLabels)
         /\ r.defaultLabels # None /\ IngressDomain # ""
  BY Zenon DEF Objects
<1>2. ASSUME NEW kind, NEW namespace, NEW labels, o = Obj(kind, namespace, labels)
      PROVE  /\ o.kind = kind /\ o.namespace = namespace /\ o.labels = labels
             /\ o.hosts = r.cluster.advertised /\ o.rule = r.config
             /\ o.allowed = r.allowed
  BY <1>2
<1> HIDE DEF Obj
<1> QED
  BY <1>1, <1>2

\* A settled shoot that nothing unwatched has touched holds what it should.
LEMMA SettledHolds ==
    ASSUME TrackInv, NEW s \in Shoots, Settled(s), stale[s] = {}, gateway[s] # None
    PROVE  \E ns \in Namespaces : HoldsDesired(s, ns) /\ ext[s].istioNamespace = ns
BY DEF TrackInv, Tracked, Unspoilt, Lasting, Done, Settled

\* When a request has been served and no unwatched input has changed since,
\* the ManagedResource holds what the seed calls for now, although Reconcile
\* reads its inputs one after the other while they change (actuator.go:109).
THEOREM SettledIsUpToDate == Spec => []UpToDateWhenSettled
<1>1. ASSUME TrackInv PROVE UpToDateWhenSettled
  <2> SUFFICES ASSUME NEW s \in Shoots, Settled(s), stale[s] = {}, gateway[s] # None
               PROVE  /\ mr[s].phase = "Present"
                      /\ \E ns \in Namespaces :
                            deployments[gateway[s]] = <<ns>> /\ mr[s].objects = Desired(s, ns)
    BY DEF UpToDateWhenSettled
  <2>1. PICK ns \in Namespaces : HoldsDesired(s, ns)
    BY <1>1, SettledHolds
  <2> QED
    BY <2>1 DEF HoldsDesired, Exposed
<1> QED
  BY <1>1, TrackAlways, PTL

\* The namespace recorded in the Extension's status is then the one its
\* filters are in, although the two are written one after the other and the
\* second write may fail (actuator.go:187, 204).
THEOREM RecordMatches == Spec => []RecordedNamespaceMatches
<1>1. ASSUME TrackInv PROVE RecordedNamespaceMatches
  <2> SUFFICES ASSUME NEW s \in Shoots, Settled(s), stale[s] = {}, gateway[s] # None,
                      NEW o \in mr[s].objects, o.kind # "ingress"
               PROVE  o.namespace = ext[s].istioNamespace
    BY DEF RecordedNamespaceMatches
  <2>1. PICK ns \in Namespaces : HoldsDesired(s, ns) /\ ext[s].istioNamespace = ns
    BY <1>1, SettledHolds
  <2> DEFINE r == [config |-> ext[s].config, cluster |-> cluster[s], namespace |-> ns,
                   labels |-> gateway[s], allowed |-> DesiredAllowed(s, ns),
                   defaultLabels |-> ingressGateway]
  <2>2. o \in Objects(r) /\ r.namespace = ns
    BY <2>1 DEF HoldsDesired, Desired
  <2> HIDE DEF r
  <2>3. o.namespace = ns
    BY <2>2, ObjectFields
  <2> QED
    BY <2>1, <2>3
<1> QED
  BY <1>1, TrackAlways, PTL
=============================================================================
