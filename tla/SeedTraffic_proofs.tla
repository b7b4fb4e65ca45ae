------------------------- MODULE SeedTraffic_proofs -------------------------
(***************************************************************************)
(* The traffic of all shoots of a seed, for any number of shoots and at    *)
(* every step of the controller and of GRM: who has a filter on which      *)
(* host, whose traffic it decides about, and what a shoot's filters admit  *)
(* once they are deployed.                                                 *)
(***************************************************************************)
EXTENDS SeedTraffic, AclContents_proofs, EnvoyFilters_proofs

-----------------------------------------------------------------------------
(* The hosts in the filters *)

\* The hosts are those that the Cluster of s advertises in some state.
OwnHosts(s, hosts) ==
    hosts # <<>> /\ \E c \in ClusterStates[s] : hosts = c.advertised

\* Every filter of s, and every one on its way, is for hosts of s.
HostInv ==
    \A s \in Shoots :
        /\ cluster[s] \in ClusterStates[s]
        /\ pc[s] \in Validated => run[s].cluster \in ClusterStates[s]
        /\ pc[s] \in AfterDeployments => run[s].cluster.advertised # <<>>
        /\ \A o \in Rendered(s) : OwnHosts(s, o.hosts)

\* What every step guarantees of the Cluster a worker s holds: it is the one
\* it held, or has just been read, and is checked before it is used.
ClusterHeld(s) ==
    /\ pc'[s] \in Validated =>
          \/ run'[s].cluster = cluster[s]
          \/ pc[s] \in Validated /\ run'[s].cluster = run[s].cluster
    /\ pc'[s] \in AfterDeployments =>
          \/ run'[s].cluster.advertised # <<>>
          \/ pc[s] \in AfterDeployments /\ run'[s].cluster = run[s].cluster

LEMMA KeptHosts ==
    ASSUME HostInv, Kept, \A s \in Shoots : ClusterHeld(s),
           \A s \in Shoots : cluster'[s] \in ClusterStates[s]
    PROVE  HostInv'
<1> SUFFICES ASSUME NEW s \in Shoots
             PROVE  /\ pc'[s] \in Validated => run'[s].cluster \in ClusterStates[s]
                    /\ pc'[s] \in AfterDeployments => run'[s].cluster.advertised # <<>>
                    /\ \A o \in Rendered(s)' : OwnHosts(s, o.hosts)
  BY DEF HostInv, OwnHosts
<1> QED
  BY DEF HostInv, Kept, ClusterHeld

\* A worker whose locals stay, or that gets out of Reconcile.
LEMMA WorkerHolds ==
    ASSUME NEW s, \/ UNCHANGED <<pc[s], run[s]>>
                  \/ pc'[s] \notin Validated
    PROVE  ClusterHeld(s)
BY DEF ClusterHeld, Validated, AfterDeployments, AfterGateway, ReconcilePoints, ReadPoints

LEMMA ReadHolds ==
    ASSUME CleanInv, NEW s \in Shoots,
           \/ GetCluster(s) \/ GetGateway(s) \/ ListDeployments(s) \/ GetService(s)
           \/ GetShootInfo(s) \/ GetInfrastructure(s) \/ GetIngressGateway(s)
           \/ PatchStatus(s)
    PROVE  \A t \in Shoots : ClusterHeld(t)
<1> USE Domains
<1>1. \A t \in Shoots \ {s} : ClusterHeld(t)
  BY ReadKeeps, WorkerHolds
<1>2. CASE GetCluster(s)
  <2>1. run'[s].cluster = cluster[s] /\ pc'[s] \in {"gateway", "failed"}
    BY <1>2 DEF GetCluster, Goto, Run
  <2> QED
    BY <1>1, <2>1 DEF ClusterHeld, AfterDeployments, AfterGateway
<1>3. CASE ListDeployments(s)
  <2>1. /\ run'[s].cluster = run[s].cluster /\ pc'[s] \in {"service", "failed"}
        /\ pc'[s] = "service" => run[s].cluster.advertised # <<>>
        /\ pc[s] \in Validated
    BY <1>3 DEF ListDeployments, Goto, Run, Validated, ReconcilePoints, ReadPoints
  <2> QED
    BY <1>1, <2>1 DEF ClusterHeld, AfterDeployments, AfterGateway
<1>4. CASE GetGateway(s)
  <2>1. /\ run'[s].cluster = run[s].cluster /\ pc'[s] \in {"deployments", "success", "failed"}
        /\ pc[s] \in Validated
    BY <1>4 DEF GetGateway, Goto, Run, Validated, ReconcilePoints, ReadPoints
  <2> QED
    BY <1>1, <2>1 DEF ClusterHeld, AfterDeployments, AfterGateway
<1>5. CASE ~ (GetCluster(s) \/ GetGateway(s) \/ ListDeployments(s))
  <2>1. pc[s] \in AfterDeployments
    BY <1>5 DEF GetService, GetShootInfo, GetInfrastructure, GetIngressGateway, PatchStatus,
       AfterDeployments, AfterGateway
  <2>2. run'[s].cluster = run[s].cluster
    <3>1. ASSUME NEW cidrs, AllowSeedEgress(s, cidrs) PROVE run'[s].cluster = run[s].cluster
      BY <3>1 DEF AllowSeedEgress, Run
    <3>2. CASE GetService(s) \/ GetShootInfo(s)
      BY <3>1, <3>2 DEF GetService, GetShootInfo
    <3>3. CASE GetInfrastructure(s) \/ GetIngressGateway(s) \/ PatchStatus(s)
      BY <3>3 DEF GetInfrastructure, GetIngressGateway, PatchStatus, Run
    <3> QED
      BY <1>5, <3>2, <3>3
  <2>3. pc[s] \in Validated
    BY <2>1 DEF Validated, AfterDeployments, AfterGateway, ReconcilePoints, ReadPoints
  <2> QED
    BY <1>1, <2>1, <2>2, <2>3 DEF ClusterHeld
<1> QED
  BY <1>2, <1>3, <1>4, <1>5

LEMMA CreateHosts ==
    ASSUME CleanInv, HostInv, NEW s \in Shoots, NEW answered,
           CreateManagedResource(s, answered)
    PROVE  HostInv'
<1> USE Domains
<1>1. run[s].cluster \in ClusterStates[s] /\ run[s].cluster.advertised # <<>>
  BY DEF CreateManagedResource, HostInv, Validated, ReconcilePoints, AfterDeployments,
     AfterGateway
<1>2. mr'[s].objects = Objects(run[s]) /\ \A t \in Shoots \ {s} : mr'[t] = mr[t]
  BY DEF CreateManagedResource
<1>3. UNCHANGED <<installed, run, cluster>>
  BY DEF CreateManagedResource, seedVars
<1>4. ASSUME NEW o \in Objects(run[s]) PROVE OwnHosts(s, o.hosts)
  BY <1>1, ObjectFields DEF OwnHosts
<1>5. \A t \in Shoots : \A o \in Rendered(t)' : OwnHosts(t, o.hosts)
  BY <1>2, <1>3, <1>4 DEF HostInv, Rendered
<1>6. \A t \in Shoots :
         /\ pc'[t] \in Validated => pc[t] \in Validated
         /\ pc'[t] \in AfterDeployments => pc[t] \in AfterDeployments
  BY DEF CreateManagedResource, Goto, Validated, ReconcilePoints, AfterDeployments,
     AfterGateway
<1> QED
  BY <1>3, <1>5, <1>6 DEF HostInv, OwnHosts

\* Steps of a worker that does not reconcile.
LEMMA ElsewhereHosts ==
    ASSUME CleanInv, HostInv, NEW s \in Shoots, Kept, cluster' = cluster,
           \A t \in Shoots \ {s} : UNCHANGED <<pc[t], run[t]>>,
           UNCHANGED <<pc[s], run[s]>> \/ pc'[s] \notin Validated
    PROVE  HostInv'
<1>1. \A t \in Shoots : ClusterHeld(t)
  BY WorkerHolds
<1> QED
  BY <1>1, KeptHosts DEF HostInv

LEMMA ReconcilerHosts ==
    ASSUME CleanInv, HostInv, NEW s \in Shoots, Dequeue(s) \/ Finish(s) \/ Delete(s)
    PROVE  HostInv'
<1> USE Domains
<1>1. Kept /\ cluster' = cluster
  BY FinishKept DEF Dequeue, Finish, Succeed, Release, Fail, Delete, DeleteManagedResource,
     WaitUntilDeleted, DeletionTimeout, restVars, seedVars
<1>2. \A t \in Shoots \ {s} : UNCHANGED <<pc[t], run[t]>>
  BY DEF Dequeue, Finish, Succeed, Release, Fail, Delete, DeleteManagedResource,
     WaitUntilDeleted, DeletionTimeout, Goto, workVars
<1>3. UNCHANGED <<pc[s], run[s]>> \/ pc'[s] \notin Validated
  BY DEF Dequeue, Finish, Succeed, Release, Fail, Delete, DeleteManagedResource,
     WaitUntilDeleted, DeletionTimeout, Goto, workVars, Validated, ReconcilePoints, ReadPoints
<1> QED
  BY <1>1, <1>2, <1>3, ElsewhereHosts

LEMMA ReconcileHosts ==
    ASSUME CleanInv, HostInv, NEW s \in Shoots, Reconcile(s)
    PROVE  HostInv'
<1>1. CASE CreateManagedResource(s, TRUE)
  BY <1>1, CreateHosts
<1>2. CASE ~ CreateManagedResource(s, TRUE)
  <2>1. UNCHANGED <<mr, installed, cluster>>
    BY <1>2 DEF Reconcile, GetCluster, GetGateway, ListDeployments, GetService,
       GetShootInfo, GetInfrastructure, GetIngressGateway, PatchStatus, restVars, objectVars,
       seedVars
  <2>2. Kept
    BY <2>1 DEF Kept, Rendered
  <2>3. \A t \in Shoots : ClusterHeld(t)
    BY <1>2, ReadHolds DEF Reconcile
  <2> QED
    BY <2>1, <2>2, <2>3, KeptHosts DEF HostInv
<1> QED
  BY <1>1, <1>2

LEMMA ApiErrorHosts ==
    ASSUME CleanInv, HostInv, NEW s \in Shoots, ApiError(s)
    PROVE  HostInv'
<1> USE Domains
<1>1. CASE Goto(s, "failed") /\ UNCHANGED <<mr, run, installed, seedVars>>
  <2>1. Kept
    BY <1>1 DEF Kept, Rendered
  <2> QED
    BY <1>1, <2>1, ElsewhereHosts DEF Goto, seedVars, Validated, ReconcilePoints, ReadPoints
<1>2. CASE DeleteManagedResource(s, FALSE)
  BY <1>2, DeleteKept, ElsewhereHosts DEF DeleteManagedResource, Goto, seedVars, Validated,
     ReconcilePoints, ReadPoints
<1> QED
  BY <1>1, <1>2, CreateHosts DEF ApiError

\* Everything that leaves the objects and the workers alone, and a restart.
LEMMA OtherHosts ==
    ASSUME HostInv, UNCHANGED <<mr, installed>>,
           \A s \in Shoots : cluster'[s] \in ClusterStates[s],
           UNCHANGED workVars \/ \A s \in Shoots : pc'[s] = "idle"
    PROVE  HostInv'
<1>1. Kept
  BY DEF Kept, Rendered
<1>2. \A s \in Shoots : ClusterHeld(s)
  BY WorkerHolds DEF workVars, Validated, ReconcilePoints, ReadPoints
<1> QED
  BY <1>1, <1>2, KeptHosts

LEMMA NextHosts == CleanInv /\ HostInv /\ [Next]_vars => HostInv'
<1> SUFFICES ASSUME CleanInv, HostInv, [Next]_vars PROVE HostInv'
  OBVIOUS
<1>1. ASSUME NEW s \in Shoots, Gardenlet(s)
      PROVE  HostInv'
  <2>1. ASSUME NEW e, Write(s, e) PROVE UNCHANGED <<mr, installed, workVars, cluster>>
    BY <2>1 DEF Write, seedVars
  <2>2. UNCHANGED <<mr, installed, workVars, cluster>>
    BY <1>1, <2>1 DEF Gardenlet, CreateExtension, ReconcileExtension,
       MigrateExtension, DeleteExtension
  <2> QED
    BY <2>2, OtherHosts DEF HostInv
<1>2. ASSUME NEW s \in Shoots, Grm(s)
      PROVE  HostInv'
  BY <1>2, GrmKept, ElsewhereHosts DEF Grm, GrmApply, GrmPrune, GrmDelete, GrmUnchanged,
     seedVars, workVars
<1>3. ASSUME NEW s \in Shoots, DeliverInfrastructureEvent(s) \/ SeedChange(s)
      PROVE  HostInv'
  <2>1. UNCHANGED <<objectVars, workVars>>
    BY <1>3 DEF DeliverInfrastructureEvent, SeedChange, ChangeCluster,
       ChangeGateway, ChangeInfrastructure, Unwatched
  <2>2. \A t \in Shoots : cluster'[t] \in ClusterStates[t]
    <3>1. cluster \in [Shoots -> Cluster]
      BY DEF CleanInv, TypeInv, TypeOK, SeedType
    <3>2. CASE ChangeCluster(s)
      BY <3>1, <3>2 DEF ChangeCluster, HostInv
    <3>3. CASE ~ ChangeCluster(s)
      BY <1>3, <3>3 DEF HostInv, DeliverInfrastructureEvent, SeedChange, ChangeGateway,
         ChangeInfrastructure, seedVars
    <3> QED
      BY <3>2, <3>3
  <2> QED
    BY <2>1, <2>2, OtherHosts DEF objectVars
<1>4. CASE SharedChange
  <2>1. UNCHANGED <<objectVars, workVars, cluster>>
    BY <1>4 DEF SharedChange, ChangeDeployments, ChangeService, ChangeShootInfo,
       ChangeIngressGateway, Unwatched
  <2> QED
    BY <2>1, OtherHosts DEF objectVars, HostInv
<1>5. CASE Restart
  BY <1>5, OtherHosts DEF Restart, objectVars, seedVars, HostInv
<1>6. CASE UNCHANGED vars
  BY <1>6, OtherHosts DEF vars, restVars, objectVars, seedVars, HostInv
<1> QED
  BY <1>1, <1>2, <1>3, <1>4, <1>5, <1>6, ReconcilerHosts, ReconcileHosts, ApiErrorHosts DEF Next

LEMMA HostsAlways == Spec => [](HostInv /\ TrackInv)
<1>1. Init => HostInv
  BY DEF Init, HostInv, Rendered, NoManagedResource, Validated, ReconcilePoints, ReadPoints,
     AfterDeployments, AfterGateway
<1> QED
  BY <1>1, NextHosts, CleanAlways, TrackAlways, PTL DEF Spec

-----------------------------------------------------------------------------
(* The filters of one shoot and the connections to all of them *)

ShortID(s) == ComputeShortShootID(TechnicalID[s])

\* No two shoots advertise a host, in whatever states their Clusters are.
HostsAreDistinct ==
    \A s, t \in Shoots : s # t =>
        \A c \in ClusterStates[s], d \in ClusterStates[t] :
            ToSet(c.advertised) \cap ToSet(d.advertised) = {}

\* What the EnvoyFilter behind an object is, by the object's kind.
LEMMA BuiltIs ==
    ASSUME NEW s, NEW o
    PROVE  /\ o.kind = "api" =>
                 Built(s, o) = CreateAPIConfigPatchFromRule(o.rule, o.hosts, o.allowed)
           /\ o.kind = "ingress" =>
                 Built(s, o) = CreateIngressConfigPatchFromRule(o.rule, ShortID(s), o.allowed)
           /\ o.kind = "vpn" =>
                 Built(s, o) = BuildProxyEnvoyFilterSpec("8132", TechnicalID[s], o.rule, o.allowed)
           /\ o.kind = "http-proxy" =>
                 Built(s, o) = BuildProxyEnvoyFilterSpec("8443", TechnicalID[s], o.rule, o.allowed)
BY DEF Built, ShortID, BuildVPNEnvoyFilterSpec, BuildHTTPProxyEnvoyFilterSpec

\* The chain a filter is inserted into.
LEMMA Chains ==
    ASSUME NEW s, NEW o
    PROVE  /\ o.kind = "api" => Built(s, o).chain = <<"sni", o.hosts[1]>>
           /\ o.kind = "ingress" => Built(s, o).chain = <<"sni", "*", IngressDomain>>
           /\ o.kind = "vpn" => Built(s, o).chain = <<"listener", "8132">>
           /\ o.kind = "http-proxy" => Built(s, o).chain = <<"listener", "8443">>
<1>1. ASSUME NEW rule, NEW hosts, NEW allowed
      PROVE  CreateAPIConfigPatchFromRule(rule, hosts, allowed).chain = <<"sni", hosts[1]>>
  BY DEF CreateAPIConfigPatchFromRule
<1>2. ASSUME NEW rule, NEW id, NEW allowed
      PROVE  CreateIngressConfigPatchFromRule(rule, id, allowed).chain
                = <<"sni", "*", IngressDomain>>
  BY DEF CreateIngressConfigPatchFromRule
<1>3. ASSUME NEW port, NEW id, NEW rule, NEW allowed
      PROVE  BuildProxyEnvoyFilterSpec(port, id, rule, allowed).chain = <<"listener", port>>
  BY DEF BuildProxyEnvoyFilterSpec
<1> QED
  BY <1>1, <1>2, <1>3, BuiltIs

\* Where a connection to shoot t matches.
LEMMA ConnToMatches ==
    ASSUME NEW t \in Shoots, NEW source \in Addr, NEW remote \in Addr, NEW s \in Shoots
    PROVE  LET c == ConnTo(t, source, remote) IN
              /\ c.remote_ip \in Addr
              /\ HasInnerLabel(c.header, TechnicalID[s]) <=> TechnicalID[s] = TechnicalID[t]
              /\ IsStrictSuffix(ShortID(s), c.serverName) <=> IsSuffix(ShortID(s), ShortID(t))
<1> DEFINE c == ConnTo(t, source, remote)
<1>1. /\ c.remote_ip = remote /\ c.serverName = <<"gu">> \o ShortID(t)
      /\ c.header = << <<"kube", "apiserver">>, TechnicalID[t], <<"svc">> >>
  BY DEF ConnTo, ShortID
<1> HIDE DEF c
<1>2. ShortID(s) \in Seq(Part) /\ ShortID(t) \in Seq(Part)
  BY TechnicalIDAssumption, ShortIDType DEF ShortID
<1>3. HasInnerLabel(c.header, TechnicalID[s]) <=> TechnicalID[s] = TechnicalID[t]
  BY <1>1, HeaderNames
<1>4. IsStrictSuffix(ShortID(s), c.serverName) <=> IsSuffix(ShortID(s), ShortID(t))
  BY <1>1, <1>2, ServerNameEnds
<1> QED
  BY <1>1, <1>3, <1>4 DEF c

\* A filter in a shared chain, for a connection to another shoot.
LEMMA SharedFilters ==
    ASSUME NoShortIDEndsWithAnother(TechnicalID), NEW s \in Shoots, NEW t \in Shoots \ {s},
           NEW source \in Addr, NEW remote \in Addr, NEW o,
           o.kind \in {"vpn", "http-proxy", "ingress"}
    PROVE  Admits(Built(s, o), ConnTo(t, source, remote))
<1>1. ~ IsSuffix(ShortID(s), ShortID(t))
  BY TechnicalIDAssumption DEF NoShortIDEndsWithAnother, ShortID
<1>2. TechnicalID[s] # TechnicalID[t]
  <2>1. ShortID(s) \in Seq(Part)
    BY TechnicalIDAssumption, ShortIDType DEF ShortID
  <2> QED
    BY <1>1, <2>1, SuffixOfItself DEF ShortID
<1> DEFINE c == ConnTo(t, source, remote)
<1>3. /\ c.remote_ip \in Addr /\ ~ HasInnerLabel(c.header, TechnicalID[s])
      /\ ~ IsStrictSuffix(ShortID(s), c.serverName)
  BY <1>1, <1>2, ConnToMatches
<1> HIDE DEF c
<1>4. CASE o.kind = "ingress"
  BY <1>3, <1>4, BuiltIs, IngressFilterLeavesOthersAlone DEF c
<1>5. CASE o.kind = "vpn" \/ o.kind = "http-proxy"
  BY <1>3, <1>5, BuiltIs, ProxyFilterLeavesOthersAlone DEF c
<1> QED
  BY <1>4, <1>5

\* A filter for the shoot's own traffic.
LEMMA OwnFilters ==
    ASSUME NEW t \in Shoots, NEW source \in Addr, NEW remote \in Addr, NEW o,
           o.kind \in Kinds, o.rule.action = "ALLOW"
    PROVE  Admits(Built(t, o), ConnTo(t, source, remote))
              <=> RuleAdmits(o.rule, o.allowed, ConnTo(t, source, remote))
<1> DEFINE c == ConnTo(t, source, remote)
<1>1. ShortID(t) \in Seq(Part)
  BY TechnicalIDAssumption, ShortIDType DEF ShortID
<1>2. /\ c.remote_ip \in Addr /\ HasInnerLabel(c.header, TechnicalID[t])
      /\ IsStrictSuffix(ShortID(t), c.serverName)
  BY <1>1, ConnToMatches, SuffixOfItself
<1> HIDE DEF c
<1>3. CASE o.kind = "api"
  BY <1>3, BuiltIs, APIFilterFollowsAllowRule DEF c
<1>4. CASE o.kind = "ingress"
  BY <1>2, <1>4, BuiltIs, IngressFilterFollowsAllowRule DEF c
<1>5. CASE o.kind = "vpn" \/ o.kind = "http-proxy"
  BY <1>2, <1>5, BuiltIs, ProxyFilterFollowsAllowRule DEF c
<1> QED
  BY <1>3, <1>4, <1>5 DEF Kinds

\* The API filter of a shoot is in none of the chains to another one.
LEMMA APIChainIsOwn ==
    ASSUME HostInv, HostsAreDistinct, NEW s \in Shoots, NEW t \in Shoots \ {s},
           NEW o \in Rendered(s), o.kind = "api"
    PROVE  Built(s, o).chain \notin ChainsTo(t)
<1>1. PICK c \in ClusterStates[s] : o.hosts = c.advertised /\ o.hosts # <<>>
  BY DEF HostInv, OwnHosts
<1>2. o.hosts[1] \in ToSet(o.hosts)
  <2>1. o.hosts \in Seq(STRING)
    BY <1>1, ValuesAssumption
  <2> QED
    BY <1>1, <2>1, EmptySeq, LenProperties DEF ToSet
<1>3. o.hosts[1] \notin Hosts(t)
  BY <1>1, <1>2 DEF HostInv, HostsAreDistinct, Hosts
<1>4. Built(s, o).chain = <<"sni", o.hosts[1]>>
  BY Chains
<1>5. <<"sni", o.hosts[1]>> \notin {<<"sni", h>> : h \in Hosts(t)}
  BY <1>3
<1>6. <<"sni", o.hosts[1]>> \notin {<<"listener", "8132">>, <<"listener", "8443">>,
                                    <<"sni", "*", IngressDomain>>}
  OBVIOUS
<1> QED
  BY <1>4, <1>5, <1>6 DEF ChainsTo

-----------------------------------------------------------------------------
(* Theorems *)

\* The filters one shoot has got installed let the traffic to another pass.
LEMMA OthersFromInv ==
    ASSUME NoShortIDEndsWithAnother(TechnicalID), HostsAreDistinct, HostInv, TrackInv
    PROVE  OthersUnaffected
<1> SUFFICES ASSUME NEW s \in Shoots, NEW o \in installed[s], NEW t \in Shoots \ {s},
                    Built(s, o).chain \in ChainsTo(t),
                    NEW source \in Addr, NEW remote \in Addr
             PROVE  Admits(Built(s, o), ConnTo(t, source, remote))
  BY DEF OthersUnaffected
<1>1. o.kind \in Kinds
  BY TrackDomains, Domains DEF Object
<1>2. o.kind # "api"
  BY APIChainIsOwn DEF Rendered
<1> QED
  BY <1>1, <1>2, SharedFilters DEF Kinds

\* At every step of any number of shoots, while filters are rewritten, applied,
\* pruned and deleted one by one: no filter of one shoot decides about the
\* traffic to another one in a chain that traffic enters, provided that no short
\* ID ends with another (the run filter_clash shows that this is needed) and no
\* host is advertised twice.
THEOREM FiltersOfOthersDoNotMatter ==
    NoShortIDEndsWithAnother(TechnicalID) /\ HostsAreDistinct => (Spec => []OthersUnaffected)
<1> SUFFICES ASSUME NoShortIDEndsWithAnother(TechnicalID), HostsAreDistinct
             PROVE  Spec => []OthersUnaffected
  OBVIOUS
<1> QED
  BY HostsAlways, OthersFromInv, PTL

\* What a deployed shoot has got installed: filters made from the inputs of now,
\* one of each kind in the namespace its Gateway selects.
LEMMA DeployedFilters ==
    ASSUME TrackInv, NEW t \in Shoots, Deployed(t), NEW home \in ToSet(deployments[gateway[t]])
    PROVE  /\ deployments[gateway[t]] = <<home>> /\ cluster[t].advertised # <<>>
           /\ \A o \in installed[t] :
                 /\ o.rule = ext[t].config /\ o.hosts = cluster[t].advertised
                 /\ o.allowed = DesiredAllowed(t, home)
           /\ \A kind \in {"api", "vpn", "http-proxy"} : \E o \in installed[t] :
                 o.kind = kind /\ o.namespace = home /\ o.labels = gateway[t]
<1> DEFINE r == [config |-> ext[t].config, cluster |-> cluster[t], namespace |-> home,
                 labels |-> gateway[t], allowed |-> DesiredAllowed(t, home),
                 defaultLabels |-> ingressGateway]
<1>1. PICK ns \in Namespaces : HoldsDesired(t, ns)
  BY SettledHolds DEF Deployed
<1>2. deployments[gateway[t]] = <<ns>> /\ ns = home /\ cluster[t].advertised # <<>>
  BY <1>1 DEF HoldsDesired, Exposed, ToSet
<1>3. installed[t] = Objects(r)
  BY <1>1, <1>2 DEF Deployed, HoldsDesired, Desired
<1>4. /\ r.config = ext[t].config /\ r.cluster.advertised = cluster[t].advertised
      /\ r.allowed = DesiredAllowed(t, home) /\ r.namespace = home /\ r.labels = gateway[t]
  OBVIOUS
<1> HIDE DEF r
<1>5. \A o \in installed[t] :
         /\ o.rule = ext[t].config /\ o.hosts = cluster[t].advertised
         /\ o.allowed = DesiredAllowed(t, home)
  <2> TAKE o \in installed[t]
  <2>1. o \in Objects(r)
    BY <1>3
  <2>2. o.hosts = r.cluster.advertised /\ o.rule = r.config /\ o.allowed = r.allowed
    BY <2>1, ObjectFields
  <2> QED
    BY <1>4, <2>2
<1>6. ASSUME NEW kind \in {"api", "vpn", "http-proxy"}
      PROVE  \E o \in installed[t] :
                o.kind = kind /\ o.namespace = home /\ o.labels = gateway[t]
  <2> DEFINE o == [kind |-> kind, namespace |-> r.namespace, labels |-> r.labels,
                   hosts |-> r.cluster.advertised, rule |-> r.config, allowed |-> r.allowed]
  <2>1. o \in Objects(r)
    BY Zenon DEF Objects
  <2>2. o.kind = kind /\ o.namespace = home /\ o.labels = gateway[t]
    BY <1>4
  <2> HIDE DEF o
  <2> QED
    BY <1>3, <2>1, <2>2
<1> QED
  BY <1>2, <1>5, <1>6

LEMMA ProtectedFromInv == TrackInv => ProtectedWhereExposed
<1> SUFFICES ASSUME TrackInv, NEW t \in Shoots, Deployed(t),
                    NEW ns \in ToSet(deployments[gateway[t]])
             PROVE  {<<"sni", cluster[t].advertised[1]>>, <<"listener", "8132">>,
                     <<"listener", "8443">>} \subseteq FilteredIn(t, ns)
  BY DEF ProtectedWhereExposed
<1> DEFINE chain(kind) == CASE kind = "api"        -> <<"sni", cluster[t].advertised[1]>>
                            [] kind = "vpn"        -> <<"listener", "8132">>
                            [] kind = "http-proxy" -> <<"listener", "8443">>
<1>1. cluster[t].advertised[1] \in Hosts(t)
  <2>1. cluster[t].advertised \in Seq(STRING) /\ cluster[t].advertised # <<>>
    BY DeployedFilters, TrackDomains DEF Cluster
  <2>2. 1 \in DOMAIN cluster[t].advertised
    BY <2>1, EmptySeq, LenProperties
  <2> QED
    BY <2>2 DEF Hosts, ToSet
<1>2. ASSUME NEW kind \in {"api", "vpn", "http-proxy"}
      PROVE  chain(kind) \in FilteredIn(t, ns)
  <2>1. PICK o \in installed[t] :
           o.kind = kind /\ o.namespace = ns /\ o.labels = gateway[t]
    BY DeployedFilters
  <2>2. deployments[gateway[t]] = <<ns>> /\ o.hosts = cluster[t].advertised
    <3>1. deployments[gateway[t]] = <<ns>>
      BY DeployedFilters
    <3>2. o.hosts = cluster[t].advertised
      BY DeployedFilters
    <3> QED
      BY <3>1, <3>2
  <2>3. ns \in ToSet(deployments[o.labels])
    BY <2>1, <2>2
  <2>4. Built(t, o).chain = chain(kind)
    BY <2>1, <2>2, Chains
  <2>5. chain(kind) \in ChainsTo(t)
    BY <1>1 DEF ChainsTo
  <2> HIDE DEF chain
  <2> QED
    BY <2>1, <2>3, <2>4, <2>5 DEF FilteredIn, InChain, EffectiveIn
<1>3. /\ chain("api") = <<"sni", cluster[t].advertised[1]>>
      /\ chain("vpn") = <<"listener", "8132">> /\ chain("http-proxy") = <<"listener", "8443">>
  OBVIOUS
<1> HIDE DEF chain
<1> QED
  BY <1>2, <1>3

\* Once its filters are deployed, a shoot is protected where its API server is
\* exposed now: in the namespace its Gateway selects, on the first advertised
\* host, the VPN and the HTTP proxy port.
THEOREM DeployedIsProtected == Spec => []ProtectedWhereExposed
BY HostsAlways, ProtectedFromInv, PTL

LEMMA EnforcedFromInv ==
    ASSUME TrackInv, OthersUnaffected
    PROVE  RuleEnforcedOnSeed
<1> SUFFICES ASSUME NEW t \in Shoots, Deployed(t), ext[t].config.action = "ALLOW",
                    NEW home \in ToSet(deployments[gateway[t]]), NEW ns \in Namespaces,
                    NEW chain \in FilteredIn(t, ns),
                    NEW source \in Addr, NEW remote \in Addr
             PROVE  LET conn == ConnTo(t, source, remote) IN
                       (\A f \in FiltersIn(ns, chain) : Admits(f, conn))
                           <=> RuleAdmits(ext[t].config, DesiredAllowed(t, home), conn)
  BY DEF RuleEnforcedOnSeed
<1> DEFINE conn == ConnTo(t, source, remote)
<1>1. \A o \in installed[t] : o.rule = ext[t].config /\ o.allowed = DesiredAllowed(t, home)
  BY DeployedFilters
<1>2. \A o \in installed[t] : o.kind \in Kinds
  BY TrackDomains, Domains DEF Object
<1>3. \A o \in installed[t] :
         Admits(Built(t, o), conn)
            <=> RuleAdmits(ext[t].config, DesiredAllowed(t, home), conn)
  BY <1>1, <1>2, OwnFilters
<1>4. PICK o \in installed[t] : InChain(t, o, ns, chain)
  BY DEF FilteredIn
<1>5. chain \in ChainsTo(t)
  BY DEF FilteredIn
<1>6. \A s \in Shoots \ {t} : \A p \in installed[s] :
         InChain(s, p, ns, chain) => Admits(Built(s, p), conn)
  BY <1>5 DEF OthersUnaffected, InChain
<1>7. \A f : f \in FiltersIn(ns, chain)
                <=> \E s \in Shoots : \E p \in installed[s] :
                       InChain(s, p, ns, chain) /\ f = Built(s, p)
  <2> DEFINE Of(s) == {Built(s, p) : p \in {q \in installed[s] : InChain(s, q, ns, chain)}}
  <2>1. FiltersIn(ns, chain) = UNION {Of(s) : s \in Shoots}
    BY Zenon DEF FiltersIn
  <2>2. \A s, f : f \in Of(s) <=> \E p \in installed[s] :
                     InChain(s, p, ns, chain) /\ f = Built(s, p)
    OBVIOUS
  <2> HIDE DEF Of
  <2>3. \A f : f \in UNION {Of(s) : s \in Shoots} <=> \E s \in Shoots : f \in Of(s)
    OBVIOUS
  <2> QED
    BY <2>1, <2>2, <2>3
<1> HIDE DEF conn
<1>8. ASSUME \A f \in FiltersIn(ns, chain) : Admits(f, conn)
      PROVE  RuleAdmits(ext[t].config, DesiredAllowed(t, home), conn)
  BY <1>3, <1>4, <1>7, <1>8
<1>9. ASSUME RuleAdmits(ext[t].config, DesiredAllowed(t, home), conn),
             NEW f \in FiltersIn(ns, chain)
      PROVE  Admits(f, conn)
  BY <1>3, <1>6, <1>7, <1>9
<1> QED
  BY <1>8, <1>9 DEF conn

\* Through each chain in which a deployed shoot with an ALLOW rule has a filter,
\* exactly the sources of its rule and the networks the seed calls for now reach
\* it, whatever the filters of the other shoots are at that moment.
THEOREM RuleIsEnforced ==
    NoShortIDEndsWithAnother(TechnicalID) /\ HostsAreDistinct
        => (Spec => []RuleEnforcedOnSeed)
<1> SUFFICES ASSUME NoShortIDEndsWithAnother(TechnicalID), HostsAreDistinct
             PROVE  Spec => []RuleEnforcedOnSeed
  OBVIOUS
<1> QED
  BY HostsAlways, OthersFromInv, EnforcedFromInv, PTL
=============================================================================
