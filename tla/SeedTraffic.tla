---------------------------- MODULE SeedTraffic -----------------------------
(***************************************************************************)
(* The traffic of all shoots of a seed through the filters the controller  *)
(* has got installed: the composition of AclExtension (which filters exist *)
(* where, at every step of reconciling, applying, pruning and deleting)    *)
(* with EnvoyFilters (what each of them admits).  The shoots share the     *)
(* listeners of their istio gateway and the ingress chain, so a connection *)
(* passes only if every filter of the chain it enters admits it.           *)
(***************************************************************************)
EXTENDS AclExtension

CONSTANT TechnicalID     \* [Shoots -> parts of the technical ID]

\* A technical ID has at least one part.
ASSUME TechnicalIDAssumption == TechnicalID \in [Shoots -> Seq(STRING) \ {<<>>}]

-----------------------------------------------------------------------------
(* Filters *)

\* The EnvoyFilter behind an object, as createSeedResources builds it.
Built(s, o) ==
    LET id == TechnicalID[s] IN
    CASE o.kind = "api"     -> CreateAPIConfigPatchFromRule(o.rule, o.hosts, o.allowed)
      [] o.kind = "vpn"     -> BuildVPNEnvoyFilterSpec(id, o.rule, o.allowed)
      [] o.kind = "http-proxy" -> BuildHTTPProxyEnvoyFilterSpec(id, o.rule, o.allowed)
      [] o.kind = "ingress" -> CreateIngressConfigPatchFromRule(
                                  o.rule, ComputeShortShootID(id), o.allowed)

\* Istio merges an EnvoyFilter into the gateway Pods its labels select in its
\* own namespace (external).
EffectiveIn(o, ns) == o.namespace = ns /\ ns \in ToSet(deployments[o.labels])

-----------------------------------------------------------------------------
(* Connections *)

Hosts(s) == ToSet(cluster[s].advertised)

\* The ways to shoot t through the gateway in namespace ns.
ChainsTo(t) ==
    {<<"sni", h>> : h \in Hosts(t)}
    \cup {<<"listener", "8132">>, <<"listener", "8443">>, <<"sni", "*", IngressDomain>>}

\* For a connection to shoot t: the addresses a rule may name, and the server
\* name and the destination header that lead to t.
ConnTo(t, source, remote) ==
    [source_ip        |-> source,
     direct_remote_ip |-> source,
     remote_ip        |-> remote,
     serverName       |-> <<"gu">> \o ComputeShortShootID(TechnicalID[t]),
     header           |-> << <<"kube", "apiserver">>, TechnicalID[t], <<"svc">> >>]

InChain(s, o, ns, chain) == EffectiveIn(o, ns) /\ Built(s, o).chain = chain

\* The filters some shoot has got installed in a chain.
FiltersIn(ns, chain) ==
    UNION {{Built(s, o) : o \in {p \in installed[s] : InChain(s, p, ns, chain)}} :
              s \in Shoots}

-----------------------------------------------------------------------------
(* Properties *)

\* At no moment, however far GRM is with applying or pruning, does a filter of
\* one shoot decide about the traffic of another one in the chains they share
\* ("<shoot>-inverse", envoyfilters.go:163 and 246).
OthersUnaffected ==
    \A s \in Shoots : \A o \in installed[s] : LET filter == Built(s, o) IN
        \A t \in Shoots \ {s} :
            filter.chain \in ChainsTo(t) /\ (\E ns \in Namespaces : EffectiveIn(o, ns))
            => \A source, remote \in Addr : Admits(filter, ConnTo(t, source, remote))

\* The filters of t are those of its last reconciliation and GRM is done.
Deployed(t) ==
    /\ Settled(t) /\ stale[t] = {} /\ gateway[t] # None
    /\ installed[t] = mr[t].objects

\* The chains in which a deployed shoot has a filter of its own.
FilteredIn(t, ns) ==
    {chain \in ChainsTo(t) : \E o \in installed[t] : InChain(t, o, ns, chain)}

\* Once the filters of a shoot with an ALLOW rule are deployed, exactly the
\* sources of its rule, and the networks the seed calls for now, reach it
\* through each of its chains, whatever the other shoots have got installed.
RuleEnforcedOnSeed ==
    \A t \in Shoots : Deployed(t) /\ ext[t].config.action = "ALLOW" =>
        \A home \in ToSet(deployments[gateway[t]]), ns \in Namespaces :
            \A chain \in FilteredIn(t, ns) :
                LET filters == FiltersIn(ns, chain)
                    allowed == DesiredAllowed(t, home)
                IN \A source, remote \in Addr :
                      LET conn == ConnTo(t, source, remote) IN
                      (\A f \in filters : Admits(f, conn))
                          <=> RuleAdmits(ext[t].config, allowed, conn)

\* A deployed shoot is protected where its API server is exposed now: in the
\* namespace its Gateway selects, on the host, the VPN and the proxy port.
ProtectedWhereExposed ==
    \A t \in Shoots : Deployed(t) =>
        \A ns \in ToSet(deployments[gateway[t]]) :
            {<<"sni", cluster[t].advertised[1]>>, <<"listener", "8132">>,
             <<"listener", "8443">>} \subseteq FilteredIn(t, ns)
=============================================================================
