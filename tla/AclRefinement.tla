--------------------------- MODULE AclRefinement ----------------------------
(***************************************************************************)
(* AclExtension implements AclPromise.  A worker is a job from the moment  *)
(* it takes the Extension until it fails or finishes; the finalizer holds  *)
(* the shoot; a deletion timestamp or a migrate annotation asks for        *)
(* removal; the ManagedResource is what is to be on the seed.              *)
(***************************************************************************)
EXTENDS AclExtension

\* The objects of one config: one filter for each of the API server, the VPN
\* and the HTTP proxy in one namespace, and perhaps the ingress filter, all
\* with the same rule, hosts and always allowed CIDRs.
Complete(objs, config) ==
    \E api \in objs :
        /\ api.kind = "api"
        /\ {o.kind : o \in objs} \in {Kinds, Kinds \ {"ingress"}}
        /\ \A o, p \in objs : o.kind = p.kind => o = p
        /\ \A o \in objs :
              /\ o.rule = config
              /\ o.hosts = api.hosts /\ o.allowed = api.allowed
              /\ IF o.kind = "ingress" THEN o.namespace = "istio-ingress"
                 ELSE o.namespace = api.namespace /\ o.labels = api.labels

Asked == [s \in Shoots |-> ext[s].config]

Want == [s \in Shoots |-> IF ext[s].phase = "Deleting" \/ Migrating(s)
                          THEN "removed" ELSE "kept"]

Holding == [s \in Shoots |-> ext[s].finalizer]

Served == [s \in Shoots |-> ext[s].lastOp \in {"Succeeded", "Migrated"}]

Deploying(s) == run[s].op \in {"reconcile", "restore"}

\* The labels are those of the Gateway, so only a worker that ended early for
\* a hibernated shoot succeeds without.
Outcome(s) ==
    IF pc[s] = "patch" THEN "done"
    ELSE IF pc[s] \notin {"success", "release"} THEN "open"
    ELSE IF Deploying(s) /\ run[s].labels = None THEN "excused"
    ELSE "done"

Job ==
    [s \in Shoots |->
        IF pc[s] \in {"idle", "failed"}
        THEN [kind |-> "none", config |-> None, outcome |-> "open"]
        ELSE [kind |-> IF Deploying(s) THEN "deploy" ELSE "remove",
              config |-> run[s].config, outcome |-> Outcome(s)]]

Phase == [s \in Shoots |-> mr[s].phase]

Manifest == [s \in Shoots |-> mr[s].objects]

Promise ==
    INSTANCE AclPromise WITH
        Configs   <- ProviderConfigs,
        Bundle    <- Complete,
        asked     <- Asked,
        want      <- Want,
        held      <- Holding,
        job       <- Job,
        served    <- Served,
        phase     <- Phase,
        objects   <- Manifest,
        installed <- installed

-----------------------------------------------------------------------------
\* Whatever the order of reads, writes, failures, retries and restarts, the
\* controller and GRM only ever do what the promise allows: whole sets of
\* filters of the config a run began with (actuator.go:187), success only for
\* runs that have written them or were excused (actuator.go:131), removal only
\* on request and completely, before the finalizer goes (actuator.go:341).
PromiseKept == Promise!Spec
=============================================================================
