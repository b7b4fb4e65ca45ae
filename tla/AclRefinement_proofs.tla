------------------------ MODULE AclRefinement_proofs -------------------------
(***************************************************************************)
(* AclExtension implements AclPromise: the initial states map to initial   *)
(* states, and every step, failed calls and restarts included, maps to one *)
(* step of the promise or to none.                                         *)
(***************************************************************************)
EXTENDS AclRefinement, AclCleanup_proofs

-----------------------------------------------------------------------------
(* What the mapping needs beyond CleanInv *)

\* An Extension that is gone has left nothing in its record; success is not
\* reported before the work is done; no two objects of a ManagedResource are
\* one and the same on the seed.
Reported(s) ==
    /\ ext[s].phase = "Absent" => ext[s] = NoExtension
    /\ pc[s] \notin {"idle", "release"} => ext[s].lastOp = "Processing"
    /\ \A o, p \in mr[s].objects : SameObject(o, p) => o = p

PromiseInv == CleanInv /\ \A s \in Shoots : Reported(s)

LEMMA ObjectsMember ==
    ASSUME NEW r, NEW o \in Objects(r)
    PROVE  \/ \E kind \in {"api", "vpn", "http-proxy"} :
                 o = [kind |-> kind, namespace |-> r.namespace, labels |-> r.labels,
                      hosts |-> r.cluster.advertised, rule |-> r.config,
                      allowed |-> r.allowed]
           \/ o = [kind |-> "ingress", namespace |-> "istio-ingress",
                   labels |-> r.defaultLabels, hosts |-> r.cluster.advertised,
                   rule |-> r.config, allowed |-> r.allowed]
BY DEF Objects

LEMMA ObjectsDistinct ==
    ASSUME NEW r, NEW o \in Objects(r), NEW p \in Objects(r), o.kind = p.kind
    PROVE  o = p
BY ObjectsMember

LEMMA OneReported ==
    ASSUME PromiseInv, NEW s \in Shoots, Reported(s)',
           \A t \in Shoots \ {s} : Untouched(t)
    PROVE  \A t \in Shoots : Reported(t)'
<1>1. ASSUME NEW t \in Shoots, Untouched(t) PROVE Reported(t)'
  BY <1>1 DEF PromiseInv, Reported, Untouched
<1> QED
  BY <1>1

LEMMA InitPromise == Init => PromiseInv
<1> SUFFICES ASSUME Init, NEW s \in Shoots PROVE Reported(s)
  BY InitClean DEF PromiseInv
<1> QED
  BY DEF Init, Reported, NoManagedResource

LEMMA PromiseDomains ==
    ASSUME PromiseInv
    PROVE  /\ CleanInv
           /\ ext \in [Shoots -> Extension] /\ mr \in [Shoots -> ManagedResource]
           /\ installed \in [Shoots -> SUBSET Object]
           /\ pc \in [Shoots -> Points] /\ run \in [Shoots -> Run]
           /\ \A s \in Shoots : Reported(s) /\ Clean(s) /\ ext[s] \in Extension
BY Domains DEF PromiseInv, CleanInv

LEMMA ReconcilerReported ==
    ASSUME PromiseInv, NEW s \in Shoots, Dequeue(s) \/ Finish(s)
    PROVE  \A t \in Shoots : Reported(t)'
<1> USE PromiseDomains
<1>1. mr' = mr
  BY DEF Dequeue, Finish, Succeed, Release, Fail
<1>2. \A t \in Shoots \ {s} : Untouched(t)
  BY DEF Dequeue, Finish, Succeed, Release, Fail, Untouched, workVars
<1>3. Reported(s)'
  <2>1. CASE Dequeue(s)
    <3>1. CASE UNCHANGED <<ext, workVars>>
      BY <1>1, <3>1 DEF Reported, workVars
    <3>2. CASE ~ UNCHANGED <<ext, workVars>>
      <4>1. PICK operation, finalizer :
               ext' = [ext EXCEPT ![s] = [ext[s] EXCEPT
                          !.operation = operation, !.finalizer = finalizer,
                          !.lastOp = "Processing"]]
        BY <2>1, <3>2 DEF Dequeue
      <4>3. ext'[s].phase = ext[s].phase /\ ext'[s].lastOp = "Processing"
        BY <4>1 DEF Extension
      <4>2. ext[s].phase # "Absent"
        BY <2>1, <3>2 DEF Dequeue, Skipped
      <4> QED
        BY <1>1, <4>2, <4>3 DEF Reported
    <3> QED
      BY <3>1, <3>2
  <2>2. CASE Finish(s)
    <3>1. pc'[s] \in {"idle", "release"}
      BY <2>2 DEF Finish, Succeed, Release, Fail
    <3>2. ext'[s].phase = "Absent" => ext'[s] = NoExtension
      <4>1. ext[s].phase # "Absent"
        BY <2>2 DEF Finish, Succeed, Release, Fail, Clean, Held
      <4>2. ext'[s].phase = ext[s].phase \/ ext'[s] = NoExtension
        <5>1. CASE Succeed(s) \/ Fail(s)
          BY <5>1 DEF Succeed, Fail, Extension
        <5>2. CASE Release(s)
          BY <5>2 DEF Release, Extension
        <5> QED
          BY <2>2, <5>1, <5>2 DEF Finish
      <4> QED
        BY <4>1, <4>2
    <3> QED
      BY <1>1, <3>1, <3>2 DEF Reported
  <2> QED
    BY <2>1, <2>2
<1> QED
  BY <1>2, <1>3, OneReported

\* The steps of a worker before it reports: they keep the Extension but for
\* the recorded namespace, and write only the objects that Objects renders.
LEMMA WorkerReported ==
    ASSUME PromiseInv, NEW s \in Shoots, pc[s] \notin {"idle", "release"},
           \A t \in Shoots \ {s} : Untouched(t),
           ext'[s].phase = ext[s].phase, ext'[s].lastOp = ext[s].lastOp,
           \/ mr'[s].objects = mr[s].objects
           \/ mr'[s].objects = Objects(run[s])
    PROVE  \A t \in Shoots : Reported(t)'
<1>1. Reported(s) /\ ext[s].phase # "Absent"
  BY PromiseDomains DEF Clean, Held
<1>2. \A o, p \in mr'[s].objects : SameObject(o, p) => o = p
  BY <1>1, ObjectsDistinct DEF Reported, SameObject
<1>3. Reported(s)'
  BY <1>1, <1>2 DEF Reported, SameObject
<1> QED
  BY <1>3, OneReported

\* A call that is read only or fails leaves the worker of s somewhere else.
MovesOn(s) ==
    /\ UNCHANGED objectVars
    /\ \A t \in Shoots \ {s} : pc'[t] = pc[t] /\ run'[t] = run[t]

LEMMA ReconcileMovesOn ==
    ASSUME PromiseInv, NEW s \in Shoots, Reconcile(s),
           ~ CreateManagedResource(s, TRUE), ~ PatchStatus(s)
    PROVE  MovesOn(s)
<1> USE PromiseDomains
<1>1. UNCHANGED objectVars
  BY DEF Reconcile, GetCluster, GetGateway, ListDeployments, GetService, GetShootInfo,
     GetInfrastructure, GetIngressGateway, restVars
<1>2. ASSUME NEW cidrs, AllowSeedEgress(s, cidrs)
      PROVE  \A t \in Shoots \ {s} : pc'[t] = pc[t] /\ run'[t] = run[t]
  BY <1>2 DEF AllowSeedEgress, Goto
<1>3. \A t \in Shoots \ {s} : pc'[t] = pc[t] /\ run'[t] = run[t]
  BY <1>2 DEF Reconcile, GetCluster, GetGateway, ListDeployments, GetService, GetShootInfo,
     GetInfrastructure, GetIngressGateway, Goto
<1> QED
  BY <1>1, <1>3 DEF MovesOn

LEMMA ActuatorReported ==
    ASSUME PromiseInv, NEW s \in Shoots, Reconcile(s) \/ Delete(s) \/ ApiError(s)
    PROVE  \A t \in Shoots : Reported(t)'
<1> USE PromiseDomains
<1>1. pc[s] \notin {"idle", "release"}
  BY DEF Reconcile, GetCluster, GetGateway, ListDeployments, GetService, GetShootInfo,
     GetInfrastructure, GetIngressGateway, CreateManagedResource, PatchStatus, Delete,
     DeleteManagedResource, WaitUntilDeleted, DeletionTimeout, ApiError,
     ReconcilePoints, ReadPoints, DeletePoints
<1>2. CASE MovesOn(s)
  BY <1>1, <1>2, WorkerReported DEF MovesOn, Untouched, objectVars
<1>3. ASSUME NEW answered, CreateManagedResource(s, answered)
      PROVE  \A t \in Shoots : Reported(t)'
  <2>1. \A t \in Shoots \ {s} : Untouched(t)
    BY <1>3 DEF CreateManagedResource, Goto, Untouched
  <2> QED
    BY <1>1, <1>3, <2>1, WorkerReported DEF CreateManagedResource
<1>4. ASSUME NEW answered, DeleteManagedResource(s, answered)
      PROVE  \A t \in Shoots : Reported(t)'
  <2>1. \A t \in Shoots \ {s} : Untouched(t)
    BY <1>4 DEF DeleteManagedResource, Goto, Untouched
  <2>2. mr'[s].objects = mr[s].objects
    BY <1>4 DEF DeleteManagedResource, ManagedResource
  <2> QED
    BY <1>1, <1>4, <2>1, <2>2, WorkerReported DEF DeleteManagedResource
<1>5. CASE PatchStatus(s)
  <2>1. \A t \in Shoots \ {s} : Untouched(t)
    BY <1>5 DEF PatchStatus, Goto, Untouched
  <2>2. ext'[s].phase = ext[s].phase /\ ext'[s].lastOp = ext[s].lastOp
    BY <1>5 DEF PatchStatus, Extension
  <2> QED
    BY <1>1, <1>5, <2>1, <2>2, WorkerReported DEF PatchStatus
<1>6. CASE WaitUntilDeleted(s) \/ DeletionTimeout(s)
  BY <1>2, <1>6 DEF WaitUntilDeleted, DeletionTimeout, Goto, MovesOn, restVars
<1>7. CASE ApiError(s)
  BY <1>2, <1>3, <1>4, <1>7 DEF ApiError, Goto, MovesOn, objectVars
<1> QED
  BY <1>2, <1>3, <1>4, <1>5, <1>6, <1>7, ReconcileMovesOn DEF Delete

LEMMA GardenletReported ==
    ASSUME PromiseInv, NEW s \in Shoots, Gardenlet(s)
    PROVE  \A t \in Shoots : Reported(t)'
<1> USE PromiseDomains
<1>1. ASSUME NEW e, Write(s, e), e.phase = "Absent" => e = NoExtension,
             e.lastOp = ext[s].lastOp \/ pc[s] = "idle"
      PROVE  \A t \in Shoots : Reported(t)'
  <2>1. Reported(s)'
    BY <1>1, WriteStep DEF Reported
  <2> QED
    BY <1>1, <2>1, WriteStep, OneReported
<1>2. ext[s].phase = "Absent" \/ ~ ext[s].finalizer => pc[s] = "idle"
  BY DEF Clean, Held
<1>3. CASE CreateExtension(s)
  BY <1>1, <1>2, <1>3 DEF CreateExtension, NoExtension
<1>4. CASE ReconcileExtension(s)
  <2>1. PICK config : Write(s, [ext[s] EXCEPT !.config = config, !.operation = "reconcile"])
    BY <1>4 DEF ReconcileExtension
  <2> QED
    BY <1>1, <1>4, <2>1 DEF ReconcileExtension, Extension
<1>5. CASE MigrateExtension(s)
  BY <1>1, <1>5 DEF MigrateExtension, Extension
<1>6. CASE DeleteExtension(s)
  BY <1>1, <1>2, <1>6 DEF DeleteExtension, Extension
<1> QED
  BY <1>3, <1>4, <1>5, <1>6 DEF Gardenlet

LEMMA GrmReported ==
    ASSUME PromiseInv, NEW s \in Shoots, Grm(s)
    PROVE  \A t \in Shoots : Reported(t)'
<1> USE PromiseDomains
<1>1. ext' = ext /\ pc' = pc
  BY DEF Grm, GrmApply, GrmPrune, GrmDelete, GrmUnchanged, workVars
<1>2. mr' = mr \/ mr' = [mr EXCEPT ![s] = NoManagedResource]
  BY DEF Grm, GrmApply, GrmPrune, GrmDelete
<1> QED
  BY <1>1, <1>2 DEF Reported, NoManagedResource

LEMMA OthersReported ==
    ASSUME PromiseInv,
           \/ UNCHANGED <<objectVars, workVars>>
           \/ Restart
    PROVE  \A t \in Shoots : Reported(t)'
<1>1. ext' = ext /\ mr' = mr
  BY DEF Restart, objectVars
<1>2. pc' = pc \/ pc' = [t \in Shoots |-> "idle"]
  BY DEF Restart, workVars
<1> QED
  BY <1>1, <1>2, PromiseDomains DEF Reported

LEMMA NextPromise == PromiseInv /\ [Next]_vars => PromiseInv'
<1> SUFFICES ASSUME PromiseInv, [Next]_vars PROVE \A t \in Shoots : Reported(t)'
  BY NextClean DEF PromiseInv
<1>1. ASSUME NEW s \in Shoots, DeliverInfrastructureEvent(s) \/ SeedChange(s)
      PROVE  \A t \in Shoots : Reported(t)'
  BY <1>1, OthersReported DEF DeliverInfrastructureEvent, SeedChange, ChangeCluster,
     ChangeGateway, ChangeInfrastructure, Unwatched
<1>2. CASE SharedChange
  BY <1>2, OthersReported DEF SharedChange, ChangeDeployments, ChangeService, ChangeShootInfo,
     ChangeIngressGateway, Unwatched
<1>3. CASE UNCHANGED vars
  BY <1>3, OthersReported DEF vars, restVars
<1> QED
  BY <1>1, <1>2, <1>3, ReconcilerReported, ActuatorReported, GardenletReported,
     GrmReported, OthersReported DEF Next

-----------------------------------------------------------------------------
(* Every step keeps the promise *)

LEMMA Elsewhere ==
    ASSUME NEW s \in Shoots, \A t \in Shoots \ {s} : Untouched(t)
    PROVE  /\ Asked' = [Asked EXCEPT ![s] = Asked'[s]]
           /\ Want' = [Want EXCEPT ![s] = Want'[s]]
           /\ Holding' = [Holding EXCEPT ![s] = Holding'[s]]
           /\ Job' = [Job EXCEPT ![s] = Job'[s]]
           /\ Served' = [Served EXCEPT ![s] = Served'[s]]
           /\ Phase' = [Phase EXCEPT ![s] = Phase'[s]]
           /\ Manifest' = [Manifest EXCEPT ![s] = Manifest'[s]]
<1>1. Asked' = [Asked EXCEPT ![s] = Asked'[s]]
  BY DEF Asked, Untouched
<1>2. Want' = [Want EXCEPT ![s] = Want'[s]]
  BY DEF Want, Untouched, Migrating
<1>3. Holding' = [Holding EXCEPT ![s] = Holding'[s]]
  BY DEF Holding, Untouched
<1>4. Job' = [Job EXCEPT ![s] = Job'[s]]
  <2>1. \A t \in Shoots \ {s} : Job'[t] = Job[t]
    BY DEF Job, Deploying, Outcome, Untouched
  <2>2. Job' = [t \in Shoots |-> Job'[t]] /\ Job = [t \in Shoots |-> Job[t]]
    BY DEF Job
  <2> QED
    BY <2>1, <2>2
<1>5. Served' = [Served EXCEPT ![s] = Served'[s]]
  BY DEF Served, Untouched
<1>6. Phase' = [Phase EXCEPT ![s] = Phase'[s]]
  BY DEF Phase, Untouched
<1>7. Manifest' = [Manifest EXCEPT ![s] = Manifest'[s]]
  BY DEF Manifest, Untouched
<1> QED
  BY <1>1, <1>2, <1>3, <1>4, <1>5, <1>6, <1>7

LEMMA ViewDomains ==
    /\ Asked = [t \in Shoots |-> Asked[t]] /\ Asked' = [t \in Shoots |-> Asked'[t]]
    /\ Want = [t \in Shoots |-> Want[t]] /\ Want' = [t \in Shoots |-> Want'[t]]
    /\ Holding = [t \in Shoots |-> Holding[t]] /\ Holding' = [t \in Shoots |-> Holding'[t]]
    /\ Job = [t \in Shoots |-> Job[t]] /\ Job' = [t \in Shoots |-> Job'[t]]
    /\ Served = [t \in Shoots |-> Served[t]] /\ Served' = [t \in Shoots |-> Served'[t]]
    /\ Phase = [t \in Shoots |-> Phase[t]] /\ Phase' = [t \in Shoots |-> Phase'[t]]
    /\ Manifest = [t \in Shoots |-> Manifest[t]] /\ Manifest' = [t \in Shoots |-> Manifest'[t]]
BY DEF Asked, Want, Holding, Job, Served, Phase, Manifest

\* A part of the view that is the same for s is the same for all.
LEMMA Steady ==
    ASSUME NEW s \in Shoots, \A t \in Shoots \ {s} : Untouched(t)
    PROVE  /\ Asked'[s] = Asked[s] => Asked' = Asked
           /\ Want'[s] = Want[s] => Want' = Want
           /\ Holding'[s] = Holding[s] => Holding' = Holding
           /\ Job'[s] = Job[s] => Job' = Job
           /\ Served'[s] = Served[s] => Served' = Served
           /\ Phase'[s] = Phase[s] => Phase' = Phase
           /\ Manifest'[s] = Manifest[s] => Manifest' = Manifest
<1>1. ASSUME Asked'[s] = Asked[s] PROVE Asked' = Asked
  BY <1>1, Elsewhere, ViewDomains
<1>2. ASSUME Want'[s] = Want[s] PROVE Want' = Want
  BY <1>2, Elsewhere, ViewDomains
<1>3. ASSUME Holding'[s] = Holding[s] PROVE Holding' = Holding
  BY <1>3, Elsewhere, ViewDomains
<1>4. ASSUME Job'[s] = Job[s] PROVE Job' = Job
  BY <1>4, Elsewhere, ViewDomains
<1>5. ASSUME Served'[s] = Served[s] PROVE Served' = Served
  BY <1>5, Elsewhere, ViewDomains
<1>6. ASSUME Phase'[s] = Phase[s] PROVE Phase' = Phase
  BY <1>6, Elsewhere, ViewDomains
<1>7. ASSUME Manifest'[s] = Manifest[s] PROVE Manifest' = Manifest
  BY <1>7, Elsewhere, ViewDomains
<1> QED
  BY <1>1, <1>2, <1>3, <1>4, <1>5, <1>6, <1>7

\* Nothing of the promise changes for t.
SameView(t) ==
    UNCHANGED <<Asked[t], Want[t], Holding[t], Job[t], Served[t], Phase[t],
                Manifest[t], installed[t]>>

Steps == [Promise!Next]_(Promise!vars)

LEMMA Stutters ==
    ASSUME PromiseInv, installed' \in [Shoots -> SUBSET Object],
           \A t \in Shoots : SameView(t)
    PROVE  UNCHANGED Promise!vars
<1>1. Asked' = Asked /\ Want' = Want /\ Holding' = Holding
  BY DEF SameView, Asked, Want, Holding
<1>2. Job' = Job /\ Served' = Served
  BY DEF SameView, Job, Served
<1>3. Phase' = Phase /\ Manifest' = Manifest /\ installed' = installed
  BY PromiseDomains DEF SameView, Phase, Manifest
<1> QED
  BY <1>1, <1>2, <1>3 DEF Promise!vars

LEMMA UntouchedView ==
    ASSUME NEW t \in Shoots, Untouched(t)
    PROVE  SameView(t)
BY DEF Untouched, SameView, Asked, Want, Holding, Job, Served, Phase, Manifest,
   Migrating, Deploying, Outcome

LEMMA AskKept ==
    ASSUME PromiseInv, NEW s \in Shoots, \A t \in Shoots \ {s} : Untouched(t),
           installed' = installed,
           Want[s] = "kept", Asked'[s] \in ProviderConfigs \cup {None},
           Want'[s] \in {"kept", "removed"}, Want'[s] = "removed" => Holding[s],
           Served'[s] \in {FALSE, Served[s]},
           UNCHANGED <<Holding[s], Job[s], Phase[s], Manifest[s]>>
    PROVE  Promise!Ask(s)
<1>1. Served[s] \in BOOLEAN
  BY DEF Served
<1>2. PICK b \in BOOLEAN : Served'[s] = (b /\ Served[s])
  BY <1>1
<1>3. Served' = [Served EXCEPT ![s] = b /\ @]
  BY <1>2, Elsewhere DEF Served
<1>4. Holding' = Holding /\ Job' = Job /\ Phase' = Phase /\ Manifest' = Manifest
  BY Steady
<1> QED
  BY <1>3, <1>4, Elsewhere DEF Promise!Ask

\* The view of one shoot, and of the same shoot after the step.
LEMMA ViewAt ==
    ASSUME NEW s \in Shoots
    PROVE  /\ Asked[s] = ext[s].config /\ Asked'[s] = ext'[s].config
           /\ Want[s] = IF ext[s].phase = "Deleting" \/ Migrating(s)
                        THEN "removed" ELSE "kept"
           /\ Want'[s] = IF ext'[s].phase = "Deleting" \/ Migrating(s)'
                         THEN "removed" ELSE "kept"
           /\ Holding[s] = ext[s].finalizer /\ Holding'[s] = ext'[s].finalizer
           /\ Served[s] = (ext[s].lastOp \in {"Succeeded", "Migrated"})
           /\ Served'[s] = (ext'[s].lastOp \in {"Succeeded", "Migrated"})
           /\ Phase[s] = mr[s].phase /\ Phase'[s] = mr'[s].phase
           /\ Manifest[s] = mr[s].objects /\ Manifest'[s] = mr'[s].objects
BY DEF Asked, Want, Holding, Served, Phase, Manifest

LEMMA ServedAt ==
    ASSUME NEW s \in Shoots
    PROVE  /\ ext'[s].lastOp \in {"Succeeded", "Migrated"} => Served'[s] = TRUE
           /\ ext'[s].lastOp \notin {"Succeeded", "Migrated"} => Served'[s] = FALSE
           /\ ext[s].lastOp \notin {"Succeeded", "Migrated"} => Served[s] = FALSE
<1> DEFINE b == ext'[s].lastOp \in {"Succeeded", "Migrated"}
           a == ext[s].lastOp \in {"Succeeded", "Migrated"}
<1>1. b \in BOOLEAN /\ a \in BOOLEAN
  OBVIOUS
<1>2. Served'[s] = b /\ Served[s] = a
  BY ViewAt
<1> HIDE DEF a, b
<1>3. (b => Served'[s] = TRUE) /\ (~ b => Served'[s] = FALSE) /\ (~ a => Served[s] = FALSE)
  BY <1>1, <1>2
<1> QED
  BY <1>3 DEF a, b

LEMMA JobAt ==
    ASSUME NEW s \in Shoots
    PROVE  /\ pc[s] \in {"idle", "failed"} => Job[s] = Promise!NoJob
           /\ pc'[s] \in {"idle", "failed"} => Job'[s] = Promise!NoJob
           /\ pc[s] \notin {"idle", "failed"} =>
                Job[s] = [kind |-> IF Deploying(s) THEN "deploy" ELSE "remove",
                          config |-> run[s].config, outcome |-> Outcome(s)]
           /\ pc'[s] \notin {"idle", "failed"} =>
                Job'[s] = [kind |-> IF Deploying(s)' THEN "deploy" ELSE "remove",
                           config |-> run'[s].config, outcome |-> Outcome(s)']
BY DEF Job, Promise!NoJob

LEMMA BeginStep ==
    ASSUME PromiseInv, NEW s \in Shoots, Dequeue(s)
    PROVE  Promise!Begin(s) \/ UNCHANGED Promise!vars
<1> USE PromiseDomains
<1>1. CASE UNCHANGED <<ext, workVars>>
  <2>1. \A t \in Shoots : Untouched(t)
    BY <1>1 DEF Dequeue, Untouched, workVars
  <2> QED
    BY <2>1, UntouchedView, Stutters DEF Dequeue
<1>2. CASE ~ UNCHANGED <<ext, workVars>>
  <2> DEFINE op == Operation(ext[s])
             e  == [ext[s] EXCEPT
                      !.operation  = IF @ = "reconcile" THEN "none" ELSE @,
                      !.finalizer  = @ \/ op \in {"reconcile", "restore"},
                      !.lastOp     = "Processing"]
  <2>1. /\ ~ Skipped(ext[s]) /\ pc[s] = "idle"
        /\ ext' = [ext EXCEPT ![s] = e]
        /\ run' = [run EXCEPT ![s] = [NoRun EXCEPT !.op = op, !.config = e.config]]
        /\ pc' = [pc EXCEPT ![s] = IF op \in {"reconcile", "restore"}
                                   THEN "cluster" ELSE "delete"]
        /\ UNCHANGED <<mr, installed>>
    BY <1>2 DEF Dequeue
  <2>2. /\ e.phase = ext[s].phase /\ e.config = ext[s].config
        /\ e.lastOp = "Processing"
        /\ e.finalizer = (ext[s].finalizer \/ op \in {"reconcile", "restore"})
        /\ e.operation = IF ext[s].operation = "reconcile" THEN "none" ELSE ext[s].operation
    BY DEF Extension
  <2>3. /\ op \in {"reconcile", "restore", "delete", "migrate"}
        /\ op = "migrate" <=> Migrating(s)
        /\ op = "delete" => ext[s].phase = "Deleting" /\ ext[s].finalizer
        /\ op \in {"reconcile", "restore"} => ext[s].phase # "Deleting"
        /\ ext[s].phase # "Absent"
    BY <2>1 DEF Operation, Skipped, Migrating
  <2>4. ext[s].config \in ProviderConfigs
    BY <2>3 DEF CleanInv, TypeInv, ReadInv
  <2> HIDE DEF e, op
  <2>5. /\ ext'[s] = e /\ run'[s].op = op /\ run'[s].config = ext[s].config
        /\ pc'[s] = IF op \in {"reconcile", "restore"} THEN "cluster" ELSE "delete"
        /\ mr'[s] = mr[s] /\ installed' = installed
    BY <2>1, <2>2 DEF NoRun
  <2>6. \A t \in Shoots \ {s} : Untouched(t)
    BY <2>1 DEF Untouched
  <2>7. Job[s] = Promise!NoJob
    BY <2>1, JobAt
  <2>8. Job'[s] = Promise!NewJob(IF op \in {"reconcile", "restore"} THEN "deploy"
                                 ELSE "remove", Asked[s])
    <3>1. Outcome(s)' = "open" /\ Deploying(s)' = (op \in {"reconcile", "restore"})
      BY <2>5 DEF Outcome, Deploying
    <3>2. Job'[s] = [kind |-> IF Deploying(s)' THEN "deploy" ELSE "remove",
                     config |-> run'[s].config, outcome |-> Outcome(s)']
      BY <2>5, JobAt
    <3>3. Asked[s] = run'[s].config
      BY <2>5, ViewAt
    <3> QED
      BY <3>1, <3>2, <3>3 DEF Promise!NewJob
  <2>9. Asked' = Asked /\ Want' = Want /\ Phase' = Phase /\ Manifest' = Manifest
    BY <2>2, <2>5, <2>6, Steady, ViewAt DEF Migrating
  <2>10. Served' = [Served EXCEPT ![s] = FALSE]
    <3>1. ext'[s].lastOp \notin {"Succeeded", "Migrated"}
      BY <2>2, <2>5
    <3>2. Served'[s] = FALSE
      BY <3>1, ServedAt
    <3> QED
      BY <2>6, <3>2, Elsewhere
  <2>11. CASE op \in {"reconcile", "restore"}
    <3>1. Holding' = [Holding EXCEPT ![s] = TRUE]
      BY <2>2, <2>5, <2>6, <2>11, Elsewhere, ViewAt
    <3>2. Want[s] = "kept" /\ Asked[s] # None
      BY <2>3, <2>4, <2>11, ViewAt, NoneAssumption
    <3>3. Job' = [Job EXCEPT ![s] = Promise!NewJob("deploy", Asked[s])]
      BY <2>6, <2>8, <2>11, Elsewhere
    <3> QED
      BY <2>5, <2>7, <2>9, <2>10, <3>1, <3>2, <3>3 DEF Promise!Begin
  <2>12. CASE op \in {"delete", "migrate"}
    <3>1. Holding[s] /\ Holding' = Holding
      <4>1. Holding[s]
        BY <2>3, <2>12, ViewAt DEF Clean, Held
      <4>2. Holding'[s] = Holding[s]
        BY <2>2, <2>5, <4>1, ViewAt
      <4> QED
        BY <2>6, <4>1, <4>2, Steady
    <3>2. Want[s] = "removed"
      BY <2>3, <2>12, ViewAt
    <3>3. Job' = [Job EXCEPT ![s] = Promise!NewJob("remove", Asked[s])]
      BY <2>6, <2>8, <2>12, Elsewhere
    <3> QED
      BY <2>5, <2>7, <2>9, <2>10, <3>1, <3>2, <3>3 DEF Promise!Begin
  <2> QED
    BY <2>3, <2>11, <2>12
<1> QED
  BY <1>1, <1>2

LEMMA JobFields ==
    ASSUME NEW s \in Shoots, pc[s] \notin {"idle", "failed"}
    PROVE  /\ Job[s].outcome = Outcome(s)
           /\ Job[s].config = run[s].config
           /\ Job[s].kind = IF Deploying(s) THEN "deploy" ELSE "remove"
<1> DEFINE k == IF Deploying(s) THEN "deploy" ELSE "remove"
<1>1. Job[s] = [kind |-> k, config |-> run[s].config, outcome |-> Outcome(s)]
  BY DEF Job
<1> HIDE DEF k
<1>2. /\ Job[s].outcome = Outcome(s) /\ Job[s].config = run[s].config
      /\ Job[s].kind = k
  BY <1>1
<1> QED
  BY <1>2 DEF k

\* What a step of one worker that leaves the rest of the view alone amounts to.
LEMMA JobStep ==
    ASSUME PromiseInv, NEW s \in Shoots, \A t \in Shoots \ {s} : Untouched(t),
           UNCHANGED <<Asked[s], Want[s], Holding[s], Served[s], Phase[s], Manifest[s]>>,
           installed' = installed
    PROVE  /\ Job'[s] = Job[s] => UNCHANGED Promise!vars
           /\ Job'[s] = Promise!NoJob => Promise!Abort(s)
<1>1. /\ Asked' = Asked /\ Want' = Want /\ Holding' = Holding /\ Served' = Served
      /\ Phase' = Phase /\ Manifest' = Manifest
  BY Steady
<1>2. ASSUME Job'[s] = Job[s] PROVE UNCHANGED Promise!vars
  BY <1>1, <1>2, Steady DEF Promise!vars
<1>3. ASSUME Job'[s] = Promise!NoJob PROVE Promise!Abort(s)
  BY <1>1, <1>3, Elsewhere DEF Promise!Abort
<1> QED
  BY <1>2, <1>3

LEMMA SucceedStep ==
    ASSUME PromiseInv, NEW s \in Shoots, Succeed(s)
    PROVE  Promise!Report(s)
<1> USE PromiseDomains
<1>1. /\ ext'[s].phase = ext[s].phase /\ ext'[s].finalizer = ext[s].finalizer
      /\ ext'[s].operation = ext[s].operation /\ ext'[s].config = ext[s].config
      /\ ext'[s].lastOp \in {"Succeeded", "Migrated"}
      /\ mr' = mr /\ installed' = installed
  BY DEF Succeed, Extension
<1>2. \A t \in Shoots \ {s} : Untouched(t)
  BY DEF Succeed, Untouched
<1>3. /\ Asked' = Asked /\ Want' = Want /\ Holding' = Holding
      /\ Phase' = Phase /\ Manifest' = Manifest
  BY <1>1, <1>2, Steady, ViewAt DEF Migrating
<1>4. Served' = [Served EXCEPT ![s] = TRUE]
  BY <1>1, <1>2, ServedAt, Elsewhere
<1>5. pc[s] = "success" /\ Job[s].outcome = Outcome(s) /\ Outcome(s) # "open"
  <2>1. pc[s] = "success" /\ Outcome(s) # "open"
    BY DEF Succeed, Outcome
  <2> QED
    BY <2>1, JobFields
<1>6. Promise!Proceed(s, Job[s].outcome)
  <2>1. CASE run[s].op = "reconcile"
    <3>1. Job'[s] = Promise!NoJob
      BY <2>1, JobAt DEF Succeed
    <3> QED
      BY <1>2, <3>1, Elsewhere DEF Promise!Proceed
  <2>2. CASE run[s].op # "reconcile"
    <3>1. pc'[s] = "release" /\ run'[s] = run[s]
      BY <2>2 DEF Succeed
    <3>2. Outcome(s)' = Outcome(s) /\ Deploying(s)' = Deploying(s)
      BY <1>5, <3>1 DEF Outcome, Deploying
    <3>3. Job'[s] = Job[s]
      BY <1>5, <3>1, <3>2, JobAt
    <3>4. Job' = Job
      BY <1>2, <3>3, Steady
    <3>5. Job = [Job EXCEPT ![s].outcome = Job[s].outcome]
      <4>1. Job[s] = [Job[s] EXCEPT !.outcome = Job[s].outcome]
        BY <1>5, JobAt
      <4> QED
        BY <4>1, ViewDomains
    <3> QED
      BY <3>4, <3>5 DEF Promise!Proceed
  <2> QED
    BY <2>1, <2>2
<1> QED
  BY <1>1, <1>3, <1>4, <1>5, <1>6 DEF Promise!Report

LEMMA ReleaseStep ==
    ASSUME PromiseInv, NEW s \in Shoots, Release(s)
    PROVE  Promise!Abort(s) \/ Promise!LetGo(s)
<1> USE PromiseDomains
<1>1. /\ pc[s] = "release" /\ pc'[s] = "idle" /\ mr' = mr /\ installed' = installed
      /\ Clean(s)
  BY DEF Release
<1>2. \A t \in Shoots \ {s} : Untouched(t)
  BY DEF Release, Untouched
<1>3. Job' = [Job EXCEPT ![s] = Promise!NoJob]
  BY <1>1, <1>2, JobAt, Elsewhere
<1>4. CASE run[s].op = "restore"
  <2>1. /\ ext'[s].phase = ext[s].phase /\ ext'[s].finalizer = TRUE
        /\ ext'[s].operation = "none" /\ ext'[s].config = ext[s].config
        /\ ext'[s].lastOp = ext[s].lastOp
    BY <1>4 DEF Release, Extension
  <2>2. ext[s].operation = "restore" /\ ext[s].finalizer = TRUE
    BY <1>1, <1>4 DEF Clean, Serving, Held, Extension
  <2>3. UNCHANGED <<Asked[s], Want[s], Holding[s], Phase[s], Manifest[s]>>
    BY <1>1, <2>1, <2>2, ViewAt DEF Migrating
  <2>4. Served'[s] = Served[s]
    BY <2>1 DEF Served
  <2> QED
    BY <1>1, <1>2, <2>3, <2>4, JobAt, JobStep
<1>5. CASE run[s].op # "restore"
  <2>1. run[s].op \in {"delete", "migrate"}
    BY <1>1, <1>5 DEF Clean, Serving, Run
  <2>2. mr[s].phase = "Absent" /\ installed[s] = {} /\ Want[s] = "removed"
    BY <1>1, <2>1, ViewAt DEF Clean, Ordered, Held, Serving
  <2>3. Job[s].kind = "remove" /\ Job[s].outcome = "done"
    <3>1. ~ Deploying(s) /\ Outcome(s) = "done"
      BY <1>1, <2>1 DEF Deploying, Outcome
    <3> QED
      BY <1>1, <3>1, JobFields
  <2>4. /\ ext'[s].finalizer = FALSE /\ ext'[s].operation = "none"
        /\ ext'[s].phase # "Deleting"
        /\ ext'[s].config \in {ext[s].config, None}
        /\ ext'[s].lastOp \in {ext[s].lastOp, "New"}
    <3>1. CASE ext[s].phase = "Deleting"
      BY <1>5, <3>1 DEF Release, NoExtension
    <3>2. CASE ext[s].phase # "Deleting"
      BY <1>5, <3>2 DEF Release, Extension
    <3> QED
      BY <3>1, <3>2
  <2>5. \E b \in BOOLEAN : Served' = [Served EXCEPT ![s] = b /\ @]
    <3>1. Served'[s] \in {FALSE, Served[s]} /\ Served[s] \in BOOLEAN
      BY <2>4, ViewAt, ServedAt DEF Served
    <3>2. PICK b \in BOOLEAN : Served'[s] = (b /\ Served[s])
      BY <3>1
    <3> QED
      BY <1>2, <3>2, Elsewhere DEF Served
  <2>6. Holding' = [Holding EXCEPT ![s] = FALSE] /\ Want' = [Want EXCEPT ![s] = "kept"]
    <3>1. Holding'[s] = FALSE /\ Want'[s] = "kept"
      BY <2>4, ViewAt DEF Migrating
    <3> QED
      BY <1>2, <3>1, Elsewhere
  <2>7. \E config \in {Asked[s], None} : Asked' = [Asked EXCEPT ![s] = config]
    BY <1>2, <2>4, ViewAt, Elsewhere
  <2>8. Phase' = Phase /\ Manifest' = Manifest /\ Phase[s] = "Absent"
    BY <1>1, <1>2, <2>2, Steady, ViewAt
  <2> QED
    BY <1>1, <1>3, <2>2, <2>3, <2>5, <2>6, <2>7, <2>8 DEF Promise!LetGo
<1> QED
  BY <1>4, <1>5

LEMMA FailStep ==
    ASSUME PromiseInv, NEW s \in Shoots, Fail(s)
    PROVE  UNCHANGED Promise!vars
<1> USE PromiseDomains
<1>1. /\ ext'[s].phase = ext[s].phase /\ ext'[s].finalizer = ext[s].finalizer
      /\ ext'[s].operation = ext[s].operation /\ ext'[s].config = ext[s].config
      /\ ext'[s].lastOp = "Error" /\ mr' = mr /\ installed' = installed
      /\ pc[s] = "failed" /\ pc'[s] = "idle"
  BY DEF Fail, Extension
<1>2. \A t \in Shoots \ {s} : Untouched(t)
  BY DEF Fail, Untouched
<1>3. Served'[s] = Served[s]
  <2>1. ext[s].lastOp = "Processing"
    BY <1>1 DEF Reported
  <2> QED
    BY <1>1, <2>1, ServedAt
<1>4. UNCHANGED <<Asked[s], Want[s], Holding[s], Phase[s], Manifest[s]>>
  BY <1>1, ViewAt DEF Migrating
<1>5. Job'[s] = Job[s]
  BY <1>1, JobAt
<1> QED
  BY <1>1, <1>2, <1>3, <1>4, <1>5, JobStep

LEMMA ReadLands ==
    ASSUME PromiseInv, NEW s \in Shoots, Reconcile(s),
           ~ CreateManagedResource(s, TRUE), ~ PatchStatus(s)
    PROVE  /\ pc[s] \in ReadPoints
           /\ run'[s].op = run[s].op /\ run'[s].config = run[s].config
           /\ \/ pc'[s] \in ReconcilePoints \ {"patch"} \/ pc'[s] = "failed"
              \/ pc'[s] = "success" /\ run'[s].labels = None
<1> USE PromiseDomains
<1>1. pc[s] \in ReadPoints
  BY DEF Reconcile, GetCluster, GetGateway, ListDeployments, GetService, GetShootInfo,
     GetInfrastructure, GetIngressGateway, ReadPoints
<1>2. ASSUME NEW cidrs, AllowSeedEgress(s, cidrs)
      PROVE  /\ run'[s].op = run[s].op /\ run'[s].config = run[s].config
             /\ pc'[s] \in ReconcilePoints \ {"patch"}
  BY <1>2 DEF AllowSeedEgress, Goto, Run, ReconcilePoints, ReadPoints
<1>3. run'[s].op = run[s].op /\ run'[s].config = run[s].config
  <2>1. CASE GetCluster(s) \/ GetGateway(s) \/ GetIngressGateway(s)
    BY <2>1 DEF GetCluster, GetGateway, GetIngressGateway, Run
  <2>2. CASE ListDeployments(s)
    <3>1. CASE run' = run
      BY <3>1
    <3>2. ASSUME NEW ns \in Namespaces,
                 run' = [run EXCEPT ![s].namespace = ns, ![s].allowed = SeedNetworks]
          PROVE  run'[s].op = run[s].op /\ run'[s].config = run[s].config
      <4>1. run'[s] = [run[s] EXCEPT !.namespace = ns, !.allowed = SeedNetworks]
        BY <3>2
      <4>2. run[s] \in Run
        OBVIOUS
      <4> QED
        BY <4>1, <4>2 DEF Run
    <3> QED
      BY <2>2, <3>1, <3>2 DEF ListDeployments
  <2>3. CASE GetInfrastructure(s)
    BY <2>3 DEF GetInfrastructure, Run
  <2>4. CASE GetService(s) \/ GetShootInfo(s)
    BY <1>2, <2>4 DEF GetService, GetShootInfo
  <2> QED
    BY <2>1, <2>2, <2>3, <2>4 DEF Reconcile
<1>4. \/ pc'[s] \in ReconcilePoints \ {"patch"} \/ pc'[s] = "failed"
      \/ pc'[s] = "success" /\ run'[s].labels = None
  <2>1. CASE GetCluster(s) \/ ListDeployments(s) \/ GetInfrastructure(s) \/ GetIngressGateway(s)
    BY <2>1 DEF GetCluster, ListDeployments, GetInfrastructure, GetIngressGateway, Goto,
       ReconcilePoints, ReadPoints
  <2>2. CASE GetService(s) \/ GetShootInfo(s)
    BY <1>2, <2>2 DEF GetService, GetShootInfo, Goto, ReconcilePoints, ReadPoints
  <2>3. CASE GetGateway(s)
    BY <2>3 DEF GetGateway, Goto, Run, ReconcilePoints, ReadPoints
  <2> QED
    BY <2>1, <2>2, <2>3 DEF Reconcile
<1> QED
  BY <1>1, <1>3, <1>4

LEMMA OwnObjects ==
    ASSUME UNCHANGED objectVars, NEW s \in Shoots
    PROVE  /\ UNCHANGED <<Asked[s], Want[s], Holding[s], Served[s], Phase[s], Manifest[s]>>
           /\ installed' = installed
<1>1. UNCHANGED <<Asked[s], Want[s], Holding[s], Phase[s], Manifest[s]>>
  BY ViewAt DEF objectVars, Migrating
<1>2. Served'[s] = Served[s]
  BY DEF Served, objectVars
<1> QED
  BY <1>1, <1>2 DEF objectVars

LEMMA ReadStep ==
    ASSUME PromiseInv, NEW s \in Shoots, Reconcile(s),
           ~ CreateManagedResource(s, TRUE), ~ PatchStatus(s)
    PROVE  Promise!Excuse(s) \/ Promise!Abort(s) \/ UNCHANGED Promise!vars
<1> USE PromiseDomains
<1>1. MovesOn(s)
  BY ReconcileMovesOn
<1>2. \A t \in Shoots \ {s} : Untouched(t)
  BY <1>1 DEF MovesOn, Untouched, objectVars
<1>3. /\ UNCHANGED <<Asked[s], Want[s], Holding[s], Served[s], Phase[s], Manifest[s]>>
      /\ installed' = installed
  BY <1>1, OwnObjects DEF MovesOn
<1>4. /\ pc[s] \in ReadPoints
      /\ run'[s].op = run[s].op /\ run'[s].config = run[s].config
  BY ReadLands
<1>5. Outcome(s) = "open" /\ Deploying(s)' = Deploying(s) /\ pc[s] \notin {"idle", "failed"}
  BY <1>4 DEF Outcome, Deploying, ReadPoints
<1>6. CASE pc'[s] \in ReconcilePoints \ {"patch"}
  <2>1. Outcome(s)' = "open" /\ pc'[s] \notin {"idle", "failed"}
    BY <1>6 DEF Outcome, ReconcilePoints, ReadPoints
  <2>2. Job'[s] = Job[s]
    BY <1>4, <1>5, <2>1, JobAt
  <2> QED
    BY <1>2, <1>3, <2>2, JobStep
<1>7. CASE pc'[s] = "failed"
  BY <1>2, <1>3, <1>7, JobAt, JobStep
<1>8. CASE pc'[s] = "success" /\ run'[s].labels = None
  <2>1. Deploying(s)
    BY <1>4 DEF Clean, Serving, Deploying, ReconcilePoints
  <2>2. Outcome(s)' = "excused"
    BY <1>5, <1>8, <2>1 DEF Outcome
  <2>3. Job[s] = [kind |-> "deploy", config |-> run[s].config, outcome |-> "open"]
    BY <1>5, <2>1, JobAt
  <2>4. Job'[s] = [kind |-> "deploy", config |-> run[s].config, outcome |-> "excused"]
    BY <1>4, <1>5, <1>8, <2>1, <2>2, JobAt
  <2>5. Job' = [Job EXCEPT ![s].outcome = "excused"]
    <3>1. Job'[s] = [Job[s] EXCEPT !.outcome = "excused"]
      BY <2>3, <2>4
    <3> QED
      BY <1>2, <3>1, Elsewhere
  <2>6. /\ Asked' = Asked /\ Want' = Want /\ Holding' = Holding /\ Served' = Served
        /\ Phase' = Phase /\ Manifest' = Manifest
    BY <1>2, <1>3, Steady
  <2> QED
    BY <1>3, <2>3, <2>5, <2>6 DEF Promise!Excuse
<1> QED
  BY <1>6, <1>7, <1>8, ReadLands

LEMMA ObjectsComplete ==
    ASSUME NEW r
    PROVE  Complete(Objects(r), r.config)
<1> DEFINE Own(kind) == [kind |-> kind, namespace |-> r.namespace, labels |-> r.labels,
                         hosts |-> r.cluster.advertised, rule |-> r.config,
                         allowed |-> r.allowed]
           ingress == [kind |-> "ingress", namespace |-> "istio-ingress",
                       labels |-> r.defaultLabels, hosts |-> r.cluster.advertised,
                       rule |-> r.config, allowed |-> r.allowed]
<1>1. \A kind \in {"api", "vpn", "http-proxy"} : Own(kind) \in Objects(r)
  BY DEF Objects
<1>2. {o.kind : o \in Objects(r)} \in {Kinds, Kinds \ {"ingress"}}
  <2>1. Kinds \ {"ingress"} \subseteq {o.kind : o \in Objects(r)}
    <3>1. \A kind \in Kinds \ {"ingress"} : Own(kind) \in Objects(r) /\ Own(kind).kind = kind
      BY <1>1 DEF Kinds
    <3> QED
      BY <3>1
  <2>2. {o.kind : o \in Objects(r)} \subseteq Kinds
    BY ObjectsMember DEF Kinds
  <2> QED
    BY <2>1, <2>2 DEF Kinds
<1>3. \A o, p \in Objects(r) : o.kind = p.kind => o = p
  BY ObjectsDistinct
<1>4. ASSUME NEW o \in Objects(r)
      PROVE  /\ o.rule = r.config
             /\ o.hosts = Own("api").hosts /\ o.allowed = Own("api").allowed
             /\ IF o.kind = "ingress" THEN o.namespace = "istio-ingress"
                ELSE o.namespace = Own("api").namespace /\ o.labels = Own("api").labels
  BY ObjectsMember
<1>5. Own("api") \in Objects(r) /\ Own("api").kind = "api"
  BY <1>1
<1> HIDE DEF Own
<1> QED
  BY <1>2, <1>3, <1>4, <1>5 DEF Complete

LEMMA CreateStep ==
    ASSUME PromiseInv, NEW s \in Shoots, NEW answered, CreateManagedResource(s, answered)
    PROVE  Promise!Deploy(s)
<1> USE PromiseDomains
<1>1. /\ pc[s] = "create" /\ run' = run /\ ext' = ext /\ installed' = installed
      /\ mr'[s].objects = Objects(run[s])
      /\ mr'[s].phase = IF mr[s].phase = "Absent" THEN "Present" ELSE mr[s].phase
      /\ pc'[s] \in {"patch", "failed"}
      /\ \A t \in Shoots \ {s} : Untouched(t)
  BY DEF CreateManagedResource, Goto, Untouched
<1>2. Clean(s) /\ mr[s] \in ManagedResource
  OBVIOUS
<1>3. Deploying(s) /\ Outcome(s) = "open" /\ Holding[s] /\ Phase[s] # "Deleting"
  BY <1>1, <1>2, ViewAt DEF Clean, Held, Ordered, Serving, Deploying, Outcome, ReconcilePoints
<1>4. Job[s].kind = "deploy" /\ Job[s].outcome = "open" /\ Job[s].config = run[s].config
  BY <1>1, <1>3, JobFields
<1>5. Phase' = [Phase EXCEPT ![s] = "Present"]
  <2>1. Phase'[s] = "Present"
    BY <1>1, <1>2, <1>3, ViewAt DEF ManagedResource
  <2> QED
    BY <1>1, <2>1, Elsewhere
<1>6. /\ Manifest' = [Manifest EXCEPT ![s] = Manifest'[s]]
      /\ Complete(Manifest'[s], Job[s].config)
  BY <1>1, <1>4, ViewAt, Elsewhere, ObjectsComplete
<1>7. Promise!Proceed(s, "done")
  <2>1. CASE pc'[s] = "failed"
    <3>1. Job'[s] = Promise!NoJob
      BY <2>1, JobAt
    <3> QED
      BY <1>1, <3>1, Elsewhere DEF Promise!Proceed
  <2>2. CASE pc'[s] = "patch"
    <3>1. Outcome(s)' = "done" /\ Deploying(s)'
      BY <1>1, <1>3, <2>2 DEF Outcome, Deploying
    <3>2. Job'[s] = [kind |-> "deploy", config |-> run[s].config, outcome |-> "done"]
      BY <1>1, <2>2, <3>1, JobAt
    <3>3. Job[s] = [kind |-> "deploy", config |-> run[s].config, outcome |-> "open"]
      BY <1>1, <1>3, JobAt
    <3>4. Job'[s] = [Job[s] EXCEPT !.outcome = "done"]
      BY <3>2, <3>3
    <3>5. Job' = [Job EXCEPT ![s].outcome = "done"]
      BY <1>1, <3>4, Elsewhere
    <3> QED
      BY <3>5 DEF Promise!Proceed
  <2> QED
    BY <1>1, <2>1, <2>2
<1>8. Asked' = Asked /\ Want' = Want /\ Holding' = Holding /\ Served' = Served
  BY <1>1 DEF Asked, Want, Holding, Served, Migrating
<1> QED
  BY <1>1, <1>3, <1>4, <1>5, <1>6, <1>7, <1>8 DEF Promise!Deploy

LEMMA PatchStep ==
    ASSUME PromiseInv, NEW s \in Shoots, PatchStatus(s)
    PROVE  UNCHANGED Promise!vars
<1> USE PromiseDomains
<1>1. /\ ext'[s].phase = ext[s].phase /\ ext'[s].finalizer = ext[s].finalizer
      /\ ext'[s].operation = ext[s].operation /\ ext'[s].config = ext[s].config
      /\ ext'[s].lastOp = ext[s].lastOp
  BY DEF PatchStatus, Extension
<1>2. /\ pc[s] = "patch" /\ pc'[s] = "success" /\ run' = run /\ mr' = mr
      /\ installed' = installed
      /\ \A t \in Shoots \ {s} : Untouched(t)
  BY DEF PatchStatus, Goto, Untouched
<1>3. UNCHANGED <<Asked[s], Want[s], Holding[s], Phase[s], Manifest[s]>>
  BY <1>1, <1>2, ViewAt DEF Migrating
<1>4. Served'[s] = Served[s]
  BY <1>1 DEF Served
<1>5. run[s].labels # None
  BY <1>2, NoneAssumption DEF CleanInv, TypeInv, ReadInv, ReadAt, AfterGateway
<1>6. Outcome(s) = "done" /\ Outcome(s)' = "done" /\ Deploying(s)' = Deploying(s)
  BY <1>2, <1>5 DEF Outcome, Deploying
<1>7. Job'[s] = Job[s]
  BY <1>2, <1>6, JobAt
<1> QED
  BY <1>2, <1>3, <1>4, <1>7, JobStep

LEMMA DeleteStep ==
    ASSUME PromiseInv, NEW s \in Shoots, NEW answered, DeleteManagedResource(s, answered)
    PROVE  Promise!Remove(s) \/ Promise!Abort(s) \/ UNCHANGED Promise!vars
<1> USE PromiseDomains
<1>1. /\ pc[s] = "delete" /\ pc'[s] \in {"wait", "failed"}
      /\ run' = run /\ ext' = ext /\ installed' = installed
      /\ mr'[s] = [mr[s] EXCEPT !.phase = IF @ = "Present" THEN "Deleting" ELSE @]
      /\ \A t \in Shoots \ {s} : Untouched(t)
  BY DEF DeleteManagedResource, Goto, Untouched
<1>2. Clean(s) /\ mr[s] \in ManagedResource
  OBVIOUS
<1>3. ~ Deploying(s) /\ Outcome(s) = "open" /\ Want[s] = "removed"
  BY <1>1, <1>2, ViewAt DEF Clean, Serving, Deploying, Outcome, DeletePoints
<1>4. \/ pc'[s] = "failed" /\ Job'[s] = Promise!NoJob
      \/ Job'[s] = Job[s]
  <2>1. CASE pc'[s] = "wait"
    <3>1. Outcome(s)' = "open" /\ ~ Deploying(s)'
      BY <1>1, <1>3, <2>1 DEF Outcome, Deploying
    <3>2. Job[s] = [kind |-> "remove", config |-> run[s].config, outcome |-> "open"]
      BY <1>1, <1>3, JobAt
    <3>3. Job'[s] = [kind |-> "remove", config |-> run[s].config, outcome |-> "open"]
      BY <1>1, <2>1, <3>1, JobAt
    <3> QED
      BY <3>2, <3>3
  <2> QED
    BY <1>1, <2>1, JobAt
<1>5. UNCHANGED <<Asked[s], Want[s], Holding[s]>> /\ Served'[s] = Served[s]
  BY <1>1 DEF Asked, Want, Holding, Served, Migrating
<1>6. Manifest'[s] = Manifest[s]
  BY <1>1, <1>2, ViewAt DEF ManagedResource
<1>7. CASE mr[s].phase = "Present"
  <2>1. Job[s].kind = "remove" /\ Job[s].outcome = "open"
    BY <1>1, <1>3, JobFields
  <2>2. Promise!Proceed(s, "open")
    <3>1. CASE Job'[s] = Promise!NoJob
      BY <1>1, <3>1, Elsewhere DEF Promise!Proceed
    <3>2. CASE Job'[s] = Job[s]
      <4>1. Job[s] = [kind |-> "remove", config |-> run[s].config, outcome |-> "open"]
        BY <1>1, <1>3, JobAt
      <4>2. Job'[s] = [Job[s] EXCEPT !.outcome = "open"]
        BY <3>2, <4>1
      <4>3. Job' = [Job EXCEPT ![s].outcome = "open"]
        BY <1>1, <4>2, Elsewhere
      <4> QED
        BY <4>3 DEF Promise!Proceed
    <3> QED
      BY <1>4, <3>1, <3>2
  <2>3. Phase[s] = "Present" /\ Phase' = [Phase EXCEPT ![s] = "Deleting"]
    <3>1. Phase'[s] = "Deleting"
      BY <1>1, <1>2, <1>7, ViewAt DEF ManagedResource
    <3> QED
      BY <1>1, <1>7, <3>1, ViewAt, Elsewhere
  <2>4. Asked' = Asked /\ Want' = Want /\ Holding' = Holding /\ Served' = Served
        /\ Manifest' = Manifest
    BY <1>1, <1>5, <1>6, Steady
  <2> QED
    BY <1>1, <1>3, <2>1, <2>2, <2>3, <2>4 DEF Promise!Remove
<1>8. CASE mr[s].phase # "Present"
  <2>1. Phase'[s] = Phase[s]
    BY <1>1, <1>2, <1>8, ViewAt DEF ManagedResource
  <2> QED
    BY <1>1, <1>4, <1>5, <1>6, <2>1, JobStep
<1> QED
  BY <1>7, <1>8

LEMMA WaitStep ==
    ASSUME PromiseInv, NEW s \in Shoots, WaitUntilDeleted(s)
    PROVE  Promise!Removed(s)
<1> USE PromiseDomains
<1>1. /\ pc[s] = "wait" /\ pc'[s] = "success" /\ run' = run
      /\ UNCHANGED objectVars /\ Clean(s) /\ Phase[s] = "Absent"
      /\ \A t \in Shoots \ {s} : Untouched(t)
  BY ViewAt DEF WaitUntilDeleted, Goto, Untouched, restVars, objectVars
<1>2. /\ Asked' = Asked /\ Want' = Want /\ Holding' = Holding /\ Served' = Served
      /\ Phase' = Phase /\ Manifest' = Manifest /\ installed' = installed
  BY <1>1, OwnObjects, Steady
<1>3. ~ Deploying(s) /\ Outcome(s) = "open" /\ ~ Deploying(s)' /\ Outcome(s)' = "done"
  BY <1>1 DEF Clean, Serving, Deploying, Outcome, DeletePoints
<1>4. Job[s] = [kind |-> "remove", config |-> run[s].config, outcome |-> "open"]
  BY <1>1, <1>3, JobAt
<1>5. Job'[s] = [kind |-> "remove", config |-> run[s].config, outcome |-> "done"]
  BY <1>1, <1>3, JobAt
<1>6. Job' = [Job EXCEPT ![s].outcome = "done"]
  <2>1. Job'[s] = [Job[s] EXCEPT !.outcome = "done"]
    BY <1>4, <1>5
  <2> QED
    BY <1>1, <2>1, Elsewhere
<1> QED
  BY <1>1, <1>2, <1>4, <1>6 DEF Promise!Removed

\* A timeout, or a call that fails without effect.
LEMMA GiveUpStep ==
    ASSUME PromiseInv, NEW s \in Shoots, Goto(s, "failed"), run' = run, UNCHANGED objectVars
    PROVE  Promise!Abort(s)
<1> USE PromiseDomains
<1>1. pc'[s] = "failed" /\ \A t \in Shoots \ {s} : Untouched(t)
  BY DEF Goto, Untouched, objectVars
<1> QED
  BY <1>1, OwnObjects, JobAt, JobStep

LEMMA ApiErrorStep ==
    ASSUME PromiseInv, NEW s \in Shoots, ApiError(s)
    PROVE  \/ Promise!Abort(s) \/ Promise!Deploy(s) \/ Promise!Remove(s)
           \/ UNCHANGED Promise!vars
<1>1. CASE CreateManagedResource(s, FALSE)
  BY <1>1, CreateStep
<1>2. CASE DeleteManagedResource(s, FALSE)
  BY <1>2, DeleteStep
<1> QED
  BY <1>1, <1>2, GiveUpStep DEF ApiError, objectVars

LEMMA RestartStep ==
    ASSUME PromiseInv, Restart
    PROVE  Promise!Crash
<1>1. Job' = [s \in Shoots |-> Promise!NoJob]
  BY DEF Restart, Job, Promise!NoJob
<1>2. /\ Asked' = Asked /\ Want' = Want /\ Holding' = Holding /\ Served' = Served
      /\ Phase' = Phase /\ Manifest' = Manifest /\ installed' = installed
  BY DEF Restart, objectVars, Asked, Want, Holding, Served, Phase, Manifest, Migrating
<1> QED
  BY <1>1, <1>2 DEF Promise!Crash

\* A request changes the Extension only, of which the promise sees this much.
LEMMA WriteView ==
    ASSUME PromiseInv, NEW s \in Shoots, NEW e, Write(s, e)
    PROVE  /\ \A t \in Shoots \ {s} : Untouched(t)
           /\ installed' = installed
           /\ UNCHANGED <<Job[s], Phase[s], Manifest[s]>>
           /\ Asked'[s] = e.config /\ Holding'[s] = e.finalizer
           /\ Want'[s] = IF e.phase = "Deleting" \/ e.operation = "migrate"
                         THEN "removed" ELSE "kept"
           /\ e.lastOp = ext[s].lastOp => Served'[s] = Served[s]
           /\ e.lastOp = "New" => Served'[s] = FALSE
<1> USE PromiseDomains
<1>1. /\ ext'[s] = e /\ mr'[s] = mr[s] /\ pc'[s] = pc[s] /\ run'[s] = run[s]
      /\ \A t \in Shoots \ {s} : Untouched(t)
  BY WriteStep
<1>2. UNCHANGED <<Job[s], Phase[s], Manifest[s]>>
  BY <1>1 DEF Job, Phase, Manifest, Deploying, Outcome
<1>3. /\ Asked'[s] = e.config /\ Holding'[s] = e.finalizer
      /\ Want'[s] = IF e.phase = "Deleting" \/ e.operation = "migrate"
                    THEN "removed" ELSE "kept"
  BY <1>1, ViewAt DEF Migrating
<1>4. e.lastOp = ext[s].lastOp => Served'[s] = Served[s]
  BY <1>1 DEF Served
<1>5. e.lastOp = "New" => Served'[s] = FALSE
  BY <1>1, ServedAt
<1> QED
  BY <1>1, <1>2, <1>3, <1>4, <1>5 DEF Write

LEMMA GardenletStep ==
    ASSUME PromiseInv, NEW s \in Shoots, Gardenlet(s)
    PROVE  Promise!Ask(s) \/ UNCHANGED Promise!vars
<1> USE PromiseDomains
<1>1. Clean(s) /\ ext[s] \in Extension /\ Reported(s)
  OBVIOUS
<1>2. CASE CreateExtension(s)
  <2>1. PICK config \in ProviderConfigs, operation \in {"reconcile", "restore"} :
           Write(s, [NoExtension EXCEPT !.phase = "Live", !.config = config,
                                        !.operation = operation])
    BY <1>2 DEF CreateExtension
  <2> DEFINE e == [NoExtension EXCEPT !.phase = "Live", !.config = config,
                                      !.operation = operation]
  <2>2. /\ e.operation \in {"reconcile", "restore"} /\ e.phase = "Live"
        /\ e.config = config /\ e.finalizer = FALSE /\ e.lastOp = "New"
    BY DEF NoExtension
  <2>3. Write(s, e)
    BY <2>1
  <2> HIDE DEF e
  <2>4. ext[s] = NoExtension
    BY <1>1, <1>2 DEF CreateExtension, Reported
  <2>5. Want[s] = "kept" /\ Holding[s] = FALSE
    BY <2>4, ViewAt DEF NoExtension, Migrating
  <2>6. /\ Asked'[s] = config /\ Want'[s] = "kept" /\ Holding'[s] = Holding[s]
        /\ Served'[s] = FALSE /\ UNCHANGED <<Job[s], Phase[s], Manifest[s]>>
    BY <2>2, <2>3, <2>5, WriteView
  <2>7. Promise!Ask(s)
    BY <2>3, <2>5, <2>6, WriteView, AskKept
  <2> QED
    BY <2>7
<1>3. CASE ReconcileExtension(s)
  <2>1. PICK config \in ProviderConfigs :
           Write(s, [ext[s] EXCEPT !.config = config, !.operation = "reconcile"])
    BY <1>3 DEF ReconcileExtension
  <2> DEFINE e == [ext[s] EXCEPT !.config = config, !.operation = "reconcile"]
  <2>2. /\ e.operation = "reconcile" /\ e.phase = "Live" /\ e.config = config
        /\ e.finalizer = ext[s].finalizer /\ e.lastOp = ext[s].lastOp
    BY <1>1, <1>3 DEF ReconcileExtension, Extension
  <2>3. Write(s, e)
    BY <2>1
  <2> HIDE DEF e
  <2>4. Want[s] = "kept" /\ Holding[s] = ext[s].finalizer
    BY <1>3, ViewAt DEF ReconcileExtension, Migrating
  <2>5. /\ Asked'[s] = config /\ Want'[s] = "kept" /\ Holding'[s] = Holding[s]
        /\ Served'[s] = Served[s] /\ UNCHANGED <<Job[s], Phase[s], Manifest[s]>>
    BY <2>2, <2>3, <2>4, WriteView
  <2>6. Promise!Ask(s)
    BY <2>3, <2>4, <2>5, WriteView, AskKept
  <2> QED
    BY <2>6
<1>4. CASE MigrateExtension(s)
  <2> DEFINE e == [ext[s] EXCEPT !.operation = "migrate"]
  <2>1. /\ e.operation = "migrate" /\ e.config = ext[s].config
        /\ e.finalizer = ext[s].finalizer /\ e.lastOp = ext[s].lastOp
    BY <1>1 DEF Extension
  <2>2. Write(s, e)
    BY <1>4 DEF MigrateExtension
  <2> HIDE DEF e
  <2>3. Want[s] = "kept" /\ Holding[s] = ext[s].finalizer /\ Holding[s]
    BY <1>4, ViewAt DEF MigrateExtension, Migrating
  <2>4. ext[s].config \in ProviderConfigs \cup {None}
    BY <1>1 DEF Extension
  <2>5. Promise!Ask(s)
    BY <2>1, <2>2, <2>3, <2>4, WriteView, AskKept
  <2> QED
    BY <2>5
<1>5. CASE DeleteExtension(s) /\ ext[s].finalizer
  <2> DEFINE e == [ext[s] EXCEPT !.phase = "Deleting"]
  <2>1. /\ e.phase = "Deleting" /\ e.config = ext[s].config
        /\ e.finalizer = ext[s].finalizer /\ e.lastOp = ext[s].lastOp
    BY <1>1 DEF Extension
  <2>2. Write(s, e)
    BY <1>5 DEF DeleteExtension
  <2> HIDE DEF e
  <2>3. Holding[s] = ext[s].finalizer /\ Holding[s] /\ Asked[s] = ext[s].config
    BY <1>5, ViewAt
  <2>4. ext[s].config \in ProviderConfigs \cup {None}
    BY <1>1 DEF Extension
  <2>5. CASE Want[s] = "kept"
    BY <2>1, <2>2, <2>3, <2>4, <2>5, WriteView, AskKept
  <2>6. CASE Want[s] = "removed"
    <3>1. UNCHANGED <<Asked[s], Want[s], Holding[s], Served[s], Job[s], Phase[s], Manifest[s]>>
      BY <2>1, <2>2, <2>3, <2>6, WriteView
    <3> QED
      BY <2>2, <3>1, WriteView, JobStep
  <2>7. Want[s] \in {"kept", "removed"}
    BY ViewAt
  <2> QED
    BY <2>5, <2>6, <2>7
<1>6. CASE DeleteExtension(s) /\ ~ ext[s].finalizer
  <2>1. Write(s, NoExtension)
    BY <1>6 DEF DeleteExtension
  <2>2. Want[s] = "kept"
    BY <1>1, <1>6, ViewAt DEF DeleteExtension, Clean, Held
  <2>3. Holding[s] = FALSE
    BY <1>1, <1>6, ViewAt DEF Extension
  <2>4. /\ NoExtension.phase = "Absent" /\ NoExtension.operation = "none"
        /\ NoExtension.config = None /\ NoExtension.finalizer = FALSE
        /\ NoExtension.lastOp = "New"
    BY DEF NoExtension
  <2>5. /\ Asked'[s] = None /\ Want'[s] = "kept" /\ Holding'[s] = Holding[s]
        /\ Served'[s] = FALSE /\ UNCHANGED <<Job[s], Phase[s], Manifest[s]>>
    BY <2>1, <2>3, <2>4, WriteView
  <2>6. Promise!Ask(s)
    BY <2>1, <2>2, <2>5, WriteView, AskKept
  <2> QED
    BY <2>6
<1> QED
  BY <1>2, <1>3, <1>4, <1>5, <1>6 DEF Gardenlet

LEMMA GrmStep ==
    ASSUME PromiseInv, NEW s \in Shoots, Grm(s)
    PROVE  Promise!RollOut(s) \/ Promise!TearDown(s)
<1> USE PromiseDomains
<1>1. ext' = ext /\ pc' = pc /\ run' = run
  BY DEF Grm, GrmApply, GrmPrune, GrmDelete, GrmUnchanged, workVars
<1>2. Asked' = Asked /\ Want' = Want /\ Holding' = Holding /\ Served' = Served /\ Job' = Job
  BY <1>1 DEF Asked, Want, Holding, Served, Job, Migrating, Deploying, Outcome
<1>3. mr' = mr => Phase' = Phase /\ Manifest' = Manifest
  BY DEF Phase, Manifest
<1>4. Phase[s] = mr[s].phase /\ Manifest[s] = mr[s].objects
  BY ViewAt
<1>5. CASE GrmApply(s)
  <2>1. PICK o \in mr[s].objects \ installed[s] :
           installed' = [installed EXCEPT ![s] = {p \in @ : ~ SameObject(o, p)} \cup {o}]
    BY <1>5 DEF GrmApply
  <2>2. installed'[s] = {p \in installed[s] : ~ SameObject(o, p)} \cup {o}
    BY <2>1
  <2>3. installed[s] \cap Manifest[s] \subseteq installed'[s]
    BY <1>4, <2>2 DEF Reported
  <2>4. installed' = [installed EXCEPT ![s] = installed'[s]]
    BY <2>1, <2>2
  <2> QED
    BY <1>2, <1>3, <1>4, <1>5, <2>2, <2>3, <2>4 DEF GrmApply, Promise!RollOut
<1>6. CASE GrmPrune(s)
  <2>1. PICK o \in installed[s] :
           /\ \A p \in mr[s].objects : ~ SameObject(o, p)
           /\ installed' = [installed EXCEPT ![s] = @ \ {o}]
    BY <1>6 DEF GrmPrune
  <2>2. installed'[s] = installed[s] \ {o} /\ o \notin Manifest[s]
    BY <1>4, <2>1 DEF SameObject
  <2>3. installed' = [installed EXCEPT ![s] = installed'[s]]
    BY <2>1, <2>2
  <2> QED
    BY <1>2, <1>3, <1>4, <1>6, <2>2, <2>3 DEF GrmPrune, Promise!RollOut
<1>7. CASE GrmDelete(s) /\ installed[s] = {}
  <2>1. mr' = [mr EXCEPT ![s] = NoManagedResource] /\ installed' = installed
    BY <1>7 DEF GrmDelete
  <2>2. Phase' = [Phase EXCEPT ![s] = "Absent"] /\ Manifest' = [Manifest EXCEPT ![s] = {}]
    BY <2>1 DEF Phase, Manifest, NoManagedResource
  <2> QED
    BY <1>2, <1>4, <1>7, <2>1, <2>2 DEF GrmDelete, Promise!TearDown
<1>8. CASE GrmDelete(s) /\ installed[s] # {}
  <2>1. PICK o \in installed[s] : installed' = [installed EXCEPT ![s] = @ \ {o}]
    BY <1>8 DEF GrmDelete
  <2>2. installed'[s] \subseteq installed[s]
    BY <2>1
  <2>3. installed' = [installed EXCEPT ![s] = installed'[s]]
    BY <2>1
  <2> QED
    BY <1>2, <1>3, <1>4, <1>8, <2>2, <2>3 DEF GrmDelete, Promise!TearDown
<1> QED
  BY <1>5, <1>6, <1>7, <1>8 DEF Grm

LEMMA SeedStays ==
    ASSUME UNCHANGED <<objectVars, workVars>>
    PROVE  UNCHANGED Promise!vars
BY DEF objectVars, workVars, Promise!vars, Asked, Want, Holding, Served, Phase, Manifest,
   Job, Migrating, Deploying, Outcome

-----------------------------------------------------------------------------
LEMMA NextStep == PromiseInv /\ [Next]_vars => Steps
<1> SUFFICES ASSUME PromiseInv, [Next]_vars PROVE Steps
  OBVIOUS
<1> USE DEF Steps, Promise!Next
<1>1. ASSUME NEW s \in Shoots, Dequeue(s) PROVE Steps
  BY <1>1, BeginStep
<1>2. ASSUME NEW s \in Shoots, Reconcile(s) PROVE Steps
  BY <1>2, CreateStep, PatchStep, ReadStep
<1>3. ASSUME NEW s \in Shoots, Delete(s) PROVE Steps
  <2>1. CASE DeletionTimeout(s)
    BY <1>3, <2>1, GiveUpStep DEF DeletionTimeout, restVars
  <2> QED
    BY <1>3, <2>1, DeleteStep, WaitStep DEF Delete
<1>4. ASSUME NEW s \in Shoots, Finish(s) PROVE Steps
  BY <1>4, SucceedStep, ReleaseStep, FailStep DEF Finish
<1>5. ASSUME NEW s \in Shoots, ApiError(s) PROVE Steps
  BY <1>5, ApiErrorStep
<1>6. ASSUME NEW s \in Shoots, Grm(s) PROVE Steps
  BY <1>6, GrmStep
<1>7. ASSUME NEW s \in Shoots, Gardenlet(s) PROVE Steps
  BY <1>7, GardenletStep
<1>8. ASSUME NEW s \in Shoots, DeliverInfrastructureEvent(s) \/ SeedChange(s) PROVE Steps
  BY <1>8, SeedStays DEF DeliverInfrastructureEvent, SeedChange, ChangeCluster,
     ChangeGateway, ChangeInfrastructure, Unwatched
<1>9. CASE SharedChange
  BY <1>9, SeedStays DEF SharedChange, ChangeDeployments, ChangeService, ChangeShootInfo,
     ChangeIngressGateway, Unwatched
<1>10. CASE UNCHANGED vars
  BY <1>10, SeedStays DEF vars, restVars
<1>11. CASE Restart
  BY <1>11, RestartStep
<1> QED
  BY <1>1, <1>2, <1>3, <1>4, <1>5, <1>6, <1>7, <1>8, <1>9, <1>10, <1>11 DEF Next

LEMMA InitStep == Init => Promise!Init
<1> SUFFICES ASSUME Init PROVE Promise!Init
  OBVIOUS
<1>1. /\ Asked = [s \in Shoots |-> None] /\ Want = [s \in Shoots |-> "kept"]
      /\ Holding = [s \in Shoots |-> FALSE]
  BY DEF Init, Asked, Want, Holding, NoExtension, Migrating
<1>2. Served = [s \in Shoots |-> FALSE]
  <2>1. \A s \in Shoots : ext[s].lastOp \notin {"Succeeded", "Migrated"}
    BY DEF Init, NoExtension
  <2> QED
    BY <2>1, ServedAt, ViewDomains
<1>3. Job = [s \in Shoots |-> Promise!NoJob]
  BY DEF Init, Job, Promise!NoJob
<1>4. Phase = [s \in Shoots |-> "Absent"] /\ Manifest = [s \in Shoots |-> {}]
  BY DEF Init, Phase, Manifest, NoManagedResource
<1>5. installed = [s \in Shoots |-> {}]
  BY DEF Init
<1> QED
  BY <1>1, <1>2, <1>3, <1>4, <1>5 DEF Promise!Init

LEMMA PromiseInvAlways == Spec => []PromiseInv
BY InitPromise, NextPromise, PTL DEF Spec

\* In whatever order reads, writes, failures, retries and restarts come, for any
\* shoots and any inputs: whole sets of filters of the config a run began with
\* are deployed (actuator.go:187), success is reported of runs that did their
\* work or were excused (actuator.go:131), and the shoot is let go only when
\* nothing of it is left (actuator.go:341).
THEOREM KeepsPromise == Spec => PromiseKept
<1>1. PromiseInv /\ [Next]_vars => [Promise!Next]_(Promise!vars)
  BY NextStep DEF Steps
<1> QED
  BY InitStep, <1>1, PromiseInvAlways, PTL DEF Spec, PromiseKept, Promise!Spec
=============================================================================
