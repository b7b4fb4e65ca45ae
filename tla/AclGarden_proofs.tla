-------------------------- MODULE AclGarden_proofs --------------------------
(***************************************************************************)
(* What the admission lets through, the controller deploys, and nothing    *)
(* longer than an admission's limit gets onto the seed, for any Shoots,    *)
(* edits, limits, rollouts of the admission and failures of the controller.*)
(***************************************************************************)
EXTENDS AclGarden, AclContents_proofs

-----------------------------------------------------------------------------
(* The invariant *)

\* What an admission of now or of earlier lets an enabled entry have.
Admitted(config) ==
    config # NoRule =>
        /\ config # Malformed
        /\ \E value \in ChartLimits : ValidateExtensionSpec(config, Limit(value))

\* A config is admitted wherever it has got to on its way to the seed, and
\* gardenlet asks for nothing but reconciliations and deletions.
Passed(s) ==
    /\ Enabled(s) => Admitted(entry[s].config)
    /\ ext[s].phase # "Absent" => Admitted(ext[s].config)
    /\ pc[s] \in ReconcilePoints => Admitted(run[s].config)
    /\ \A o \in Rendered(s) : Admitted(o.rule)
    /\ ext[s].operation \in {"none", "reconcile"}

LimitInv == limit \in {Limit(value) : value \in ChartLimits}

GardenInv ==
    /\ CleanInv /\ RuleInv
    /\ GardenTypeOK /\ LimitInv
    /\ \A s \in Shoots : Passed(s)

LEMMA LimitPositive ==
    ASSUME NEW value \in ChartLimits
    PROVE  /\ Limit(value) \in Nat \ {0}
           /\ Limit(value) \in {DefaultLimit} \cup ChartLimits
BY LimitsAssumption DEF Limit

LEMMA InitGarden == GardenInit => GardenInv
<1> SUFFICES ASSUME GardenInit PROVE GardenInv
  OBVIOUS
<1>1. CleanInv
  BY InitClean DEF GardenInit
<1>2. RuleInv
  BY DEF GardenInit, Init, RuleInv, Rendered, NoManagedResource, Validated,
     ReconcilePoints, ReadPoints
<1>3. GardenTypeOK /\ LimitInv
  BY LimitPositive, LimitsAssumption DEF GardenInit, GardenTypeOK, LimitInv
<1>4. ASSUME NEW s \in Shoots PROVE Passed(s)
  BY DEF GardenInit, Init, Passed, Enabled, NoExtension, NoManagedResource, Rendered,
     ReconcilePoints, ReadPoints
<1> QED
  BY <1>1, <1>2, <1>3, <1>4 DEF GardenInv

-----------------------------------------------------------------------------
(* The garden *)

LEMMA ValidatedIsAdmitted ==
    ASSUME LimitInv, NEW new, NEW old, Validate(new, old, limit), new # None,
           ~ new.disabled
    PROVE  Admitted(new.config)
BY DEF LimitInv, Validate, Admitted

LEMMA EditShootGarden ==
    ASSUME GardenInv, NEW s \in Shoots, EditShoot(s)
    PROVE  GardenInv'
<1>1. UNCHANGED vars /\ limit' = limit
  BY DEF EditShoot
<1>2. CleanInv' /\ RuleInv'
  BY <1>1, NextClean, NextRules DEF GardenInv
<1>3. PICK new \in Entry \cup {None} :
         Validate(new, entry[s], limit) /\ entry' = [entry EXCEPT ![s] = new]
  BY DEF EditShoot
<1>4. GardenTypeOK' /\ LimitInv'
  BY <1>1, <1>3, LimitsAssumption DEF EditShoot, Edit, GardenInv, GardenTypeOK, LimitInv
<1>5. ASSUME NEW t \in Shoots PROVE Passed(t)'
  <2>1. /\ ext' = ext /\ pc' = pc /\ run' = run /\ mr' = mr /\ installed' = installed
        /\ Passed(t)
    BY <1>1 DEF vars, restVars, objectVars, workVars, GardenInv
  <2>2. Enabled(t)' => Admitted(entry'[t].config)
    <3>1. CASE t = s
      <4>1. entry'[t] = new
        BY <1>3, <3>1 DEF GardenInv, GardenTypeOK
      <4> QED
        BY <1>3, <4>1, ValidatedIsAdmitted DEF GardenInv, Enabled
    <3>2. CASE t # s
      BY <1>3, <2>1, <3>2 DEF GardenInv, GardenTypeOK, Enabled, Passed
    <3> QED
      BY <3>1, <3>2
  <2> QED
    BY <2>1, <2>2 DEF Passed, Rendered
<1> QED
  BY <1>2, <1>4, <1>5 DEF GardenInv

LEMMA RestartAdmissionGarden ==
    ASSUME GardenInv, RestartAdmission
    PROVE  GardenInv'
<1>1. UNCHANGED vars /\ entry' = entry
  BY DEF RestartAdmission
<1>2. CleanInv' /\ RuleInv'
  BY <1>1, NextClean, NextRules DEF GardenInv
<1>3. LimitInv'
  BY DEF RestartAdmission, LimitInv
<1>4. GardenTypeOK'
  BY <1>1, LimitPositive, LimitsAssumption DEF RestartAdmission, Edit, GardenInv,
     GardenTypeOK
<1>5. \A t \in Shoots : Passed(t)'
  BY <1>1 DEF GardenInv, vars, restVars, objectVars, workVars, Passed, Rendered, Enabled
<1> QED
  BY <1>2, <1>3, <1>4, <1>5 DEF GardenInv

\* gardenlet writes the entry's config, or what the Extension has.
Synced(s, e) ==
    /\ e \in Extension
    /\ e.phase # "Absent" => e.config \in ProviderConfigs /\ Admitted(e.config)
    /\ e.operation \in {"none", "reconcile"}
    /\ e.phase = "Absent" \/ ~ e.finalizer => pc[s] = "idle" /\ mr[s].phase = "Absent"
    /\ ext[s].phase = "Deleting" => e.phase = "Deleting"

LEMMA SyncedStep ==
    ASSUME GardenInv, NEW s \in Shoots, NEW e, Synced(s, e), Write(s, e),
           changes' \in 0 .. MaxChanges, UNCHANGED gardenVars
    PROVE  GardenInv'
<1>1. TypeInv'
  BY WriteTyped DEF GardenInv, CleanInv, Synced
<1>2. CleanInv'
  <2>1. /\ ext'[s] = e /\ mr'[s] = mr[s] /\ installed'[s] = installed[s]
        /\ pc'[s] = pc[s] /\ run'[s] = run[s]
        /\ \A t \in Shoots \ {s} : Untouched(t)
    BY WriteStep DEF GardenInv
  <2>2. Clean(s) /\ ext[s].operation \in {"none", "reconcile"}
    BY DEF GardenInv, CleanInv, Passed
  <2>3. Clean(s)'
    BY <2>1, <2>2 DEF Synced, Clean, Held, Ordered, Serving, Migrating
  <2> QED
    BY <1>1, <2>1, <2>3, OneShoot DEF GardenInv, CleanInv
<1>3. UNCHANGED <<mr, installed, workVars>>
  BY DEF Write
<1>4. RuleInv'
  BY <1>3, OtherRules DEF GardenInv
<1>5. GardenTypeOK' /\ LimitInv'
  BY DEF GardenInv, gardenVars, GardenTypeOK, LimitInv
<1>6. \A t \in Shoots : Passed(t)'
  <2>1. ext \in [Shoots -> Extension] /\ ext' = [ext EXCEPT ![s] = e]
    BY Domains DEF GardenInv, Write
  <2> QED
    BY <1>3, <2>1 DEF GardenInv, Passed, Synced, gardenVars, workVars, Enabled, Rendered
<1> QED
  BY <1>2, <1>4, <1>5, <1>6 DEF GardenInv

LEMMA SyncExtensionGarden ==
    ASSUME GardenInv, NEW s \in Shoots, SyncExtension(s), UNCHANGED gardenVars
    PROVE  GardenInv'
<1>1. /\ ext[s] \in Extension /\ Clean(s) /\ Passed(s) /\ changes' \in 0 .. MaxChanges
      /\ ext[s].phase # "Absent" => ext[s].config \in ProviderConfigs
  BY Domains DEF GardenInv, CleanInv, TypeInv, TypeOK, BookType, ReadInv, SyncExtension
<1>2. ext[s].phase = "Absent" \/ ~ ext[s].finalizer
         => pc[s] = "idle" /\ mr[s].phase = "Absent"
  BY <1>1 DEF Clean, Held
<1>3. Enabled(s) => entry[s].config \in ProviderConfigs /\ Admitted(entry[s].config)
  BY <1>1 DEF GardenInv, GardenTypeOK, Entry, Enabled, Passed
<1>4. CASE /\ Enabled(s) /\ ext[s].phase = "Absent"
           /\ Write(s, [NoExtension EXCEPT !.phase = "Live", !.operation = "reconcile",
                                           !.config = entry[s].config])
  <2> DEFINE e == [NoExtension EXCEPT !.phase = "Live", !.operation = "reconcile",
                                      !.config = entry[s].config]
  <2>1. /\ e \in Extension /\ e.config = entry[s].config
        /\ e.phase = "Live" /\ e.operation = "reconcile"
    BY <1>3, <1>4 DEF NoExtension, Extension
  <2>2. Write(s, e)
    BY <1>4
  <2> HIDE DEF e
  <2>3. Synced(s, e)
    BY <1>2, <1>3, <1>4, <2>1 DEF Synced
  <2> QED
    BY <1>1, <2>2, <2>3, SyncedStep
<1>5. CASE /\ Enabled(s) /\ ext[s].phase = "Live"
           /\ Write(s, [ext[s] EXCEPT !.operation = "reconcile",
                                      !.config = entry[s].config])
  <2> DEFINE e == [ext[s] EXCEPT !.operation = "reconcile", !.config = entry[s].config]
  <2>1. /\ e \in Extension /\ e.config = entry[s].config /\ e.finalizer = ext[s].finalizer
        /\ e.phase = "Live" /\ e.operation = "reconcile"
    BY <1>1, <1>3, <1>5 DEF Extension
  <2>2. Write(s, e)
    BY <1>5
  <2> HIDE DEF e
  <2>3. Synced(s, e)
    BY <1>2, <1>3, <1>5, <2>1 DEF Synced
  <2> QED
    BY <1>1, <2>2, <2>3, SyncedStep
<1>6. CASE /\ ext[s].phase = "Live" /\ ext[s].finalizer
           /\ Write(s, [ext[s] EXCEPT !.phase = "Deleting"])
  <2> DEFINE e == [ext[s] EXCEPT !.phase = "Deleting"]
  <2>1. /\ e \in Extension /\ e.config = ext[s].config /\ e.finalizer
        /\ e.phase = "Deleting" /\ e.operation = ext[s].operation
    BY <1>1, <1>6 DEF Extension
  <2>2. Write(s, e)
    BY <1>6
  <2> HIDE DEF e
  <2>3. Synced(s, e)
    BY <1>1, <1>6, <2>1 DEF Synced, Passed
  <2> QED
    BY <1>1, <2>2, <2>3, SyncedStep
<1>7. CASE ext[s].phase = "Live" /\ ~ ext[s].finalizer /\ Write(s, NoExtension)
  <2>1. /\ NoExtension \in Extension /\ NoExtension.phase = "Absent"
        /\ NoExtension.operation = "none"
    BY EmptyTypes DEF NoExtension
  <2>2. Synced(s, NoExtension)
    BY <1>2, <1>7, <2>1 DEF Synced
  <2> QED
    BY <1>1, <1>7, <2>2, SyncedStep
<1> QED
  BY <1>4, <1>5, <1>6, <1>7 DEF SyncExtension

-----------------------------------------------------------------------------
(* The seed *)

\* The controller asks for nothing of its own accord.
NoRequest ==
    \A s \in Shoots :
        /\ ext'[s].phase # "Absent" =>
              ext[s].phase # "Absent" /\ ext'[s].config = ext[s].config
        /\ ext'[s].operation \in {"none", ext[s].operation}

\* A run reconciles the config of the Extension it began with.
OwnConfig ==
    \A s \in Shoots : pc'[s] \in ReconcilePoints =>
        \/ pc[s] \in ReconcilePoints /\ run'[s].config = run[s].config
        \/ ext[s].phase # "Absent" /\ run'[s].config = ext[s].config

LEMMA SeedPassed ==
    ASSUME GardenInv, UNCHANGED gardenVars, NoRequest, OwnConfig,
           \A s \in Shoots : \A o \in Rendered(s)' : Admitted(o.rule)
    PROVE  \A s \in Shoots : Passed(s)'
BY DEF GardenInv, Passed, NoRequest, OwnConfig, gardenVars, Enabled

LEMMA KeptAdmitted ==
    ASSUME GardenInv, Kept
    PROVE  \A s \in Shoots : \A o \in Rendered(s)' : Admitted(o.rule)
BY DEF GardenInv, Passed, Kept

LEMMA ReconcilerPassed ==
    ASSUME GardenInv, UNCHANGED gardenVars, NEW s \in Shoots, Dequeue(s) \/ Finish(s)
    PROVE  \A t \in Shoots : Passed(t)'
<1>1. CleanInv /\ ext \in [Shoots -> Extension]
  BY Domains DEF GardenInv
<1> USE Domains, <1>1
<1>2. CASE Dequeue(s)
  <2>1. CASE UNCHANGED <<ext, workVars>>
    BY <2>1, <1>2, FinishKept, KeptAdmitted, SeedPassed DEF NoRequest, OwnConfig, workVars
  <2>2. CASE ~ UNCHANGED <<ext, workVars>>
    <3> DEFINE op == Operation(ext[s])
               e  == [ext[s] EXCEPT
                        !.operation  = IF @ = "reconcile" THEN "none" ELSE @,
                        !.finalizer  = @ \/ op \in {"reconcile", "restore"},
                        !.lastOp     = "Processing"]
    <3>1. /\ ext[s].phase # "Absent"
          /\ ext' = [ext EXCEPT ![s] = e]
          /\ run' = [run EXCEPT ![s] = [NoRun EXCEPT !.op = op, !.config = e.config]]
          /\ \A t \in Shoots \ {s} : pc'[t] = pc[t]
      BY <1>2, <2>2 DEF Dequeue, Skipped
    <3>2. /\ e.phase = ext[s].phase /\ e.config = ext[s].config
          /\ e.operation \in {"none", ext[s].operation}
      BY DEF Extension
    <3> HIDE DEF e, op
    <3>3. NoRequest
      BY <3>1, <3>2 DEF NoRequest
    <3>4. OwnConfig
      BY <3>1, <3>2 DEF OwnConfig, NoRun
    <3> QED
      BY <1>2, <3>3, <3>4, FinishKept, KeptAdmitted, SeedPassed
  <2> QED
    BY <2>1, <2>2
<1>3. CASE Finish(s)
  <2>1. NoRequest
    <3>1. CASE Succeed(s) \/ Fail(s)
      BY <3>1 DEF Succeed, Fail, NoRequest, Extension
    <3>2. CASE Release(s)
      BY <3>2 DEF Release, NoRequest, Extension, NoExtension
    <3> QED
      BY <1>3, <3>1, <3>2 DEF Finish
  <2>2. OwnConfig
    BY <1>3 DEF Finish, Succeed, Release, Fail, OwnConfig, ReconcilePoints, ReadPoints
  <2> QED
    BY <1>3, <2>1, <2>2, FinishKept, KeptAdmitted, SeedPassed
<1> QED
  BY <1>2, <1>3

LEMMA CreatePassed ==
    ASSUME GardenInv, UNCHANGED gardenVars, NEW s \in Shoots, NEW answered,
           CreateManagedResource(s, answered)
    PROVE  \A t \in Shoots : Passed(t)'
<1>1. CleanInv
  BY DEF GardenInv
<1> USE Domains, <1>1
<1>2. Admitted(run[s].config)
  BY DEF CreateManagedResource, GardenInv, Passed, ReconcilePoints
<1>3. ASSUME NEW o \in Objects(run[s]) PROVE o.rule = run[s].config
  <2>1. PICK kind, namespace, labels :
           o = [kind |-> kind, namespace |-> namespace, labels |-> labels,
                hosts |-> run[s].cluster.advertised, rule |-> run[s].config,
                allowed |-> run[s].allowed]
    BY Zenon DEF Objects
  <2> QED
    BY <2>1
<1>4. /\ mr'[s].objects = Objects(run[s]) /\ \A t \in Shoots \ {s} : mr'[t] = mr[t]
      /\ installed' = installed /\ run' = run /\ ext' = ext
  BY DEF CreateManagedResource
<1>5. \A t \in Shoots : \A o \in Rendered(t)' : Admitted(o.rule)
  BY <1>2, <1>3, <1>4 DEF GardenInv, Passed, Rendered
<1>6. NoRequest /\ OwnConfig
  BY <1>4 DEF NoRequest, OwnConfig, CreateManagedResource, Goto, ReconcilePoints
<1> QED
  BY <1>5, <1>6, SeedPassed

LEMMA ActuatorPassed ==
    ASSUME GardenInv, UNCHANGED gardenVars, NEW s \in Shoots,
           Reconcile(s) \/ Delete(s) \/ ApiError(s)
    PROVE  \A t \in Shoots : Passed(t)'
<1>1. CleanInv
  BY DEF GardenInv
<1> USE Domains, <1>1
<1>2. CASE Reconcile(s) /\ ~ CreateManagedResource(s, TRUE)
  <2>1. UNCHANGED <<mr, installed>>
    BY <1>2 DEF Reconcile, GetCluster, GetGateway, ListDeployments, GetService,
       GetShootInfo, GetInfrastructure, GetIngressGateway, PatchStatus, restVars, objectVars
  <2>2. NoRequest
    <3>1. CASE PatchStatus(s)
      BY <3>1 DEF PatchStatus, NoRequest, Extension
    <3>2. CASE ~ PatchStatus(s)
      BY <1>2, <3>2 DEF Reconcile, GetCluster, GetGateway, ListDeployments, GetService,
         GetShootInfo, GetInfrastructure, GetIngressGateway, restVars, objectVars, NoRequest
    <3> QED
      BY <3>1, <3>2
  <2>3. OwnConfig
    BY <1>2, ReadKeeps DEF Reconcile, OwnConfig
  <2>4. Kept
    BY <2>1 DEF Kept, Rendered
  <2> QED
    BY <2>2, <2>3, <2>4, KeptAdmitted, SeedPassed
<1>3. ASSUME NEW answered, DeleteManagedResource(s, answered)
      PROVE  \A t \in Shoots : Passed(t)'
  <2>1. NoRequest /\ OwnConfig
    BY <1>3 DEF DeleteManagedResource, Goto, NoRequest, OwnConfig, ReconcilePoints, ReadPoints
  <2> QED
    BY <1>3, <2>1, DeleteKept, KeptAdmitted, SeedPassed
<1>4. CASE UNCHANGED objectVars /\ run' = run /\ \E point \in FinishPoints : Goto(s, point)
  <2>1. NoRequest /\ OwnConfig /\ Kept
    BY <1>4 DEF objectVars, Goto, NoRequest, OwnConfig, Kept, Rendered, ReconcilePoints,
       ReadPoints, FinishPoints
  <2> QED
    BY <2>1, KeptAdmitted, SeedPassed
<1>5. CASE Delete(s)
  BY <1>3, <1>4, <1>5 DEF Delete, WaitUntilDeleted, DeletionTimeout, restVars, FinishPoints
<1>6. CASE ApiError(s)
  BY <1>3, <1>4, <1>6, CreatePassed DEF ApiError, objectVars, FinishPoints
<1> QED
  BY <1>2, <1>5, <1>6, CreatePassed DEF Reconcile

LEMMA OthersPassed ==
    ASSUME GardenInv, UNCHANGED gardenVars, ext' = ext, Kept,
           UNCHANGED workVars \/ \A t \in Shoots : pc'[t] = "idle"
    PROVE  \A t \in Shoots : Passed(t)'
<1>1. NoRequest /\ OwnConfig
  BY DEF NoRequest, OwnConfig, workVars, ReconcilePoints, ReadPoints
<1> QED
  BY <1>1, KeptAdmitted, SeedPassed

LEMMA SeedGarden ==
    ASSUME GardenInv, UNCHANGED gardenVars,
           \/ \E s \in Shoots : Seed(s)
           \/ SharedChange \/ Restart \/ UNCHANGED vars
    PROVE  GardenInv'
<1>1. [Next]_vars
  BY DEF Next, Seed
<1>2. CleanInv' /\ RuleInv' /\ GardenTypeOK' /\ LimitInv'
  BY <1>1, NextClean, NextRules DEF GardenInv, gardenVars, GardenTypeOK, LimitInv
<1>3. UNCHANGED <<mr, installed>> => Kept
  BY DEF Kept, Rendered
<1>4. ASSUME NEW s \in Shoots, Grm(s) PROVE \A t \in Shoots : Passed(t)'
  BY <1>4, GrmKept, OthersPassed DEF GardenInv, Grm, GrmApply, GrmPrune, GrmDelete,
     GrmUnchanged
<1>5. ASSUME NEW s \in Shoots, DeliverInfrastructureEvent(s) \/ SeedChange(s)
      PROVE  \A t \in Shoots : Passed(t)'
  <2>1. UNCHANGED <<objectVars, workVars>>
    BY <1>5 DEF DeliverInfrastructureEvent, SeedChange, ChangeCluster, ChangeGateway,
       ChangeInfrastructure, Unwatched
  <2> QED
    BY <1>3, <2>1, OthersPassed DEF objectVars
<1>6. ASSUME SharedChange PROVE \A t \in Shoots : Passed(t)'
  <2>1. UNCHANGED <<objectVars, workVars>>
    BY <1>6 DEF SharedChange, ChangeDeployments, ChangeService, ChangeShootInfo,
       ChangeIngressGateway, Unwatched
  <2> QED
    BY <1>3, <2>1, OthersPassed DEF objectVars
<1>7. ASSUME Restart PROVE \A t \in Shoots : Passed(t)'
  BY <1>3, <1>7, OthersPassed DEF Restart, objectVars
<1>8. ASSUME UNCHANGED vars PROVE \A t \in Shoots : Passed(t)'
  BY <1>3, <1>8, OthersPassed DEF vars, restVars, objectVars
<1>9. \A t \in Shoots : Passed(t)'
  BY <1>4, <1>5, <1>6, <1>7, <1>8, ReconcilerPassed, ActuatorPassed DEF Seed
<1> QED
  BY <1>2, <1>9 DEF GardenInv

LEMMA MaintainShootGarden ==
    ASSUME GardenInv, NEW s \in Shoots, MaintainShoot(s), UNCHANGED gardenVars
    PROVE  GardenInv'
<1>1. Gardenlet(s)
  BY DEF MaintainShoot, Gardenlet
<1>2. CleanInv' /\ RuleInv' /\ GardenTypeOK' /\ LimitInv'
  BY <1>1, NextClean, NextRules DEF Next, GardenInv, gardenVars, GardenTypeOK, LimitInv
<1>3. PICK config : Write(s, [ext[s] EXCEPT !.config = config, !.operation = "reconcile"])
  BY DEF MaintainShoot, ReconcileExtension
<1> DEFINE e == [ext[s] EXCEPT !.config = config, !.operation = "reconcile"]
<1>4. ext \in [Shoots -> Extension] /\ ext' = [ext EXCEPT ![s] = e]
  BY <1>3, Domains DEF GardenInv, Write
<1>5. e.operation = "reconcile" /\ ext'[s] = e
  BY <1>4 DEF Extension
<1>6. Admitted(ext'[s].config)
  BY DEF MaintainShoot, GardenInv, Passed
<1>7. UNCHANGED <<mr, installed, workVars>>
  BY <1>3 DEF Write
<1> HIDE DEF e
<1>8. \A t \in Shoots : Passed(t)'
  BY <1>4, <1>5, <1>6, <1>7 DEF GardenInv, Passed, gardenVars, workVars, Enabled, Rendered
<1> QED
  BY <1>2, <1>8 DEF GardenInv

LEMMA NextGarden == GardenInv /\ [GardenNext]_allVars => GardenInv'
<1> SUFFICES ASSUME GardenInv, [GardenNext]_allVars PROVE GardenInv'
  OBVIOUS
<1> QED
  BY EditShootGarden, SyncExtensionGarden, MaintainShootGarden, RestartAdmissionGarden,
     SeedGarden DEF GardenNext, Garden, allVars

LEMMA GardenAlways == GardenSpec => []GardenInv
BY InitGarden, NextGarden, PTL DEF GardenSpec

-----------------------------------------------------------------------------
(* The results *)

\* The entries and the limit keep their type, however Shoots are edited and
\* the admission is rolled out.
THEOREM GardenTypeCorrect == GardenSpec => []GardenTypeOK
<1>1. GardenInv => GardenTypeOK
  BY DEF GardenInv
<1> QED
  BY <1>1, GardenAlways, PTL

\* A rule that any admission let through passes the controller's own validation
\* (actuator.go:122), at whatever time and after whatever edits it gets there.
THEOREM AdmissionSuffices == GardenSpec => []AdmittedRulesDeploy
<1>1. GardenInv => AdmittedRulesDeploy
  <2> SUFFICES ASSUME GardenInv, NEW s \in Shoots, pc[s] \in ReconcilePoints,
                      run[s].config # NoRule
               PROVE  /\ run[s].config # Malformed
                      /\ ValidateExtensionSpec(run[s].config, MaxAllowedCIDRs)
    BY DEF AdmittedRulesDeploy
  <2>1. Admitted(run[s].config)
    BY DEF GardenInv, Passed
  <2> QED
    BY <2>1, ControllerLimitAssumption DEF Admitted, ValidateExtensionSpec
<1> QED
  BY <1>1, GardenAlways, PTL

\* The limit of the admission binds the filters on the seed too, although the
\* controller that writes them has none (options.go:69).
THEOREM LimitsReachTheSeed == GardenSpec => []FiltersWithinLimits
<1>1. GardenInv => FiltersWithinLimits
  <2> SUFFICES ASSUME GardenInv, NEW s \in Shoots, NEW o \in mr[s].objects \cup installed[s]
               PROVE  \E max \in {DefaultLimit} \cup ChartLimits : Len(o.rule.cidrs) <= max
    BY DEF FiltersWithinLimits
  <2>1. Admitted(o.rule) /\ o.rule # NoRule
    BY DEF GardenInv, Passed, RuleInv, Rendered, Accepted, ValidateExtensionSpec
  <2>2. PICK value \in ChartLimits : ValidateExtensionSpec(o.rule, Limit(value))
    BY <2>1 DEF Admitted
  <2>3. Limit(value) > 0
    BY LimitPositive
  <2> QED
    BY <2>2, <2>3, LimitPositive DEF ValidateExtensionSpec
<1> QED
  BY <1>1, GardenAlways, PTL

\* Driven by Shoots instead of by any requests, the controller cleans up as it
\* does on its own: no filter outlives the finalizer, and Reconcile never
\* writes a ManagedResource that is being deleted.
THEOREM GardenCleansUp == GardenSpec => [](NoOrphanFilters /\ CreateNeverRacesDeletion)
<1>1. GardenInv => NoOrphanFilters /\ CreateNeverRacesDeletion
  BY DEF GardenInv, CleanInv, Clean, Held, Ordered, NoOrphanFilters,
     CreateNeverRacesDeletion, ReconcilePoints
<1> QED
  BY <1>1, GardenAlways, PTL
=============================================================================
