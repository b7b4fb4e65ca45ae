------------------------- MODULE AclCleanup_proofs --------------------------
(***************************************************************************)
(* The controller cleans up: no ManagedResource and no filter outlives the *)
(* finalizer of its Extension, a run that writes does not race one that    *)
(* deletes, and nothing is torn down unasked.  The three follow from one   *)
(* invariant about a shoot's Extension, ManagedResource, filters and       *)
(* worker.                                                                 *)
(***************************************************************************)
EXTENDS AclExtension_proofs

-----------------------------------------------------------------------------
(* The invariant *)

\* A worker only runs, and objects only exist, for an Extension that holds
\* the finalizer; filters only exist with their ManagedResource.
Held(s) ==
    /\ pc[s] # "idle" => ext[s].phase # "Absent" /\ ext[s].finalizer
    /\ mr[s].phase # "Absent" => ext[s].phase # "Absent" /\ ext[s].finalizer
    /\ mr[s].phase = "Absent" => installed[s] = {}
    /\ Migrating(s) => ext[s].finalizer

\* Deletion is only ever under way for an Extension that asks for it, never
\* while Reconcile runs, and it is over when the finalizer is removed.
Ordered(s) ==
    /\ mr[s].phase = "Deleting" => ext[s].phase = "Deleting" \/ Migrating(s)
    /\ pc[s] \in ReconcilePoints => mr[s].phase # "Deleting"
    /\ pc[s] \in {"success", "release"} /\ run[s].op \in {"delete", "migrate"}
          => mr[s].phase = "Absent"

\* The request a worker serves is still the one the Extension carries.
Serving(s) ==
    /\ pc[s] = "idle" <=> run[s].op = "none"
    /\ pc[s] \in ReconcilePoints => run[s].op \in {"reconcile", "restore"}
    /\ pc[s] \in DeletePoints => run[s].op \in {"delete", "migrate"}
    /\ pc[s] = "release" => run[s].op # "reconcile"
    /\ run[s].op = "delete" => ext[s].phase = "Deleting"
    /\ run[s].op = "migrate" => Migrating(s)
    /\ run[s].op = "restore" => ext[s].operation = "restore"

Clean(s) == Held(s) /\ Ordered(s) /\ Serving(s)

CleanInv == TypeInv /\ \A s \in Shoots : Clean(s)

\* Nothing about t changes.
Untouched(t) ==
    UNCHANGED <<ext[t], mr[t], installed[t], pc[t], run[t]>>

LEMMA UntouchedClean ==
    ASSUME NEW t, Clean(t), Untouched(t)
    PROVE  Clean(t)'
BY DEF Clean, Held, Ordered, Serving, Migrating, Untouched

\* A step that concerns one shoot has to be checked for that shoot only.
LEMMA OneShoot ==
    ASSUME CleanInv, NEW s \in Shoots, Clean(s)',
           \A t \in Shoots \ {s} : Untouched(t)
    PROVE  \A t \in Shoots : Clean(t)'
BY UntouchedClean DEF CleanInv

LEMMA Domains ==
    ASSUME CleanInv
    PROVE  /\ ext \in [Shoots -> Extension] /\ mr \in [Shoots -> ManagedResource]
           /\ installed \in [Shoots -> SUBSET Object]
           /\ pc \in [Shoots -> Points] /\ run \in [Shoots -> Run]
BY DEF CleanInv, TypeInv, TypeOK, ObjectType, WorkerType

LEMMA InitClean == Init => CleanInv
<1> SUFFICES ASSUME Init PROVE \A s \in Shoots : Clean(s)
  BY InitType DEF CleanInv
<1> SUFFICES ASSUME NEW s \in Shoots PROVE Clean(s)
  OBVIOUS
<1>1. /\ ext[s] = NoExtension /\ mr[s] = NoManagedResource /\ installed[s] = {}
      /\ pc[s] = "idle" /\ run[s] = NoRun
  BY DEF Init
<1> QED
  BY <1>1 DEF Clean, Held, Ordered, Serving, Migrating, NoExtension,
     NoManagedResource, NoRun, ReconcilePoints, ReadPoints, DeletePoints

-----------------------------------------------------------------------------
(* The reconciler *)

LEMMA DequeueClean ==
    ASSUME CleanInv, NEW s \in Shoots, Dequeue(s)
    PROVE  \A t \in Shoots : Clean(t)'
<1> USE Domains
<1>1. CASE UNCHANGED <<ext, workVars>>
  <2>1. \A t \in Shoots : Untouched(t)
    BY <1>1 DEF Dequeue, Untouched, workVars
  <2> QED
    BY <2>1, UntouchedClean DEF CleanInv
<1>2. CASE ~ UNCHANGED <<ext, workVars>>
  <2> DEFINE op == Operation(ext[s])
             e  == [ext[s] EXCEPT
                      !.operation  = IF @ = "reconcile" THEN "none" ELSE @,
                      !.finalizer  = @ \/ op \in {"reconcile", "restore"},
                      !.lastOp     = "Processing"]
  <2>1. /\ ~ Skipped(ext[s])
        /\ ext' = [ext EXCEPT ![s] = e]
        /\ run' = [run EXCEPT ![s] = [NoRun EXCEPT !.op = op, !.config = e.config]]
        /\ pc' = [pc EXCEPT ![s] = IF op \in {"reconcile", "restore"}
                                   THEN "cluster" ELSE "delete"]
        /\ UNCHANGED <<mr, installed>>
    BY <1>2 DEF Dequeue
  <2>2. Clean(s)
    BY DEF CleanInv
  <2>3. /\ e.phase = ext[s].phase
        /\ e.finalizer = (ext[s].finalizer \/ op \in {"reconcile", "restore"})
        /\ e.operation = IF ext[s].operation = "reconcile" THEN "none" ELSE ext[s].operation
    <3>1. ext[s] \in Extension
      OBVIOUS
    <3> QED
      BY <3>1 DEF Extension
  <2>4. /\ op \in {"reconcile", "restore", "delete", "migrate"}
        /\ op = "migrate" <=> ext[s].operation = "migrate"
        /\ op = "delete" => ext[s].phase = "Deleting" /\ ext[s].finalizer
        /\ op = "restore" => ext[s].operation = "restore"
        /\ op \in {"reconcile", "restore"} => ext[s].phase # "Deleting"
        /\ ext[s].phase # "Absent"
    BY <2>1 DEF Operation, Skipped
  <2> HIDE DEF e, op
  <2>5. /\ ext'[s] = e /\ run'[s].op = op
        /\ pc'[s] = IF op \in {"reconcile", "restore"} THEN "cluster" ELSE "delete"
        /\ mr'[s] = mr[s] /\ installed'[s] = installed[s]
    BY <2>1 DEF NoRun
  <2>6. Clean(s)'
    BY <2>2, <2>3, <2>4, <2>5 DEF Clean, Held, Ordered, Serving, Migrating,
       ReconcilePoints, ReadPoints, DeletePoints
  <2>7. \A t \in Shoots \ {s} : Untouched(t)
    BY <2>1 DEF Untouched
  <2> QED
    BY <2>6, <2>7, OneShoot
<1> QED
  BY <1>1, <1>2

LEMMA SucceedClean ==
    ASSUME CleanInv, NEW s \in Shoots, Succeed(s)
    PROVE  \A t \in Shoots : Clean(t)'
<1> USE Domains
<1>1. Clean(s)
  BY DEF CleanInv
<1>2. /\ ext'[s].phase = ext[s].phase /\ ext'[s].finalizer = ext[s].finalizer
      /\ ext'[s].operation = ext[s].operation
      /\ mr'[s] = mr[s] /\ installed'[s] = installed[s]
  BY DEF Succeed, Extension
<1>3. \/ pc'[s] = "idle" /\ run'[s] = NoRun
      \/ pc'[s] = "release" /\ run'[s] = run[s] /\ run[s].op # "reconcile"
  BY DEF Succeed
<1>4. Clean(s)'
  BY <1>1, <1>2, <1>3 DEF Succeed, Clean, Held, Ordered, Serving, Migrating, NoRun,
     ReconcilePoints, ReadPoints, DeletePoints
<1>5. \A t \in Shoots \ {s} : Untouched(t)
  BY DEF Succeed, Untouched
<1> QED
  BY <1>4, <1>5, OneShoot

LEMMA ReleaseClean ==
    ASSUME CleanInv, NEW s \in Shoots, Release(s)
    PROVE  \A t \in Shoots : Clean(t)'
<1> USE Domains
<1>1. Clean(s) /\ pc[s] = "release"
  BY DEF CleanInv, Release
<1>2. pc'[s] = "idle" /\ run'[s] = NoRun /\ mr'[s] = mr[s] /\ installed'[s] = installed[s]
  BY DEF Release
<1>3. CASE run[s].op = "restore"
  <2>1. /\ ext'[s].phase = ext[s].phase /\ ext'[s].finalizer
        /\ ext'[s].operation = "none"
    BY <1>3 DEF Release, Extension
  <2>2. ext[s].operation = "restore" /\ ext[s].phase # "Absent"
    BY <1>1, <1>3 DEF Clean, Serving, Held
  <2> QED
    <3>1. Clean(s)'
      BY <1>1, <1>2, <2>1, <2>2 DEF Clean, Held, Ordered, Serving, Migrating, NoRun,
         ReconcilePoints, ReadPoints, DeletePoints
    <3>2. \A t \in Shoots \ {s} : Untouched(t)
      BY DEF Release, Untouched
    <3> QED
      BY <3>1, <3>2, OneShoot
<1>4. CASE run[s].op # "restore"
  <2>1. run[s].op \in {"delete", "migrate"}
    BY <1>1, <1>4 DEF Clean, Serving, Run
  <2>2. mr[s].phase = "Absent" /\ installed[s] = {}
    BY <1>1, <2>1 DEF Clean, Ordered, Held
  <2>3. ext'[s].operation = "none"
    BY <1>4 DEF Release, NoExtension, Extension
  <2> QED
    <3>1. Clean(s)'
      BY <1>2, <2>2, <2>3 DEF Clean, Held, Ordered, Serving, Migrating, NoRun,
         ReconcilePoints, ReadPoints, DeletePoints
    <3>2. \A t \in Shoots \ {s} : Untouched(t)
      BY DEF Release, Untouched
    <3> QED
      BY <3>1, <3>2, OneShoot
<1> QED
  BY <1>3, <1>4

LEMMA FailClean ==
    ASSUME CleanInv, NEW s \in Shoots, Fail(s)
    PROVE  \A t \in Shoots : Clean(t)'
<1> USE Domains
<1>1. Clean(s)
  BY DEF CleanInv
<1>2. /\ ext'[s].phase = ext[s].phase /\ ext'[s].finalizer = ext[s].finalizer
      /\ ext'[s].operation = ext[s].operation
      /\ mr'[s] = mr[s] /\ installed'[s] = installed[s]
      /\ pc'[s] = "idle" /\ run'[s] = NoRun
  BY DEF Fail, Extension
<1>3. Clean(s)'
  BY <1>1, <1>2 DEF Clean, Held, Ordered, Serving, Migrating, NoRun,
     ReconcilePoints, ReadPoints, DeletePoints
<1>4. \A t \in Shoots \ {s} : Untouched(t)
  BY DEF Fail, Untouched
<1> QED
  BY <1>3, <1>4, OneShoot

-----------------------------------------------------------------------------
(* The actuator *)

\* A read, or a failed call: only the worker moves on.
LEMMA MoveOn ==
    ASSUME CleanInv, NEW s \in Shoots, NEW point, Goto(s, point),
           run'[s].op = run[s].op, \A t \in Shoots \ {s} : run'[t] = run[t],
           UNCHANGED objectVars,
           pc[s] \in ReconcilePoints, point \in ReconcilePoints \cup {"success", "failed"}
    PROVE  \A t \in Shoots : Clean(t)'
<1> USE Domains
<1>1. Clean(s)
  BY DEF CleanInv
<1>2. pc'[s] = point /\ ext'[s] = ext[s] /\ mr'[s] = mr[s] /\ installed'[s] = installed[s]
  BY DEF Goto, objectVars
<1>3. Clean(s)'
  BY <1>1, <1>2 DEF Clean, Held, Ordered, Serving, Migrating,
     ReconcilePoints, ReadPoints, DeletePoints
<1>4. \A t \in Shoots \ {s} : Untouched(t)
  BY DEF Goto, objectVars, Untouched
<1> QED
  BY <1>3, <1>4, OneShoot

LEMMA CreateManagedResourceClean ==
    ASSUME CleanInv, NEW s \in Shoots, NEW answered, CreateManagedResource(s, answered)
    PROVE  \A t \in Shoots : Clean(t)'
<1> USE Domains
<1>1. Clean(s) /\ pc[s] = "create"
  BY DEF CleanInv, CreateManagedResource
<1>2. PICK point \in {"patch", "failed"} : pc' = [pc EXCEPT ![s] = point]
  BY DEF CreateManagedResource, Goto
<1>3. mr'[s].phase = IF mr[s].phase = "Absent" THEN "Present" ELSE mr[s].phase
  BY DEF CreateManagedResource
<1>4. ext' = ext /\ installed' = installed /\ run' = run
  BY DEF CreateManagedResource
<1>5. Clean(s)'
  BY <1>1, <1>2, <1>3, <1>4 DEF Clean, Held, Ordered, Serving, Migrating,
     ReconcilePoints, ReadPoints, DeletePoints
<1>6. \A t \in Shoots \ {s} : Untouched(t)
  BY <1>2, <1>4 DEF CreateManagedResource, Untouched
<1> QED
  BY <1>5, <1>6, OneShoot

LEMMA PatchStatusClean ==
    ASSUME CleanInv, NEW s \in Shoots, PatchStatus(s)
    PROVE  \A t \in Shoots : Clean(t)'
<1> USE Domains
<1>1. Clean(s) /\ pc[s] = "patch"
  BY DEF CleanInv, PatchStatus
<1>2. /\ ext'[s].phase = ext[s].phase /\ ext'[s].finalizer = ext[s].finalizer
      /\ ext'[s].operation = ext[s].operation
  BY DEF PatchStatus, Extension
<1>3. mr' = mr /\ installed' = installed /\ run' = run /\ pc'[s] = "success"
  BY DEF PatchStatus, Goto
<1>4. Clean(s)'
  BY <1>1, <1>2, <1>3 DEF Clean, Held, Ordered, Serving, Migrating,
     ReconcilePoints, ReadPoints, DeletePoints
<1>5. \A t \in Shoots \ {s} : Untouched(t)
  BY <1>3 DEF PatchStatus, Goto, Untouched
<1> QED
  BY <1>4, <1>5, OneShoot

\* The request that calls for the deletion is the one being served.
LEMMA DeleteManagedResourceClean ==
    ASSUME CleanInv, NEW s \in Shoots, NEW answered, DeleteManagedResource(s, answered)
    PROVE  \A t \in Shoots : Clean(t)'
<1> USE Domains
<1>1. Clean(s) /\ pc[s] = "delete"
  BY DEF CleanInv, DeleteManagedResource
<1>2. PICK point \in {"wait", "failed"} : pc' = [pc EXCEPT ![s] = point]
  BY DEF DeleteManagedResource, Goto
<1>3. mr'[s].phase = IF mr[s].phase = "Present" THEN "Deleting" ELSE mr[s].phase
  <2>1. mr[s] \in ManagedResource
    OBVIOUS
  <2> QED
    BY <2>1 DEF DeleteManagedResource, ManagedResource
<1>4. ext' = ext /\ installed' = installed /\ run' = run
  BY DEF DeleteManagedResource
<1>5. Clean(s)'
  BY <1>1, <1>2, <1>3, <1>4 DEF Clean, Held, Ordered, Serving, Migrating,
     ReconcilePoints, ReadPoints, DeletePoints, ManagedResource
<1>6. \A t \in Shoots \ {s} : Untouched(t)
  BY <1>2, <1>4 DEF DeleteManagedResource, Untouched
<1> QED
  BY <1>5, <1>6, OneShoot

LEMMA ReconcileClean ==
    ASSUME CleanInv, NEW s \in Shoots, Reconcile(s)
    PROVE  \A t \in Shoots : Clean(t)'
<1> USE Domains
<1> DEFINE others == \A t \in Shoots \ {s} : run'[t] = run[t]
           points == ReconcilePoints \cup {"success", "failed"}
<1>1. CASE GetCluster(s)
  <2>1. PICK point \in points : Goto(s, point)
    BY <1>1 DEF GetCluster, ReconcilePoints, ReadPoints
  <2>2. run'[s].op = run[s].op /\ others
    BY <1>1 DEF GetCluster, Run
  <2> QED
    BY <1>1, <2>1, <2>2, MoveOn DEF GetCluster, restVars, ReconcilePoints, ReadPoints
<1>2. CASE GetGateway(s)
  <2>1. PICK point \in points : Goto(s, point)
    BY <1>2 DEF GetGateway, ReconcilePoints, ReadPoints
  <2>2. run'[s].op = run[s].op /\ others
    BY <1>2 DEF GetGateway, Run
  <2> QED
    BY <1>2, <2>1, <2>2, MoveOn DEF GetGateway, restVars, ReconcilePoints, ReadPoints
<1>3. CASE ListDeployments(s)
  <2>1. PICK point \in points : Goto(s, point)
    BY <1>3 DEF ListDeployments, ReconcilePoints, ReadPoints
  <2>2. run'[s].op = run[s].op /\ others
    BY <1>3 DEF ListDeployments, Run
  <2> QED
    BY <1>3, <2>1, <2>2, MoveOn DEF ListDeployments, restVars, ReconcilePoints, ReadPoints
<1>4. ASSUME NEW cidrs, AllowSeedEgress(s, cidrs)
      PROVE  run'[s].op = run[s].op /\ others /\ \E point \in points : Goto(s, point)
  BY <1>4 DEF AllowSeedEgress, Run, ReconcilePoints, ReadPoints
<1>5. CASE GetService(s)
  <2>1. PICK point \in points : Goto(s, point)
    BY <1>4, <1>5 DEF GetService, ReconcilePoints, ReadPoints
  <2>2. run'[s].op = run[s].op /\ others
    BY <1>4, <1>5 DEF GetService
  <2> QED
    BY <1>5, <2>1, <2>2, MoveOn DEF GetService, restVars, ReconcilePoints, ReadPoints
<1>6. CASE GetShootInfo(s)
  <2>1. PICK point \in points : Goto(s, point)
    BY <1>4, <1>6 DEF GetShootInfo, ReconcilePoints, ReadPoints
  <2>2. run'[s].op = run[s].op /\ others
    BY <1>4, <1>6 DEF GetShootInfo
  <2> QED
    BY <1>6, <2>1, <2>2, MoveOn DEF GetShootInfo, restVars, ReconcilePoints, ReadPoints
<1>7. CASE GetInfrastructure(s)
  <2>1. PICK point \in points : Goto(s, point)
    BY <1>7 DEF GetInfrastructure, ReconcilePoints, ReadPoints
  <2>2. run'[s].op = run[s].op /\ others
    BY <1>7 DEF GetInfrastructure, Run
  <2> QED
    BY <1>7, <2>1, <2>2, MoveOn DEF GetInfrastructure, restVars, ReconcilePoints, ReadPoints
<1>8. CASE GetIngressGateway(s)
  <2>1. Goto(s, "create")
    BY <1>8 DEF GetIngressGateway
  <2>2. run'[s].op = run[s].op /\ others
    BY <1>8 DEF GetIngressGateway, Run
  <2> QED
    BY <1>8, <2>1, <2>2, MoveOn DEF GetIngressGateway, restVars, ReconcilePoints, ReadPoints
<1>9. CASE CreateManagedResource(s, TRUE)
  BY <1>9, CreateManagedResourceClean
<1>10. CASE PatchStatus(s)
  BY <1>10, PatchStatusClean
<1> QED
  BY <1>1, <1>2, <1>3, <1>5, <1>6, <1>7, <1>8, <1>9, <1>10 DEF Reconcile

LEMMA DeleteClean ==
    ASSUME CleanInv, NEW s \in Shoots, Delete(s)
    PROVE  \A t \in Shoots : Clean(t)'
<1>1. CASE WaitUntilDeleted(s) \/ DeletionTimeout(s)
  <2>1. Clean(s)
    BY DEF CleanInv
  <2>2. /\ UNCHANGED <<ext[s], mr[s], installed[s], run[s]>> /\ pc[s] = "wait"
        /\ \A t \in Shoots \ {s} : UNCHANGED <<ext[t], mr[t], installed[t], run[t]>>
    BY <1>1 DEF WaitUntilDeleted, DeletionTimeout, restVars, objectVars
  <2>3. \/ pc' = [pc EXCEPT ![s] = "success"] /\ mr[s].phase = "Absent"
        \/ pc' = [pc EXCEPT ![s] = "failed"]
    BY <1>1 DEF WaitUntilDeleted, DeletionTimeout, Goto
  <2>4. Clean(s)'
    BY <2>1, <2>2, <2>3, Domains DEF Clean, Held, Ordered, Serving, Migrating,
       ReconcilePoints, ReadPoints, DeletePoints
  <2>5. \A t \in Shoots \ {s} : Untouched(t)
    BY <2>2, <2>3, Domains DEF Untouched
  <2> QED
    BY <2>4, <2>5, OneShoot
<1> QED
  BY <1>1, DeleteManagedResourceClean DEF Delete

LEMMA ApiErrorClean ==
    ASSUME CleanInv, NEW s \in Shoots, ApiError(s)
    PROVE  \A t \in Shoots : Clean(t)'
<1>1. CASE /\ pc[s] \in ReconcilePoints \cup DeletePoints
           /\ Goto(s, "failed")
           /\ UNCHANGED <<mr, run, ext, installed>>
  <2>1. Clean(s)
    BY DEF CleanInv
  <2>2. Clean(s)'
    BY <1>1, <2>1, Domains DEF Goto, Clean, Held, Ordered, Serving, Migrating,
       ReconcilePoints, ReadPoints, DeletePoints
  <2>3. \A t \in Shoots \ {s} : Untouched(t)
    BY <1>1, Domains DEF Goto, Untouched
  <2> QED
    BY <2>2, <2>3, OneShoot
<1> QED
  BY <1>1, CreateManagedResourceClean, DeleteManagedResourceClean DEF ApiError

LEMMA RestartClean ==
    ASSUME CleanInv, Restart
    PROVE  \A t \in Shoots : Clean(t)'
<1> SUFFICES ASSUME NEW t \in Shoots PROVE Clean(t)'
  OBVIOUS
<1>1. Clean(t)
  BY DEF CleanInv
<1>2. /\ ext'[t] = ext[t] /\ mr'[t] = mr[t] /\ installed'[t] = installed[t]
      /\ pc'[t] = "idle" /\ run'[t] = NoRun
  BY DEF Restart, objectVars
<1> QED
  BY <1>1, <1>2 DEF Clean, Held, Ordered, Serving, Migrating, NoRun,
     ReconcilePoints, ReadPoints, DeletePoints

-----------------------------------------------------------------------------
(* gardenlet and GRM *)

LEMMA WriteStep ==
    ASSUME CleanInv, NEW s \in Shoots, NEW e, Write(s, e)
    PROVE  /\ ext'[s] = e
           /\ mr'[s] = mr[s] /\ installed'[s] = installed[s]
           /\ pc'[s] = pc[s] /\ run'[s] = run[s]
           /\ \A t \in Shoots \ {s} : Untouched(t)
BY Domains DEF Write, workVars, Untouched

LEMMA GardenletClean ==
    ASSUME CleanInv, NEW s \in Shoots, Gardenlet(s)
    PROVE  \A t \in Shoots : Clean(t)'
<1>1. Clean(s) /\ ext[s] \in Extension
  BY Domains DEF CleanInv
<1> USE DEF Clean, Held, Ordered, Serving, Migrating, ReconcilePoints, ReadPoints,
            DeletePoints
<1>2. CASE CreateExtension(s)
  <2>1. PICK config \in ProviderConfigs, operation \in {"reconcile", "restore"} :
           Write(s, [NoExtension EXCEPT !.phase = "Live", !.config = config,
                                        !.operation = operation])
    BY <1>2 DEF CreateExtension
  <2> DEFINE e == [NoExtension EXCEPT !.phase = "Live", !.config = config,
                                      !.operation = operation]
  <2>2. e.operation \in {"reconcile", "restore"} /\ e.phase = "Live"
    BY DEF NoExtension
  <2>3. pc[s] = "idle" /\ mr[s].phase = "Absent"
    BY <1>1, <1>2 DEF CreateExtension
  <2>4. Write(s, e)
    BY <2>1
  <2> HIDE DEF e
  <2>5. Clean(s)'
    BY <1>1, <2>2, <2>3, <2>4, WriteStep
  <2> QED
    BY <2>4, <2>5, WriteStep, OneShoot
<1>3. CASE ReconcileExtension(s)
  <2>1. PICK config \in ProviderConfigs :
           Write(s, [ext[s] EXCEPT !.config = config, !.operation = "reconcile"])
    BY <1>3 DEF ReconcileExtension
  <2> DEFINE e == [ext[s] EXCEPT !.config = config, !.operation = "reconcile"]
  <2>2. e.operation = "reconcile" /\ e.phase = ext[s].phase /\ e.finalizer = ext[s].finalizer
    BY <1>1 DEF Extension
  <2>3. ext[s].operation \notin {"migrate", "restore"}
    BY <1>3 DEF ReconcileExtension
  <2>4. Write(s, e)
    BY <2>1
  <2> HIDE DEF e
  <2>5. Clean(s)'
    BY <1>1, <2>2, <2>3, <2>4, WriteStep
  <2> QED
    BY <2>4, <2>5, WriteStep, OneShoot
<1>4. CASE MigrateExtension(s)
  <2> DEFINE e == [ext[s] EXCEPT !.operation = "migrate"]
  <2>1. e.operation = "migrate" /\ e.phase = ext[s].phase /\ e.finalizer = ext[s].finalizer
    BY <1>1 DEF Extension
  <2>2. ext[s].operation # "restore" /\ ext[s].finalizer /\ ext[s].phase = "Live"
    BY <1>4 DEF MigrateExtension
  <2>3. Write(s, e)
    BY <1>4 DEF MigrateExtension
  <2> HIDE DEF e
  <2>4. Clean(s)'
    BY <1>1, <2>1, <2>2, <2>3, WriteStep
  <2> QED
    BY <2>3, <2>4, WriteStep, OneShoot
<1>5. CASE DeleteExtension(s) /\ ext[s].finalizer
  <2> DEFINE e == [ext[s] EXCEPT !.phase = "Deleting"]
  <2>1. /\ e.operation = ext[s].operation /\ e.phase = "Deleting"
        /\ e.finalizer = ext[s].finalizer
    BY <1>1 DEF Extension
  <2>2. Write(s, e)
    BY <1>5 DEF DeleteExtension
  <2> HIDE DEF e
  <2>3. Clean(s)'
    BY <1>1, <1>5, <2>1, <2>2, WriteStep
  <2> QED
    BY <2>2, <2>3, WriteStep, OneShoot
<1>6. CASE DeleteExtension(s) /\ ~ ext[s].finalizer
  <2>1. Write(s, NoExtension)
    BY <1>6 DEF DeleteExtension
  <2>2. pc[s] = "idle" /\ mr[s].phase = "Absent" /\ NoExtension.operation = "none"
    BY <1>1, <1>6 DEF NoExtension
  <2>3. Clean(s)'
    BY <1>1, <2>1, <2>2, WriteStep
  <2> QED
    BY <2>1, <2>3, WriteStep, OneShoot
<1> QED
  BY <1>2, <1>3, <1>4, <1>5, <1>6 DEF Gardenlet

LEMMA GrmClean ==
    ASSUME CleanInv, NEW s \in Shoots, Grm(s)
    PROVE  \A t \in Shoots : Clean(t)'
<1> USE Domains
<1>1. Clean(s)
  BY DEF CleanInv
<1>2. ext' = ext /\ pc' = pc /\ run' = run
  BY DEF Grm, GrmApply, GrmPrune, GrmDelete, GrmUnchanged, workVars
<1>3. /\ \/ mr'[s] = mr[s] /\ mr[s].phase # "Absent"
         \/ mr'[s].phase = "Absent" /\ installed'[s] = {} /\ mr[s].phase = "Deleting"
      /\ \A t \in Shoots \ {s} : mr'[t] = mr[t] /\ installed'[t] = installed[t]
  <2>1. CASE GrmApply(s)
    <3>1. mr' = mr /\ mr[s].phase = "Present"
      BY <2>1 DEF GrmApply
    <3>2. PICK set : installed' = [installed EXCEPT ![s] = set]
      BY <2>1 DEF GrmApply
    <3> QED
      BY <3>1, <3>2
  <2>2. CASE GrmPrune(s)
    <3>1. mr' = mr /\ mr[s].phase = "Present"
      BY <2>2 DEF GrmPrune
    <3>2. PICK o : installed' = [installed EXCEPT ![s] = @ \ {o}]
      BY <2>2 DEF GrmPrune
    <3> QED
      BY <3>1, <3>2
  <2>3. CASE GrmDelete(s) /\ installed[s] = {}
    BY <2>3 DEF GrmDelete, NoManagedResource
  <2>4. CASE GrmDelete(s) /\ installed[s] # {}
    <3>1. mr' = mr /\ mr[s].phase = "Deleting"
      BY <2>4 DEF GrmDelete
    <3>2. PICK o : installed' = [installed EXCEPT ![s] = @ \ {o}]
      BY <2>4 DEF GrmDelete
    <3> QED
      BY <3>1, <3>2
  <2> QED
    BY <2>1, <2>2, <2>3, <2>4 DEF Grm
<1>4. Clean(s)'
  BY <1>1, <1>2, <1>3 DEF Clean, Held, Ordered, Serving, Migrating,
     ReconcilePoints, ReadPoints, DeletePoints
<1>5. \A t \in Shoots \ {s} : Untouched(t)
  BY <1>2, <1>3 DEF Untouched
<1> QED
  BY <1>4, <1>5, OneShoot

\* Everything that leaves the objects and the workers alone.
LEMMA StutterClean ==
    ASSUME CleanInv, UNCHANGED <<objectVars, workVars>>
    PROVE  \A t \in Shoots : Clean(t)'
BY UntouchedClean DEF CleanInv, Untouched, objectVars, workVars

LEMMA NextClean == CleanInv /\ [Next]_vars => CleanInv'
<1> SUFFICES ASSUME CleanInv, [Next]_vars PROVE \A t \in Shoots : Clean(t)'
  BY NextType DEF CleanInv
<1>1. ASSUME NEW s \in Shoots,
             \/ Dequeue(s) \/ Reconcile(s) \/ Delete(s) \/ Finish(s) \/ ApiError(s)
             \/ Grm(s) \/ Gardenlet(s)
      PROVE  \A t \in Shoots : Clean(t)'
  BY <1>1, DequeueClean, ReconcileClean, DeleteClean, SucceedClean, ReleaseClean,
     FailClean, ApiErrorClean, GrmClean, GardenletClean DEF Finish
<1>2. ASSUME NEW s \in Shoots, DeliverInfrastructureEvent(s) \/ SeedChange(s)
      PROVE  \A t \in Shoots : Clean(t)'
  BY <1>2, StutterClean DEF DeliverInfrastructureEvent, SeedChange, ChangeCluster,
     ChangeGateway, ChangeInfrastructure, Unwatched
<1>3. CASE SharedChange
  BY <1>3, StutterClean DEF SharedChange, ChangeDeployments, ChangeService, ChangeShootInfo,
     ChangeIngressGateway, Unwatched
<1>4. CASE UNCHANGED vars
  BY <1>4, StutterClean DEF vars, restVars
<1> QED
  BY <1>1, <1>2, <1>3, <1>4, RestartClean DEF Next

-----------------------------------------------------------------------------
(* The results *)

LEMMA CleanAlways == Spec => []CleanInv
<1> QED
  BY InitClean, NextClean, PTL DEF Spec

\* No ManagedResource and no installed filter is ever without an Extension
\* that holds the finalizer, whatever fails or restarts in whichever step of
\* actuator.go's Reconcile, Delete and Migrate.
THEOREM NothingOrphaned == Spec => []NoOrphanFilters
<1>1. CleanInv => NoOrphanFilters
  BY DEF CleanInv, Clean, Held, NoOrphanFilters
<1> QED
  BY <1>1, CleanAlways, PTL

\* When createManagedResource is called, the ManagedResource is not on its
\* way out: Reconcile never revives what a Delete or a Migrate tears down.
THEOREM CreateSafe == Spec => []CreateNeverRacesDeletion
<1>1. CleanInv => CreateNeverRacesDeletion
  BY DEF CleanInv, Clean, Ordered, CreateNeverRacesDeletion, ReconcilePoints
<1> QED
  BY <1>1, CleanAlways, PTL

LEMMA ManagedResourceWriters ==
    ASSUME [Next]_vars, mr' # mr
    PROVE  \E s \in Shoots :
              \/ \E answered \in BOOLEAN : \/ CreateManagedResource(s, answered)
                                           \/ DeleteManagedResource(s, answered)
              \/ GrmDelete(s)
<1>1. ASSUME NEW s \in Shoots,
             \/ Dequeue(s) \/ Finish(s) \/ Gardenlet(s) \/ SeedChange(s)
             \/ DeliverInfrastructureEvent(s)
      PROVE  mr' = mr
  <2>1. ASSUME NEW e, Write(s, e) PROVE mr' = mr
    BY <2>1 DEF Write
  <2>2. CASE Gardenlet(s)
    BY <2>1, <2>2 DEF Gardenlet, CreateExtension, ReconcileExtension, MigrateExtension,
       DeleteExtension
  <2>3. CASE SeedChange(s)
    BY <2>3 DEF SeedChange, ChangeCluster, ChangeGateway, ChangeInfrastructure,
       Unwatched, objectVars
  <2>4. CASE Finish(s)
    BY <2>4 DEF Finish, Succeed, Release, Fail
  <2> QED
    BY <1>1, <2>2, <2>3, <2>4 DEF Dequeue, DeliverInfrastructureEvent, objectVars
<1>2. ASSUME NEW s \in Shoots, Reconcile(s), ~ CreateManagedResource(s, TRUE)
      PROVE  mr' = mr
  BY <1>2 DEF Reconcile, GetCluster, GetGateway, ListDeployments, GetService,
     GetShootInfo, GetInfrastructure, GetIngressGateway, PatchStatus, restVars, objectVars
<1>3. ASSUME NEW s \in Shoots, WaitUntilDeleted(s) \/ DeletionTimeout(s)
      PROVE  mr' = mr
  BY <1>3 DEF WaitUntilDeleted, DeletionTimeout, restVars, objectVars
<1>4. ASSUME NEW s \in Shoots, GrmApply(s) \/ GrmPrune(s)
      PROVE  mr' = mr
  BY <1>4 DEF GrmApply, GrmPrune
<1>5. SharedChange \/ Restart \/ UNCHANGED vars => mr' = mr
  BY DEF SharedChange, ChangeDeployments, ChangeService, ChangeShootInfo,
     ChangeIngressGateway, Unwatched, Restart, vars, restVars, objectVars
<1>6. PICK s \in Shoots :
         \/ Dequeue(s) \/ Reconcile(s) \/ Delete(s) \/ Finish(s) \/ ApiError(s)
         \/ DeliverInfrastructureEvent(s) \/ Grm(s) \/ Gardenlet(s) \/ SeedChange(s)
  BY <1>5 DEF Next
<1> QED
  BY <1>1, <1>2, <1>3, <1>4, <1>6 DEF Delete, ApiError, Grm

\* The one step that marks a ManagedResource for deletion is taken for an
\* Extension being deleted or migrated: neither hibernation nor an invalid
\* config, a vanished Gateway or a failing call tears filters down.
THEOREM NeverTornDownUnasked == Spec => TornDownOnRequest
<1>1. ASSUME CleanInv, [Next]_vars, NEW s \in Shoots, mr[s].phase = "Present",
             mr'[s].phase # "Present"
      PROVE  ext[s].phase = "Deleting" \/ Migrating(s)
  <2>1. PICK t \in Shoots :
           \/ \E answered \in BOOLEAN : \/ CreateManagedResource(t, answered)
                                        \/ DeleteManagedResource(t, answered)
           \/ GrmDelete(t)
    BY <1>1, ManagedResourceWriters
  <2>2. s # t => mr'[s] = mr[s]
    <3>1. CASE GrmDelete(t)
      BY <1>1, <3>1, Domains DEF GrmDelete
    <3>2. ASSUME NEW answered, CreateManagedResource(t, answered)
          PROVE  s # t => mr'[s] = mr[s]
      BY <1>1, <3>2, Domains DEF CreateManagedResource
    <3>3. ASSUME NEW answered, DeleteManagedResource(t, answered)
          PROVE  s # t => mr'[s] = mr[s]
      BY <1>1, <3>3, Domains DEF DeleteManagedResource
    <3> QED
      BY <2>1, <3>1, <3>2, <3>3
  <2>3. s = t
    BY <1>1, <2>2
  <2>4. ~ GrmDelete(s)
    BY <1>1 DEF GrmDelete
  <2>5. ASSUME NEW answered, CreateManagedResource(s, answered) PROVE FALSE
    BY <1>1, <2>5, Domains DEF CreateManagedResource
  <2>6. pc[s] = "delete"
    BY <2>1, <2>3, <2>4, <2>5 DEF DeleteManagedResource
  <2> QED
    BY <1>1, <2>6 DEF CleanInv, Clean, Serving, DeletePoints
<1>2. CleanInv /\ [Next]_vars =>
         [\A s \in Shoots : mr[s].phase = "Present" /\ mr'[s].phase # "Present" =>
             ext[s].phase = "Deleting" \/ Migrating(s)]_vars
  BY <1>1
<1> QED
  BY <1>2, CleanAlways, PTL DEF Spec, TornDownOnRequest
=============================================================================
