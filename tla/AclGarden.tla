------------------------------ MODULE AclGarden -----------------------------
(***************************************************************************)
(* From the Shoot in the garden to the filters on the seed: users edit the *)
(* ACL extension of their Shoots, the admission webhook of pkg/admission   *)
(* validates every edit, gardenlet copies what was admitted into Extension *)
(* resources, and AclExtension takes it from there.  The two sides run the *)
(* same validation in different processes, at different times and with     *)
(* different limits.                                                       *)
(*                                                                         *)
(* A definition introduced as a "Variant" is a plausible bug that a run    *)
(* must notice when it takes the place of the definition after it.         *)
(***************************************************************************)
EXTENDS AclExtension

CONSTANTS
    DefaultLimit,       \* default of the flag --maxAllowedCIDRs, 50
    ChartLimits,        \* values of the chart's maxAllowedCIDRs, 0 if unset
    MaxEdits            \* bound on the edits of Shoots and the rollouts

ASSUME LimitsAssumption ==
    /\ DefaultLimit \in Nat \ {0}
    /\ ChartLimits \subseteq Nat
    /\ MaxEdits \in Nat

\* No flag sets the limit of the controller, Apply (options.go:69) leaves it 0.
ASSUME ControllerLimitAssumption == MaxAllowedCIDRs = 0

VARIABLES
    entry,              \* [Shoots -> entry of type acl in spec.extensions, or None]
    limit,              \* DefaultAddOptions.MaxAllowedCIDRs of the admission
    edits               \* bookkeeping of the model

gardenVars == <<entry, limit, edits>>

\* A missing provider config decodes to an ExtensionSpec without a rule.  The
\* JSON value null is a missing one: the field is a pointer to a RawExtension,
\* which null leaves nil before either side decodes anything.
Entry == [disabled : BOOLEAN, config : ProviderConfigs]

\* Variant: the chart passes every value on.
EveryLimitPassed(value) == value

\* The flag is passed only if the chart's value is not empty, and 0 is.
Limit(value) == IF value = 0 THEN DefaultLimit ELSE value

GardenTypeOK ==
    /\ entry \in [Shoots -> Entry \cup {None}]
    /\ limit \in Nat \ {0}
    /\ edits \in 0 .. MaxEdits

GardenInit ==
    /\ Init
    /\ entry = [s \in Shoots |-> None]
    /\ limit \in {Limit(value) : value \in ChartLimits}
    /\ edits = 0

-----------------------------------------------------------------------------
(* The admission webhook *)

\* Variant: only a changed provider config is validated.
ValidateIfChanged(new, old, max) ==
    /\ new # None /\ ~ new.disabled /\ new.config # NoRule
    /\ old = None \/ new.config # old.config
    => new.config # Malformed /\ ValidateExtensionSpec(new.config, max)

\* validateShoot: an entry that is disabled or has no rule is not looked at,
\* and the old Shoot does not matter.
Validate(new, old, max) ==
    new # None /\ ~ new.disabled /\ new.config # NoRule
    => new.config # Malformed /\ ValidateExtensionSpec(new.config, max)

Edit == edits < MaxEdits /\ edits' = edits + 1

\* Users add, change, disable, enable and remove the entry.
EditShoot(s) ==
    /\ Edit
    /\ \E new \in (Entry \cup {None}) \ {entry[s]} :
          /\ Validate(new, entry[s], limit)
          /\ entry' = [entry EXCEPT ![s] = new]
    /\ UNCHANGED <<limit, vars>>

\* A rollout of the admission, perhaps with another value in the chart.
RestartAdmission ==
    /\ Edit
    /\ \E value \in ChartLimits : limit' = Limit(value)
    /\ limit' # limit
    /\ UNCHANGED <<entry, vars>>

-----------------------------------------------------------------------------
(* gardenlet (external) *)

Enabled(s) == entry[s] # None /\ ~ entry[s].disabled

\* The Extension is created for an entry that is enabled, and updated when the
\* entry has another config.  It is deleted when the entry is gone (or the Shoot
\* with it) or disabled, and created anew only after it has disappeared.
SyncExtension(s) ==
    /\ UNCHANGED changes
    /\ \/ /\ Enabled(s) /\ ext[s].phase = "Absent"
          /\ Write(s, [NoExtension EXCEPT !.phase = "Live", !.operation = "reconcile",
                                          !.config = entry[s].config])
       \/ /\ Enabled(s) /\ ext[s].phase = "Live" /\ ext[s].config # entry[s].config
          /\ Write(s, [ext[s] EXCEPT !.operation = "reconcile",
                                     !.config = entry[s].config])
       \/ /\ ~ Enabled(s) /\ ext[s].phase = "Live"
          /\ Write(s, IF ext[s].finalizer THEN [ext[s] EXCEPT !.phase = "Deleting"]
                                          ELSE NoExtension)

\* The maintenance of the Shoot asks for a reconciliation with what it has.
MaintainShoot(s) ==
    /\ Enabled(s)
    /\ ReconcileExtension(s)
    /\ ext'[s].config = entry[s].config

-----------------------------------------------------------------------------
Garden(s) ==
    \/ EditShoot(s)
    \/ (SyncExtension(s) \/ MaintainShoot(s)) /\ UNCHANGED gardenVars

Seed(s) ==
    \/ Dequeue(s) \/ Reconcile(s) \/ Delete(s) \/ Finish(s) \/ ApiError(s)
    \/ DeliverInfrastructureEvent(s) \/ Grm(s) \/ SeedChange(s)

GardenNext ==
    \/ \E s \in Shoots : Garden(s) \/ (Seed(s) /\ UNCHANGED gardenVars)
    \/ (SharedChange \/ Restart) /\ UNCHANGED gardenVars
    \/ RestartAdmission

allVars == <<vars, gardenVars>>

GardenSpec == GardenInit /\ [][GardenNext]_allVars

\* gardenlet retries until the Extensions are what the Shoots ask for; the
\* rest is the fairness of AclExtension.
GardenFairness ==
    \A s \in Shoots :
        /\ WF_allVars(SyncExtension(s) /\ UNCHANGED gardenVars)
        /\ SF_allVars(Dequeue(s) /\ UNCHANGED gardenVars)
        /\ WF_allVars((Reconcile(s) \/ Delete(s) \/ Finish(s)) /\ UNCHANGED gardenVars)
        /\ WF_allVars(DeliverInfrastructureEvent(s) /\ UNCHANGED gardenVars)
        /\ WF_allVars(Grm(s) /\ UNCHANGED gardenVars)

FairGardenSpec == GardenSpec /\ GardenFairness

-----------------------------------------------------------------------------
(* Properties *)

\* What the admission let through, the controller does not reject, whenever
\* it was admitted and under whatever limit: a run fails its validation
\* (actuator.go:122) only for a missing rule, which the admission does not look
\* at (shoot.go:59).
AdmittedRulesDeploy ==
    \A s \in Shoots : pc[s] \in ReconcilePoints /\ run[s].config # NoRule =>
        /\ run[s].config # Malformed
        /\ ValidateExtensionSpec(run[s].config, MaxAllowedCIDRs)

\* No filter on the seed lists more CIDRs than the operators allow, although
\* the controller that writes it has no limit (options.go:69) and 0 in the
\* chart would mean no limit to the validation (actuator.go:235).
FiltersWithinLimits ==
    \A s \in Shoots : \A o \in mr[s].objects \cup installed[s] :
        \E max \in {DefaultLimit} \cup ChartLimits : Len(o.rule.cidrs) <= max

\* What users end up with is what the seed ends up with, however often the
\* entry was changed, disabled and enabled while earlier requests were under
\* way, and whatever failed or restarted (actuator.go:109, 339): no filter when
\* there is no ACL, and else the filters of the rule the entry has in the end.
SeedFollowsShoot ==
    \A s \in Shoots :
        /\ <>[](~ Enabled(s)) => <>[](installed[s] = {})
        /\ \A config \in ProviderConfigs \ {NoRule} :
              <>[](/\ Enabled(s) /\ entry[s].config = config /\ gateway[s] # None
                   /\ ext[s].phase = "Live" => ~ Blocked(s)) =>
                  <>[](/\ ext[s].config = config
                       /\ \E ns \in Namespaces : installed[s] = Desired(s, ns))
=============================================================================
