# Verification of the ACL extension

TLA+ models of gardener-extension-acl, the configurations that check them with
TLC, and theorems about them checked with TLAPS.

The extension restricts who may reach the API server, the VPN endpoint, the
HTTP proxy port and the ingresses of a Gardener shoot. A controller on each
seed turns the ACL rule in a shoot's Extension resource into up to four istio
EnvoyFilters with RBAC policies, and hands them, rendered by a chart, to
gardener-resource-manager (GRM) in a ManagedResource.

## The system

| Part | Source | State | Operations |
| --- | --- | --- | --- |
| Actuator | `pkg/controller/actuator.go` | none but its configuration; per run the locals of `Reconcile` | Reconcile, Restore, Delete, ForceDelete, Migrate |
| Registration, Infrastructure watch | `pkg/controller/add.go` | work queue, undelivered events (in controller-runtime) | predicate, mapping to the Extension `acl` |
| EnvoyFilter generation | `pkg/envoyfilters` | none | four Build functions, principals, policies |
| Validation | `actuator.go: ValidateExtensionSpec` | none | used by the actuator and by the admission |
| Helpers | `pkg/helper` | none | Cluster, Infrastructure, CIDRs, short shoot ID |
| Seed chart | `charts/seed` | none | names and namespaces of the EnvoyFilters |
| Admission webhook | `pkg/admission` | limit on CIDRs | validates every write of a Shoot in the garden |
| Processes | `cmd`, `pkg/cmd` | flags | leader election, caches, concurrency 5; rollouts |
| Health check | `pkg/controller/healthcheck` | none | registers Gardener's ManagedResource check |

How they meet: users write the entry of type `acl` into `spec.extensions` of their
Shoot, past the admission webhook; gardenlet turns it into an Extension resource on
the seed, by its spec, operation annotation and deletion timestamp; Gardener's
generic reconciler sets the finalizer and the status and calls the actuator; the actuator reads the Cluster,
the Gateway `kube-apiserver`, the Deployments it selects, the Service
`istio-ingressgateway`, ConfigMap `shoot-info`, the Infrastructure and the
Gateway `nginx-ingress-controller`, one call after the other, writes the
ManagedResource and patches the istio namespace into the status; GRM applies,
prunes and deletes the EnvoyFilters; istio merges the filters of all shoots that
share a gateway into the same listeners, where each connection has to pass all
of them.

What is hard here, and what makes each part correct:

* *Actuator.* The inputs may change between any two of its seven reads, any call
  may fail with or without effect, the process may stop between the two writes,
  deletions time out and are retried, and a deletion or migration may be followed
  by a new life of the same Extension. Correct is: the filters of a settled
  Extension are those the seed calls for now; nothing is left behind without a
  finalizer; deletion and creation do not overlap; filters are torn down on
  request only; invalid rules never reach the seed; every deletion ends.
* *Watch.* An event may arrive at any point of a run. Correct is: each change of
  the egress CIDRs is followed by a run that has read it.
* *Filters.* A filter in a shared chain sees everybody's traffic. Correct is: a
  rule means the same on every path to its shoot, and nothing to anybody else.
* *Rollout.* GRM changes one object at a time. Correct is: at no step is another
  shoot affected, and a finished rollout protects the shoot where it is exposed.

* *Admission.* Garden and seed run the same validation in different processes, at
  different times and with different limits; disabled entries and entries without a
  rule are not looked at. Correct is: what was admitted deploys, no filter exceeds
  the limits, and the seed ends up with what the Shoot ends up with.

## Modules

| Module | Models |
| --- | --- |
| `EnvoyFilters` | rules, their validation, the generated filters as data, and Envoy's evaluation of them; pure operators |
| `CidrBlocks` | a CIDR on its way into a filter, bit by bit: parsing, prefix and length, Envoy's range, against the block it denotes |
| `FilterSemantics` | a small machine that builds the filters of any rule and sends any connection through them |
| `AclExtension` | the controller on one seed: reconciler, actuator call by call, watch, restarts, gardenlet, the objects read, GRM |
| `AclPromise` | the abstract specification: what the extension promises about the filters of each shoot |
| `AclRefinement` | the mapping under which `AclExtension` implements `AclPromise` |
| `AclGarden` | Shoot entries, admission and gardenlet, composed with `AclExtension` |
| `SeedTraffic` | `AclExtension` and `EnvoyFilters` together: which filters each connection meets at each step |
| `EnvoyFilters_proofs` | what each generated filter admits, for all rules and connections; short IDs, server names and headers |
| `FilterSemantics_proofs` | the properties of `FilterSemantics`, and which CIDRs keep their block |
| `AclExtension_proofs` | type correctness of the controller |
| `AclCleanup_proofs` | clean-up, ordering and tear-down of the controller |
| `AclContents_proofs` | what gets onto the seed: only validated rules, and for a settled shoot what the seed calls for |
| `AclRefinement_proofs` | `AclExtension` implements `AclPromise` |
| `AclGarden_proofs` | what was admitted deploys, within the limits |
| `SeedTraffic_proofs` | the traffic of all shoots through the filters of all shoots |
| `MCFilterSemantics`, `MCAclExtension`, `MCSeedTraffic`, `MCAclGarden` | values for TLC |

### How state and actions correspond to the code

`EnvoyFilters` abstracts strings to what the matchers can tell apart. A name is
the sequence of its parts between dashes, since the ingress filter matches a
suffix that starts with a dash; a header is the sequence of its labels, since the
proxy filters match a whole label between dots. `Covers` says which addresses
Envoy matches for a CIDR, its domain is the set of CIDRs `net.ParseCIDR` accepts.
`CidrBlocks` says what they are: addresses are sequences of bits there, with the
host bits a user leaves in and the v4-mapped form of an IPv4 address. In
`filter_semantics` `Covers` is `EnvoyRange` of such CIDRs, and `Blocks` what the same
CIDRs denote.

In `AclExtension` a worker of shoot `s` is at `pc[s]` with locals `run[s]`:

| Action | Code |
| --- | --- |
| `GetCluster` | lines 110-124: Cluster, then decoding and validation |
| `GetGateway`, `ListDeployments` | `findIstioNamespaceForExtension`, the early return for hibernated shoots, advertised addresses, seed networks |
| `GetService`, `GetShootInfo`, `AllowSeedEgress` | lines 158-171 |
| `GetInfrastructure` | lines 176-185, skipped for workerless shoots; the node network comes from the Cluster read before |
| `GetIngressGateway`, `CreateManagedResource` | `createSeedResources` |
| `PatchStatus` | `updateStatus` |
| `DeleteManagedResource`, `WaitUntilDeleted`, `DeletionTimeout` | `deleteSeedResources` |
| `ApiError` | the error return of any of these calls; a write may have happened |
| `Restart` | a new process or leader: workers, queue and undelivered events are lost |
| `ChangeInfrastructure`, `EgressCIDRsChanged`, `DeliverInfrastructureEvent` | `infrastructurePredicate`, `watchInfrastructure` |
| `Dequeue`, `Succeed`, `Release`, `Fail` | Gardener's extension reconciler around the actuator (external) |
| `CreateExtension` ... `DeleteExtension`, `Change...` | gardenlet, users and the seed (external) |
| `GrmApply`, `GrmPrune`, `GrmDelete` | GRM (external) |

In `AclGarden`, `entry[s]` is the ACL entry of Shoot `s` and `limit` the one of the
admission process:

| Definition | Code |
| --- | --- |
| `Validate`, `EditShoot` | `validateShoot` on every create and update, old Shoot unused |
| `Limit`, `RestartAdmission` | the chart's `maxAllowedCIDRs` (0 counts as empty), the flag and its default |
| `SyncExtension`, `MaintainShoot` | gardenlet (external): the Extension follows the entry; maintenance asks again |

The pure code between two calls belongs to the action of the call before it.
Definitions introduced as *Variant* are plausible bugs (a dropped guard, a
forgotten case); no other definition uses them. They document what each checked
property is able to notice: put in place of the definition after them, they make
it fail.

Assumptions about what lies outside `src/`:

* The reconciler wakes up for an Extension that is updated with an operation
  annotation or a deletion timestamp, and after a restart also for one whose last
  operation did not succeed. Migrate wins over delete, delete over restore,
  restore over reconcile. The annotation *reconcile* is removed before the run,
  *migrate* and *restore* after it, the finalizer after a deletion or migration.
  A migrated Extension is skipped until it is restored. gardenlet does not replace
  a migrate or restore request it has made, and migrates only what has been
  reconciled.
* gardenlet creates, updates and deletes the Extension until it is what the Shoot
  asks for, and creates it anew only after the last one has disappeared.
* The predicate that skips failed Shoots does not apply (Extensions of a Shoot
  being reconciled), and the operation annotation is not ignored, the default of the
  flag.
* The webhook sees every write of a Shoot with an ACL entry.
* A provider config reaches both validations as JSON. The field is a pointer to a
  `RawExtension`, so the value `null` leaves it nil, like a missing field, before
  `validateShoot` or `Reconcile` decodes anything: both are `NoRule`, which the
  admission lets through and the controller rejects. The guards against a nil spec
  (`shoot.go:59`) have nothing to guard.
* `status.state` holds what `updateStatus` has written with `json.Marshal` (gardenlet
  carries it over a migration as it is), so that `getExtensionState` can always
  unmarshal it; its error return is left out.
* The objects are as the manager's cache shows them: a variable changes when
  the cache sees the change. The Secret and the ManagedResource object written by
  `managedresources.Create` count as one write.
* GRM applies and prunes in any order, one object at a time.
* Istio merges an EnvoyFilter into the gateways its labels select in its own
  namespace; a connection passes if all filters of its chain admit it.

`stale[s]` records why filters may be outdated although the Extension is
settled: an input that nobody watches has changed (`unwatched`; gardenlet's next
reconciliation repairs it) or an event was lost in a restart (`missed`). It guards
the properties about settled Extensions and no action.

### What the extension promises

`AclPromise` knows no queue, no calls, no retries. A shoot asks for a config or for
removal; jobs deploy or remove; filters are rolled out and torn down one by one. It
promises that a job writes either the complete filters of the config it began with
or nothing, that success is reported only of a job that did its work (or was excused
by hibernation), that removal happens on request only, and that the shoot is held
from before its first filter until after its last. Jobs may be cut short anywhere.

`AclRefinement` maps `AclExtension` to it: a worker is a job from `Dequeue` until it
fails or finishes, its outcome follows from `pc[s]`; the finalizer holds the shoot; a
deletion timestamp or the annotation `migrate` asks for removal; the ManagedResource
is what is to be on the seed. `PromiseKept` is the abstract specification under this
mapping, checked as a property of `lifecycle`, with failed writes and restarts.

## Runs

| Run | Question | States |
| --- | --- | --- |
| `filter_semantics` | Does each filter do what an ALLOW rule means for the blocks it names, the API filter what a DENY rule means, and do the shared chains let others pass? | 94 thousand |
| `lifecycle` | Create, reconcile, migrate, restore, delete, with invalid configs, hibernation, a moving Gateway, two failures or restarts: does the controller keep its promise and its invariants? | 643 thousand |
| `inputs` | Any three changes of the seven objects Reconcile reads, between any reads: is a settled shoot up to date, and protected where it ends up? | 1.2 million |
| `admission` | A Shoot edited under changing limits: does what was admitted deploy, within the limits, and does the seed follow the Shoot? | 303 thousand |
| `two_shoots` | Two workers, two shoots (one workerless), events of both | 1.2 million |
| `liveness` | Does everything settle, get installed, get deleted, also after a restart, and does another configuration of the new process take effect with the next reconciliation? | 200 thousand |
| `shared_chains` | Two shoots that begin on one gateway, during rollouts, deletions and the move of one or both to a gateway in another namespace | 402 thousand |

Five runs show disagreements between the code and what its comments or
documents say:

* `filter_spelling`: `ValidateExtensionSpec` accepts `allow` in any spelling,
  `ruleCIDRsToPrincipal` adds the always allowed CIDRs only for `ALLOW`, so a rule
  spelled otherwise blocks the node and seed networks of its own shoot.
* `filter_deny`: the filters of the shared chains are always ALLOW lists; a DENY
  rule, which the API filter honours, admits what it lists there.
* `filter_clash`: shoot `foo` of project `x-bar` is decided about by the ingress
  filter of shoot `foo` of project `bar`, whose suffix `-bar--foo` it ends with.
* `filter_mapped`: a CIDR in v4-mapped form keeps the prefix length of its IPv6 form
  next to a dotted IPv4 address, so its filter covers another range than the rule
  names.
* `restart`: a change of the egress CIDRs that falls into a restart is never
  reconciled: the watch ignores the initial list, and the succeeded Extension is
  not queued either.

### Bounds

`MaxChanges` bounds what users, gardenlet and the seed do, `MaxFaults` the failed
calls and restarts. Timeouts, retries, deliveries and GRM are not bounded. Three
changes are the shortest history of interest: create, change an input or the
request, and ask again (or delete, and create anew). `inputs` lets all objects
read take all their values, from three situations (a shoot as usual, a hibernated one,
one on a managed seed behind a proxy load balancer), without failures; the other runs fix the
inputs their question does not need (a shoot of `shared_chains` moves with its
Gateway: create, change the Gateway, reconcile), because the inputs meet only in the set of
allowed CIDRs and in the objects. `MaxEdits` bounds the edits of a Shoot and the
rollouts of the admission in `admission`: three suffice to admit a rule, disable the
entry and enable it again, or to put a rollout between two edits; gardenlet itself is
not bounded. Rules of up to three CIDRs meet limits of one and two. Addresses in
`filter_semantics` have two IPv4 bits and a mapped prefix of two, enough for CIDRs with
and without host bits, of single addresses and of networks, of both families and in
mapped form. Two shoots suffice for interference, for every
shared structure (queue, workers, chains) treats shoots pairwise; `two_shoots`
runs them on two workers. The value of an input is one of those the code
distinguishes: hibernated, without advertised addresses, moved; one selected
Deployment, none, one in another namespace, two in two namespaces or in the same one;
list of egress CIDRs, permutation, shorter list, one with a repeated entry, none; Service missing,
VIP, Proxy; shoot-info missing, without key, valid, garbled. `MaxAllowedCIDRs` is
0 as in the deployed controller, which never sets it.

All runs switch the deadlock check off: with the bounds used up and all work
done, the system rightly stops.

### Fairness

`Fairness` in `AclExtension` asks for what the code's runtime gives: a worker
goes on with the call it is at (weak fairness of its next step), informers deliver
events, GRM works on its ManagedResources, and a key in the queue is taken
repeatedly when a worker is repeatedly free (strong fairness of `Dequeue`: other
keys may take the worker in between, but the queue is FIFO, and back-off only
delays). Nothing is assumed of users, the seed, failures and restarts.
`GardenFairness` in `AclGarden` adds that gardenlet, which retries a Shoot until it is
reconciled, updates an Extension that keeps differing from its entry (weak fairness
of `SyncExtension`); nothing is assumed of gardenlet in `AclExtension`.
`EventuallySettled` assumes that eventually nothing blocks the Extension for good,
`Blocked` names what does: an invalid config, no Gateway, not exactly one selected
Deployment, no advertised address, no Infrastructure, a broken shoot-info.
`SeedFollowsShoot` uses the same condition; it needs no assumption that the rule is
valid, for the admission sees to that.

## Proofs

All are for arbitrary values of the constants: any number of shoots, workers and
namespaces, any rules, inputs and histories, no bound on changes and faults but the
constants that name them. The proofs use the named assumptions of the modules:

* `EnvoyFilters`, `CidrBlocks`: addresses have widths, `0.0.0.0/0` and `::/0`
  together cover all of them.
* `AclExtension`: the inputs have the types the APIs give them, and `None` is neither
  a config nor a selector (`NoneAssumption`: what is missing is told apart from what
  is there).
* `AclGarden`: the controller's own limit is 0 (`ControllerLimitAssumption`): no flag
  sets it, and `Apply` in `options.go` leaves it alone.
* `FilterSemantics`, `SeedTraffic`: a technical ID has at least one part
  (`TechnicalIDAssumption`).

Three provisos are hypotheses of the theorems that need them, because the code does
not ensure them and two of the violating runs show what happens without:

* `NoShortIDEndsWithAnother`: the short ID of no shoot ends with a dash and that of
  another. `filter_clash` is the counterexample without it.
* `MappedCidrsAreHosts`: no CIDR in use is that of a network in v4-mapped form.
  `filter_mapped` is the counterexample without it.
* `HostsAreDistinct`: no host is advertised by two shoots, since Gardener derives the
  host names from shoot and project. The API filter is the only one without a
  condition on the connection: it relies on the host to single out the shoot.

The instances of `filter_semantics` and `shared_chains` satisfy them.

### Filters

* `EnvoyFilters_proofs`: the generated filters follow the rule on the shoot's own
  traffic (ALLOW on all paths, DENY on the API path), and those of the shared
  chains admit all traffic that does not match their shoot. The argument: the
  principals of a filter match exactly the listed and always allowed sources
  (`AllowPrincipals`, `OtherPrincipals`), and the pair of policies of a shared
  chain splits on the permission (`ShootPoliciesMatch`). A short shoot ID is what the
  technical ID becomes by its two shapes (`ShortShootIDCases`), and a server name ends
  with a short ID iff the short ID it is made from does (`ServerNameEnds`).
* `FilterSemantics_proofs`: `FiltersFollowRule`, `FiltersLeaveOthersAlone`,
  `RuleKeepsItsBlocks`. The invariant `ConnInv` says that a connection has the server
  name and header that lead to its shoot; with it each property follows from the
  theorems about the filters. `KeepsItsBlock` says exactly which CIDRs survive
  `getPrefixAndPrefixLength`: those that are not v4-mapped, and mapped ones of a
  single address. It generalises `filter_mapped` to all widths: *every* mapped
  network is misconverted, not only the one the run finds.

### The controller

* `AclExtension_proofs`: `TypeCorrect`. `TypeOK` alone is not inductive, because
  `CreateManagedResource` renders locals that earlier steps have read; `ReadInv`
  says which locals are set at which point.
* `AclCleanup_proofs`: `NothingOrphaned`, `CreateSafe`, `NeverTornDownUnasked`.
  `CleanInv` strengthens the three properties: a running worker and a
  ManagedResource imply the finalizer (`Held`), a ManagedResource is deleted only
  for a request that is still standing and is gone before the finalizer goes
  (`Ordered`), and the request a worker serves is the one the Extension still
  carries (`Serving`). Without `Serving` a migration could end in a state the
  finalizer rule says nothing about; without `Ordered` the removal of the
  finalizer would not be known to be safe. Each step concerns one shoot
  (`OneShoot`).
* `AclContents_proofs`, first part: `RulesValidated`. `RuleInv` adds to the property
  that a worker past the validation holds an accepted rule: the Extension may be
  edited while it reads its inputs, and the rule it renders is its local copy. All
  steps but `CreateManagedResource` only drop or apply objects (`Kept`) and let a
  worker past the validation only with an accepted rule (`Checked`).
* `AclContents_proofs`, second part: `SettledIsUpToDate`, `RecordMatches`. A run
  reads its inputs one by one while they change, so nothing relates its locals to the
  inputs in general. `TrackInv` says: as long as no change is on record
  (`Unspoilt`: neither an unwatched one in `stale`, nor an undelivered event, nor a
  queued key), everything a worker has read so far is what the objects say now
  (`CurrentAt`), what it has written is what the seed calls for, and this lasts after
  it is done (`Lasting`). The changes that are not recorded must wake the controller:
  a request made during a run leaves the key in the queue (`Noticed`), and a run is
  visible in the status, so that a restart repeats it (`Marked`). Every step either
  preserves all that a shoot's filters depend on (`Same`), or spoils the shoot and
  makes it be looked at again (`SpoiltTracked`), or is one of the reads.
* `AclRefinement_proofs`: `KeepsPromise`. Every step of the controller maps to one
  step of `AclPromise` or leaves its variables alone. `PromiseInv` adds to `CleanInv`
  that an Extension that is gone has left nothing in its status, that success is not
  reported before the work is done (a failure after the write must not count as one),
  and that no two objects of a ManagedResource have the same name on the seed, so that
  rolling out one never replaces another.

### Compositions

* `AclGarden_proofs`: `GardenTypeCorrect`, `AdmissionSuffices`, `LimitsReachTheSeed`,
  `GardenCleansUp`. `GardenInv` follows a config on its way: what an enabled entry, an
  Extension, a worker or a filter holds was admitted under some limit of some
  admission process (`Passed`). The limit in force is no part of that: it may have
  been lowered since. The steps of gardenlet, which here may update
  an Extension while a worker is at it, preserve `CleanInv` and `RuleInv` too.
* `SeedTraffic_proofs`: `FiltersOfOthersDoNotMatter`, `DeployedIsProtected`,
  `RuleIsEnforced`. `HostInv` says that every filter of a shoot, installed, to be
  installed or about to be rendered, is for hosts its Cluster advertises in some
  state; so no API filter is ever in a chain of another shoot, and the filters of the
  other chains let others pass by `EnvoyFilters_proofs`. What a deployed shoot has
  installed comes from `TrackInv` (`DeployedFilters`), what it admits from the
  theorems about the filters; the other shoots do not interfere by the first result.

`CleanInv`, `TrackInv` and `RuleInv` were checked with TLC on the instances of
`lifecycle`, `inputs`, `two_shoots` and `shared_chains` before they were proved.

With these every invariant, the action property and the refinement that the passing
runs check are theorems.
Only model-checked: liveness (`EventuallySettled`, `EventuallyInstalled`,
`DeletionCompletes`, `SeedFollowsShoot`), which the proof system does not cover. That
`Covers` and `Blocks` of a configuration are `EnvoyRange` and `Block` of its CIDRs is
a hypothesis of `RuleKeepsItsBlocks` (`CidrsAreWritten`) which `MCFilterSemantics`
meets by definition. The properties of the violating runs are, of course, no theorems.

## Not modelled

Metrics, logging, scheme registration, flag parsing other than the limit and the
additional CIDRs, and the image vector; URLs of advertised addresses (hosts are taken as
given); `CreateInternalFilterPatchFromRule` and `GetShootPodSpecificAllowedCIDRs`, which
nobody calls; the Extension status beyond the last operation and the istio namespace;
Gardener's health check, which only registers a generic check of the ManagedResource;
the wiring of the two managers (certificates, health probes, source cluster). The
pod and node networks of the seed come with the Cluster but do not change while a
seed lives, so they are a constant; migration to another seed is in `AclExtension`,
where gardenlet asks for it, and not in `AclGarden`, whose Shoots stay on their seed.

## Plan

1. That the composed specifications keep the promise too: `GardenSpec` implements
   `AclPromise` under the same mapping, and `AdmissionSuffices` together with
   `KeepsPromise` says what filters an admitted rule ends up as.
2. Results on what the violating runs show, stated positively: which spellings of
   ALLOW keep the always allowed CIDRs, what exactly a DENY rule admits in the shared
   chains, and that of two clashing short IDs only one side is affected.
3. Safety parts of the liveness properties: what a worker that cannot go on is waiting
   for, and that a blocked Extension is always one the controller will look at again.
