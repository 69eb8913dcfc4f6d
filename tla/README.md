# Verification of the Restate operator

TLA+ modules, model-checking configurations and machine-checked proofs for the
operator in `src/`. The operator is a Kubernetes controller written in Rust. It
manages three kinds of objects: `RestateCluster` (a Restate server),
`RestateDeployment` (a versioned service whose versions are registered with a
Restate server) and `RestateCloudEnvironment` (a tunnel to a managed server).

Paths below are relative to `src/src/` unless they begin with `docs/` or
`charts/`.

## 1. Inventory

| Part | State it keeps | Operations | What is hard |
|---|---|---|---|
| RestateDeployment controller, ReplicaSet mode (`controllers/restatedeployment/controller.rs`, `reconcilers/replicaset.rs`) | One ReplicaSet and Service per pod template; annotations `deployment-id` and `remove-version-at`; the Ready condition; a finalizer | `reconcile`, `cleanup_old_replicasets`, `cleanup`, `reconcile_status` | Each pass is a sequence of awaited calls to two systems that others change too; it decides by snapshots of both; it may fail or be killed between any two calls |
| Registration (`registration.rs`) | none; reads Restate and the cache | `plan_registration`, `register_deployment`, `confirm_latest`, `latest_deployment_ids` | Telling a first registration, a rollback, a lost registration and a foreign takeover apart |
| Cleanup policy (`cleanup.rs`) | none | `CleanupMode::for_rsd`, `DeploymentUsage::is_active`, `retain_for_rollback`, scheduling a removal | Three modes, two delete policies, two timeout policies, one deadline |
| Autoscaling (`reconcilers/autoscaling.rs`) | One HPA per draining version | ensure, remove and restore, delete | Gated on a cache that is empty after a restart |
| Knative mode (`reconcilers/knative.rs`) | One Configuration and Route per tag | `reconcile_knative`, `cleanup_old_configurations` | In-place updates under one tag; revision readiness |
| Retry timing (`retry.rs`) | none | `backoff`, `healthy_requeue_after`, `blocked_deletion_requeue` | Deadlines that are slept through, waits of zero |
| RestateCluster controller (`controllers/restatecluster/controller.rs`) | Ready, `provisioned` | `reconcile`, `reconcile_status`, `cleanup` | Provisioning across lost answers; a status written from the copy a pass began with |
| StatefulSet and storage (`restatecluster/reconcilers/compute.rs`) | StatefulSet, PVCs, the remembered update strategy | `reconcile_compute`, `change_statefulset_storage`, `recreate_stateful_set` | An orphaning delete and a recreate over several passes and a cache |
| Workload identity canaries (`compute.rs`) | One Job and its pods | `run_canary_job`, `check_pia`, `check_workload_identity` | Pods of an earlier Job that answer for the new one |
| Network policies (`network_policies.rs`) | Eight NetworkPolicies | `reconcile_network_policies`, `add_peer` | Applied one by one; a list of peers that is missing lets nobody in, one that is empty everybody |
| Signing key, quantities | none | rendering, parsing | no control |
| RestateCloudEnvironment controller | A tunnel Deployment | one apply | little control |
| Shared (`controllers/mod.rs`) | Readiness gates, pending CRDs, prewarmed caches, the break-glass annotation | `wait_for_crd`, `wait_for_api_groups`, `prewarmed_reflector`, `reconciliation_suspended` | Missed wake-ups, errors that pass and errors that do not |
| Metrics, telemetry, HTTP server, CRD generators, charts | counters | I/O | not control |

How they interact: the RestateDeployment controller reads the RestateCluster's
Ready condition before it registers, and its existence before it deregisters. It
talks to the Restate server's admin API (a usage query over SQL, `GET /services`,
`POST /deployments`, `DELETE /deployments/{id}?force=true`). The RestateCluster
controller talks to the server's node port once, to provision it. Kubernetes tells
the controllers of changes through watches, which also fill the caches they read.
A controller runs one pass per object at a time; nothing elects a leader among
operators. The three controllers share a process: each waits for its own CRD, a
refusal of any of them ends the process, and a signal reaches whoever listens.

What makes the parts correct:

RestateDeployment controller, in either mode

- a rollout never takes away a version Restate needs (`RecordedServingUp`,
  `RolloutSparesWork`), waits out the whole drain delay (`DrainDelayRespected`,
  `ReadyTagUnscheduled`) and keeps the right versions for a rollback
  (`HistoryBounded`, `RetainsNewest`);
- Ready means that new work lands on the version asked for (`ReadyMeansRouted`), and
  Restate is only sent to code that serves (`RoutesToServing`, `OneTemplatePerHash`);
- it does not fight others over a service (`YieldsToForeign`) and does not blame
  others without cause (`ConflictMeansForeign`);
- a deletion leaves nothing registered (`NothingOrphaned`, `ReleaseLeavesNothing`),
  does not abandon work it promised to wait for (`DrainFinishesOldWork`,
  `OnlyForceAbandons`) and ends (`DeletionEnds`, `KnativeDeletionEnds`), on time
  (`ForcedInTime`, `NoticedInTime`);
- it gets there (`Converges`, `KnativeConverges`, `OldVersionsRetire`,
  `AutoscalersSettle`) without spinning (`NoSpin`).

RestateCluster controller

- once its policies are applied, nobody the spec does not name reaches the pods and
  everybody it names does (`PoliciesFit`), and a cluster nobody has asked to be open is
  at no moment open to strangers, policies applied in part included (`NoStrangers`);
- pods are told of a role only when they will get its credentials (`CanaryProves`);
- pods are replaced only by the strategy the user chose, also across a storage
  change (`RollsAsAsked`);
- Ready tells the truth about the generation it was written for (`ReadyMeansFit`), a
  suspension is told and its end too (`SuspensionTold`), and it gets there
  (`ClusterSettles`).

The process

- a controller whose CRD is installed late still gets to run (`EventuallyRuns`), a
  signal during a wait is not forgotten by it (`SignalStopsWait`), and nobody is told that all
  CRDs are there when they are not (`AllClearIsTrue`).

The hazards these properties come from are listed with their lines in
`PROJECT.json`.

## 2. Modules

| Module | What it is |
|---|---|
| `RestateAdmin` | The Restate server as the admin API shows it: registered deployments, where each service routes, pinned and unpinned invocations. External to the repository |
| `CleanupPolicy` | The pure decisions: `ModeFor`, `IsActive`, `RetainForRollback`, `PlanActiveVersionHpa`, `PlanRegistration` |
| `RestateDeployment` | The controller's passes over one object in ReplicaSet mode, with the user, Kubernetes, both caches, time and failures around them |
| `RolloutContract` | The abstract specification: what the controller promises about one object, without passes, caches or delays |
| `DrainHistory` | `RestateDeployment` with a history variable: how long each version has been free of work |
| `KnativeDeployment` | The same controller's passes in Knative mode, over Configurations and Routes by tag |
| `OperatorProcess` | The process: three controllers waiting for API groups and CRDs, readiness, the reporter, signals, exits and restarts |
| `Operator` | `KnativeDeployment` and `OperatorProcess` composed: passes only run while the controller does, on the stores it filled, and as its probe for Knative answered |
| `RestateCluster` | The RestateCluster controller: network policies, credentials and canary, storage and StatefulSet, provisioning, status, suspension |
| `RetryTiming` | When a RestateDeployment gets its next pass: a clock, the waits, outages, a drain and its deadline |
| `RolloutInvariant`, `RegistrationInvariant`, `RoutingInvariant`, `HistoryInvariant` | What the proofs about `RestateDeployment` and `DrainHistory` keep invariant, each part on top of the one before |
| `ClusterInvariant` | The same for `RestateCluster` |
| `OperatorInvariant` | The same for `Operator`: the process, the passes, and the records |
| `RestateDeployment_proofs` | Lemmas and the proof of type correctness |
| `RolloutSafety_proofs` | The proof that `RolloutSafe` is invariant, and with it `RecordedServingUp` |
| `Registration_proofs` | Drains, orphans, and that `RestateDeployment` implements `RolloutContract` |
| `Routing_proofs` | Readiness and conflicts |
| `History_proofs` | The history, the drain delay, autoscalers, and conflicts without cause |
| `Cluster_proofs` | Every safety property of `RestateCluster` |
| `Operator_proofs` | Every safety property of `Operator` |
| `RetryTiming_proofs` | The inductive invariant `TimingInv` and the proofs of the three properties of the timers |
| `MCRestateDeployment`, `MCDrainHistory`, `MCOperator`, `MCRestateCluster`, `MCRetryTiming` | Values of the constants for TLC |

Both deployment modes use the same `RestateAdmin` and `CleanupPolicy`, as both use
the same `registration.rs` and `cleanup.rs`.

Definitions under a comment that begins "Wrong:" are used by no specification.
Each is a plausible bug; put in the place of the definition after it, it must make
the property it is paired with fail. `PROJECT.json` lists the pairs.

### `RestateDeployment`: state and code

| Variable | In the code |
|---|---|
| `restate` (`registered`, `route`, `pinned`, `unpinned`) | `sys_deployment`, `sys_service.deployment_id`, `sys_invocation_status` |
| `spec`, `phase`, `drainLeft` | The object: generation, template, policy, autoscaling; deletion timestamp and finalizer; `drain_deadline` |
| `rs` | The ReplicaSets in the API server: existence, the recorded id, `spec.replicas > 0` (`up`), `remove-version-at`, creation order |
| `ready` | Versions whose ReplicaSet status has all replicas available |
| `hpa`, `hpaCache`, `hpaListed` | Operator-managed HPAs, `hpa_store`, and whether that store has been filled |
| `cache` | `replicasets_store` |
| `rc` | The RestateCluster: ready, unready, absent |
| `op`, `usage`, `sweep` | The locals of the running pass: the object as it was, the answers it holds, the walk |
| `status` | The Ready condition and its generation |
| `faults` | Failures so far, bounded |

A pass over a live object goes through `StartApply`, `CreateReplicaSet` or
`AdoptReplicaSet` and `UnscheduleAdopted`, `PublishVersion`, `RoutingUnchanged`
(the cheap path, which ends the pass) or `RoutingChanged`, `QueryUsage` or
`ReportConflict`, `ValidateReady`/`ValidateNotReady`/`ClusterNotFound`,
`Register` or `DiscoveryFails`, `RecordId`, `ConfirmLatest` or `ReportNotLatest`,
then the walk (`StartSweep`; for each version, newest first, `KeepActive` and
`UnscheduleActive`, `ScheduleRemoval`, `AwaitRemoval`, or `StopVersion` followed
by `Deregister` and `DeleteReplicaSet` when it is not retained) and `FinishApply`.
A cleanup pass goes through `StartCleanup`, `ClusterDeleted` or `ClusterFound`,
`QueryForCleanup`, the same walk, and `AwaitDrain` or `FinishCleanup` and
`ReleaseFinalizer`. Each action is one awaited call together with the synchronous
code up to the next; the environment may act between any two.

Abstractions:

- Versions are pod templates; names derived from them do not collide (in Knative
  mode they may).
- A ReplicaSet has pods or it has none. How many, and what an HPA makes of the
  number, is left out.
- A cache takes over the whole state at once when it catches up. `CaughtUp` guards
  the start of a pass unless `LagBetweenPasses`; during a pass the cache may lag
  in every instance.
- Calls that leave no intermediate state a property can tell apart are one step:
  an HPA's deletion and the scale patch after it, the two patches of an adoption,
  the two annotations of an id (the Service's is never read), the last call and
  the status write. `PassFails` may end a pass before any step, with or without
  its status write.
- The finalizer is there from the start: `reconcile` adds it before anything else.
- Time is counted in ticks until a deadline.
- An endpoint keeps its deployment id while it stays registered and gets a fresh
  one after it was deregistered; ids nothing remembers any more are used again.
- `rc = "absent"` stands for a deleted cluster whose Restate is gone with its
  data; a cluster that comes back is empty.

- Failures: `PassFails` and `OperatorRestarts` may strike at any step, up to
  `MaxFaults` times; at the one step between a registration and its record only
  where `LoseRegistrations` is set, which is where `ConflictMeansForeign` stops to
  hold (finding 1). `rollout` sets it.

What an instance's environment may do is a set of constants: `PolicyChoices`,
`AutoscalingChoices`, `ClusterStates`, `MayDelete`, `ForeignUsers`, `FlakyPods`,
`LagBetweenPasses`, `LoseRegistrations`; the bounds are `MaxGenerations`,
`MaxFaults`, `MaxInvocations` and `Incarnations`. Instances share the modules and
differ in these only. Two incarnations of an endpoint (`Twice`) are given where a
version may have to be registered anew while its former id is still recorded
somewhere; in the other instances a second one adds no states.

`KeepsContract` reads the abstract specification through `up` (versions with
pods), `answering` (`ready`) and `inUse` (the object is live); Restate's own
variables are the same in both.

### `KnativeDeployment` and `Operator`

| Variable | In the code |
|---|---|
| `spec`, `phase`, `collisions` | The object: generation, template, `spec.knative.tag` or none, history limit; deletion; `status.collisionCount` |
| `cfg` | Configuration and Route of each tag: template, `deployment-id`, `remove-version-at`, creation order, `dying` (a deletionTimestamp), `route` (a Route exists), `rollout` (how far Knative has come: the template applied, its Revision serving, the Route pointing at it) |
| `cache` | `configuration_store` and `revision_store` |
| `op`, `usage`, `sweep` | The locals of the running pass |
| `readyFor` | The generation Ready is true for |
| `strays` | History: ids registered for a Configuration that was being deleted |
| `crds`, `optional`, `apiserver` | Which CRDs and optional API groups are served; the apiserver up, failing in a way worth a retry, or refusing |
| `pos`, `asleep`, `heard` | Where each controller is in its `run`; which sleep between polls; which hold an undelivered signal |
| `gates`, `reporter` | `Readiness`; `report_pending_crds` |
| `sawKnative` | `knative_installed`, asked once |
| `told`, `retried` | History: the wait each controller was in when the signal came; the controllers that polled again although they had heard it |

A pass: `ReportCollision`, or `ApplyConfiguration` (with `UnscheduleAdopted`), then
`ApplyRoute` or `RolloutNotReady`, `QueryUsage` or `ReportConflict`, `Register` or
`DiscoveryFails`, `RecordId`, `ConfirmLatest` or `ReportNotLatest`, the walk
(`KeepActive`, `ScheduleRemoval`, `AwaitRemoval`, `Retain`, `Deregister` and
`DeleteDeregistered`, `DeleteUnknown`), `FinishPass`; for a deletion `StartCleanup`,
`QueryForCleanup`, the walk, `AwaitDrain` or `ReleaseFinalizer`.

The process: `GroupsListed`/`GroupsNotListed`, `CrdFound`/`CrdMissing`, `PollAgain`,
`StopWaiting`, `StoreFilled`, `ProbeKnative`, `KnativeStoresFilled`, `StopRunning`;
`Complain`, `FinishReport`, `StopReporting`; `SigTerm`, `Exit`, `Replaced`,
`Killed`. A behaviour of `Operator` either follows the controllers from their start
and has no object, or has an object and starts with the probe for Knative. The
`select!` of a wait is not biased: once its sleep is over, `PollAgain` and `StopWaiting`
are both open to a controller that has heard the signal. A signal that came while the
poll was under way is there when the sleep begins, and then only the signal is ready
(`SleepUnlessTold`).

Abstractions: a version registers by URL, so that no RestateCluster takes part; a
hash is a function given as a constant (`Hash`), two templates of which collide until
the count is bumped; Knative takes two steps to roll out a template; scaling to zero
is Knative's affair, and discovery wakes it; a Configuration and its Route are one
object; the Ready answer of the Configuration is from before the apply, that of the
Route from after. An object does not change its mode.

### `RestateCluster`

| Variable | In the code |
|---|---|
| `rc`, `seen` | The object in the API server, and the copy of it passes work with; `note` is the annotation `restate.dev/recreate-update-strategy`, `mark` is `status.reconciliation`, `readyFor` the generation for which Ready=True was written |
| `due` | The controller's queue: the filtered watch, an owned object or a timer asks for a pass |
| `op` | The locals of the pass and the outcome it takes to `reconcile_status` |
| `policies` | The NetworkPolicies: existence, whether there is a rule, its peers |
| `association`, `injects` | PodIdentityAssociation or IAMPolicyMember; whether new pods get the credentials |
| `job`, `leftover` | The canary Job with its newest pod; a pod of a Job that is deleted |
| `ss`, `claim`, `cached` | StatefulSet and volume claim, and `ss_store`/`pvc_meta_store` |
| `pods`, `server` | Restate's pods and the template they run; the cluster is provisioned |
| `wanted`, `cut`, `opened` | History: the update strategy the user asked for; where a pass was stopped or worked with an old copy; whether the user has asked for pods everybody reaches |

A pass: `StartPass`, `ReconcilePolicies`, `Associate` or `Dissociate`, `ApplyCanary`,
`CheckPods`, `DeleteJob`, `PatchClaim`, one of `ReadNote`, `AwaitDeletion`,
`KeepStorage` and `RememberStrategy` with `DeleteSet`, then `ApplySet` or
`RecreateSet` with `OwnStrategy`, `ForgetStrategy`, `ProbePod` and `Provision` or
`ValidateStatus`, and in the end `WriteStatus`. `CallFails` and `Restart` may strike at
the calls a scenario names, and leave of the policies any prefix in the order of
`PolicyOrder`. `StartSuspended`, `NoteSuspension` and `ReleaseFinalizer` are the other
two ways a pass may go.

Abstractions: `tmpl` stands for everything that rolls the pods (image, environment,
annotations); there is one volume claim, one canary pod at a time, and a StatefulSet's
pods are one; the objects whose content decides nothing are left out (see the module's
header). The cache of the RestateCluster only moves between passes, as a pass works
with the copy it was given. Storage sizes only grow, as the CRD demands. A role is there
or not: that one role is changed for another, in which case the old canary Job, complete,
vouches for the new role (`compute.rs:1277-1284`), is outside the model. One list of peers
stands for those of the three ports, each of which the code reads for its own port
(`network_policies.rs:324-412`).

### `RetryTiming`

`now`, `wake` and `started` are the clock, the timer the last pass asked for and the
running pass. `sees` holds what Restate answered the pass, and the mode the code takes
again after that answer. `ready` is the Ready condition as far as
`admin_failure_retry_after` reads it, with a `lastTransitionTime` that moves with the
status only; `due` is the superseded version's `remove-version-at`. `collisions` is
`status.collisionCount`, `known` the count in the cached object, which a pass hashes with and
writes back; names are taken for counts below `Taken`. Every way a pass may end is an action
with the wait the code asks for: `HashCollision`, `AdminFailure`, `OtherFailure`,
`NotReadyYet`, `Healthy`, `Blocked`, `Held`, `Release`; a suspended object and a deletion
that finds no cluster ask for no further pass and are left out. `HashCollision` is
`Action::requeue(Duration::ZERO)` (`controller.rs:935-945` and `1023-1033`), and the next
pass, unless `SeeCount` comes between, has a copy without the count: it meets the collision
again and writes the same count again. `clearedAt` and `failed` are history. `Watched` adds
passes at any time; the run sets it to FALSE, for a timer that is wrong must not be made up
for by a watch.

## 3. Runs

Bounds of the runs of `RestateDeployment`: two versions and one service (three versions
and two services in `history`), one invocation at most per service and deployment, one
failure.

| Run | Checks | Why this instance |
|---|---|---|
| `rollout` | `RecordedServingUp`, `ReadyMeansRouted`, `RolloutSafe`, `YieldsToForeign` | Two spec changes give a rollout and a rollback; invocations, foreign clients, out-of-band deletes, one failed call or restart, also between registering and recording. No history is kept, so that rollouts deregister and delete versions. Versions are interchangeable (`VersionSymmetry`) |
| `deletion` | `TypeOK`, `NothingOrphaned`, `KeepsContract` | One spec change before or during a deletion under two policies, with failing pods and a cluster that may go away; ids are used twice |
| `drains` | `DrainFinishesOldWork`, `DeletionEnds` | All three policies, a deadline one tick away, a lagging cache; fair |
| `convergence` | `Converges`, `OldVersionsRetire`, `AutoscalersSettle` | Two spec changes, one failure, a cluster that becomes unready or loses everything; fair |
| `history` | `HistoryBounded`, `StoppedHasNoHpa`, `RetainsNewest`, `DrainDelayRespected`, `ConflictMeansForeign` | Three spec changes over three versions fill a history of one; a delay of one tick distinguishes scheduled from due |
| `operator` | `OperatorTypeOK`, `ReadyMeansRouted`, `ReadyTagUnscheduled`, `AllClearIsTrue`, `SignalStopsWait`, `EventuallyRuns`, `KnativeConverges`, `KnativeDeletionEnds`, `OneTemplatePerHash`, `RoutesToServing`, `RolloutSparesWork`, `ReleaseLeavesNothing` | Two controllers from their start, with CRDs and Pod Identity installed at any time, outages, refusals, signals, kills. An object that has been rolled out once and is edited once more, among two templates of one hash and a tag of the user's; deletion in drain mode without a deadline, Configurations that go slowly, a call that fails after a registration or at a deletion. Fair |
| `cluster` | `ClusterTypeOK`, `PoliciesFit`, `NoStrangers`, `ReadyMeansFit`, `CanaryProves`, `RollsAsAsked`, `ClusterSettles`, `SuspensionTold` | Seven scenarios, each of which moves one part of the spec and fails at the calls that matter to it; one edit, two for the credentials of AWS (a role taken away and given back); one suspension. In the scenario of the network any prefix of the policies may be applied between every two lists of peers, with pods running. Fair |
| `timers` | `ForcedInTime`, `NoticedInTime`, `NoSpin` | Two ticks are a second; the deadline lies where the backoff has left its floor; passes take up to two ticks, one failure; one name is taken, so that a pass may collide, and collide again with a copy that does not show the count |
| `false_conflict` | `ConflictMeansForeign` (violated) | finding 1 |
| `stale_cache` | `RecordedServingUp` (violated) | finding 2 |
| `drain_race` | `OnlyForceAbandons` (violated) | finding 3 |
| `orphaned_hpa` | `NoOrphanedHpas` (violated) | finding 4 |

Why the bounds are enough to be interesting: a rollback needs two versions and two
spec changes (in `operator` the first of them is the initial state); a history that
overflows needs three versions and a limit of one; the race of an invocation with a call
needs one invocation; each failure case is one failure at an arbitrary step, after which
the run must recover on its own. The passing runs together take every action and every
disjunct of the next-state relations. Deadlock checking is off where the system may stop:
an object that is gone stays gone (`deletion`, `drains`, `operator`), and the clock of
`timers` ends at its horizon.

The scenarios of `cluster` keep apart what the code keeps apart: the policies, the
credentials, the storage and the provisioning read different fields of the spec and meet
only in the order of the pass, in the outcome and in the status write, all of which every
scenario has. `Storage` lets the template change together with the size, which is the
case the remembered strategy is for.

Fairness. `RestateDeployment`: weak fairness of the operator's steps, for the controller
requeues after every outcome, success or error; of an unreachable admin API being noticed,
for requests time out; of the caches, for watches deliver; of pods becoming ready; of time;
and of each deployment's started invocations ending. None for the user, for other clients,
for scheduled invocations or for the cluster. `Operator`: in addition the polls of each
controller, the reporter, the end of an outage, and the replacement of a process that was
told to stop or has refused to run. `RestateCluster`: the steps of a pass, Kubernetes, the
cloud and the canary's pods are weakly fair, the watches strongly: a watch delivers however
busy the passes are, but the model only lets it deliver where that makes a difference,
which may be taken away again. Liveness is stated for the case that the environment calms
down: calls stop failing, nobody else takes the services, the cluster stays up (or, for
deletion, away). `RetryTiming` needs no fairness: its properties bound the time.

### Findings

What the code does against what it or its documentation says. The first four are runs of
their own, whose property fails; 5 to 10 are conditions in a property that holds otherwise,
and without which the run fails; the others were read.

1. `false_conflict`: the registration precedes its record
   (`controller.rs:637-683`). A pass that ends in between, followed by a return to
   the previous version, leaves the object reporting `ForeignDeployment` though
   nothing foreign exists. Recording first is impossible, as the id is Restate's
   answer; recognising the endpoint by its URL would be possible.
2. `stale_cache`: with a ReplicaSet cache that has not yet received the operator's
   own `deployment-id`, the sweep takes a serving version for an unregistered one
   and scales it down at once (`reconcilers/replicaset.rs:462`).
3. `drain_race`: a drain's `DELETE ...?force=true` abandons an invocation that
   started after the usage query, and the outcome does not list it as abandoned
   (`cleanup.rs:244-245` says only a force deletion abandons).
4. `orphaned_hpa`: the HPA cache is not prewarmed, so after a restart a drained
   version can be torn down without its HPA (`docs/per-version-autoscaling.md:297-299`).
5. The probe for Knative (`controller.rs:1887-1896`) takes a failed request for "not
   installed", for the life of the process. A deletion then releases the finalizer with
   everything still registered, and hash collisions are not seen (`sawKnative` in
   `ReleaseLeavesNothing` and `OneTemplatePerHash`).
6. A rollback takes up a Configuration that is being deleted in the foreground and
   registers it; a deletion then skips it (`reconcilers/knative.rs:866`), and its
   registration is orphaned (`strays` in `ReleaseLeavesNothing`).
7. A stop between the two writes of `recreate_stateful_set` (`compute.rs:1720-1732`)
   loses the update strategy, and pods roll that were to be rolled by hand (`"strategy"` in
   `RollsAsAsked`).
8. The delete of the StatefulSet is guarded by its uid alone (`compute.rs:1672-1676`): a
   strategy set since the cached copy is lost as well (`"unseen"` in `RollsAsAsked`).
9. An empty list of node peers, which asks for an open port, becomes a list of just the
   operator when the operator provisions the cluster (`network_policies.rs:401-412`); the
   nodes cannot reach each other (`OpenToOperatorOnly` in `PoliciesFit`).
10. A stop between deleting an association and deleting its canary Job
    (`compute.rs:802-803`) lets the finished Job vouch for the next association (`"job"` in
    `CanaryProves`).
11. A signal that arrives during a poll that then succeeds, or while the ReplicaSet store
    is filled, is lost with its listener (`controllers/mod.rs:390-399`); `SignalStopsWait`
    is about the wait the signal arrives in, for as long as it lasts.
12. `clear_suspension` applies a status without the required `replicas`
    (`controller.rs:1317-1345`), which the API server refuses.
13. `deploymentMode` can be added or removed, for its rule only compares two given values
    (`restatedeployments.rs:167-171`); the other kind's versions are then forgotten.
14. RestateCluster has no `observedGeneration`, which `restatecluster/controller.rs:264`
    says tells how old a suspended status is.

Also noticed, and no contradiction of anything the code says: after a failed admin call
during a deletion the backoff is not capped by the drain deadline (`controller.rs:289-294`),
so a forced drain may come up to six minutes late, which is why `ForcedInTime` speaks of
drains whose passes do not fail; a pass with a copy from before a hash collision was counted
meets the collision again at once, or, where it ends in another way first, writes the count
back as it was, so that the collision is met once more later (`controller.rs:1024`), which
is why `NoSpin` bounds the count and not the number of passes; and an operator that does not
know its own labels cannot provision a cluster it has fenced off, which is why
`ClusterSettles` asks for a cluster that is `Provisionable`.

## 4. Proofs

Every property of a passing run that is not a liveness property is proved, for every
value of the constants that satisfies the assumptions of the module that declares them
(`RestateAssumption`, `DeploymentAssumption`, `KnativeAssumption`, `ProcessAssumption`,
`ClusterAssumption`, `TimingAssumption`), and under these hypotheses:

| Theorem | Property | Hypotheses |
|---|---|---|
| `TypeCorrect` | `TypeOK` | none |
| `RolloutInvariantHolds`, `RolloutKeepsNeededVersions` | `RolloutSafe`, `RecordedServingUp` | no lag |
| `PassOrderHolds` | `PassInOrder` | none |
| `DrainFinishesOldWorkHolds` | `DrainFinishesOldWork` | alone |
| `BooksHold`, `NothingOrphanedHolds` | `BooksKept`, `NothingOrphaned` | no lag, recorded |
| `KeepsContractHolds` | `KeepsContract` | no lag, recorded, alone |
| `RoutingHolds`, `ReadyMeansRoutedHolds` | `RoutingKept`, `ReadyMeansRouted` | `SharedAlike` |
| `ConflictHolds` | `ConflictKept` | no lag |
| `YieldsToForeignHolds` | `YieldsToForeign` | no lag, Restate keeps its data |
| `StoppedHasNoHpaHolds` | `StoppedHasNoHpa` | no lag, HPAs listed |
| `HistoryHolds`, `HistoryBoundedHolds`, `RetainsNewestHolds` | `HistoryKept`, `HistoryBounded`, `RetainsNewest` | no lag |
| `DrainHolds`, `DrainDelayRespectedHolds` | `DrainKept`, `DrainDelayRespected` | no lag |
| `ConflictMeansForeignHolds` | `ConflictMeansForeign` | no lag, recorded, alone, versions have services |
| `TimingInvariant`, `ForcedInTimeHolds`, `NoticedInTimeHolds`, `NoSpinHolds` | `TimingInv`, `ForcedInTime`, `NoticedInTime`, `NoSpin` | none |
| `ClusterHolds`, `ClusterTypesHold`, `PoliciesFitHolds`, `NoStrangersHolds`, `CanaryProvesHolds`, `RollsAsAskedHolds`, `ReadyMeansFitHolds` | `ClusterInvariant`, `ClusterTypeOK`, `PoliciesFit`, `NoStrangers`, `CanaryProves`, `RollsAsAsked`, `ReadyMeansFit` | none |
| `OperatorTypesHold`, `AllClearHolds`, `SignalStopsWaitHolds` | `OperatorTypeOK`, `AllClearIsTrue`, `SignalStopsWait` | none |
| `OperatorKept`, `ReadyTagUnscheduledHolds`, `RoutesToServingHolds`, `RolloutSparesWorkHolds` | `OperatorInvariant`, `ReadyTagUnscheduled`, `RoutesToServing`, `RolloutSparesWork` | none |
| `OneTemplateHolds` | `OneTemplatePerHash` | no lag |
| `KnativeReadyMeansRoutedHolds` | `ReadyMeansRouted` of `Operator` | `SharedAlike` |
| `ReleaseLeavesNothingHolds` | `ReleaseLeavesNothing` | no lag, recorded |

What the hypotheses mean, and why they are there:

- *No lag*: `LagBetweenPasses = FALSE`. A pass begins with a cache that has caught up with
  the writes of the one before; during the pass it may fall behind. The code does not wait
  for that, and `stale_cache` (finding 2) shows what follows. Where a theorem does without
  it, it holds for caches of any age.
- *Recorded*: no pass ends between a registration and its record (`LoseRegistrations =
  FALSE`; in Knative mode `"record" \notin FailingSteps`). An id that was never written down
  is nobody's, and `false_conflict` (finding 1) shows that the controller takes it for
  somebody else's. Failures and restarts at every other step are allowed.
- *Alone*: `ForeignUsers = FALSE`. Nobody else registers endpoints that take the object's
  services, or deletes its deployments by hand. What the controller promises where others do
  is `YieldsToForeign`, `RecordedServingUp`, `ReadyMeansRouted` and the history properties,
  which are proved with them.
- `SharedAlike`: versions that share a service share all of them. `registration.rs:86`
  documents that a version which is latest for one of its services and superseded for
  another reads as latest.
- *Restate keeps its data*: `"absent" \notin ClusterStates`. A Restate that is deleted with
  its data forgets the foreign owner along with everything else.
- *HPAs listed*: the theorem is about behaviours in which the watch on HPAs has listed them
  throughout (`[]hpaListed`). Without that, `orphaned_hpa` (finding 4) is a counterexample.
- *Versions have services*: `Serves[v] # {}`. Of a version without services Restate says
  neither that it is latest nor that it is not.

The number of versions, services, invocations, failures and generations is arbitrary
in all of them, and the instance of the run that checks a property satisfies its theorem's
hypotheses.

### Rollouts

`RecordedServingUp` is not inductive, because a pass stops versions
by what two snapshots say. `AnswerHolds` says in which sense the first, Restate's
usage answer, remains true: every deployment of another version that Restate needs
now was reported as latest or busy then. Others can only make Restate need less of
a superseded version, and the operator's own registration touches only ids of the
version the pass is about. `ListHolds` says that the ids in the cached ReplicaSets
of the other versions are the recorded ones until the walk copies them, and that
the copies are right for every version the walk has yet to come to: a pass writes
an id only on its own version, and deletes only versions it has come to. `IdsBelong`
and `ReplyGiven` say that ids stay with their endpoint, so that two versions cannot
share one; `TargetUp` covers the version the pass is about; `LiveRollsOut` that a
live object is never in a cleanup pass. The proof has one step for each action,
and the actions that cannot matter to a conjunct are covered by lemmas on what they
leave unchanged.

### Registrations, drains and the contract

`PassInOrder` is what no environment upsets: cleanup passes run on deleted objects only, a
walk comes to each old version once, a rollout keeps the id it adopted until it has a new
one, and only idle deployments are about to be deregistered. On it rest the two arguments.
`DrainCovers` says that work which the answer of a drain did not report was pinned to a
deployment that is in use, for nobody else routes to the object's deployments; so a drain
never deregisters a *superseded* version with work, whatever the caches show.
`BooksKept` is double-entry bookkeeping: every registration is the id annotated on its
version or the one the pass is about to annotate (`Recorded`); the cache, and then the
walk's copy, shows the annotated ids (`ListAgrees`); what is registered for an old version
was in the answer (`AnswerCovers`); so a ReplicaSet goes only after its registration
(`DeletesUnregistered`), and a cleanup pass has each registration still ahead of it or
knows that it is not the last pass (`CleanupCovers`). That is `NothingOrphaned`.

`KeepsContractHolds` is the refinement, proved step by step under the mapping given in
section 2: one lemma for each action that maps to a step of `RolloutContract`
(`RegisterKeepsContract`, `DeregisterKeepsContract`, `StopVersionKeepsContract`,
`DeleteKeepsContract`, `ApplyKeepsContract`, `KeepActiveKeepsContract`,
`OutsideKeepsContract`), and `ContractStutters` for those that leave the mapped state alone.

### Routing and conflicts

Ready is written at the end of a pass from an answer it had earlier, about a spec that may
have been edited since. `OutcomeHolds` and `StatusHolds` say that what is going to be
reported, and what was, still holds of the version it was about: no other version of the
object has one of its services (`HasItsServices`). Others can only take services away from
the object, and a pass moves them only to the version it registers; `GenerationsGrow` tells
a report for an older generation from one for this. With `SharedAlike` an answer that names
the version as latest for one service says so for all (`RoutesTogether`, `LatestHasAll`).
`ConflictKept` does the same for a reported conflict: no other version has a service it
could be promoted away from (`NoOtherLatest`), so no pass promotes.

### History, drain delay and autoscalers

A walk decides by the list it copied. `ListHoldsUp` says that what it has yet to come to is
still as listed, only older; `ServesHold` that whatever Restate needs is scaled up and was in
the answer, and that a version which is stopped while registered was due. From these:
`HistoryKept` counts the versions kept so far (`HistoryCounted`), knows that no two are of one
generation (`CreatedApart`), and that those kept are newer than those to come
(`KeptAreNewer`), which gives the bound and the order for any limit; `DrainKept` says that a
deadline is only on a version which is free of work and has been so for long enough
(`ScheduledIsFree`), over the history variable `free`; `HpasKept` that a stopped version's
autoscaler was seen and went first. For `ConflictMeansForeign` an object that is alone holds
the services of whatever it registered (`HoldsItsServices`), so that a first registration
never finds an owner.

### Knative mode and the process

`ProcessKept` ties the process together: a controller that says Ready waits for nothing, a
process that has an object waits for no CRD, and the Knative stores are filled only by a
process that saw Knative. `PassKept` needs nothing of the environment: ids stay with their
endpoint (`IdsBelong`), a walk never comes to the tag the pass is for (`WalksOthers`), the
Configuration is the one the pass applied while nobody has collected it (`Adopted`), a
rollout's tag is off its deadline from the step after its adoption on (`Unscheduled`), and
the answer still covers what Restate needs of others (`AnswerStands`). Since in Knative mode
the walk deregisters only what its answer called neither latest nor busy, and the ids it
deregisters are those of the tag it has come to, `RolloutSparesWork` holds with caches of any
age, unlike its counterpart in ReplicaSet mode. `OneTemplatePerHash` rests on the collision
check alone, for any `Hash`. `BooksKept` is the bookkeeping of the other mode with two
differences: what has no owner is set aside (`Owned` is what is registered without `strays`,
finding 6), and a Configuration outlives its registration while it is being deleted
(`Stands`). `SignalKept` is `SignalStopsWait` and that nobody returns to the wait for the API
groups: a signal is dropped only by the step that leaves the wait, and a wait that has polled
once more with the signal in hand finds it when its next sleep begins (`WaitMoves`).

The proof goes through what a step may do to the object as a whole (`ConfigMoves`,
`ConfigFields`, `ObjectMoves`, `PassCases`), and then takes one conjunct at a time.

### RestateCluster

`ClusterInvariant` says of each copy in which sense it is true: the cached cluster is one the
user had (`SeenBehind`), and the cached StatefulSet is the one there is, with what it had of
storage, or one that was deleted for its size (`CachedBehind`). For the update strategy,
`RollKept` says that a roll by hand is on the StatefulSet, and while there is none, in the
note that every later pass finds; `DeletesCached` that the delete is for the StatefulSet whose
strategy was noted. For the credentials, `CanarySpeaks` says that a canary whose pod has a
token speaks of the association there is, except in the window of finding 10. For the network,
`FencedOff` says that, until the user has asked for a cluster that everybody reaches
(`opened`), neither copy of the cluster does, every policy there is names whom it lets in,
whichever prefix of them a pass has applied, and the policy which isolates the pods comes
before any pod and stays. `ReadyHolds` says that Ready for the current generation remains true while
later passes work: they work for the same spec, whose calls change nothing that already fits
(`FitLasts`). Findings 7 to 10 are excluded by `cut` and by `OpenToOperatorOnly` in the
properties, as in the run; nothing else is.

### Timers

The theorems are about every length of the intervals, the drain delay, the deadline, the
passes and the horizon, any number of names that are taken, under every delete policy and
with or without watches.

Neither bound is inductive, for each is about now and must follow from where the next pass
lies. `Timed` says that an idle object's timer is not behind and a pass keeps to its time,
that a pass which has its answer knows a deletion for what it is, and that a version with
work is not scheduled. `ForcedSoon` says that the next pass of a drain lies within a second
and a pass of the deadline, and that a pass which took the mode as not yet forced began
before the deadline, so that the one it asks for comes soon after it. `NoticedSoon` says that
the timer is never further away than the backoff promises for the time waited so far, and
once the drain is free to end, for the time waited when it became free; `Outdated` ties what
a running pass was told to the moment it ceased to be so, since a pass that was told of work
asks for one more wait.
The lemmas on the waits (`JitterBounds`, `BackoffBounds`, `PromisedGrows`, `BlockedWait` and
others) bound each wait the code computes; then there is one lemma for each conjunct of the
invariant (`TypeStep`, `TimedStep`, `ForcedStep`, `OutdatedStep`, `NoticedStep`), with one case
for each action.

### Only model-checked

Liveness under fairness: `DeletionEnds`, `Converges`, `OldVersionsRetire`,
`AutoscalersSettle`, `EventuallyRuns`, `KnativeConverges`, `KnativeDeletionEnds`,
`ClusterSettles`, `SuspensionTold`. The prover reasons neither about fairness nor about
`ENABLED`. And the four counterexamples of the findings, which are runs. TLC also checks
the invariants of the proofs on the instances of the runs; the one that fails there is
`RoutingKept` in `history`, whose versions do not share their services alike.

## 5. Not modelled, and the plan

Not modelled, and why:

- RestateCloudEnvironment: one apply per pass, with a suspension like the others'.
- Suspension of a RestateDeployment: the state machine is the one `RestateCluster` models;
  what differs is `clear_suspension`, finding 12.
- `status.deletion`, events, conditions other than Ready and Reconciling: reports that
  decide nothing.
- Replica counts and what an HPA makes of them: a version has pods or none. A failure
  between removing an HPA and restoring the scale is a listed hazard without a property.
- A version that is latest for one service and superseded for another, which
  `registration.rs:86` documents as a limitation.
- Two operators over one object: every module has one pass per object at a time.
- An object that changes its `deploymentMode` (finding 13).
- Rendering of manifests, the quantity parser, signing keys, security groups, telemetry,
  metrics, the HTTP server, generators, charts, resource types: no control of their own.

Next, in this order:

1. `NothingOrphaned` and `HistoryBounded` with caches that lag between passes, in the form in
   which the code still keeps them.
2. Replica counts with HPAs: the failure between removing an autoscaler and restoring the
   scale (`reconcilers/replicaset.rs:418`).
3. Two operators over one object, as during an upgrade without leader election.
4. An object that changes its `deploymentMode` (finding 13).
