-------------------------- MODULE RestateDeployment --------------------------
(***************************************************************************)
(* The RestateDeployment controller in ReplicaSet mode: one object, its    *)
(* versioned ReplicaSets, the controller's reconcile passes over them, and *)
(* the Restate server the versions are registered with (RestateAdmin).     *)
(*                                                                         *)
(* A version is a pod template.  Its ReplicaSet, Service, HPA and endpoint *)
(* share a name derived from the template, so they are all indexed by it.  *)
(*                                                                         *)
(* A pass is a sequence of awaited calls to Kubernetes and Restate.  Every *)
(* action below is one such call with the synchronous code that follows    *)
(* it; the user, Kubernetes and Restate may act between any two.  A pass   *)
(* works on the object as it was when the pass began (op.self) and reads   *)
(* the old ReplicaSets from a watch cache that may trail the API server.   *)
(***************************************************************************)
EXTENDS RestateAdmin, CleanupPolicy

CONSTANTS
  HistoryLimit,      \* spec.revisionHistoryLimit
  DrainDelay,        \* spec.restate.drainDelaySeconds, in clock ticks
  DrainTimeout,      \* spec.restate.drain.timeoutSeconds, in clock ticks
  NoVersion,         \* no version is being torn down
  \* What the environment may do in an instance.
  PolicyChoices,     \* the delete policies a user may set
  AutoscalingChoices,\* whether spec.autoscaling may be set
  ClusterStates,     \* what may become of the referenced RestateCluster
  MayDelete,         \* the object may be deleted
  ForeignUsers,      \* others register and deregister with the same Restate
  FlakyPods,         \* ready pods may fail
  LagBetweenPasses,  \* a pass may begin before the cache has caught up
  LoseRegistrations, \* a pass may end after registering, before recording the id
  MaxGenerations,    \* bound: spec changes
  MaxFaults          \* bound: failed calls, operator restarts, losses of the cluster

Never == -1  \* no removal deadline

ASSUME DeploymentAssumption ==
  /\ Versions # {}
  /\ HistoryLimit \in Nat
  /\ DrainDelay \in Nat
  /\ DrainTimeout \in Nat
  /\ NoVersion \notin Versions
  /\ PolicyChoices \subseteq Policies
  /\ AutoscalingChoices \subseteq BOOLEAN
  /\ ClusterStates \subseteq {"ready", "unready", "absent"}
  /\ MaxGenerations \in Nat
  /\ MaxFaults \in Nat

VARIABLES
  spec,      \* the object's spec and generation
  phase,     \* "live", "deleting", "gone"
  drainLeft, \* ticks until the drain deadline of the deletion
  rs,        \* the ReplicaSet of every version, in the API server
  ready,     \* versions whose ReplicaSet reports all its replicas available
  hpa,       \* versions with an operator-managed HorizontalPodAutoscaler
  rc,        \* the referenced RestateCluster
  cache,     \* the operator's watch cache of rs (prewarmed)
  hpaCache,  \* the operator's watch cache of hpa
  hpaListed, \* that cache has been filled (it is not prewarmed)
  op,        \* the pass: position, snapshots and answers
  usage,     \* the pass: Restate's answer to the usage query
  sweep,     \* the pass: the walk over old ReplicaSets
  status,    \* the Ready condition and the generation it was written for
  faults     \* failed calls, restarts and losses of the cluster so far

cluster == <<rs, ready, hpa>>
caches == <<cache, hpaCache, hpaListed>>
object == <<spec, phase, drainLeft, rc>>
vars == <<restate, object, cluster, caches, op, usage, sweep, status, faults>>

Deadlines == {Never} \cup 0 .. DrainDelay

Specs == [gen : 0 .. MaxGenerations, template : Versions,
          policy : Policies, autoscaling : BOOLEAN]

ReplicaSets == [exists : BOOLEAN, id : Ids \cup {NoId}, up : BOOLEAN,
                removeAt : Deadlines, created : 0 .. MaxGenerations]

Absent == [exists |-> FALSE, id |-> NoId, up |-> FALSE,
           removeAt |-> Never, created |-> 0]

\* Creation timestamps order ReplicaSets as the generations that created them.
Created(gen) == [exists |-> TRUE, id |-> NoId, up |-> TRUE,
                 removeAt |-> Never, created |-> gen]

Steps == {"idle", "adopt", "unschedule", "publish", "routing", "query", "validate",
          "register", "record", "confirm", "sweep", "item", "keep", "deregister",
          "delete", "getCluster", "drainQuery", "release"}

Reasons == {"None", "Deployed", "NotReady", "NotLatest", "ForeignDeployment", "Failed"}

NoUsage == [known |-> {}, latest |-> {}, busy |-> {}]

NoSweep == [view |-> [v \in Versions |-> Absent], todo |-> {}, at |-> NoVersion,
            historic |-> 0, blocked |-> FALSE, pending |-> FALSE]

OpStates == [pc : Steps, self : Specs, mode : Modes, id : Ids \cup {NoId},
             ready : BOOLEAN, action : Actions, reply : Ids \cup {NoId},
             outcome : Reasons]

Usages == [known : SUBSET Ids, latest : SUBSET Ids, busy : SUBSET Ids]

Sweeps == [view : [Versions -> ReplicaSets], todo : SUBSET Versions,
           at : Versions \cup {NoVersion}, historic : Nat,
           blocked : BOOLEAN, pending : BOOLEAN]

ClusterTypeOK ==
  /\ spec \in Specs
  /\ phase \in {"live", "deleting", "gone"}
  /\ drainLeft \in 0 .. DrainTimeout
  /\ rs \in [Versions -> ReplicaSets]
  /\ ready \subseteq Versions
  /\ hpa \subseteq Versions
  /\ rc \in {"ready", "unready", "absent"}
  /\ cache \in [Versions -> ReplicaSets]
  /\ hpaCache \subseteq Versions
  /\ hpaListed \in BOOLEAN
  /\ faults \in 0 .. MaxFaults

PassTypeOK ==
  /\ op \in OpStates
  /\ usage \in Usages
  /\ sweep \in Sweeps
  /\ status \in [reason : Reasons, gen : 0 .. MaxGenerations]

TypeOK == RestateTypeOK /\ ClusterTypeOK /\ PassTypeOK

\* Between passes the snapshot means nothing.
NoSpec == [gen |-> 0, template |-> CHOOSE v \in Versions : TRUE,
           policy |-> "force", autoscaling |-> FALSE]

Idle == [pc |-> "idle", self |-> NoSpec, mode |-> "Rollout", id |-> NoId,
         ready |-> FALSE, action |-> "None", reply |-> NoId, outcome |-> "None"]

Init ==
  /\ RestateInit
  /\ spec \in [gen : {0}, template : Versions, policy : PolicyChoices,
               autoscaling : AutoscalingChoices]
  /\ phase = "live"
  /\ drainLeft = DrainTimeout
  /\ rs = [v \in Versions |-> Absent]
  /\ ready = {}
  /\ hpa = {}
  /\ rc \in ClusterStates
  /\ cache = rs
  /\ hpaCache = {}
  /\ hpaListed = TRUE
  /\ op = Idle
  /\ usage = NoUsage
  /\ sweep = NoSweep
  /\ status = [reason |-> "None", gen |-> 0]
  /\ faults = 0

-----------------------------------------------------------------------------
(* The parts of a pass.                                                    *)

Target == op.self.template

At(step) == op.pc = step

\* A call to the admin API; a deleted cluster does not answer.
AdminSteps == {"routing", "query", "register", "confirm", "deregister", "drainQuery"}

Calls(step) == At(step) /\ rc # "absent"

Goto(step) == op' = [op EXCEPT !.pc = step]

\* The pass is over.  reason "None" leaves the Ready condition as it was.
EndPass(reason) ==
  /\ op' = Idle
  /\ usage' = NoUsage
  /\ sweep' = NoSweep
  /\ status' = IF reason = "None" THEN status
               ELSE [reason |-> reason, gen |-> op.self.gen]

\* How a pass that failed is reported: cleanup leaves Ready alone, and an error in
\* the sweep of a version that is not ready is swallowed.
FailureReason == IF IsDeleting(op.mode) THEN "None"
                 ELSE IF op.outcome = "NotReady" THEN "NotReady" ELSE "Failed"

\* The answer to the usage query in a given mode.
UsageAnswer(mode) ==
  [known  |-> registered,
   latest |-> LatestIds,
   busy   |-> {id \in registered :
                 pinned[id] > 0 \/ (NeedsUnpinnedCount(mode) /\ UnpinnedAt(id))}]

\* Wrong: only the current version is looked at.
OwnedIdsOfCurrent == {cache[Target].id} \ {NoId}

\* What the cache says of the object's versions.
OwnedIds == {cache[v].id : v \in {w \in Versions : cache[w].exists}} \ {NoId}

HasOtherOwned(v) == \E w \in Versions \ {v} : cache[w].exists

\* The ids of v's endpoint that nothing remembers, and the first of them.
Unused(v) == IdsOf(v) \ (registered \cup {rs[v].id, cache[v].id, sweep.view[v].id, op.id})

FreshIds(v) == {id \in Unused(v) : \A other \in Unused(v) : id[2] <= other[2]}

\* The watches have delivered what the passes so far wrote.
CaughtUp == cache = rs /\ (hpaListed => hpaCache = hpa)

\* Wrong: the autoscaler stays.
HpasKeeping(v) == hpa

\* Delete a version's autoscaler if the cache has it.
HpasWithout(v) == IF v \in hpaCache THEN hpa \ {v} ELSE hpa

CurrentMode(self) == ModeFor(phase = "deleting", self.policy, drainLeft = 0)

-----------------------------------------------------------------------------
(* A pass over a live object: make the version exist, make Restate route   *)
(* to it, then walk the old versions.                                      *)

StartApply ==
  /\ At("idle")
  /\ phase = "live"
  /\ LagBetweenPasses \/ CaughtUp
  /\ op' = [Idle EXCEPT !.pc = "adopt", !.self = spec]
  /\ UNCHANGED <<restate, object, cluster, caches, usage, sweep, status, faults>>

CreateReplicaSet ==
  /\ At("adopt")
  /\ ~rs[Target].exists
  /\ rs' = [rs EXCEPT ![Target] = Created(op.self.gen)]
  /\ Goto("publish")
  /\ UNCHANGED <<restate, object, ready, hpa, caches, usage, sweep, status, faults>>

\* AlreadyExists: read it, propagate spec.replicas.
AdoptReplicaSet ==
  /\ At("adopt")
  /\ rs[Target].exists
  /\ rs' = [rs EXCEPT ![Target].up = TRUE]
  /\ op' = [op EXCEPT !.pc = IF rs[Target].removeAt = Never THEN "publish" ELSE "unschedule",
                      !.id = rs[Target].id,
                      !.ready = Target \in ready]
  /\ UNCHANGED <<restate, object, ready, hpa, caches, usage, sweep, status, faults>>

UnscheduleAdopted ==
  /\ At("unschedule")
  /\ rs' = [rs EXCEPT ![Target].removeAt = Never]
  /\ Goto("publish")
  /\ UNCHANGED <<restate, object, ready, hpa, caches, usage, sweep, status, faults>>

\* Drop a leftover HPA, apply the Service.  With no other version to look
\* after, a recorded id only needs the cheap question.
PublishVersion ==
  /\ At("publish")
  /\ hpa' = HpasWithout(Target)
  /\ Goto(IF op.id # NoId /\ ~HasOtherOwned(Target) THEN "routing" ELSE "query")
  /\ UNCHANGED <<restate, object, rs, ready, caches, usage, sweep, status, faults>>

RoutingUnchanged ==
  /\ Calls("routing")
  /\ op.id \in LatestIds
  /\ EndPass("Deployed")
  /\ UNCHANGED <<restate, object, cluster, caches, faults>>

RoutingChanged ==
  /\ Calls("routing")
  /\ op.id \notin LatestIds
  /\ Goto("query")
  /\ UNCHANGED <<restate, object, cluster, caches, usage, sweep, status, faults>>

PlannedAction == PlanRegistration(op.id, UsageAnswer("Rollout"), OwnedIds)

QueryUsage ==
  /\ Calls("query")
  /\ PlannedAction # "Conflict"
  /\ usage' = UsageAnswer("Rollout")
  /\ op' = [op EXCEPT !.action = PlannedAction,
                      !.outcome = "Deployed",
                      !.pc = IF PlannedAction = "AlreadyLatest" THEN "sweep" ELSE "validate"]
  /\ UNCHANGED <<restate, object, cluster, caches, sweep, status, faults>>

\* Wrong: the report does not end the pass.
ReportAndPromote ==
  /\ Calls("query")
  /\ PlannedAction = "Conflict"
  /\ usage' = UsageAnswer("Rollout")
  /\ op' = [op EXCEPT !.action = "Promote", !.outcome = "Deployed", !.pc = "validate"]
  /\ status' = [reason |-> "ForeignDeployment", gen |-> op.self.gen]
  /\ UNCHANGED <<restate, object, cluster, caches, sweep, faults>>

\* Superseded, and none of our versions is latest: write nothing, sweep nothing.
ReportConflict ==
  /\ Calls("query")
  /\ PlannedAction = "Conflict"
  /\ EndPass("ForeignDeployment")
  /\ UNCHANGED <<restate, object, cluster, caches, faults>>

ClusterNotFound ==
  /\ At("validate")
  /\ rc = "absent"
  /\ EndPass("Failed")
  /\ UNCHANGED <<restate, object, cluster, caches, faults>>

ValidateReady ==
  /\ At("validate")
  /\ rc = "ready"
  /\ op.ready
  /\ Goto("register")
  /\ UNCHANGED <<restate, object, cluster, caches, usage, sweep, status, faults>>

\* Old versions may be holding the capacity this one waits for: sweep first.
ValidateNotReady ==
  /\ At("validate")
  /\ rc = "unready" \/ (rc = "ready" /\ ~op.ready)
  /\ op' = [op EXCEPT !.pc = "sweep", !.outcome = "NotReady"]
  /\ UNCHANGED <<restate, object, cluster, caches, usage, sweep, status, faults>>

\* Restate discovers a new or forced endpoint by calling its pods.
EndpointKnown == registered \cap IdsOf(Target) # {}

\* Wrong: discovery asks nobody.
ReachableAlways == TRUE

Reachable == Target \in ready \/ (EndpointKnown /\ op.action # "Promote")

Register ==
  /\ Calls("register")
  /\ Reachable
  /\ \E id \in (IF EndpointKnown THEN registered \cap IdsOf(Target) ELSE FreshIds(Target)) :
       /\ RegisterEndpoint(Target, id, op.action = "Promote")
       /\ op' = [op EXCEPT !.reply = id, !.pc = IF id = op.id THEN "confirm" ELSE "record"]
  /\ UNCHANGED <<object, cluster, caches, usage, sweep, status, faults>>

DiscoveryFails ==
  /\ Calls("register")
  /\ ~Reachable
  /\ EndPass("Failed")
  /\ UNCHANGED <<restate, object, cluster, caches, faults>>

\* Annotate the ReplicaSet with the id (the Service's copy is never read).
RecordId ==
  /\ At("record")
  /\ rs' = [rs EXCEPT ![Target].id = op.reply]
  /\ Goto("confirm")
  /\ UNCHANGED <<restate, object, ready, hpa, caches, usage, sweep, status, faults>>

Confirmed == \A s \in Serves[Target] : route[s] = op.reply

\* The version this one superseded stays latest in the answer for one pass.
ConfirmLatest ==
  /\ Calls("confirm")
  /\ Confirmed
  /\ usage' = [known  |-> usage.known \cup {op.reply},
               latest |-> usage.latest \cup {op.reply},
               busy   |-> usage.busy \ {op.reply}]
  /\ Goto("sweep")
  /\ UNCHANGED <<restate, object, cluster, caches, sweep, status, faults>>

ReportNotLatest ==
  /\ Calls("confirm")
  /\ ~Confirmed
  /\ EndPass("NotLatest")
  /\ UNCHANGED <<restate, object, cluster, caches, faults>>

FinishApply ==
  /\ At("item")
  /\ sweep.todo = {}
  /\ op.mode = "Rollout"
  /\ EndPass(op.outcome)
  /\ UNCHANGED <<restate, object, cluster, caches, faults>>

-----------------------------------------------------------------------------
(* The walk over old ReplicaSets, shared by rollouts and deletions.        *)

\* Wrong: the current version is walked over as an old one.
SweepEverything ==
  /\ At("sweep")
  /\ sweep' = [NoSweep EXCEPT !.view = cache, !.todo = {v \in Versions : cache[v].exists}]
  /\ Goto("item")
  /\ UNCHANGED <<restate, object, cluster, caches, usage, status, faults>>

StartSweep ==
  /\ At("sweep")
  /\ LET old == {v \in Versions : cache[v].exists /\ (IsDeleting(op.mode) \/ v # Target)}
     IN  sweep' = [NoSweep EXCEPT
                     !.view = [v \in Versions |-> IF v \in old THEN cache[v] ELSE Absent],
                     !.todo = old]
  /\ Goto("item")
  /\ UNCHANGED <<restate, object, cluster, caches, usage, status, faults>>

\* Wrong: oldest first.
IsNextOldest(v) ==
  /\ At("item")
  /\ v \in sweep.todo
  /\ \A w \in sweep.todo : sweep.view[w].created >= sweep.view[v].created

\* Newest first.
IsNext(v) ==
  /\ At("item")
  /\ v \in sweep.todo
  /\ \A w \in sweep.todo : sweep.view[w].created <= sweep.view[v].created

Seen(v) == sweep.view[v]

KnownToRestate(v) == Seen(v).id \in usage.known

Active(v) == KnownToRestate(v) /\ IsActive(op.mode, Seen(v).id, usage)

\* Wrong: having a deadline counts as having passed it.
DueWhenScheduled(v) == Seen(v).removeAt # Never \/ SkipsDrainDelay(op.mode)

Due(v) == Seen(v).removeAt = 0 \/ SkipsDrainDelay(op.mode)

\* Restate needs the version: keep it, and settle its autoscaler.
KeepActive(v) ==
  /\ IsNext(v)
  /\ Active(v)
  /\ LET plan    == PlanActiveVersionHpa(op.self.autoscaling, IsDeleting(op.mode))
         restore == plan = "RemoveAndRestore" /\ v \in hpaCache
     IN  /\ \/ plan = "Ensure" /\ hpa' \in {hpa, hpa \cup {v}}  \* a failed apply is tolerated
            \/ plan # "Ensure" /\ hpa' = IF restore THEN HpasWithout(v) ELSE hpa
         /\ restore => rs[v].exists
         /\ rs' = IF restore THEN [rs EXCEPT ![v].up = TRUE] ELSE rs
  /\ LET scheduled == Seen(v).removeAt # Never
     IN  /\ sweep' = [sweep EXCEPT !.todo = @ \ {v}, !.blocked = TRUE,
                                   !.at = IF scheduled THEN v ELSE NoVersion]
         /\ Goto(IF scheduled THEN "keep" ELSE "item")
  /\ UNCHANGED <<restate, object, ready, caches, usage, status, faults>>

UnscheduleActive ==
  /\ At("keep")
  /\ rs[sweep.at].exists
  /\ rs' = [rs EXCEPT ![sweep.at].removeAt = Never]
  /\ sweep' = [sweep EXCEPT !.at = NoVersion]
  /\ Goto("item")
  /\ UNCHANGED <<restate, object, ready, hpa, caches, usage, status, faults>>

ScheduleRemoval(v) ==
  /\ IsNext(v)
  /\ ~Active(v) /\ KnownToRestate(v) /\ ~Due(v)
  /\ Seen(v).removeAt = Never
  /\ rs[v].exists
  /\ rs' = [rs EXCEPT ![v].removeAt = DrainDelay]
  /\ sweep' = [sweep EXCEPT !.todo = @ \ {v}, !.pending = TRUE]
  /\ UNCHANGED <<restate, object, ready, hpa, caches, op, usage, status, faults>>

AwaitRemoval(v) ==
  /\ IsNext(v)
  /\ ~Active(v) /\ KnownToRestate(v) /\ ~Due(v)
  /\ Seen(v).removeAt # Never
  /\ sweep' = [sweep EXCEPT !.todo = @ \ {v}, !.pending = TRUE]
  /\ UNCHANGED <<restate, object, cluster, caches, op, usage, status, faults>>

\* Due, or unknown to Restate: scale it to zero, and keep it for a rollback
\* while the history has room.
StopVersion(v) ==
  /\ IsNext(v)
  /\ ~Active(v)
  /\ Due(v) \/ ~KnownToRestate(v)
  /\ hpa' = HpasWithout(v)
  /\ Seen(v).up => rs[v].exists
  /\ rs' = IF Seen(v).up THEN [rs EXCEPT ![v].up = FALSE] ELSE rs
  /\ LET retain == RetainForRollback(op.mode, sweep.historic, HistoryLimit)
     IN  /\ sweep' = [sweep EXCEPT !.todo = @ \ {v},
                                   !.at = IF retain THEN NoVersion ELSE v,
                                   !.historic = IF retain THEN @ + 1 ELSE @]
         /\ Goto(IF retain THEN "item"
                 ELSE IF KnownToRestate(v) THEN "deregister" ELSE "delete")
  /\ UNCHANGED <<restate, object, ready, caches, usage, status, faults>>

\* A 404 means it is gone already.
Deregister ==
  /\ Calls("deregister")
  /\ DeleteDeployment(Seen(sweep.at).id)
  /\ Goto("delete")
  /\ UNCHANGED <<object, cluster, caches, usage, sweep, status, faults>>

DeleteReplicaSet ==
  /\ At("delete")
  /\ rs[sweep.at].exists
  /\ rs' = [rs EXCEPT ![sweep.at] = Absent]
  /\ ready' = ready \ {sweep.at}
  /\ sweep' = [sweep EXCEPT !.at = NoVersion]
  /\ Goto("item")
  /\ UNCHANGED <<restate, object, hpa, caches, usage, status, faults>>

\* A stale cache listed a ReplicaSet that is gone: the write to it fails.
PatchMissing ==
  /\ \/ \E v \in Versions :
          /\ IsNext(v)
          /\ ~rs[v].exists
          /\ \/ ~Active(v) /\ KnownToRestate(v) /\ ~Due(v) /\ Seen(v).removeAt = Never
             \/ ~Active(v) /\ (Due(v) \/ ~KnownToRestate(v)) /\ Seen(v).up
     \/ (At("keep") \/ At("delete")) /\ ~rs[sweep.at].exists
  /\ EndPass(FailureReason)
  /\ UNCHANGED <<restate, object, cluster, caches, faults>>

-----------------------------------------------------------------------------
(* A pass over a deleted object: the finalizer's cleanup.                  *)

StartCleanup ==
  /\ At("idle")
  /\ phase = "deleting"
  /\ LagBetweenPasses \/ CaughtUp
  /\ op' = [Idle EXCEPT !.pc = "getCluster", !.self = spec, !.mode = "Deleting"]
  /\ UNCHANGED <<restate, object, cluster, caches, usage, sweep, status, faults>>

\* Nothing left to deregister from.
ClusterDeleted ==
  /\ At("getCluster")
  /\ rc = "absent"
  /\ Goto("release")
  /\ UNCHANGED <<restate, object, cluster, caches, usage, sweep, status, faults>>

ClusterFound ==
  /\ At("getCluster")
  /\ rc # "absent"
  /\ op' = [op EXCEPT !.pc = "drainQuery", !.mode = CurrentMode(op.self)]
  /\ UNCHANGED <<restate, object, cluster, caches, usage, sweep, status, faults>>

\* The deadline may pass while the query runs, so the mode is taken again after.
QueryForCleanup ==
  /\ Calls("drainQuery")
  /\ usage' = UsageAnswer(op.mode)
  /\ op' = [op EXCEPT !.pc = "sweep", !.mode = CurrentMode(op.self)]
  /\ UNCHANGED <<restate, object, cluster, caches, sweep, status, faults>>

\* Versions in use or waiting out the drain delay: report and try again later.
AwaitDrain ==
  /\ At("item")
  /\ sweep.todo = {}
  /\ IsDeleting(op.mode)
  /\ sweep.blocked \/ sweep.pending
  /\ EndPass("None")
  /\ UNCHANGED <<restate, object, cluster, caches, faults>>

FinishCleanup ==
  /\ At("item")
  /\ sweep.todo = {}
  /\ IsDeleting(op.mode)
  /\ ~sweep.blocked /\ ~sweep.pending
  /\ Goto("release")
  /\ UNCHANGED <<restate, object, cluster, caches, usage, sweep, status, faults>>

ReleaseFinalizer ==
  /\ At("release")
  /\ phase' = "gone"
  /\ EndPass("None")
  /\ UNCHANGED <<restate, spec, drainLeft, rc, cluster, caches, faults>>

-----------------------------------------------------------------------------
(* What goes wrong.                                                        *)

AdminUnreachable ==
  /\ op.pc \in AdminSteps
  /\ rc = "absent"
  /\ EndPass(FailureReason)
  /\ UNCHANGED <<restate, object, cluster, caches, faults>>

\* The window between a registration and the annotation that records it.
MayStop == At("record") => LoseRegistrations

\* The next call of the pass fails, with or without the status being written.
PassFails ==
  /\ ~At("idle")
  /\ MayStop
  /\ faults < MaxFaults
  /\ faults' = faults + 1
  /\ \E reason \in {"None", FailureReason} : EndPass(reason)
  /\ UNCHANGED <<restate, object, cluster, caches>>

\* The new process lists the ReplicaSets before it reconciles; not the HPAs.
OperatorRestarts ==
  /\ MayStop
  /\ faults < MaxFaults
  /\ faults' = faults + 1
  /\ EndPass("None")
  /\ cache' = rs
  /\ hpaCache' = {}
  /\ hpaListed' = (hpa = {})
  /\ UNCHANGED <<restate, object, cluster>>

-----------------------------------------------------------------------------
(* The user, Kubernetes, time, and the rest of Restate's users.            *)

Pass == <<caches, op, usage, sweep, status, faults>>

EditSpec ==
  /\ phase # "gone"
  /\ spec.gen < MaxGenerations
  /\ \E new \in [gen : {spec.gen + 1}, template : Versions,
                 policy : PolicyChoices, autoscaling : AutoscalingChoices] :
       /\ [new EXCEPT !.gen = spec.gen] # spec
       /\ phase = "deleting" => new.template = spec.template
       /\ spec' = new
  /\ UNCHANGED <<restate, phase, drainLeft, rc, cluster, Pass>>

DeleteObject ==
  /\ MayDelete
  /\ phase = "live"
  /\ phase' = "deleting"
  /\ UNCHANGED <<restate, spec, drainLeft, rc, cluster, Pass>>

\* A deleted cluster takes its Restate with it.  Leaving "ready" is the fault.
ClusterChanges ==
  /\ rc = "ready" => faults < MaxFaults
  /\ faults' = IF rc = "ready" THEN faults + 1 ELSE faults
  /\ \E state \in ClusterStates \ {rc} : rc' = state
  /\ IF rc' = "absent" THEN RestateWiped ELSE UNCHANGED restate
  /\ UNCHANGED <<spec, phase, drainLeft, cluster, caches, op, usage, sweep, status>>

\* The owner reference is dangling once the object is gone.
CollectGarbage ==
  /\ phase = "gone"
  /\ \E v \in Versions : rs[v].exists
  /\ rs' = [v \in Versions |-> Absent]
  /\ ready' = {}
  /\ hpa' = {}
  /\ UNCHANGED <<restate, object, Pass>>

PodsBecomeReady(v) ==
  /\ rs[v].up
  /\ v \notin ready
  /\ ready' = ready \cup {v}
  /\ UNCHANGED <<restate, object, rs, hpa, Pass>>

PodsStop(v) ==
  /\ v \in ready
  /\ ~rs[v].up \/ FlakyPods
  /\ ready' = ready \ {v}
  /\ UNCHANGED <<restate, object, rs, hpa, Pass>>

Sync ==
  /\ cache # rs
  /\ cache' = rs
  /\ UNCHANGED <<restate, object, cluster, hpaCache, hpaListed>>
  /\ UNCHANGED <<op, usage, sweep, status, faults>>

SyncHpa ==
  /\ hpaCache # hpa \/ ~hpaListed
  /\ hpaCache' = hpa
  /\ hpaListed' = TRUE
  /\ UNCHANGED <<restate, object, cluster, cache, op, usage, sweep, status, faults>>

\* Wrong: a deadline goes on counting once it has passed.
AgedForGood(r) == [r EXCEPT !.removeAt = @ - 1]

\* Deadlines are kept as the ticks left until them.
Aged(r) == [r EXCEPT !.removeAt = IF @ > 0 THEN @ - 1 ELSE @]

TickingDrain == phase = "deleting" /\ drainLeft > 0

Tick ==
  /\ \/ TickingDrain
     \/ \E v \in Versions : rs[v].removeAt > 0 \/ cache[v].removeAt > 0
  /\ rs' = [v \in Versions |-> Aged(rs[v])]
  /\ cache' = [v \in Versions |-> Aged(cache[v])]
  /\ drainLeft' = IF TickingDrain THEN drainLeft - 1 ELSE drainLeft
  /\ UNCHANGED <<restate, spec, phase, rc, ready, hpa, hpaCache, hpaListed>>
  /\ UNCHANGED <<op, usage, sweep, status, faults>>

Invocations ==
  /\ \/ \E s \in Services : Invoke(s) \/ Pin(s) \/ Unqueue(s)
     \/ \E id \in Ids : Complete(id)
     \/ ForeignUsers /\ rc # "absent" /\ \E s \in Services : ForeignRegister(s)
     \/ ForeignUsers /\ \E id \in Ids : OutOfBandDelete(id)
  /\ UNCHANGED <<object, cluster, Pass>>

-----------------------------------------------------------------------------
ApplyStep ==
  \/ StartApply \/ CreateReplicaSet \/ AdoptReplicaSet \/ UnscheduleAdopted
  \/ PublishVersion \/ RoutingUnchanged \/ RoutingChanged
  \/ QueryUsage \/ ReportConflict
  \/ ClusterNotFound \/ ValidateReady \/ ValidateNotReady
  \/ Register \/ DiscoveryFails \/ RecordId \/ ConfirmLatest \/ ReportNotLatest
  \/ FinishApply

SweepStep ==
  \/ StartSweep
  \/ \E v \in Versions : \/ KeepActive(v) \/ ScheduleRemoval(v)
                         \/ AwaitRemoval(v) \/ StopVersion(v)
  \/ UnscheduleActive \/ Deregister \/ DeleteReplicaSet \/ PatchMissing

CleanupStep ==
  \/ StartCleanup \/ ClusterDeleted \/ ClusterFound \/ QueryForCleanup
  \/ AwaitDrain \/ FinishCleanup \/ ReleaseFinalizer

Operator == ApplyStep \/ SweepStep \/ CleanupStep

Environment ==
  \/ EditSpec \/ DeleteObject \/ ClusterChanges \/ CollectGarbage
  \/ \E v \in Versions : PodsBecomeReady(v) \/ PodsStop(v)
  \/ Sync \/ SyncHpa \/ Invocations

Failure == AdminUnreachable \/ PassFails \/ OperatorRestarts

\* Everything but the passage of time.
Move == Operator \/ Failure \/ Environment

Next == Move \/ Tick

Spec == Init /\ [][Next]_vars

\* The controller requeues after every outcome, the caches follow their watches,
\* pods start, clocks run, and started invocations end.  Clients owe nothing.
Fairness ==
  /\ WF_vars(Operator) /\ WF_vars(AdminUnreachable)
  /\ WF_vars(Sync) /\ WF_vars(SyncHpa) /\ WF_vars(Tick)
  /\ \A v \in Versions : WF_vars(PodsBecomeReady(v))
  /\ \A id \in Ids : WF_vars(Complete(id) /\ UNCHANGED <<object, cluster, Pass>>)

FairSpec == Spec /\ Fairness

-----------------------------------------------------------------------------
(* Safety.                                                                 *)

\* A rollout never scales down a version that Restate, under the id recorded for
\* it, still routes to or still runs invocations on (cleanup_old_replicasets).
RecordedServingUp ==
  phase = "live" =>
    \A v \in Versions :
      rs[v].id \in registered /\ Needed(rs[v].id) => rs[v].up

\* Ready=True for the current generation means new work lands on the version the
\* spec asks for and on no other version of the object; that pods are up is not
\* enough (reconcile, confirm_latest).
ReadyMeansRouted ==
  phase = "live" /\ status = [reason |-> "Deployed", gen |-> spec.gen] =>
    \A s \in Serves[spec.template] :
      route[s] \in Ids => VersionOf(route[s]) = spec.template

\* ForeignDeployment is reported only when something outside the object holds one
\* of the services (RegistrationAction::Conflict).
ConflictMeansForeign ==
  [][ReportConflict => \E s \in Services : route[s] = Foreign]_vars

\* Having reported that somebody else holds a service, the controller leaves it to
\* them until the object changes or its own registration disappears: no promotion
\* war (RegistrationAction::Conflict).
YieldsToForeign ==
  [][status = [reason |-> "ForeignDeployment", gen |-> spec.gen]
     /\ rs[spec.template].id \in registered =>
       \A s \in Services : route[s] = Foreign => route'[s] = Foreign]_vars

Swept == At("item") /\ sweep.todo = {} /\ op.mode = "Rollout"

Retained == {v \in Versions \ {Target} : rs[v].exists /\ ~rs[v].up}

\* A finished sweep leaves at most revisionHistoryLimit versions scaled to zero.
HistoryBounded == Swept => Cardinality(Retained) <= HistoryLimit

\* A rollout deletes a version only when the history is full of versions created
\* after it, so a rollback finds the newest ones (the sort, retain_for_rollback).
RetainsNewest ==
  [][op.mode = "Rollout" /\ At("delete") =>
       \A v \in Versions :
         rs[v].exists /\ ~rs'[v].exists =>
           Cardinality({w \in Retained : rs[w].created > rs[v].created}) >= HistoryLimit]_vars

\* Once the finalizer lets the object go Restate holds no endpoint of it: "ensure
\* nothing is orphaned" (cleanup, controller.rs:1395).
NothingOrphaned == phase = "gone" => registered = {}

\* The operator's call deletes a deployment with unfinished invocations.
Abandons(id) == Deregister /\ id = Seen(sweep.at).id /\ pinned[id] > 0

\* A drain never abandons work on a version that takes no new invocations: what is
\* pinned to it was there when Restate was asked (CleanupMode::Deleting).
DrainFinishesOldWork ==
  [][op.mode = "Deleting" => \A id \in Ids \ LatestIds : ~Abandons(id)]_vars

\* Nor on any other version: versions "torn down while invocations were still in
\* flight. Only a force deletion produces these" (CleanupOutcome::abandoned).
OnlyForceAbandons ==
  [][op.mode # "ForceDeleting" => \A id \in Ids : ~Abandons(id)]_vars

\* A version kept for rollback or waiting to go has no autoscaler to scale it up
\* again: "Inactive versions always have their HPA removed before scale-down"
\* (reconcilers/autoscaling.rs:17-18).
StoppedHasNoHpa ==
  phase = "live" => \A v \in hpa : rs[v].up

\* The controller keeps the contract of RolloutContract.
Promise == INSTANCE RolloutContract WITH
             up        <- {v \in Versions : rs[v].up},
             answering <- ready,
             inUse     <- phase = "live"

KeepsContract == Promise!Contract

-----------------------------------------------------------------------------
(* Liveness.                                                               *)

ClusterStays == <>[](rc = "ready")

\* Once the user stops editing and the cluster stays up, the object ends up Ready
\* for its generation with its services routed to its template, for good; also
\* after Restate lost its registrations.
Converges ==
  ClusterStays =>
    <>[](phase = "live" =>
           /\ status = [reason |-> "Deployed", gen |-> spec.gen]
           /\ \A s \in Serves[spec.template] : route[s] = rs[spec.template].id)

\* Versions the object has moved on from are scaled to zero in the end.
OldVersionsRetire ==
  ClusterStays =>
    <>[](phase = "live" => \A v \in Versions \ {spec.template} : ~rs[v].up)

Quiet == (\A id \in Ids : pinned[id] = 0) /\ (\A s \in Services : unpinned[s] = 0)

\* While its cluster stays up, or stays away, a deletion cannot be stuck for good,
\* unless it drains with onTimeout: hold and there is work for it to hold for.
DeletionEnds ==
  ClusterStays \/ <>[](rc = "absent") =>
    ~<>[](phase = "deleting" /\ (spec.policy # "drainHold" \/ Quiet))

\* With autoscaling switched off no version keeps an autoscaler, and the current
\* version loses the one it had while it was an old one.
AutoscalersSettle ==
  ClusterStays =>
    <>[](phase = "live" => /\ spec.template \notin hpa
                           /\ ~spec.autoscaling => hpa = {})

\* Killed and restarted, the operator ends up "with no duplicate or orphaned HPAs"
\* (docs/per-version-autoscaling.md:297-299).
NoOrphanedHpas ==
  <>[](phase = "live" => \A v \in hpa : rs[v].exists)
=============================================================================
