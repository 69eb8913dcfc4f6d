-------------------------- MODULE KnativeDeployment --------------------------
(***************************************************************************)
(* The RestateDeployment controller in Knative mode: one object, the       *)
(* Configuration and Route of each of its tags, and Restate.               *)
(*                                                                         *)
(* A version is a tag: one the user gave, or the hash of the pod template  *)
(* and the collision count.  A user's tag is updated in place, with a new  *)
(* revision behind the same Route and the same Restate deployment; a       *)
(* hashed tag stands for one template.  The object is registered by URL,   *)
(* so no RestateCluster takes part.                                        *)
(*                                                                         *)
(* As in RestateDeployment, an action is one awaited call with the code    *)
(* that follows it.  The sweep reads the Configurations from a watch cache *)
(* and a Revision is ready once its cache shows it; both stay empty in a   *)
(* process that did not see Knative when it started (watched).             *)
(***************************************************************************)
EXTENDS RestateAdmin, CleanupPolicy

CONSTANTS
  Templates,       \* pod templates the user may ask for
  UserTags,        \* versions that are tags the user may give
  Hash,            \* Hash[n][t]: the tag generated for t at collision count n
  MaxCollisions,   \* bound: the collision count
  Choices,         \* what the user may ask for: template, tag, history limit
  DrainDelay,      \* spec.restate.drainDelaySeconds, in clock ticks
  Policy,          \* the delete policy; drains have no deadline here
  NoVersion,       \* no version
  SlowCollection,  \* a deleted Configuration lingers until its Route is gone
  LagBetweenPasses,\* a pass may begin before the cache has caught up
  MaxGenerations,  \* bound: spec changes
  FailingSteps     \* bound: the calls of a pass that may fail

NoTag == "auto"  \* spec.knative.tag is not set
Never == -1      \* no removal deadline
NotReady == -1   \* Ready is not true for any generation

Steps == {"idle", "unschedule", "route", "query", "register", "record", "confirm",
          "item", "delete", "drainQuery"}

ASSUME KnativeAssumption ==
  /\ Templates # {} /\ 0 \in Incarnations
  /\ UserTags \subseteq Versions /\ NoTag \notin UserTags
  /\ Hash \in [0 .. MaxCollisions -> [Templates -> Versions \ UserTags]]
  /\ MaxCollisions \in Nat
  /\ Choices \subseteq [template : Templates, tag : UserTags \cup {NoTag}, limit : Nat]
  /\ DrainDelay \in Nat
  /\ Policy \in {"force", "drainHold"}
  /\ NoVersion \notin Versions
  /\ {SlowCollection, LagBetweenPasses} \subseteq BOOLEAN
  /\ MaxGenerations \in Nat
  /\ FailingSteps \subseteq Steps \ {"idle"}

VARIABLES
  spec,      \* the object's spec and generation
  phase,     \* "none", "live", "deleting", "gone"
  collisions,\* status.collisionCount
  cfg,       \* the Configuration of every tag with its Route, in the API server
  cache,     \* the operator's cache of the Configurations
  op,        \* the pass: position and answers
  usage,     \* the pass: Restate's answer to the usage query
  sweep,     \* the pass: the walk over the other Configurations
  readyFor,  \* the generation the Ready condition is true for, or NotReady
  strays     \* history: ids registered for a Configuration that was being deleted

object == <<spec, phase, collisions>>
pass == <<op, usage, sweep>>
knative == <<restate, object, cfg, cache, pass, readyFor, strays>>

\* How far Knative has rolled out the template of a Configuration.
Rollouts == {"applied", "serving", "routed"}

Configurations ==
  [exists : BOOLEAN, template : Templates, id : Ids \cup {NoId},
   removeAt : {Never} \cup 0 .. DrainDelay, created : 0 .. MaxGenerations,
   dying : BOOLEAN, route : BOOLEAN, rollout : Rollouts]

SomeTemplate == CHOOSE t \in Templates : TRUE

Absent == [exists |-> FALSE, template |-> SomeTemplate, id |-> NoId, removeAt |-> Never,
           created |-> 0, dying |-> FALSE, route |-> FALSE, rollout |-> "applied"]

NoUsage == [known |-> {}, latest |-> {}, busy |-> {}]

NoSweep == [view |-> [v \in Versions |-> Absent], todo |-> {}, at |-> NoVersion,
            historic |-> 0, held |-> FALSE]

NoSpec == [gen |-> 0, template |-> SomeTemplate, tag |-> NoTag, limit |-> 0]

Idle == [pc |-> "idle", self |-> NoSpec, tag |-> NoVersion, mode |-> "Rollout",
         id |-> NoId, current |-> FALSE, action |-> "None"]

AsSpec(choice, gen) ==
  [gen |-> gen, template |-> choice.template, tag |-> choice.tag, limit |-> choice.limit]

Specs == {AsSpec(choice, gen) : choice \in Choices, gen \in 0 .. MaxGenerations} \cup {NoSpec}

KnativeTypeOK ==
  /\ RestateTypeOK
  /\ spec \in Specs
  /\ phase \in {"none", "live", "deleting", "gone"}
  /\ collisions \in 0 .. MaxCollisions
  /\ cfg \in [Versions -> Configurations]
  /\ cache \in [Versions -> Configurations]
  /\ op \in [pc : Steps, self : Specs, tag : Versions \cup {NoVersion}, mode : Modes,
             id : Ids \cup {NoId}, current : BOOLEAN, action : Actions]
  /\ usage \in [known : SUBSET Ids, latest : SUBSET Ids, busy : SUBSET Ids]
  /\ sweep \in [view : [Versions -> Configurations], todo : SUBSET Versions,
                at : Versions \cup {NoVersion}, historic : Nat, held : BOOLEAN]
  /\ readyFor \in {NotReady} \cup 0 .. MaxGenerations
  /\ strays \subseteq Ids

TagFor(choice, count) ==
  IF choice.tag = NoTag THEN Hash[count][choice.template] ELSE choice.tag

\* Before the object is created.
NoObjectYet ==
  /\ RestateInit
  /\ phase = "none"
  /\ spec = NoSpec
  /\ cfg = [v \in Versions |-> Absent]
  /\ readyFor = NotReady

\* The object was rolled out from one tag to another, which the sweep has not seen.
RolledOut(now, before) ==
  LET at(choice) == [Absent EXCEPT !.exists = TRUE, !.template = choice.template,
                                   !.id = <<TagFor(choice, 0), 0>>,
                                   !.route = TRUE, !.rollout = "routed"]
      new == TagFor(now, 0)
      old == TagFor(before, 0)
  IN  /\ new # old
      /\ phase = "live"
      /\ spec = AsSpec(now, 0)
      /\ cfg = [v \in Versions |-> CASE v = new -> at(now)
                                       [] v = old -> at(before)
                                       [] OTHER   -> Absent]
      /\ registered = {<<new, 0>>, <<old, 0>>}
      /\ route = [s \in Services |-> IF s \in Serves[new] THEN <<new, 0>>
                                     ELSE IF s \in Serves[old] THEN <<old, 0>> ELSE NoId]
      /\ pinned = [id \in Ids |-> 0] /\ unpinned = [s \in Services |-> 0]
      /\ readyFor = 0

KnativeInit ==
  /\ \/ NoObjectYet
     \/ \E now, before \in Choices :
          /\ now.template = SomeTemplate /\ before.template # SomeTemplate
          /\ RolledOut(now, before)
  /\ collisions = 0
  /\ cache = [v \in Versions |-> Absent]
  /\ op = Idle /\ usage = NoUsage /\ sweep = NoSweep
  /\ strays = {}

-----------------------------------------------------------------------------
(* The parts of a pass.                                                    *)

At(step) == op.pc = step

Goto(step) == op' = [op EXCEPT !.pc = step]

\* The pass is over.  Every reason but "Deployed" makes Ready false or unknown, and
\* reason "None" leaves it as it was.
EndPass(reason) ==
  /\ op' = Idle /\ usage' = NoUsage /\ sweep' = NoSweep
  /\ readyFor' = CASE reason = "Deployed" -> op.self.gen
                   [] reason = "None"     -> readyFor
                   [] OTHER               -> NotReady

FailureReason == IF IsDeleting(op.mode) THEN "None" ELSE "Failed"

UsageAnswer(mode) ==
  [known  |-> registered,
   latest |-> LatestIds,
   busy   |-> {id \in registered :
                 pinned[id] > 0 \/ (NeedsUnpinnedCount(mode) /\ UnpinnedAt(id))}]

CachedTags == {v \in Versions : cache[v].exists}

OwnedIds == {cache[v].id : v \in CachedTags} \ {NoId}

DetermineTag(self) == TagFor(self, collisions)

\* Wrong: the hash is taken to name one template.
CollidesNever(self, v) == FALSE

\* A hashed tag whose Configuration holds another template.
Collides(self, v) ==
  self.tag = NoTag /\ cache[v].exists /\ cache[v].template # self.template

\* The watches have delivered what the passes so far wrote.
Records(c) == [v \in Versions |-> [c[v] EXCEPT !.rollout = "applied", !.route = FALSE]]

CaughtUp == Records(cache) = Records(cfg)

Unused(v) == IdsOf(v) \ (registered \cup {cfg[v].id, cache[v].id, sweep.view[v].id, op.id})

FreshIds(v) == {id \in Unused(v) : \A other \in Unused(v) : id[2] <= other[2]}

-----------------------------------------------------------------------------
(* A pass over a live object.                                              *)

Begins(watched) == At("idle") /\ (LagBetweenPasses \/ (watched => CaughtUp))

\* Retry at once under the next count.
ReportCollision(watched) ==
  /\ Begins(watched)
  /\ phase = "live"
  /\ Collides(spec, DetermineTag(spec))
  /\ collisions < MaxCollisions
  /\ collisions' = collisions + 1
  /\ readyFor' = NotReady
  /\ UNCHANGED <<restate, spec, phase, cfg, cache, pass, strays>>

\* Wrong: every pass makes a new revision.
AppliedAnew(v) ==
  [cfg[v] EXCEPT !.exists = TRUE, !.template = spec.template, !.rollout = "applied",
                 !.created = IF cfg[v].exists THEN @ ELSE spec.gen]

\* Server-side apply: a changed template makes a new revision; what other field
\* managers wrote (the id, the deadline) stays.
Applied(v) ==
  IF ~cfg[v].exists
  THEN [Absent EXCEPT !.exists = TRUE, !.template = spec.template, !.created = spec.gen]
  ELSE [cfg[v] EXCEPT !.template = spec.template,
                      !.rollout = IF cfg[v].template = spec.template THEN @ ELSE "applied"]

ApplyConfiguration(watched) ==
  /\ Begins(watched)
  /\ phase = "live"
  /\ LET v == DetermineTag(spec)
         config == Applied(v)
     IN  /\ ~Collides(spec, v)
         /\ cfg' = [cfg EXCEPT ![v] = config]
         /\ op' = [Idle EXCEPT !.self = spec, !.tag = v, !.id = config.id,
                               !.current = config.rollout # "applied",
                               !.pc = IF config.removeAt = Never THEN "route" ELSE "unschedule"]
  /\ UNCHANGED <<restate, object, cache, usage, sweep, readyFor, strays>>

\* Wrong: a tag taken up again keeps its deadline.
KeepDeadline ==
  /\ At("unschedule")
  /\ Goto("route")
  /\ UNCHANGED <<restate, object, cfg, cache, usage, sweep, readyFor, strays>>

UnscheduleAdopted ==
  /\ At("unschedule")
  /\ cfg[op.tag].exists
  /\ cfg' = [cfg EXCEPT ![op.tag].removeAt = Never]
  /\ Goto("route")
  /\ UNCHANGED <<restate, object, cache, usage, sweep, readyFor, strays>>

\* Wrong: where the Route points is not looked at.
WithoutRouteReason(watched) ==
  IF ~op.current \/ ~watched THEN "ConfigurationNotReady" ELSE "None"

\* The Configuration's answer is from before; its Revision must be in the cache,
\* where it shows up late, but never again as it was; the Route's answer is new.
NotReadyReason(watched) ==
  IF ~op.current \/ ~watched THEN "ConfigurationNotReady"
  ELSE IF ~cfg[op.tag].route \/ cfg[op.tag].rollout # "routed" THEN "RouteNotReady"
  ELSE "None"

WithRoute(v) == IF cfg[v].exists THEN [cfg EXCEPT ![v].route = TRUE] ELSE cfg

ApplyRoute(watched) ==
  /\ At("route")
  /\ NotReadyReason(watched) = "None"
  /\ cfg' = WithRoute(op.tag)
  /\ Goto("query")
  /\ UNCHANGED <<restate, object, cache, usage, sweep, readyFor, strays>>

RolloutNotReady(watched) ==
  /\ At("route")
  /\ NotReadyReason(watched) # "None"
  /\ cfg' = WithRoute(op.tag)
  /\ EndPass(NotReadyReason(watched))
  /\ UNCHANGED <<restate, object, cache, strays>>

\* The Configurations the cache has, but for the tag in use and those already
\* being deleted.
Walk(active) ==
  LET old == {v \in CachedTags \ {active} : ~cache[v].dying}
  IN  [NoSweep EXCEPT !.view = [v \in Versions |-> IF v \in old THEN cache[v] ELSE Absent],
                      !.todo = old]

PlannedAction == PlanRegistration(op.id, UsageAnswer("Rollout"), OwnedIds)

QueryUsage ==
  /\ At("query")
  /\ PlannedAction # "Conflict"
  /\ usage' = UsageAnswer("Rollout")
  /\ IF PlannedAction = "AlreadyLatest"
     THEN Goto("item") /\ sweep' = Walk(op.tag)
     ELSE /\ op' = [op EXCEPT !.pc = "register", !.action = PlannedAction]
          /\ UNCHANGED sweep
  /\ UNCHANGED <<restate, object, cfg, cache, readyFor, strays>>

ReportConflict ==
  /\ At("query")
  /\ PlannedAction = "Conflict"
  /\ EndPass("ForeignDeployment")
  /\ UNCHANGED <<restate, object, cfg, cache, strays>>

EndpointKnown == registered \cap IdsOf(op.tag) # {}

\* Discovery calls the Route, which wakes a revision scaled to zero.
Reachable == cfg[op.tag].route \/ (EndpointKnown /\ op.action # "Promote")

Register ==
  /\ At("register")
  /\ Reachable
  /\ \E id \in (IF EndpointKnown THEN registered \cap IdsOf(op.tag) ELSE FreshIds(op.tag)) :
       /\ RegisterEndpoint(op.tag, id, op.action = "Promote")
       /\ strays' = IF cfg[op.tag].exists /\ ~cfg[op.tag].dying THEN strays ELSE strays \cup {id}
       /\ op' = [op EXCEPT !.id = id, !.action = "None",
                           !.pc = IF id = op.id THEN "confirm" ELSE "record"]
  /\ UNCHANGED <<object, cfg, cache, usage, sweep, readyFor>>

DiscoveryFails ==
  /\ At("register")
  /\ ~Reachable
  /\ EndPass("Failed")
  /\ UNCHANGED <<restate, object, cfg, cache, strays>>

RecordId ==
  /\ At("record")
  /\ cfg[op.tag].exists
  /\ cfg' = [cfg EXCEPT ![op.tag].id = op.id]
  /\ Goto("confirm")
  /\ UNCHANGED <<restate, object, cache, usage, sweep, readyFor, strays>>

Confirmed == \A s \in Serves[op.tag] : route[s] = op.id

\* The sweep goes on with the answer the query gave before the registration.
ConfirmLatest ==
  /\ At("confirm")
  /\ Confirmed
  /\ Goto("item")
  /\ sweep' = Walk(op.tag)
  /\ UNCHANGED <<restate, object, cfg, cache, usage, readyFor, strays>>

ReportNotLatest ==
  /\ At("confirm")
  /\ ~Confirmed
  /\ EndPass("NotLatest")
  /\ UNCHANGED <<restate, object, cfg, cache, strays>>

FinishPass ==
  /\ At("item")
  /\ sweep.todo = {}
  /\ op.mode = "Rollout"
  /\ EndPass("Deployed")
  /\ UNCHANGED <<restate, object, cfg, cache, strays>>

-----------------------------------------------------------------------------
(* The walk over the Configurations of other tags.                         *)

\* Newest first.
IsNext(v) ==
  /\ At("item")
  /\ v \in sweep.todo
  /\ \A w \in sweep.todo : sweep.view[w].created <= sweep.view[v].created

Seen(v) == sweep.view[v]

KnownToRestate(v) == Seen(v).id \in usage.known

Active(v) == KnownToRestate(v) /\ IsActive(op.mode, Seen(v).id, usage)

Due(v) == Seen(v).removeAt = 0 \/ SkipsDrainDelay(op.mode)

Visited(v) == [sweep EXCEPT !.todo = @ \ {v}, !.view[v] = Absent]

Held(v) == [Visited(v) EXCEPT !.held = TRUE]

\* Restate needs the version: keep it, and reset its timer.
KeepActive(v) ==
  /\ IsNext(v)
  /\ Active(v)
  /\ Seen(v).removeAt # Never => cfg[v].exists
  /\ cfg' = IF Seen(v).removeAt # Never THEN [cfg EXCEPT ![v].removeAt = Never] ELSE cfg
  /\ sweep' = Held(v)
  /\ UNCHANGED <<restate, object, cache, op, usage, readyFor, strays>>

Drained(v) == IsNext(v) /\ ~Active(v) /\ KnownToRestate(v) /\ ~Due(v)

ScheduleRemoval(v) ==
  /\ Drained(v)
  /\ Seen(v).removeAt = Never
  /\ cfg[v].exists
  /\ cfg' = [cfg EXCEPT ![v].removeAt = DrainDelay]
  /\ sweep' = Held(v)
  /\ UNCHANGED <<restate, object, cache, op, usage, readyFor, strays>>

AwaitRemoval(v) ==
  /\ Drained(v)
  /\ Seen(v).removeAt # Never
  /\ sweep' = Held(v)
  /\ UNCHANGED <<restate, object, cfg, cache, op, usage, readyFor, strays>>

\* Due, or unknown to Restate.  Knative scales what nobody calls to zero itself.
Removable(v) == IsNext(v) /\ ~Active(v) /\ (Due(v) \/ ~KnownToRestate(v))

Retain(v) ==
  /\ Removable(v)
  /\ RetainForRollback(op.mode, sweep.historic, op.self.limit)
  /\ sweep' = [Visited(v) EXCEPT !.historic = @ + 1]
  /\ UNCHANGED <<restate, object, cfg, cache, op, usage, readyFor, strays>>

Expires(v) == Removable(v) /\ ~RetainForRollback(op.mode, sweep.historic, op.self.limit)

\* A 404 means it is gone already.
Deregister(v) ==
  /\ Expires(v)
  /\ KnownToRestate(v)
  /\ DeleteDeployment(Seen(v).id)
  /\ sweep' = [Visited(v) EXCEPT !.at = v]
  /\ Goto("delete")
  /\ UNCHANGED <<object, cfg, cache, usage, readyFor, strays>>

\* Foreground: the Configuration stays, dying, until its Route is gone.
Deleted(v) ==
  [cfg EXCEPT ![v] = IF SlowCollection THEN [@ EXCEPT !.dying = TRUE] ELSE Absent]

DeleteUnknown(v) ==
  /\ Expires(v)
  /\ ~KnownToRestate(v)
  /\ cfg[v].exists
  /\ cfg' = Deleted(v)
  /\ sweep' = Visited(v)
  /\ UNCHANGED <<restate, object, cache, op, usage, readyFor, strays>>

DeleteDeregistered ==
  /\ At("delete")
  /\ cfg[sweep.at].exists
  /\ cfg' = Deleted(sweep.at)
  /\ sweep' = [sweep EXCEPT !.at = NoVersion]
  /\ Goto("item")
  /\ UNCHANGED <<restate, object, cache, usage, readyFor, strays>>

\* A write to a Configuration that is gone by now.
WriteToMissing ==
  /\ \/ (At("unschedule") \/ At("record")) /\ ~cfg[op.tag].exists
     \/ At("delete") /\ ~cfg[sweep.at].exists
     \/ \E v \in Versions :
          /\ ~cfg[v].exists
          /\ \/ IsNext(v) /\ Active(v) /\ Seen(v).removeAt # Never
             \/ Drained(v) /\ Seen(v).removeAt = Never
             \/ Expires(v) /\ ~KnownToRestate(v)
  /\ EndPass(FailureReason)
  /\ UNCHANGED <<restate, object, cfg, cache, strays>>

-----------------------------------------------------------------------------
(* The finalizer's cleanup.                                                *)

StartCleanup(watched) ==
  /\ Begins(watched)
  /\ phase = "deleting"
  /\ op' = [Idle EXCEPT !.pc = "drainQuery", !.self = spec, !.mode = ModeFor(TRUE, Policy, FALSE)]
  /\ UNCHANGED <<restate, object, cfg, cache, usage, sweep, readyFor, strays>>

QueryForCleanup ==
  /\ At("drainQuery")
  /\ usage' = UsageAnswer(op.mode)
  /\ op' = [op EXCEPT !.pc = "item"]
  /\ sweep' = Walk(NoVersion)
  /\ UNCHANGED <<restate, object, cfg, cache, readyFor, strays>>

AwaitDrain ==
  /\ At("item")
  /\ sweep.todo = {}
  /\ IsDeleting(op.mode)
  /\ sweep.held
  /\ EndPass("None")
  /\ UNCHANGED <<restate, object, cfg, cache, strays>>

ReleaseFinalizer ==
  /\ At("item")
  /\ sweep.todo = {}
  /\ IsDeleting(op.mode)
  /\ ~sweep.held
  /\ phase' = "gone"
  /\ EndPass("None")
  /\ UNCHANGED <<restate, spec, collisions, cfg, cache, strays>>

-----------------------------------------------------------------------------
(* Failures, and the operator's end: what it held is lost.                 *)

PassFails ==
  /\ op.pc \in FailingSteps
  /\ EndPass(FailureReason)
  /\ UNCHANGED <<restate, object, cfg, cache, strays>>

ForgetPass == op' = Idle /\ usage' = NoUsage /\ sweep' = NoSweep

ForgetCache == cache' = [v \in Versions |-> Absent]

-----------------------------------------------------------------------------
(* The user, Knative, time and Restate.                                    *)

EditSpec ==
  /\ phase = "live"
  /\ spec.gen < MaxGenerations
  /\ \E choice \in Choices :
       /\ choice.template # spec.template
       /\ spec' = AsSpec(choice, spec.gen + 1)
  /\ UNCHANGED <<restate, phase, collisions, cfg, cache, pass, readyFor, strays>>

\* The condition is not followed further: nothing reads it.
DeleteObject ==
  /\ phase = "live"
  /\ phase' = "deleting"
  /\ readyFor' = NotReady
  /\ UNCHANGED <<restate, spec, collisions, cfg, cache, pass, strays>>

\* Knative makes a revision of a new template and gets it serving; then it points
\* the Route at it.
Progress(r, routeApplied) ==
  CASE r = "applied" -> {"serving"}
    [] r = "serving" /\ routeApplied -> {"routed"}
    [] OTHER -> {}

RollOut(v) ==
  /\ phase = "live"
  /\ cfg[v].exists /\ ~cfg[v].dying
  /\ \E r \in Progress(cfg[v].rollout, cfg[v].route) : cfg' = [cfg EXCEPT ![v].rollout = r]
  /\ UNCHANGED <<restate, object, cache, pass, readyFor, strays>>

Collect(v) ==
  /\ cfg[v].exists
  /\ cfg[v].dying \/ phase = "gone"
  /\ cfg' = [cfg EXCEPT ![v] = Absent]
  /\ UNCHANGED <<restate, object, cache, pass, readyFor, strays>>

\* The watches deliver what they have.
Sync ==
  /\ ~CaughtUp
  /\ cache' = Records(cfg)
  /\ UNCHANGED <<restate, object, cfg, pass, readyFor, strays>>

\* Wrong: a time is subtracted from whatever is there.
AgedForGood(c) == [c EXCEPT !.removeAt = @ - 1]

Aged(c) == [c EXCEPT !.removeAt = IF @ > 0 THEN @ - 1 ELSE @]

Tick ==
  /\ \E v \in Versions : cfg[v].removeAt > 0
  /\ cfg' = [v \in Versions |-> Aged(cfg[v])]
  /\ cache' = [v \in Versions |-> Aged(cache[v])]
  /\ UNCHANGED <<restate, object, pass, readyFor, strays>>

\* An invocation starts, and is bound to a deployment at once; one at a time.
Start(s) ==
  /\ route[s] \in Ids
  /\ MaxInvocations > 0
  /\ \A id \in Ids : pinned[id] = 0
  /\ pinned' = [pinned EXCEPT ![route[s]] = 1]
  /\ UNCHANGED <<registered, route, unpinned>>

Invoked(s) ==
  /\ Start(s)
  /\ UNCHANGED <<object, cfg, cache, pass, readyFor, strays>>

Finish(id) ==
  /\ Complete(id)
  /\ UNCHANGED <<object, cfg, cache, pass, readyFor, strays>>

ForeignTakes(s) ==
  /\ phase = "live"
  /\ ForeignRegister(s)
  /\ UNCHANGED <<object, cfg, cache, pass, readyFor, strays>>

-----------------------------------------------------------------------------
ApplyStep(watched) ==
  \/ ReportCollision(watched) \/ ApplyConfiguration(watched)
  \/ UnscheduleAdopted \/ ApplyRoute(watched) \/ RolloutNotReady(watched)
  \/ QueryUsage \/ ReportConflict \/ Register \/ DiscoveryFails \/ RecordId
  \/ ConfirmLatest \/ ReportNotLatest \/ FinishPass

SweepStep ==
  \/ \E v \in Versions : \/ KeepActive(v) \/ ScheduleRemoval(v) \/ AwaitRemoval(v)
                         \/ Retain(v) \/ Deregister(v) \/ DeleteUnknown(v)
  \/ DeleteDeregistered \/ WriteToMissing

CleanupStep(watched) ==
  \/ StartCleanup(watched) \/ QueryForCleanup \/ AwaitDrain \/ ReleaseFinalizer

PassStep(watched) == ApplyStep(watched) \/ SweepStep \/ CleanupStep(watched)

World ==
  \/ EditSpec \/ DeleteObject
  \/ \E v \in Versions : RollOut(v) \/ Collect(v)
  \/ \E s \in Services : ForeignTakes(s) \/ Invoked(s)
  \/ \E id \in Ids : Finish(id)
  \/ Tick
=============================================================================
