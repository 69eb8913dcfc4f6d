------------------------------ MODULE Operator ------------------------------
(***************************************************************************)
(* The operator process (OperatorProcess) with, in some behaviours, one    *)
(* RestateDeployment in Knative mode (KnativeDeployment).  Passes run only *)
(* while the deployment controller does; the stores it fills on its way up *)
(* are the cache of the passes; and what its only probe for Knative        *)
(* answered decides whether it has those stores at all.                    *)
(*                                                                         *)
(* A behaviour either follows all three controllers from the start and has *)
(* no object, or has an object and begins with the probe.                  *)
(***************************************************************************)
EXTENDS KnativeDeployment, OperatorProcess

all == <<knative, process>>

NoObject == phase = "none"

Init ==
  /\ ProcessInit
  /\ KnativeInit
  /\ IF NoObject THEN followed # {} /\ crds = Controllers \ followed /\ optional = {}
                 ELSE followed = {} /\ crds = Controllers /\ optional = {"Knative"}

Running == pos["RestateDeployment"] = "running"

\* The stores of the deployment controller after a step of the process.
Stores ==
  IF pos'["RestateDeployment"] \notin {"running", "stopped"} THEN ForgetCache
  ELSE IF pos["RestateDeployment"] = "warmingKnative" THEN cache' = Records(cfg)
  ELSE UNCHANGED cache

ProcessStep(step) ==
  /\ step
  /\ Stores
  /\ UNCHANGED <<restate, object, cfg, pass, readyFor, strays>>

Proceed == Warm \/ Report \/ \E c \in Controllers : StopRunning(c)

Starts == Proceed \/ \E c \in Controllers : Wait(c)

Signal == NoObject /\ SigTerm

\* While passes run a new outage is a failed call.
Changes == IF NoObject THEN Surroundings ELSE ApiserverRecovers \/ (~Running /\ Outage)

\* A pass that is cut short is a failed pass followed by this.
Kill == At("idle") /\ Running /\ ~NoObject /\ Killed

\* A pass does not outlive its process, and neither do its caches.
Stop ==
  /\ Exit \/ Replaced \/ Kill
  /\ ForgetPass
  /\ ForgetCache
  /\ UNCHANGED <<restate, object, cfg, readyFor, strays>>

\* The calls of a pass and its watches need the apiserver.
Works == Running /\ apiserver = "up"

Reconcile == Works /\ PassStep(sawKnative) /\ UNCHANGED process

Follow == Works /\ sawKnative /\ Sync /\ UNCHANGED process

EndsInFailure == Running /\ PassFails /\ UNCHANGED process

\* The world moves at any time; the model lets it where passes can tell.
Elsewhere(step) == Running /\ step /\ UNCHANGED process

Next ==
  \/ ProcessStep(Starts \/ Signal \/ Changes)
  \/ Stop
  \/ Reconcile \/ Follow \/ EndsInFailure
  \/ Elsewhere(World)

\* The runtime polls every controller; the kubelet restarts the process and an
\* outage ends; a pass, its watches, Knative and the clock go on; invocations end.
Fairness ==
  /\ \A c \in Followed : WF_all(ProcessStep(Wait(c)))
  /\ WF_all(ProcessStep(Proceed))
  /\ WF_all(Stop /\ (terminating \/ ~Running))
  /\ WF_all(ProcessStep(ApiserverRecovers))
  /\ WF_all(Reconcile)
  /\ WF_all(Follow)
  /\ WF_all(Elsewhere(\E v \in Versions : RollOut(v) \/ Collect(v)))
  /\ WF_all(Elsewhere(Tick))
  /\ WF_all(Elsewhere(\E id \in Ids : Finish(id)))

Spec == Init /\ [][Next]_all

FairSpec == Spec /\ Fairness

OperatorTypeOK == ProcessTypeOK /\ KnativeTypeOK

-----------------------------------------------------------------------------
(* The Knative controller's safety.                                        *)

Tag == DetermineTag(spec)

\* Ready=True for the current generation: every service of the tag that is ours is
\* routed to the tag (register_or_promote_deployment, confirm_latest).
ReadyMeansRouted ==
  phase = "live" /\ readyFor = spec.gen =>
    \A s \in Serves[Tag] : route[s] \in Ids => VersionOf(route[s]) = Tag

\* A hashed tag stands for one template as long as its Configuration exists, even
\* when two templates hash alike: in-flight invocations never find other code
\* behind their deployment.  A process that did not see Knative has no cache to
\* find the collision in (the collision check).
OneTemplatePerHash ==
  [][sawKnative => \A v \in Versions \ UserTags :
       cfg[v].exists /\ cfg'[v].exists => cfg'[v].template = cfg[v].template]_all

\* Restate is given a new route only to a tag whose Route serves the template the
\* pass is for (check_revision_ready, check_route_ready).
RoutesToServing ==
  [][\A s \in Services :
       route'[s] # route[s] /\ route'[s] \in Ids /\ cfg[op.tag].exists =>
         cfg[op.tag].rollout = "routed" /\ cfg[op.tag].template = op.self.template]_all

\* A rollout never deregisters a version that takes invocations or has some left
\* (cleanup_old_configurations).
RolloutSparesWork ==
  [][op.mode = "Rollout" /\ phase # "none" =>
       \A id \in registered \ registered' : ~Needed(id)]_all

\* A tag that is Ready carries no deadline from the time it was an old one: "A
\* leftover deadline would tear it down with no drain delay the next time it is
\* superseded" (cleanup.rs:380-381).
ReadyTagUnscheduled ==
  phase = "live" /\ At("idle") /\ readyFor = spec.gen =>
    cfg[Tag].removeAt = Never

\* A process that saw Knative lets the object go only when Restate has none of its
\* endpoints left, but for those registered for a Configuration that was already
\* on its way out (cleanup, controller.rs:1395 "ensure nothing is orphaned").
ReleaseLeavesNothing ==
  [][ReleaseFinalizer /\ sawKnative => registered \subseteq strays]_all

-----------------------------------------------------------------------------
(* Liveness.                                                               *)

Undisturbed == <>[](Works /\ sawKnative) /\ <>[][~EndsInFailure]_all

Settled ==
  /\ readyFor = spec.gen
  /\ \A s \in Serves[Tag] : route[s] = cfg[Tag].id

\* In a process that saw Knative, an object whose services nobody else takes ends
\* up Ready and routed, and stays so.
KnativeConverges ==
  Undisturbed /\ <>[](\A s \in Services : route[s] # Foreign) =>
    <>[](phase = "live" => Settled)

Quiet == (\A id \in Ids : pinned[id] = 0) /\ (\A s \in Services : unpinned[s] = 0)

\* A deletion ends, unless it drains with no deadline to force it and there is work
\* to wait for.
KnativeDeletionEnds ==
  Undisturbed => ~<>[](phase = "deleting" /\ (Policy = "force" \/ Quiet))
=============================================================================
