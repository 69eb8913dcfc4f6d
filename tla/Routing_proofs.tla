---------------------------- MODULE Routing_proofs ----------------------------
(***************************************************************************)
(* RoutingInvariant is inductive, and so Ready=True for the current        *)
(* generation means that the object's services are at the version of the   *)
(* spec, whoever else registers with the same Restate, whatever the caches *)
(* show and whatever fails.  The versions are assumed to serve the same    *)
(* services or none in common.                                             *)
(*                                                                         *)
(* And once a pass has reported a foreign owner, later passes leave it     *)
(* alone, when they begin with caches that have caught up.                 *)
(***************************************************************************)
EXTENDS Registration_proofs, RoutingInvariant

-----------------------------------------------------------------------------
(* Only a pass that registers its version moves a service to a version.    *)

RoutesOnlyLost == \A s \in Services : route'[s] = route[s] \/ route'[s] \notin Ids

LEMMA RoutesLost ==
  ASSUME TypeOK, [Next]_vars, ~Register
  PROVE  RoutesOnlyLost
<1>0. RestateTypeOK /\ NoId \notin Ids /\ Foreign \notin Ids
  BY RestateAssumption DEF RestateAssumption, TypeOK
<1>1. ASSUME NEW id, DeleteDeployment(id) PROVE RoutesOnlyLost
  BY <1>0, <1>1 DEF DeleteDeployment, RestateTypeOK, RoutesOnlyLost
<1>2. CASE Deregister
  BY <1>1, <1>2 DEF Deregister
<1>3. CASE Invocations
  <2>1. ASSUME NEW s \in Services, Invoke(s) \/ Pin(s) \/ Unqueue(s) PROVE RoutesOnlyLost
    BY <2>1 DEF Invoke, Pin, Unqueue, RoutesOnlyLost
  <2>2. ASSUME NEW id \in Ids, Complete(id) PROVE RoutesOnlyLost
    BY <2>2 DEF Complete, RoutesOnlyLost
  <2>3. ASSUME NEW s \in Services, ForeignRegister(s) PROVE RoutesOnlyLost
    BY <1>0, <2>3 DEF ForeignRegister, RestateTypeOK, RoutesOnlyLost
  <2>4. ASSUME NEW id \in Ids, OutOfBandDelete(id) PROVE RoutesOnlyLost
    BY <1>1, <2>4 DEF OutOfBandDelete
  <2>. QED
    BY <1>3, <2>1, <2>2, <2>3, <2>4 DEF Invocations
<1>4. CASE ClusterChanges /\ rc' = "absent"
  BY <1>0, <1>4 DEF ClusterChanges, RestateWiped, RoutesOnlyLost
<1>5. CASE UNCHANGED restate
  BY <1>5 DEF restate, RoutesOnlyLost
<1>. QED
  BY <1>2, <1>3, <1>4, <1>5, RegisteredFacts

LEMMA ServesType ==
  ASSUME NEW v \in Versions
  PROVE  Serves[v] \subseteq Services
BY RestateAssumption DEF RestateAssumption

LEMMA HeldServicesKept ==
  ASSUME RoutesOnlyLost, NEW v \in Versions, HasItsServices(v)
  PROVE  HasItsServices(v)'
BY ServesType DEF RoutesOnlyLost, HasItsServices

\* A registration takes all of its version's services or none.
LEMMA RegisterRoutes ==
  ASSUME TypeOK, Register
  PROVE  \E id \in IdsOf(Target) :
           /\ \/ \A s \in Services : route'[s] = IF s \in Serves[Target] THEN id ELSE route[s]
              \/ UNCHANGED route
           /\ op.pc = "register" /\ Target' = Target /\ UNCHANGED <<spec, status, usage>>
<1>1. PICK id \in IdsOf(Target) : RegisterEndpoint(Target, id, op.action = "Promote")
  BY DEF Register, FreshIds, Unused
<1>2. CASE op.action = "Promote" \/ id \notin registered
  <2>1. \A s \in Services : route'[s] = IF s \in Serves[Target] THEN id ELSE route[s]
    BY <1>1, <1>2 DEF RegisterEndpoint
  <2>. QED
    BY <2>1, ApplyMoves DEF Moves, Register, object
<1>3. CASE ~(op.action = "Promote" \/ id \notin registered)
  <2>1. \A s \in Services : route'[s] = route[s]
    BY <1>1, <1>3 DEF RegisterEndpoint
  <2>2. route' = [s \in Services |-> route'[s]] /\ route = [s \in Services |-> route[s]]
    BY <1>1 DEF RegisterEndpoint, TypeOK, RestateTypeOK
  <2>3. UNCHANGED route
    BY <2>1, <2>2
  <2>. QED
    BY <2>3, ApplyMoves DEF Moves, Register, object
<1>. QED
  BY <1>2, <1>3

LEMMA IdVersion == \A v : \A id \in IdsOf(v) : id \in Ids /\ VersionOf(id) = v
BY DEF IdsOf

LEMMA RoutesFitEndpointsStep ==
  ASSUME TypeOK, RoutesFitEndpoints, [Next]_vars
  PROVE  RoutesFitEndpoints'
<1>1. CASE Register
  BY <1>1, RegisterRoutes, IdVersion DEF RoutesFitEndpoints
<1>2. CASE ~Register
  BY <1>2, RoutesLost DEF RoutesOnlyLost, RoutesFitEndpoints
<1>. QED
  BY <1>1, <1>2

LEMMA RoutesTogetherStep ==
  ASSUME SharedAlike, TypeOK, RoutesTogether, [Next]_vars
  PROVE  RoutesTogether'
<1>1. CASE Register
  <2>1. PICK id \in IdsOf(Target) :
          \/ \A s \in Services : route'[s] = IF s \in Serves[Target] THEN id ELSE route[s]
          \/ UNCHANGED route
    BY <1>1, RegisterRoutes
  <2>2. CASE UNCHANGED route
    BY <2>2 DEF RoutesTogether
  <2>3. CASE \A s \in Services : route'[s] = IF s \in Serves[Target] THEN id ELSE route[s]
    <3>. SUFFICES ASSUME NEW v \in Versions, NEW s \in Serves[v], NEW t \in Serves[v],
                         route'[s] \in Ids, route'[t] \in Ids
                  PROVE  VersionOf(route'[s]) = VersionOf(route'[t])
      BY DEF RoutesTogether
    <3>1. Target \in Versions /\ s \in Services /\ t \in Services
      BY TargetType, ServesType DEF TypeOK
    <3>2. s \in Serves[Target] <=> t \in Serves[Target]
      BY <3>1 DEF SharedAlike
    <3>. QED
      BY <2>3, <3>1, <3>2 DEF RoutesTogether
  <2>. QED
    BY <2>1, <2>2, <2>3
<1>2. CASE ~Register
  BY <1>2, RoutesLost, ServesType DEF RoutesOnlyLost, RoutesTogether
<1>. QED
  BY <1>1, <1>2

\* A version latest for one of its services has all of them that are the object's.
LEMMA LatestHasAll ==
  ASSUME RoutesFitEndpoints, RoutesTogether, NEW v \in Versions, NEW id \in IdsOf(v),
         id \in LatestIds
  PROVE  HasItsServices(v)
<1>1. id \in Ids /\ VersionOf(id) = v
  BY IdVersion
<1>2. PICK s \in Services : route[s] = id
  BY DEF LatestIds
<1>3. s \in Serves[v]
  BY <1>1, <1>2 DEF RoutesFitEndpoints
<1>. QED
  BY <1>1, <1>2, <1>3 DEF RoutesTogether, HasItsServices

-----------------------------------------------------------------------------
(* Who reports what, and for which generation.                             *)

LEMMA EndsReport ==
  ASSUME TypeOK, Ends
  PROVE  \/ status' = status
         \/ ~At("idle") /\ status'.gen = op.self.gen /\ status'.reason # "Deployed"
         \/ /\ RoutingUnchanged \/ (FinishApply /\ op.outcome = "Deployed")
            /\ ~At("idle") /\ status'.gen = op.self.gen
<1>. DEFINE Reports(reason) ==
       status' = IF reason = "None" THEN status ELSE [reason |-> reason, gen |-> op.self.gen]
<1>1. \A reason : EndPass(reason) => Reports(reason)
  BY DEF EndPass
<1>2. FailureReason # "Deployed"
  BY DEF FailureReason
<1>3. CASE AwaitDrain \/ ReleaseFinalizer \/ OperatorRestarts
  BY <1>1, <1>3 DEF AwaitDrain, ReleaseFinalizer, OperatorRestarts
<1>4. CASE PatchMissing \/ AdminUnreachable \/ PassFails
  <2>1. ~At("idle")
    BY <1>4 DEF PatchMissing, IsNext, AdminUnreachable, AdminSteps, PassFails, At
  <2>. QED
    BY <1>1, <1>2, <1>4, <2>1 DEF PatchMissing, AdminUnreachable, PassFails
<1>5. CASE ReportConflict \/ ClusterNotFound \/ DiscoveryFails \/ ReportNotLatest
  <2>1. ~At("idle")
    BY <1>5 DEF ReportConflict, ClusterNotFound, DiscoveryFails, ReportNotLatest, Calls, At
  <2>. QED
    BY <1>1, <1>5, <2>1 DEF ReportConflict, ClusterNotFound, DiscoveryFails, ReportNotLatest
<1>6. CASE RoutingUnchanged
  BY <1>1, <1>6 DEF RoutingUnchanged, Calls, At
<1>7. CASE FinishApply
  <2>1. ~At("idle") /\ Reports(op.outcome)
    BY <1>1, <1>7 DEF FinishApply, At
  <2>. QED
    BY <1>7, <2>1
<1>. QED
  BY <1>3, <1>4, <1>5, <1>6, <1>7 DEF Ends

LEMMA OutsideReport ==
  ASSUME Outside
  PROVE  /\ UNCHANGED <<op, status>>
         /\ spec' = spec \/ spec'.gen = spec.gen + 1
<1>1. CASE EditSpec
  BY <1>1 DEF EditSpec, Pass
<1>2. CASE ~EditSpec
  BY <1>2
  DEF Outside, Environment, DeleteObject, ClusterChanges, CollectGarbage,
      PodsBecomeReady, PodsStop, Sync, SyncHpa, Invocations, Tick, vars, Pass, object
<1>. QED
  BY <1>1, <1>2

LEMMA ContinuesReport ==
  ASSUME TypeOK, Continues
  PROVE  UNCHANGED <<spec, status>> /\ op'.self = op.self /\ ~At("idle")
<1>1. UNCHANGED <<spec, status>>
  BY DEF Continues, CreateReplicaSet, AdoptReplicaSet, UnscheduleAdopted, PublishVersion,
         RoutingChanged, QueryUsage, ValidateReady, ValidateNotReady, Register, RecordId,
         ConfirmLatest, StartSweep, UnscheduleActive, Deregister, DeleteReplicaSet,
         KeepActive, ScheduleRemoval, AwaitRemoval, StopVersion, ClusterDeleted,
         ClusterFound, QueryForCleanup, FinishCleanup, object
<1>2. CASE ClusterFound \/ QueryForCleanup
  BY <1>1, <1>2 DEF ClusterFound, QueryForCleanup, Calls, At, TypeOK, PassTypeOK, OpStates
<1>3. CASE ~(ClusterFound \/ QueryForCleanup)
  BY <1>1, <1>3, ApplyMoves, SweepMoves, CleanupMoves DEF Continues, Moves, At
<1>. QED
  BY <1>2, <1>3

LEMMA BeginsReport ==
  ASSUME Begins
  PROVE  UNCHANGED <<spec, status>> /\ op'.self = spec /\ Target' = spec.template
<1>1. UNCHANGED <<spec, status>>
  BY DEF Begins, StartApply, StartCleanup, object
<1>2. op'.self = spec
  BY BeginsFacts DEF BeginsWith
<1>. QED
  BY <1>1, <1>2 DEF Target

LEMMA GenerationTypes ==
  ASSUME TypeOK
  PROVE  status.gen \in Int /\ op.self.gen \in Int /\ spec.gen \in Int
BY TargetType, DeploymentAssumption
DEF DeploymentAssumption, TypeOK, PassTypeOK, ClusterTypeOK, Specs

LEMMA GenerationsGrowStep ==
  ASSUME TypeOK, GenerationsGrow, [Next]_vars
  PROVE  GenerationsGrow'
<1>1. CASE Begins
  BY <1>1, BeginsReport, GenerationTypes DEF GenerationsGrow
<1>2. CASE Continues
  BY <1>2, ContinuesReport DEF GenerationsGrow, Target
<1>3. CASE Ends
  <2>1. op'.pc = "idle" /\ spec' = spec
    BY <1>3, EndsFacts DEF Idle
  <2>2. status'.gen <= spec.gen
    BY <1>3, EndsReport, GenerationTypes DEF GenerationsGrow
  <2>. QED
    BY <2>1, <2>2 DEF GenerationsGrow, At
<1>4. CASE Outside
  <2>1. UNCHANGED <<op, status>>
    BY <1>4, OutsideReport
  <2>2. CASE spec' = spec
    BY <2>1, <2>2 DEF GenerationsGrow, At, Target
  <2>3. CASE spec'.gen = spec.gen + 1
    BY <2>1, <2>3, GenerationTypes DEF GenerationsGrow, At
  <2>. QED
    BY <1>4, <2>2, <2>3, OutsideReport
<1>. QED
  BY <1>1, <1>2, <1>3, <1>4, StepCases

LEMMA GenerationsGrowHolds == Spec => []GenerationsGrow
<1>1. Init => GenerationsGrow
  BY DEF Init, Idle, GenerationsGrow, At
<1>2. TypeOK /\ GenerationsGrow /\ [Next]_vars => GenerationsGrow'
  BY GenerationsGrowStep
<1>. QED
  BY <1>1, <1>2, TypeCorrect, PTL DEF Spec

\* The id a rollout asks about is one of its version's endpoint.
LEMMA OwnIdLatest ==
  ASSUME TypeOK, PassInOrder, RoutesFitEndpoints, RoutesTogether,
         op.pc \in {"routing", "query"}, op.id \in LatestIds
  PROVE  HasItsServices(Target)
<1>1. op.id \in IdsOf(Target)
  <2>1. op.id = rs[Target].id /\ rs[Target].id \in IdsOf(Target) \cup {NoId}
    BY TargetType DEF PassInOrder, IdAdopted, IdsBelong, TypeOK
  <2>2. op.id # NoId
    BY RestateAssumption DEF RestateAssumption, LatestIds, TypeOK, RestateTypeOK
  <2>. QED
    BY <2>1, <2>2
<1>. QED
  BY <1>1, TargetType, LatestHasAll DEF TypeOK

LEMMA OutcomeHoldsStep ==
  ASSUME TypeOK, PassInOrder, RoutingKept, [Next]_vars
  PROVE  OutcomeHolds'
<1>. SUFFICES ASSUME op'.pc \in {"sweep"} \cup Walking, ~IsDeleting(op'.mode),
                     op'.outcome = "Deployed"
              PROVE  HasItsServices(Target)'
  BY DEF OutcomeHolds
<1>. USE DEF Walking
<1>0. Target \in Versions /\ op \in OpStates
  BY TargetType DEF TypeOK, PassTypeOK
<1>1. ASSUME OutcomeHolds, op.pc \in {"sweep"} \cup Walking, ~IsDeleting(op.mode),
             op.outcome = "Deployed", Target' = Target, ~Register
      PROVE  HasItsServices(Target)'
  <2>1. HasItsServices(Target)
    BY <1>1 DEF OutcomeHolds
  <2>2. RoutesOnlyLost
    BY <1>1, RoutesLost
  <2>. QED
    BY <1>0, <1>1, <2>1, <2>2, ServesType DEF RoutesOnlyLost, HasItsServices
<1>2. CASE Begins \/ Ends
  <2>1. op'.pc \in {"idle", "adopt", "getCluster"}
    BY <1>2, BeginsFacts, EndsFacts DEF BeginsWith, Idle
  <2>. QED
    BY <2>1
<1>3. CASE QueryUsage
  <2>1. op.pc = "query" /\ op'.pc = "sweep" /\ Target' = Target /\ UNCHANGED route
    BY <1>3, ApplyMoves DEF Moves, QueryUsage, restate
  <2>2. PlannedAction = "AlreadyLatest"
    BY <1>0, <1>3, <2>1 DEF QueryUsage, OpStates
  <2>3. op.id \in LatestIds
    BY <2>2 DEF PlannedAction, PlanRegistration, UsageAnswer
  <2>4. HasItsServices(Target)
    BY <2>1, <2>3, OwnIdLatest DEF RoutingKept
  <2>. QED
    BY <2>1, <2>4 DEF HasItsServices
<1>4. CASE ValidateNotReady
  BY <1>0, <1>4 DEF ValidateNotReady, OpStates
<1>5. CASE ConfirmLatest
  <2>1. op.pc = "confirm" /\ Target' = Target /\ UNCHANGED route
    BY <1>5, ApplyMoves DEF Moves, ConfirmLatest, restate
  <2>2. op.reply \in IdsOf(Target)
    BY <2>1 DEF PassInOrder, ReplyGiven
  <2>. QED
    BY <1>5, <2>1, <2>2, IdVersion DEF ConfirmLatest, Confirmed, HasItsServices
<1>6. CASE \/ CreateReplicaSet \/ AdoptReplicaSet \/ UnscheduleAdopted \/ PublishVersion
           \/ RoutingChanged \/ ValidateReady \/ Register \/ RecordId
  BY <1>6, ApplyMoves DEF Moves
<1>7. CASE \/ StartSweep \/ UnscheduleActive \/ Deregister \/ DeleteReplicaSet
           \/ \E v \in Versions : \/ KeepActive(v) \/ ScheduleRemoval(v)
                                  \/ AwaitRemoval(v) \/ StopVersion(v)
  <2>1. op.pc \in {"sweep"} \cup Walking /\ op'.mode = op.mode /\ Target' = Target
    BY <1>7, SweepMoves DEF Moves
  <2>2. op'.outcome = op.outcome
    BY <1>0, <1>7
    DEF StartSweep, UnscheduleActive, Deregister, DeleteReplicaSet, KeepActive,
        ScheduleRemoval, AwaitRemoval, StopVersion, Goto, OpStates
  <2>3. ~Register
    BY <2>1, ApplyMoves DEF Moves
  <2>. QED
    BY <1>1, <2>1, <2>2, <2>3 DEF RoutingKept
<1>8. CASE ClusterDeleted \/ ClusterFound \/ QueryForCleanup \/ FinishCleanup
  <2>1. op'.pc # "release" => IsDeleting(op'.mode)
    BY <1>8, CleanupMoves, CleanupMode
    DEF Moves, PassInOrder, PassFitsPhase, CleanupOnly
  <2>. QED
    BY <2>1
<1>9. CASE Outside /\ ~Register
  <2>1. UNCHANGED op
    BY <1>9, OutsideFacts
  <2>. QED
    BY <1>1, <1>9, <2>1 DEF RoutingKept, Target
<1>. QED
  BY <1>2, <1>3, <1>4, <1>5, <1>6, <1>7, <1>8, <1>9, StepCases DEF Continues

LEMMA StatusHoldsStep ==
  ASSUME TypeOK, TypeOK', PassInOrder, RoutingKept, [Next]_vars
  PROVE  StatusHolds'
<1>. SUFFICES ASSUME status'.reason = "Deployed", status'.gen = spec'.gen
              PROVE  HasItsServices(spec.template)'
  BY DEF StatusHolds
<1>0. spec.template \in Versions /\ GenerationsGrow /\ StatusHolds /\ OutcomeHolds
  BY DEF TypeOK, ClusterTypeOK, Specs, RoutingKept
<1>1. ASSUME UNCHANGED <<spec, status>>, ~Register
      PROVE  HasItsServices(spec.template)'
  <2>1. HasItsServices(spec.template)
    BY <1>0, <1>1 DEF StatusHolds
  <2>. QED
    BY <1>0, <1>1, <2>1, RoutesLost, ServesType DEF RoutesOnlyLost, HasItsServices
<1>2. ASSUME UNCHANGED <<spec, route>>, HasItsServices(spec.template)
      PROVE  HasItsServices(spec.template)'
  BY <1>2 DEF HasItsServices
<1>3. CASE Begins /\ ~Register
  BY <1>1, <1>3, BeginsReport
<1>4. CASE Continues /\ ~Register
  BY <1>1, <1>4, ContinuesReport
<1>5. CASE Register
  <2>1. PICK id \in IdsOf(Target) :
           /\ \/ \A s \in Services : route'[s] = IF s \in Serves[Target] THEN id ELSE route[s]
              \/ UNCHANGED route
           /\ op.pc = "register" /\ UNCHANGED <<spec, status>>
    BY <1>5, RegisterRoutes
  <2>2. CASE UNCHANGED route
    BY <1>0, <1>2, <2>1, <2>2 DEF StatusHolds
  <2>3. CASE \A s \in Services : route'[s] = IF s \in Serves[Target] THEN id ELSE route[s]
    <3>1. Target = spec.template
      BY <1>0, <2>1, GenerationTypes DEF GenerationsGrow, At
    <3>. QED
      BY <1>0, <2>1, <2>3, <3>1, IdVersion, ServesType DEF HasItsServices
  <2>. QED
    BY <2>1, <2>2, <2>3
<1>6. CASE Ends
  <2>0. UNCHANGED <<spec, route>>
    BY <1>6, EndsFacts
  <2>1. CASE status' = status
    BY <1>0, <1>2, <2>0, <2>1 DEF StatusHolds
  <2>2. CASE /\ RoutingUnchanged \/ (FinishApply /\ op.outcome = "Deployed")
             /\ ~At("idle") /\ status'.gen = op.self.gen
    <3>1. Target = spec.template
      BY <1>0, <2>0, <2>2 DEF GenerationsGrow
    <3>2. HasItsServices(Target)
      <4>1. CASE RoutingUnchanged
        BY <4>1, OwnIdLatest DEF RoutingUnchanged, RoutingKept, Calls, At
      <4>2. CASE FinishApply /\ op.outcome = "Deployed"
        BY <1>0, <4>2 DEF FinishApply, OutcomeHolds, At, Walking, IsDeleting
      <4>. QED
        BY <2>2, <4>1, <4>2
    <3>. QED
      BY <1>2, <2>0, <3>1, <3>2
  <2>. QED
    BY <1>6, <2>1, <2>2, EndsReport
<1>7. CASE Outside /\ ~Register
  <2>1. CASE spec' = spec
    BY <1>1, <1>7, <2>1, OutsideReport
  <2>2. CASE spec'.gen = spec.gen + 1
    BY <1>0, <1>7, <2>2, OutsideReport, GenerationTypes DEF GenerationsGrow
  <2>. QED
    BY <1>7, <2>1, <2>2, OutsideReport
<1>. QED
  BY <1>3, <1>4, <1>5, <1>6, <1>7, StepCases

-----------------------------------------------------------------------------
(* The theorems.                                                           *)

LEMMA RoutingInit == Init => RoutingKept
<1>. SUFFICES ASSUME Init PROVE RoutingKept
  OBVIOUS
<1>1. /\ op.pc = "idle" /\ status.reason = "None" /\ status.gen = 0 /\ spec.gen = 0
      /\ \A s \in Services : route[s] \notin Ids
  BY RestateAssumption DEF RestateAssumption, Init, RestateInit, Idle
<1>2. RoutesTogether
  BY <1>1, ServesType DEF RoutesTogether
<1>. QED
  BY <1>1, <1>2
  DEF RoutingKept, RoutesFitEndpoints, GenerationsGrow, OutcomeHolds, StatusHolds, At,
      Walking

\* What a pass is going to report about the routing, and what was reported for the
\* current generation, stays true.
THEOREM RoutingHolds ==
  ASSUME SharedAlike
  PROVE  Spec => []RoutingKept
<1>1. TypeOK /\ TypeOK' /\ PassInOrder /\ RoutingKept /\ [Next]_vars => RoutingKept'
  BY RoutesFitEndpointsStep, RoutesTogetherStep, GenerationsGrowStep, OutcomeHoldsStep,
     StatusHoldsStep
  DEF RoutingKept
<1>. QED
  BY <1>1, RoutingInit, TypeCorrect, PassOrderHolds, PTL DEF Spec

\* Ready=True for the current generation means new work lands on the version the
\* spec asks for and on no other version of the object; that pods are up is not
\* enough (reconcile, confirm_latest).
THEOREM ReadyMeansRoutedHolds ==
  ASSUME SharedAlike
  PROVE  Spec => []ReadyMeansRouted
<1>1. RoutingKept => ReadyMeansRouted
  BY DEF RoutingKept, StatusHolds, ReadyMeansRouted, HasItsServices
<1>. QED
  BY <1>1, RoutingHolds, PTL

-----------------------------------------------------------------------------
(* A conflict that was reported is left alone.                             *)

\* An id is written down by the pass that registered it, and by nothing else.
LEMMA IdsKept ==
  ASSUME TypeOK, [Next]_vars, ~RecordId, NEW v \in Versions
  PROVE  rs'[v].id \in {rs[v].id, NoId}
<1>1. rs \in [Versions -> ReplicaSets]
  BY DEF TypeOK, ClusterTypeOK
<1>2. CASE CreateReplicaSet
  BY <1>1, <1>2 DEF CreateReplicaSet, Created
<1>3. CASE DeleteReplicaSet
  BY <1>1, <1>3 DEF DeleteReplicaSet, Absent
<1>4. CASE CollectGarbage
  BY <1>4 DEF CollectGarbage, Absent
<1>. QED
  BY <1>2, <1>3, <1>4, NotesKept

LEMMA OutcomeIsOwnStep ==
  ASSUME TypeOK, OutcomeIsOwn, [Next]_vars
  PROVE  OutcomeIsOwn'
<1>0. op \in OpStates
  BY DEF TypeOK, PassTypeOK
<1>1. CASE Begins \/ Ends
  <2>1. op'.outcome = Idle.outcome
    BY <1>1, EndsFacts DEF Begins, StartApply, StartCleanup, Idle
  <2>. QED
    BY <2>1 DEF Idle, OutcomeIsOwn
<1>2. CASE Outside
  BY <1>2, OutsideFacts DEF OutcomeIsOwn
<1>3. CASE \/ CreateReplicaSet \/ AdoptReplicaSet \/ UnscheduleAdopted \/ PublishVersion
           \/ RoutingChanged \/ QueryUsage \/ ValidateReady \/ ValidateNotReady
           \/ Register \/ RecordId \/ ConfirmLatest
  BY <1>0, <1>3
  DEF CreateReplicaSet, AdoptReplicaSet, UnscheduleAdopted, PublishVersion,
      RoutingChanged, QueryUsage, ValidateReady, ValidateNotReady, Register, RecordId,
      ConfirmLatest, Goto, OpStates, OutcomeIsOwn
<1>4. CASE StartSweep \/ UnscheduleActive \/ Deregister \/ DeleteReplicaSet
  BY <1>0, <1>4
  DEF StartSweep, UnscheduleActive, Deregister, DeleteReplicaSet, Goto, OpStates,
      OutcomeIsOwn
<1>5. ASSUME NEW v \in Versions,
             KeepActive(v) \/ ScheduleRemoval(v) \/ AwaitRemoval(v) \/ StopVersion(v)
      PROVE  OutcomeIsOwn'
  BY <1>0, <1>5
  DEF KeepActive, ScheduleRemoval, AwaitRemoval, StopVersion, Goto, OpStates, OutcomeIsOwn
<1>6. CASE ClusterDeleted \/ ClusterFound \/ QueryForCleanup \/ FinishCleanup
  BY <1>0, <1>6
  DEF ClusterDeleted, ClusterFound, QueryForCleanup, FinishCleanup, Goto, OpStates,
      OutcomeIsOwn
<1>. QED
  BY <1>1, <1>2, <1>3, <1>4, <1>5, <1>6, StepCases DEF Continues

\* The passes that run while the report stands are about the version it was for.
LEMMA ConflictTarget ==
  ASSUME TypeOK, GenerationsGrow, ConflictReported, ~At("idle")
  PROVE  Target = spec.template
BY GenerationTypes DEF GenerationsGrow, ConflictReported

LEMMA ReportIsNew ==
  ASSUME TypeOK, OutcomeIsOwn, Ends, status' # status, status'.reason = "ForeignDeployment"
  PROVE  ReportConflict /\ status'.gen = op.self.gen
<1>. DEFINE Reports(reason) ==
       status' = IF reason = "None" THEN status ELSE [reason |-> reason, gen |-> op.self.gen]
<1>1. \A reason : EndPass(reason) => Reports(reason)
  BY DEF EndPass
<1>2. FailureReason # "ForeignDeployment"
  BY DEF FailureReason
<1>3. ~(AwaitDrain \/ ReleaseFinalizer \/ OperatorRestarts)
  BY <1>1 DEF AwaitDrain, ReleaseFinalizer, OperatorRestarts
<1>4. ~(PatchMissing \/ AdminUnreachable \/ PassFails)
  BY <1>1, <1>2 DEF PatchMissing, AdminUnreachable, PassFails
<1>5. ~(RoutingUnchanged \/ ClusterNotFound \/ DiscoveryFails \/ ReportNotLatest)
  BY <1>1 DEF RoutingUnchanged, ClusterNotFound, DiscoveryFails, ReportNotLatest
<1>6. ~FinishApply
  BY <1>1 DEF FinishApply, OutcomeIsOwn
<1>7. ReportConflict
  BY <1>3, <1>4, <1>5, <1>6 DEF Ends
<1>8. status' = [reason |-> "ForeignDeployment", gen |-> op.self.gen]
  BY <1>1, <1>7 DEF ReportConflict
<1>. QED
  BY <1>7, <1>8

LEMMA ConflictBefore ==
  ASSUME TypeOK, GenerationsGrow, OutcomeIsOwn, [Next]_vars, ConflictReported'
  PROVE  /\ spec' = spec
         /\ ConflictReported \/ (ReportConflict /\ op.self.gen = spec.gen)
<1>0. status'.reason = "ForeignDeployment" /\ status'.gen = spec'.gen
  BY DEF ConflictReported
<1>1. CASE Begins
  BY <1>1, BeginsReport DEF ConflictReported
<1>2. CASE Continues
  BY <1>2, ContinuesReport DEF ConflictReported
<1>3. CASE Outside
  <2>1. status' = status /\ (spec' = spec \/ spec'.gen = spec.gen + 1)
    BY <1>3, OutsideReport
  <2>2. spec'.gen # spec.gen + 1
    BY <1>0, <2>1, GenerationTypes DEF GenerationsGrow
  <2>. QED
    BY <2>1, <2>2 DEF ConflictReported
<1>4. CASE Ends
  <2>1. spec' = spec
    BY <1>4, EndsFacts
  <2>2. CASE status' = status
    BY <2>1, <2>2 DEF ConflictReported
  <2>3. CASE status' # status
    BY <1>0, <1>4, <2>1, <2>3, ReportIsNew
  <2>. QED
    BY <2>1, <2>2, <2>3
<1>. QED
  BY <1>1, <1>2, <1>3, <1>4, StepCases

ConflictState == ListState /\ GenerationsGrow /\ ConflictKept

LEMMA ConflictFacts ==
  ASSUME ConflictState
  PROVE  /\ ListState /\ TypeOK /\ TypeOK' /\ [Next]_vars /\ GenerationsGrow
         /\ registered \subseteq Ids /\ registered' \subseteq Ids /\ NoId \notin Ids
         /\ rs \in [Versions -> ReplicaSets] /\ cache \in [Versions -> ReplicaSets]
         /\ op \in OpStates /\ Target \in Versions
         /\ IdsBelong /\ PassFitsPhase /\ BlankWhenAbsent /\ IdAdopted /\ ListAgrees
         /\ OwnIdCached /\ NoOtherLatest /\ PromotesNothing /\ OutcomeIsOwn
BY ListFacts, RestateAssumption
DEF ConflictState, ListState, ConflictKept, RestateAssumption

\* Until the walk the cache shows the ids of all versions.
LEMMA CacheShowsIds ==
  ASSUME ConflictState, op.pc = "query", NEW v \in Versions
  PROVE  cache[v].id = rs[v].id
<1>1. ~IsDeleting(op.mode)
  BY ConflictFacts DEF PassFitsPhase, CleanupOnly, Walking
<1>2. CASE v = Target
  BY <1>1, <1>2, ConflictFacts DEF OwnIdCached
<1>3. CASE v # Target
  BY <1>3, ConflictFacts DEF ListAgrees, BeforeWalk, Adopted, Walking, IsOld
<1>. QED
  BY <1>2, <1>3

LEMMA OwnIdCachedStep ==
  ASSUME ConflictState
  PROVE  OwnIdCached'
<1>. DEFINE Early == {"adopt", "unschedule", "publish", "routing", "query"}
<1>. SUFFICES ASSUME op'.pc \in Early, ~IsDeleting(op'.mode)
              PROVE  cache'[Target'].id = rs'[Target'].id
  BY DEF OwnIdCached
<1>0. TypeOK /\ [Next]_vars /\ LagBetweenPasses = FALSE
  BY ConflictFacts DEF ListState
<1>1. CASE Begins
  BY <1>0, <1>1, BeginsFacts DEF BeginsWith
<1>2. CASE Ends
  BY <1>2, EndsFacts DEF Idle
<1>3. CASE CreateReplicaSet
  <2>1. Target' = Target /\ UNCHANGED cache
    BY <1>0, <1>3, ApplyMoves DEF Moves, CreateReplicaSet, caches
  <2>2. op.pc = "adopt" /\ ~IsDeleting(op.mode) /\ ~rs[Target].exists
    BY <1>0, <1>3, ApplyMoves DEF Moves, CreateReplicaSet
  <2>3. cache[Target].id = NoId
    BY <2>2, ConflictFacts DEF OwnIdCached, BlankWhenAbsent
  <2>4. rs'[Target].id = NoId
    BY <1>3, ConflictFacts DEF CreateReplicaSet, Created
  <2>. QED
    BY <2>1, <2>3, <2>4
<1>4. CASE AdoptReplicaSet \/ UnscheduleAdopted \/ PublishVersion \/ RoutingChanged
  <2>1. /\ Target' = Target /\ op.pc \in Early /\ ~IsDeleting(op.mode) /\ UNCHANGED cache
    BY <1>0, <1>4, ApplyMoves, ContinuesFacts DEF Moves, Continues
  <2>2. rs'[Target].id = rs[Target].id
    BY <1>4, ConflictFacts
    DEF AdoptReplicaSet, UnscheduleAdopted, PublishVersion, RoutingChanged, ReplicaSets,
        cluster
  <2>. QED
    BY <2>1, <2>2, ConflictFacts DEF OwnIdCached
<1>5. CASE /\ Continues
           /\ ~(\/ CreateReplicaSet \/ AdoptReplicaSet \/ UnscheduleAdopted
                \/ PublishVersion \/ RoutingChanged)
  BY <1>0, <1>5, ApplyMoves, SweepMoves, CleanupMoves DEF Continues, Moves
<1>6. CASE Outside
  <2>1. op' = op /\ Target' = Target
    BY <1>6, OutsideFacts DEF Target
  <2>2. cache[Target].id = rs[Target].id
    BY <2>1, ConflictFacts DEF OwnIdCached
  <2>3. ~CollectGarbage /\ ~CreateReplicaSet /\ ~RecordId /\ ~DeleteReplicaSet
    BY <1>0, <2>1, ConflictFacts, ApplyMoves, SweepMoves
    DEF Moves, CollectGarbage, PassFitsPhase, At
  <2>4. rs'[Target].id = rs[Target].id
    BY <1>0, <2>3, ConflictFacts, NotesKept
  <2>5. cache'[Target].id \in {cache[Target].id, rs[Target].id}
    BY <1>0, ConflictFacts, CacheFollows
  <2>. QED
    BY <2>1, <2>2, <2>4, <2>5
<1>. QED
  BY <1>0, <1>1, <1>2, <1>3, <1>4, <1>5, <1>6, StepCases

LEMMA NoOtherLatestStep ==
  ASSUME ConflictState
  PROVE  NoOtherLatest'
<1>. SUFFICES ASSUME ConflictReported', NEW v \in Versions, v # spec'.template,
                     rs'[v].id \in LatestIds'
              PROVE  FALSE
  BY DEF NoOtherLatest
<1>0. /\ TypeOK /\ [Next]_vars /\ GenerationsGrow /\ registered \subseteq Ids
      /\ rs'[v].id \in registered' /\ rs'[v].id \in Ids /\ NoId \notin Ids
  BY ConflictFacts DEF LatestIds
<1>1. spec' = spec /\ (ConflictReported \/ (ReportConflict /\ op.self.gen = spec.gen))
  BY <1>0, ConflictFacts, ConflictBefore
<1>2. CASE ReportConflict /\ op.self.gen = spec.gen
  <2>1. op.pc = "query" /\ Target = spec.template /\ UNCHANGED <<rs, registered, route>>
    BY <1>0, <1>2 DEF ReportConflict, Calls, At, GenerationsGrow, cluster, restate
  <2>2. /\ op.id = rs[Target].id
        /\ (OwnedIds \ {op.id}) \cap registered \cap LatestIds = {}
    BY <1>2, <2>1, ConflictFacts
    DEF IdAdopted, ReportConflict, PlannedAction, PlanRegistration, UsageAnswer
  <2>3. rs[v].id \in Ids /\ rs[v].id \in registered /\ rs[v].id \in LatestIds
    BY <1>0, <2>1 DEF LatestIds
  <2>4. rs[v].id # op.id
    BY <1>1, <2>1, <2>2, <2>3, ConflictFacts DEF IdsBelong, IdsOf
  <2>5. cache[v].id = rs[v].id /\ cache[v].exists
    BY <1>0, <2>1, <2>3, ConflictFacts, CacheShowsIds DEF BlankWhenAbsent
  <2>6. rs[v].id \in OwnedIds
    BY <1>0, <2>3, <2>5 DEF OwnedIds
  <2>. QED
    BY <2>2, <2>3, <2>4, <2>6
<1>3. CASE ConflictReported
  <2>1. rs[v].id \notin LatestIds
    BY <1>1, <1>3, ConflictFacts DEF NoOtherLatest
  <2>2. CASE RecordId
    <3>1. Target = spec.template
      BY <1>0, <1>3, <2>2, ConflictTarget DEF RecordId, At
    <3>2. rs'[v] = rs[v] /\ UNCHANGED <<registered, route>>
      BY <1>1, <2>2, <3>1, ConflictFacts DEF RecordId, restate
    <3>. QED
      BY <2>1, <3>2 DEF LatestIds
  <2>3. CASE Register
    <3>1. Target = spec.template
      BY <1>0, <1>3, <2>3, ConflictTarget DEF Register, Calls, At
    <3>2. PICK new \in IdsOf(Target) : /\ RegisterEndpoint(Target, new, op.action = "Promote")
                                       /\ registered' = registered \cup {new}
                                       /\ UNCHANGED rs
      BY <1>0, <2>3, RegisterAdds
    <3>3. rs[v].id # new
      BY <1>0, <1>1, <3>1, <3>2, ConflictFacts DEF IdsBelong, IdsOf
    <3>4. \A s \in Services : route'[s] \in {new, route[s]}
      BY <3>2 DEF RegisterEndpoint
    <3>. QED
      BY <2>1, <3>2, <3>3, <3>4 DEF LatestIds
  <2>4. CASE ~Register /\ ~RecordId
    <3>1. rs'[v].id = rs[v].id
      BY <1>0, <2>4, IdsKept
    <3>2. registered' \subseteq registered /\ RoutesOnlyLost
      BY <1>0, <2>4, RegisteredShrinks, RoutesLost DEF NeedsNoMore
    <3>. QED
      BY <1>0, <2>1, <3>1, <3>2 DEF LatestIds, RoutesOnlyLost
  <2>. QED
    BY <2>2, <2>3, <2>4
<1>. QED
  BY <1>1, <1>2, <1>3

LEMMA PromotesNothingStep ==
  ASSUME ConflictState
  PROVE  PromotesNothing'
<1>. SUFFICES ASSUME ConflictReported', op'.pc \in {"validate", "register"}
              PROVE  op'.action # "Promote"
  BY DEF PromotesNothing
<1>0. TypeOK /\ [Next]_vars /\ GenerationsGrow /\ op \in OpStates /\ NoId \notin Ids
  BY ConflictFacts
<1>1. ~Ends
  BY EndsFacts DEF Idle
<1>2. ConflictReported
  BY <1>0, <1>1, ConflictFacts, ConflictBefore DEF Ends
<1>3. CASE Begins
  BY <1>3, BeginsFacts DEF BeginsWith
<1>4. CASE Outside
  BY <1>2, <1>4, OutsideFacts, ConflictFacts DEF PromotesNothing
<1>5. CASE QueryUsage
  <2>1. op.pc = "query" /\ op'.action = PlannedAction
    BY <1>0, <1>5 DEF QueryUsage, Calls, At, OpStates
  <2>. SUFFICES ASSUME PlannedAction = "Promote" PROVE FALSE
    BY <2>1
  <2>2. PICK id \in OwnedIds \ {op.id} : id \in LatestIds
    BY DEF PlannedAction, PlanRegistration, UsageAnswer
  <2>3. PICK w \in Versions : cache[w].exists /\ id = cache[w].id
    BY <2>2 DEF OwnedIds
  <2>4. id = rs[w].id
    BY <2>1, <2>3, CacheShowsIds
  <2>5. op.id = rs[Target].id /\ Target = spec.template
    BY <1>0, <1>2, <2>1, ConflictFacts, ConflictTarget DEF IdAdopted, At
  <2>. QED
    BY <1>2, <2>2, <2>4, <2>5, ConflictFacts DEF NoOtherLatest
<1>6. CASE ValidateReady
  <2>1. op.pc = "validate" /\ op'.action = op.action
    BY <1>0, <1>6 DEF ValidateReady, At, Goto, OpStates
  <2>. QED
    BY <1>2, <2>1, ConflictFacts DEF PromotesNothing
<1>7. CASE Continues /\ ~QueryUsage /\ ~ValidateReady
  BY <1>0, <1>7, ApplyMoves, SweepMoves, CleanupMoves DEF Continues, Moves
<1>. QED
  BY <1>0, <1>1, <1>3, <1>4, <1>5, <1>6, <1>7, StepCases

\* While the report stands no step takes a service from somebody else.
LEMMA ForeignKeeps ==
  ASSUME ConflictState, ConflictReported, rs[spec.template].id \in registered,
         "absent" \notin ClusterStates, NEW s \in Services, route[s] = Foreign
  PROVE  route'[s] = Foreign
<1>0. TypeOK /\ [Next]_vars /\ GenerationsGrow /\ Foreign \notin Ids /\ Foreign # NoId
  BY ConflictFacts, RestateAssumption DEF RestateAssumption
<1>1. ASSUME NEW id \in Ids, DeleteDeployment(id)
      PROVE  route'[s] = Foreign
  BY <1>0, <1>1 DEF DeleteDeployment
<1>2. CASE Register
  <2>1. op.pc = "register" /\ Target = spec.template
    BY <1>0, <1>2, ConflictTarget DEF Register, Calls, At
  <2>2. op.action # "Promote"
    BY <2>1, ConflictFacts DEF PromotesNothing
  <2>3. op.id = rs[Target].id /\ op.id \in registered
    BY <2>1, ConflictFacts DEF IdAdopted
  <2>4. op.id \in IdsOf(Target)
    BY <1>0, <2>3, ConflictFacts DEF IdsBelong
  <2>5. EndpointKnown
    BY <2>3, <2>4 DEF EndpointKnown
  <2>6. PICK id \in IdsOf(Target) : /\ RegisterEndpoint(Target, id, op.action = "Promote")
                                    /\ id \in registered
    BY <1>0, <1>2, <2>5, RegisterAdds
  <2>. QED
    BY <2>2, <2>6 DEF RegisterEndpoint
<1>3. CASE Deregister
  <2>1. Seen(sweep.at).id \in Ids
    BY <1>0, <1>3
    DEF Deregister, Calls, ConflictState, ListState, PassInOrder, DeregistersIdle,
        KnownToRestate, TypeOK, PassTypeOK, Usages
  <2>. QED
    BY <1>1, <1>3, <2>1 DEF Deregister
<1>4. CASE Invocations
  <2>1. ASSUME NEW id \in Ids, Complete(id) \/ OutOfBandDelete(id)
        PROVE  route'[s] = Foreign
    BY <1>1, <2>1 DEF Complete, OutOfBandDelete
  <2>2. ASSUME NEW t \in Services, Invoke(t) \/ Pin(t) \/ Unqueue(t)
        PROVE  route'[s] = Foreign
    BY <2>2 DEF Invoke, Pin, Unqueue
  <2>3. ASSUME NEW t \in Services, ForeignRegister(t)
        PROVE  route'[s] = Foreign
    BY <1>0, <2>3 DEF ForeignRegister, TypeOK, RestateTypeOK
  <2>. QED
    BY <1>4, <2>1, <2>2, <2>3 DEF Invocations
<1>5. CASE ClusterChanges /\ rc' = "absent"
  BY <1>5 DEF ClusterChanges
<1>6. CASE UNCHANGED restate
  BY <1>6 DEF restate
<1>. QED
  BY <1>0, <1>2, <1>3, <1>4, <1>5, <1>6, RegisteredFacts

\* After a conflict was reported, the object's passes have nothing to promote.
THEOREM ConflictHolds ==
  ASSUME LagBetweenPasses = FALSE
  PROVE  Spec => []ConflictKept
<1>1. Init => ConflictKept
  BY DEF Init, Idle, ConflictKept, OwnIdCached, NoOtherLatest, PromotesNothing,
         ConflictReported, OutcomeIsOwn
<1>2. /\ TypeOK /\ TypeOK' /\ PassInOrder /\ (ListAgrees /\ AnswerCovers)
      /\ GenerationsGrow /\ ConflictKept /\ [Next]_vars
      => ConflictKept'
  <2>. SUFFICES ASSUME ConflictState PROVE ConflictKept'
    BY DEF ConflictState, ListState
  <2>1. OutcomeIsOwn'
    BY ConflictFacts, OutcomeIsOwnStep
  <2>. QED
    BY <2>1, OwnIdCachedStep, NoOtherLatestStep, PromotesNothingStep DEF ConflictKept
<1>. QED
  BY <1>1, <1>2, TypeCorrect, PassOrderHolds, ListStateHolds, GenerationsGrowHolds, PTL
  DEF Spec

\* Having reported that somebody else holds a service, the controller leaves it to
\* them until the object changes or its own registration disappears: no promotion
\* war (RegistrationAction::Conflict).
THEOREM YieldsToForeignHolds ==
  ASSUME LagBetweenPasses = FALSE, "absent" \notin ClusterStates
  PROVE  Spec => YieldsToForeign
<1>1. /\ TypeOK /\ TypeOK' /\ PassInOrder /\ (ListAgrees /\ AnswerCovers)
      /\ GenerationsGrow /\ ConflictKept /\ [Next]_vars
      => [status = [reason |-> "ForeignDeployment", gen |-> spec.gen]
          /\ rs[spec.template].id \in registered =>
            \A s \in Services : route[s] = Foreign => route'[s] = Foreign]_vars
  BY ForeignKeeps DEF ConflictState, ListState, ConflictReported
<1>. QED
  BY <1>1, TypeCorrect, PassOrderHolds, ListStateHolds, GenerationsGrowHolds, ConflictHolds,
     PTL DEF Spec, YieldsToForeign
=============================================================================
