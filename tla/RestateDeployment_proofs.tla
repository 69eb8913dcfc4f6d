----------------------- MODULE RestateDeployment_proofs -----------------------
(***************************************************************************)
(* Every variable of RestateDeployment keeps its type, for every value of  *)
(* the constants.                                                          *)
(***************************************************************************)
EXTENDS RolloutInvariant, TLAPS

-----------------------------------------------------------------------------
(* The decisions of CleanupPolicy stay in their ranges.                    *)

LEMMA ModeForType ==
  ASSUME NEW deleting, NEW policy, NEW drainOver
  PROVE  ModeFor(deleting, policy, drainOver) \in Modes
BY DEF ModeFor, Modes

LEMMA PlanRegistrationType ==
  ASSUME NEW recorded, NEW answer, NEW owned
  PROVE  PlanRegistration(recorded, answer, owned) \in Actions
BY DEF PlanRegistration, Actions

LEMMA NoSpecType == NoSpec \in Specs
<1>1. Versions # {} /\ MaxGenerations \in Nat
  BY DeploymentAssumption DEF DeploymentAssumption
<1>2. (CHOOSE v \in Versions : TRUE) \in Versions
  BY <1>1
<1>. QED
  BY <1>1, <1>2 DEF NoSpec, Specs, Policies

LEMMA IdleType == Idle \in OpStates
BY NoSpecType DEF Idle, OpStates, Steps, Modes, Actions, Reasons

LEMMA AbsentType == Absent \in ReplicaSets
BY DeploymentAssumption DEF DeploymentAssumption, Absent, ReplicaSets, Deadlines, Never

LEMMA NoUsageType == NoUsage \in Usages
BY DEF NoUsage, Usages

LEMMA NoSweepType == NoSweep \in Sweeps
BY AbsentType DEF NoSweep, Sweeps

LEMMA CreatedType ==
  ASSUME NEW gen \in 0 .. MaxGenerations
  PROVE  Created(gen) \in ReplicaSets
BY DeploymentAssumption DEF DeploymentAssumption, Created, ReplicaSets, Deadlines, Never

LEMMA EndPassType ==
  ASSUME TypeOK, NEW reason \in Reasons, EndPass(reason)
  PROVE  /\ op' \in OpStates
         /\ usage' \in Usages
         /\ sweep' \in Sweeps
         /\ status' \in [reason : Reasons, gen : 0 .. MaxGenerations]
<1>1. op \in OpStates /\ status \in [reason : Reasons, gen : 0 .. MaxGenerations]
  BY DEF TypeOK, PassTypeOK, OpStates
<1>2. op.self.gen \in 0 .. MaxGenerations
  BY <1>1 DEF OpStates, Specs
<1>. QED
  BY <1>1, <1>2, IdleType, NoUsageType, NoSweepType DEF EndPass, TypeOK, PassTypeOK
-----------------------------------------------------------------------------
(* Type correctness of Restate's part of the state.                        *)

LEMMA RegisterEndpointType ==
  ASSUME RestateTypeOK, NEW v, NEW id \in Ids, NEW force, RegisterEndpoint(v, id, force)
  PROVE  RestateTypeOK'
BY DEF RestateTypeOK, RegisterEndpoint

LEMMA DeleteDeploymentType ==
  ASSUME RestateTypeOK, NEW id, DeleteDeployment(id)
  PROVE  RestateTypeOK'
<1>0. MaxInvocations \in Nat
  BY RestateAssumption DEF RestateAssumption
<1>1. registered' \subseteq Ids /\ route' \in [Services -> Ids \cup {NoId, Foreign}]
  BY DEF RestateTypeOK, DeleteDeployment
<1>2. pinned' \in [Ids -> 0 .. MaxInvocations]
  <2>1. pinned \in [Ids -> 0 .. MaxInvocations] /\ 0 \in 0 .. MaxInvocations
    BY <1>0 DEF RestateTypeOK
  <2>2. pinned' = [pinned EXCEPT ![id] = 0]
    BY DEF DeleteDeployment
  <2>. QED
    BY <2>1, <2>2, Zenon
<1>3. unpinned' \in [Services -> 0 .. MaxInvocations]
  BY DEF RestateTypeOK, DeleteDeployment
<1>. QED
  BY <1>1, <1>2, <1>3 DEF RestateTypeOK

LEMMA RestateWipedType == RestateWiped => RestateTypeOK'
BY RestateAssumption DEF RestateAssumption, RestateTypeOK, RestateWiped

LEMMA RestateUnchangedType == RestateTypeOK /\ UNCHANGED restate => RestateTypeOK'
BY DEF RestateTypeOK, restate

LEMMA InvocationsType ==
  ASSUME RestateTypeOK, Invocations
  PROVE  RestateTypeOK'
<1>0. MaxInvocations \in Nat
  BY RestateAssumption DEF RestateAssumption
<1>1. ASSUME NEW s \in Services, Invoke(s) PROVE RestateTypeOK'
  BY <1>0, <1>1 DEF Invoke, RestateTypeOK
<1>2. ASSUME NEW s \in Services, Pin(s) PROVE RestateTypeOK'
  <2>1. unpinned' \in [Services -> 0 .. MaxInvocations]
    BY <1>0, <1>2 DEF Pin, RestateTypeOK
  <2>2. pinned' \in [Ids -> 0 .. MaxInvocations]
    BY <1>0, <1>2 DEF Pin, RestateTypeOK
  <2>. QED
    BY <1>2, <2>1, <2>2 DEF Pin, RestateTypeOK
<1>3. ASSUME NEW s \in Services, Unqueue(s) PROVE RestateTypeOK'
  BY <1>0, <1>3 DEF Unqueue, RestateTypeOK
<1>4. ASSUME NEW id \in Ids, Complete(id) PROVE RestateTypeOK'
  BY <1>0, <1>4 DEF Complete, RestateTypeOK
<1>5. ASSUME NEW s \in Services, ForeignRegister(s) PROVE RestateTypeOK'
  BY <1>5 DEF ForeignRegister, RestateTypeOK
<1>6. ASSUME NEW id \in Ids, OutOfBandDelete(id) PROVE RestateTypeOK'
  BY <1>6, DeleteDeploymentType DEF OutOfBandDelete
<1>. QED
  BY <1>1, <1>2, <1>3, <1>4, <1>5, <1>6 DEF Invocations

-----------------------------------------------------------------------------
(* Type correctness of the controller: one lemma per kind of step.         *)

LEMMA UsageAnswerType ==
  ASSUME RestateTypeOK, NEW mode
  PROVE  UsageAnswer(mode) \in Usages
BY DEF RestateTypeOK, UsageAnswer, Usages, LatestIds

LEMMA ReplicaSetType ==
  ASSUME NEW r \in ReplicaSets, NEW id \in Ids \cup {NoId}, NEW up \in BOOLEAN
  PROVE  /\ [r EXCEPT !.id = id] \in ReplicaSets
         /\ [r EXCEPT !.up = up] \in ReplicaSets
         /\ [r EXCEPT !.removeAt = Never] \in ReplicaSets
         /\ [r EXCEPT !.removeAt = DrainDelay] \in ReplicaSets
         /\ Aged(r) \in ReplicaSets
BY DeploymentAssumption DEF DeploymentAssumption, ReplicaSets, Deadlines, Never, Aged

LEMMA FailureReasonType == TypeOK => FailureReason \in Reasons
BY DEF FailureReason, Reasons

LEMMA TargetType ==
  ASSUME PassTypeOK
  PROVE  op.self \in Specs /\ Target \in Versions /\ op.self.gen \in 0 .. MaxGenerations
BY DEF PassTypeOK, OpStates, Target, Specs

LEMMA ClusterKept ==
  ASSUME ClusterTypeOK, UNCHANGED <<object, cluster, caches, faults>>
  PROVE  ClusterTypeOK'
BY DEF ClusterTypeOK, object, cluster, caches

LEMMA PassKept ==
  ASSUME PassTypeOK, UNCHANGED <<op, usage, sweep, status>>
  PROVE  PassTypeOK'
BY DEF PassTypeOK

LEMMA ApplyStepType ==
  ASSUME TypeOK, ReplyGiven, ApplyStep
  PROVE  TypeOK'
<1>0. RestateTypeOK /\ ClusterTypeOK /\ PassTypeOK
  BY DEF TypeOK
<1>1. CASE StartApply
  <2>1. op' \in OpStates
    BY <1>0, <1>1, IdleType
    DEF StartApply, Goto, PassTypeOK, OpStates, Steps, Idle, ClusterTypeOK
  <2>. QED
    BY <1>0, <1>1, <2>1, RestateUnchangedType, ClusterKept
    DEF StartApply, TypeOK, PassTypeOK
<1>2. CASE CreateReplicaSet
  <2>1. op' \in OpStates
    BY <1>0, <1>2 DEF CreateReplicaSet, Goto, PassTypeOK, OpStates, Steps
  <2>2. ClusterTypeOK'
    BY <1>0, <1>2, CreatedType, TargetType
    DEF CreateReplicaSet, ClusterTypeOK, object, caches, cluster
  <2>. QED
    BY <1>0, <1>2, <2>1, <2>2, RestateUnchangedType
    DEF CreateReplicaSet, TypeOK, PassTypeOK
<1>3. CASE AdoptReplicaSet
  <2>1. rs[Target].id \in Ids \cup {NoId}
    BY <1>0, TargetType DEF ClusterTypeOK, ReplicaSets
  <2>2. (Target \in ready) \in BOOLEAN
    OBVIOUS
  <2>3. op' \in OpStates
    BY <1>0, <1>3, <2>1, <2>2 DEF AdoptReplicaSet, PassTypeOK, OpStates, Steps
  <2>4. ClusterTypeOK'
    BY <1>0, <1>3, ReplicaSetType, TargetType
    DEF AdoptReplicaSet, ClusterTypeOK, object, caches, cluster
  <2>. QED
    BY <1>0, <1>3, <2>3, <2>4, RestateUnchangedType
    DEF AdoptReplicaSet, TypeOK, PassTypeOK
<1>4. CASE UnscheduleAdopted
  <2>1. op' \in OpStates
    BY <1>0, <1>4 DEF UnscheduleAdopted, Goto, PassTypeOK, OpStates, Steps
  <2>2. ClusterTypeOK'
    BY <1>0, <1>4, ReplicaSetType, TargetType
    DEF UnscheduleAdopted, ClusterTypeOK, object, caches, cluster
  <2>. QED
    BY <1>0, <1>4, <2>1, <2>2, RestateUnchangedType
    DEF UnscheduleAdopted, TypeOK, PassTypeOK
<1>5. CASE PublishVersion
  <2>1. op' \in OpStates
    BY <1>0, <1>5 DEF PublishVersion, Goto, PassTypeOK, OpStates, Steps
  <2>2. ClusterTypeOK'
    BY <1>0, <1>5
    DEF PublishVersion, ClusterTypeOK, object, caches, cluster, HpasWithout
  <2>. QED
    BY <1>0, <1>5, <2>1, <2>2, RestateUnchangedType
    DEF PublishVersion, TypeOK, PassTypeOK
<1>6. CASE RoutingUnchanged
  BY <1>0, <1>6, EndPassType, FailureReasonType, RestateUnchangedType, ClusterKept
  DEF RoutingUnchanged, TypeOK, PassTypeOK, Reasons
<1>7. CASE RoutingChanged
  <2>1. op' \in OpStates
    BY <1>0, <1>7 DEF RoutingChanged, Goto, PassTypeOK, OpStates, Steps
  <2>. QED
    BY <1>0, <1>7, <2>1, RestateUnchangedType, ClusterKept
    DEF RoutingChanged, TypeOK, PassTypeOK
<1>8. CASE QueryUsage
  <2>1. usage' \in Usages
    BY <1>0, <1>8, UsageAnswerType DEF QueryUsage
  <2>2. PlannedAction \in Actions
    BY PlanRegistrationType DEF PlannedAction
  <2>3. op' \in OpStates
    BY <1>0, <1>8, <2>2 DEF QueryUsage, PassTypeOK, OpStates, Steps, Reasons
  <2>. QED
    BY <1>0, <1>8, <2>1, <2>2, <2>3, RestateUnchangedType, ClusterKept
    DEF QueryUsage, TypeOK, PassTypeOK
<1>9. CASE ReportConflict
  BY <1>0, <1>9, EndPassType, FailureReasonType, RestateUnchangedType, ClusterKept
  DEF ReportConflict, TypeOK, PassTypeOK, Reasons
<1>10. CASE ClusterNotFound
  BY <1>0, <1>10, EndPassType, FailureReasonType, RestateUnchangedType, ClusterKept
  DEF ClusterNotFound, TypeOK, PassTypeOK, Reasons
<1>11. CASE ValidateReady
  <2>1. op' \in OpStates
    BY <1>0, <1>11 DEF ValidateReady, Goto, PassTypeOK, OpStates, Steps
  <2>. QED
    BY <1>0, <1>11, <2>1, RestateUnchangedType, ClusterKept
    DEF ValidateReady, TypeOK, PassTypeOK
<1>12. CASE ValidateNotReady
  <2>1. op' \in OpStates
    BY <1>0, <1>12 DEF ValidateNotReady, Goto, PassTypeOK, OpStates, Steps, Reasons
  <2>. QED
    BY <1>0, <1>12, <2>1, RestateUnchangedType, ClusterKept
    DEF ValidateNotReady, TypeOK, PassTypeOK
<1>13. CASE Register
  <2>1. PICK id \in Ids : /\ RegisterEndpoint(Target, id, op.action = "Promote")
                         /\ op' = [op EXCEPT !.reply = id,
                                        !.pc = IF id = op.id THEN "confirm" ELSE "record"]
    BY <1>13 DEF Register, FreshIds, Unused, IdsOf
  <2>2. RestateTypeOK'
    BY <1>0, <2>1, RegisterEndpointType
  <2>3. op' \in OpStates
    BY <1>0, <2>1 DEF PassTypeOK, OpStates, Steps
  <2>. QED
    BY <1>0, <1>13, <2>2, <2>3, ClusterKept DEF Register, TypeOK, PassTypeOK
<1>14. CASE DiscoveryFails
  BY <1>0, <1>14, EndPassType, FailureReasonType, RestateUnchangedType, ClusterKept
  DEF DiscoveryFails, TypeOK, PassTypeOK, Reasons
<1>15. CASE RecordId
  <2>1. op' \in OpStates
    BY <1>0, <1>15 DEF RecordId, Goto, PassTypeOK, OpStates, Steps
  <2>2. ClusterTypeOK'
    BY <1>0, <1>15, ReplicaSetType, TargetType
    DEF RecordId, ClusterTypeOK, object, caches, cluster, PassTypeOK, OpStates
  <2>. QED
    BY <1>0, <1>15, <2>1, <2>2, RestateUnchangedType DEF RecordId, TypeOK, PassTypeOK
<1>16. CASE ConfirmLatest
  <2>1. op.reply \in Ids
    BY <1>16 DEF ConfirmLatest, ReplyGiven, IdsOf, Calls, At
  <2>2. op' \in OpStates
    BY <1>0, <1>16 DEF ConfirmLatest, Goto, PassTypeOK, OpStates, Steps
  <2>. QED
    BY <1>0, <1>16, <2>1, <2>2, RestateUnchangedType, ClusterKept
    DEF ConfirmLatest, TypeOK, PassTypeOK, Usages
<1>17. CASE ReportNotLatest
  BY <1>0, <1>17, EndPassType, FailureReasonType, RestateUnchangedType, ClusterKept
  DEF ReportNotLatest, TypeOK, PassTypeOK, Reasons
<1>18. CASE FinishApply
  BY <1>0, <1>18, EndPassType, FailureReasonType, RestateUnchangedType, ClusterKept
  DEF FinishApply, TypeOK, PassTypeOK, Reasons, PassTypeOK, OpStates
<1>. QED
  BY <1>1, <1>2, <1>3, <1>4, <1>5, <1>6, <1>7, <1>8, <1>9, <1>10, <1>11, <1>12, <1>13,
     <1>14, <1>15, <1>16, <1>17, <1>18
  DEF ApplyStep

LEMMA SweepStepType ==
  ASSUME TypeOK, SweepStep
  PROVE  TypeOK'
<1>0. RestateTypeOK /\ ClusterTypeOK /\ PassTypeOK
  BY DEF TypeOK
<1>1. CASE StartSweep
  <2>1. op' \in OpStates
    BY <1>0, <1>1 DEF StartSweep, Goto, PassTypeOK, OpStates, Steps
  <2>2. sweep' \in Sweeps
    BY <1>0, <1>1, AbsentType DEF StartSweep, PassTypeOK, Sweeps, NoSweep, ClusterTypeOK
  <2>. QED
    BY <1>0, <1>1, <2>1, <2>2, RestateUnchangedType, ClusterKept
    DEF StartSweep, TypeOK, PassTypeOK
<1>2. CASE UnscheduleActive
  <2>1. op' \in OpStates
    BY <1>0, <1>2 DEF UnscheduleActive, Goto, PassTypeOK, OpStates, Steps
  <2>2. sweep' \in Sweeps
    BY <1>0, <1>2 DEF UnscheduleActive, PassTypeOK, Sweeps
  <2>3. ClusterTypeOK'
    BY <1>0, <1>2, ReplicaSetType, TargetType
    DEF UnscheduleActive, ClusterTypeOK, object, caches, cluster
  <2>. QED
    BY <1>0, <1>2, <2>1, <2>2, <2>3, RestateUnchangedType
    DEF UnscheduleActive, TypeOK, PassTypeOK
<1>3. CASE Deregister
  <2>1. RestateTypeOK'
    BY <1>0, <1>3, DeleteDeploymentType DEF Deregister
  <2>2. op' \in OpStates
    BY <1>0, <1>3 DEF Deregister, Goto, PassTypeOK, OpStates, Steps
  <2>. QED
    BY <1>0, <1>3, <2>1, <2>2, ClusterKept DEF Deregister, TypeOK, PassTypeOK
<1>4. CASE DeleteReplicaSet
  <2>1. op' \in OpStates
    BY <1>0, <1>4 DEF DeleteReplicaSet, Goto, PassTypeOK, OpStates, Steps
  <2>2. sweep' \in Sweeps
    BY <1>0, <1>4 DEF DeleteReplicaSet, PassTypeOK, Sweeps
  <2>3. ClusterTypeOK'
    BY <1>0, <1>4, AbsentType
    DEF DeleteReplicaSet, ClusterTypeOK, object, caches, cluster
  <2>. QED
    BY <1>0, <1>4, <2>1, <2>2, <2>3, RestateUnchangedType
    DEF DeleteReplicaSet, TypeOK, PassTypeOK
<1>5. CASE PatchMissing
  BY <1>0, <1>5, EndPassType, FailureReasonType, RestateUnchangedType, ClusterKept
  DEF PatchMissing, TypeOK, PassTypeOK, Reasons
<1>6. ASSUME NEW v \in Versions, KeepActive(v)
      PROVE  TypeOK'
  <2>1. op' \in OpStates
    BY <1>0, <1>6 DEF KeepActive, Goto, PassTypeOK, OpStates, Steps
  <2>2. sweep' \in Sweeps
    BY <1>0, <1>6 DEF KeepActive, PassTypeOK, Sweeps
  <2>3. ClusterTypeOK'
    BY <1>0, <1>6, ReplicaSetType, TargetType
    DEF KeepActive, ClusterTypeOK, object, caches, cluster, HpasWithout
  <2>. QED
    BY <1>0, <1>6, <2>1, <2>2, <2>3, RestateUnchangedType
    DEF KeepActive, TypeOK, PassTypeOK
<1>7. ASSUME NEW v \in Versions, ScheduleRemoval(v)
      PROVE  TypeOK'
  <2>1. sweep' \in Sweeps
    BY <1>0, <1>7 DEF ScheduleRemoval, PassTypeOK, Sweeps
  <2>2. ClusterTypeOK'
    BY <1>0, <1>7, ReplicaSetType, TargetType
    DEF ScheduleRemoval, ClusterTypeOK, object, caches, cluster
  <2>. QED
    BY <1>0, <1>7, <2>1, <2>2, RestateUnchangedType
    DEF ScheduleRemoval, TypeOK, PassTypeOK
<1>8. ASSUME NEW v \in Versions, AwaitRemoval(v)
      PROVE  TypeOK'
  <2>1. sweep' \in Sweeps
    BY <1>0, <1>8 DEF AwaitRemoval, PassTypeOK, Sweeps
  <2>. QED
    BY <1>0, <1>8, <2>1, RestateUnchangedType, ClusterKept
    DEF AwaitRemoval, TypeOK, PassTypeOK
<1>9. ASSUME NEW v \in Versions, StopVersion(v)
      PROVE  TypeOK'
  <2>1. op' \in OpStates
    BY <1>0, <1>9 DEF StopVersion, Goto, PassTypeOK, OpStates, Steps
  <2>2. PICK retain \in BOOLEAN :
          sweep' = [sweep EXCEPT !.todo = @ \ {v},
                                 !.at = IF retain THEN NoVersion ELSE v,
                                 !.historic = IF retain THEN @ + 1 ELSE @]
    BY <1>9 DEF StopVersion, RetainForRollback
  <2>3. sweep' \in Sweeps
    <3>1. sweep \in Sweeps /\ sweep.historic + 1 \in Nat
      BY <1>0 DEF PassTypeOK, Sweeps
    <3>2. CASE retain
      BY <2>2, <3>1, <3>2 DEF Sweeps
    <3>3. CASE ~retain
      BY <2>2, <3>1, <3>3 DEF Sweeps
    <3>. QED
      BY <3>2, <3>3
  <2>4. ClusterTypeOK'
    BY <1>0, <1>9, ReplicaSetType, TargetType
    DEF StopVersion, ClusterTypeOK, object, caches, cluster, HpasWithout
  <2>. QED
    BY <1>0, <1>9, <2>1, <2>3, <2>4, RestateUnchangedType
    DEF StopVersion, TypeOK, PassTypeOK
<1>. QED
  BY <1>1, <1>2, <1>3, <1>4, <1>5, <1>6, <1>7, <1>8, <1>9 DEF SweepStep

LEMMA CleanupStepType ==
  ASSUME TypeOK, CleanupStep
  PROVE  TypeOK'
<1>0. RestateTypeOK /\ ClusterTypeOK /\ PassTypeOK
  BY DEF TypeOK
<1>1. CASE StartCleanup
  <2>1. op' \in OpStates
    BY <1>0, <1>1, IdleType
    DEF StartCleanup, Goto, PassTypeOK, OpStates, Steps, Idle, ClusterTypeOK, Modes
  <2>. QED
    BY <1>0, <1>1, <2>1, RestateUnchangedType, ClusterKept
    DEF StartCleanup, TypeOK, PassTypeOK
<1>2. CASE ClusterDeleted
  <2>1. op' \in OpStates
    BY <1>0, <1>2 DEF ClusterDeleted, Goto, PassTypeOK, OpStates, Steps
  <2>. QED
    BY <1>0, <1>2, <2>1, RestateUnchangedType, ClusterKept
    DEF ClusterDeleted, TypeOK, PassTypeOK
<1>3. CASE ClusterFound
  <2>1. op' \in OpStates
    BY <1>0, <1>3, ModeForType
    DEF ClusterFound, Goto, PassTypeOK, OpStates, Steps, CurrentMode
  <2>. QED
    BY <1>0, <1>3, <2>1, RestateUnchangedType, ClusterKept
    DEF ClusterFound, TypeOK, PassTypeOK
<1>4. CASE QueryForCleanup
  <2>1. usage' \in Usages
    BY <1>0, <1>4, UsageAnswerType DEF QueryForCleanup
  <2>2. op' \in OpStates
    BY <1>0, <1>4, ModeForType
    DEF QueryForCleanup, CurrentMode, PassTypeOK, OpStates, Steps
  <2>. QED
    BY <1>0, <1>4, <2>1, <2>2, RestateUnchangedType, ClusterKept
    DEF QueryForCleanup, TypeOK, PassTypeOK
<1>5. CASE AwaitDrain
  BY <1>0, <1>5, EndPassType, FailureReasonType, RestateUnchangedType, ClusterKept
  DEF AwaitDrain, TypeOK, PassTypeOK, Reasons
<1>6. CASE FinishCleanup
  <2>1. op' \in OpStates
    BY <1>0, <1>6 DEF FinishCleanup, Goto, PassTypeOK, OpStates, Steps
  <2>. QED
    BY <1>0, <1>6, <2>1, RestateUnchangedType, ClusterKept
    DEF FinishCleanup, TypeOK, PassTypeOK
<1>7. CASE ReleaseFinalizer
  <2>1. ClusterTypeOK'
    BY <1>0, <1>7 DEF ReleaseFinalizer, ClusterTypeOK, cluster, caches
  <2>. QED
    BY <1>7, <2>1, EndPassType, RestateUnchangedType, <1>0
    DEF ReleaseFinalizer, TypeOK, PassTypeOK, Reasons
<1>. QED
  BY <1>1, <1>2, <1>3, <1>4, <1>5, <1>6, <1>7 DEF CleanupStep

LEMMA EnvironmentType ==
  ASSUME TypeOK, Environment
  PROVE  TypeOK'
<1>0. RestateTypeOK /\ ClusterTypeOK /\ PassTypeOK
  BY DEF TypeOK
<1>1. CASE EditSpec
  <2>1. ClusterTypeOK'
    BY <1>0, <1>1, DeploymentAssumption
    DEF EditSpec, ClusterTypeOK, object, cluster, caches, Pass, DeploymentAssumption,
        Specs
  <2>. QED
    BY <1>0, <1>1, <2>1, RestateUnchangedType, PassKept DEF EditSpec, TypeOK, Pass
<1>2. CASE DeleteObject
  <2>1. ClusterTypeOK'
    BY <1>0, <1>2 DEF DeleteObject, ClusterTypeOK, object, cluster, caches, Pass
  <2>. QED
    BY <1>0, <1>2, <2>1, RestateUnchangedType, PassKept DEF DeleteObject, TypeOK, Pass
<1>3. CASE ClusterChanges
  <2>1. ClusterTypeOK'
    BY <1>0, <1>3, DeploymentAssumption
    DEF ClusterChanges, DeploymentAssumption, ClusterTypeOK, cluster, caches
  <2>2. RestateTypeOK'
    BY <1>0, <1>3, RestateWipedType, RestateUnchangedType DEF ClusterChanges
  <2>. QED
    BY <1>0, <1>3, <2>1, <2>2, PassKept DEF ClusterChanges, TypeOK
<1>4. CASE CollectGarbage
  <2>1. ClusterTypeOK'
    BY <1>0, <1>4, AbsentType
    DEF CollectGarbage, ClusterTypeOK, object, cluster, caches, Pass
  <2>. QED
    BY <1>0, <1>4, <2>1, RestateUnchangedType, PassKept DEF CollectGarbage, TypeOK, Pass
<1>5. CASE Sync
  <2>1. ClusterTypeOK'
    BY <1>0, <1>5 DEF Sync, ClusterTypeOK, object, cluster, caches, Pass
  <2>. QED
    BY <1>0, <1>5, <2>1, RestateUnchangedType, PassKept DEF Sync, TypeOK, Pass
<1>6. CASE SyncHpa
  <2>1. ClusterTypeOK'
    BY <1>0, <1>6 DEF SyncHpa, ClusterTypeOK, object, cluster, caches, Pass
  <2>. QED
    BY <1>0, <1>6, <2>1, RestateUnchangedType, PassKept DEF SyncHpa, TypeOK, Pass
<1>7. CASE Invocations
  BY <1>0, <1>7, InvocationsType, ClusterKept, PassKept DEF Invocations, TypeOK, Pass
<1>8. ASSUME NEW v \in Versions, PodsBecomeReady(v)
      PROVE  TypeOK'
  <2>1. ClusterTypeOK'
    BY <1>0, <1>8 DEF PodsBecomeReady, ClusterTypeOK, object, cluster, caches, Pass
  <2>. QED
    BY <1>0, <1>8, <2>1, RestateUnchangedType, PassKept
    DEF PodsBecomeReady, TypeOK, Pass
<1>9. ASSUME NEW v \in Versions, PodsStop(v)
      PROVE  TypeOK'
  <2>1. ClusterTypeOK'
    BY <1>0, <1>9 DEF PodsStop, ClusterTypeOK, object, cluster, caches, Pass
  <2>. QED
    BY <1>0, <1>9, <2>1, RestateUnchangedType, PassKept DEF PodsStop, TypeOK, Pass
<1>. QED
  BY <1>1, <1>2, <1>3, <1>4, <1>5, <1>6, <1>7, <1>8, <1>9 DEF Environment

LEMMA FailureType ==
  ASSUME TypeOK, Failure
  PROVE  TypeOK'
<1>0. RestateTypeOK /\ ClusterTypeOK /\ PassTypeOK
  BY DEF TypeOK
<1>1. CASE AdminUnreachable
  BY <1>0, <1>1, EndPassType, FailureReasonType, RestateUnchangedType, ClusterKept
  DEF AdminUnreachable, TypeOK, PassTypeOK, Reasons
<1>2. CASE PassFails
  <2>1. ClusterTypeOK'
    BY <1>0, <1>2, DeploymentAssumption
    DEF PassFails, DeploymentAssumption, ClusterTypeOK, object, cluster, caches
  <2>2. PassTypeOK'
    BY <1>2, EndPassType, FailureReasonType DEF PassFails, PassTypeOK, Reasons
  <2>. QED
    BY <1>0, <1>2, <2>1, <2>2, RestateUnchangedType DEF PassFails, TypeOK
<1>3. CASE OperatorRestarts
  <2>1. ClusterTypeOK'
    BY <1>0, <1>3, DeploymentAssumption
    DEF OperatorRestarts, DeploymentAssumption, ClusterTypeOK, object, cluster
  <2>2. PassTypeOK'
    BY <1>3, EndPassType DEF OperatorRestarts, PassTypeOK, Reasons
  <2>. QED
    BY <1>0, <1>3, <2>1, <2>2, RestateUnchangedType DEF OperatorRestarts, TypeOK
<1>. QED
  BY <1>1, <1>2, <1>3 DEF Failure

LEMMA TickType ==
  ASSUME TypeOK, Tick
  PROVE  TypeOK'
<1>0. RestateTypeOK /\ ClusterTypeOK /\ PassTypeOK
  BY DEF TypeOK
<1>1. rs' \in [Versions -> ReplicaSets] /\ cache' \in [Versions -> ReplicaSets]
  BY <1>0, ReplicaSetType DEF Tick, ClusterTypeOK
<1>2. drainLeft' \in 0 .. DrainTimeout
  BY <1>0, DeploymentAssumption
  DEF DeploymentAssumption, Tick, TickingDrain, ClusterTypeOK
<1>3. ClusterTypeOK'
  BY <1>0, <1>1, <1>2 DEF Tick, ClusterTypeOK
<1>. QED
  BY <1>0, <1>3, RestateUnchangedType, PassKept DEF Tick, TypeOK

LEMMA InitType == Init => TypeOK /\ ReplyGiven
<1>. SUFFICES ASSUME Init PROVE TypeOK /\ ReplyGiven
  OBVIOUS
<1>1. RestateTypeOK
  BY RestateAssumption DEF RestateAssumption, Init, RestateInit, RestateTypeOK
<1>2. ClusterTypeOK
  BY AbsentType, DeploymentAssumption
  DEF DeploymentAssumption, Init, ClusterTypeOK, Specs
<1>3. PassTypeOK
  BY IdleType, NoUsageType, NoSweepType, DeploymentAssumption
  DEF DeploymentAssumption, Init, PassTypeOK, Reasons
<1>4. ReplyGiven
  BY DEF Init, Idle, Target, ReplyGiven
<1>. QED
  BY <1>1, <1>2, <1>3, <1>4 DEF TypeOK

LEMMA ReplyStep == TypeOK /\ ReplyGiven /\ [Next]_vars => ReplyGiven'
<1>. SUFFICES ASSUME TypeOK, ReplyGiven, [Next]_vars PROVE ReplyGiven'
  OBVIOUS
<1>0. op \in OpStates
  BY DEF TypeOK, PassTypeOK
<1>1. CASE Register
  BY <1>0, <1>1 DEF Register, FreshIds, Unused, Target, OpStates, ReplyGiven
<1>2. CASE RecordId
  BY <1>0, <1>2 DEF RecordId, At, Goto, Target, OpStates, ReplyGiven
<1>3. CASE ApplyStep
  <2>1. CASE StartApply
    BY <1>0, <2>1 DEF StartApply, Idle, OpStates, ReplyGiven
  <2>2. CASE CreateReplicaSet
    BY <1>0, <2>2 DEF CreateReplicaSet, Goto, OpStates, ReplyGiven
  <2>3. CASE AdoptReplicaSet
    BY <1>0, <2>3 DEF AdoptReplicaSet, OpStates, ReplyGiven
  <2>4. CASE UnscheduleAdopted
    BY <1>0, <2>4 DEF UnscheduleAdopted, Goto, OpStates, ReplyGiven
  <2>5. CASE PublishVersion
    BY <1>0, <2>5 DEF PublishVersion, Goto, OpStates, ReplyGiven
  <2>6. CASE RoutingUnchanged
    BY <1>0, <2>6 DEF RoutingUnchanged, EndPass, Idle, OpStates, ReplyGiven
  <2>7. CASE RoutingChanged
    BY <1>0, <2>7 DEF RoutingChanged, Goto, OpStates, ReplyGiven
  <2>8. CASE QueryUsage
    BY <1>0, <2>8 DEF QueryUsage, OpStates, ReplyGiven
  <2>9. CASE ReportConflict
    BY <1>0, <2>9 DEF ReportConflict, EndPass, Idle, OpStates, ReplyGiven
  <2>10. CASE ClusterNotFound
    BY <1>0, <2>10 DEF ClusterNotFound, EndPass, Idle, OpStates, ReplyGiven
  <2>11. CASE ValidateReady
    BY <1>0, <2>11 DEF ValidateReady, Goto, OpStates, ReplyGiven
  <2>12. CASE ValidateNotReady
    BY <1>0, <2>12 DEF ValidateNotReady, OpStates, ReplyGiven
  <2>13. CASE DiscoveryFails
    BY <1>0, <2>13 DEF DiscoveryFails, EndPass, Idle, OpStates, ReplyGiven
  <2>14. CASE ConfirmLatest
    BY <1>0, <2>14 DEF ConfirmLatest, Goto, OpStates, ReplyGiven
  <2>15. CASE ReportNotLatest
    BY <1>0, <2>15 DEF ReportNotLatest, EndPass, Idle, OpStates, ReplyGiven
  <2>16. CASE FinishApply
    BY <1>0, <2>16 DEF FinishApply, EndPass, Idle, OpStates, ReplyGiven
  <2>. QED
    BY <1>3, <2>1, <2>2, <2>3, <2>4, <2>5, <2>6, <2>7, <2>8, <2>9, <2>10, <2>11, <2>12,
       <2>13, <2>14, <2>15, <2>16, <1>1, <1>2
    DEF ApplyStep
<1>4. CASE SweepStep
  <2>1. CASE StartSweep
    BY <1>0, <2>1 DEF StartSweep, Goto, OpStates, ReplyGiven
  <2>2. CASE UnscheduleActive
    BY <1>0, <2>2 DEF UnscheduleActive, Goto, OpStates, ReplyGiven
  <2>3. CASE Deregister
    BY <1>0, <2>3 DEF Deregister, Goto, OpStates, ReplyGiven
  <2>4. CASE DeleteReplicaSet
    BY <1>0, <2>4 DEF DeleteReplicaSet, Goto, OpStates, ReplyGiven
  <2>5. CASE PatchMissing
    BY <1>0, <2>5 DEF PatchMissing, EndPass, Idle, OpStates, ReplyGiven
  <2>6. ASSUME NEW v \in Versions, KeepActive(v)
        PROVE  ReplyGiven'
    BY <1>0, <2>6 DEF KeepActive, Goto, OpStates, ReplyGiven
  <2>7. ASSUME NEW v \in Versions, ScheduleRemoval(v)
        PROVE  ReplyGiven'
    BY <1>0, <2>7 DEF ScheduleRemoval, IsNext, At, OpStates, ReplyGiven
  <2>8. ASSUME NEW v \in Versions, AwaitRemoval(v)
        PROVE  ReplyGiven'
    BY <1>0, <2>8 DEF AwaitRemoval, IsNext, At, OpStates, ReplyGiven
  <2>9. ASSUME NEW v \in Versions, StopVersion(v)
        PROVE  ReplyGiven'
    BY <1>0, <2>9 DEF StopVersion, Goto, OpStates, ReplyGiven
  <2>. QED
    BY <1>4, <2>1, <2>2, <2>3, <2>4, <2>5, <2>6, <2>7, <2>8, <2>9 DEF SweepStep
<1>5. CASE CleanupStep
  <2>1. CASE StartCleanup
    BY <1>0, <2>1 DEF StartCleanup, Idle, OpStates, ReplyGiven
  <2>2. CASE ClusterDeleted
    BY <1>0, <2>2 DEF ClusterDeleted, Goto, OpStates, ReplyGiven
  <2>3. CASE ClusterFound
    BY <1>0, <2>3 DEF ClusterFound, OpStates, ReplyGiven
  <2>4. CASE QueryForCleanup
    BY <1>0, <2>4 DEF QueryForCleanup, OpStates, ReplyGiven
  <2>5. CASE AwaitDrain
    BY <1>0, <2>5 DEF AwaitDrain, EndPass, Idle, OpStates, ReplyGiven
  <2>6. CASE FinishCleanup
    BY <1>0, <2>6 DEF FinishCleanup, Goto, OpStates, ReplyGiven
  <2>7. CASE ReleaseFinalizer
    BY <1>0, <2>7 DEF ReleaseFinalizer, EndPass, Idle, OpStates, ReplyGiven
  <2>. QED
    BY <1>5, <2>1, <2>2, <2>3, <2>4, <2>5, <2>6, <2>7 DEF CleanupStep
<1>6. CASE Failure
  BY <1>6
  DEF Failure, AdminUnreachable, PassFails, OperatorRestarts, EndPass, Idle, Target,
      ReplyGiven
<1>7. CASE Environment \/ Tick \/ UNCHANGED vars
  BY <1>7
  DEF Environment, EditSpec, DeleteObject, ClusterChanges, CollectGarbage,
      PodsBecomeReady,
      PodsStop, Sync, SyncHpa, Invocations, Tick, vars, Pass, Target, ReplyGiven
<1>. QED
  BY <1>1, <1>2, <1>3, <1>4, <1>5, <1>6, <1>7 DEF Next, Move, Operator

LEMMA StepType == TypeOK /\ ReplyGiven /\ [Next]_vars => TypeOK'
<1>. SUFFICES ASSUME TypeOK, ReplyGiven, [Next]_vars PROVE TypeOK'
  OBVIOUS
<1>0. RestateTypeOK /\ ClusterTypeOK /\ PassTypeOK
  BY DEF TypeOK
<1>1. CASE Move
  BY <1>1, ApplyStepType, SweepStepType, CleanupStepType, FailureType, EnvironmentType
  DEF Move, Operator
<1>2. CASE Tick
  BY <1>2, TickType
<1>3. CASE UNCHANGED vars
  BY <1>0, <1>3, RestateUnchangedType, ClusterKept, PassKept DEF vars, TypeOK
<1>. QED
  BY <1>1, <1>2, <1>3 DEF Next

LEMMA TypeInvariant == Spec => [](TypeOK /\ ReplyGiven)
BY InitType, StepType, ReplyStep, PTL DEF Spec

\* Every variable keeps its type: in particular no deadline runs past the drain
\* delay or below zero, and no pass is left in a position the code does not have
\* (reconcile, cleanup, cleanup_old_replicasets).
THEOREM TypeCorrect == Spec => []TypeOK
BY TypeInvariant, PTL
=============================================================================
