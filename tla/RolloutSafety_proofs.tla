------------------------ MODULE RolloutSafety_proofs ------------------------
(***************************************************************************)
(* RolloutInvariant is inductive, and so a rollout never scales down a     *)
(* version Restate needs, for every value of the constants: any number of  *)
(* versions and services, any history limit and delays, other users of the *)
(* same Restate, lost registrations and failing calls.  One assumption is  *)
(* made: a pass begins with a cache that has caught up.                    *)
(***************************************************************************)
EXTENDS RestateDeployment_proofs

-----------------------------------------------------------------------------
(* Ids of a version.                                                       *)

LEMMA IdsDisjoint ==
  ASSUME NEW v, NEW w, NEW id \in IdsOf(v), id \in IdsOf(w)
  PROVE  v = w
BY DEF IdsOf

LEMMA IdsNotNoId == \A v : NoId \notin IdsOf(v)
BY RestateAssumption DEF RestateAssumption, IdsOf

-----------------------------------------------------------------------------
(* What others do to Restate makes it need less of ours, never more.       *)

LEMMA DeleteNeedsLess ==
  ASSUME RestateTypeOK, NEW id, DeleteDeployment(id)
  PROVE  /\ registered' \subseteq registered
         /\ \A x \in registered' : Needed(x)' => Needed(x)
<1>1. registered' \subseteq registered
  BY DEF DeleteDeployment
<1>2. \A s \in Services : route'[s] = route[s] \/ route'[s] = NoId
  BY DEF DeleteDeployment, RestateTypeOK
<1>3. \A x \in Ids : x # id => pinned'[x] = pinned[x]
  BY DEF DeleteDeployment, RestateTypeOK
<1>4. id \notin registered'
  BY DEF DeleteDeployment
<1>. QED
  BY <1>1, <1>2, <1>3, <1>4, RestateAssumption
  DEF RestateTypeOK, RestateAssumption, Needed, LatestIds

\* Registering an endpoint takes services away from the other versions.
LEMMA RegisterNeedsLess ==
  ASSUME RestateTypeOK, NEW v, NEW id \in IdsOf(v), NEW force, RegisterEndpoint(v, id, force)
  PROVE  /\ registered' = registered \cup {id}
         /\ \A x \in registered' \ IdsOf(v) : x \in registered /\ (Needed(x)' => Needed(x))
<1>1. registered' = registered \cup {id} /\ UNCHANGED pinned
  BY DEF RegisterEndpoint
<1>2. \A s \in Services : route'[s] = route[s] \/ route'[s] = id
  BY DEF RegisterEndpoint
<1>. QED
  BY <1>1, <1>2 DEF Needed, LatestIds

LEMMA InvocationsNeedLess ==
  ASSUME RestateTypeOK, Invocations
  PROVE  /\ registered' \subseteq registered
         /\ \A id \in registered' : Needed(id)' => Needed(id)
<1>. USE DEF Needed, LatestIds
<1>1. ASSUME NEW s \in Services, Invoke(s) \/ Unqueue(s)
      PROVE  UNCHANGED <<registered, route, pinned>>
  BY <1>1 DEF Invoke, Unqueue
<1>2. ASSUME NEW s \in Services, Pin(s)
      PROVE  /\ UNCHANGED registered
             /\ \A id \in registered' : Needed(id)' => Needed(id)
  <2>1. UNCHANGED <<registered, route>> /\ route[s] \in Ids
    BY <1>2 DEF Pin
  <2>2. \A id \in Ids : id # route[s] => pinned'[id] = pinned[id]
    BY <1>2 DEF Pin, RestateTypeOK
  <2>. QED
    BY <2>1, <2>2 DEF RestateTypeOK
<1>3. ASSUME NEW id \in Ids, Complete(id)
      PROVE  /\ UNCHANGED registered
             /\ \A x \in registered' : Needed(x)' => Needed(x)
  <2>1. UNCHANGED <<registered, route>> /\ pinned[id] > 0
    BY <1>3 DEF Complete
  <2>2. \A x \in Ids : x # id => pinned'[x] = pinned[x]
    BY <1>3 DEF Complete, RestateTypeOK
  <2>. QED
    BY <2>1, <2>2 DEF RestateTypeOK
<1>4. ASSUME NEW s \in Services, ForeignRegister(s)
      PROVE  /\ UNCHANGED registered
             /\ \A id \in registered' : Needed(id)' => Needed(id)
  <2>1. UNCHANGED <<registered, pinned>>
    BY <1>4 DEF ForeignRegister
  <2>2. \A r \in Services : route'[r] = route[r] \/ route'[r] = Foreign
    BY <1>4 DEF ForeignRegister, RestateTypeOK
  <2>. QED
    BY <2>1, <2>2, RestateAssumption DEF RestateTypeOK, RestateAssumption
<1>5. ASSUME NEW id \in Ids, OutOfBandDelete(id)
      PROVE  /\ registered' \subseteq registered
             /\ \A x \in registered' : Needed(x)' => Needed(x)
  BY <1>5, DeleteNeedsLess DEF OutOfBandDelete
<1>. QED
  BY <1>1, <1>2, <1>3, <1>4, <1>5 DEF Invocations

-----------------------------------------------------------------------------
(* A ReplicaSet's annotation is an id of its own version's endpoint.       *)

LEMMA AgedKeeps ==
  ASSUME NEW r \in ReplicaSets
  PROVE  Aged(r).id = r.id /\ Aged(r).up = r.up /\ Aged(r).exists = r.exists
BY DEF Aged, ReplicaSets

LEMMA IdsBelongStep == TypeOK /\ IdsBelong /\ ReplyGiven /\ [Next]_vars => IdsBelong'
<1>. SUFFICES ASSUME TypeOK, IdsBelong, ReplyGiven, [Next]_vars PROVE IdsBelong'
  OBVIOUS
<1>0. /\ IdsBelong /\ ReplyGiven
      /\ rs \in [Versions -> ReplicaSets] /\ cache \in [Versions -> ReplicaSets]
      /\ Absent.id = NoId
  BY DEF TypeOK, ClusterTypeOK, Absent
<1>1. ASSUME UNCHANGED rs PROVE IdsBelong'
  BY <1>0, <1>1 DEF IdsBelong
<1>2. ASSUME NEW v \in Versions, NEW r, rs' = [rs EXCEPT ![v] = r], r.id \in {rs[v].id, NoId}
      PROVE  IdsBelong'
  BY <1>0, <1>2 DEF IdsBelong
<1>3. CASE CreateReplicaSet
  <2>1. Created(op.self.gen).id = NoId
    BY DEF Created
  <2>. QED
    BY <1>0, <1>3, <2>1 DEF CreateReplicaSet, IdsBelong
<1>4. CASE AdoptReplicaSet
  BY <1>0, <1>1, <1>4 DEF AdoptReplicaSet, IdsBelong, ReplicaSets
<1>5. CASE UnscheduleAdopted
  BY <1>0, <1>1, <1>5 DEF UnscheduleAdopted, IdsBelong, ReplicaSets
<1>6. CASE RecordId
  <2>1. op.reply \in IdsOf(Target)
    BY <1>0, <1>6 DEF RecordId, At, ReplyGiven
  <2>2. rs' = [rs EXCEPT ![Target].id = op.reply]
    BY <1>6 DEF RecordId
  <2>. QED
    BY <1>0, <2>1, <2>2 DEF IdsBelong, ReplicaSets
<1>7. CASE UnscheduleActive
  BY <1>0, <1>1, <1>7 DEF UnscheduleActive, IdsBelong, ReplicaSets
<1>8. CASE DeleteReplicaSet
  BY <1>0, <1>1, <1>8 DEF DeleteReplicaSet, IdsBelong
<1>9. ASSUME NEW v \in Versions, KeepActive(v) PROVE IdsBelong'
  BY <1>0, <1>1, <1>9 DEF KeepActive, IdsBelong, ReplicaSets
<1>10. ASSUME NEW v \in Versions, ScheduleRemoval(v) PROVE IdsBelong'
  BY <1>0, <1>1, <1>10 DEF ScheduleRemoval, IdsBelong, ReplicaSets
<1>11. ASSUME NEW v \in Versions, StopVersion(v) PROVE IdsBelong'
  BY <1>0, <1>1, <1>11 DEF StopVersion, IdsBelong, ReplicaSets
<1>12. CASE CollectGarbage
  BY <1>0, <1>1, <1>12 DEF CollectGarbage, IdsBelong
<1>13. CASE Tick
  BY <1>0, <1>1, <1>13, AgedKeeps DEF Tick, IdsBelong
<1>14. ASSUME NEW v \in Versions, AwaitRemoval(v) \/ PodsBecomeReady(v) \/ PodsStop(v)
      PROVE  UNCHANGED rs
  BY <1>14 DEF AwaitRemoval, PodsBecomeReady, PodsStop, cluster
<1>15. ASSUME \/ StartApply \/ PublishVersion \/ RoutingUnchanged \/ RoutingChanged
             \/ QueryUsage \/ ReportConflict \/ ClusterNotFound \/ ValidateReady
             \/ ValidateNotReady \/ Register \/ DiscoveryFails \/ ConfirmLatest
             \/ ReportNotLatest \/ FinishApply
      PROVE  UNCHANGED rs
  BY <1>15
  DEF StartApply, PublishVersion, RoutingUnchanged, RoutingChanged, QueryUsage,
      ReportConflict, ClusterNotFound, ValidateReady, ValidateNotReady, Register,
      DiscoveryFails, ConfirmLatest, ReportNotLatest, FinishApply, cluster
<1>16. ASSUME \/ StartSweep \/ Deregister \/ PatchMissing \/ StartCleanup
             \/ ClusterDeleted \/ ClusterFound \/ QueryForCleanup \/ AwaitDrain
             \/ FinishCleanup \/ ReleaseFinalizer \/ EditSpec \/ DeleteObject
             \/ ClusterChanges \/ Sync \/ SyncHpa \/ Invocations
             \/ AdminUnreachable \/ PassFails \/ OperatorRestarts
      PROVE  UNCHANGED rs
  BY <1>16
  DEF StartSweep, Deregister, PatchMissing, StartCleanup, ClusterDeleted, ClusterFound,
      QueryForCleanup, AwaitDrain, FinishCleanup, ReleaseFinalizer, EditSpec,
      DeleteObject, ClusterChanges, Sync, SyncHpa, Invocations, AdminUnreachable,
      PassFails, OperatorRestarts, cluster
<1>. QED
  BY <1>1, <1>3, <1>4, <1>5, <1>6, <1>7, <1>8, <1>9, <1>10, <1>11, <1>12, <1>13, <1>14,
     <1>15, <1>16
  DEF Next, Move, Operator, ApplyStep, SweepStep, CleanupStep, Failure, Environment,
      vars, cluster

-----------------------------------------------------------------------------
(* When the parts of SafeWhileLive carry over from one state to the next.  *)

NeedsNoMore ==
  /\ registered' \subseteq registered
  /\ \A id \in registered' : Needed(id)' => Needed(id)

LEMMA SameRestate == UNCHANGED <<registered, route, pinned>> => NeedsNoMore
BY DEF NeedsNoMore, Needed, LatestIds

LEMMA ServingKept ==
  ASSUME RestateTypeOK', phase = "live", RecordedServingUp, NeedsNoMore,
         \A v \in Versions : \/ rs'[v].up
                             \/ rs'[v].id = rs[v].id /\ rs'[v].up = rs[v].up
                             \/ rs'[v].id = NoId
  PROVE  RecordedServingUp'
<1>1. NoId \notin registered'
  BY RestateAssumption DEF RestateTypeOK, RestateAssumption
<1>. QED
  BY <1>1 DEF RecordedServingUp, NeedsNoMore

LEMMA AnswerKept ==
  ASSUME AnswerHolds, NeedsNoMore, op.pc \in Answered, Target' = Target, UNCHANGED usage
  PROVE  AnswerHolds'
BY DEF AnswerHolds, NeedsNoMore

LEMMA ListKept ==
  ASSUME ListHolds, op.pc \in (Adopted \ Walking) \cup {"adopt"}, op'.pc \notin Walking,
         Target' = Target, UNCHANGED cache,
         \A v \in Versions \ {Target} : rs'[v].id = rs[v].id
  PROVE  ListHolds'
BY DEF ListHolds

LEMMA WalkKept ==
  ASSUME ListHolds, op.pc \in Walking, op'.pc \in Walking, Target' = Target,
         sweep'.view = sweep.view, sweep'.todo \subseteq sweep.todo,
         sweep'.at \notin sweep'.todo \cup {Target},
         \A v \in sweep'.todo : rs'[v].id = rs[v].id
  PROVE  ListHolds'
BY DEF ListHolds, Walking, Adopted, Answered

\* The end of a pass.
LEMMA EndedSafe ==
  ASSUME RestateTypeOK', phase = "live", RecordedServingUp, op' = Idle,
         UNCHANGED <<registered, route, pinned, rs>>
  PROVE  SafeWhileLive' /\ RecordedServingUp'
<1>1. RecordedServingUp'
  BY SameRestate, ServingKept
<1>2. op'.pc = "idle" /\ op'.mode = "Rollout"
  BY DEF Idle
<1>. QED
  BY <1>1, <1>2
  DEF SafeWhileLive, LiveRollsOut, TargetUp, AnswerHolds, ListHolds, Adopted, Answered,
      Walking

\* A step of anyone but the controller.
LEMMA OthersSafe ==
  ASSUME RestateTypeOK', phase = "live", SafeWhileLive, RecordedServingUp, NeedsNoMore,
         UNCHANGED <<op, usage, sweep>>,
         \A v \in Versions : /\ rs'[v].id = rs[v].id
                             /\ rs'[v].up = rs[v].up
                             /\ rs'[v].exists = rs[v].exists,
         \A v \in Versions : cache'[v].id = cache[v].id \/ cache'[v].id = rs[v].id,
         Target \in Versions, sweep.todo \subseteq Versions
  PROVE  SafeWhileLive' /\ RecordedServingUp'
<1>1. Target' = Target
  BY DEF Target
<1>2. RecordedServingUp'
  BY ServingKept
<1>3. LiveRollsOut' /\ TargetUp'
  BY <1>1 DEF SafeWhileLive, LiveRollsOut, TargetUp
<1>4. AnswerHolds'
  BY <1>1 DEF SafeWhileLive, AnswerHolds, NeedsNoMore
<1>5. ListHolds'
  BY <1>1 DEF SafeWhileLive, ListHolds
<1>. QED
  BY <1>2, <1>3, <1>4, <1>5 DEF SafeWhileLive

-----------------------------------------------------------------------------
(* Each step of a rollout.                                                 *)

LiveState == /\ TypeOK /\ TypeOK'
             /\ phase = "live" /\ IdsBelong /\ ReplyGiven
             /\ SafeWhileLive /\ RecordedServingUp

LEMMA LiveFacts ==
  ASSUME LiveState
  PROVE  /\ RestateTypeOK' /\ phase = "live" /\ RecordedServingUp /\ IdsBelong /\ ReplyGiven
         /\ LiveRollsOut /\ TargetUp /\ AnswerHolds /\ ListHolds
         /\ op.mode = "Rollout" /\ op \in OpStates /\ Target \in Versions
         /\ rs \in [Versions -> ReplicaSets] /\ cache \in [Versions -> ReplicaSets]
         /\ sweep \in Sweeps /\ registered \subseteq Ids
BY TargetType
DEF LiveState, SafeWhileLive, LiveRollsOut, TypeOK, RestateTypeOK, ClusterTypeOK,
    PassTypeOK

LEMMA StartApplySafe ==
  ASSUME LiveState, LagBetweenPasses = FALSE, StartApply
  PROVE  SafeWhileLive' /\ RecordedServingUp'
<1>0. LiveState
  OBVIOUS
<1>1. /\ op'.pc = "adopt" /\ op'.mode = "Rollout" /\ cache = rs
      /\ UNCHANGED <<restate, cluster, caches>>
  BY LiveFacts DEF StartApply, CaughtUp, Idle
<1>2. RecordedServingUp'
  BY LiveFacts, SameRestate, ServingKept DEF StartApply, restate, cluster
<1>3. TargetUp'
  BY <1>1 DEF TargetUp, Adopted, Answered, Walking
<1>4. AnswerHolds'
  BY <1>1 DEF AnswerHolds, Answered, Walking
<1>5. ListHolds'
  BY <1>1 DEF ListHolds, Walking, caches, cluster
<1>. QED
  BY <1>1, <1>2, <1>3, <1>4, <1>5, LiveFacts DEF SafeWhileLive, LiveRollsOut

LEMMA CreateReplicaSetSafe ==
  ASSUME LiveState, CreateReplicaSet
  PROVE  SafeWhileLive' /\ RecordedServingUp'
<1>0. LiveState
  OBVIOUS
<1>1. op.pc = "adopt" /\ op'.pc = "publish" /\ Target' = Target /\ op'.mode = "Rollout"
  BY LiveFacts DEF CreateReplicaSet, At, Calls, Goto, Target, OpStates
<1>2. RecordedServingUp'
  BY LiveFacts, SameRestate, ServingKept DEF CreateReplicaSet, Created, restate
<1>3. TargetUp'
  BY <1>1, LiveFacts DEF CreateReplicaSet, Created, TargetUp
<1>4. AnswerHolds'
  BY <1>1 DEF AnswerHolds, Answered, Walking
<1>5. ListHolds'
  BY <1>1, LiveFacts, ListKept
  DEF CreateReplicaSet, Adopted, Answered, Walking, cluster, caches
<1>. QED
  BY <1>1, <1>2, <1>3, <1>4, <1>5, LiveFacts DEF SafeWhileLive, LiveRollsOut

LEMMA AdoptReplicaSetSafe ==
  ASSUME LiveState, AdoptReplicaSet
  PROVE  SafeWhileLive' /\ RecordedServingUp'
<1>0. LiveState
  OBVIOUS
<1>1. /\ op.pc = "adopt" /\ op'.pc \in {"publish", "unschedule"}
      /\ Target' = Target /\ op'.mode = "Rollout"
  BY LiveFacts DEF AdoptReplicaSet, At, Calls, Goto, Target, OpStates
<1>2. RecordedServingUp'
  BY LiveFacts, SameRestate, ServingKept DEF AdoptReplicaSet, ReplicaSets, restate
<1>3. TargetUp'
  BY <1>1, LiveFacts DEF AdoptReplicaSet, ReplicaSets, TargetUp
<1>4. AnswerHolds'
  BY <1>1 DEF AnswerHolds, Answered, Walking
<1>5. ListHolds'
  BY <1>1, LiveFacts, ListKept
  DEF AdoptReplicaSet, Adopted, Answered, Walking, cluster, caches
<1>. QED
  BY <1>1, <1>2, <1>3, <1>4, <1>5, LiveFacts DEF SafeWhileLive, LiveRollsOut

LEMMA UnscheduleAdoptedSafe ==
  ASSUME LiveState, UnscheduleAdopted
  PROVE  SafeWhileLive' /\ RecordedServingUp'
<1>0. LiveState
  OBVIOUS
<1>1. /\ op.pc = "unschedule" /\ op'.pc = "publish"
      /\ Target' = Target /\ op'.mode = "Rollout"
  BY LiveFacts DEF UnscheduleAdopted, At, Calls, Goto, Target, OpStates
<1>2. RecordedServingUp'
  BY LiveFacts, SameRestate, ServingKept DEF UnscheduleAdopted, ReplicaSets, restate
<1>3. TargetUp'
  BY <1>1, LiveFacts DEF UnscheduleAdopted, ReplicaSets, TargetUp, Adopted
<1>4. AnswerHolds'
  BY <1>1 DEF AnswerHolds, Answered, Walking
<1>5. ListHolds'
  BY <1>1, LiveFacts, ListKept
  DEF UnscheduleAdopted, Adopted, Answered, Walking, cluster, caches
<1>. QED
  BY <1>1, <1>2, <1>3, <1>4, <1>5, LiveFacts DEF SafeWhileLive, LiveRollsOut

LEMMA PublishVersionSafe ==
  ASSUME LiveState, PublishVersion
  PROVE  SafeWhileLive' /\ RecordedServingUp'
<1>0. LiveState
  OBVIOUS
<1>1. /\ op.pc = "publish" /\ op'.pc \in {"routing", "query"}
      /\ Target' = Target /\ op'.mode = "Rollout"
  BY LiveFacts DEF PublishVersion, At, Calls, Goto, Target, OpStates
<1>2. RecordedServingUp'
  BY LiveFacts, SameRestate, ServingKept DEF PublishVersion, restate, cluster
<1>3. TargetUp'
  BY <1>1, LiveFacts DEF PublishVersion, TargetUp, Adopted, Answered, Walking, cluster
<1>4. AnswerHolds'
  BY <1>1 DEF AnswerHolds, Answered, Walking
<1>5. ListHolds'
  BY <1>1, LiveFacts, ListKept
  DEF PublishVersion, Adopted, Answered, Walking, cluster, caches
<1>. QED
  BY <1>1, <1>2, <1>3, <1>4, <1>5, LiveFacts DEF SafeWhileLive, LiveRollsOut

LEMMA RoutingChangedSafe ==
  ASSUME LiveState, RoutingChanged
  PROVE  SafeWhileLive' /\ RecordedServingUp'
<1>0. LiveState
  OBVIOUS
<1>1. op.pc = "routing" /\ op'.pc = "query" /\ Target' = Target /\ op'.mode = "Rollout"
  BY LiveFacts DEF RoutingChanged, At, Calls, Goto, Target, OpStates
<1>2. RecordedServingUp'
  BY LiveFacts, SameRestate, ServingKept DEF RoutingChanged, restate, cluster
<1>3. TargetUp'
  BY <1>1, LiveFacts DEF RoutingChanged, TargetUp, Adopted, Answered, Walking, cluster
<1>4. AnswerHolds'
  BY <1>1 DEF AnswerHolds, Answered, Walking
<1>5. ListHolds'
  BY <1>1, LiveFacts, ListKept
  DEF RoutingChanged, Adopted, Answered, Walking, cluster, caches
<1>. QED
  BY <1>1, <1>2, <1>3, <1>4, <1>5, LiveFacts DEF SafeWhileLive, LiveRollsOut

LEMMA QueryUsageSafe ==
  ASSUME LiveState, QueryUsage
  PROVE  SafeWhileLive' /\ RecordedServingUp'
<1>0. LiveState
  OBVIOUS
<1>1. /\ op.pc = "query" /\ op'.pc \in {"sweep", "validate"}
      /\ Target' = Target /\ op'.mode = "Rollout"
  BY LiveFacts DEF QueryUsage, At, Calls, Goto, Target, OpStates
<1>2. RecordedServingUp'
  BY LiveFacts, SameRestate, ServingKept DEF QueryUsage, restate, cluster
<1>3. TargetUp'
  BY <1>1, LiveFacts DEF QueryUsage, TargetUp, Adopted, Answered, Walking, cluster
<1>4. AnswerHolds'
  <2>1. usage' = UsageAnswer("Rollout") /\ UNCHANGED <<registered, route, pinned>>
    BY DEF QueryUsage, restate
  <2>. QED
    BY <1>1, <2>1, LiveFacts DEF AnswerHolds, UsageAnswer, Needed, LatestIds
<1>5. ListHolds'
  BY <1>1, LiveFacts, ListKept
  DEF QueryUsage, Adopted, Answered, Walking, cluster, caches
<1>. QED
  BY <1>1, <1>2, <1>3, <1>4, <1>5, LiveFacts DEF SafeWhileLive, LiveRollsOut

LEMMA ValidateReadySafe ==
  ASSUME LiveState, ValidateReady
  PROVE  SafeWhileLive' /\ RecordedServingUp'
<1>0. LiveState
  OBVIOUS
<1>1. /\ op.pc = "validate" /\ op'.pc = "register"
      /\ Target' = Target /\ op'.mode = "Rollout"
  BY LiveFacts DEF ValidateReady, At, Calls, Goto, Target, OpStates
<1>2. RecordedServingUp'
  BY LiveFacts, SameRestate, ServingKept DEF ValidateReady, restate, cluster
<1>3. TargetUp'
  BY <1>1, LiveFacts DEF ValidateReady, TargetUp, Adopted, Answered, Walking, cluster
<1>4. AnswerHolds'
  BY <1>1, LiveFacts, SameRestate, AnswerKept
  DEF ValidateReady, Answered, Walking, restate
<1>5. ListHolds'
  BY <1>1, LiveFacts, ListKept
  DEF ValidateReady, Adopted, Answered, Walking, cluster, caches
<1>. QED
  BY <1>1, <1>2, <1>3, <1>4, <1>5, LiveFacts DEF SafeWhileLive, LiveRollsOut

LEMMA ValidateNotReadySafe ==
  ASSUME LiveState, ValidateNotReady
  PROVE  SafeWhileLive' /\ RecordedServingUp'
<1>0. LiveState
  OBVIOUS
<1>1. op.pc = "validate" /\ op'.pc = "sweep" /\ Target' = Target /\ op'.mode = "Rollout"
  BY LiveFacts DEF ValidateNotReady, At, Calls, Goto, Target, OpStates
<1>2. RecordedServingUp'
  BY LiveFacts, SameRestate, ServingKept DEF ValidateNotReady, restate, cluster
<1>3. TargetUp'
  BY <1>1, LiveFacts DEF ValidateNotReady, TargetUp, Adopted, Answered, Walking, cluster
<1>4. AnswerHolds'
  BY <1>1, LiveFacts, SameRestate, AnswerKept
  DEF ValidateNotReady, Answered, Walking, restate
<1>5. ListHolds'
  BY <1>1, LiveFacts, ListKept
  DEF ValidateNotReady, Adopted, Answered, Walking, cluster, caches
<1>. QED
  BY <1>1, <1>2, <1>3, <1>4, <1>5, LiveFacts DEF SafeWhileLive, LiveRollsOut

LEMMA RegisterSafe ==
  ASSUME LiveState, Register
  PROVE  SafeWhileLive' /\ RecordedServingUp'
<1>0. LiveState
  OBVIOUS
<1>1. PICK id \in IdsOf(Target) :
        /\ RegisterEndpoint(Target, id, op.action = "Promote")
        /\ op' = [op EXCEPT !.reply = id, !.pc = IF id = op.id THEN "confirm" ELSE "record"]
  BY DEF Register, FreshIds, Unused
<1>2. /\ registered' = registered \cup {id}
      /\ \A x \in registered' \ IdsOf(Target) : x \in registered /\ (Needed(x)' => Needed(x))
  BY <1>1, LiveFacts, RegisterNeedsLess DEF LiveState, TypeOK
<1>3. /\ op.pc = "register" /\ op'.pc \in {"record", "confirm"}
      /\ Target' = Target /\ op'.mode = "Rollout"
  BY <1>1, LiveFacts DEF Register, Calls, At, Target, OpStates
<1>4. UNCHANGED <<rs, cache, usage>>
  BY DEF Register, cluster, caches
<1>5. TargetUp'
  BY <1>3, <1>4, LiveFacts DEF TargetUp, Adopted, Answered
<1>6. AnswerHolds'
  BY <1>2, <1>3, <1>4, LiveFacts DEF AnswerHolds, Answered
<1>7. ListHolds'
  BY <1>3, <1>4, LiveFacts, ListKept DEF Adopted, Answered, Walking
<1>8. RecordedServingUp'
  <2>. SUFFICES ASSUME NEW v \in Versions, rs[v].id \in registered', Needed(rs[v].id)'
                PROVE  rs[v].up
    BY <1>4 DEF RecordedServingUp
  <2>1. CASE v = Target
    BY <1>3, <2>1, LiveFacts DEF TargetUp, Adopted, Answered
  <2>2. CASE v # Target
    <3>1. rs[v].id # NoId
      BY LiveFacts, RestateAssumption
      DEF RestateTypeOK, RestateAssumption, LiveState, TypeOK
    <3>2. rs[v].id \in IdsOf(v) /\ rs[v].id \notin IdsOf(Target)
      BY <2>2, <3>1, LiveFacts, IdsDisjoint DEF IdsBelong
    <3>. QED
      BY <1>2, <1>4, <3>2, LiveFacts DEF RecordedServingUp, Needed, LatestIds
  <2>. QED
    BY <2>1, <2>2
<1>. QED
  BY <1>3, <1>5, <1>6, <1>7, <1>8 DEF SafeWhileLive, LiveRollsOut

LEMMA RecordIdSafe ==
  ASSUME LiveState, RecordId
  PROVE  SafeWhileLive' /\ RecordedServingUp'
<1>0. LiveState
  OBVIOUS
<1>1. op.pc = "record" /\ op'.pc = "confirm" /\ Target' = Target /\ op'.mode = "Rollout"
  BY LiveFacts DEF RecordId, At, Calls, Goto, Target, OpStates
<1>2. RecordedServingUp'
  <2>1. rs'[Target].up
    BY <1>1, LiveFacts DEF RecordId, TargetUp, Adopted, Answered, ReplicaSets
  <2>2. \A v \in Versions \ {Target} : rs'[v] = rs[v]
    BY LiveFacts DEF RecordId
  <2>. QED
    BY <2>1, <2>2, LiveFacts, SameRestate, ServingKept DEF RecordId, restate
<1>3. TargetUp'
  BY <1>1, LiveFacts DEF RecordId, ReplicaSets, TargetUp, Adopted, Answered
<1>4. AnswerHolds'
  BY <1>1, LiveFacts, SameRestate, AnswerKept DEF RecordId, Answered, Walking, restate
<1>5. ListHolds'
  BY <1>1, LiveFacts, ListKept DEF RecordId, Adopted, Answered, Walking, cluster, caches
<1>. QED
  BY <1>1, <1>2, <1>3, <1>4, <1>5, LiveFacts DEF SafeWhileLive, LiveRollsOut

LEMMA ConfirmLatestSafe ==
  ASSUME LiveState, ConfirmLatest
  PROVE  SafeWhileLive' /\ RecordedServingUp'
<1>0. LiveState
  OBVIOUS
<1>1. op.pc = "confirm" /\ op'.pc = "sweep" /\ Target' = Target /\ op'.mode = "Rollout"
  BY LiveFacts DEF ConfirmLatest, At, Calls, Goto, Target, OpStates
<1>2. RecordedServingUp'
  BY LiveFacts, SameRestate, ServingKept DEF ConfirmLatest, restate, cluster
<1>3. TargetUp'
  BY <1>1, LiveFacts DEF ConfirmLatest, TargetUp, Adopted, Answered, Walking, cluster
<1>4. AnswerHolds'
  <2>1. op.reply \in IdsOf(Target)
    BY <1>1, LiveFacts DEF ReplyGiven
  <2>2. /\ usage'.known = usage.known \cup {op.reply}
        /\ usage'.latest = usage.latest \cup {op.reply}
        /\ usage'.busy = usage.busy \ {op.reply}
    BY DEF ConfirmLatest
  <2>3. NeedsNoMore
    BY SameRestate DEF ConfirmLatest, restate
  <2>. QED
    BY <1>1, <2>1, <2>2, <2>3, LiveFacts DEF AnswerHolds, Answered, NeedsNoMore
<1>5. ListHolds'
  BY <1>1, LiveFacts, ListKept
  DEF ConfirmLatest, Adopted, Answered, Walking, cluster, caches
<1>. QED
  BY <1>1, <1>2, <1>3, <1>4, <1>5, LiveFacts DEF SafeWhileLive, LiveRollsOut

LEMMA StartSweepSafe ==
  ASSUME LiveState, StartSweep
  PROVE  SafeWhileLive' /\ RecordedServingUp'
<1>0. LiveState
  OBVIOUS
<1>1. op.pc = "sweep" /\ op'.pc = "item" /\ Target' = Target /\ op'.mode = "Rollout"
  BY LiveFacts DEF StartSweep, At, Calls, Goto, Target, OpStates
<1>2. RecordedServingUp'
  BY LiveFacts, SameRestate, ServingKept DEF StartSweep, restate, cluster
<1>3. TargetUp'
  BY <1>1, LiveFacts DEF StartSweep, TargetUp, Adopted, Answered, Walking, cluster
<1>4. AnswerHolds'
  BY <1>1, LiveFacts, SameRestate, AnswerKept DEF StartSweep, Answered, Walking, restate
<1>5. ListHolds'
  <2>1. /\ sweep'.at = NoVersion
        /\ sweep'.todo \subseteq Versions \ {Target}
        /\ \A v \in sweep'.todo : sweep'.view[v] = cache[v]
    BY <1>1, LiveFacts DEF StartSweep, NoSweep, IsDeleting
  <2>2. \A v \in Versions \ {Target} : cache[v].id = rs[v].id
    BY <1>1, LiveFacts DEF ListHolds, Adopted, Answered, Walking
  <2>3. NoVersion \notin Versions /\ Target \in Versions
    BY LiveFacts, DeploymentAssumption DEF DeploymentAssumption
  <2>4. UNCHANGED rs
    BY DEF StartSweep, cluster
  <2>. QED
    BY <1>1, <2>1, <2>2, <2>3, <2>4 DEF ListHolds, Adopted, Answered, Walking
<1>. QED
  BY <1>1, <1>2, <1>3, <1>4, <1>5, LiveFacts DEF SafeWhileLive, LiveRollsOut

LEMMA UnscheduleActiveSafe ==
  ASSUME LiveState, UnscheduleActive
  PROVE  SafeWhileLive' /\ RecordedServingUp'
<1>0. LiveState
  OBVIOUS
<1>1. op.pc = "keep" /\ op'.pc = "item" /\ Target' = Target /\ op'.mode = "Rollout"
  BY LiveFacts DEF UnscheduleActive, At, Calls, Goto, Target, OpStates
<1>2. RecordedServingUp'
  BY LiveFacts, SameRestate, ServingKept DEF UnscheduleActive, ReplicaSets, restate
<1>3. TargetUp'
  BY <1>1, LiveFacts
  DEF UnscheduleActive, TargetUp, Adopted, Answered, Walking, ReplicaSets
<1>4. AnswerHolds'
  BY <1>1, LiveFacts, SameRestate, AnswerKept
  DEF UnscheduleActive, Answered, Walking, restate
<1>5. ListHolds'
  <2>1. sweep'.todo = sweep.todo /\ sweep'.view = sweep.view /\ sweep'.at = NoVersion
    BY LiveFacts DEF UnscheduleActive, Sweeps
  <2>2. NoVersion \notin sweep.todo \cup {Target}
    BY LiveFacts, DeploymentAssumption DEF DeploymentAssumption, Sweeps
  <2>3. \A v \in sweep.todo : rs'[v].id = rs[v].id
    BY LiveFacts DEF UnscheduleActive, Sweeps, ReplicaSets
  <2>. QED
    BY <1>1, <2>1, <2>2, <2>3, LiveFacts, WalkKept DEF Walking
<1>. QED
  BY <1>1, <1>2, <1>3, <1>4, <1>5, LiveFacts DEF SafeWhileLive, LiveRollsOut

LEMMA DeregisterSafe ==
  ASSUME LiveState, Deregister
  PROVE  SafeWhileLive' /\ RecordedServingUp'
<1>0. LiveState
  OBVIOUS
<1>1. /\ op.pc = "deregister" /\ op'.pc = "delete"
      /\ Target' = Target /\ op'.mode = "Rollout"
  BY LiveFacts DEF Deregister, At, Calls, Goto, Target, OpStates
<1>2. NeedsNoMore
  BY DeleteNeedsLess DEF Deregister, NeedsNoMore, LiveState, TypeOK
<1>3. UNCHANGED <<rs, usage, sweep>>
  BY DEF Deregister, cluster
<1>4. RecordedServingUp'
  BY <1>2, <1>3, LiveFacts, ServingKept
<1>5. TargetUp'
  BY <1>1, <1>3, LiveFacts DEF TargetUp, Adopted, Answered, Walking
<1>6. AnswerHolds'
  BY <1>1, <1>2, <1>3, LiveFacts, AnswerKept DEF Answered, Walking
<1>7. ListHolds'
  BY <1>1, <1>3, LiveFacts, WalkKept DEF Walking, ListHolds
<1>. QED
  BY <1>1, <1>4, <1>5, <1>6, <1>7 DEF SafeWhileLive, LiveRollsOut

LEMMA DeleteReplicaSetSafe ==
  ASSUME LiveState, DeleteReplicaSet
  PROVE  SafeWhileLive' /\ RecordedServingUp'
<1>0. LiveState
  OBVIOUS
<1>1. op.pc = "delete" /\ op'.pc = "item" /\ Target' = Target /\ op'.mode = "Rollout"
  BY LiveFacts DEF DeleteReplicaSet, At, Calls, Goto, Target, OpStates
<1>2. RecordedServingUp'
  <2>1. \A v \in Versions : rs'[v] = rs[v] \/ rs'[v].id = NoId
    BY LiveFacts DEF DeleteReplicaSet, Absent
  <2>. QED
    BY <2>1, LiveFacts, SameRestate, ServingKept DEF DeleteReplicaSet, restate
<1>3. TargetUp'
  <2>1. sweep.at # Target
    BY <1>1, LiveFacts DEF ListHolds, Walking
  <2>. QED
    BY <1>1, <2>1, LiveFacts DEF DeleteReplicaSet, TargetUp, Adopted, Answered, Walking
<1>4. AnswerHolds'
  BY <1>1, LiveFacts, SameRestate, AnswerKept
  DEF DeleteReplicaSet, Answered, Walking, restate
<1>5. ListHolds'
  <2>1. sweep'.todo = sweep.todo /\ sweep'.view = sweep.view /\ sweep'.at = NoVersion
    BY LiveFacts DEF DeleteReplicaSet, Sweeps
  <2>2. NoVersion \notin sweep.todo \cup {Target}
    BY LiveFacts, DeploymentAssumption DEF DeploymentAssumption, Sweeps
  <2>3. \A v \in sweep.todo : rs'[v] = rs[v]
    BY <1>1, LiveFacts DEF DeleteReplicaSet, Sweeps, ListHolds, Walking
  <2>. QED
    BY <1>1, <2>1, <2>2, <2>3, LiveFacts, WalkKept DEF Walking
<1>. QED
  BY <1>1, <1>2, <1>3, <1>4, <1>5, LiveFacts DEF SafeWhileLive, LiveRollsOut

LEMMA KeepActiveSafe ==
  ASSUME LiveState, NEW v \in Versions, KeepActive(v)
  PROVE  SafeWhileLive' /\ RecordedServingUp'
<1>0. LiveState
  OBVIOUS
<1>1. /\ op.pc = "item" /\ op'.pc \in {"item", "keep"}
      /\ Target' = Target /\ op'.mode = "Rollout"
  BY LiveFacts DEF KeepActive, At, Calls, Goto, Target, OpStates, IsNext
<1>2. RecordedServingUp'
  BY LiveFacts, SameRestate, ServingKept DEF KeepActive, ReplicaSets, restate
<1>3. TargetUp'
  BY <1>1, LiveFacts DEF KeepActive, TargetUp, Adopted, Answered, Walking, ReplicaSets
<1>4. AnswerHolds'
  BY <1>1, LiveFacts, SameRestate, AnswerKept DEF KeepActive, Answered, Walking, restate
<1>5. ListHolds'
  <2>1. /\ sweep'.todo = sweep.todo \ {v} /\ sweep'.view = sweep.view
        /\ sweep'.at \in {sweep.at, v, NoVersion}
    BY LiveFacts DEF KeepActive, Sweeps
  <2>2. NoVersion \notin sweep.todo \cup {Target}
    BY LiveFacts, DeploymentAssumption DEF DeploymentAssumption, Sweeps
  <2>3. \A w \in Versions : rs'[w].id = rs[w].id
    BY LiveFacts DEF KeepActive, ReplicaSets
  <2>4. sweep.at \notin sweep.todo \cup {Target} /\ v # Target
    BY <1>1, LiveFacts DEF KeepActive, IsNext, Sweeps, ListHolds, Walking
  <2>5. sweep'.at \notin sweep'.todo \cup {Target}
    BY <2>1, <2>2, <2>4
  <2>6. \A w \in sweep'.todo : rs'[w].id = rs[w].id
    BY <2>1, <2>3, LiveFacts DEF Sweeps
  <2>. QED
    BY <1>1, <2>1, <2>5, <2>6, LiveFacts, WalkKept DEF Walking
<1>. QED
  BY <1>1, <1>2, <1>3, <1>4, <1>5, LiveFacts DEF SafeWhileLive, LiveRollsOut

LEMMA ScheduleRemovalSafe ==
  ASSUME LiveState, NEW v \in Versions, ScheduleRemoval(v)
  PROVE  SafeWhileLive' /\ RecordedServingUp'
<1>0. LiveState
  OBVIOUS
<1>1. op.pc = "item" /\ op'.pc \in {"item"} /\ Target' = Target /\ op'.mode = "Rollout"
  BY LiveFacts DEF ScheduleRemoval, At, Calls, Goto, Target, OpStates, IsNext
<1>2. RecordedServingUp'
  BY LiveFacts, SameRestate, ServingKept DEF ScheduleRemoval, ReplicaSets, restate
<1>3. TargetUp'
  BY <1>1, LiveFacts
  DEF ScheduleRemoval, TargetUp, Adopted, Answered, Walking, ReplicaSets
<1>4. AnswerHolds'
  BY <1>1, LiveFacts, SameRestate, AnswerKept
  DEF ScheduleRemoval, Answered, Walking, restate
<1>5. ListHolds'
  <2>1. /\ sweep'.todo = sweep.todo \ {v} /\ sweep'.view = sweep.view
        /\ sweep'.at \in {sweep.at, v, NoVersion}
    BY LiveFacts DEF ScheduleRemoval, Sweeps
  <2>2. NoVersion \notin sweep.todo \cup {Target}
    BY LiveFacts, DeploymentAssumption DEF DeploymentAssumption, Sweeps
  <2>3. \A w \in Versions : rs'[w].id = rs[w].id
    BY LiveFacts DEF ScheduleRemoval, ReplicaSets
  <2>4. sweep.at \notin sweep.todo \cup {Target} /\ v # Target
    BY <1>1, LiveFacts DEF ScheduleRemoval, IsNext, Sweeps, ListHolds, Walking
  <2>5. sweep'.at \notin sweep'.todo \cup {Target}
    BY <2>1, <2>2, <2>4
  <2>6. \A w \in sweep'.todo : rs'[w].id = rs[w].id
    BY <2>1, <2>3, LiveFacts DEF Sweeps
  <2>. QED
    BY <1>1, <2>1, <2>5, <2>6, LiveFacts, WalkKept DEF Walking
<1>. QED
  BY <1>1, <1>2, <1>3, <1>4, <1>5, LiveFacts DEF SafeWhileLive, LiveRollsOut

LEMMA AwaitRemovalSafe ==
  ASSUME LiveState, NEW v \in Versions, AwaitRemoval(v)
  PROVE  SafeWhileLive' /\ RecordedServingUp'
<1>0. LiveState
  OBVIOUS
<1>1. op.pc = "item" /\ op'.pc \in {"item"} /\ Target' = Target /\ op'.mode = "Rollout"
  BY LiveFacts DEF AwaitRemoval, At, Calls, Goto, Target, OpStates, IsNext
<1>2. RecordedServingUp'
  BY LiveFacts, SameRestate, ServingKept DEF AwaitRemoval, cluster, restate
<1>3. TargetUp'
  BY <1>1, LiveFacts DEF AwaitRemoval, TargetUp, Adopted, Answered, Walking, cluster
<1>4. AnswerHolds'
  BY <1>1, LiveFacts, SameRestate, AnswerKept
  DEF AwaitRemoval, Answered, Walking, restate
<1>5. ListHolds'
  <2>1. /\ sweep'.todo = sweep.todo \ {v} /\ sweep'.view = sweep.view
        /\ sweep'.at \in {sweep.at, v, NoVersion}
    BY LiveFacts DEF AwaitRemoval, Sweeps
  <2>2. NoVersion \notin sweep.todo \cup {Target}
    BY LiveFacts, DeploymentAssumption DEF DeploymentAssumption, Sweeps
  <2>3. \A w \in Versions : rs'[w].id = rs[w].id
    BY LiveFacts DEF AwaitRemoval, ReplicaSets, cluster
  <2>4. sweep.at \notin sweep.todo \cup {Target} /\ v # Target
    BY <1>1, LiveFacts DEF AwaitRemoval, IsNext, Sweeps, ListHolds, Walking
  <2>5. sweep'.at \notin sweep'.todo \cup {Target}
    BY <2>1, <2>2, <2>4
  <2>6. \A w \in sweep'.todo : rs'[w].id = rs[w].id
    BY <2>1, <2>3, LiveFacts DEF Sweeps
  <2>. QED
    BY <1>1, <2>1, <2>5, <2>6, LiveFacts, WalkKept DEF Walking
<1>. QED
  BY <1>1, <1>2, <1>3, <1>4, <1>5, LiveFacts DEF SafeWhileLive, LiveRollsOut

LEMMA StopVersionSafe ==
  ASSUME LiveState, NEW v \in Versions, StopVersion(v)
  PROVE  SafeWhileLive' /\ RecordedServingUp'
<1>0. LiveState
  OBVIOUS
<1>1. /\ op.pc = "item" /\ op'.pc \in {"item", "deregister", "delete"}
      /\ Target' = Target /\ op'.mode = "Rollout"
  BY LiveFacts DEF StopVersion, At, Calls, Goto, Target, OpStates, IsNext
<1>2. RecordedServingUp'
  <2>1. Seen(v).id = rs[v].id /\ v # Target /\ v \in Versions
    BY <1>1, LiveFacts DEF StopVersion, IsNext, Seen, ListHolds, Walking
  <2>2. ~(rs[v].id \in registered /\ Needed(rs[v].id))
    <3>. SUFFICES ASSUME rs[v].id \in registered, Needed(rs[v].id)
                  PROVE  FALSE
      OBVIOUS
    <3>1. rs[v].id \in IdsOf(v) /\ rs[v].id \notin IdsOf(Target)
      BY <2>1, LiveFacts, IdsDisjoint, RestateAssumption
      DEF IdsBelong, RestateAssumption
    <3>2. rs[v].id \in usage.known /\ rs[v].id \in usage.latest \cup usage.busy
      BY <1>1, <3>1, LiveFacts DEF AnswerHolds, Answered, Walking
    <3>. QED
      BY <2>1, <3>2, LiveFacts DEF StopVersion, Active, KnownToRestate, IsActive
  <2>3. \A w \in Versions \ {v} : rs'[w] = rs[w]
    BY LiveFacts DEF StopVersion
  <2>4. rs'[v].id = rs[v].id
    BY LiveFacts DEF StopVersion, ReplicaSets
  <2>5. UNCHANGED <<registered, route, pinned>>
    BY DEF StopVersion, restate
  <2>. QED
    BY <2>2, <2>3, <2>4, <2>5, LiveFacts DEF RecordedServingUp, Needed, LatestIds
<1>3. TargetUp'
  <2>1. v # Target
    BY <1>1, LiveFacts DEF StopVersion, IsNext, ListHolds, Walking
  <2>. QED
    BY <1>1, <2>1, LiveFacts DEF StopVersion, TargetUp, Adopted, Answered, Walking
<1>4. AnswerHolds'
  BY <1>1, LiveFacts, SameRestate, AnswerKept
  DEF StopVersion, Answered, Walking, restate
<1>5. ListHolds'
  <2>1. /\ sweep'.todo = sweep.todo \ {v} /\ sweep'.view = sweep.view
        /\ sweep'.at \in {sweep.at, v, NoVersion}
    BY LiveFacts DEF StopVersion, Sweeps
  <2>2. NoVersion \notin sweep.todo \cup {Target}
    BY LiveFacts, DeploymentAssumption DEF DeploymentAssumption, Sweeps
  <2>3. \A w \in Versions : rs'[w].id = rs[w].id
    BY LiveFacts DEF StopVersion, ReplicaSets
  <2>4. sweep.at \notin sweep.todo \cup {Target} /\ v # Target
    BY <1>1, LiveFacts DEF StopVersion, IsNext, Sweeps, ListHolds, Walking
  <2>5. sweep'.at \notin sweep'.todo \cup {Target}
    BY <2>1, <2>2, <2>4
  <2>6. \A w \in sweep'.todo : rs'[w].id = rs[w].id
    BY <2>1, <2>3, LiveFacts DEF Sweeps
  <2>. QED
    BY <1>1, <2>1, <2>5, <2>6, LiveFacts, WalkKept DEF Walking
<1>. QED
  BY <1>1, <1>2, <1>3, <1>4, <1>5, LiveFacts DEF SafeWhileLive, LiveRollsOut

-----------------------------------------------------------------------------
(* Every step.                                                             *)

LEMMA EndsSafe ==
  ASSUME LiveState,
         \/ RoutingUnchanged \/ ReportConflict \/ ClusterNotFound \/ DiscoveryFails
         \/ ReportNotLatest \/ FinishApply \/ PatchMissing
         \/ AdminUnreachable \/ PassFails \/ OperatorRestarts
  PROVE  SafeWhileLive' /\ RecordedServingUp'
<1>0. LiveState
  OBVIOUS
<1>1. op' = Idle /\ UNCHANGED <<registered, route, pinned, rs>>
  BY DEF RoutingUnchanged, ReportConflict, ClusterNotFound, DiscoveryFails,
         ReportNotLatest, FinishApply, PatchMissing,
         AdminUnreachable, PassFails, OperatorRestarts, EndPass, restate, cluster
<1>. QED
  BY <1>1, LiveFacts, EndedSafe

LEMMA EnvironmentSafe ==
  ASSUME LiveState, Environment \/ Tick \/ UNCHANGED vars, phase' = "live"
  PROVE  SafeWhileLive' /\ RecordedServingUp'
<1>0. LiveState
  OBVIOUS
<1>1. UNCHANGED <<op, usage, sweep>>
  BY DEF Environment, EditSpec, DeleteObject, ClusterChanges, CollectGarbage,
     PodsBecomeReady,
         PodsStop, Sync, SyncHpa, Invocations, Tick, vars, Pass
<1>2. NeedsNoMore
  <2>1. CASE Invocations
    BY <2>1, InvocationsNeedLess DEF NeedsNoMore, LiveState, TypeOK
  <2>2. CASE ClusterChanges
    BY <2>2, SameRestate DEF ClusterChanges, RestateWiped, NeedsNoMore, restate
  <2>3. CASE ~Invocations /\ ~ClusterChanges
    BY <2>3, SameRestate
    DEF Environment, EditSpec, DeleteObject, CollectGarbage, PodsBecomeReady,
        PodsStop, Sync, SyncHpa, Tick, vars, restate
  <2>. QED
    BY <2>1, <2>2, <2>3
<1>3. /\ \A v \in Versions : /\ rs'[v].id = rs[v].id
                            /\ rs'[v].up = rs[v].up
                            /\ rs'[v].exists = rs[v].exists
      /\ \A v \in Versions : cache'[v].id = cache[v].id \/ cache'[v].id = rs[v].id
  <2>1. CASE Tick
    BY <2>1, LiveFacts, AgedKeeps DEF Tick
  <2>2. CASE Sync
    BY <2>2 DEF Sync, cluster
  <2>3. CASE ~Tick /\ ~Sync
    BY <2>3, LiveFacts
    DEF Environment, EditSpec, DeleteObject, ClusterChanges, CollectGarbage,
        PodsBecomeReady,
        PodsStop, SyncHpa, Invocations, vars, cluster, caches, Pass
  <2>. QED
    BY <2>1, <2>2, <2>3
<1>4. sweep.todo \subseteq Versions
  BY LiveFacts DEF Sweeps
<1>. QED
  BY <1>1, <1>2, <1>3, <1>4, LiveFacts, OthersSafe DEF LiveState

LEMMA NoCleanupWhileLive ==
  ASSUME LiveState, CleanupStep
  PROVE  FALSE
<1>1. /\ op.mode = "Rollout" /\ op.pc \notin {"getCluster", "drainQuery", "release"}
      /\ phase = "live"
  BY LiveFacts DEF LiveRollsOut
<1>. QED
  BY <1>1
  DEF CleanupStep, StartCleanup, ClusterDeleted, ClusterFound, QueryForCleanup,
      AwaitDrain,
      FinishCleanup, ReleaseFinalizer, IsDeleting, At, Calls

\* No step brings a deleted object back to life.
LEMMA LiveBefore == TypeOK /\ [Next]_vars /\ phase' = "live" => phase = "live"
<1>. SUFFICES ASSUME TypeOK, [Next]_vars, phase' = "live" PROVE phase = "live"
  OBVIOUS
<1>1. ASSUME UNCHANGED phase PROVE phase = "live"
  BY <1>1
<1>2. CASE DeleteObject \/ ReleaseFinalizer
  BY <1>2 DEF DeleteObject, ReleaseFinalizer
<1>3. CASE Environment /\ ~DeleteObject
  BY <1>3
  DEF Environment, EditSpec, ClusterChanges, CollectGarbage, PodsBecomeReady,
      PodsStop, Sync, SyncHpa, Invocations, object
<1>4. CASE CleanupStep /\ ~ReleaseFinalizer
  BY <1>4
  DEF CleanupStep, StartCleanup, ClusterDeleted, ClusterFound, QueryForCleanup,
      AwaitDrain,
      FinishCleanup, object
<1>5. CASE Failure \/ Tick \/ UNCHANGED vars
  BY <1>5 DEF Failure, AdminUnreachable, PassFails, OperatorRestarts, Tick, vars, object
<1>6. CASE SweepStep
  BY <1>6
  DEF SweepStep, StartSweep, KeepActive, ScheduleRemoval, AwaitRemoval, StopVersion,
      UnscheduleActive, Deregister, DeleteReplicaSet, PatchMissing, object
<1>7. CASE ApplyStep
  BY <1>7
  DEF ApplyStep, StartApply, CreateReplicaSet, AdoptReplicaSet, UnscheduleAdopted,
      PublishVersion, RoutingUnchanged, RoutingChanged, QueryUsage, ReportConflict,
      ClusterNotFound, ValidateReady, ValidateNotReady, Register, DiscoveryFails, RecordId,
      ConfirmLatest, ReportNotLatest, FinishApply, object
<1>. QED
  BY <1>2, <1>3, <1>4, <1>5, <1>6, <1>7 DEF Next, Move, Operator

LEMMA LiveStep ==
  ASSUME LagBetweenPasses = FALSE, LiveState, [Next]_vars, phase' = "live"
  PROVE  SafeWhileLive' /\ RecordedServingUp'
<1>1. CASE ApplyStep
  BY <1>1, StartApplySafe, CreateReplicaSetSafe, AdoptReplicaSetSafe,
     UnscheduleAdoptedSafe,
     PublishVersionSafe, RoutingChangedSafe, QueryUsageSafe, ValidateReadySafe,
     ValidateNotReadySafe, RegisterSafe, RecordIdSafe, ConfirmLatestSafe, EndsSafe
  DEF ApplyStep
<1>2. CASE SweepStep
  BY <1>2, StartSweepSafe, KeepActiveSafe, ScheduleRemovalSafe, AwaitRemovalSafe,
     StopVersionSafe, UnscheduleActiveSafe, DeregisterSafe, DeleteReplicaSetSafe, EndsSafe
  DEF SweepStep
<1>3. CASE CleanupStep
  BY <1>3, NoCleanupWhileLive
<1>4. CASE Failure
  BY <1>4, EndsSafe DEF Failure
<1>5. CASE Environment \/ Tick \/ UNCHANGED vars
  BY <1>5, EnvironmentSafe
<1>. QED
  BY <1>1, <1>2, <1>3, <1>4, <1>5 DEF Next, Move, Operator

-----------------------------------------------------------------------------
(* The theorems.                                                           *)

LEMMA InitSafe == Init => RolloutSafe
<1>. SUFFICES ASSUME Init PROVE RolloutSafe
  OBVIOUS
<1>1. op = Idle /\ \A v \in Versions : rs[v].id = NoId
  BY DEF Init, Absent
<1>2. registered = {}
  BY DEF Init, RestateInit
<1>3. SafeWhileLive
  BY <1>1
  DEF Idle, SafeWhileLive, LiveRollsOut, TargetUp, AnswerHolds, ListHolds,
      Adopted, Answered, Walking
<1>. QED
  BY <1>1, <1>2, <1>3
  DEF RolloutSafe, ReplyGiven, IdsBelong, RecordedServingUp, Idle

LEMMA SafeStep ==
  ASSUME LagBetweenPasses = FALSE
  PROVE  TypeOK /\ TypeOK' /\ RolloutSafe /\ [Next]_vars => RolloutSafe'
<1>. SUFFICES ASSUME TypeOK, TypeOK', RolloutSafe, [Next]_vars PROVE RolloutSafe'
  OBVIOUS
<1>1. ReplyGiven' /\ IdsBelong'
  BY ReplyStep, IdsBelongStep DEF RolloutSafe
<1>2. ASSUME phase' = "live" PROVE SafeWhileLive' /\ RecordedServingUp'
  <2>1. phase = "live"
    BY <1>2, LiveBefore
  <2>2. LiveState
    BY <2>1 DEF LiveState, RolloutSafe
  <2>. QED
    BY <1>2, <2>2, LiveStep
<1>3. ASSUME phase' # "live" PROVE RecordedServingUp'
  BY <1>3 DEF RecordedServingUp
<1>. QED
  BY <1>1, <1>2, <1>3 DEF RolloutSafe

\* What a rollout concludes from its two snapshots stays true while it acts on
\* them (deployment_usage, cleanup_old_replicasets).
THEOREM RolloutInvariantHolds ==
  ASSUME LagBetweenPasses = FALSE
  PROVE  Spec => []RolloutSafe
<1>1. Init => RolloutSafe
  BY InitSafe
<1>2. TypeOK /\ TypeOK' /\ RolloutSafe /\ [Next]_vars => RolloutSafe'
  BY SafeStep
<1>. QED
  BY <1>1, <1>2, TypeCorrect, PTL DEF Spec

\* A rollout never scales down a version that Restate, under the id recorded for
\* it, still routes to or still runs invocations on (cleanup_old_replicasets).
THEOREM RolloutKeepsNeededVersions ==
  ASSUME LagBetweenPasses = FALSE
  PROVE  Spec => []RecordedServingUp
<1>1. RolloutSafe => RecordedServingUp
  BY DEF RolloutSafe
<1>. QED
  BY <1>1, RolloutInvariantHolds, PTL
=============================================================================
