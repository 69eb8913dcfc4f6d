------------------------- MODULE Registration_proofs -------------------------
(***************************************************************************)
(* RegistrationInvariant is inductive.  So, for every value of the         *)
(* constants, a drain without other users of its Restate finishes the work *)
(* on versions that take no new invocations; and when passes begin with    *)
(* caches that have caught up and no registration is lost before it is     *)
(* recorded, a released object leaves nothing registered.  With no other   *)
(* users either, RestateDeployment implements RolloutContract.             *)
(***************************************************************************)
EXTENDS RolloutSafety_proofs, RegistrationInvariant

-----------------------------------------------------------------------------
(* What the steps of a pass have in common.                                *)

Ends ==
  \/ RoutingUnchanged \/ ReportConflict \/ ClusterNotFound \/ DiscoveryFails
  \/ ReportNotLatest \/ FinishApply \/ PatchMissing \/ AwaitDrain \/ ReleaseFinalizer
  \/ AdminUnreachable \/ PassFails \/ OperatorRestarts

Outside == Environment \/ Tick \/ UNCHANGED vars

Begins == StartApply \/ StartCleanup

Continues ==
  \/ CreateReplicaSet \/ AdoptReplicaSet \/ UnscheduleAdopted \/ PublishVersion
  \/ RoutingChanged \/ QueryUsage \/ ValidateReady \/ ValidateNotReady
  \/ Register \/ RecordId \/ ConfirmLatest
  \/ StartSweep \/ UnscheduleActive \/ Deregister \/ DeleteReplicaSet
  \/ \E v \in Versions : \/ KeepActive(v) \/ ScheduleRemoval(v)
                         \/ AwaitRemoval(v) \/ StopVersion(v)
  \/ ClusterDeleted \/ ClusterFound \/ QueryForCleanup \/ FinishCleanup

LEMMA StepCases == [Next]_vars => Begins \/ Continues \/ Ends \/ Outside
BY DEF Next, Move, Operator, ApplyStep, SweepStep, CleanupStep, Failure, Begins,
       Continues, Ends, Outside

LEMMA EndsFacts ==
  ASSUME Ends
  PROVE  /\ op' = Idle
         /\ UNCHANGED <<registered, route, pinned, unpinned, rs, ready, hpa, spec, rc>>
         /\ phase' = phase \/ (At("release") /\ phase' = "gone")
         /\ cache' \in {cache, rs}
BY DEF Ends, RoutingUnchanged, ReportConflict, ClusterNotFound, DiscoveryFails,
       ReportNotLatest, FinishApply, PatchMissing, AwaitDrain, ReleaseFinalizer,
       AdminUnreachable, PassFails, OperatorRestarts, EndPass, restate, object, cluster,
       caches

LEMMA OutsideFacts ==
  ASSUME Outside
  PROVE  /\ UNCHANGED <<op, usage, sweep>>
         /\ phase' = phase \/ (phase = "live" /\ phase' = "deleting")
BY DEF Outside, Environment, EditSpec, DeleteObject, ClusterChanges, CollectGarbage,
       PodsBecomeReady, PodsStop, Sync, SyncHpa, Invocations, Tick, vars, Pass, object

LEMMA ContinuesFacts ==
  ASSUME Continues
  PROVE  UNCHANGED <<phase, drainLeft, spec, rc, cache, hpaCache, hpaListed>>
BY DEF Continues, CreateReplicaSet, AdoptReplicaSet, UnscheduleAdopted, PublishVersion,
       RoutingChanged, QueryUsage, ValidateReady, ValidateNotReady, Register, RecordId,
       ConfirmLatest, StartSweep, UnscheduleActive, Deregister, DeleteReplicaSet,
       KeepActive, ScheduleRemoval, AwaitRemoval, StopVersion, ClusterDeleted,
       ClusterFound, QueryForCleanup, FinishCleanup, object, caches

BeginsWith(pc, mode) ==
  /\ At("idle")
  /\ op' = [Idle EXCEPT !.pc = pc, !.self = spec, !.mode = mode]
  /\ op'.pc = pc /\ op'.mode = mode /\ op'.self = spec /\ op'.id = NoId
  /\ UNCHANGED <<registered, route, pinned, unpinned, rs, ready, hpa, phase, rc, cache,
                 usage, sweep>>
  /\ LagBetweenPasses \/ cache = rs

LEMMA BeginsFacts ==
  ASSUME Begins
  PROVE  \/ StartApply /\ BeginsWith("adopt", "Rollout") /\ phase = "live"
         \/ StartCleanup /\ BeginsWith("getCluster", "Deleting") /\ phase = "deleting"
BY DEF Begins, StartApply, StartCleanup, BeginsWith, CaughtUp, Idle, restate, object,
       cluster, caches

\* The pass goes from one of the steps in from to one of those in to.
Moves(from, to) ==
  /\ op.pc \in from /\ op'.pc \in to
  /\ op'.mode = op.mode /\ op'.self = op.self /\ Target' = Target

LEMMA ApplyMoves ==
  ASSUME TypeOK
  PROVE  /\ CreateReplicaSet => Moves({"adopt"}, {"publish"})
         /\ AdoptReplicaSet => Moves({"adopt"}, {"publish", "unschedule"})
         /\ UnscheduleAdopted => Moves({"unschedule"}, {"publish"})
         /\ PublishVersion => Moves({"publish"}, {"routing", "query"})
         /\ RoutingChanged => Moves({"routing"}, {"query"})
         /\ QueryUsage => Moves({"query"}, {"sweep", "validate"})
         /\ ValidateReady => Moves({"validate"}, {"register"})
         /\ ValidateNotReady => Moves({"validate"}, {"sweep"})
         /\ Register => Moves({"register"}, {"confirm", "record"})
         /\ RecordId => Moves({"record"}, {"confirm"})
         /\ ConfirmLatest => Moves({"confirm"}, {"sweep"})
<1>. USE DEF TypeOK, PassTypeOK, OpStates, Moves, Target, At, Calls, Goto
<1>1. CreateReplicaSet => Moves({"adopt"}, {"publish"})
  BY DEF CreateReplicaSet
<1>2. AdoptReplicaSet => Moves({"adopt"}, {"publish", "unschedule"})
  BY DEF AdoptReplicaSet
<1>3. UnscheduleAdopted => Moves({"unschedule"}, {"publish"})
  BY DEF UnscheduleAdopted
<1>4. PublishVersion => Moves({"publish"}, {"routing", "query"})
  BY DEF PublishVersion
<1>5. RoutingChanged => Moves({"routing"}, {"query"})
  BY DEF RoutingChanged
<1>6. QueryUsage => Moves({"query"}, {"sweep", "validate"})
  BY DEF QueryUsage
<1>7. ValidateReady => Moves({"validate"}, {"register"})
  BY DEF ValidateReady
<1>8. ValidateNotReady => Moves({"validate"}, {"sweep"})
  BY DEF ValidateNotReady
<1>9. Register => Moves({"register"}, {"confirm", "record"})
  BY DEF Register
<1>10. RecordId => Moves({"record"}, {"confirm"})
  BY DEF RecordId
<1>11. ConfirmLatest => Moves({"confirm"}, {"sweep"})
  BY DEF ConfirmLatest
<1>. QED
  BY <1>1, <1>2, <1>3, <1>4, <1>5, <1>6, <1>7, <1>8, <1>9, <1>10, <1>11

LEMMA SweepMoves ==
  ASSUME TypeOK
  PROVE  /\ StartSweep => Moves({"sweep"}, {"item"})
         /\ \A v \in Versions :
              /\ KeepActive(v) => Moves({"item"}, {"item", "keep"})
              /\ ScheduleRemoval(v) => Moves({"item"}, {"item"})
              /\ AwaitRemoval(v) => Moves({"item"}, {"item"})
              /\ StopVersion(v) => Moves({"item"}, {"item", "deregister", "delete"})
         /\ UnscheduleActive => Moves({"keep"}, {"item"})
         /\ Deregister => Moves({"deregister"}, {"delete"})
         /\ DeleteReplicaSet => Moves({"delete"}, {"item"})
BY DEF TypeOK, PassTypeOK, OpStates, Moves, Target, At, Calls, Goto, IsNext, StartSweep,
       KeepActive, ScheduleRemoval, AwaitRemoval, StopVersion, UnscheduleActive,
       Deregister, DeleteReplicaSet

LEMMA CleanupMoves ==
  ASSUME TypeOK
  PROVE  /\ ClusterDeleted => Moves({"getCluster"}, {"release"})
         /\ ClusterFound => /\ op.pc = "getCluster" /\ op'.pc = "drainQuery"
                            /\ op'.mode = CurrentMode(op.self) /\ Target' = Target
         /\ QueryForCleanup => /\ op.pc = "drainQuery" /\ op'.pc = "sweep"
                               /\ op'.mode = CurrentMode(op.self) /\ Target' = Target
         /\ FinishCleanup => Moves({"item"}, {"release"}) /\ IsDeleting(op.mode)
BY DEF TypeOK, PassTypeOK, OpStates, Moves, Target, At, Calls, Goto, ClusterDeleted,
       ClusterFound, QueryForCleanup, FinishCleanup

LEMMA CleanupMode ==
  ASSUME phase = "deleting", NEW self
  PROVE  IsDeleting(CurrentMode(self))
BY DEF CurrentMode, ModeFor, IsDeleting

\* The annotations change when a ReplicaSet comes, goes, or is annotated.
LEMMA NotesKept ==
  ASSUME TypeOK, [Next]_vars
  PROVE  \/ CreateReplicaSet \/ RecordId \/ DeleteReplicaSet \/ CollectGarbage
         \/ \A v \in Versions : rs'[v].id = rs[v].id /\ rs'[v].exists = rs[v].exists
<1>0. rs \in [Versions -> ReplicaSets]
  BY DEF TypeOK, ClusterTypeOK
<1>. DEFINE Same == \A v \in Versions : rs'[v].id = rs[v].id /\ rs'[v].exists = rs[v].exists
<1>1. ASSUME UNCHANGED rs PROVE Same
  BY <1>1
<1>2. CASE Begins \/ Ends
  BY <1>1, <1>2, BeginsFacts, EndsFacts DEF BeginsWith
<1>3. CASE Outside /\ ~CollectGarbage
  <2>1. CASE Tick
    BY <1>0, <2>1, AgedKeeps DEF Tick
  <2>2. CASE ~Tick
    BY <1>1, <1>3, <2>2
    DEF Outside, Environment, EditSpec, DeleteObject, ClusterChanges, PodsBecomeReady,
        PodsStop, Sync, SyncHpa, Invocations, vars, cluster
  <2>. QED
    BY <2>1, <2>2
<1>4. CASE AdoptReplicaSet \/ UnscheduleAdopted
  BY <1>0, <1>4, TargetType DEF AdoptReplicaSet, UnscheduleAdopted, ReplicaSets, TypeOK
<1>6. CASE UnscheduleActive
  BY <1>0, <1>6 DEF UnscheduleActive, ReplicaSets
<1>7. ASSUME NEW v \in Versions, KeepActive(v) PROVE Same
  BY <1>0, <1>7 DEF KeepActive, ReplicaSets
<1>8. ASSUME NEW v \in Versions, ScheduleRemoval(v) \/ StopVersion(v) PROVE Same
  BY <1>0, <1>8 DEF ScheduleRemoval, StopVersion, ReplicaSets
<1>5. CASE \/ PublishVersion \/ RoutingChanged \/ QueryUsage \/ ValidateReady
           \/ ValidateNotReady \/ Register \/ ConfirmLatest \/ StartSweep \/ Deregister
           \/ (\E v \in Versions : AwaitRemoval(v))
           \/ ClusterDeleted \/ ClusterFound \/ QueryForCleanup \/ FinishCleanup
  BY <1>1, <1>5
  DEF PublishVersion, RoutingChanged, QueryUsage, ValidateReady, ValidateNotReady,
      Register, ConfirmLatest, StartSweep, Deregister, AwaitRemoval, ClusterDeleted,
      ClusterFound, QueryForCleanup, FinishCleanup, cluster
<1>. QED
  BY <1>2, <1>3, <1>4, <1>5, <1>6, <1>7, <1>8, StepCases DEF Continues

LEMMA CacheFollows ==
  ASSUME TypeOK, [Next]_vars
  PROVE  \/ cache' = rs /\ UNCHANGED rs
         \/ \A v \in Versions : cache'[v].id = cache[v].id /\ cache'[v].exists = cache[v].exists
<1>0. cache \in [Versions -> ReplicaSets]
  BY DEF TypeOK, ClusterTypeOK
<1>1. CASE Begins \/ Continues \/ Ends
  BY <1>1, BeginsFacts, EndsFacts, ContinuesFacts DEF BeginsWith
<1>2. CASE Tick
  BY <1>0, <1>2, AgedKeeps DEF Tick
<1>3. CASE Outside /\ ~Tick
  BY <1>3
  DEF Outside, Environment, EditSpec, DeleteObject, ClusterChanges, CollectGarbage,
      PodsBecomeReady, PodsStop, Sync, SyncHpa, Invocations, vars, cluster, caches, Pass
<1>. QED
  BY <1>1, <1>2, <1>3, StepCases

\* Only a registration makes Restate know more of the object's endpoints.
LEMMA RegisteredFacts ==
  ASSUME TypeOK, [Next]_vars
  PROVE  \/ Register
         \/ Deregister
         \/ Invocations
         \/ ClusterChanges /\ rc' = "absent"
         \/ UNCHANGED restate
BY StepCases
DEF Begins, StartApply, StartCleanup, Continues, CreateReplicaSet, AdoptReplicaSet,
    UnscheduleAdopted, PublishVersion, RoutingChanged, QueryUsage, ValidateReady,
    ValidateNotReady, RecordId, ConfirmLatest, StartSweep, UnscheduleActive,
    DeleteReplicaSet, KeepActive, ScheduleRemoval, AwaitRemoval, StopVersion,
    ClusterDeleted, ClusterFound, QueryForCleanup, FinishCleanup,
    Ends, RoutingUnchanged, ReportConflict, ClusterNotFound, DiscoveryFails,
    ReportNotLatest, FinishApply, PatchMissing, AwaitDrain, ReleaseFinalizer,
    AdminUnreachable, PassFails, OperatorRestarts, Outside, Environment, EditSpec,
    DeleteObject, ClusterChanges, CollectGarbage, PodsBecomeReady, PodsStop, Sync,
    SyncHpa, Tick, vars

LEMMA RegisteredShrinks ==
  ASSUME TypeOK, [Next]_vars, ~Register
  PROVE  NeedsNoMore
<1>1. CASE Deregister
  BY <1>1, DeleteNeedsLess DEF Deregister, NeedsNoMore, TypeOK
<1>2. CASE Invocations
  BY <1>2, InvocationsNeedLess DEF NeedsNoMore, TypeOK
<1>3. CASE ClusterChanges /\ rc' = "absent"
  BY <1>3 DEF ClusterChanges, RestateWiped, NeedsNoMore
<1>4. CASE UNCHANGED restate
  BY <1>4, SameRestate DEF restate
<1>. QED
  BY <1>1, <1>2, <1>3, <1>4, RegisteredFacts

-----------------------------------------------------------------------------
(* PassInOrder, one conjunct at a time.                                    *)

LEMMA PassFitsPhaseStep ==
  ASSUME TypeOK, PassFitsPhase, [Next]_vars
  PROVE  PassFitsPhase'
<1>. USE DEF PassFitsPhase, At, CleanupOnly, IsDeleting
<1>1. CASE Begins
  BY <1>1, BeginsFacts DEF BeginsWith, Idle, OpStates
<1>2. CASE Ends
  BY <1>2, EndsFacts DEF Idle
<1>3. CASE Outside
  BY <1>3, OutsideFacts
<1>4. CASE Continues
  <2>1. phase' = phase
    BY <1>4, ContinuesFacts
  <2>2. CASE ClusterFound \/ QueryForCleanup
    BY <2>1, <2>2, CleanupMoves, CleanupMode
  <2>3. CASE ClusterDeleted \/ FinishCleanup
    BY <2>1, <2>3, CleanupMoves DEF Moves, Walking
  <2>4. CASE \/ StartSweep \/ UnscheduleActive \/ Deregister \/ DeleteReplicaSet
             \/ \E v \in Versions : \/ KeepActive(v) \/ ScheduleRemoval(v)
                                    \/ AwaitRemoval(v) \/ StopVersion(v)
    BY <2>1, <2>4, SweepMoves DEF Moves, Walking
  <2>5. CASE \/ CreateReplicaSet \/ AdoptReplicaSet \/ UnscheduleAdopted \/ PublishVersion
             \/ RoutingChanged \/ QueryUsage \/ ValidateReady \/ ValidateNotReady
             \/ Register \/ RecordId \/ ConfirmLatest
    BY <2>1, <2>5, ApplyMoves DEF Moves, Walking
  <2>. QED
    BY <1>4, <2>2, <2>3, <2>4, <2>5 DEF Continues
<1>. QED
  BY <1>1, <1>2, <1>3, <1>4, StepCases

LEMMA BlankWhenAbsentStep ==
  ASSUME TypeOK, BlankWhenAbsent, TargetExists, PassFitsPhase, [Next]_vars
  PROVE  BlankWhenAbsent'
<1>0. /\ rs \in [Versions -> ReplicaSets] /\ Target \in Versions
      /\ Absent.id = NoId /\ \A gen : Created(gen).exists
  BY TargetType DEF TypeOK, ClusterTypeOK, Absent, Created
<1>1. \A v \in Versions : ~rs'[v].exists => rs'[v].id = NoId
  <2>1. CASE CreateReplicaSet
    BY <1>0, <2>1 DEF CreateReplicaSet, BlankWhenAbsent
  <2>2. CASE RecordId
    <3>1. rs[Target].exists
      BY <2>2, ApplyMoves
      DEF Moves, TargetExists, Adopted, Answered, PassFitsPhase, CleanupOnly, Walking
    <3>. QED
      BY <1>0, <2>2, <3>1 DEF RecordId, BlankWhenAbsent, ReplicaSets
  <2>3. CASE DeleteReplicaSet
    BY <1>0, <2>3 DEF DeleteReplicaSet, BlankWhenAbsent
  <2>4. CASE CollectGarbage
    BY <1>0, <2>4 DEF CollectGarbage
  <2>. QED
    BY <2>1, <2>2, <2>3, <2>4, NotesKept DEF BlankWhenAbsent
<1>. QED
  BY <1>1, CacheFollows DEF BlankWhenAbsent

\* What the steps of the walk do to it.
LEMMA WalkFacts ==
  ASSUME TypeOK, NEW v \in Versions,
         KeepActive(v) \/ ScheduleRemoval(v) \/ AwaitRemoval(v) \/ StopVersion(v)
  PROVE  /\ v \in sweep.todo /\ sweep'.todo = sweep.todo \ {v} /\ sweep'.view = sweep.view
         /\ sweep'.at \in {sweep.at, v, NoVersion}
         /\ op'.pc # "item" => sweep'.at = v
         /\ UNCHANGED <<registered, route, pinned, usage>>
<1>0. sweep \in Sweeps /\ op \in OpStates
  BY DEF TypeOK, PassTypeOK
<1>1. CASE KeepActive(v)
  BY <1>0, <1>1 DEF KeepActive, IsNext, Sweeps, OpStates, Goto, restate
<1>2. CASE ScheduleRemoval(v)
  BY <1>0, <1>2 DEF ScheduleRemoval, IsNext, Sweeps, OpStates, At, restate
<1>3. CASE AwaitRemoval(v)
  BY <1>0, <1>3 DEF AwaitRemoval, IsNext, Sweeps, OpStates, At, restate
<1>4. CASE StopVersion(v)
  BY <1>0, <1>4 DEF StopVersion, IsNext, Sweeps, OpStates, Goto, restate
<1>. QED
  BY <1>1, <1>2, <1>3, <1>4

LEMMA WalkEndFacts ==
  ASSUME TypeOK, UnscheduleActive \/ DeleteReplicaSet
  PROVE  /\ op.pc \in {"keep", "delete"} /\ op'.pc = "item"
         /\ sweep' = [sweep EXCEPT !.at = NoVersion]
         /\ UNCHANGED <<registered, route, pinned, usage>>
BY SweepMoves DEF Moves, UnscheduleActive, DeleteReplicaSet, restate

LEMMA StartSweepFacts ==
  ASSUME TypeOK, StartSweep
  PROVE  /\ sweep'.todo = {v \in Versions : cache[v].exists /\ IsOld(v)}
         /\ \A v \in sweep'.todo : sweep'.view[v] = cache[v]
         /\ sweep'.at = NoVersion
         /\ UNCHANGED <<registered, route, pinned, usage, rs, cache>>
BY DEF StartSweep, NoSweep, IsOld, restate, cluster, caches

\* The walk has the steps the walk begins, ends and goes on with.
LEMMA WalkCases ==
  ASSUME TypeOK, [Next]_vars, op'.pc \in Walking
  PROVE  \/ StartSweep \/ UnscheduleActive \/ DeleteReplicaSet \/ Deregister
         \/ \E v \in Versions : \/ KeepActive(v) \/ ScheduleRemoval(v)
                                \/ AwaitRemoval(v) \/ StopVersion(v)
         \/ Outside
<1>1. CASE Begins
  BY <1>1, BeginsFacts DEF BeginsWith, Idle, Walking
<1>2. CASE Ends
  BY <1>2, EndsFacts DEF Idle, Walking
<1>3. CASE ClusterDeleted \/ FinishCleanup \/ ClusterFound \/ QueryForCleanup
  BY <1>3, CleanupMoves DEF Moves, Walking
<1>4. CASE \/ CreateReplicaSet \/ AdoptReplicaSet \/ UnscheduleAdopted \/ PublishVersion
           \/ RoutingChanged \/ QueryUsage \/ ValidateReady \/ ValidateNotReady
           \/ Register \/ RecordId \/ ConfirmLatest
  BY <1>4, ApplyMoves DEF Moves, Walking
<1>. QED
  BY <1>1, <1>2, <1>3, <1>4, StepCases DEF Continues

LEMMA WalksOldStep ==
  ASSUME TypeOK, WalksOld, [Next]_vars
  PROVE  WalksOld'
<1>0. sweep \in Sweeps /\ NoVersion \notin Versions
  BY DeploymentAssumption DEF DeploymentAssumption, TypeOK, PassTypeOK
<1>. SUFFICES ASSUME op'.pc \in Walking PROVE WalksOld'
  BY DEF WalksOld, Walking
<1>1. CASE StartSweep
  BY <1>0, <1>1, StartSweepFacts, SweepMoves DEF WalksOld, IsOld, Moves, Walking
<1>2. CASE UnscheduleActive \/ DeleteReplicaSet
  BY <1>0, <1>2, WalkEndFacts, SweepMoves DEF WalksOld, IsOld, Moves, Walking, Sweeps
<1>3. CASE Deregister
  BY <1>3, SweepMoves DEF Deregister, WalksOld, IsOld, Moves, Walking
<1>4. ASSUME NEW v \in Versions,
             KeepActive(v) \/ ScheduleRemoval(v) \/ AwaitRemoval(v) \/ StopVersion(v)
      PROVE  WalksOld'
  <2>1. op.pc = "item" /\ op'.mode = op.mode /\ Target' = Target
    BY <1>4, SweepMoves DEF Moves
  <2>2. \A w : IsOld(w)' = IsOld(w)
    BY <2>1 DEF IsOld
  <2>3. sweep.at \notin sweep.todo /\ \A w \in sweep.todo : IsOld(w)
    BY <2>1 DEF WalksOld, Walking
  <2>4. v \in sweep.todo /\ sweep'.todo = sweep.todo \ {v}
    BY <1>4, WalkFacts
  <2>5. sweep'.at \in {sweep.at, v, NoVersion} /\ (op'.pc # "item" => sweep'.at = v)
    BY <1>4, WalkFacts
  <2>6. NoVersion \notin sweep.todo
    BY <1>0 DEF Sweeps
  <2>. QED
    BY <2>2, <2>3, <2>4, <2>5, <2>6 DEF WalksOld
<1>5. CASE Outside
  BY <1>5, OutsideFacts DEF WalksOld, IsOld, Target
<1>. QED
  BY <1>1, <1>2, <1>3, <1>4, <1>5, WalkCases

LEMMA TargetExistsStep ==
  ASSUME TypeOK, TargetExists, WalksOld, PassFitsPhase, [Next]_vars
  PROVE  TargetExists'
<1>0. rs \in [Versions -> ReplicaSets] /\ Target \in Versions
  BY TargetType DEF TypeOK, ClusterTypeOK
<1>. SUFFICES ASSUME ~IsDeleting(op'.mode), op'.pc \in Adopted PROVE rs'[Target'].exists
  BY DEF TargetExists
<1>1. CASE Begins \/ Ends
  <2>1. op'.pc \in {"idle", "adopt", "getCluster"}
    BY <1>1, BeginsFacts, EndsFacts DEF BeginsWith, Idle
  <2>. QED
    BY <2>1 DEF Adopted, Answered, Walking
<1>2. CASE Outside
  <2>1. op' = op /\ rs[Target].exists
    BY <1>2, OutsideFacts DEF TargetExists
  <2>2. phase # "gone"
    BY <2>1 DEF PassFitsPhase, At, Adopted, Answered, Walking
  <2>3. ~CollectGarbage /\ ~CreateReplicaSet /\ ~RecordId /\ ~DeleteReplicaSet
    BY <2>1, <2>2, ApplyMoves, SweepMoves DEF Moves, CollectGarbage
  <2>. QED
    BY <1>0, <2>1, <2>3, NotesKept DEF Target
<1>3. CASE CreateReplicaSet
  BY <1>0, <1>3, ApplyMoves DEF CreateReplicaSet, Created, Moves
<1>4. CASE AdoptReplicaSet
  BY <1>0, <1>4, ApplyMoves DEF AdoptReplicaSet, ReplicaSets, Moves
<1>5. CASE RecordId
  BY <1>0, <1>5, ApplyMoves
  DEF RecordId, ReplicaSets, Moves, TargetExists, Adopted, Answered
<1>6. CASE DeleteReplicaSet
  <2>1. sweep.at # Target /\ rs[Target].exists /\ Target' = Target
    BY <1>6, SweepMoves
    DEF Moves, WalksOld, IsOld, TargetExists, Adopted, Answered, Walking
  <2>. QED
    BY <1>0, <1>6, <2>1 DEF DeleteReplicaSet
<1>7. CASE ClusterDeleted \/ FinishCleanup \/ ClusterFound \/ QueryForCleanup
  <2>1. IsDeleting(op'.mode)
    BY <1>7, CleanupMoves, CleanupMode DEF Moves, PassFitsPhase, CleanupOnly
  <2>. QED
    BY <2>1
<1>8. CASE Continues /\ ~CreateReplicaSet /\ ~AdoptReplicaSet /\ ~RecordId
           /\ ~DeleteReplicaSet /\ ~ClusterDeleted /\ ~FinishCleanup /\ ~ClusterFound
           /\ ~QueryForCleanup
  <2>1. Target' = Target /\ op'.mode = op.mode /\ op.pc \in Adopted
    BY <1>8, ApplyMoves, SweepMoves DEF Continues, Moves, Adopted, Answered, Walking
  <2>2. ~CollectGarbage
    BY <2>1 DEF CollectGarbage, PassFitsPhase, At, Adopted, Answered, Walking
  <2>. QED
    BY <1>0, <1>8, <2>1, <2>2, NotesKept DEF TargetExists
<1>. QED
  BY <1>1, <1>2, <1>3, <1>4, <1>5, <1>6, <1>7, <1>8, StepCases

LEMMA IdAdoptedStep ==
  ASSUME TypeOK, IdAdopted, BlankWhenAbsent, PassFitsPhase, [Next]_vars
  PROVE  IdAdopted'
<1>0. /\ rs \in [Versions -> ReplicaSets] /\ Target \in Versions /\ op \in OpStates
      /\ \A gen : Created(gen).id = NoId
  BY TargetType DEF TypeOK, ClusterTypeOK, PassTypeOK, Created
<1>. DEFINE Early == {"unschedule", "publish", "routing", "query", "validate", "register"}
<1>1. CASE Begins \/ Ends
  <2>1. op'.pc \in {"idle", "adopt", "getCluster"}
    BY <1>1, BeginsFacts, EndsFacts DEF BeginsWith, Idle
  <2>2. op'.pc = "adopt" => op'.id = NoId
    BY <1>1, BeginsFacts, EndsFacts DEF BeginsWith, Idle
  <2>. QED
    BY <2>1, <2>2 DEF IdAdopted, At
<1>2. CASE CreateReplicaSet
  <2>1. op'.pc = "publish" /\ op'.id = op.id /\ op.id = NoId /\ Target' = Target
    BY <1>0, <1>2, ApplyMoves DEF Moves, CreateReplicaSet, Goto, OpStates, IdAdopted, At
  <2>2. rs'[Target].id = NoId
    BY <1>0, <1>2 DEF CreateReplicaSet
  <2>. QED
    BY <2>1, <2>2 DEF IdAdopted, At
<1>3. CASE AdoptReplicaSet
  <2>1. op'.pc \in {"publish", "unschedule"} /\ op'.id = rs[Target].id /\ Target' = Target
    BY <1>0, <1>3, ApplyMoves DEF Moves, AdoptReplicaSet, OpStates
  <2>2. rs'[Target].id = rs[Target].id
    BY <1>0, <1>3 DEF AdoptReplicaSet, ReplicaSets
  <2>. QED
    BY <2>1, <2>2 DEF IdAdopted, At
<1>4. CASE UnscheduleAdopted \/ PublishVersion \/ RoutingChanged \/ QueryUsage \/ ValidateReady
  <2>1. op'.pc # "adopt" /\ op'.id = op.id /\ op.id = rs[Target].id /\ Target' = Target
    BY <1>0, <1>4, ApplyMoves
    DEF Moves, UnscheduleAdopted, PublishVersion, RoutingChanged, QueryUsage,
        ValidateReady, Goto, OpStates, IdAdopted, At
  <2>2. rs'[Target].id = rs[Target].id
    BY <1>0, <1>4
    DEF UnscheduleAdopted, PublishVersion, RoutingChanged, QueryUsage, ValidateReady,
        ReplicaSets, cluster
  <2>. QED
    BY <2>1, <2>2 DEF IdAdopted, At
<1>5. CASE ValidateNotReady \/ Register \/ RecordId \/ ConfirmLatest
  BY <1>5, ApplyMoves DEF Moves, IdAdopted, At
<1>6. CASE \/ StartSweep \/ UnscheduleActive \/ Deregister \/ DeleteReplicaSet
           \/ \E v \in Versions : \/ KeepActive(v) \/ ScheduleRemoval(v)
                                  \/ AwaitRemoval(v) \/ StopVersion(v)
  BY <1>6, SweepMoves DEF Moves, IdAdopted, At
<1>7. CASE ClusterDeleted \/ FinishCleanup \/ ClusterFound \/ QueryForCleanup
  BY <1>7, CleanupMoves DEF Moves, IdAdopted, At
<1>8. CASE Outside
  <2>1. op' = op
    BY <1>8, OutsideFacts
  <2>. SUFFICES ASSUME op.pc \in Early PROVE rs'[Target].id = rs[Target].id
    BY <2>1 DEF IdAdopted, At, Target
  <2>2. ~CollectGarbage /\ ~CreateReplicaSet /\ ~RecordId /\ ~DeleteReplicaSet
    BY <2>1, ApplyMoves, SweepMoves DEF Moves, CollectGarbage, PassFitsPhase, At
  <2>. QED
    BY <1>0, <2>2, NotesKept
<1>. QED
  BY <1>1, <1>2, <1>3, <1>4, <1>5, <1>6, <1>7, <1>8, StepCases DEF Continues

LEMMA WorkIsRegisteredStep ==
  ASSUME TypeOK, WorkIsRegistered, [Next]_vars
  PROVE  WorkIsRegistered'
<1>0. RestateTypeOK /\ NoId \notin Ids /\ Foreign \notin Ids
  BY RestateAssumption DEF RestateAssumption, TypeOK
<1>1. CASE UNCHANGED restate
  BY <1>1 DEF WorkIsRegistered, restate
<1>2. ASSUME NEW id, DeleteDeployment(id) PROVE WorkIsRegistered'
  <2>1. \A x \in Ids : x # id => pinned'[x] = pinned[x]
    BY <1>0, <1>2 DEF DeleteDeployment, RestateTypeOK
  <2>2. id \in Ids => pinned'[id] = 0
    BY <1>0, <1>2 DEF DeleteDeployment, RestateTypeOK
  <2>3. \A s \in Services : route'[s] = NoId \/ (route'[s] = route[s] /\ route[s] # id)
    BY <1>0, <1>2 DEF DeleteDeployment, RestateTypeOK
  <2>4. registered' = registered \ {id}
    BY <1>2 DEF DeleteDeployment
  <2>. QED
    BY <1>0, <2>1, <2>2, <2>3, <2>4 DEF WorkIsRegistered
<1>3. CASE ClusterChanges /\ rc' = "absent"
  BY <1>0, <1>3 DEF ClusterChanges, RestateWiped, WorkIsRegistered
<1>4. CASE Register
  <2>1. PICK id \in IdsOf(Target) : RegisterEndpoint(Target, id, op.action = "Promote")
    BY <1>4 DEF Register, FreshIds, Unused
  <2>. QED
    BY <2>1 DEF RegisterEndpoint, WorkIsRegistered
<1>5. CASE Invocations
  <2>1. ASSUME NEW s \in Services, Invoke(s) \/ Unqueue(s) PROVE WorkIsRegistered'
    BY <2>1 DEF Invoke, Unqueue, WorkIsRegistered
  <2>2. ASSUME NEW s \in Services, Pin(s) PROVE WorkIsRegistered'
    <3>1. UNCHANGED <<registered, route>> /\ route[s] \in registered
      BY <2>2 DEF Pin, WorkIsRegistered
    <3>2. \A x \in Ids : x # route[s] => pinned'[x] = pinned[x]
      BY <1>0, <2>2 DEF Pin, RestateTypeOK
    <3>. QED
      BY <3>1, <3>2 DEF WorkIsRegistered
  <2>3. ASSUME NEW id \in Ids, Complete(id) PROVE WorkIsRegistered'
    <3>1. UNCHANGED <<registered, route>> /\ pinned[id] > 0
      BY <2>3 DEF Complete
    <3>2. \A x \in Ids : x # id => pinned'[x] = pinned[x]
      BY <1>0, <2>3 DEF Complete, RestateTypeOK
    <3>. QED
      BY <3>1, <3>2 DEF WorkIsRegistered
  <2>4. ASSUME NEW s \in Services, ForeignRegister(s) PROVE WorkIsRegistered'
    <3>1. \A r \in Services : route'[r] = route[r] \/ route'[r] = Foreign
      BY <1>0, <2>4 DEF ForeignRegister, RestateTypeOK
    <3>. QED
      BY <1>0, <2>4, <3>1 DEF ForeignRegister, WorkIsRegistered
  <2>5. ASSUME NEW id \in Ids, OutOfBandDelete(id) PROVE WorkIsRegistered'
    BY <1>2, <2>5 DEF OutOfBandDelete
  <2>. QED
    BY <1>5, <2>1, <2>2, <2>3, <2>4, <2>5 DEF Invocations
<1>6. CASE Deregister
  BY <1>2, <1>6 DEF Deregister
<1>. QED
  BY <1>1, <1>3, <1>4, <1>5, <1>6, RegisteredFacts

LEMMA DeregistersIdleStep ==
  ASSUME TypeOK, [Next]_vars, DeregistersIdle
  PROVE  DeregistersIdle'
<1>. SUFFICES ASSUME op'.pc = "deregister"
              PROVE  (KnownToRestate(sweep.at) /\ ~Active(sweep.at))'
  BY DEF DeregistersIdle, At
<1>0. op'.pc \in Walking
  BY DEF Walking
<1>1. CASE Outside
  BY <1>1, OutsideFacts DEF DeregistersIdle, At, KnownToRestate, Active, Seen
<1>2. ASSUME NEW v \in Versions, StopVersion(v)
      PROVE  (KnownToRestate(sweep.at) /\ ~Active(sweep.at))'
  <2>1. sweep'.at = v /\ sweep'.view = sweep.view /\ usage' = usage /\ op'.mode = op.mode
    BY <1>2, WalkFacts, SweepMoves DEF Moves
  <2>2. KnownToRestate(v) /\ ~Active(v)
    BY <1>2 DEF StopVersion, Goto, TypeOK, PassTypeOK, OpStates
  <2>. QED
    BY <2>1, <2>2 DEF KnownToRestate, Active, Seen
<1>3. ASSUME NEW v \in Versions, KeepActive(v) \/ ScheduleRemoval(v) \/ AwaitRemoval(v)
      PROVE  FALSE
  BY <1>3, SweepMoves DEF Moves
<1>4. CASE StartSweep \/ UnscheduleActive \/ DeleteReplicaSet \/ Deregister
  BY <1>4, SweepMoves DEF Moves
<1>. QED
  BY <1>0, <1>1, <1>2, <1>3, <1>4, WalkCases

LEMMA PassInOrderInit == Init => PassInOrder
<1>. SUFFICES ASSUME Init PROVE PassInOrder
  OBVIOUS
<1>1. /\ op.pc = "idle" /\ op.mode = "Rollout" /\ phase = "live"
      /\ cache = rs /\ \A v \in Versions : rs[v].id = NoId
  BY DEF Init, Idle, Absent
<1>2. /\ \A id \in Ids : pinned[id] = 0
      /\ \A s \in Services : route[s] = NoId
      /\ NoId \notin Ids
  BY RestateAssumption DEF RestateAssumption, Init, RestateInit
<1>. QED
  BY <1>1, <1>2
  DEF PassInOrder, ReplyGiven, IdsBelong, PassFitsPhase, BlankWhenAbsent, WalksOld,
      TargetExists, IdAdopted, WorkIsRegistered, DeregistersIdle, At, IsDeleting, CleanupOnly,
      Adopted, Answered, Walking

LEMMA PassInOrderStep == TypeOK /\ PassInOrder /\ [Next]_vars => PassInOrder'
BY ReplyStep, IdsBelongStep, PassFitsPhaseStep, BlankWhenAbsentStep, WalksOldStep,
   TargetExistsStep, IdAdoptedStep, WorkIsRegisteredStep, DeregistersIdleStep
DEF PassInOrder

\* Whoever else acts, a pass runs its steps in order, over old versions only, and
\* Restate has work and routes for registered deployments only.
THEOREM PassOrderHolds == Spec => []PassInOrder
BY PassInOrderInit, PassInOrderStep, TypeCorrect, PTL DEF Spec

-----------------------------------------------------------------------------
(* A drain finishes old work.                                              *)

LEMMA DrainCoversStep ==
  ASSUME ForeignUsers = FALSE, TypeOK, TypeOK', PassInOrder, DrainCovers, [Next]_vars
  PROVE  DrainCovers'
<1>0. /\ RestateTypeOK /\ PassFitsPhase /\ WorkIsRegistered
      /\ NoId \notin Ids /\ MaxInvocations \in Nat
  BY RestateAssumption DEF RestateAssumption, TypeOK, PassInOrder
<1>. SUFFICES ASSUME op'.mode = "Deleting", op'.pc \in Answered,
                     NEW id \in Ids, pinned'[id] > 0
              PROVE  id \in (usage.busy \cup LatestIds)'
  BY DEF DrainCovers
<1>1. CASE Begins \/ Ends
  <2>1. op'.pc \in {"idle", "adopt", "getCluster"}
    BY <1>1, BeginsFacts, EndsFacts DEF BeginsWith, Idle
  <2>. QED
    BY <2>1 DEF Answered, Walking
<1>2. CASE QueryForCleanup
  <2>1. usage'.busy = {x \in registered : \/ pinned[x] > 0
                                          \/ NeedsUnpinnedCount(op.mode) /\ UnpinnedAt(x)}
        /\ UNCHANGED pinned
    BY <1>2 DEF QueryForCleanup, UsageAnswer, restate
  <2>. QED
    BY <1>0, <2>1 DEF WorkIsRegistered
<1>3. ASSUME op.mode = "Deleting", op.pc \in Answered, UNCHANGED usage
      PROVE  id \in (usage.busy \cup LatestIds)'
  <2>1. CASE UNCHANGED restate
    BY <1>3, <2>1 DEF DrainCovers, LatestIds, restate
  <2>2. CASE Register
    BY <1>0, <1>3, <2>2, ApplyMoves
    DEF PassFitsPhase, IsDeleting, Moves, CleanupOnly, Walking
  <2>3. CASE Deregister
    <3>. DEFINE gone == Seen(sweep.at).id
    <3>1. id # gone /\ pinned[id] > 0
      BY <1>0, <2>3 DEF Deregister, DeleteDeployment, RestateTypeOK
    <3>2. /\ registered' = registered \ {gone}
          /\ \A s \in Services : route[s] # gone => route'[s] = route[s]
      BY <1>0, <2>3 DEF Deregister, DeleteDeployment, RestateTypeOK
    <3>. QED
      BY <1>3, <3>1, <3>2 DEF DrainCovers, LatestIds
  <2>4. CASE Invocations
    <3>1. ASSUME NEW s \in Services, Pin(s) PROVE id \in (usage.busy \cup LatestIds)'
      <4>1. UNCHANGED <<registered, route>> /\ route[s] \in LatestIds
        BY <1>0, <3>1 DEF Pin, LatestIds, WorkIsRegistered
      <4>2. id # route[s] => pinned[id] > 0
        BY <1>0, <3>1 DEF Pin, RestateTypeOK
      <4>. QED
        BY <1>3, <4>1, <4>2 DEF DrainCovers, LatestIds
    <3>2. ASSUME NEW x \in Ids, Complete(x) PROVE id \in (usage.busy \cup LatestIds)'
      <4>1. UNCHANGED <<registered, route>> /\ pinned[id] > 0
        BY <1>0, <3>2 DEF Complete, RestateTypeOK
      <4>. QED
        BY <1>3, <4>1 DEF DrainCovers, LatestIds
    <3>3. ASSUME NEW s \in Services, Invoke(s) \/ Unqueue(s)
          PROVE  id \in (usage.busy \cup LatestIds)'
      BY <1>3, <3>3 DEF Invoke, Unqueue, DrainCovers, LatestIds
    <3>. QED
      BY <2>4, <3>1, <3>2, <3>3 DEF Invocations
  <2>5. CASE ClusterChanges /\ rc' = "absent"
    BY <2>5 DEF ClusterChanges, RestateWiped
  <2>. QED
    BY <2>1, <2>2, <2>3, <2>4, <2>5, RegisteredFacts
<1>4. CASE Outside
  BY <1>3, <1>4, OutsideFacts
<1>5. CASE \/ StartSweep \/ UnscheduleActive \/ Deregister \/ DeleteReplicaSet
           \/ \E v \in Versions : \/ KeepActive(v) \/ ScheduleRemoval(v)
                                  \/ AwaitRemoval(v) \/ StopVersion(v)
  <2>1. op.mode = "Deleting" /\ op.pc \in Answered
    BY <1>5, SweepMoves DEF Moves, Answered, Walking
  <2>2. UNCHANGED usage
    BY <1>5, WalkFacts, WalkEndFacts, StartSweepFacts DEF Deregister
  <2>. QED
    BY <1>3, <2>1, <2>2
<1>6. CASE \/ CreateReplicaSet \/ AdoptReplicaSet \/ UnscheduleAdopted \/ PublishVersion
           \/ RoutingChanged \/ QueryUsage \/ ValidateReady \/ ValidateNotReady
           \/ Register \/ RecordId \/ ConfirmLatest
  BY <1>0, <1>6, ApplyMoves DEF Moves, PassFitsPhase, IsDeleting, CleanupOnly, Walking
<1>7. CASE ClusterDeleted \/ FinishCleanup \/ ClusterFound
  BY <1>7, CleanupMoves DEF Moves, Answered, Walking
<1>. QED
  BY <1>1, <1>2, <1>4, <1>5, <1>6, <1>7, StepCases DEF Continues

\* A drain never abandons work on a version that takes no new invocations: what is
\* pinned to it was there when Restate was asked (CleanupMode::Deleting).
THEOREM DrainFinishesOldWorkHolds ==
  ASSUME ForeignUsers = FALSE
  PROVE  Spec => DrainFinishesOldWork
<1>1. Init => DrainCovers
  BY DEF Init, Idle, DrainCovers
<1>2. TypeOK /\ TypeOK' /\ PassInOrder /\ DrainCovers /\ [Next]_vars => DrainCovers'
  BY DrainCoversStep
<1>3. ASSUME TypeOK, PassInOrder, DrainCovers, op.mode = "Deleting",
             NEW id \in Ids \ LatestIds
      PROVE  ~Abandons(id)
  <2>. SUFFICES ASSUME Deregister, id = Seen(sweep.at).id, pinned[id] > 0
                PROVE  FALSE
    BY DEF Abandons
  <2>1. op.pc = "deregister"
    BY <1>3, SweepMoves DEF Moves
  <2>2. id \in usage.busy
    BY <1>3, <2>1 DEF DrainCovers, Answered, Walking
  <2>3. ~Active(sweep.at) /\ KnownToRestate(sweep.at)
    BY <1>3, <2>1 DEF PassInOrder, DeregistersIdle, At
  <2>. QED
    BY <1>3, <2>2, <2>3 DEF Active, IsActive
<1>4. TypeOK /\ PassInOrder /\ DrainCovers =>
        (op.mode = "Deleting" => \A id \in Ids \ LatestIds : ~Abandons(id))
  BY <1>3
<1>. QED
  BY <1>1, <1>2, <1>4, TypeCorrect, PassOrderHolds, PTL DEF Spec, DrainFinishesOldWork

-----------------------------------------------------------------------------
(* What a pass saw when it asked: the cache's list, and Restate's answer.  *)

LEMMA VersionOfType ==
  ASSUME NEW id \in Ids
  PROVE  VersionOf(id) \in Versions /\ id \in IdsOf(VersionOf(id)) /\ id # NoId
BY RestateAssumption DEF RestateAssumption, Ids, VersionOf, IdsOf

ListState ==
  /\ TypeOK /\ TypeOK' /\ PassInOrder /\ ListAgrees /\ AnswerCovers /\ [Next]_vars
  /\ LagBetweenPasses = FALSE

LEMMA ListFacts ==
  ASSUME ListState
  PROVE  /\ RestateTypeOK /\ RestateTypeOK' /\ registered \subseteq Ids /\ registered' \subseteq Ids
         /\ rs \in [Versions -> ReplicaSets] /\ cache \in [Versions -> ReplicaSets]
         /\ op \in OpStates /\ sweep \in Sweeps /\ Target \in Versions
         /\ IdsBelong /\ PassFitsPhase /\ BlankWhenAbsent /\ WalksOld /\ IdAdopted
         /\ ListAgrees /\ AnswerCovers
BY TargetType
DEF ListState, TypeOK, RestateTypeOK, ClusterTypeOK, PassTypeOK, PassInOrder

\* A registration adds an id of the endpoint of the pass's version.
LEMMA RegisterAdds ==
  ASSUME TypeOK, Register
  PROVE  \E id \in IdsOf(Target) :
           /\ RegisterEndpoint(Target, id, op.action = "Promote")
           /\ registered' = registered \cup {id}
           /\ EndpointKnown => id \in registered
           /\ op'.reply = id /\ op'.pc = IF id = op.id THEN "confirm" ELSE "record"
           /\ op.pc = "register" /\ Target' = Target /\ op'.mode = op.mode
           /\ op'.action = op.action /\ UNCHANGED <<rs, usage, sweep, status>>
<1>1. /\ op.pc = "register" /\ Target' = Target /\ op'.mode = op.mode
      /\ UNCHANGED <<rs, usage, sweep, status>>
  BY ApplyMoves DEF Moves, Register, cluster
<1>2. PICK id \in (IF EndpointKnown THEN registered \cap IdsOf(Target) ELSE FreshIds(Target)) :
        /\ RegisterEndpoint(Target, id, op.action = "Promote")
        /\ op' = [op EXCEPT !.reply = id, !.pc = IF id = op.id THEN "confirm" ELSE "record"]
  BY DEF Register
<1>3. id \in IdsOf(Target) /\ (EndpointKnown => id \in registered)
  BY <1>2 DEF FreshIds, Unused
<1>4. /\ op'.reply = id /\ op'.pc = IF id = op.id THEN "confirm" ELSE "record"
      /\ op'.action = op.action
  BY <1>2 DEF TypeOK, PassTypeOK, OpStates
<1>. QED
  BY <1>1, <1>2, <1>3, <1>4 DEF RegisterEndpoint

\* The ReplicaSets a pass looks after as old keep their annotations until it
\* deletes them.
LEMMA OldKeepIds ==
  ASSUME ListState, ~At("idle"), ~DeleteReplicaSet, NEW v \in Versions, IsOld(v)
  PROVE  rs'[v].id = rs[v].id
<1>0. TypeOK /\ [Next]_vars
  BY DEF ListState
<1>1. CASE CreateReplicaSet \/ RecordId
  <2>1. op.pc \in {"adopt", "record"}
    BY <1>0, <1>1, ApplyMoves DEF Moves
  <2>2. v # Target
    BY <2>1, ListFacts DEF PassFitsPhase, IsOld, CleanupOnly, Walking
  <2>. QED
    BY <1>1, <2>2, ListFacts DEF CreateReplicaSet, RecordId
<1>2. CASE CollectGarbage
  BY <1>2, ListFacts DEF CollectGarbage, PassFitsPhase
<1>. QED
  BY <1>0, <1>1, <1>2, NotesKept

LEMMA ListAgreesStep ==
  ASSUME ListState
  PROVE  ListAgrees'
<1>0. TypeOK /\ [Next]_vars /\ LagBetweenPasses = FALSE
  BY DEF ListState
<1>1. ASSUME op'.pc \in BeforeWalk
      PROVE  (\A v \in Versions : IsOld(v) => cache[v].id = rs[v].id)'
  <2>0. op'.pc \notin {"idle", "item", "keep", "deregister", "delete", "release"}
    BY <1>1 DEF BeforeWalk, Adopted, Answered, Walking
  <2>1. CASE Begins
    BY <1>0, <2>1, BeginsFacts DEF BeginsWith
  <2>2. CASE Ends
    BY <2>0, <2>2, EndsFacts DEF Idle
  <2>3. ASSUME op.pc \in BeforeWalk, \A v \in Versions : IsOld(v)' => IsOld(v)
        PROVE  (\A v \in Versions : IsOld(v) => cache[v].id = rs[v].id)'
    <3>1. ~At("idle") /\ ~DeleteReplicaSet
      BY <1>0, <2>3, SweepMoves DEF At, Moves, BeforeWalk, Adopted, Answered, Walking
    <3>2. \A v \in Versions : IsOld(v) => cache[v].id = rs[v].id /\ rs'[v].id = rs[v].id
      BY <2>3, <3>1, OldKeepIds, ListFacts DEF ListAgrees
    <3>. QED
      BY <1>0, <2>3, <3>2, CacheFollows
  <2>4. CASE Outside
    BY <1>1, <2>3, <2>4, OutsideFacts DEF IsOld, Target
  <2>5. CASE \/ CreateReplicaSet \/ AdoptReplicaSet \/ UnscheduleAdopted \/ PublishVersion
             \/ RoutingChanged \/ QueryUsage \/ ValidateReady \/ ValidateNotReady
             \/ Register \/ RecordId \/ ConfirmLatest
    <3>1. op.pc \in BeforeWalk
      BY <1>0, <2>5, ApplyMoves DEF Moves, BeforeWalk, Adopted, Answered, Walking
    <3>2. \A v \in Versions : IsOld(v)' => IsOld(v)
      BY <1>0, <2>5, ApplyMoves DEF Moves, IsOld
    <3>. QED
      BY <2>3, <3>1, <3>2
  <2>6. CASE ClusterFound \/ QueryForCleanup
    <3>1. op.pc \in BeforeWalk /\ op.pc \in CleanupOnly
      BY <1>0, <2>6, CleanupMoves DEF BeforeWalk, CleanupOnly
    <3>2. \A v \in Versions : IsOld(v)
      BY <3>1, ListFacts DEF IsOld, PassFitsPhase
    <3>. QED
      BY <2>3, <3>1, <3>2
  <2>7. CASE ClusterDeleted \/ FinishCleanup
    BY <1>0, <2>0, <2>7, CleanupMoves DEF Moves
  <2>8. CASE \/ StartSweep \/ UnscheduleActive \/ Deregister \/ DeleteReplicaSet
             \/ \E v \in Versions : \/ KeepActive(v) \/ ScheduleRemoval(v)
                                    \/ AwaitRemoval(v) \/ StopVersion(v)
    BY <1>0, <2>0, <2>8, SweepMoves DEF Moves
  <2>. QED
    BY <1>0, <2>1, <2>2, <2>4, <2>5, <2>6, <2>7, <2>8, StepCases DEF Continues
<1>2. ASSUME op'.pc \in Walking
      PROVE  /\ \A v \in sweep'.todo : sweep'.view[v].id = rs'[v].id
             /\ op'.pc \in {"deregister", "delete"} =>
                  sweep'.view[sweep'.at].id = rs'[sweep'.at].id
  <2>1. CASE StartSweep
    <3>1. op.pc = "sweep" /\ op'.pc = "item"
      BY <1>0, <2>1, SweepMoves DEF Moves
    <3>2. \A v \in Versions : IsOld(v) => cache[v].id = rs[v].id
      BY <3>1, ListFacts DEF ListAgrees, BeforeWalk, Adopted, Answered, Walking
    <3>. QED
      BY <1>0, <2>1, <3>1, <3>2, StartSweepFacts
  <2>2. CASE UnscheduleActive
    <3>1. op.pc = "keep" /\ op'.pc = "item" /\ sweep' = [sweep EXCEPT !.at = NoVersion]
      BY <1>0, <2>2, WalkEndFacts, SweepMoves DEF Moves
    <3>2. \A v \in sweep.todo : v \in Versions /\ IsOld(v) /\ Seen(v).id = rs[v].id
      BY <3>1, ListFacts DEF ListAgrees, WalksOld, Walking, Sweeps
    <3>3. ~At("idle") /\ ~DeleteReplicaSet
      BY <1>0, <3>1, SweepMoves DEF Moves, At
    <3>. QED
      BY <3>1, <3>2, <3>3, OldKeepIds, ListFacts DEF Sweeps, Seen
  <2>3. CASE DeleteReplicaSet
    <3>1. op.pc = "delete" /\ op'.pc = "item" /\ sweep' = [sweep EXCEPT !.at = NoVersion]
      BY <1>0, <2>3, WalkEndFacts, SweepMoves DEF Moves
    <3>2. \A v \in sweep.todo : v \in Versions /\ v # sweep.at /\ Seen(v).id = rs[v].id
      BY <3>1, ListFacts DEF ListAgrees, WalksOld, Walking, Sweeps
    <3>. QED
      BY <2>3, <3>1, <3>2, ListFacts DEF Sweeps, Seen, DeleteReplicaSet
  <2>4. CASE Deregister
    <3>1. op.pc = "deregister" /\ UNCHANGED <<rs, sweep>>
      BY <1>0, <2>4, SweepMoves DEF Moves, Deregister, cluster
    <3>. QED
      BY <3>1, ListFacts DEF ListAgrees, Walking, Seen
  <2>5. ASSUME NEW v \in Versions,
               KeepActive(v) \/ ScheduleRemoval(v) \/ AwaitRemoval(v) \/ StopVersion(v)
        PROVE  /\ \A w \in sweep'.todo : sweep'.view[w].id = rs'[w].id
               /\ op'.pc \in {"deregister", "delete"} =>
                    sweep'.view[sweep'.at].id = rs'[sweep'.at].id
    <3>1. op.pc = "item" /\ ~At("idle") /\ ~DeleteReplicaSet
      BY <1>0, <2>5, SweepMoves DEF Moves, At
    <3>2. \A w \in sweep.todo : w \in Versions /\ IsOld(w) /\ Seen(w).id = rs[w].id
      BY <3>1, ListFacts DEF ListAgrees, WalksOld, Walking, Sweeps
    <3>3. /\ v \in sweep.todo /\ sweep'.todo = sweep.todo \ {v} /\ sweep'.view = sweep.view
          /\ op'.pc # "item" => sweep'.at = v
      BY <1>0, <2>5, WalkFacts
    <3>4. \A w \in sweep.todo : rs'[w].id = rs[w].id
      BY <3>1, <3>2, OldKeepIds
    <3>. QED
      BY <3>2, <3>3, <3>4 DEF Seen
  <2>6. CASE Outside
    <3>1. UNCHANGED <<op, sweep>>
      BY <2>6, OutsideFacts
    <3>2. ~At("idle") /\ ~DeleteReplicaSet
      BY <1>0, <1>2, <2>6, <3>1, SweepMoves DEF Moves, At, Walking
    <3>3. \A w \in sweep.todo : w \in Versions /\ IsOld(w) /\ Seen(w).id = rs[w].id
      BY <1>2, <3>1, ListFacts DEF ListAgrees, WalksOld, Sweeps
    <3>4. op.pc \in {"deregister", "delete"} =>
            sweep.at \in Versions /\ IsOld(sweep.at) /\ Seen(sweep.at).id = rs[sweep.at].id
      BY ListFacts DEF ListAgrees, WalksOld
    <3>. QED
      BY <3>1, <3>2, <3>3, <3>4, OldKeepIds DEF Seen
  <2>. QED
    BY <1>0, <1>2, <2>1, <2>2, <2>3, <2>4, <2>5, <2>6, WalkCases
<1>3. op'.pc \in {"deregister", "delete"} => op'.pc \in Walking
  BY DEF Walking
<1>. QED
  BY <1>1, <1>2, <1>3 DEF ListAgrees, Seen

LEMMA AnswerCoversStep ==
  ASSUME ListState
  PROVE  AnswerCovers'
<1>0. TypeOK /\ [Next]_vars
  BY DEF ListState
<1>. SUFFICES ASSUME op'.pc \in Answered, NEW id \in registered', IsOld(VersionOf(id))'
              PROVE  id \in usage'.known
  BY DEF AnswerCovers
<1>. USE DEF Answered, Walking
<1>1. CASE Begins \/ Ends
  <2>1. op'.pc \in {"idle", "adopt", "getCluster"}
    BY <1>1, BeginsFacts, EndsFacts DEF BeginsWith, Idle
  <2>. QED
    BY <2>1
<1>2. CASE QueryUsage \/ QueryForCleanup
  BY <1>2 DEF QueryUsage, QueryForCleanup, UsageAnswer, restate
<1>3. ASSUME op.pc \in Answered, ~Register, IsOld(VersionOf(id)),
             usage.known \subseteq usage'.known
      PROVE  id \in usage'.known
  BY <1>0, <1>3, RegisteredShrinks, ListFacts DEF NeedsNoMore, AnswerCovers
<1>4. CASE Register
  <2>1. PICK new \in IdsOf(Target) :
          /\ registered' = registered \cup {new}
          /\ op.pc = "register" /\ Target' = Target /\ op'.mode = op.mode
    BY <1>0, <1>4, RegisterAdds
  <2>2. IsOld(VersionOf(id)) /\ ~IsDeleting(op.mode)
    BY <2>1, ListFacts DEF IsOld, PassFitsPhase, CleanupOnly
  <2>3. id \in registered
    BY <2>1, <2>2 DEF IsOld, IdsOf
  <2>4. UNCHANGED usage
    BY <1>4 DEF Register
  <2>. QED
    BY <2>1, <2>2, <2>3, <2>4, ListFacts DEF AnswerCovers
<1>5. CASE ValidateReady \/ ValidateNotReady \/ RecordId \/ ConfirmLatest
  <2>1. op.pc \in Answered /\ ~Register /\ IsOld(VersionOf(id))
    BY <1>0, <1>5, ApplyMoves DEF Moves, IsOld
  <2>2. usage.known \subseteq usage'.known
    BY <1>5 DEF ValidateReady, ValidateNotReady, RecordId, ConfirmLatest
  <2>. QED
    BY <1>3, <2>1, <2>2
<1>6. CASE CreateReplicaSet \/ AdoptReplicaSet \/ UnscheduleAdopted \/ PublishVersion \/ RoutingChanged
  BY <1>0, <1>6, ApplyMoves DEF Moves
<1>7. CASE \/ StartSweep \/ UnscheduleActive \/ Deregister \/ DeleteReplicaSet
           \/ \E v \in Versions : \/ KeepActive(v) \/ ScheduleRemoval(v)
                                  \/ AwaitRemoval(v) \/ StopVersion(v)
  <2>1. op.pc \in {"sweep"} \cup Walking /\ IsOld(VersionOf(id))
    BY <1>0, <1>7, SweepMoves DEF Moves, IsOld
  <2>2. ~Register
    BY <1>0, <2>1, ApplyMoves DEF Moves
  <2>3. UNCHANGED usage
    BY <1>0, <1>7, WalkFacts, WalkEndFacts, StartSweepFacts DEF Deregister
  <2>. QED
    BY <1>3, <2>1, <2>2, <2>3
<1>8. CASE ClusterDeleted \/ FinishCleanup \/ ClusterFound
  BY <1>0, <1>8, CleanupMoves DEF Moves
<1>9. CASE Outside /\ ~Register
  BY <1>3, <1>9, OutsideFacts DEF IsOld, Target
<1>. QED
  BY <1>0, <1>1, <1>2, <1>4, <1>5, <1>6, <1>7, <1>8, <1>9, StepCases DEF Continues

LEMMA ListStateHolds ==
  ASSUME LagBetweenPasses = FALSE
  PROVE  Spec => [](ListAgrees /\ AnswerCovers)
<1>1. Init => ListAgrees /\ AnswerCovers
  BY DEF Init, Idle, ListAgrees, AnswerCovers, BeforeWalk, Adopted, Answered, Walking
<1>2. TypeOK /\ TypeOK' /\ PassInOrder /\ (ListAgrees /\ AnswerCovers) /\ [Next]_vars
        => (ListAgrees /\ AnswerCovers)'
  <2>. SUFFICES ASSUME ListState PROVE (ListAgrees /\ AnswerCovers)'
    BY DEF ListState
  <2>. QED
    BY ListAgreesStep, AnswerCoversStep
<1>. QED
  BY <1>1, <1>2, TypeCorrect, PassOrderHolds, PTL DEF Spec

-----------------------------------------------------------------------------
(* BooksKept, one conjunct at a time.                                      *)

BooksState ==
  /\ TypeOK /\ TypeOK' /\ PassInOrder /\ BooksKept /\ [Next]_vars
  /\ LagBetweenPasses = FALSE /\ LoseRegistrations = FALSE

LEMMA BooksFacts ==
  ASSUME BooksState
  PROVE  /\ RestateTypeOK /\ RestateTypeOK' /\ registered \subseteq Ids /\ registered' \subseteq Ids
         /\ rs \in [Versions -> ReplicaSets] /\ cache \in [Versions -> ReplicaSets]
         /\ op \in OpStates /\ sweep \in Sweeps /\ Target \in Versions
         /\ IdsBelong /\ PassFitsPhase /\ BlankWhenAbsent /\ WalksOld /\ IdAdopted
         /\ Recorded /\ ListAgrees /\ AnswerCovers /\ DeletesUnregistered
         /\ CleanupCovers /\ NothingLeft
BY TargetType
DEF BooksState, TypeOK, RestateTypeOK, ClusterTypeOK, PassTypeOK, PassInOrder, BooksKept

\* The window between a registration and its annotation is not left by a failure.
LEMMA AtRecord ==
  ASSUME BooksState
  PROVE  /\ At("record") => RecordId \/ Outside
         /\ At("record")' => Register \/ Outside
<1>0. TypeOK /\ LoseRegistrations = FALSE /\ [Next]_vars
  BY DEF BooksState
<1>1. CASE Begins \/ Ends
  <2>1. op'.pc \in {"idle", "adopt", "getCluster"}
    BY <1>1, BeginsFacts, EndsFacts DEF BeginsWith, Idle
  <2>2. CASE Begins
    BY <2>1, <2>2, BeginsFacts DEF BeginsWith, At
  <2>3. CASE Ends
    <3>1. op.pc # "record"
      BY <1>0, <2>3
      DEF Ends, RoutingUnchanged, ReportConflict, ClusterNotFound, DiscoveryFails,
          ReportNotLatest, FinishApply, PatchMissing, IsNext, AwaitDrain,
          ReleaseFinalizer, AdminUnreachable, AdminSteps, PassFails, OperatorRestarts,
          MayStop, At, Calls
    <3>. QED
      BY <2>1, <3>1 DEF At
  <2>. QED
    BY <1>1, <2>2, <2>3
<1>2. CASE \/ CreateReplicaSet \/ AdoptReplicaSet \/ UnscheduleAdopted \/ PublishVersion
           \/ RoutingChanged \/ QueryUsage \/ ValidateReady \/ ValidateNotReady
           \/ ConfirmLatest
  BY <1>0, <1>2, ApplyMoves DEF Moves, At
<1>3. CASE \/ StartSweep \/ UnscheduleActive \/ Deregister \/ DeleteReplicaSet
           \/ \E v \in Versions : \/ KeepActive(v) \/ ScheduleRemoval(v)
                                  \/ AwaitRemoval(v) \/ StopVersion(v)
  BY <1>0, <1>3, SweepMoves DEF Moves, At
<1>4. CASE ClusterDeleted \/ FinishCleanup \/ ClusterFound \/ QueryForCleanup
  BY <1>0, <1>4, CleanupMoves DEF Moves, At
<1>5. CASE Register \/ RecordId
  BY <1>0, <1>5, ApplyMoves DEF Moves, At
<1>. QED
  BY <1>0, <1>1, <1>2, <1>3, <1>4, <1>5, StepCases DEF Continues

\* An endpoint keeps the one id it is registered under.
LEMMA RegisterFacts ==
  ASSUME BooksState, Register
  PROVE  \E id \in IdsOf(Target) :
           /\ RegisterEndpoint(Target, id, op.action = "Promote")
           /\ registered' = registered \cup {id}
           /\ registered \cap IdsOf(Target) \subseteq {id}
           /\ id \in registered \/ registered \cap IdsOf(Target) = {}
           /\ op'.reply = id /\ op'.pc = IF id = op.id THEN "confirm" ELSE "record"
           /\ op.pc = "register" /\ Target' = Target /\ rs' = rs /\ op'.mode = op.mode
<1>0. TypeOK
  BY DEF BooksState
<1>1. PICK id \in IdsOf(Target) :
           /\ RegisterEndpoint(Target, id, op.action = "Promote")
           /\ registered' = registered \cup {id}
           /\ EndpointKnown => id \in registered
           /\ op'.reply = id /\ op'.pc = IF id = op.id THEN "confirm" ELSE "record"
           /\ op.pc = "register" /\ Target' = Target /\ rs' = rs /\ op'.mode = op.mode
  BY <1>0, RegisterAdds
<1>2. \A x \in registered \cap IdsOf(Target) : x = rs[Target].id
  BY <1>1, BooksFacts DEF Recorded, NotedId, At, IdsOf
<1>. QED
  BY <1>1, <1>2 DEF EndpointKnown

LEMMA RecordedStep ==
  ASSUME BooksState
  PROVE  Recorded'
<1>0. TypeOK /\ [Next]_vars
  BY DEF BooksState
<1>. SUFFICES ASSUME NEW id \in registered' PROVE id = NotedId(VersionOf(id))'
  BY DEF Recorded
<1>1. id \in Ids /\ VersionOf(id) \in Versions /\ id \in IdsOf(VersionOf(id)) /\ id # NoId
  BY BooksFacts, VersionOfType
<1>2. ~Register => id \in registered /\ id = NotedId(VersionOf(id))
  BY <1>0, RegisteredShrinks, BooksFacts DEF NeedsNoMore, Recorded
<1>3. CASE Register
  <2>1. PICK new \in IdsOf(Target) :
           /\ registered' = registered \cup {new}
           /\ registered \cap IdsOf(Target) \subseteq {new}
           /\ op'.reply = new /\ op'.pc = IF new = op.id THEN "confirm" ELSE "record"
           /\ op.pc = "register" /\ Target' = Target /\ rs' = rs
    BY <1>3, RegisterFacts
  <2>2. CASE id = new
    <3>1. VersionOf(id) = Target
      BY <2>1, <2>2 DEF IdsOf
    <3>2. op.id = rs[Target].id
      BY <2>1, BooksFacts DEF IdAdopted
    <3>. QED
      BY <2>1, <2>2, <3>1, <3>2 DEF NotedId, At
  <2>3. CASE id # new
    <3>1. id \in registered /\ VersionOf(id) # Target
      BY <1>1, <2>1, <2>3 DEF IdsOf
    <3>2. id = rs[VersionOf(id)].id
      BY <3>1, BooksFacts DEF Recorded, NotedId
    <3>. QED
      BY <2>1, <3>1, <3>2 DEF NotedId
  <2>. QED
    BY <2>2, <2>3
<1>4. CASE RecordId
  <2>1. /\ op.pc = "record" /\ op'.pc = "confirm"
        /\ rs' = [rs EXCEPT ![Target].id = op.reply]
    BY <1>0, <1>4, ApplyMoves DEF Moves, RecordId
  <2>2. ~Register
    BY <1>0, <2>1, ApplyMoves DEF Moves
  <2>. QED
    BY <1>1, <1>2, <2>1, <2>2, BooksFacts DEF NotedId, At, ReplicaSets
<1>5. CASE CreateReplicaSet
  <2>1. op.pc = "adopt" /\ op'.pc = "publish" /\ ~Register
    BY <1>0, <1>5, ApplyMoves DEF Moves
  <2>2. VersionOf(id) # Target
    BY <1>1, <1>2, <1>5, <2>1, BooksFacts DEF CreateReplicaSet, BlankWhenAbsent, NotedId, At
  <2>. QED
    BY <1>1, <1>2, <1>5, <2>1, <2>2, BooksFacts DEF CreateReplicaSet, NotedId, At
<1>6. CASE DeleteReplicaSet
  <2>1. op.pc = "delete" /\ op'.pc = "item" /\ ~Register
    BY <1>0, <1>6, SweepMoves, ApplyMoves DEF Moves
  <2>2. VersionOf(id) # sweep.at
    BY <1>2, <2>1, BooksFacts DEF DeletesUnregistered, NotedId, At
  <2>. QED
    BY <1>1, <1>2, <1>6, <2>1, <2>2, BooksFacts DEF DeleteReplicaSet, NotedId, At
<1>7. CASE CollectGarbage
  <2>1. registered = {} /\ op.pc = "idle"
    BY <1>7, BooksFacts DEF CollectGarbage, NothingLeft, PassFitsPhase, At
  <2>. QED
    BY <1>0, <1>2, <2>1, ApplyMoves DEF Moves
<1>8. CASE /\ ~Register /\ ~RecordId /\ ~CreateReplicaSet /\ ~DeleteReplicaSet
           /\ ~CollectGarbage
  <2>1. rs'[VersionOf(id)].id = rs[VersionOf(id)].id
    BY <1>0, <1>1, <1>8, NotesKept
  <2>2. CASE Outside
    BY <1>2, <1>8, <2>1, <2>2, OutsideFacts DEF NotedId, At, Target
  <2>3. CASE ~Outside
    BY <1>2, <1>8, <2>1, <2>3, AtRecord DEF NotedId
  <2>. QED
    BY <2>2, <2>3
<1>. QED
  BY <1>3, <1>4, <1>5, <1>6, <1>7, <1>8

\* Nothing is registered for an old version whose listed id was not in the answer.
LEMMA UnknownUnregistered ==
  ASSUME BooksState, op.pc \in Walking, NEW v \in Versions, IsOld(v),
         Seen(v).id = rs[v].id, ~KnownToRestate(v)
  PROVE  \A id \in registered : VersionOf(id) # v
<1>. SUFFICES ASSUME NEW id \in registered, VersionOf(id) = v PROVE FALSE
  OBVIOUS
<1>1. id = rs[v].id
  BY BooksFacts DEF Recorded, NotedId, At, Walking
<1>2. id \in usage.known
  BY BooksFacts DEF AnswerCovers, Answered
<1>. QED
  BY <1>1, <1>2 DEF KnownToRestate

LEMMA RegisteredAt ==
  ASSUME BooksState, NEW v \in Versions, rs[v].id \in registered
  PROVE  VersionOf(rs[v].id) = v
<1>1. rs[v].id # NoId
  BY BooksFacts, VersionOfType
<1>. QED
  BY <1>1, BooksFacts DEF IdsBelong, IdsOf

LEMMA DeletesUnregisteredStep ==
  ASSUME BooksState
  PROVE  DeletesUnregistered'
<1>0. TypeOK /\ [Next]_vars
  BY DEF BooksState
<1>. SUFFICES ASSUME op'.pc = "delete" PROVE rs'[sweep'.at].id \notin registered'
  BY DEF DeletesUnregistered, At
<1>1. CASE Deregister
  <2>1. op.pc = "deregister" /\ UNCHANGED <<rs, sweep>>
    BY <1>0, <1>1, SweepMoves DEF Moves, Deregister, cluster
  <2>2. Seen(sweep.at).id = rs[sweep.at].id
    BY <2>1, BooksFacts DEF ListAgrees
  <2>. QED
    BY <1>1, <2>1, <2>2 DEF Deregister, DeleteDeployment
<1>2. ASSUME NEW v \in Versions, StopVersion(v)
      PROVE  rs'[sweep'.at].id \notin registered'
  <2>1. op.pc = "item" /\ sweep'.at = v /\ UNCHANGED registered /\ v \in sweep.todo
    BY <1>0, <1>2, SweepMoves, WalkFacts DEF Moves
  <2>2. IsOld(v) /\ Seen(v).id = rs[v].id
    BY <2>1, BooksFacts DEF ListAgrees, WalksOld, Walking
  <2>3. ~KnownToRestate(v)
    BY <1>2, BooksFacts DEF StopVersion, Goto, OpStates
  <2>4. rs'[v].id = rs[v].id
    BY <1>2, BooksFacts DEF StopVersion, ReplicaSets
  <2>. QED
    BY <2>1, <2>2, <2>3, <2>4, UnknownUnregistered, RegisteredAt DEF Walking
<1>3. CASE Outside
  <2>1. UNCHANGED <<op, sweep>> /\ op.pc = "delete"
    BY <1>3, OutsideFacts
  <2>2. sweep.at \in Versions /\ rs[sweep.at].id \notin registered
    BY <2>1, BooksFacts DEF DeletesUnregistered, At, WalksOld
  <2>3. ~Register /\ ~CreateReplicaSet /\ ~RecordId
    BY <1>0, <2>1, ApplyMoves DEF Moves
  <2>4. ~DeleteReplicaSet /\ ~CollectGarbage
    BY <1>0, <2>1, SweepMoves, BooksFacts DEF Moves, CollectGarbage, PassFitsPhase, At
  <2>. QED
    BY <1>0, <2>1, <2>2, <2>3, <2>4, NotesKept, RegisteredShrinks DEF NeedsNoMore
<1>4. ASSUME NEW v \in Versions, KeepActive(v) \/ ScheduleRemoval(v) \/ AwaitRemoval(v)
      PROVE  FALSE
  BY <1>0, <1>4, SweepMoves DEF Moves
<1>5. CASE StartSweep \/ UnscheduleActive \/ DeleteReplicaSet
  BY <1>0, <1>5, SweepMoves DEF Moves
<1>6. op'.pc \in Walking
  BY DEF Walking
<1>. QED
  BY <1>0, <1>1, <1>2, <1>3, <1>4, <1>5, <1>6, WalkCases

LEMMA CleanupCoversStep ==
  ASSUME BooksState
  PROVE  CleanupCovers'
<1>0. TypeOK /\ [Next]_vars
  BY DEF BooksState
<1>. SUFFICES ASSUME IsDeleting(op'.mode), op'.pc \in Walking, NEW id \in registered'
              PROVE  \/ VersionOf(id) \in sweep'.todo
                     \/ At("deregister")' /\ VersionOf(id) = sweep'.at
                     \/ sweep'.blocked \/ sweep'.pending
  BY DEF CleanupCovers
<1>1. ~Register
  BY <1>0, ApplyMoves DEF Moves, Walking
<1>2. id \in registered /\ VersionOf(id) \in Versions /\ id # NoId
  BY <1>0, <1>1, RegisteredShrinks, BooksFacts, VersionOfType DEF NeedsNoMore
<1>3. CASE StartSweep
  <2>1. op.pc = "sweep" /\ op'.mode = op.mode
    BY <1>0, <1>3, SweepMoves DEF Moves
  <2>2. id = rs[VersionOf(id)].id /\ IsOld(VersionOf(id))
    BY <1>2, <2>1, BooksFacts DEF Recorded, NotedId, At, IsOld
  <2>3. cache[VersionOf(id)].id = id
    BY <1>2, <2>1, <2>2, BooksFacts DEF ListAgrees, BeforeWalk, Adopted, Answered, Walking
  <2>4. cache[VersionOf(id)].exists
    BY <1>2, <2>3, BooksFacts DEF BlankWhenAbsent
  <2>. QED
    BY <1>0, <1>2, <1>3, <2>2, <2>4, StartSweepFacts
<1>4. CASE UnscheduleActive \/ DeleteReplicaSet
  <2>1. /\ op.pc \in {"keep", "delete"} /\ op'.mode = op.mode
        /\ sweep' = [sweep EXCEPT !.at = NoVersion]
    BY <1>0, <1>4, WalkEndFacts, SweepMoves DEF Moves
  <2>2. VersionOf(id) \in sweep.todo \/ sweep.blocked \/ sweep.pending
    BY <1>2, <2>1, BooksFacts DEF CleanupCovers, Walking, At
  <2>. QED
    BY <2>1, <2>2, BooksFacts DEF Sweeps
<1>5. CASE Deregister
  <2>1. op.pc = "deregister" /\ op'.mode = op.mode /\ UNCHANGED sweep
    BY <1>0, <1>5, SweepMoves DEF Moves, Deregister
  <2>2. id # Seen(sweep.at).id
    BY <1>5 DEF Deregister, DeleteDeployment
  <2>3. id = rs[VersionOf(id)].id /\ Seen(sweep.at).id = rs[sweep.at].id
    BY <1>2, <2>1, BooksFacts DEF Recorded, NotedId, At, ListAgrees
  <2>. QED
    BY <1>2, <2>1, <2>2, <2>3, BooksFacts DEF CleanupCovers, Walking
<1>6. ASSUME NEW v \in Versions,
             KeepActive(v) \/ ScheduleRemoval(v) \/ AwaitRemoval(v) \/ StopVersion(v)
      PROVE  \/ VersionOf(id) \in sweep'.todo
             \/ At("deregister")' /\ VersionOf(id) = sweep'.at
             \/ sweep'.blocked \/ sweep'.pending
  <2>1. op.pc = "item" /\ op'.mode = op.mode
    BY <1>0, <1>6, SweepMoves DEF Moves
  <2>2. VersionOf(id) \in sweep.todo \/ sweep.blocked \/ sweep.pending
    BY <1>2, <2>1, BooksFacts DEF CleanupCovers, Walking, At
  <2>3. /\ v \in sweep.todo /\ sweep'.todo = sweep.todo \ {v}
        /\ op'.pc # "item" => sweep'.at = v
    BY <1>0, <1>6, WalkFacts
  <2>4. CASE KeepActive(v)
    BY <2>4, BooksFacts DEF KeepActive, Sweeps
  <2>5. CASE ScheduleRemoval(v) \/ AwaitRemoval(v)
    BY <2>5, BooksFacts DEF ScheduleRemoval, AwaitRemoval, Sweeps
  <2>6. CASE StopVersion(v)
    <3>1. sweep'.blocked = sweep.blocked /\ sweep'.pending = sweep.pending
      BY <2>6, BooksFacts DEF StopVersion, Sweeps
    <3>2. CASE VersionOf(id) # v
      BY <2>2, <2>3, <3>1, <3>2
    <3>3. CASE VersionOf(id) = v
      <4>1. IsOld(v) /\ Seen(v).id = rs[v].id
        BY <2>1, <2>3, BooksFacts DEF ListAgrees, WalksOld, Walking
      <4>2. KnownToRestate(v)
        BY <1>2, <2>1, <3>3, <4>1, UnknownUnregistered DEF Walking
      <4>3. op'.pc = "deregister"
        BY <2>1, <2>6, <4>2, BooksFacts DEF StopVersion, RetainForRollback, Goto, OpStates
      <4>. QED
        BY <2>3, <3>3, <4>3 DEF At
    <3>. QED
      BY <3>2, <3>3
  <2>. QED
    BY <1>6, <2>4, <2>5, <2>6
<1>7. CASE Outside
  BY <1>2, <1>7, OutsideFacts, BooksFacts DEF CleanupCovers, At
<1>. QED
  BY <1>0, <1>3, <1>4, <1>5, <1>6, <1>7, WalkCases

LEMMA NothingLeftStep ==
  ASSUME BooksState
  PROVE  NothingLeft'
<1>0. TypeOK /\ [Next]_vars
  BY DEF BooksState
<1>1. CASE Register
  <2>1. op.pc = "register" /\ op'.pc \in {"confirm", "record"}
    BY <1>0, <1>1, ApplyMoves DEF Moves
  <2>2. phase # "gone" /\ rc # "absent" /\ UNCHANGED <<phase, rc>>
    BY <1>1, <2>1, BooksFacts DEF Register, Calls, object, PassFitsPhase, At
  <2>. QED
    BY <2>1, <2>2 DEF NothingLeft, At
<1>2. ASSUME registered = {} \/ registered' = {}, ~Register
      PROVE  NothingLeft'
  BY <1>0, <1>2, RegisteredShrinks DEF NeedsNoMore, NothingLeft
<1>3. CASE ClusterDeleted
  BY <1>0, <1>1, <1>2, <1>3, BooksFacts DEF ClusterDeleted, NothingLeft
<1>4. CASE FinishCleanup
  <2>1. registered = {}
    <3>1. IsDeleting(op.mode) /\ op.pc = "item"
      BY <1>0, <1>4, CleanupMoves DEF Moves
    <3>2. sweep.todo = {} /\ ~sweep.blocked /\ ~sweep.pending
      BY <1>4 DEF FinishCleanup
    <3>. QED
      BY <3>1, <3>2, BooksFacts DEF CleanupCovers, Walking, At
  <2>. QED
    BY <1>1, <1>2, <2>1
<1>5. CASE Ends
  <2>1. op'.pc = "idle" /\ rc' = rc
    BY <1>5, EndsFacts DEF Idle
  <2>2. phase' = "gone" => At("release") \/ phase = "gone"
    BY <1>5, EndsFacts
  <2>. QED
    BY <1>1, <1>2, <2>1, <2>2, BooksFacts DEF NothingLeft, At
<1>6. CASE Begins
  BY <1>6, BeginsFacts, BooksFacts DEF BeginsWith, NothingLeft, At
<1>7. CASE ClusterChanges /\ rc' = "absent"
  BY <1>7 DEF ClusterChanges, RestateWiped, NothingLeft
<1>8. CASE Outside /\ ~(ClusterChanges /\ rc' = "absent")
  <2>1. UNCHANGED op /\ (phase' = "gone" => phase = "gone")
    BY <1>8, OutsideFacts
  <2>2. rc' = "absent" => rc = "absent"
    BY <1>8
    DEF Outside, Environment, EditSpec, DeleteObject, CollectGarbage, PodsBecomeReady,
        PodsStop, Sync, SyncHpa, Invocations, Tick, vars, object, Pass
  <2>. QED
    BY <1>1, <1>2, <2>1, <2>2, BooksFacts DEF NothingLeft, At
<1>9. CASE Continues /\ ~ClusterDeleted /\ ~FinishCleanup
  <2>1. op'.pc # "release" /\ phase' = phase /\ rc' = rc
    BY <1>0, <1>9, ApplyMoves, SweepMoves, CleanupMoves, ContinuesFacts DEF Continues, Moves
  <2>. QED
    BY <1>1, <1>2, <2>1, BooksFacts DEF NothingLeft, At
<1>. QED
  BY <1>0, <1>3, <1>4, <1>5, <1>6, <1>7, <1>8, <1>9, StepCases

LEMMA BooksInit == Init => BooksKept
<1>. SUFFICES ASSUME Init PROVE BooksKept
  OBVIOUS
<1>1. op.pc = "idle" /\ op.mode = "Rollout" /\ registered = {}
  BY DEF Init, RestateInit, Idle
<1>. QED
  BY <1>1
  DEF BooksKept, Recorded, ListAgrees, AnswerCovers, DeletesUnregistered, CleanupCovers,
      NothingLeft, At, IsDeleting, BeforeWalk, Adopted, Answered, Walking

\* Every registration is in the operator's books, and every pass that takes
\* versions down comes past the ones it answers for.
THEOREM BooksHold ==
  ASSUME LagBetweenPasses = FALSE, LoseRegistrations = FALSE
  PROVE  Spec => []BooksKept
<1>1. TypeOK /\ TypeOK' /\ PassInOrder /\ BooksKept /\ [Next]_vars => BooksKept'
  <2>. SUFFICES ASSUME BooksState PROVE BooksKept'
    BY DEF BooksState
  <2>. QED
    BY RecordedStep, ListAgreesStep, AnswerCoversStep, DeletesUnregisteredStep,
       CleanupCoversStep, NothingLeftStep
    DEF BooksKept, BooksState, ListState
<1>. QED
  BY <1>1, BooksInit, TypeCorrect, PassOrderHolds, PTL DEF Spec

\* Once the finalizer lets the object go Restate holds no endpoint of it: "ensure
\* nothing is orphaned" (cleanup, controller.rs:1395).
THEOREM NothingOrphanedHolds ==
  ASSUME LagBetweenPasses = FALSE, LoseRegistrations = FALSE
  PROVE  Spec => []NothingOrphaned
<1>1. BooksKept => NothingOrphaned
  BY DEF BooksKept, NothingLeft, NothingOrphaned
<1>. QED
  BY <1>1, BooksHold, PTL

-----------------------------------------------------------------------------
(* The controller keeps its contract: every step of RestateDeployment is   *)
(* one step of RolloutContract or none.                                    *)

ContractState == BooksState /\ RolloutSafe /\ ForeignUsers = FALSE

LEMMA ContractRestate ==
  /\ \A v : Promise!IdsOf(v) = IdsOf(v)
  /\ Promise!Ids = Ids
  /\ \A id : Promise!Needed(id) <=> Needed(id)
  /\ Promise!RestateInit <=> RestateInit
  /\ Promise!RestateWiped <=> RestateWiped
  /\ \A v, id, force : Promise!RegisterEndpoint(v, id, force) <=> RegisterEndpoint(v, id, force)
  /\ \A id : Promise!DeleteDeployment(id) <=> DeleteDeployment(id)
  /\ \A s : /\ Promise!Invoke(s) <=> Invoke(s)
            /\ Promise!Pin(s) <=> Pin(s)
            /\ Promise!Unqueue(s) <=> Unqueue(s)
  /\ \A id : Promise!Complete(id) <=> Complete(id)
  /\ Promise!restate = restate /\ Promise!restate' = restate'
BY DEF Promise!IdsOf, IdsOf, Promise!Ids, Ids, Promise!VersionOf, VersionOf,
       Promise!Needed, Needed, Promise!LatestIds, LatestIds,
       Promise!RestateInit, RestateInit, Promise!RestateWiped, RestateWiped,
       Promise!RegisterEndpoint, RegisterEndpoint,
       Promise!DeleteDeployment, DeleteDeployment, Promise!Invoke, Invoke,
       Promise!Pin, Pin, Promise!Unqueue, Unqueue, Promise!Complete, Complete,
       Promise!restate, restate

LEMMA ContractInit == Init => Promise!CInit
BY ContractRestate DEF Init, Absent, Promise!CInit

LEMMA ContractStutters ==
  ASSUME UNCHANGED <<registered, route, pinned, unpinned, ready>>,
         \A v \in Versions : rs'[v].up = rs[v].up,
         phase' = "live" <=> phase = "live"
  PROVE  UNCHANGED Promise!contractVars
<1>1. {v \in Versions : rs[v].up}' = {v \in Versions : rs[v].up}
  OBVIOUS
<1>2. (phase = "live")' = (phase = "live")
  OBVIOUS
<1>. QED
  BY <1>1, <1>2, ContractRestate DEF Promise!contractVars, restate

\* What a step does to the versions that are up.
LEMMA ContractStarts ==
  ASSUME UNCHANGED <<registered, route, pinned, unpinned, ready, phase>>,
         NEW v \in Versions, rs'[v].up, \A w \in Versions \ {v} : rs'[w].up = rs[w].up
  PROVE  Promise!Start(v)
<1>1. {w \in Versions : rs[w].up}' = {w \in Versions : rs[w].up} \cup {v}
  OBVIOUS
<1>. QED
  BY <1>1, ContractRestate DEF Promise!Start, restate

LEMMA ContractStops ==
  ASSUME UNCHANGED <<registered, route, pinned, unpinned, phase>>,
         NEW v \in Versions, ready' \in {ready, ready \ {v}},
         phase = "live" => \A id \in registered : VersionOf(id) = v => ~Needed(id),
         ~rs'[v].up, \A w \in Versions \ {v} : rs'[w].up = rs[w].up
  PROVE  Promise!Stop(v)
<1>1. {w \in Versions : rs[w].up}' = {w \in Versions : rs[w].up} \ {v}
  OBVIOUS
<1>2. phase = "live" => Promise!Free(v)
  BY ContractRestate DEF Promise!Free, IdsOf
<1>. QED
  BY <1>1, <1>2, ContractRestate DEF Promise!Stop, restate

\* A rollout takes down no old version Restate needs.
LEMMA OldIdle ==
  ASSUME ContractState, phase = "live", op.pc \in Walking, NEW v \in Versions, IsOld(v),
         Seen(v).id = rs[v].id, ~Active(v) \/ ~KnownToRestate(v)
  PROVE  \A id \in registered : VersionOf(id) = v => ~Needed(id)
<1>. SUFFICES ASSUME NEW id \in registered, VersionOf(id) = v, Needed(id) PROVE FALSE
  OBVIOUS
<1>0. BooksState /\ SafeWhileLive
  BY DEF ContractState, RolloutSafe
<1>1. op.mode = "Rollout" /\ v # Target
  BY <1>0 DEF SafeWhileLive, LiveRollsOut, IsOld, IsDeleting
<1>2. id = Seen(v).id /\ id \notin IdsOf(Target)
  BY <1>0, <1>1, BooksFacts DEF Recorded, NotedId, At, Walking, IdsOf
<1>3. id \in usage.known /\ id \in usage.latest \cup usage.busy
  BY <1>0, <1>2 DEF SafeWhileLive, AnswerHolds, Answered
<1>. QED
  BY <1>1, <1>2, <1>3 DEF Active, IsActive, KnownToRestate

LEMMA StopVersionKeepsContract ==
  ASSUME ContractState, NEW v \in Versions, StopVersion(v)
  PROVE  UNCHANGED Promise!contractVars \/ Promise!Stop(v)
<1>0. BooksState /\ TypeOK
  BY DEF ContractState, BooksState
<1>1. UNCHANGED <<registered, route, pinned, unpinned, ready, phase>>
  BY DEF StopVersion, restate, object
<1>2. CASE ~Seen(v).up
  BY <1>1, <1>2, ContractStutters DEF StopVersion
<1>3. CASE Seen(v).up
  <2>1. ~rs'[v].up /\ \A w \in Versions \ {v} : rs'[w].up = rs[w].up
    BY <1>0, <1>3, BooksFacts DEF StopVersion, ReplicaSets
  <2>2. op.pc = "item" /\ v \in sweep.todo /\ ~Active(v)
    BY <1>0, SweepMoves, WalkFacts DEF Moves, StopVersion
  <2>3. IsOld(v) /\ Seen(v).id = rs[v].id
    BY <1>0, <2>2, BooksFacts DEF ListAgrees, WalksOld, Walking
  <2>4. phase = "live" => \A id \in registered : VersionOf(id) = v => ~Needed(id)
    BY <2>2, <2>3, OldIdle DEF Walking
  <2>. QED
    BY <1>1, <2>1, <2>4, ContractStops
<1>. QED
  BY <1>2, <1>3

LEMMA DeleteKeepsContract ==
  ASSUME ContractState, DeleteReplicaSet
  PROVE  \E v \in Versions : Promise!Stop(v)
<1>0. BooksState /\ TypeOK
  BY DEF ContractState, BooksState
<1>1. /\ UNCHANGED <<registered, route, pinned, unpinned, phase>>
      /\ ready' = ready \ {sweep.at}
  BY DEF DeleteReplicaSet, restate, object
<1>2. op.pc = "delete"
  BY <1>0, SweepMoves DEF Moves
<1>3. sweep.at \in Versions /\ rs[sweep.at].id \notin registered
  BY <1>0, <1>2, BooksFacts DEF WalksOld, DeletesUnregistered, At
<1>4. \A id \in registered : VersionOf(id) # sweep.at
  BY <1>0, <1>2, <1>3, BooksFacts DEF Recorded, NotedId, At
<1>5. ~rs'[sweep.at].up /\ \A w \in Versions \ {sweep.at} : rs'[w].up = rs[w].up
  BY <1>0, <1>3, BooksFacts DEF DeleteReplicaSet, Absent
<1>. QED
  BY <1>1, <1>3, <1>4, <1>5, ContractStops

LEMMA DeregisterKeepsContract ==
  ASSUME ContractState, Deregister
  PROVE  \E id \in Promise!Ids : Promise!Forget(id)
<1>0. BooksState /\ TypeOK /\ PassInOrder
  BY DEF ContractState, BooksState
<1>. DEFINE id == Seen(sweep.at).id
<1>1. op.pc = "deregister"
  BY <1>0, SweepMoves DEF Moves
<1>2. sweep.at \in Versions /\ IsOld(sweep.at) /\ id = rs[sweep.at].id
  BY <1>0, <1>1, BooksFacts DEF WalksOld, ListAgrees
<1>3. ~Active(sweep.at) /\ KnownToRestate(sweep.at)
  BY <1>0, <1>1 DEF PassInOrder, DeregistersIdle, At
<1>4. id \in Ids
  BY <1>0, <1>3 DEF KnownToRestate, TypeOK, PassTypeOK, Usages
<1>5. phase = "live" => ~Needed(id)
  <2>1. CASE id \in registered
    BY <1>0, <1>1, <1>2, <1>3, <2>1, RegisteredAt, OldIdle DEF Walking
  <2>2. CASE id \notin registered
    BY <1>0, <1>4, <2>2 DEF PassInOrder, WorkIsRegistered, Needed, LatestIds
  <2>. QED
    BY <2>1, <2>2
<1>6. UNCHANGED <<rs, ready, phase>> /\ DeleteDeployment(id)
  BY DEF Deregister, cluster, object
<1>. QED
  BY <1>4, <1>5, <1>6, ContractRestate DEF Promise!Forget

LEMMA RegisterKeepsContract ==
  ASSUME ContractState, Register
  PROVE  \E v \in Versions : Promise!Publish(v)
<1>0. BooksState
  BY DEF ContractState
<1>1. PICK id \in IdsOf(Target) :
           /\ RegisterEndpoint(Target, id, op.action = "Promote")
           /\ registered \cap IdsOf(Target) \subseteq {id}
           /\ id \in registered \/ registered \cap IdsOf(Target) = {}
  BY <1>0, RegisterFacts
<1>2. Target \in ready \/ (id \in registered /\ ~(op.action = "Promote"))
  BY <1>1 DEF Register, Reachable, EndpointKnown
<1>3. UNCHANGED <<rs, ready, phase>>
  BY DEF Register, cluster, object
<1>4. (op.action = "Promote") \in BOOLEAN /\ Target \in Versions
  BY <1>0, BooksFacts
<1>. QED
  BY <1>1, <1>2, <1>3, <1>4, ContractRestate DEF Promise!Publish

LEMMA ApplyKeepsContract ==
  ASSUME ContractState, CreateReplicaSet \/ AdoptReplicaSet
  PROVE  \E v \in Versions : Promise!Start(v)
<1>0. BooksState
  BY DEF ContractState
<1>1. UNCHANGED <<registered, route, pinned, unpinned, ready, phase>>
  BY DEF CreateReplicaSet, AdoptReplicaSet, restate, object
<1>2. Target \in Versions /\ rs'[Target].up /\ \A w \in Versions \ {Target} : rs'[w].up = rs[w].up
  BY <1>0, BooksFacts DEF CreateReplicaSet, AdoptReplicaSet, Created, ReplicaSets
<1>. QED
  BY <1>1, <1>2, ContractStarts

LEMMA KeepActiveKeepsContract ==
  ASSUME ContractState, NEW v \in Versions, KeepActive(v)
  PROVE  UNCHANGED Promise!contractVars \/ Promise!Start(v)
<1>0. BooksState
  BY DEF ContractState
<1>1. UNCHANGED <<registered, route, pinned, unpinned, ready, phase>>
  BY DEF KeepActive, restate, object
<1>2. rs' = rs \/ rs' = [rs EXCEPT ![v].up = TRUE]
  BY DEF KeepActive
<1>3. rs' = rs \/ (rs'[v].up /\ \A w \in Versions \ {v} : rs'[w].up = rs[w].up)
  BY <1>0, <1>2, BooksFacts DEF ReplicaSets
<1>. QED
  BY <1>1, <1>3, ContractStutters, ContractStarts

LEMMA OutsideKeepsContract ==
  ASSUME ContractState, Outside
  PROVE  [Promise!CNext]_Promise!contractVars
<1>0. BooksState /\ rs \in [Versions -> ReplicaSets]
  BY BooksFacts DEF ContractState
<1>1. CASE EditSpec \/ Sync \/ SyncHpa \/ UNCHANGED vars
  <2>1. UNCHANGED <<registered, route, pinned, unpinned, ready, rs, phase>>
    BY <1>1 DEF EditSpec, Sync, SyncHpa, vars, restate, object, cluster, Pass
  <2>. QED
    BY <2>1, ContractStutters
<1>2. CASE Tick
  <2>1. UNCHANGED <<registered, route, pinned, unpinned, ready, phase>>
    BY <1>2 DEF Tick, restate
  <2>2. \A v \in Versions : rs'[v].up = rs[v].up
    BY <1>0, <1>2, AgedKeeps DEF Tick
  <2>. QED
    BY <2>1, <2>2, ContractStutters
<1>3. CASE DeleteObject
  <2>1. Promise!Retire
    BY <1>3, ContractRestate DEF DeleteObject, cluster, Promise!Retire
  <2>. QED
    BY <2>1 DEF Promise!CNext
<1>4. CASE ClusterChanges
  <2>1. UNCHANGED <<ready, rs, phase>>
    BY <1>4 DEF ClusterChanges, cluster
  <2>2. CASE rc' = "absent"
    <3>1. Promise!Lose
      BY <1>4, <2>1, <2>2, ContractRestate DEF ClusterChanges, Promise!Lose
    <3>. QED
      BY <3>1 DEF Promise!CNext
  <2>3. CASE rc' # "absent"
    BY <1>4, <2>1, <2>3, ContractStutters DEF ClusterChanges, restate
  <2>. QED
    BY <2>2, <2>3
<1>5. CASE CollectGarbage
  <2>1. /\ UNCHANGED <<registered, route, pinned, unpinned, phase>> /\ phase = "gone"
        /\ ready' = {} /\ \A v \in Versions : ~rs'[v].up
    BY <1>5 DEF CollectGarbage, restate, object, Absent
  <2>2. {v \in Versions : rs[v].up}' = {}
    BY <2>1
  <2>3. Promise!Vanish
    BY <2>1, <2>2, ContractRestate DEF Promise!Vanish, restate
  <2>. QED
    BY <2>3 DEF Promise!CNext
<1>6. ASSUME NEW v \in Versions, PodsBecomeReady(v) PROVE Promise!CNext
  <2>1. Promise!Answer(v)
    BY <1>6, ContractRestate DEF PodsBecomeReady, Promise!Answer, object
  <2>. QED
    BY <2>1 DEF Promise!CNext
<1>7. ASSUME NEW v \in Versions, PodsStop(v) PROVE Promise!CNext
  <2>1. Promise!Falter(v)
    BY <1>7, ContractRestate DEF PodsStop, Promise!Falter, object
  <2>. QED
    BY <2>1 DEF Promise!CNext
<1>8. CASE Invocations
  <2>1. /\ \/ \E s \in Services : Invoke(s) \/ Pin(s) \/ Unqueue(s)
           \/ \E id \in Ids : Complete(id)
        /\ UNCHANGED <<rs, ready, phase>>
    BY <1>8 DEF Invocations, cluster, object, ContractState
  <2>2. Promise!Serve
    BY <2>1, ContractRestate DEF Promise!Serve
  <2>. QED
    BY <2>2 DEF Promise!CNext
<1>. QED
  BY <1>1, <1>2, <1>3, <1>4, <1>5, <1>6, <1>7, <1>8 DEF Outside, Environment

LEMMA ContractStep ==
  ASSUME ContractState
  PROVE  [Promise!CNext]_Promise!contractVars
<1>0. BooksState /\ TypeOK /\ [Next]_vars
  BY DEF ContractState, BooksState
<1>1. CASE Begins
  BY <1>1, BeginsFacts, ContractStutters DEF BeginsWith
<1>2. CASE Ends
  <2>1. phase' = "live" <=> phase = "live"
    BY <1>0, <1>2, EndsFacts, BooksFacts DEF PassFitsPhase, At, CleanupOnly
  <2>. QED
    BY <1>2, <2>1, EndsFacts, ContractStutters
<1>3. CASE Outside
  BY <1>3, OutsideKeepsContract
<1>4. CASE \/ UnscheduleAdopted \/ PublishVersion \/ RoutingChanged \/ QueryUsage
           \/ ValidateReady \/ ValidateNotReady \/ RecordId \/ ConfirmLatest
           \/ StartSweep \/ UnscheduleActive
           \/ \E v \in Versions : ScheduleRemoval(v) \/ AwaitRemoval(v)
           \/ ClusterDeleted \/ ClusterFound \/ QueryForCleanup \/ FinishCleanup
  <2>1. UNCHANGED <<registered, route, pinned, unpinned, ready, phase>>
    BY <1>4
    DEF UnscheduleAdopted, PublishVersion, RoutingChanged, QueryUsage, ValidateReady,
        ValidateNotReady, RecordId, ConfirmLatest, StartSweep, UnscheduleActive,
        ScheduleRemoval, AwaitRemoval, ClusterDeleted, ClusterFound, QueryForCleanup,
        FinishCleanup, restate, object, cluster
  <2>2. \A v \in Versions : rs'[v].up = rs[v].up
    <3>1. CASE UNCHANGED rs
      BY <3>1
    <3>2. CASE UnscheduleAdopted \/ RecordId
      BY <1>0, <3>2, BooksFacts DEF UnscheduleAdopted, RecordId, ReplicaSets
    <3>3. CASE UnscheduleActive
      BY <1>0, <3>3, BooksFacts DEF UnscheduleActive, ReplicaSets
    <3>4. ASSUME NEW w \in Versions, ScheduleRemoval(w)
          PROVE  \A v \in Versions : rs'[v].up = rs[v].up
      BY <1>0, <3>4, BooksFacts DEF ScheduleRemoval, ReplicaSets
    <3>. QED
      BY <1>4, <3>1, <3>2, <3>3, <3>4
      DEF PublishVersion, RoutingChanged, QueryUsage, ValidateReady, ValidateNotReady,
          ConfirmLatest, StartSweep, AwaitRemoval, ClusterDeleted, ClusterFound,
          QueryForCleanup, FinishCleanup, cluster
  <2>. QED
    BY <2>1, <2>2, ContractStutters
<1>5. CASE CreateReplicaSet \/ AdoptReplicaSet
  BY <1>5, ApplyKeepsContract DEF Promise!CNext
<1>6. CASE Register
  BY <1>6, RegisterKeepsContract DEF Promise!CNext
<1>7. CASE Deregister
  BY <1>7, DeregisterKeepsContract DEF Promise!CNext
<1>8. CASE DeleteReplicaSet
  BY <1>8, DeleteKeepsContract DEF Promise!CNext
<1>9. ASSUME NEW v \in Versions, KeepActive(v) \/ StopVersion(v)
      PROVE  [Promise!CNext]_Promise!contractVars
  BY <1>9, KeepActiveKeepsContract, StopVersionKeepsContract DEF Promise!CNext
<1>. QED
  BY <1>0, <1>1, <1>2, <1>3, <1>4, <1>5, <1>6, <1>7, <1>8, <1>9, StepCases DEF Continues

\* The controller, its caches, its delays and its failures implement the contract of
\* RolloutContract.
THEOREM KeepsContractHolds ==
  ASSUME LagBetweenPasses = FALSE, LoseRegistrations = FALSE, ForeignUsers = FALSE
  PROVE  Spec => KeepsContract
<1>1. TypeOK /\ TypeOK' /\ PassInOrder /\ BooksKept /\ RolloutSafe /\ [Next]_vars
        => [Promise!CNext]_Promise!contractVars
  BY ContractStep DEF ContractState, BooksState
<1>2. Spec => [](TypeOK /\ PassInOrder /\ BooksKept /\ RolloutSafe)
  BY TypeCorrect, PassOrderHolds, BooksHold, RolloutInvariantHolds, PTL
<1>3. Spec => Promise!CInit /\ [][Promise!CNext]_Promise!contractVars
  BY <1>1, <1>2, ContractInit, PTL DEF Spec
<1>. QED
  BY <1>3 DEF KeepsContract, Promise!Contract
=============================================================================
