---------------------------- MODULE History_proofs ----------------------------
(***************************************************************************)
(* HistoryInvariant is inductive.  So, for any number of versions, any     *)
(* history limit and any delays, and with failing calls, lost              *)
(* registrations and other users of the same Restate: a rollout keeps at   *)
(* most revisionHistoryLimit stopped versions, the newest ones, scales     *)
(* nothing down before its drain delay is over, and leaves no autoscaler   *)
(* on what it scaled down.  A pass begins with caches that have caught up. *)
(*                                                                         *)
(* And where every registration is recorded, and the object is alone with  *)
(* its Restate, it never blames another for having its services.           *)
(***************************************************************************)
EXTENDS Routing_proofs, HistoryInvariant, FiniteSetTheorems

-----------------------------------------------------------------------------
(* The steps of a rollout.                                                 *)

ApplyGoes ==
  \/ CreateReplicaSet \/ AdoptReplicaSet \/ UnscheduleAdopted \/ PublishVersion
  \/ RoutingChanged \/ QueryUsage \/ ValidateReady \/ ValidateNotReady
  \/ Register \/ RecordId \/ ConfirmLatest

WalkGoes ==
  \/ StartSweep \/ UnscheduleActive \/ Deregister \/ DeleteReplicaSet
  \/ \E v \in Versions : \/ KeepActive(v) \/ ScheduleRemoval(v)
                         \/ AwaitRemoval(v) \/ StopVersion(v)

LEMMA RollCases ==
  ASSUME TypeOK, PassFitsPhase, [Next]_vars, RollsOut'
  PROVE  \/ StartApply /\ BeginsWith("adopt", "Rollout") /\ phase = "live"
         \/ RollsOut /\ (ApplyGoes \/ WalkGoes \/ Outside)
<1>1. CASE Begins
  BY <1>1, BeginsFacts DEF BeginsWith, RollsOut
<1>2. CASE Ends
  BY <1>2, EndsFacts DEF RollsOut, Idle, At
<1>3. CASE Outside
  BY <1>3, OutsideFacts DEF RollsOut, At
<1>4. CASE ApplyGoes
  BY <1>4, ApplyMoves DEF ApplyGoes, Moves, RollsOut, At
<1>5. CASE WalkGoes
  BY <1>5, SweepMoves DEF WalkGoes, Moves, RollsOut, At
<1>6. CASE ClusterDeleted \/ ClusterFound \/ QueryForCleanup \/ FinishCleanup
  BY <1>6, CleanupMoves, CleanupMode
  DEF Moves, RollsOut, PassFitsPhase, CleanupOnly, IsDeleting
<1>. QED
  BY <1>1, <1>2, <1>3, <1>4, <1>5, <1>6, StepCases DEF Continues, ApplyGoes, WalkGoes

LEMMA InChargeBefore ==
  ASSUME TypeOK, PassFitsPhase, [Next]_vars, InCharge'
  PROVE  InCharge
BY LiveBefore, RollCases DEF InCharge

\* Getting ready and registering concerns the version the pass is about.
LEMMA ApplyKeepsOthers ==
  ASSUME TypeOK, ApplyGoes
  PROVE  /\ \A v \in Versions \ {Target} : rs'[v] = rs[v]
         /\ Target' = Target /\ op'.mode = op.mode /\ op'.self = op.self
         /\ op'.pc # "item" /\ op.pc \notin {"idle"} \cup Walking
         /\ UNCHANGED <<phase, spec, cache, hpaCache, sweep>>
<1>1. rs \in [Versions -> ReplicaSets] /\ Target \in Versions
  BY TargetType DEF TypeOK, ClusterTypeOK
<1>2. \A v \in Versions \ {Target} : rs'[v] = rs[v]
  BY <1>1
  DEF ApplyGoes, CreateReplicaSet, AdoptReplicaSet, UnscheduleAdopted, PublishVersion,
      RoutingChanged, QueryUsage, ValidateReady, ValidateNotReady, Register, RecordId,
      ConfirmLatest, cluster
<1>3. UNCHANGED <<phase, spec, cache, hpaCache, sweep>>
  BY DEF ApplyGoes, CreateReplicaSet, AdoptReplicaSet, UnscheduleAdopted, PublishVersion,
         RoutingChanged, QueryUsage, ValidateReady, ValidateNotReady, Register, RecordId,
         ConfirmLatest, object, caches
<1>. QED
  BY <1>2, <1>3, ApplyMoves DEF ApplyGoes, Moves, Walking

LEMMA AgedFacts ==
  ASSUME NEW r \in ReplicaSets
  PROVE  /\ Aged(r).exists = r.exists /\ Aged(r).id = r.id /\ Aged(r).up = r.up
         /\ Aged(r).created = r.created
         /\ r.removeAt = 0 => Aged(r).removeAt = 0
         /\ r.removeAt = Never => Aged(r).removeAt = Never
         /\ r.removeAt # Never => Aged(r).removeAt # Never
         /\ Aged(r).removeAt \in {r.removeAt, r.removeAt - 1}
BY DeploymentAssumption
DEF Aged, ReplicaSets, Deadlines, Never, DeploymentAssumption

\* As long as there is an object the environment lets its versions age, and the
\* cache catch up.
LEMMA OutsideAges ==
  ASSUME TypeOK, PassFitsPhase, Outside, ~At("idle") \/ InCharge
  PROVE  /\ UNCHANGED <<op, usage, sweep>> /\ UNCHANGED Target
         /\ \/ UNCHANGED rs /\ cache' \in {cache, rs}
            \/ /\ Tick
               /\ \A v \in Versions : rs'[v] = Aged(rs[v]) /\ cache'[v] = Aged(cache[v])
<1>1. CASE Tick
  BY <1>1, OutsideFacts DEF Tick, Target
<1>2. CASE ~Tick
  <2>1. ~CollectGarbage
    BY DEF CollectGarbage, PassFitsPhase, InCharge, RollsOut
  <2>2. UNCHANGED rs /\ cache' \in {cache, rs}
    BY <1>2, <2>1
    DEF Outside, Environment, EditSpec, DeleteObject, ClusterChanges, PodsBecomeReady,
        PodsStop, Sync, SyncHpa, Invocations, vars, cluster, caches, Pass
  <2>. QED
    BY <2>2, OutsideFacts DEF Target
<1>. QED
  BY <1>1, <1>2

LEMMA OutsideKeeps ==
  ASSUME TypeOK, PassFitsPhase, Outside, ~At("idle") \/ InCharge, NEW v \in Versions
  PROVE  /\ rs'[v].exists = rs[v].exists /\ rs'[v].id = rs[v].id /\ rs'[v].up = rs[v].up
         /\ rs'[v].created = rs[v].created
         /\ rs[v].removeAt = 0 => rs'[v].removeAt = 0
         /\ rs[v].removeAt = Never => rs'[v].removeAt = Never
         /\ rs[v].removeAt # Never => rs'[v].removeAt # Never
<1>1. rs[v] \in ReplicaSets
  BY DEF TypeOK, ClusterTypeOK
<1>. QED
  BY <1>1, OutsideAges, AgedFacts

\* What the walk does to a ReplicaSet.
LEMMA WalkTouches ==
  ASSUME TypeOK, WalkGoes, NEW v \in Versions
  PROVE  \/ rs'[v] = rs[v]
         \/ UnscheduleActive /\ v = sweep.at /\ rs'[v] = [rs[v] EXCEPT !.removeAt = Never]
         \/ DeleteReplicaSet /\ v = sweep.at /\ rs'[v] = Absent
         \/ KeepActive(v) /\ rs'[v] = [rs[v] EXCEPT !.up = TRUE]
         \/ ScheduleRemoval(v) /\ rs'[v] = [rs[v] EXCEPT !.removeAt = DrainDelay]
         \/ StopVersion(v) /\ Seen(v).up /\ rs'[v] = [rs[v] EXCEPT !.up = FALSE]
<1>0. rs \in [Versions -> ReplicaSets]
  BY DEF TypeOK, ClusterTypeOK
<1>1. CASE StartSweep \/ Deregister \/ \E w \in Versions : AwaitRemoval(w)
  BY <1>1 DEF StartSweep, Deregister, AwaitRemoval, cluster
<1>2. CASE UnscheduleActive
  BY <1>0, <1>2 DEF UnscheduleActive
<1>3. CASE DeleteReplicaSet
  BY <1>0, <1>3 DEF DeleteReplicaSet
<1>4. ASSUME NEW w \in Versions, KeepActive(w)
      PROVE  rs'[v] = rs[v] \/ (KeepActive(v) /\ rs'[v] = [rs[v] EXCEPT !.up = TRUE])
  BY <1>0, <1>4 DEF KeepActive
<1>5. ASSUME NEW w \in Versions, ScheduleRemoval(w)
      PROVE  \/ rs'[v] = rs[v]
             \/ ScheduleRemoval(v) /\ rs'[v] = [rs[v] EXCEPT !.removeAt = DrainDelay]
  BY <1>0, <1>5 DEF ScheduleRemoval
<1>6. ASSUME NEW w \in Versions, StopVersion(w)
      PROVE  \/ rs'[v] = rs[v]
             \/ StopVersion(v) /\ Seen(v).up /\ rs'[v] = [rs[v] EXCEPT !.up = FALSE]
  BY <1>0, <1>6 DEF StopVersion
<1>. QED
  BY <1>1, <1>2, <1>3, <1>4, <1>5, <1>6 DEF WalkGoes

LEMMA WalkKeepsNames ==
  ASSUME TypeOK, WalkGoes, NEW v \in Versions
  PROVE  \/ DeleteReplicaSet /\ v = sweep.at /\ rs'[v] = Absent /\ ~rs'[v].exists
         \/ /\ rs'[v].id = rs[v].id /\ rs'[v].exists = rs[v].exists
            /\ rs'[v].created = rs[v].created
<1>1. rs[v] \in ReplicaSets /\ ~Absent.exists
  BY DEF TypeOK, ClusterTypeOK, Absent
<1>2. ASSUME NEW d, rs'[v] = [rs[v] EXCEPT !.removeAt = d]
      PROVE  /\ rs'[v].id = rs[v].id /\ rs'[v].exists = rs[v].exists
             /\ rs'[v].created = rs[v].created
  BY <1>1, <1>2 DEF ReplicaSets
<1>3. ASSUME NEW b, rs'[v] = [rs[v] EXCEPT !.up = b]
      PROVE  /\ rs'[v].id = rs[v].id /\ rs'[v].exists = rs[v].exists
             /\ rs'[v].created = rs[v].created
  BY <1>1, <1>3 DEF ReplicaSets
<1>. QED
  BY <1>1, <1>2, <1>3, WalkTouches

\* A pass over an object that no cleanup has touched is a rollout.
LEMMA ChargeRolls ==
  ASSUME TypeOK, PassFitsPhase, InCharge, ~At("idle")
  PROVE  RollsOut /\ ~IsDeleting(op.mode)
BY DEF PassFitsPhase, InCharge, RollsOut, IsDeleting

-----------------------------------------------------------------------------
(* What Restate needs is scaled up.                                        *)

ServeState == ListState /\ ServesHold /\ ListHoldsUp /\ RecordedServingUp

LEMMA ServeFacts ==
  ASSUME ServeState
  PROVE  /\ ListState /\ TypeOK /\ [Next]_vars /\ PassFitsPhase /\ TargetExists /\ ReplyGiven
         /\ Target \in Versions /\ rs \in [Versions -> ReplicaSets]
         /\ sweep \in Sweeps /\ op \in OpStates
         /\ IdsBelong /\ WalksOld /\ ListAgrees /\ AnswerCovers
         /\ AsksAboutServing /\ AnswerStands /\ VitalUp /\ TargetStays
         /\ StoppedWasDue /\ KnownStoppedDue /\ ListExact /\ ViewFits
BY TargetType
DEF ServeState, ListState, PassInOrder, ServesHold, ListHoldsUp, TypeOK, ClusterTypeOK,
    PassTypeOK

LEMMA InUseBefore ==
  ASSUME NeedsNoMore, NEW v, rs'[v].id = rs[v].id, InUse(v)'
  PROVE  InUse(v)
BY DEF NeedsNoMore, InUse, Needed, LatestIds

LEMMA RollNoRegister ==
  ASSUME TypeOK, op'.pc \notin {"confirm", "record"} \/ op.pc # "register"
  PROVE  ~Register
BY ApplyMoves DEF Moves

LEMMA AsksAboutServingStep ==
  ASSUME ServeState
  PROVE  AsksAboutServing'
<1>. SUFFICES ASSUME RollsOut', op'.pc \in BeforeAnswer, NEW v \in Versions, v # Target',
                     InUse(v)'
              PROVE  rs'[v].up
  BY DEF AsksAboutServing
<1>0. TypeOK /\ PassFitsPhase /\ [Next]_vars
  BY ServeFacts
<1>1. ~Register
  BY <1>0, RollNoRegister DEF BeforeAnswer
<1>2. NeedsNoMore
  BY <1>0, <1>1, RegisteredShrinks
<1>3. CASE StartApply /\ BeginsWith("adopt", "Rollout") /\ phase = "live"
  <2>1. InUse(v)
    BY <1>2, <1>3, InUseBefore DEF BeginsWith
  <2>. QED
    BY <1>3, <2>1 DEF BeginsWith, ServeState, RecordedServingUp, InUse
<1>4. CASE RollsOut /\ ApplyGoes
  <2>1. op.pc \in BeforeAnswer
    BY <1>0, <1>4, ApplyMoves DEF ApplyGoes, Moves, BeforeAnswer
  <2>2. rs'[v] = rs[v] /\ v # Target
    BY <1>0, <1>4, ApplyKeepsOthers
  <2>. QED
    BY <1>2, <1>4, <2>1, <2>2, InUseBefore, ServeFacts DEF AsksAboutServing
<1>5. CASE RollsOut /\ WalkGoes
  BY <1>0, <1>5, SweepMoves DEF WalkGoes, Moves, BeforeAnswer
<1>6. CASE RollsOut /\ Outside
  <2>1. UNCHANGED <<op, Target>> /\ rs'[v].up = rs[v].up /\ rs'[v].id = rs[v].id
    BY <1>0, <1>6, OutsideAges, OutsideKeeps DEF RollsOut
  <2>. QED
    BY <1>2, <1>6, <2>1, InUseBefore, ServeFacts DEF AsksAboutServing
<1>. QED
  BY <1>0, <1>3, <1>4, <1>5, <1>6, RollCases

LEMMA AnswerStandsStep ==
  ASSUME ServeState
  PROVE  AnswerStands'
<1>. SUFFICES ASSUME RollsOut', op'.pc \in Answered, NEW id \in registered',
                     id \notin IdsOf(Target)', Needed(id)'
              PROVE  id \in usage'.latest \cup usage'.busy
  BY DEF AnswerStands
<1>0. TypeOK /\ PassFitsPhase /\ [Next]_vars
  BY ServeFacts
<1>1. ASSUME RollsOut, op.pc \in Answered, Target' = Target, UNCHANGED usage
      PROVE  id \in usage'.latest \cup usage'.busy
  <2>1. CASE Register
    <3>1. PICK new \in IdsOf(Target) : RegisterEndpoint(Target, new, op.action = "Promote")
      BY <1>0, <2>1, RegisterAdds
    <3>2. id \in registered /\ Needed(id)
      BY <1>0, <1>1, <3>1, RegisterNeedsLess DEF TypeOK, IdsOf
    <3>. QED
      BY <1>1, <3>2, ServeFacts DEF AnswerStands, IdsOf
  <2>2. CASE ~Register
    <3>1. id \in registered /\ Needed(id)
      BY <1>0, <2>2, RegisteredShrinks DEF NeedsNoMore
    <3>. QED
      BY <1>1, <3>1, ServeFacts DEF AnswerStands, IdsOf
  <2>. QED
    BY <2>1, <2>2
<1>3. CASE StartApply /\ BeginsWith("adopt", "Rollout")
  BY <1>3 DEF BeginsWith, Answered, Walking
<1>4. CASE RollsOut /\ ApplyGoes
  <2>1. CASE QueryUsage
    <3>1. ~Register
      BY <1>0, <2>1, ApplyMoves DEF Moves
    <3>2. id \in registered /\ Needed(id)
      BY <1>0, <3>1, RegisteredShrinks DEF NeedsNoMore
    <3>. QED
      BY <2>1, <3>2 DEF QueryUsage, UsageAnswer, Needed
  <2>2. CASE ConfirmLatest
    <3>1. op.pc = "confirm" /\ op.reply \in IdsOf(Target) /\ Target' = Target
      BY <1>0, <2>2, ApplyMoves, ServeFacts DEF Moves, ReplyGiven
    <3>2. ~Register
      BY <1>0, <3>1, ApplyMoves DEF Moves
    <3>3. id \in registered /\ Needed(id)
      BY <1>0, <3>2, RegisteredShrinks DEF NeedsNoMore
    <3>4. id \in usage.latest \cup usage.busy
      BY <1>4, <3>1, <3>3, ServeFacts DEF AnswerStands, Answered, IdsOf
    <3>5. id # op.reply
      BY <3>1 DEF IdsOf
    <3>. QED
      BY <2>2, <3>4, <3>5 DEF ConfirmLatest
  <2>3. CASE ValidateReady \/ ValidateNotReady \/ Register \/ RecordId
    <3>1. op.pc \in Answered /\ Target' = Target
      BY <1>0, <2>3, ApplyMoves DEF Moves, Answered
    <3>2. UNCHANGED usage
      BY <2>3 DEF ValidateReady, ValidateNotReady, Register, RecordId
    <3>. QED
      BY <1>1, <1>4, <3>1, <3>2
  <2>4. CASE \/ CreateReplicaSet \/ AdoptReplicaSet \/ UnscheduleAdopted \/ PublishVersion
             \/ RoutingChanged
    BY <1>0, <2>4, ApplyMoves DEF Moves, Answered, Walking
  <2>. QED
    BY <1>4, <2>1, <2>2, <2>3, <2>4 DEF ApplyGoes
<1>5. CASE RollsOut /\ WalkGoes
  <2>1. op.pc \in Answered /\ Target' = Target
    BY <1>0, <1>5, SweepMoves DEF WalkGoes, Moves, Answered, Walking
  <2>2. UNCHANGED usage
    BY <1>0, <1>5, WalkFacts, WalkEndFacts, StartSweepFacts DEF WalkGoes, Deregister
  <2>. QED
    BY <1>1, <1>5, <2>1, <2>2
<1>6. CASE RollsOut /\ Outside
  BY <1>0, <1>1, <1>6, OutsideAges DEF RollsOut
<1>. QED
  BY <1>0, <1>3, <1>4, <1>5, <1>6, RollCases

\* The walk stays clear of the version the pass is about.
LEMMA WalkIsOld ==
  ASSUME ServeState, RollsOut, op.pc \in Walking
  PROVE  /\ \A v \in sweep.todo : /\ v \in Versions /\ v # Target /\ v # sweep.at
                                 /\ Seen(v).id = rs[v].id
         /\ op.pc \in {"keep", "deregister", "delete"} =>
              sweep.at \in Versions /\ sweep.at # Target
BY ServeFacts DEF WalksOld, IsOld, IsDeleting, RollsOut, ListAgrees, Sweeps

LEMMA NextFits ==
  ASSUME ServeState, RollsOut, NEW v \in Versions,
         KeepActive(v) \/ ScheduleRemoval(v) \/ AwaitRemoval(v) \/ StopVersion(v)
  PROVE  /\ op.pc = "item" /\ v \in sweep.todo /\ v # Target /\ v # sweep.at
         /\ Seen(v).id = rs[v].id
         /\ Active(v) <=> Vital(v)
         /\ KnownToRestate(v) <=> rs[v].id \in usage.known
         /\ Due(v) <=> Seen(v).removeAt = 0
<1>1. op.pc = "item" /\ v \in sweep.todo
  BY SweepMoves, WalkFacts, ServeFacts DEF Moves
<1>2. v # Target /\ v # sweep.at /\ Seen(v).id = rs[v].id
  BY <1>1, WalkIsOld DEF Walking
<1>. QED
  BY <1>1, <1>2
  DEF Active, KnownToRestate, IsActive, Vital, Due, SkipsDrainDelay, RollsOut

LEMMA WalkKeepsVital ==
  ASSUME ServeState, RollsOut, WalkGoes, NEW v \in Versions, v # Target,
         rs'[v].id \in usage.known, rs'[v].id \in usage.latest \cup usage.busy
  PROVE  rs'[v].up
<1>0. /\ op.pc \in {"sweep"} \cup Walking /\ usage.known \subseteq Ids
      /\ rs[v] \in ReplicaSets /\ TypeOK
  BY ServeFacts, SweepMoves
  DEF WalkGoes, Moves, Walking, ListState, TypeOK, PassTypeOK, Usages
<1>1. ~(DeleteReplicaSet /\ rs'[v] = Absent)
  BY <1>0, RestateAssumption DEF Absent, RestateAssumption
<1>2. rs'[v].id = rs[v].id
  BY ZenonT(60), <1>0, <1>1, WalkTouches DEF ReplicaSets
<1>3. Vital(v)
  BY <1>2 DEF Vital
<1>4. rs[v].up
  BY <1>0, <1>3, ServeFacts DEF VitalUp, Answered
<1>5. ~StopVersion(v)
  BY <1>3, NextFits DEF StopVersion
<1>. QED
  BY <1>0, <1>1, <1>4, <1>5, WalkTouches DEF ReplicaSets

LEMMA VitalUpStep ==
  ASSUME ServeState
  PROVE  VitalUp'
<1>0. TypeOK /\ PassFitsPhase /\ [Next]_vars
  BY ServeFacts
<1>1. ASSUME RollsOut', op'.pc \in Answered, NEW v \in Versions, v # Target', Vital(v)'
      PROVE  rs'[v].up
  <2>0. rs'[v].id \in usage'.known /\ rs'[v].id \in usage'.latest \cup usage'.busy
    BY <1>1 DEF Vital
  <2>1. CASE StartApply /\ BeginsWith("adopt", "Rollout")
    BY <1>1, <2>1 DEF BeginsWith, Answered, Walking
  <2>2. CASE RollsOut /\ ApplyGoes
    <3>0. rs'[v] = rs[v] /\ v # Target
      BY <1>0, <1>1, <2>2, ApplyKeepsOthers
    <3>1. CASE QueryUsage
      <4>1. op.pc = "query"
        BY <1>0, <3>1, ApplyMoves DEF Moves
      <4>2. InUse(v)
        BY <2>0, <3>0, <3>1 DEF QueryUsage, UsageAnswer, NeedsUnpinnedCount, InUse, Needed
      <4>. QED
        BY <2>2, <3>0, <4>1, <4>2, ServeFacts DEF AsksAboutServing, BeforeAnswer
    <3>2. CASE ConfirmLatest
      <4>1. op.pc = "confirm" /\ op.reply \in IdsOf(Target)
        BY <1>0, <3>2, ApplyMoves, ServeFacts DEF Moves, ReplyGiven
      <4>2. rs[v].id # op.reply
        BY <3>0, <4>1, ServeFacts, IdsNotNoId DEF IdsBelong, IdsOf
      <4>3. Vital(v)
        BY <2>0, <3>0, <3>2, <4>2 DEF ConfirmLatest, Vital
      <4>. QED
        BY <2>2, <3>0, <4>1, <4>3, ServeFacts DEF VitalUp, Answered
    <3>3. CASE ValidateReady \/ ValidateNotReady \/ Register \/ RecordId
      <4>1. op.pc \in Answered
        BY <1>0, <3>3, ApplyMoves DEF Moves, Answered
      <4>2. UNCHANGED usage
        BY <3>3 DEF ValidateReady, ValidateNotReady, Register, RecordId
      <4>. QED
        BY <2>0, <2>2, <3>0, <4>1, <4>2, ServeFacts DEF VitalUp, Vital
    <3>4. CASE \/ CreateReplicaSet \/ AdoptReplicaSet \/ UnscheduleAdopted \/ PublishVersion
               \/ RoutingChanged
      BY <1>0, <1>1, <3>4, ApplyMoves DEF Moves, Answered, Walking
    <3>. QED
      BY <2>2, <3>1, <3>2, <3>3, <3>4 DEF ApplyGoes
  <2>3. CASE RollsOut /\ WalkGoes
    <3>1. Target' = Target /\ UNCHANGED usage
      BY <1>0, <2>3, SweepMoves, WalkFacts, WalkEndFacts, StartSweepFacts
      DEF WalkGoes, Moves, Deregister
    <3>. QED
      BY <1>1, <2>0, <2>3, <3>1, WalkKeepsVital
  <2>4. CASE RollsOut /\ Outside
    BY <1>0, <1>1, <2>0, <2>4, OutsideAges, OutsideKeeps, ServeFacts
    DEF VitalUp, Vital, RollsOut
  <2>. QED
    BY <1>0, <1>1, <2>1, <2>2, <2>3, <2>4, RollCases
<1>2. ASSUME RollsOut', op'.pc = "keep"
      PROVE  rs'[sweep'.at].up
  <2>1. CASE RollsOut /\ Outside
    <3>1. UNCHANGED <<op, sweep>> /\ sweep.at \in Versions /\ rs[sweep.at].up
      BY <1>0, <1>2, <2>1, OutsideFacts, ServeFacts, WalkIsOld DEF VitalUp, At, Walking
    <3>. QED
      BY <1>0, <2>1, <3>1, OutsideKeeps DEF RollsOut
  <2>2. ASSUME RollsOut, NEW v \in Versions, KeepActive(v)
        PROVE  rs'[sweep'.at].up
    <3>1. sweep'.at = v
      BY <1>0, <1>2, <2>2, WalkFacts
    <3>2. v # Target /\ Vital(v) /\ op.pc = "item"
      BY <2>2, NextFits DEF KeepActive
    <3>3. rs[v].up
      BY <2>2, <3>2, ServeFacts DEF VitalUp, Answered, Walking
    <3>. QED
      BY <2>2, <3>1, <3>3, ServeFacts DEF KeepActive, ReplicaSets
  <2>3. CASE StartApply /\ BeginsWith("adopt", "Rollout")
    BY <1>2, <2>3 DEF BeginsWith
  <2>4. CASE ApplyGoes
    BY <1>0, <1>2, <2>4, ApplyMoves DEF ApplyGoes, Moves
  <2>5. CASE WalkGoes /\ ~\E v \in Versions : KeepActive(v)
    BY <1>0, <1>2, <2>5, SweepMoves DEF WalkGoes, Moves
  <2>. QED
    BY <1>0, <1>2, <2>1, <2>2, <2>3, <2>4, <2>5, RollCases
<1>. QED
  BY <1>1, <1>2 DEF VitalUp, At

LEMMA WalkSparesTarget ==
  ASSUME ServeState, RollsOut, WalkGoes
  PROVE  rs'[Target] = rs[Target] /\ op.pc \in {"sweep"} \cup Walking
<1>1. TypeOK /\ Target \in Versions
  BY ServeFacts
<1>2. op.pc \in {"sweep"} \cup Walking
  BY <1>1, SweepMoves DEF WalkGoes, Moves, Walking
<1>3. UnscheduleActive \/ DeleteReplicaSet => sweep.at # Target
  BY <1>1, WalkEndFacts, WalkIsOld DEF Walking
<1>4. ~KeepActive(Target) /\ ~ScheduleRemoval(Target) /\ ~StopVersion(Target)
  BY <1>1, NextFits
<1>. QED
  BY <1>1, <1>2, <1>3, <1>4, WalkTouches

LEMMA TargetStaysStep ==
  ASSUME ServeState
  PROVE  TargetStays'
<1>. SUFFICES ASSUME RollsOut', op'.pc \in Adopted
              PROVE  /\ rs'[Target'].up
                     /\ op'.pc # "unschedule" => rs'[Target'].removeAt = Never
  BY DEF TargetStays
<1>0. /\ TypeOK /\ PassFitsPhase /\ [Next]_vars /\ Target \in Versions
      /\ rs \in [Versions -> ReplicaSets]
  BY ServeFacts
<1>1. CASE StartApply /\ BeginsWith("adopt", "Rollout")
  BY <1>1 DEF BeginsWith, Adopted, Answered, Walking
<1>2. CASE RollsOut /\ ApplyGoes
  <2>0. Target' = Target
    BY <1>0, <1>2, ApplyKeepsOthers
  <2>1. CASE CreateReplicaSet
    BY <1>0, <2>0, <2>1 DEF CreateReplicaSet, Created
  <2>2. CASE AdoptReplicaSet
    <3>1. rs'[Target].up /\ rs'[Target].removeAt = rs[Target].removeAt
      BY <1>0, <2>2 DEF AdoptReplicaSet, ReplicaSets
    <3>2. op'.pc # "unschedule" => rs[Target].removeAt = Never
      BY <1>0, <2>2 DEF AdoptReplicaSet, TypeOK, PassTypeOK, OpStates
    <3>. QED
      BY <2>0, <3>1, <3>2
  <2>3. CASE UnscheduleAdopted
    <3>1. op.pc = "unschedule" /\ rs[Target].up
      BY <1>0, <1>2, <2>3, ApplyMoves, ServeFacts DEF Moves, TargetStays, Adopted
    <3>. QED
      BY <1>0, <2>0, <2>3, <3>1 DEF UnscheduleAdopted, ReplicaSets
  <2>4. CASE \/ PublishVersion \/ RoutingChanged \/ QueryUsage \/ ValidateReady
             \/ ValidateNotReady \/ Register \/ RecordId \/ ConfirmLatest
    <3>1. rs[Target].up /\ rs[Target].removeAt = Never
      BY <1>0, <1>2, <2>4, ApplyMoves, ServeFacts DEF Moves, TargetStays, Adopted, Answered
    <3>2. rs'[Target].up = rs[Target].up /\ rs'[Target].removeAt = rs[Target].removeAt
      BY <1>0, <2>4
      DEF PublishVersion, RoutingChanged, QueryUsage, ValidateReady, ValidateNotReady,
          Register, RecordId, ConfirmLatest, cluster, ReplicaSets
    <3>. QED
      BY <2>0, <3>1, <3>2
  <2>. QED
    BY <1>2, <2>1, <2>2, <2>3, <2>4 DEF ApplyGoes
<1>3. CASE RollsOut /\ WalkGoes
  <2>1. Target' = Target
    BY <1>0, <1>3, SweepMoves DEF WalkGoes, Moves
  <2>2. op.pc \in Adopted \ {"unschedule"} /\ rs'[Target] = rs[Target]
    BY <1>3, WalkSparesTarget DEF Adopted, Answered, Walking
  <2>. QED
    BY <1>3, <2>1, <2>2, ServeFacts DEF TargetStays
<1>4. CASE RollsOut /\ Outside
  BY <1>0, <1>4, OutsideAges, OutsideKeeps, ServeFacts DEF TargetStays, RollsOut
<1>. QED
  BY <1>0, <1>1, <1>2, <1>3, <1>4, RollCases

\* A registered version found stopped in the walk was due, or is stopped as due.
LEMMA WalkStopsDue ==
  ASSUME ServeState, RollsOut, WalkGoes, NEW v \in Versions, v # Target,
         rs'[v].exists, ~rs'[v].up, rs'[v].id \in usage.known
  PROVE  rs'[v].removeAt = 0
<1>0. /\ op.pc \in {"sweep"} \cup Walking /\ rs[v] \in ReplicaSets /\ TypeOK
  BY ServeFacts, SweepMoves DEF WalkGoes, Moves, Walking
<1>1. rs'[v] # Absent
  BY DEF Absent
<1>2. ~(KeepActive(v) /\ rs'[v] = [rs[v] EXCEPT !.up = TRUE])
  BY <1>0 DEF ReplicaSets
<1>3. ~(UnscheduleActive /\ v = sweep.at /\ rs'[v] = [rs[v] EXCEPT !.removeAt = Never])
  <2>. SUFFICES ASSUME UnscheduleActive, v = sweep.at, rs'[v] = [rs[v] EXCEPT !.removeAt = Never]
                PROVE  FALSE
    OBVIOUS
  <2>1. op.pc = "keep"
    BY <1>0, SweepMoves DEF Moves
  <2>. QED
    BY <1>0, <2>1, ServeFacts DEF VitalUp, At, ReplicaSets
<1>4. ASSUME rs'[v] = rs[v]
      PROVE  rs'[v].removeAt = 0
  BY <1>0, <1>4, ServeFacts DEF KnownStoppedDue, Answered
<1>5. ASSUME ScheduleRemoval(v), rs'[v] = [rs[v] EXCEPT !.removeAt = DrainDelay]
      PROVE  FALSE
  <2>1. ~rs[v].up
    BY <1>0, <1>5 DEF ReplicaSets
  <2>2. op.pc = "item" /\ v \in sweep.todo
    BY <1>5, NextFits
  <2>3. Seen(v).removeAt = 0 /\ Seen(v).removeAt = Never
    BY <1>5, <2>1, <2>2, ServeFacts DEF ViewFits, Walking, ScheduleRemoval
  <2>. QED
    BY <2>3 DEF Never
<1>6. ASSUME StopVersion(v), rs'[v] = [rs[v] EXCEPT !.up = FALSE]
      PROVE  rs'[v].removeAt = 0
  <2>1. rs'[v].id = rs[v].id /\ rs'[v].removeAt = rs[v].removeAt
    BY <1>0, <1>6 DEF ReplicaSets
  <2>2. op.pc = "item" /\ v \in sweep.todo /\ Seen(v).removeAt = 0
    BY <1>6, <2>1, NextFits DEF StopVersion
  <2>. QED
    BY <2>1, <2>2, ServeFacts DEF ViewFits, Walking
<1>. QED
  BY <1>0, <1>1, <1>2, <1>3, <1>4, <1>5, <1>6, WalkTouches

LEMMA StoppedWasDueStep ==
  ASSUME ServeState
  PROVE  StoppedWasDue'
<1>. SUFFICES ASSUME InCharge', NEW v \in Versions, rs'[v].exists, ~rs'[v].up,
                     rs'[v].id \in registered'
              PROVE  rs'[v].removeAt = 0
  BY DEF StoppedWasDue
<1>0. /\ TypeOK /\ PassFitsPhase /\ [Next]_vars /\ Target \in Versions
      /\ rs \in [Versions -> ReplicaSets]
  BY ServeFacts
<1>1. InCharge
  BY <1>0, InChargeBefore
<1>2. ASSUME ~Register, rs'[v] = rs[v]
      PROVE  rs'[v].removeAt = 0
  BY <1>0, <1>1, <1>2, RegisteredShrinks, ServeFacts DEF StoppedWasDue, NeedsNoMore
<1>3. CASE Begins
  BY <1>0, <1>1, <1>3, BeginsFacts, ServeFacts DEF BeginsWith, StoppedWasDue
<1>4. CASE Ends
  BY <1>0, <1>1, <1>4, EndsFacts, ServeFacts DEF StoppedWasDue
<1>5. CASE Outside
  <2>1. CASE Register
    BY <1>5, <2>1, <1>0, OutsideFacts, RegisterAdds
  <2>2. CASE ~Register
    <3>1. rs[v].exists /\ ~rs[v].up /\ rs[v].id \in registered
      BY <1>0, <1>1, <1>5, <2>2, OutsideKeeps, RegisteredShrinks DEF NeedsNoMore
    <3>. QED
      BY <1>0, <1>1, <1>5, <3>1, OutsideKeeps, ServeFacts DEF StoppedWasDue
  <2>. QED
    BY <2>1, <2>2
<1>6. CASE ApplyGoes
  <2>1. RollsOut /\ RollsOut' /\ Target' = Target
    BY <1>0, <1>1, <1>6, ChargeRolls, ApplyKeepsOthers, ApplyMoves
    DEF At, RollsOut, ApplyGoes, Moves
  <2>2. CASE v = Target
    BY <1>0, <1>6, <2>1, <2>2, TargetStaysStep, ApplyMoves
    DEF TargetStays, Adopted, Answered, ApplyGoes, Moves
  <2>3. CASE v # Target
    <3>1. rs'[v] = rs[v]
      BY <1>0, <1>6, <2>3, ApplyKeepsOthers
    <3>2. CASE Register
      <4>1. PICK new \in IdsOf(Target) : registered' = registered \cup {new}
        BY <1>0, <3>2, RegisterAdds
      <4>2. rs[v].id # new
        BY <2>3, <4>1, ServeFacts, IdsNotNoId DEF IdsBelong, IdsOf
      <4>. QED
        BY <1>1, <3>1, <4>1, <4>2, ServeFacts DEF StoppedWasDue
    <3>. QED
      BY <1>2, <3>1, <3>2
  <2>. QED
    BY <2>2, <2>3
<1>7. CASE WalkGoes
  <2>1. RollsOut
    BY <1>0, <1>1, <1>7, ChargeRolls, SweepMoves DEF WalkGoes, Moves, At
  <2>2. rs'[Target] = rs[Target] /\ op.pc \in {"sweep"} \cup Walking
    BY <1>7, <2>1, WalkSparesTarget
  <2>3. ~Register
    BY <1>0, <2>2, ApplyMoves DEF Moves, Walking
  <2>4. CASE v # Target
    <3>1. rs'[v].id = rs[v].id
      BY <1>0, <1>7, WalkKeepsNames
    <3>2. rs[v].id \in registered
      BY <1>0, <2>3, <3>1, RegisteredShrinks DEF NeedsNoMore
    <3>3. VersionOf(rs[v].id) = v
      BY <3>2, ServeFacts, VersionOfType DEF IdsBelong, IdsOf, TypeOK, RestateTypeOK
    <3>4. rs[v].id \in usage.known
      BY <2>2, <2>4, <3>2, <3>3, ServeFacts DEF AnswerCovers, IsOld, Answered
    <3>. QED
      BY <1>7, <2>1, <2>4, <3>1, <3>4, WalkStopsDue
  <2>. QED
    BY <1>2, <2>2, <2>3, <2>4
<1>8. CASE ClusterDeleted \/ ClusterFound \/ QueryForCleanup \/ FinishCleanup
  BY <1>0, <1>1, <1>8, ChargeRolls, CleanupMoves
  DEF Moves, PassFitsPhase, CleanupOnly, At
<1>. QED
  BY <1>0, <1>3, <1>4, <1>5, <1>6, <1>7, <1>8, StepCases DEF Continues, ApplyGoes, WalkGoes

LEMMA KnownStoppedDueStep ==
  ASSUME ServeState
  PROVE  KnownStoppedDue'
<1>. SUFFICES ASSUME RollsOut', op'.pc \in Answered, NEW v \in Versions, v # Target',
                     rs'[v].exists, ~rs'[v].up, rs'[v].id \in usage'.known
              PROVE  rs'[v].removeAt = 0
  BY DEF KnownStoppedDue
<1>0. /\ TypeOK /\ PassFitsPhase /\ [Next]_vars /\ Target \in Versions
      /\ rs \in [Versions -> ReplicaSets]
  BY ServeFacts
<1>1. CASE StartApply /\ BeginsWith("adopt", "Rollout")
  BY <1>1 DEF BeginsWith, Answered, Walking
<1>2. CASE RollsOut /\ ApplyGoes
  <2>0. rs'[v] = rs[v] /\ v # Target
    BY <1>0, <1>2, ApplyKeepsOthers
  <2>1. CASE QueryUsage
    <3>1. rs[v].id \in registered
      BY <2>0, <2>1 DEF QueryUsage, UsageAnswer
    <3>. QED
      BY <1>2, <2>0, <3>1, ServeFacts DEF StoppedWasDue, InCharge
  <2>2. CASE ConfirmLatest
    <3>1. op.pc = "confirm" /\ op.reply \in IdsOf(Target)
      BY <1>0, <2>2, ApplyMoves, ServeFacts DEF Moves, ReplyGiven
    <3>2. rs[v].id # op.reply
      BY <2>0, <3>1, ServeFacts, IdsNotNoId DEF IdsBelong, IdsOf
    <3>3. rs[v].id \in usage.known
      BY <2>0, <2>2, <3>2 DEF ConfirmLatest
    <3>. QED
      BY <1>2, <2>0, <3>1, <3>3, ServeFacts DEF KnownStoppedDue, Answered
  <2>3. CASE ValidateReady \/ ValidateNotReady \/ Register \/ RecordId
    <3>1. op.pc \in Answered
      BY <1>0, <2>3, ApplyMoves DEF Moves, Answered
    <3>2. UNCHANGED usage
      BY <2>3 DEF ValidateReady, ValidateNotReady, Register, RecordId
    <3>. QED
      BY <1>2, <2>0, <3>1, <3>2, ServeFacts DEF KnownStoppedDue
  <2>4. CASE \/ CreateReplicaSet \/ AdoptReplicaSet \/ UnscheduleAdopted \/ PublishVersion
             \/ RoutingChanged
    BY <1>0, <2>4, ApplyMoves DEF Moves, Answered, Walking
  <2>. QED
    BY <1>2, <2>1, <2>2, <2>3, <2>4 DEF ApplyGoes
<1>3. CASE RollsOut /\ WalkGoes
  <2>1. Target' = Target /\ UNCHANGED usage
    BY <1>0, <1>3, SweepMoves, WalkFacts, WalkEndFacts, StartSweepFacts
    DEF WalkGoes, Moves, Deregister
  <2>. QED
    BY <1>3, <2>1, WalkStopsDue
<1>4. CASE RollsOut /\ Outside
  <2>1. ~At("idle")
    BY <1>4 DEF RollsOut
  <2>2. UNCHANGED <<op, usage, Target>>
    BY <1>0, <1>4, <2>1, OutsideAges
  <2>3. rs[v].exists /\ ~rs[v].up /\ rs[v].id \in usage.known
    BY <1>0, <1>4, <2>1, <2>2, OutsideKeeps
  <2>. QED
    BY <1>0, <1>4, <2>1, <2>2, <2>3, OutsideKeeps, ServeFacts DEF KnownStoppedDue
<1>. QED
  BY <1>0, <1>1, <1>2, <1>3, <1>4, RollCases

LEMMA ListExactStep ==
  ASSUME ServeState
  PROVE  ListExact'
<1>. DEFINE Listed == BeforeAnswer \cup (Answered \ Walking)
<1>. SUFFICES ASSUME RollsOut', op'.pc \in Listed, NEW v \in Versions, v # Target'
              PROVE  cache'[v] = rs'[v]
  BY DEF ListExact
<1>0. TypeOK /\ PassFitsPhase /\ [Next]_vars /\ LagBetweenPasses = FALSE
  BY ServeFacts DEF ListState
<1>1. CASE StartApply /\ BeginsWith("adopt", "Rollout")
  BY <1>0, <1>1 DEF BeginsWith
<1>2. CASE RollsOut /\ ApplyGoes
  <2>1. op.pc \in Listed
    BY <1>0, <1>2, ApplyMoves DEF ApplyGoes, Moves, BeforeAnswer, Answered, Walking
  <2>. QED
    BY <1>0, <1>2, <2>1, ApplyKeepsOthers, ServeFacts DEF ListExact
<1>3. CASE RollsOut /\ WalkGoes
  BY <1>0, <1>3, SweepMoves DEF WalkGoes, Moves, BeforeAnswer, Answered, Walking
<1>4. CASE RollsOut /\ Outside
  <2>1. cache[v] = rs[v] /\ UNCHANGED <<op, Target>>
    BY <1>0, <1>4, OutsideAges, ServeFacts DEF ListExact, RollsOut
  <2>. QED
    BY <1>0, <1>4, <2>1, OutsideAges DEF RollsOut
<1>. QED
  BY <1>0, <1>1, <1>2, <1>3, <1>4, RollCases

\* The walk leaves alone what it has not come to.
LEMMA WalkSparesTodo ==
  ASSUME ServeState, RollsOut, WalkGoes, op.pc # "sweep", NEW v \in sweep'.todo
  PROVE  /\ op.pc \in Walking /\ v \in sweep.todo /\ v \in Versions /\ rs'[v] = rs[v]
         /\ sweep'.view = sweep.view /\ Target' = Target /\ UNCHANGED usage
<1>0. TypeOK /\ sweep \in Sweeps /\ ~StartSweep /\ op.pc \in Walking
  BY ServeFacts, SweepMoves DEF WalkGoes, Moves, Walking
<1>1. /\ v \in sweep.todo /\ sweep'.view = sweep.view /\ UNCHANGED usage
      /\ ~KeepActive(v) /\ ~ScheduleRemoval(v) /\ ~StopVersion(v)
  <2>1. CASE UnscheduleActive \/ DeleteReplicaSet
    BY <1>0, <2>1, WalkEndFacts DEF Sweeps, KeepActive, ScheduleRemoval, StopVersion, IsNext, At
  <2>2. CASE Deregister
    BY <1>0, <2>2, SweepMoves
    DEF Deregister, Moves, KeepActive, ScheduleRemoval, StopVersion, IsNext, At
  <2>3. CASE \E w \in Versions : \/ KeepActive(w) \/ ScheduleRemoval(w)
                                 \/ AwaitRemoval(w) \/ StopVersion(w)
    <3>1. PICK w \in Versions : \/ KeepActive(w) \/ ScheduleRemoval(w)
                               \/ AwaitRemoval(w) \/ StopVersion(w)
      BY <2>3
    <3>2. sweep'.todo = sweep.todo \ {w} /\ sweep'.view = sweep.view /\ UNCHANGED usage
      BY <1>0, <3>1, WalkFacts
    <3>3. v \in Versions
      BY <1>0, <3>2 DEF Sweeps
    <3>. QED
      BY <1>0, <3>2, <3>3, WalkFacts
  <2>. QED
    BY <1>0, <2>1, <2>2, <2>3 DEF WalkGoes
<1>2. v \in Versions /\ v # sweep.at
  BY <1>0, <1>1, WalkIsOld
<1>3. rs'[v] = rs[v]
  BY <1>0, <1>1, <1>2, WalkTouches
<1>. QED
  BY <1>0, <1>1, <1>2, <1>3, SweepMoves DEF WalkGoes, Moves

LEMMA ViewFitsStep ==
  ASSUME ServeState
  PROVE  ViewFits'
<1>0. /\ TypeOK /\ PassFitsPhase /\ [Next]_vars /\ Target \in Versions
      /\ rs \in [Versions -> ReplicaSets] /\ sweep \in Sweeps /\ op \in OpStates
  BY ServeFacts
<1>1. ASSUME RollsOut', op'.pc \in Walking, NEW v \in sweep'.todo
      PROVE  /\ rs'[v].exists
             /\ sweep'.view[v].up = rs'[v].up /\ sweep'.view[v].created = rs'[v].created
             /\ sweep'.view[v].removeAt = 0 => rs'[v].removeAt = 0
             /\ ~sweep'.view[v].up /\ KnownToRestate(v)' => sweep'.view[v].removeAt = 0
  <2>1. CASE RollsOut /\ StartSweep
    <3>1. op.pc = "sweep" /\ v \in Versions /\ cache[v].exists /\ v # Target
      BY <1>0, <1>1, <2>1, StartSweepFacts, SweepMoves DEF Moves, IsOld, RollsOut, IsDeleting
    <3>2. cache[v] = rs[v]
      BY <2>1, <3>1, ServeFacts DEF ListExact, Answered, Walking
    <3>3. sweep'.view[v] = rs[v] /\ rs' = rs /\ usage' = usage
      BY <1>0, <1>1, <2>1, <3>2, StartSweepFacts
    <3>4. ~rs[v].up /\ rs[v].id \in usage.known => rs[v].removeAt = 0
      BY <2>1, <3>1, <3>2, ServeFacts DEF KnownStoppedDue, Answered
    <3>. QED
      BY <3>1, <3>2, <3>3, <3>4 DEF KnownToRestate, Seen
  <2>2. CASE RollsOut /\ WalkGoes /\ ~StartSweep
    <3>1. op.pc # "sweep"
      BY <1>0, <2>2, SweepMoves DEF WalkGoes, Moves
    <3>2. /\ op.pc \in Walking /\ v \in sweep.todo /\ rs'[v] = rs[v]
          /\ sweep'.view = sweep.view /\ UNCHANGED usage
      BY <1>1, <2>2, <3>1, WalkSparesTodo
    <3>. QED
      BY <2>2, <3>2, ServeFacts DEF ViewFits, KnownToRestate, Seen
  <2>3. CASE RollsOut /\ Outside
    <3>1. UNCHANGED <<op, usage, sweep>> /\ v \in Versions /\ ~At("idle")
      BY <1>0, <1>1, <2>3, OutsideFacts DEF Sweeps, RollsOut
    <3>. QED
      BY <1>0, <1>1, <2>3, <3>1, OutsideKeeps, ServeFacts DEF ViewFits, KnownToRestate, Seen
  <2>4. CASE RollsOut /\ ApplyGoes
    BY <1>0, <1>1, <2>4, ApplyMoves DEF ApplyGoes, Moves, Walking
  <2>5. CASE StartApply /\ BeginsWith("adopt", "Rollout")
    BY <1>1, <2>5 DEF BeginsWith, Walking
  <2>. QED
    BY <1>0, <1>1, <2>1, <2>2, <2>3, <2>4, <2>5, RollCases
<1>2. ASSUME op'.pc = "item"
      PROVE  sweep'.at = NoVersion
  <2>1. CASE StartSweep
    BY <1>0, <2>1, StartSweepFacts
  <2>2. CASE UnscheduleActive \/ DeleteReplicaSet
    BY <1>0, <2>2, WalkEndFacts DEF Sweeps
  <2>3. CASE Deregister
    BY <1>0, <1>2, <2>3, SweepMoves DEF Moves
  <2>4. ASSUME NEW v \in Versions, KeepActive(v)
        PROVE  sweep'.at = NoVersion
    BY <1>0, <1>2, <2>4 DEF KeepActive, Goto, Sweeps, OpStates
  <2>5. ASSUME NEW v \in Versions, ScheduleRemoval(v) \/ AwaitRemoval(v)
        PROVE  sweep'.at = NoVersion
    BY <1>0, <2>5, ServeFacts DEF ScheduleRemoval, AwaitRemoval, IsNext, Sweeps, ViewFits
  <2>6. ASSUME NEW v \in Versions, StopVersion(v)
        PROVE  sweep'.at = NoVersion
    BY <1>0, <1>2, <2>6 DEF StopVersion, Goto, Sweeps, OpStates
  <2>7. CASE Outside
    BY <1>2, <2>7, OutsideFacts, ServeFacts DEF ViewFits, At
  <2>. QED
    BY <1>0, <1>2, <2>1, <2>2, <2>3, <2>4, <2>5, <2>6, <2>7, WalkCases DEF Walking
<1>3. ASSUME RollsOut', op'.pc \in {"deregister", "delete"}
      PROVE  rs'[sweep'.at].exists /\ ~rs'[sweep'.at].up
  <2>1. ASSUME RollsOut, NEW v \in Versions, StopVersion(v)
        PROVE  rs'[sweep'.at].exists /\ ~rs'[sweep'.at].up
    <3>1. sweep'.at = v /\ v \in sweep.todo /\ op.pc = "item"
      BY <1>0, <1>3, <2>1, WalkFacts, NextFits
    <3>2. rs[v].exists /\ Seen(v).up = rs[v].up
      BY <2>1, <3>1, ServeFacts DEF ViewFits, Walking
    <3>. QED
      BY <1>0, <2>1, <3>1, <3>2 DEF StopVersion, ReplicaSets
  <2>2. CASE RollsOut /\ Deregister
    <3>1. op.pc = "deregister" /\ UNCHANGED <<rs, sweep>>
      BY <1>0, <2>2, SweepMoves DEF Moves, Deregister, cluster
    <3>. QED
      BY <2>2, <3>1, ServeFacts DEF ViewFits, Stopping
  <2>3. CASE RollsOut /\ Outside
    <3>1. UNCHANGED <<op, sweep>> /\ ~At("idle")
      BY <1>0, <2>3, OutsideFacts DEF RollsOut
    <3>2. sweep.at \in Versions /\ rs[sweep.at].exists /\ ~rs[sweep.at].up
      BY <1>3, <2>3, <3>1, WalkIsOld, ServeFacts DEF ViewFits, Stopping, Walking
    <3>. QED
      BY <1>0, <2>3, <3>1, <3>2, OutsideKeeps
  <2>4. CASE StartApply /\ BeginsWith("adopt", "Rollout")
    BY <1>3, <2>4 DEF BeginsWith
  <2>5. CASE ApplyGoes
    BY <1>0, <1>3, <2>5, ApplyMoves DEF ApplyGoes, Moves
  <2>6. CASE WalkGoes /\ ~Deregister /\ ~\E v \in Versions : StopVersion(v)
    BY <1>0, <1>3, <2>6, SweepMoves DEF WalkGoes, Moves
  <2>. QED
    BY <1>0, <1>3, <2>1, <2>2, <2>3, <2>4, <2>5, <2>6, RollCases
<1>. QED
  BY <1>1, <1>2, <1>3 DEF ViewFits, At, Stopping, Seen

\* In a rollout the two snapshots agree with what they were taken of.
LEMMA ServesHolds ==
  ASSUME LagBetweenPasses = FALSE
  PROVE  Spec => [](ServesHold /\ ListHoldsUp)
<1>1. Init => ServesHold /\ ListHoldsUp
  <2>. SUFFICES ASSUME Init PROVE ServesHold /\ ListHoldsUp
    OBVIOUS
  <2>1. op.pc = "idle" /\ ~RollsOut /\ \A v \in Versions : ~rs[v].exists
    BY DEF Init, Idle, RollsOut, At, Absent
  <2>. QED
    BY <2>1
    DEF ServesHold, ListHoldsUp, AsksAboutServing, AnswerStands, VitalUp, TargetStays,
        StoppedWasDue, KnownStoppedDue, ListExact, ViewFits, At
<1>2. /\ TypeOK /\ TypeOK' /\ PassInOrder /\ (ListAgrees /\ AnswerCovers) /\ RecordedServingUp
      /\ (ServesHold /\ ListHoldsUp) /\ [Next]_vars
      => (ServesHold /\ ListHoldsUp)'
  <2>. SUFFICES ASSUME ServeState PROVE (ServesHold /\ ListHoldsUp)'
    BY DEF ServeState, ListState
  <2>. QED
    BY AsksAboutServingStep, AnswerStandsStep, VitalUpStep, TargetStaysStep,
       StoppedWasDueStep, KnownStoppedDueStep, ListExactStep, ViewFitsStep
    DEF ServesHold, ListHoldsUp
<1>. QED
  BY <1>1, <1>2, TypeCorrect, PassOrderHolds, ListStateHolds, RolloutKeepsNeededVersions,
     PTL DEF Spec

-----------------------------------------------------------------------------
(* What is scaled down has no autoscaler.                                  *)

HpaState == ServeState /\ ServesHold' /\ HpasKept /\ hpaListed

\* Getting ready only ever drops an autoscaler.
LEMMA ApplyHpas ==
  ASSUME ApplyGoes
  PROVE  hpa' \subseteq hpa
BY DEF ApplyGoes, CreateReplicaSet, AdoptReplicaSet, UnscheduleAdopted, PublishVersion,
       HpasWithout, RoutingChanged, QueryUsage, ValidateReady, ValidateNotReady, Register,
       RecordId, ConfirmLatest, cluster

\* The walk adds one to a version it keeps.
LEMMA WalkHpas ==
  ASSUME WalkGoes, NEW v \in hpa'
  PROVE  v \in hpa \/ (v \in Versions /\ KeepActive(v))
<1>1. CASE StartSweep \/ Deregister \/ \E w \in Versions : AwaitRemoval(w)
  BY <1>1 DEF StartSweep, Deregister, AwaitRemoval, cluster
<1>2. CASE UnscheduleActive \/ DeleteReplicaSet
  BY <1>2 DEF UnscheduleActive, DeleteReplicaSet
<1>3. ASSUME NEW w \in Versions, KeepActive(w)
      PROVE  hpa' \subseteq hpa \cup {w}
  BY <1>3 DEF KeepActive, HpasWithout
<1>4. ASSUME NEW w \in Versions, ScheduleRemoval(w) \/ StopVersion(w)
      PROVE  hpa' \subseteq hpa
  BY <1>4 DEF ScheduleRemoval, StopVersion, HpasWithout
<1>. QED
  BY <1>1, <1>2, <1>3, <1>4 DEF WalkGoes

LEMMA OutsideHpas ==
  ASSUME PassFitsPhase, Outside, ~At("idle") \/ InCharge
  PROVE  UNCHANGED hpa /\ hpaCache' \in {hpaCache, hpa}
<1>1. ~CollectGarbage
  BY DEF CollectGarbage, PassFitsPhase, InCharge, RollsOut
<1>. QED
  BY <1>1
  DEF Outside, Environment, EditSpec, DeleteObject, ClusterChanges, PodsBecomeReady,
      PodsStop, Sync, SyncHpa, Invocations, Tick, vars, cluster, caches, Pass

\* A version is stopped together with its autoscaler.
LEMMA StopDropsHpa ==
  ASSUME HpaState, RollsOut, NEW v \in Versions, StopVersion(v)
  PROVE  v \notin hpa'
<1>1. op.pc = "item" /\ v \in sweep.todo
  BY NextFits DEF HpaState
<1>2. v \in hpa => v \in hpaCache
  BY <1>1 DEF HpaState, HpasKept, HpasSeen, Walking
<1>. QED
  BY <1>2 DEF StopVersion, HpasWithout

LEMMA HpasSeenStep ==
  ASSUME HpaState
  PROVE  HpasSeen'
<1>0. /\ TypeOK /\ PassFitsPhase /\ [Next]_vars /\ sweep \in Sweeps /\ HpasSeen
      /\ ServeState /\ LagBetweenPasses = FALSE /\ hpaListed
  BY ServeFacts DEF HpaState, HpasKept, ListState
<1>. DEFINE Listed == BeforeAnswer \cup (Answered \ Walking)
<1>1. ASSUME RollsOut', op'.pc \in Listed
      PROVE  hpa' \subseteq hpaCache'
  <2>1. CASE StartApply
    BY <1>0, <2>1 DEF StartApply, CaughtUp, cluster, caches
  <2>2. CASE RollsOut /\ ApplyGoes
    <3>1. op.pc \in Listed
      BY <1>0, <2>2, ApplyMoves DEF ApplyGoes, Moves, BeforeAnswer, Answered, Walking
    <3>. QED
      BY <1>0, <2>2, <3>1, ApplyHpas, ApplyKeepsOthers DEF HpasSeen
  <2>3. CASE RollsOut /\ WalkGoes
    BY <1>0, <1>1, <2>3, SweepMoves DEF WalkGoes, Moves, BeforeAnswer, Answered, Walking
  <2>4. CASE RollsOut /\ Outside
    BY <1>0, <1>1, <2>4, OutsideFacts, OutsideHpas DEF HpasSeen, RollsOut
  <2>. QED
    BY <1>0, <1>1, <2>1, <2>2, <2>3, <2>4, RollCases
<1>2. ASSUME RollsOut', op'.pc \in Walking, NEW v \in sweep'.todo, v \in hpa'
      PROVE  v \in hpaCache'
  <2>1. CASE StartApply /\ BeginsWith("adopt", "Rollout")
    BY <1>2, <2>1 DEF BeginsWith, Walking
  <2>2. CASE RollsOut /\ ApplyGoes
    BY <1>0, <1>2, <2>2, ApplyMoves DEF ApplyGoes, Moves, Walking
  <2>3. CASE RollsOut /\ StartSweep
    <3>1. op.pc = "sweep" /\ UNCHANGED <<hpa, hpaCache>>
      BY <1>0, <2>3, SweepMoves DEF Moves, StartSweep, cluster, caches
    <3>. QED
      BY <1>0, <1>2, <2>3, <3>1 DEF HpasSeen, Answered, Walking
  <2>4. CASE RollsOut /\ WalkGoes /\ ~StartSweep
    <3>1. op.pc # "sweep" /\ UNCHANGED hpaCache
      BY <1>0, <2>4, SweepMoves, ContinuesFacts DEF WalkGoes, Moves, Continues
    <3>2. op.pc \in Walking /\ v \in sweep.todo
      BY <1>0, <1>2, <2>4, <3>1, WalkSparesTodo
    <3>3. ~KeepActive(v)
      <4>. SUFFICES ASSUME KeepActive(v) PROVE FALSE
        OBVIOUS
      <4>1. v \in Versions
        BY <1>0, <3>2 DEF Sweeps
      <4>. QED
        BY <1>0, <1>2, <4>1, WalkFacts
    <3>. QED
      BY <1>0, <1>2, <2>4, <3>1, <3>2, <3>3, WalkHpas DEF HpasSeen
  <2>5. CASE RollsOut /\ Outside
    BY <1>0, <1>2, <2>5, OutsideFacts, OutsideHpas DEF HpasSeen, RollsOut
  <2>. QED
    BY <1>0, <1>2, <2>1, <2>2, <2>3, <2>4, <2>5, RollCases
<1>3. ASSUME RollsOut', op'.pc \in {"deregister", "delete"}
      PROVE  sweep'.at \notin hpa'
  <2>1. ASSUME RollsOut, NEW v \in Versions, StopVersion(v)
        PROVE  sweep'.at \notin hpa'
    <3>1. sweep'.at = v
      BY <1>0, <1>3, <2>1, WalkFacts
    <3>. QED
      BY <2>1, <3>1, StopDropsHpa
  <2>2. CASE RollsOut /\ Deregister
    <3>1. op.pc = "deregister" /\ UNCHANGED <<hpa, sweep>>
      BY <1>0, <2>2, SweepMoves DEF Moves, Deregister, cluster
    <3>. QED
      BY <1>0, <2>2, <3>1 DEF HpasSeen, Stopping
  <2>3. CASE RollsOut /\ Outside
    BY <1>0, <1>3, <2>3, OutsideFacts, OutsideHpas DEF HpasSeen, RollsOut, Stopping
  <2>4. CASE StartApply /\ BeginsWith("adopt", "Rollout")
    BY <1>3, <2>4 DEF BeginsWith
  <2>5. CASE ApplyGoes
    BY <1>0, <1>3, <2>5, ApplyMoves DEF ApplyGoes, Moves
  <2>6. CASE WalkGoes /\ ~Deregister /\ ~\E v \in Versions : StopVersion(v)
    BY <1>0, <1>3, <2>6, SweepMoves DEF WalkGoes, Moves
  <2>. QED
    BY <1>0, <1>3, <2>1, <2>2, <2>3, <2>4, <2>5, <2>6, RollCases
<1>. QED
  BY <1>1, <1>2, <1>3 DEF HpasSeen, Stopping

LEMMA ScaledUpOnlyStep ==
  ASSUME HpaState
  PROVE  ScaledUpOnly'
<1>. SUFFICES ASSUME InCharge', NEW v \in hpa' PROVE rs'[v].up
  BY DEF ScaledUpOnly
<1>0. /\ TypeOK /\ TypeOK' /\ PassFitsPhase /\ [Next]_vars /\ sweep \in Sweeps
      /\ rs \in [Versions -> ReplicaSets] /\ Target \in Versions
      /\ HpasSeen /\ ScaledUpOnly /\ ServeState /\ TargetStays' /\ v \in Versions
  BY ServeFacts DEF HpaState, HpasKept, ListState, ServesHold, TypeOK, ClusterTypeOK
<1>1. InCharge
  BY <1>0, InChargeBefore
<1>2. CASE Begins
  BY <1>0, <1>1, <1>2, BeginsFacts DEF BeginsWith, ScaledUpOnly
<1>3. CASE Ends
  BY <1>0, <1>1, <1>3, EndsFacts DEF ScaledUpOnly
<1>4. CASE Outside
  BY <1>0, <1>1, <1>4, OutsideHpas, OutsideKeeps DEF ScaledUpOnly
<1>5. CASE ApplyGoes
  <2>1. v \in hpa /\ rs[v].up
    BY <1>0, <1>1, <1>5, ApplyHpas DEF ScaledUpOnly
  <2>2. CASE v = Target
    <3>1. RollsOut' /\ op'.pc \in Adopted /\ Target' = Target
      BY <1>0, <1>1, <1>5, ChargeRolls, ApplyMoves
      DEF ApplyGoes, Moves, RollsOut, At, Adopted, Answered
    <3>. QED
      BY <1>0, <2>2, <3>1 DEF TargetStays
  <2>3. CASE v # Target
    BY <1>0, <1>5, <2>1, <2>3, ApplyKeepsOthers
  <2>. QED
    BY <2>2, <2>3
<1>6. CASE WalkGoes
  <2>1. RollsOut /\ op.pc \in {"sweep"} \cup Walking
    BY <1>0, <1>1, <1>6, ChargeRolls, SweepMoves DEF WalkGoes, Moves, Walking, At
  <2>2. CASE KeepActive(v)
    <3>1. rs[v].up
      BY <1>0, <2>1, <2>2, NextFits, ServeFacts DEF KeepActive, VitalUp, Answered
    <3>. QED
      BY <1>0, <2>2, <3>1 DEF KeepActive, ReplicaSets
  <2>3. CASE ~KeepActive(v)
    <3>1. v \in hpa /\ rs[v].up
      BY <1>0, <1>1, <1>6, <2>3, WalkHpas DEF ScaledUpOnly
    <3>2. ~StopVersion(v)
      BY <1>0, <2>1, StopDropsHpa
    <3>3. ~(DeleteReplicaSet /\ v = sweep.at)
      BY <1>0, <2>1, <3>1, SweepMoves DEF HpasSeen, Stopping, Moves
    <3>4. rs[v] \in ReplicaSets
      BY <1>0
    <3>. QED
      BY <1>0, <1>6, <3>1, <3>2, <3>3, <3>4, WalkTouches DEF ReplicaSets
  <2>. QED
    BY <2>2, <2>3
<1>7. CASE ClusterDeleted \/ ClusterFound \/ QueryForCleanup \/ FinishCleanup
  BY <1>0, <1>1, <1>7, ChargeRolls, CleanupMoves
  DEF Moves, PassFitsPhase, CleanupOnly, At
<1>. QED
  BY <1>0, <1>2, <1>3, <1>4, <1>5, <1>6, <1>7, StepCases DEF Continues, ApplyGoes, WalkGoes

\* A version kept for rollback or waiting to go has no autoscaler to scale it up
\* again, unless the process was restarted with autoscalers around and has not
\* listed them yet (autoscaling.rs:17-18, and what it needs).
THEOREM StoppedHasNoHpaHolds ==
  ASSUME LagBetweenPasses = FALSE
  PROVE  Spec /\ []hpaListed => []StoppedHasNoHpa
<1>1. Init => HpasKept
  BY DEF Init, Idle, HpasKept, HpasSeen, ScaledUpOnly, RollsOut, At
<1>2. /\ TypeOK /\ TypeOK' /\ PassInOrder /\ (ListAgrees /\ AnswerCovers) /\ RecordedServingUp
      /\ (ServesHold /\ ListHoldsUp) /\ (ServesHold /\ ListHoldsUp)'
      /\ HpasKept /\ hpaListed /\ [Next]_vars
      => HpasKept'
  <2>. SUFFICES ASSUME HpaState PROVE HpasKept'
    BY DEF HpaState, ServeState, ListState
  <2>. QED
    BY HpasSeenStep, ScaledUpOnlyStep DEF HpasKept
<1>3. HpasKept => StoppedHasNoHpa
  BY DEF HpasKept, ScaledUpOnly, StoppedHasNoHpa, InCharge
<1>. QED
  BY <1>1, <1>2, <1>3, TypeCorrect, PassOrderHolds, ListStateHolds,
     RolloutKeepsNeededVersions, ServesHolds, PTL DEF Spec

-----------------------------------------------------------------------------
(* The history.                                                            *)

\* Only a pass that creates its version gives one a creation timestamp.
LEMMA CreatedKept ==
  ASSUME TypeOK, [Next]_vars, ~CreateReplicaSet, NEW v \in Versions, rs'[v].exists
  PROVE  rs[v].exists /\ rs'[v].created = rs[v].created
<1>0. rs \in [Versions -> ReplicaSets] /\ rs[v] \in ReplicaSets /\ Target \in Versions
  BY TargetType DEF TypeOK, ClusterTypeOK
<1>1. CASE Begins \/ Ends
  BY <1>1, BeginsFacts, EndsFacts DEF BeginsWith
<1>2. CASE Tick
  BY <1>0, <1>2, AgedFacts DEF Tick
<1>3. CASE CollectGarbage
  BY <1>3 DEF CollectGarbage, Absent
<1>4. CASE Outside /\ ~Tick /\ ~CollectGarbage
  BY <1>4
  DEF Outside, Environment, EditSpec, DeleteObject, ClusterChanges, PodsBecomeReady,
      PodsStop, Sync, SyncHpa, Invocations, vars, cluster, Pass
<1>5. CASE AdoptReplicaSet \/ UnscheduleAdopted \/ RecordId
  BY <1>0, <1>5 DEF AdoptReplicaSet, UnscheduleAdopted, RecordId, ReplicaSets
<1>6. CASE \/ PublishVersion \/ RoutingChanged \/ QueryUsage \/ ValidateReady
           \/ ValidateNotReady \/ Register \/ ConfirmLatest
           \/ ClusterDeleted \/ ClusterFound \/ QueryForCleanup \/ FinishCleanup
  BY <1>6
  DEF PublishVersion, RoutingChanged, QueryUsage, ValidateReady, ValidateNotReady,
      Register, ConfirmLatest, ClusterDeleted, ClusterFound, QueryForCleanup,
      FinishCleanup, cluster
<1>7. CASE WalkGoes
  BY <1>7, WalkKeepsNames
<1>. QED
  BY <1>1, <1>2, <1>3, <1>4, <1>5, <1>6, <1>7, StepCases DEF Continues, WalkGoes

LEMMA CreatedTypes ==
  ASSUME TypeOK
  PROVE  /\ \A v \in Versions : rs[v].created \in Int
         /\ spec.gen \in Int /\ op.self.gen \in Int
BY TargetType, DeploymentAssumption
DEF DeploymentAssumption, TypeOK, PassTypeOK, ClusterTypeOK, Specs, ReplicaSets

LEMMA CreatedApartStep ==
  ASSUME TypeOK, TypeOK', GenerationsGrow, CreatedApart, [Next]_vars
  PROVE  CreatedApart'
<1>0. /\ \A v \in Versions : rs[v].created \in Int
      /\ spec.gen \in Int /\ op.self.gen \in Int
  BY CreatedTypes
<1>. DEFINE SpecKept == spec' = spec \/ spec'.gen = spec.gen + 1
<1>1. CASE CreateReplicaSet
  <2>1. /\ op.pc = "adopt" /\ Target' = Target /\ op'.self = op.self /\ spec' = spec
        /\ Target \in Versions
    <3>1. spec' = spec
      BY <1>1 DEF CreateReplicaSet, object
    <3>. QED
      BY <1>1, <3>1, ApplyMoves, TargetType DEF Moves, TypeOK
  <2>2. /\ rs'[Target].created = op.self.gen /\ ~rs[Target].exists
        /\ \A v \in Versions \ {Target} : rs'[v] = rs[v]
    BY <1>1, <2>1 DEF CreateReplicaSet, Created, TypeOK, ClusterTypeOK
  <2>3. op.self.gen <= spec.gen /\ (op.self.gen = spec.gen => Target = spec.template)
    BY <2>1 DEF GenerationsGrow, At
  <2>4. \A v \in Versions \ {Target} : rs[v].exists => rs[v].created # op.self.gen
    BY <2>1 DEF CreatedApart, At
  <2>. QED
    BY <2>1, <2>2, <2>3, <2>4 DEF CreatedApart
<1>2. CASE ~CreateReplicaSet
  <2>1. \A v \in Versions : rs'[v].exists => rs[v].exists /\ rs'[v].created = rs[v].created
    BY <1>2, CreatedKept
  <2>2. SpecKept
    BY StepCases, BeginsReport, ContinuesFacts, EndsFacts, OutsideReport
  <2>3. ASSUME NEW v \in Versions, rs'[v].exists
        PROVE  /\ rs'[v].created <= spec'.gen
               /\ rs'[v].created = spec'.gen => v = spec'.template
    BY <1>0, <2>1, <2>2, <2>3 DEF CreatedApart
  <2>4. ASSUME ~At("idle")', NEW v \in Versions, rs'[v].exists, rs'[v].created = op'.self.gen
        PROVE  v = Target'
    <3>1. CASE Begins
      <4>1. op'.self = spec
        BY <3>1, BeginsFacts DEF BeginsWith
      <4>. QED
        BY <2>1, <2>4, <4>1 DEF CreatedApart, Target
    <3>2. CASE Continues
      <4>1. op.self = op'.self /\ ~At("idle")
        BY <3>2, ContinuesReport
      <4>. QED
        BY <2>1, <2>4, <4>1 DEF CreatedApart, Target
    <3>3. CASE Ends
      BY <2>4, <3>3, EndsFacts DEF Idle, At
    <3>4. CASE Outside
      BY <2>1, <2>4, <3>4, OutsideFacts DEF CreatedApart, Target, At
    <3>. QED
      BY <3>1, <3>2, <3>3, <3>4, StepCases
  <2>. QED
    BY <2>1, <2>3, <2>4 DEF CreatedApart
<1>. QED
  BY <1>1, <1>2

HistoryState == ServeState /\ HistoryKept

LEMMA HistoryFacts ==
  ASSUME HistoryState
  PROVE  /\ ServeState /\ TypeOK /\ TypeOK' /\ PassFitsPhase /\ [Next]_vars
         /\ Target \in Versions /\ rs \in [Versions -> ReplicaSets] /\ sweep \in Sweeps
         /\ op \in OpStates /\ HistoryLimit \in Nat /\ NoVersion \notin Versions
         /\ ViewFits /\ HistoryCounted /\ CreatedApart /\ KeptAreNewer
BY ServeFacts, DeploymentAssumption
DEF HistoryState, HistoryKept, ListState, DeploymentAssumption

\* The walk begins with an empty history.
LEMMA StartKeepsNone ==
  ASSUME HistoryState, RollsOut, StartSweep
  PROVE  Kept' = {} /\ sweep'.historic = 0
<1>1. op.pc = "sweep" /\ UNCHANGED rs /\ Target' = Target
  BY HistoryFacts, SweepMoves DEF Moves, StartSweep, cluster
<1>2. \A v \in Versions \ {Target} : cache[v] = rs[v] /\ IsOld(v)
  BY <1>1, HistoryFacts, ServeFacts DEF ListExact, Answered, Walking, IsOld
<1>3. \A v \in Versions \ {Target} : rs[v].exists => v \in sweep'.todo
  BY <1>2, HistoryFacts, StartSweepFacts
<1>4. sweep'.historic = 0
  BY DEF StartSweep, NoSweep
<1>. QED
  BY <1>1, <1>3, <1>4 DEF Kept

\* A version that is left as it is, or kept for Restate, is no part of it.
LEMMA KeepingIsNoHistory ==
  ASSUME HistoryState, RollsOut, NEW v \in Versions,
         KeepActive(v) \/ ScheduleRemoval(v) \/ AwaitRemoval(v)
  PROVE  Kept' = Kept /\ sweep'.historic = sweep.historic /\ op'.pc \in {"item", "keep"}
<1>0. rs[v] \in ReplicaSets
  BY HistoryFacts
<1>1. /\ op.pc = "item" /\ v \in sweep.todo /\ v # Target /\ sweep.at = NoVersion
      /\ Target' = Target /\ op'.pc \in {"item", "keep"}
  BY HistoryFacts, NextFits, SweepMoves DEF Moves, ViewFits, At
<1>2. sweep'.todo = sweep.todo \ {v} /\ sweep'.at \in {v, NoVersion}
  BY <1>1, HistoryFacts, WalkFacts
<1>3. \A w \in Versions \ {v} : rs'[w] = rs[w]
  BY HistoryFacts DEF KeepActive, ScheduleRemoval, AwaitRemoval, cluster
<1>4. rs'[v].up
  <2>1. CASE KeepActive(v)
    <3>1. rs[v].up
      BY <1>1, <2>1, HistoryFacts, NextFits, ServeFacts DEF KeepActive, VitalUp, Answered, Walking
    <3>. QED
      BY <1>0, <2>1, <3>1, HistoryFacts DEF KeepActive, ReplicaSets
  <2>2. CASE ScheduleRemoval(v) \/ AwaitRemoval(v)
    <3>1. Seen(v).removeAt # 0 /\ KnownToRestate(v)
      BY <2>2, HistoryFacts, NextFits DEF ScheduleRemoval, AwaitRemoval
    <3>2. rs[v].up
      BY <1>1, <3>1, HistoryFacts DEF ViewFits, Walking
    <3>. QED
      BY <1>0, <2>2, <3>2, HistoryFacts DEF ScheduleRemoval, AwaitRemoval, cluster, ReplicaSets
  <2>. QED
    BY <2>1, <2>2
<1>5. sweep'.historic = sweep.historic
  BY HistoryFacts DEF KeepActive, ScheduleRemoval, AwaitRemoval, Sweeps
<1>. QED
  BY <1>1, <1>2, <1>3, <1>4, <1>5, HistoryFacts DEF Kept

LEMMA EndingIsNoHistory ==
  ASSUME HistoryState, RollsOut, UnscheduleActive \/ DeleteReplicaSet
  PROVE  Kept' = Kept /\ sweep'.historic = sweep.historic /\ op'.pc = "item"
<1>1. /\ op.pc \in {"keep", "delete"} /\ op'.pc = "item"
      /\ sweep' = [sweep EXCEPT !.at = NoVersion] /\ Target' = Target
  BY HistoryFacts, WalkEndFacts, SweepMoves DEF Moves
<1>2. sweep'.at = NoVersion /\ sweep'.todo = sweep.todo /\ sweep'.historic = sweep.historic
  BY <1>1, HistoryFacts DEF Sweeps
<1>3. sweep.at \in Versions
  BY <1>1, HistoryFacts, WalkIsOld DEF Walking
<1>4. \A w \in Versions \ {sweep.at} : rs'[w] = rs[w]
  BY HistoryFacts DEF UnscheduleActive, DeleteReplicaSet
<1>5. ~rs'[sweep.at].exists \/ rs'[sweep.at].up
  <2>1. CASE UnscheduleActive
    <3>1. op.pc = "keep"
      BY <2>1, HistoryFacts, SweepMoves DEF Moves
    <3>2. rs[sweep.at].up
      BY <3>1, HistoryFacts, ServeFacts DEF VitalUp, At
    <3>. QED
      BY <1>3, <2>1, <3>2, HistoryFacts DEF UnscheduleActive, ReplicaSets
  <2>2. CASE DeleteReplicaSet
    BY <1>3, <2>2, HistoryFacts DEF DeleteReplicaSet, Absent
  <2>. QED
    BY <2>1, <2>2
<1>. QED
  BY <1>1, <1>2, <1>3, <1>4, <1>5, HistoryFacts DEF Kept

Retains == RetainForRollback(op.mode, sweep.historic, HistoryLimit)

\* A version that is stopped is one more, or the one that goes.
LEMMA StoppingIsHistory ==
  ASSUME HistoryState, RollsOut, NEW v \in Versions, StopVersion(v)
  PROVE  /\ v \notin Kept
         /\ \/ /\ sweep.historic < HistoryLimit /\ op'.pc = "item"
               /\ Kept' = Kept \cup {v} /\ sweep'.historic = sweep.historic + 1
            \/ /\ ~(sweep.historic < HistoryLimit) /\ op'.pc \in {"deregister", "delete"}
               /\ Kept' = Kept /\ sweep'.historic = sweep.historic /\ sweep'.at = v
<1>1. /\ op.pc = "item" /\ v \in sweep.todo /\ v # Target /\ sweep.at = NoVersion
      /\ Target' = Target /\ rs[v].exists /\ Seen(v).up = rs[v].up
  BY HistoryFacts, NextFits, SweepMoves DEF Moves, ViewFits, At, Walking
<1>2. sweep'.todo = sweep.todo \ {v}
  BY HistoryFacts, WalkFacts
<1>3. \A w \in Versions \ {v} : rs'[w] = rs[w]
  BY HistoryFacts DEF StopVersion
<1>4. rs'[v].exists /\ ~rs'[v].up
  BY <1>1, HistoryFacts DEF StopVersion, ReplicaSets
<1>5. Retains <=> sweep.historic < HistoryLimit
  BY DEF Retains, RetainForRollback, RollsOut, IsDeleting
<1>6. CASE Retains
  <2>1. /\ sweep'.at = NoVersion /\ sweep'.historic = sweep.historic + 1 /\ op'.pc = "item"
    BY <1>6, HistoryFacts DEF StopVersion, Retains, Goto, Sweeps, OpStates
  <2>2. Kept' = Kept \cup {v}
    BY <1>1, <1>2, <1>3, <1>4, <2>1, HistoryFacts DEF Kept
  <2>. QED
    BY <1>1, <1>5, <1>6, <2>1, <2>2 DEF Kept
<1>7. CASE ~Retains
  <2>1. /\ sweep'.at = v /\ sweep'.historic = sweep.historic
        /\ op'.pc \in {"deregister", "delete"}
    BY <1>7, HistoryFacts DEF StopVersion, Retains, Goto, Sweeps, OpStates
  <2>2. Kept' = Kept
    BY <1>1, <1>2, <1>3, <1>4, <2>1, HistoryFacts DEF Kept
  <2>. QED
    BY <1>1, <1>5, <1>7, <2>1, <2>2 DEF Kept
<1>. QED
  BY <1>6, <1>7

LEMMA OutsideIsNoHistory ==
  ASSUME HistoryState, RollsOut, Outside \/ Deregister
  PROVE  /\ Kept' = Kept /\ UNCHANGED sweep /\ UNCHANGED Target
         /\ Outside => op' = op
         /\ Deregister => op.pc = "deregister" /\ op'.pc = "delete"
<1>1. CASE Outside
  <2>1. UNCHANGED <<op, sweep>> /\ UNCHANGED Target /\ ~At("idle")
    BY <1>1, OutsideFacts DEF Target, RollsOut
  <2>2. \A v \in Versions : rs'[v].exists = rs[v].exists /\ rs'[v].up = rs[v].up
    BY <1>1, <2>1, HistoryFacts, OutsideKeeps
  <2>3. ~Deregister \/ op.pc = op'.pc
    BY <2>1
  <2>. QED
    BY <2>1, <2>2, HistoryFacts, SweepMoves DEF Kept, Moves
<1>2. CASE Deregister
  <2>1. UNCHANGED <<rs, sweep>>
    BY <1>2 DEF Deregister, cluster
  <2>2. op.pc = "deregister" /\ op'.pc = "delete" /\ Target' = Target
    BY <1>2, HistoryFacts, SweepMoves DEF Moves
  <2>. QED
    BY <1>2, <2>1, <2>2, OutsideFacts DEF Kept
<1>. QED
  BY <1>1, <1>2

LEMMA HistoryCountedStep ==
  ASSUME HistoryState
  PROVE  HistoryCounted'
<1>. SUFFICES ASSUME RollsOut', op'.pc \in Walking
              PROVE  /\ IsFiniteSet(Kept')
                     /\ Cardinality(Kept') = sweep'.historic
                     /\ sweep'.historic <= HistoryLimit
                     /\ op'.pc \in {"deregister", "delete"} => sweep'.historic = HistoryLimit
  BY DEF HistoryCounted, Stopping
<1>0. /\ TypeOK /\ PassFitsPhase /\ [Next]_vars /\ HistoryLimit \in Nat
      /\ sweep.historic \in Nat
  BY HistoryFacts DEF Sweeps
<1>1. RollsOut /\ op.pc \in Walking =>
        /\ IsFiniteSet(Kept) /\ Cardinality(Kept) = sweep.historic
        /\ sweep.historic <= HistoryLimit
        /\ op.pc \in {"deregister", "delete"} => sweep.historic = HistoryLimit
  BY HistoryFacts DEF HistoryCounted, Stopping
<1>2. CASE StartApply /\ BeginsWith("adopt", "Rollout")
  BY <1>2 DEF BeginsWith, Walking
<1>3. CASE RollsOut /\ ApplyGoes
  BY <1>0, <1>3, ApplyMoves DEF ApplyGoes, Moves, Walking
<1>4. CASE RollsOut /\ StartSweep
  <2>1. Kept' = {} /\ sweep'.historic = 0 /\ op'.pc = "item"
    BY <1>0, <1>4, StartKeepsNone, SweepMoves DEF Moves
  <2>. QED
    BY <1>0, <2>1, FS_EmptySet
<1>5. CASE RollsOut /\ (UnscheduleActive \/ DeleteReplicaSet)
  <2>1. op.pc \in Walking
    BY <1>0, <1>5, SweepMoves DEF Moves, Walking
  <2>. QED
    BY <1>1, <1>5, <2>1, EndingIsNoHistory
<1>6. ASSUME RollsOut, NEW v \in Versions, KeepActive(v) \/ ScheduleRemoval(v) \/ AwaitRemoval(v)
      PROVE  /\ IsFiniteSet(Kept')
             /\ Cardinality(Kept') = sweep'.historic
             /\ sweep'.historic <= HistoryLimit
             /\ op'.pc \in {"deregister", "delete"} => sweep'.historic = HistoryLimit
  <2>1. op.pc \in Walking
    BY <1>0, <1>6, SweepMoves DEF Moves, Walking
  <2>. QED
    BY <1>1, <1>6, <2>1, KeepingIsNoHistory
<1>7. ASSUME RollsOut, NEW v \in Versions, StopVersion(v)
      PROVE  /\ IsFiniteSet(Kept')
             /\ Cardinality(Kept') = sweep'.historic
             /\ sweep'.historic <= HistoryLimit
             /\ op'.pc \in {"deregister", "delete"} => sweep'.historic = HistoryLimit
  <2>1. IsFiniteSet(Kept) /\ Cardinality(Kept) = sweep.historic /\ sweep.historic <= HistoryLimit
    BY <1>0, <1>1, <1>7, SweepMoves DEF Moves, Walking
  <2>2. v \notin Kept
    BY <1>7, StoppingIsHistory
  <2>3. IsFiniteSet(Kept \cup {v}) /\ Cardinality(Kept \cup {v}) = Cardinality(Kept) + 1
    BY <2>1, <2>2, FS_AddElement
  <2>4. CASE sweep.historic < HistoryLimit
    <3>1. op'.pc = "item" /\ Kept' = Kept \cup {v} /\ sweep'.historic = sweep.historic + 1
      BY <1>7, <2>4, StoppingIsHistory
    <3>. QED
      BY <1>0, <2>1, <2>3, <2>4, <3>1
  <2>5. CASE ~(sweep.historic < HistoryLimit)
    <3>1. Kept' = Kept /\ sweep'.historic = sweep.historic
      BY <1>7, <2>5, StoppingIsHistory
    <3>. QED
      BY <1>0, <2>1, <2>5, <3>1
  <2>. QED
    BY <2>4, <2>5
<1>8. CASE RollsOut /\ (Outside \/ Deregister)
  <2>1. /\ Kept' = Kept /\ UNCHANGED sweep /\ op.pc \in Walking
        /\ op'.pc \in {"deregister", "delete"} => op.pc \in {"deregister", "delete"}
    BY <1>8, OutsideIsNoHistory DEF Walking
  <2>. QED
    BY <1>1, <1>8, <2>1
<1>. QED
  BY <1>0, <1>2, <1>3, <1>4, <1>5, <1>6, <1>7, <1>8, RollCases DEF WalkGoes

\* A ReplicaSet in a walk was created before or after every other one.
LEMMA TodoOrder ==
  ASSUME HistoryState, RollsOut, op.pc = "item", NEW v \in sweep.todo,
         NEW w \in sweep.todo, v # w, Seen(w).created <= Seen(v).created
  PROVE  rs[w].created < rs[v].created
<1>1. v \in Versions /\ w \in Versions
  BY HistoryFacts DEF Sweeps
<1>2. /\ rs[v].exists /\ rs[w].exists
      /\ Seen(v).created = rs[v].created /\ Seen(w).created = rs[w].created
  BY HistoryFacts DEF ViewFits, Walking
<1>3. rs[v].created # rs[w].created
  BY <1>1, <1>2, HistoryFacts DEF CreatedApart
<1>4. rs[v].created \in Int /\ rs[w].created \in Int
  BY <1>1, HistoryFacts, CreatedTypes
<1>. QED
  BY <1>2, <1>3, <1>4

LEMMA KeptAreNewerStep ==
  ASSUME HistoryState
  PROVE  KeptAreNewer'
<1>. DEFINE Order(kept, todo, r) == \A w \in kept : \A v \in todo : r[v].created < r[w].created
<1>. DEFINE GoingFits(kept, todo, at, r) ==
              /\ \A w \in kept : r[at].created < r[w].created
              /\ \A v \in todo : r[v].created < r[at].created
<1>. SUFFICES ASSUME RollsOut', op'.pc \in Walking
              PROVE  /\ Order(Kept', sweep'.todo, rs')
                     /\ op'.pc \in {"deregister", "delete"} =>
                          GoingFits(Kept', sweep'.todo, sweep'.at, rs')
  BY DEF KeptAreNewer, Stopping
<1>0. /\ TypeOK /\ PassFitsPhase /\ [Next]_vars /\ sweep \in Sweeps
  BY HistoryFacts
<1>1. RollsOut /\ op.pc \in Walking =>
        /\ Order(Kept, sweep.todo, rs)
        /\ op.pc \in {"deregister", "delete"} => GoingFits(Kept, sweep.todo, sweep.at, rs)
  BY HistoryFacts DEF KeptAreNewer, Stopping
<1>2. Kept' \subseteq Versions /\ \A v \in Kept' : rs'[v].exists
  BY DEF Kept
<1>3. ASSUME NEW v \in Versions, rs'[v].exists, RollsOut, WalkGoes \/ Outside
      PROVE  rs'[v].created = rs[v].created
  <2>1. ~CreateReplicaSet
    BY <1>0, <1>3, ApplyMoves, SweepMoves, OutsideFacts DEF Moves, WalkGoes
  <2>. QED
    BY <1>0, <1>3, <2>1, CreatedKept
<1>4. ASSUME RollsOut, WalkGoes \/ Outside, ~StartSweep, op.pc \in Walking, NEW v \in sweep'.todo
      PROVE  v \in sweep.todo /\ v \in Versions /\ rs'[v].created = rs[v].created
  <2>1. CASE WalkGoes
    <3>1. op.pc # "sweep" /\ ServeState
      BY <1>0, <1>4, HistoryFacts DEF Walking
    <3>. QED
      BY <1>4, <2>1, <3>1, WalkSparesTodo
  <2>2. CASE Outside
    <3>1. sweep' = sweep /\ v \in Versions /\ ~At("idle")
      BY <1>0, <1>4, <2>2, OutsideFacts DEF Sweeps, RollsOut
    <3>. QED
      BY <1>0, <1>4, <2>2, <3>1, OutsideKeeps
  <2>. QED
    BY <1>4, <2>1, <2>2
<1>5. ASSUME RollsOut, WalkGoes \/ Outside, ~StartSweep, op.pc \in Walking, Kept' = Kept
      PROVE  Order(Kept', sweep'.todo, rs')
  BY <1>1, <1>2, <1>3, <1>4, <1>5
<1>6. CASE StartApply /\ BeginsWith("adopt", "Rollout")
  BY <1>6 DEF BeginsWith, Walking
<1>7. CASE RollsOut /\ ApplyGoes
  BY <1>0, <1>7, ApplyMoves DEF ApplyGoes, Moves, Walking
<1>8. CASE RollsOut /\ StartSweep
  <2>1. Kept' = {} /\ op'.pc = "item"
    BY <1>0, <1>8, StartKeepsNone, SweepMoves DEF Moves
  <2>. QED
    BY <2>1
<1>9. CASE RollsOut /\ (UnscheduleActive \/ DeleteReplicaSet)
  <2>1. op.pc \in Walking /\ ~StartSweep /\ WalkGoes
    BY <1>0, <1>9, SweepMoves DEF Moves, Walking, WalkGoes
  <2>2. Kept' = Kept /\ op'.pc = "item"
    BY <1>9, EndingIsNoHistory
  <2>. QED
    BY <1>5, <1>9, <2>1, <2>2
<1>10. ASSUME RollsOut, NEW v \in Versions, KeepActive(v) \/ ScheduleRemoval(v) \/ AwaitRemoval(v)
       PROVE  Order(Kept', sweep'.todo, rs') /\ op'.pc \in {"item", "keep"}
  <2>1. op.pc \in Walking /\ ~StartSweep /\ WalkGoes
    BY <1>0, <1>10, SweepMoves DEF Moves, Walking, WalkGoes
  <2>2. Kept' = Kept /\ op'.pc \in {"item", "keep"}
    BY <1>10, KeepingIsNoHistory
  <2>. QED
    BY <1>5, <1>10, <2>1, <2>2
<1>11. ASSUME RollsOut, NEW u \in Versions, StopVersion(u)
       PROVE  /\ Order(Kept', sweep'.todo, rs')
              /\ op'.pc \in {"deregister", "delete"} =>
                   GoingFits(Kept', sweep'.todo, sweep'.at, rs')
  <2>1. op.pc = "item" /\ ~StartSweep /\ WalkGoes /\ u \in sweep.todo
    BY <1>0, <1>11, SweepMoves, WalkFacts DEF Moves, WalkGoes
  <2>2. \A v \in sweep'.todo : /\ v \in sweep.todo /\ v \in Versions
                               /\ rs'[v].created = rs[v].created /\ v # u
    BY <1>0, <1>4, <1>11, <2>1, WalkFacts DEF Walking
  <2>3. \A v \in sweep'.todo : rs[v].created < rs[u].created
    <3>. SUFFICES ASSUME NEW v \in sweep'.todo PROVE rs[v].created < rs[u].created
      OBVIOUS
    <3>1. Seen(v).created <= Seen(u).created
      BY <1>11, <2>2 DEF StopVersion, IsNext, Seen
    <3>. QED
      BY <1>11, <2>1, <2>2, <3>1, TodoOrder
  <2>4. rs'[u].created = rs[u].created
    BY <1>0, <1>11, HistoryFacts DEF StopVersion, ReplicaSets
  <2>5. \A w \in Kept : rs[u].created < rs[w].created
    BY <1>1, <1>11, <2>1 DEF Walking
  <2>6. CASE Kept' = Kept \cup {u} /\ op'.pc = "item"
    <3>1. \A w \in Kept' : rs'[w].created = rs[w].created
      BY <1>2, <1>3, <1>11, <2>1
    <3>2. ASSUME NEW w \in Kept', NEW v \in sweep'.todo
          PROVE  rs'[v].created < rs'[w].created
      <4>1. CASE w = u
        BY <2>2, <2>3, <2>4, <3>2, <4>1
      <4>2. CASE w \in Kept
        BY <1>1, <1>11, <2>1, <2>2, <3>1, <3>2, <4>2 DEF Walking
      <4>. QED
        BY <2>6, <3>2, <4>1, <4>2
    <3>. QED
      BY <2>6, <3>2
  <2>7. CASE Kept' = Kept /\ sweep'.at = u
    <3>1. Order(Kept', sweep'.todo, rs')
      BY <1>5, <1>11, <2>1, <2>7 DEF Walking
    <3>2. \A w \in Kept' : rs'[w].created = rs[w].created
      BY <1>2, <1>3, <1>11, <2>1
    <3>3. GoingFits(Kept', sweep'.todo, sweep'.at, rs')
      BY <2>2, <2>3, <2>4, <2>5, <2>7, <3>2
    <3>. QED
      BY <3>1, <3>3
  <2>. QED
    BY <1>11, <2>6, <2>7, StoppingIsHistory
<1>12. CASE RollsOut /\ (Outside \/ Deregister)
  <2>1. /\ Kept' = Kept /\ UNCHANGED sweep /\ op.pc \in Walking
        /\ op'.pc \in {"deregister", "delete"} => op.pc \in {"deregister", "delete"}
    BY <1>12, OutsideIsNoHistory DEF Walking
  <2>2. ~StartSweep /\ (WalkGoes \/ Outside)
    BY <1>0, <1>12, <2>1, SweepMoves DEF WalkGoes, Moves, Walking
  <2>3. Order(Kept', sweep'.todo, rs')
    BY <1>5, <1>12, <2>1, <2>2
  <2>4. ASSUME op'.pc \in {"deregister", "delete"}
        PROVE  GoingFits(Kept', sweep'.todo, sweep'.at, rs')
    <3>1. sweep.at \in Versions /\ rs'[sweep.at].created = rs[sweep.at].created
      <4>1. sweep.at \in Versions /\ ServeState
        BY <1>12, <2>1, <2>4, HistoryFacts, WalkIsOld
      <4>2. CASE Outside
        BY <1>0, <1>12, <4>1, <4>2, OutsideKeeps DEF RollsOut
      <4>3. CASE Deregister
        BY <4>1, <4>3 DEF Deregister, cluster
      <4>. QED
        BY <1>12, <4>1, <4>2, <4>3
    <3>2. \A w \in Kept' : rs'[w].created = rs[w].created
      BY <1>2, <1>3, <1>12, <2>2
    <3>3. \A v \in sweep'.todo : rs'[v].created = rs[v].created
      BY <1>4, <1>12, <2>1, <2>2
    <3>4. GoingFits(Kept, sweep.todo, sweep.at, rs)
      BY <1>1, <1>12, <2>1, <2>4
    <3>. QED
      BY <2>1, <3>1, <3>2, <3>3, <3>4
  <2>. QED
    BY <2>3, <2>4
<1>. QED
  BY <1>0, <1>6, <1>7, <1>8, <1>9, <1>10, <1>11, <1>12, RollCases DEF WalkGoes

\* What a rollout has kept so far is counted, within the limit, and the newest.
THEOREM HistoryHolds ==
  ASSUME LagBetweenPasses = FALSE
  PROVE  Spec => []HistoryKept
<1>1. Init => HistoryKept
  <2>. SUFFICES ASSUME Init PROVE HistoryKept
    OBVIOUS
  <2>1. ~RollsOut /\ \A v \in Versions : ~rs[v].exists
    BY DEF Init, Idle, RollsOut, At, Absent
  <2>. QED
    BY <2>1 DEF HistoryKept, HistoryCounted, CreatedApart, KeptAreNewer
<1>2. /\ TypeOK /\ TypeOK' /\ PassInOrder /\ (ListAgrees /\ AnswerCovers) /\ RecordedServingUp
      /\ (ServesHold /\ ListHoldsUp) /\ GenerationsGrow /\ HistoryKept /\ [Next]_vars
      => HistoryKept'
  <2>. SUFFICES ASSUME HistoryState, GenerationsGrow PROVE HistoryKept'
    BY DEF HistoryState, ServeState, ListState
  <2>1. CreatedApart'
    BY HistoryFacts, CreatedApartStep
  <2>. QED
    BY <2>1, HistoryCountedStep, KeptAreNewerStep DEF HistoryKept
<1>. QED
  BY <1>1, <1>2, TypeCorrect, PassOrderHolds, ListStateHolds, RolloutKeepsNeededVersions,
     ServesHolds, GenerationsGrowHolds, PTL DEF Spec

\* A finished sweep leaves at most revisionHistoryLimit versions scaled to zero.
THEOREM HistoryBoundedHolds ==
  ASSUME LagBetweenPasses = FALSE
  PROVE  Spec => []HistoryBounded
<1>1. TypeOK /\ (ServesHold /\ ListHoldsUp) /\ HistoryKept => HistoryBounded
  <2>. SUFFICES ASSUME TypeOK, ListHoldsUp, HistoryKept, Swept
                PROVE  Cardinality(Retained) <= HistoryLimit
    BY DEF HistoryBounded
  <2>1. op.pc = "item" /\ RollsOut /\ sweep.todo = {} /\ sweep.at = NoVersion
    BY DEF Swept, RollsOut, At, ListHoldsUp, ViewFits
  <2>2. Retained = Kept
    BY <2>1, DeploymentAssumption DEF DeploymentAssumption, Retained, Kept
  <2>3. Cardinality(Kept) = sweep.historic /\ sweep.historic <= HistoryLimit
    BY <2>1 DEF HistoryKept, HistoryCounted, Walking
  <2>. QED
    BY <2>2, <2>3
<1>. QED
  BY <1>1, TypeCorrect, ServesHolds, HistoryHolds, PTL

\* A rollout takes away one version at a time, the one it has come to.
LEMMA OnlyDeleteRemoves ==
  ASSUME HistoryState, RollsOut, op.pc = "delete", NEW v \in Versions,
         rs[v].exists, ~rs'[v].exists
  PROVE  v = sweep.at
<1>0. TypeOK /\ PassFitsPhase /\ [Next]_vars /\ ~At("idle")
  BY HistoryFacts DEF RollsOut
<1>1. CASE Begins \/ Ends
  BY <1>0, <1>1, BeginsFacts, EndsFacts DEF BeginsWith
<1>2. CASE Outside
  BY <1>0, <1>2, OutsideKeeps
<1>3. CASE ApplyGoes
  BY <1>0, <1>3, ApplyMoves DEF ApplyGoes, Moves
<1>4. CASE WalkGoes
  BY <1>0, <1>4, WalkKeepsNames
<1>5. CASE ClusterDeleted \/ ClusterFound \/ QueryForCleanup \/ FinishCleanup
  BY <1>0, <1>5, CleanupMoves DEF Moves
<1>. QED
  BY <1>0, <1>1, <1>2, <1>3, <1>4, <1>5, StepCases DEF Continues, ApplyGoes, WalkGoes

\* A rollout deletes a version only when the history is full of versions created
\* after it, so a rollback finds the newest ones (the sort, retain_for_rollback).
THEOREM RetainsNewestHolds ==
  ASSUME LagBetweenPasses = FALSE
  PROVE  Spec => RetainsNewest
<1>. DEFINE Newer(v) == {w \in Retained : rs[w].created > rs[v].created}
<1>1. ASSUME HistoryState, op.mode = "Rollout", At("delete"), NEW v \in Versions,
             rs[v].exists, ~rs'[v].exists
      PROVE  Cardinality(Newer(v)) >= HistoryLimit
  <2>1. RollsOut /\ op.pc = "delete"
    BY <1>1 DEF RollsOut, At
  <2>2. v = sweep.at
    BY <1>1, <2>1, OnlyDeleteRemoves
  <2>3. /\ \A w \in Kept : rs[v].created < rs[w].created
        /\ \A w \in sweep.todo : rs[w].created < rs[v].created
        /\ Cardinality(Kept) = HistoryLimit
    BY <1>1, <2>1, <2>2, HistoryFacts DEF KeptAreNewer, HistoryCounted, Stopping, Walking
  <2>4. \A w \in Versions : rs[w].created \in Int
    BY <1>1, HistoryFacts, CreatedTypes
  <2>5. Newer(v) = Kept
    BY <2>2, <2>3, <2>4 DEF Retained, Kept
  <2>6. HistoryLimit \in Nat
    BY DeploymentAssumption DEF DeploymentAssumption
  <2>7. Cardinality(Newer(v)) = HistoryLimit
    BY <2>3, <2>5
  <2>. HIDE DEF Newer
  <2>. QED
    BY <2>6, <2>7
<1>2. /\ TypeOK /\ TypeOK' /\ PassInOrder /\ (ListAgrees /\ AnswerCovers) /\ RecordedServingUp
      /\ (ServesHold /\ ListHoldsUp) /\ HistoryKept /\ [Next]_vars
      => [op.mode = "Rollout" /\ At("delete") =>
            \A v \in Versions :
              rs[v].exists /\ ~rs'[v].exists =>
                Cardinality({w \in Retained : rs[w].created > rs[v].created})
                  >= HistoryLimit]_vars
  <2>. SUFFICES ASSUME HistoryState, op.mode = "Rollout", At("delete"), NEW v \in Versions,
                       rs[v].exists, ~rs'[v].exists
                PROVE  Cardinality({w \in Retained : rs[w].created > rs[v].created})
                         >= HistoryLimit
    BY DEF HistoryState, ServeState, ListState
  <2>. QED
    BY <1>1
<1>. QED
  BY <1>2, TypeCorrect, PassOrderHolds, ListStateHolds, RolloutKeepsNeededVersions,
     ServesHolds, HistoryHolds, PTL DEF Spec, RetainsNewest

-----------------------------------------------------------------------------
(* The drain delay.  Garbage is collected only from what Restate lost.     *)

LEMMA StillRecorded ==
  ASSUME TypeOK, TypeOK', [Next]_vars, ~RecordId, ~Register, NEW v \in Versions,
         rs'[v].id \in registered'
  PROVE  rs'[v].id = rs[v].id /\ rs[v].id \in registered /\ rs[v].id \in Ids
<1>1. registered' \subseteq registered /\ registered \subseteq Ids /\ NoId \notin Ids
  BY RegisteredShrinks, RestateAssumption
  DEF NeedsNoMore, TypeOK, RestateTypeOK, RestateAssumption
<1>. QED
  BY <1>1, IdsKept

LEMMA WalkTakesRecorded ==
  ASSUME ListState, NothingRecordedLeft, IsDeleting(op'.mode), op'.pc \in Walking,
         NEW v \in Versions, rs'[v].id \in registered'
  PROVE  \/ v \in sweep'.todo
         \/ op'.pc \in {"deregister", "delete"} /\ v = sweep'.at
         \/ sweep'.blocked \/ sweep'.pending
<1>0. /\ TypeOK /\ TypeOK' /\ [Next]_vars /\ sweep \in Sweeps /\ op \in OpStates
  BY ListFacts DEF ListState
<1>1. ~RecordId /\ ~Register
  BY <1>0, ApplyMoves DEF Moves, Walking
<1>2. rs'[v].id = rs[v].id /\ rs[v].id \in registered /\ rs[v].id # NoId
  BY <1>0, <1>1, StillRecorded, RestateAssumption DEF RestateAssumption
<1>3. IsDeleting(op.mode) /\ op.pc \in Walking =>
        \/ v \in sweep.todo
        \/ op.pc \in {"deregister", "delete"} /\ v = sweep.at
        \/ sweep.blocked \/ sweep.pending
  BY <1>2 DEF NothingRecordedLeft, Stopping
<1>4. CASE StartSweep
  <2>1. op.pc = "sweep" /\ IsDeleting(op.mode)
    BY <1>0, <1>4, SweepMoves DEF Moves
  <2>2. cache[v].id = rs[v].id /\ cache[v].exists /\ IsOld(v)
    BY <1>2, <2>1, ListFacts
    DEF ListAgrees, BeforeWalk, Adopted, Answered, Walking, IsOld, BlankWhenAbsent
  <2>. QED
    BY <1>0, <1>4, <2>2, StartSweepFacts
<1>5. CASE UnscheduleActive
  <2>1. op.pc = "keep" /\ IsDeleting(op.mode)
    BY <1>0, <1>5, SweepMoves DEF Moves
  <2>. QED
    BY <1>0, <1>3, <1>5, <2>1 DEF UnscheduleActive, Sweeps, Walking
<1>6. CASE DeleteReplicaSet
  <2>1. op.pc = "delete" /\ IsDeleting(op.mode)
    BY <1>0, <1>6, SweepMoves DEF Moves
  <2>2. v # sweep.at
    BY <1>2, <1>6, ListFacts DEF DeleteReplicaSet, Absent
  <2>. QED
    BY <1>0, <1>3, <1>6, <2>1, <2>2 DEF DeleteReplicaSet, Sweeps, Walking
<1>7. CASE Deregister
  <2>1. op.pc = "deregister" /\ op'.pc = "delete" /\ IsDeleting(op.mode)
    BY <1>0, <1>7, SweepMoves DEF Moves
  <2>. QED
    BY <1>3, <1>7, <2>1 DEF Deregister, Walking
<1>8. ASSUME NEW u \in Versions, KeepActive(u)
      PROVE  sweep'.blocked
  BY <1>0, <1>8 DEF KeepActive, Sweeps
<1>9. ASSUME NEW u \in Versions, ScheduleRemoval(u) \/ AwaitRemoval(u)
      PROVE  sweep'.pending
  BY <1>0, <1>9 DEF ScheduleRemoval, AwaitRemoval, Sweeps
<1>10. ASSUME NEW u \in Versions, StopVersion(u)
       PROVE  \/ v \in sweep'.todo
              \/ op'.pc \in {"deregister", "delete"} /\ v = sweep'.at
              \/ sweep'.blocked \/ sweep'.pending
  <2>1. op.pc = "item" /\ IsDeleting(op.mode)
    BY <1>0, <1>10, SweepMoves DEF Moves
  <2>2. ~RetainForRollback(op.mode, sweep.historic, HistoryLimit)
    BY <2>1 DEF RetainForRollback
  <2>3. /\ sweep'.at = u /\ sweep'.todo = sweep.todo \ {u} /\ sweep'.blocked = sweep.blocked
        /\ sweep'.pending = sweep.pending /\ op'.pc \in {"deregister", "delete"}
    BY <1>0, <1>10, <2>2 DEF StopVersion, Sweeps, Goto, OpStates
  <2>. QED
    BY <1>3, <2>1, <2>3 DEF Walking
<1>11. CASE Outside
  BY <1>3, <1>11, OutsideFacts
<1>. QED
  BY <1>0, <1>4, <1>5, <1>6, <1>7, <1>8, <1>9, <1>10, <1>11, WalkCases

LEMMA ReleasedRecordsNothing ==
  ASSUME ListState, NothingRecordedLeft, op'.pc = "release" \/ phase' = "gone",
         NEW v \in Versions
  PROVE  rs'[v].id \notin registered'
<1>0. TypeOK /\ TypeOK' /\ PassFitsPhase /\ [Next]_vars
  BY ListFacts DEF ListState
<1>1. ~Register /\ ~RecordId
  <2>. SUFFICES ASSUME Register \/ RecordId PROVE FALSE
    OBVIOUS
  <2>1. op.pc \in {"register", "record"} /\ op'.pc \in {"confirm", "record"} /\ phase' = phase
    BY <1>0, ApplyMoves DEF Moves, Register, RecordId, object
  <2>. QED
    BY <1>0, <2>1 DEF PassFitsPhase, At
<1>2. SUFFICES rs[v].id \notin registered
  BY <1>0, <1>1, StillRecorded
<1>3. CASE op.pc = "release" \/ phase = "gone"
  BY <1>3 DEF NothingRecordedLeft, At
<1>4. CASE ClusterDeleted
  BY <1>4 DEF ClusterDeleted, NothingRecordedLeft
<1>5. CASE FinishCleanup
  <2>1. op.pc = "item" /\ IsDeleting(op.mode)
    BY <1>0, <1>5, CleanupMoves DEF Moves
  <2>. QED
    BY <1>5, <2>1 DEF FinishCleanup, NothingRecordedLeft, Stopping, Walking
<1>6. CASE Begins \/ Ends
  BY <1>3, <1>6, BeginsFacts, EndsFacts DEF BeginsWith, Idle, At
<1>7. CASE Outside
  BY <1>3, <1>7, OutsideFacts
<1>8. CASE Continues /\ ~ClusterDeleted /\ ~FinishCleanup
  BY <1>0, <1>3, <1>8, ApplyMoves, SweepMoves, CleanupMoves, ContinuesFacts
  DEF Continues, Moves
<1>. QED
  BY <1>0, <1>4, <1>5, <1>6, <1>7, <1>8, StepCases

LEMMA WipedWithCluster ==
  ASSUME ListState, NothingRecordedLeft, rc' = "absent"
  PROVE  registered' = {}
<1>0. TypeOK /\ [Next]_vars
  BY DEF ListState
<1>1. CASE ClusterChanges
  BY <1>1 DEF ClusterChanges, RestateWiped
<1>2. CASE ~ClusterChanges
  <2>1. rc = "absent"
    <3>1. CASE Begins \/ Continues \/ Ends
      BY <3>1, BeginsFacts, ContinuesFacts, EndsFacts DEF BeginsWith
    <3>2. CASE Outside
      BY <1>2, <3>2
      DEF Outside, Environment, EditSpec, DeleteObject, CollectGarbage, PodsBecomeReady,
          PodsStop, Sync, SyncHpa, Invocations, Tick, vars, object, Pass
    <3>. QED
      BY <1>0, <3>1, <3>2, StepCases
  <2>2. ~Register
    BY <2>1 DEF Register, Calls
  <2>. QED
    BY <1>0, <2>1, <2>2, RegisteredShrinks DEF NeedsNoMore, NothingRecordedLeft
<1>. QED
  BY <1>1, <1>2

LEMMA NothingRecordedLeftStep ==
  ASSUME ListState, NothingRecordedLeft
  PROVE  NothingRecordedLeft'
BY WalkTakesRecorded, ReleasedRecordsNothing, WipedWithCluster
DEF NothingRecordedLeft, Stopping, At

DrainState == ServeState /\ TypeOK' /\ DrainKept /\ [HistoryNext]_historyVars

LEMMA DrainFacts ==
  ASSUME DrainState
  PROVE  /\ ServeState /\ TypeOK /\ TypeOK' /\ PassFitsPhase /\ [Next]_vars
         /\ Target \in Versions /\ rs \in [Versions -> ReplicaSets] /\ DrainDelay \in Nat
         /\ FreeTypeOK /\ ScheduledIsFree /\ NothingRecordedLeft
         /\ registered \subseteq Ids /\ registered' \subseteq Ids
BY ServeFacts, DeploymentAssumption
DEF DrainState, DrainKept, ListState, DeploymentAssumption, TypeOK, RestateTypeOK

LEMMA FreeTypeStep ==
  ASSUME FreeTypeOK, [HistoryNext]_historyVars
  PROVE  FreeTypeOK'
<1>1. DrainDelay \in Nat
  BY DeploymentAssumption DEF DeploymentAssumption
<1>2. CASE Settle
  BY <1>1, <1>2 DEF Settle, FreeTypeOK
<1>3. CASE Elapse
  BY <1>1, <1>3 DEF Elapse, FreeTypeOK
<1>4. CASE UNCHANGED historyVars
  BY <1>4 DEF historyVars, FreeTypeOK
<1>. QED
  BY <1>2, <1>3, <1>4 DEF HistoryNext

\* Only the clock moves a deadline; a pass sets it to the whole delay, or lifts it.
LEMMA DeadlinesKept ==
  ASSUME TypeOK, Move, NEW v \in Versions, rs'[v].removeAt # Never
  PROVE  ScheduleRemoval(v) \/ rs'[v].removeAt = rs[v].removeAt
<1>0. /\ rs \in [Versions -> ReplicaSets] /\ rs[v] \in ReplicaSets /\ Target \in Versions
      /\ [Next]_vars
  BY TargetType DEF TypeOK, ClusterTypeOK, Next
<1>1. CASE Begins \/ Ends
  BY <1>1, BeginsFacts, EndsFacts DEF BeginsWith
<1>2. CASE Environment
  BY <1>2
  DEF Environment, EditSpec, DeleteObject, ClusterChanges, CollectGarbage, Absent,
      PodsBecomeReady, PodsStop, Sync, SyncHpa, Invocations, cluster
<1>3. CASE CreateReplicaSet
  BY <1>0, <1>3 DEF CreateReplicaSet, Created
<1>4. CASE AdoptReplicaSet \/ UnscheduleAdopted \/ RecordId
  BY <1>0, <1>4 DEF AdoptReplicaSet, UnscheduleAdopted, RecordId, ReplicaSets
<1>5. CASE \/ PublishVersion \/ RoutingChanged \/ QueryUsage \/ ValidateReady
           \/ ValidateNotReady \/ Register \/ ConfirmLatest
           \/ ClusterDeleted \/ ClusterFound \/ QueryForCleanup \/ FinishCleanup
  BY <1>5
  DEF PublishVersion, RoutingChanged, QueryUsage, ValidateReady, ValidateNotReady,
      Register, ConfirmLatest, ClusterDeleted, ClusterFound, QueryForCleanup,
      FinishCleanup, cluster
<1>6. CASE WalkGoes
  <2>1. ASSUME rs'[v] = [rs[v] EXCEPT !.removeAt = Never]
        PROVE  FALSE
    BY <1>0, <2>1 DEF ReplicaSets
  <2>2. ASSUME rs'[v] = Absent
        PROVE  FALSE
    BY <2>2 DEF Absent
  <2>3. ASSUME NEW b, rs'[v] = [rs[v] EXCEPT !.up = b]
        PROVE  rs'[v].removeAt = rs[v].removeAt
    BY <1>0, <2>3 DEF ReplicaSets
  <2>. QED
    BY <1>6, <2>1, <2>2, <2>3, WalkTouches
<1>. QED
  BY <1>1, <1>2, <1>3, <1>4, <1>5, <1>6
  DEF Move, Operator, ApplyStep, SweepStep, CleanupStep, Failure, Begins, Ends, WalkGoes

\* What is scheduled to go was in use before if it is now.
LEMMA ScheduledInUseBefore ==
  ASSUME DrainState, InCharge', InCharge, NEW v \in Versions,
         rs'[v].removeAt # Never, rs'[v].id \in registered'
  PROVE  rs'[v].id = rs[v].id /\ rs[v].id \in registered /\ (InUse(v)' => InUse(v))
<1>0. TypeOK /\ TypeOK' /\ PassFitsPhase /\ [Next]_vars
  BY DrainFacts
<1>1. CASE Register \/ RecordId
  <2>1. /\ op.pc \in {"register", "record"} /\ op'.pc \in {"confirm", "record"}
        /\ Target' = Target /\ op'.mode = op.mode
    BY <1>0, <1>1, ApplyMoves DEF Moves
  <2>2. RollsOut /\ RollsOut'
    BY <1>0, <2>1, ChargeRolls DEF RollsOut, At
  <2>3. v # Target
    BY <2>1, <2>2, DrainFacts, TargetStaysStep DEF TargetStays, Adopted, Answered
  <2>4. rs'[v] = rs[v]
    BY <1>0, <1>1, <2>3, ApplyKeepsOthers DEF ApplyGoes
  <2>5. CASE RecordId
    <3>1. UNCHANGED <<registered, route, pinned>>
      BY <2>5 DEF RecordId, restate
    <3>. QED
      BY <2>4, <3>1 DEF InUse, Needed, LatestIds
  <2>6. CASE Register
    <3>1. PICK new \in IdsOf(Target) : RegisterEndpoint(Target, new, op.action = "Promote")
      BY <1>0, <2>6, RegisterAdds
    <3>2. rs[v].id \notin IdsOf(Target)
      BY <2>3, DrainFacts, ServeFacts, IdsNotNoId DEF IdsBelong, IdsOf
    <3>3. /\ registered' = registered \cup {new}
          /\ \A x \in registered' \ IdsOf(Target) : x \in registered /\ (Needed(x)' => Needed(x))
      BY <1>0, <3>1, RegisterNeedsLess DEF TypeOK
    <3>. QED
      BY <2>4, <3>1, <3>2, <3>3 DEF InUse, Needed, LatestIds
  <2>. QED
    BY <1>1, <2>5, <2>6
<1>2. CASE ~Register /\ ~RecordId
  BY <1>0, <1>2, StillRecorded, RegisteredShrinks, InUseBefore
<1>. QED
  BY <1>1, <1>2

\* A version is scheduled when Restate has no use for it.
LEMMA SchedulesUnused ==
  ASSUME DrainState, RollsOut, NEW v \in Versions, ScheduleRemoval(v)
  PROVE  rs'[v].removeAt = DrainDelay /\ ~InUse(v)
<1>1. op.pc = "item" /\ v # Target /\ ~Vital(v) /\ rs[v].id \in usage.known
  BY DrainFacts, NextFits DEF ScheduleRemoval
<1>2. rs[v] \in ReplicaSets
  BY DrainFacts
<1>3. rs'[v].removeAt = DrainDelay
  BY <1>2, DrainFacts DEF ScheduleRemoval, ReplicaSets
<1>4. rs[v].id \in registered => rs[v].id \notin IdsOf(Target)
  BY <1>1, DrainFacts, ServeFacts, IdsNotNoId DEF IdsBelong, IdsOf
<1>5. rs[v].id \in registered => ~Needed(rs[v].id)
  BY <1>1, <1>4, DrainFacts, ServeFacts DEF AnswerStands, Answered, Walking, Vital
<1>. QED
  BY <1>3, <1>5 DEF InUse

LEMMA ScheduledIsFreeStep ==
  ASSUME DrainState, FreeTypeOK'
  PROVE  ScheduledIsFree'
<1>. SUFFICES ASSUME InCharge', NEW v \in Versions, rs'[v].removeAt # Never,
                     rs'[v].id \in registered'
              PROVE  ~InUse(v)' /\ free'[v] + rs'[v].removeAt >= DrainDelay
  BY DEF ScheduledIsFree, InUse
<1>0. TypeOK /\ PassFitsPhase /\ [Next]_vars /\ DrainDelay \in Nat
  BY DrainFacts
<1>1. InCharge
  BY <1>0, InChargeBefore
<1>2. rs'[v].id = rs[v].id /\ rs[v].id \in registered /\ (InUse(v)' => InUse(v))
  BY <1>1, ScheduledInUseBefore
<1>3. rs[v].removeAt # Never => ~InUse(v) /\ free[v] + rs[v].removeAt >= DrainDelay
  BY <1>1, <1>2, DrainFacts DEF ScheduledIsFree, InUse
<1>4. /\ free[v] \in 0 .. DrainDelay /\ free'[v] \in 0 .. DrainDelay
      /\ rs[v] \in ReplicaSets /\ rs[v].removeAt \in Deadlines
  BY DrainFacts DEF FreeTypeOK, ReplicaSets
<1>5. CASE Tick /\ Elapse
  <2>1. rs'[v] = Aged(rs[v])
    BY <1>5 DEF Tick
  <2>2. rs[v].removeAt # Never
    BY <1>4, <2>1, AgedFacts
  <2>3. ~InUse(v) /\ free[v] + rs[v].removeAt >= DrainDelay
    BY <1>3, <2>2
  <2>4. free'[v] = IF free[v] = DrainDelay THEN free[v] ELSE free[v] + 1
    BY <1>5, <2>3 DEF Elapse
  <2>5. rs'[v].removeAt = IF rs[v].removeAt > 0 THEN rs[v].removeAt - 1 ELSE rs[v].removeAt
    BY <1>4, <2>1 DEF Aged, ReplicaSets
  <2>6. free'[v] + rs'[v].removeAt >= DrainDelay
    BY <1>0, <1>4, <2>2, <2>3, <2>4, <2>5 DEF Deadlines, Never
  <2>. QED
    BY <1>2, <2>3, <2>6
<1>6. CASE Move /\ Settle
  <2>1. CASE rs'[v].removeAt = rs[v].removeAt
    <3>1. ~InUse(v)' /\ free[v] + rs[v].removeAt >= DrainDelay
      BY <1>2, <1>3, <2>1
    <3>2. free'[v] = free[v]
      BY <1>6, <3>1 DEF Settle
    <3>. QED
      BY <2>1, <3>1, <3>2
  <2>2. CASE ScheduleRemoval(v)
    <3>1. RollsOut
      BY <1>0, <1>1, <2>2, ChargeRolls DEF ScheduleRemoval, IsNext, At
    <3>2. rs'[v].removeAt = DrainDelay /\ ~InUse(v)
      BY <2>2, <3>1, SchedulesUnused
    <3>3. free'[v] + rs'[v].removeAt >= DrainDelay
      BY <1>0, <1>4, <3>2
    <3>. QED
      BY <1>2, <3>2, <3>3
  <2>. QED
    BY <1>0, <1>6, <2>1, <2>2, DeadlinesKept
<1>7. CASE UNCHANGED historyVars
  <2>1. rs' = rs /\ free' = free
    BY <1>7 DEF historyVars, vars, cluster
  <2>. QED
    BY <1>2, <1>3, <2>1
<1>. QED
  BY <1>5, <1>6, <1>7 DEF DrainState, HistoryNext

\* A registered version is only stopped when its deadline has passed.
LEMMA StopsWhenDue ==
  ASSUME DrainState, RollsOut, NEW v \in Versions, StopVersion(v), rs[v].id \in registered
  PROVE  rs[v].removeAt = 0
<1>1. op.pc = "item" /\ v \in sweep.todo /\ v # Target
  BY DrainFacts, NextFits
<1>2. VersionOf(rs[v].id) = v
  BY DrainFacts, ServeFacts, VersionOfType DEF IdsBelong, IdsOf
<1>3. rs[v].id \in usage.known
  BY <1>1, <1>2, DrainFacts, ServeFacts DEF AnswerCovers, Answered, Walking, IsOld
<1>4. Seen(v).removeAt = 0
  BY <1>3, DrainFacts, NextFits DEF StopVersion
<1>. QED
  BY <1>1, <1>4, DrainFacts, ServeFacts DEF ViewFits, Walking

LEMMA StopsAfterDelay ==
  ASSUME DrainState, op.mode = "Rollout", NEW v \in Versions,
         rs[v].up, ~rs'[v].up, rs[v].id \in registered
  PROVE  free[v] = DrainDelay
<1>0. /\ TypeOK /\ PassFitsPhase /\ [Next]_vars /\ rs[v] \in ReplicaSets /\ DrainDelay \in Nat
      /\ rs \in [Versions -> ReplicaSets] /\ Target \in Versions
      /\ rs[v].removeAt \in Deadlines /\ free[v] \in 0 .. DrainDelay
  BY DrainFacts DEF FreeTypeOK, ReplicaSets
<1>1. CASE Begins \/ Ends
  BY <1>1, BeginsFacts, EndsFacts DEF BeginsWith
<1>2. CASE CollectGarbage
  BY <1>2, DrainFacts DEF CollectGarbage, NothingRecordedLeft
<1>3. CASE Tick
  BY <1>0, <1>3, AgedFacts DEF Tick
<1>4. CASE Outside /\ ~CollectGarbage /\ ~Tick
  BY <1>4
  DEF Outside, Environment, EditSpec, DeleteObject, ClusterChanges, PodsBecomeReady,
      PodsStop, Sync, SyncHpa, Invocations, vars, cluster, Pass
<1>5. CASE ApplyGoes
  <2>1. CASE CreateReplicaSet \/ AdoptReplicaSet \/ UnscheduleAdopted \/ RecordId
    BY <1>0, <2>1
    DEF CreateReplicaSet, Created, AdoptReplicaSet, UnscheduleAdopted, RecordId, ReplicaSets
  <2>2. CASE \/ PublishVersion \/ RoutingChanged \/ QueryUsage \/ ValidateReady
             \/ ValidateNotReady \/ Register \/ ConfirmLatest
    BY <2>2
    DEF PublishVersion, RoutingChanged, QueryUsage, ValidateReady, ValidateNotReady,
        Register, ConfirmLatest, cluster
  <2>. QED
    BY <1>5, <2>1, <2>2 DEF ApplyGoes
<1>6. CASE WalkGoes
  <2>1. RollsOut
    BY <1>0, <1>6, SweepMoves DEF WalkGoes, Moves, RollsOut, At
  <2>2. ASSUME NEW d, rs'[v] = [rs[v] EXCEPT !.removeAt = d]
        PROVE  FALSE
    BY <1>0, <2>2 DEF ReplicaSets
  <2>3. rs'[v] # [rs[v] EXCEPT !.up = TRUE]
    BY <1>0 DEF ReplicaSets
  <2>4. ~(DeleteReplicaSet /\ v = sweep.at)
    BY <1>0, <2>1, DrainFacts, ServeFacts, SweepMoves DEF Moves, ViewFits, Stopping
  <2>5. StopVersion(v)
    BY <1>0, <1>6, <2>2, <2>3, <2>4, WalkTouches
  <2>6. rs[v].removeAt = 0
    BY <2>1, <2>5, StopsWhenDue
  <2>7. InCharge
    BY <2>1 DEF InCharge
  <2>8. free[v] + 0 >= DrainDelay
    BY <2>6, <2>7, DrainFacts DEF ScheduledIsFree, Never
  <2>. QED
    BY <1>0, <2>8
<1>7. CASE ClusterDeleted \/ ClusterFound \/ QueryForCleanup \/ FinishCleanup
  BY <1>7 DEF ClusterDeleted, ClusterFound, QueryForCleanup, FinishCleanup, cluster
<1>. QED
  BY <1>0, <1>1, <1>2, <1>3, <1>4, <1>5, <1>6, <1>7, StepCases
  DEF Continues, ApplyGoes, WalkGoes

LEMMA HistorySpecIsSpec == HistorySpec => Spec
<1>1. HistoryInit => Init
  BY DEF HistoryInit
<1>2. [HistoryNext]_historyVars => [Next]_vars
  BY DEF HistoryNext, Next, historyVars
<1>. QED
  BY <1>1, <1>2, PTL DEF HistorySpec, Spec

LEMMA NothingRecordedLeftHolds ==
  ASSUME LagBetweenPasses = FALSE
  PROVE  Spec => []NothingRecordedLeft
<1>1. Init => NothingRecordedLeft
  BY DEF Init, RestateInit, Idle, NothingRecordedLeft, At, IsDeleting
<1>2. /\ TypeOK /\ TypeOK' /\ PassInOrder /\ (ListAgrees /\ AnswerCovers)
      /\ NothingRecordedLeft /\ [Next]_vars
      => NothingRecordedLeft'
  BY NothingRecordedLeftStep DEF ListState
<1>. QED
  BY <1>1, <1>2, TypeCorrect, PassOrderHolds, ListStateHolds, PTL DEF Spec

\* What is scheduled to go has been without work and traffic since it was.
THEOREM DrainHolds ==
  ASSUME LagBetweenPasses = FALSE
  PROVE  HistorySpec => []DrainKept
<1>1. HistoryInit => FreeTypeOK /\ ScheduledIsFree
  <2>. SUFFICES ASSUME HistoryInit PROVE FreeTypeOK /\ ScheduledIsFree
    OBVIOUS
  <2>1. FreeTypeOK
    BY DeploymentAssumption DEF DeploymentAssumption, HistoryInit, FreeTypeOK
  <2>2. \A v \in Versions : rs[v].removeAt = Never
    BY DEF HistoryInit, Init, Absent
  <2>. QED
    BY <2>1, <2>2 DEF ScheduledIsFree
<1>2. /\ TypeOK /\ TypeOK' /\ PassInOrder /\ (ListAgrees /\ AnswerCovers) /\ RecordedServingUp
      /\ (ServesHold /\ ListHoldsUp) /\ NothingRecordedLeft /\ FreeTypeOK /\ ScheduledIsFree
      /\ [Next]_vars /\ [HistoryNext]_historyVars
      => FreeTypeOK' /\ ScheduledIsFree'
  <2>. SUFFICES ASSUME DrainState PROVE FreeTypeOK' /\ ScheduledIsFree'
    BY DEF DrainState, DrainKept, ServeState, ListState
  <2>1. FreeTypeOK'
    BY FreeTypeStep, DrainFacts DEF DrainState
  <2>. QED
    BY <2>1, ScheduledIsFreeStep
<1>. QED
  BY <1>1, <1>2, HistorySpecIsSpec, TypeCorrect, PassOrderHolds, ListStateHolds,
     RolloutKeepsNeededVersions, ServesHolds, NothingRecordedLeftHolds, PTL
  DEF Spec, HistorySpec, DrainKept

\* A rollout scales down a registered version only after drainDelaySeconds without
\* traffic or work on it, however often it was superseded, rolled back to, edited
\* away or interrupted meanwhile (remove-version-at, unschedule_version_removal).
THEOREM DrainDelayRespectedHolds ==
  ASSUME LagBetweenPasses = FALSE
  PROVE  HistorySpec => DrainDelayRespected
<1>1. /\ TypeOK /\ TypeOK' /\ PassInOrder /\ (ListAgrees /\ AnswerCovers) /\ RecordedServingUp
      /\ (ServesHold /\ ListHoldsUp) /\ DrainKept
      /\ [Next]_vars /\ [HistoryNext]_historyVars
      => [op.mode = "Rollout" =>
            \A v \in Versions :
              rs[v].up /\ ~rs'[v].up /\ rs[v].id \in registered =>
                free[v] = DrainDelay]_historyVars
  <2>. SUFFICES ASSUME DrainState, op.mode = "Rollout", NEW v \in Versions,
                       rs[v].up, ~rs'[v].up, rs[v].id \in registered
                PROVE  free[v] = DrainDelay
    BY DEF DrainState, ServeState, ListState
  <2>. QED
    BY StopsAfterDelay
<1>. QED
  BY <1>1, HistorySpecIsSpec, TypeCorrect, PassOrderHolds, ListStateHolds,
     RolloutKeepsNeededVersions, ServesHolds, DrainHolds, PTL
  DEF Spec, HistorySpec, DrainDelayRespected

-----------------------------------------------------------------------------
(* Without other users there is nothing to take for a conflict.            *)

\* A rollout deregisters what no service points at.
LEMMA DeregistersUnrouted ==
  ASSUME ServeState, RollsOut, Deregister, NEW s \in Services
  PROVE  route'[s] = route[s]
<1>. DEFINE id == Seen(sweep.at).id
<1>0. TypeOK /\ op.pc = "deregister" /\ route \in [Services -> Ids \cup {NoId, Foreign}]
  BY ServeFacts DEF Deregister, Calls, At, TypeOK, RestateTypeOK
<1>1. sweep.at \in Versions /\ sweep.at # Target /\ id = rs[sweep.at].id
  BY <1>0, ServeFacts, WalkIsOld DEF Walking, ListAgrees
<1>2. id \in usage.known /\ id \notin usage.latest \cup usage.busy
  BY <1>0, ServeFacts DEF RollsOut, ServeState, ListState, PassInOrder, DeregistersIdle, At,
     KnownToRestate, Active, IsActive
<1>3. route[s] # id
  <2>. SUFFICES ASSUME route[s] = id PROVE FALSE
    OBVIOUS
  <2>1. id \in Ids
    BY <1>0, <1>2, ServeFacts DEF TypeOK, PassTypeOK, Usages
  <2>2. id \in registered
    BY <2>1 DEF ServeState, ListState, PassInOrder, WorkIsRegistered
  <2>3. id \notin IdsOf(Target)
    BY <1>1, <2>1, ServeFacts, RestateAssumption DEF IdsBelong, IdsOf, RestateAssumption
  <2>4. Needed(id)
    BY <2>2 DEF Needed, LatestIds
  <2>. QED
    BY <1>0, <1>2, <2>2, <2>3, <2>4, ServeFacts DEF AnswerStands, Answered, Walking
<1>. QED
  BY <1>0, <1>3 DEF Deregister, DeleteDeployment

LEMMA HoldsItsServicesStep ==
  ASSUME ServeState, HoldsItsServices, ForeignUsers = FALSE
  PROVE  HoldsItsServices'
<1>. SUFFICES ASSUME InCharge', NEW id \in registered', NEW s \in Serves[VersionOf(id)]
              PROVE  route'[s] # NoId
  BY DEF HoldsItsServices, VersionOf
<1>0. /\ TypeOK /\ TypeOK' /\ PassFitsPhase /\ [Next]_vars
      /\ registered \subseteq Ids /\ registered' \subseteq Ids /\ NoId \notin Ids
  BY ServeFacts, RestateAssumption
  DEF ServeState, ListState, TypeOK, RestateTypeOK, RestateAssumption
<1>1. InCharge
  BY <1>0, InChargeBefore
<1>2. s \in Services
  BY <1>0, VersionOfType, ServesType
<1>3. id \in registered => route[s] # NoId
  BY <1>1 DEF HoldsItsServices
<1>4. CASE Register
  <2>1. PICK new \in IdsOf(Target) : RegisterEndpoint(Target, new, op.action = "Promote")
    BY <1>0, <1>4, RegisterAdds
  <2>2. new \in Ids /\ VersionOf(new) = Target
    BY DEF IdsOf
  <2>. QED
    BY <1>0, <1>2, <1>3, <2>1, <2>2 DEF RegisterEndpoint
<1>5. CASE Deregister
  <2>1. RollsOut
    BY <1>0, <1>1, <1>5, ChargeRolls DEF Deregister, Calls, At
  <2>2. id \in registered
    BY <1>5 DEF Deregister, DeleteDeployment
  <2>. QED
    BY <1>2, <1>3, <1>5, <2>1, <2>2, DeregistersUnrouted
<1>6. CASE Invocations
  BY <1>3, <1>6 DEF Invocations, Invoke, Pin, Unqueue, Complete
<1>7. CASE ClusterChanges /\ rc' = "absent"
  BY <1>7 DEF ClusterChanges, RestateWiped
<1>8. CASE UNCHANGED restate
  BY <1>3, <1>8 DEF restate
<1>. QED
  BY <1>0, <1>4, <1>5, <1>6, <1>7, <1>8, RegisteredFacts

\* With a service in other hands than the version's own, and with nobody else
\* there, another version of the object has it, and can be promoted away from.
LEMMA NoConflictAlone ==
  ASSUME TypeOK, PassInOrder, BooksKept, HoldsItsServices, ReportConflict,
         \A v \in Versions : Serves[v] # {}
  PROVE  \E s \in Services : route[s] = Foreign
<1>0. /\ op.pc = "query" /\ rs \in [Versions -> ReplicaSets] /\ Target \in Versions
      /\ registered \subseteq Ids /\ NoId \notin Ids
      /\ route \in [Services -> Ids \cup {NoId, Foreign}]
  BY TargetType, RestateAssumption
  DEF ReportConflict, Calls, At, TypeOK, RestateTypeOK, ClusterTypeOK, RestateAssumption
<1>1. ~IsDeleting(op.mode) /\ InCharge
  BY <1>0 DEF PassInOrder, PassFitsPhase, CleanupOnly, Walking, InCharge, RollsOut, IsDeleting,
     At, Modes, TypeOK, PassTypeOK, OpStates
<1>2. /\ op.id \in registered /\ op.id \notin LatestIds
      /\ (OwnedIds \ {op.id}) \cap registered \cap LatestIds = {}
  BY DEF ReportConflict, PlannedAction, PlanRegistration, UsageAnswer
<1>3. op.id = rs[Target].id /\ VersionOf(op.id) = Target
  BY <1>0, <1>2 DEF PassInOrder, IdAdopted, IdsBelong, IdsOf
<1>4. PICK s \in Serves[Target] : TRUE
  BY <1>0
<1>5. s \in Services /\ route[s] # NoId
  BY <1>0, <1>1, <1>2, <1>3, <1>4, ServesType DEF HoldsItsServices
<1>6. CASE route[s] \in Ids
  <2>. DEFINE w == VersionOf(route[s])
  <2>1. route[s] \in registered /\ route[s] \in LatestIds
    BY <1>5, <1>6 DEF PassInOrder, WorkIsRegistered, LatestIds
  <2>2. w \in Versions /\ route[s] = rs[w].id
    BY <1>0, <1>6, <2>1, VersionOfType DEF BooksKept, Recorded, NotedId, At
  <2>3. w # Target
    BY <1>2, <1>3, <2>1, <2>2
  <2>4. cache[w].id = route[s] /\ cache[w].exists
    <3>1. cache[w].id = rs[w].id
      BY <1>0, <2>2, <2>3 DEF BooksKept, ListAgrees, BeforeWalk, Adopted, Walking, IsOld
    <3>. QED
      BY <1>0, <1>6, <2>2, <3>1 DEF PassInOrder, BlankWhenAbsent
  <2>5. route[s] \in OwnedIds \ {op.id}
    BY <1>0, <1>2, <1>6, <2>1, <2>2, <2>4 DEF OwnedIds
  <2>. QED
    BY <1>2, <2>1, <2>5
<1>. QED
  BY <1>0, <1>5, <1>6

\* ForeignDeployment is reported only when something outside the object holds one
\* of the services (RegistrationAction::Conflict).
THEOREM ConflictMeansForeignHolds ==
  ASSUME LagBetweenPasses = FALSE, LoseRegistrations = FALSE, ForeignUsers = FALSE,
         \A v \in Versions : Serves[v] # {}
  PROVE  Spec => ConflictMeansForeign
<1>1. Init => HoldsItsServices
  BY DEF Init, RestateInit, HoldsItsServices
<1>2. /\ TypeOK /\ TypeOK' /\ PassInOrder /\ (ListAgrees /\ AnswerCovers) /\ RecordedServingUp
      /\ (ServesHold /\ ListHoldsUp) /\ HoldsItsServices /\ [Next]_vars
      => HoldsItsServices'
  BY HoldsItsServicesStep DEF ServeState, ListState
<1>3. TypeOK /\ PassInOrder /\ BooksKept /\ HoldsItsServices
        => [ReportConflict => \E s \in Services : route[s] = Foreign]_vars
  BY NoConflictAlone
<1>. QED
  BY <1>1, <1>2, <1>3, TypeCorrect, PassOrderHolds, ListStateHolds,
     RolloutKeepsNeededVersions, ServesHolds, BooksHold, PTL DEF Spec, ConflictMeansForeign
=============================================================================
