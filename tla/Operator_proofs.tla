---------------------------- MODULE Operator_proofs ----------------------------
(***************************************************************************)
(* OperatorInvariant is inductive, and so the process and its passes over  *)
(* an object in Knative mode keep their safety properties for any number   *)
(* of tags, templates and services, any Hash, limit and delay, and         *)
(* whichever calls fail.                                                   *)
(***************************************************************************)
EXTENDS OperatorInvariant, TLAPS

-----------------------------------------------------------------------------
(* The steps of the system, by what they do to a pass.                     *)

ProcessMoves == Starts \/ Signal \/ Changes

\* The process moves and leaves the object alone, but for the stores.
Between ==
  /\ ProcessMoves /\ Stores
  /\ UNCHANGED <<restate, object, cfg, pass, readyFor, strays>>

PassBegins ==
  /\ Running
  /\ \/ ReportCollision(sawKnative) \/ ApplyConfiguration(sawKnative)
     \/ StartCleanup(sawKnative)

PassGoesOn ==
  \/ UnscheduleAdopted \/ ApplyRoute(sawKnative) \/ QueryUsage \/ Register \/ RecordId
  \/ ConfirmLatest \/ QueryForCleanup

Walks ==
  \/ \E v \in Versions : \/ KeepActive(v) \/ ScheduleRemoval(v) \/ AwaitRemoval(v)
                         \/ Retain(v) \/ Deregister(v) \/ DeleteUnknown(v)
  \/ DeleteDeregistered

PassEnds ==
  \/ RolloutNotReady(sawKnative) \/ ReportConflict \/ DiscoveryFails \/ ReportNotLatest
  \/ FinishPass \/ WriteToMissing \/ AwaitDrain \/ ReleaseFinalizer \/ PassFails

Watches == Running /\ sawKnative /\ Sync

ByItself == (PassBegins \/ PassGoesOn \/ Walks \/ PassEnds \/ Watches \/ World) /\ UNCHANGED process

LEMMA StepCases ==
  ASSUME [Next]_all
  PROVE  Between \/ Stop \/ ByItself \/ UNCHANGED all
<1>1. ASSUME NEW step, ProcessStep(step), step => ProcessMoves PROVE Between
  BY <1>1 DEF ProcessStep, Between
<1>2. CASE Reconcile
  BY <1>2 DEF Reconcile, Works, PassStep, ApplyStep, SweepStep, CleanupStep, ByItself,
    PassBegins, PassGoesOn, Walks, PassEnds
<1>3. CASE Follow \/ EndsInFailure \/ Elsewhere(World)
  BY <1>3 DEF Follow, Works, EndsInFailure, Elsewhere, ByItself, PassEnds, Watches
<1>. QED
  BY <1>1, <1>2, <1>3 DEF Next, ProcessMoves

LEMMA ProcessCases ==
  ASSUME [Next]_all
  PROVE  ProcessMoves \/ (Stop /\ (Exit \/ Replaced \/ Killed)) \/ UNCHANGED process
BY StepCases DEF Between, Stop, Kill, ByItself, all

LEMMA EndsFacts ==
  ASSUME PassEnds
  PROVE  /\ ~At("idle")
         /\ op' = Idle /\ usage' = NoUsage /\ sweep' = NoSweep
         /\ UNCHANGED <<restate, spec, collisions, cache, strays>>
         /\ phase' = phase \/ (ReleaseFinalizer /\ phase' = "gone")
         /\ cfg' = cfg \/ cfg' = WithRoute(op.tag)
         /\ \/ readyFor' = NotReady
            \/ readyFor' = readyFor
            \/ FinishPass /\ readyFor' = op.self.gen /\ cfg' = cfg
<1>. USE DEF EndPass, object, At
<1>1. CASE RolloutNotReady(sawKnative)
  BY <1>1 DEF RolloutNotReady, NotReadyReason
<1>2. CASE ReportConflict \/ DiscoveryFails \/ ReportNotLatest
  BY <1>2 DEF ReportConflict, DiscoveryFails, ReportNotLatest
<1>3. CASE FinishPass
  BY <1>3 DEF FinishPass
<1>4. CASE WriteToMissing
  BY <1>4 DEF WriteToMissing, FailureReason, IsNext, Drained, Expires, Removable
<1>5. CASE AwaitDrain \/ ReleaseFinalizer
  BY <1>5 DEF AwaitDrain, ReleaseFinalizer
<1>6. CASE PassFails
  BY <1>6, KnativeAssumption DEF KnativeAssumption, PassFails, FailureReason
<1>. QED
  BY <1>1, <1>2, <1>3, <1>4, <1>5, <1>6 DEF PassEnds

-----------------------------------------------------------------------------
(* The constants and the records of the model.                             *)

LEMMA SpecFacts ==
  ASSUME NEW self \in Specs, NEW count \in 0 .. MaxCollisions
  PROVE  /\ self.gen \in 0 .. MaxGenerations /\ self.limit \in Nat
         /\ self.template \in Templates /\ self.tag \in UserTags \cup {NoTag}
         /\ TagFor(self, count) \in Versions
         /\ TagFor(self, count) \in UserTags => self.tag # NoTag
         /\ TagFor(self, count) \notin UserTags => self.tag = NoTag
<1>1. SomeTemplate \in Templates
  BY KnativeAssumption DEF KnativeAssumption, SomeTemplate
<1>2. /\ self.gen \in 0 .. MaxGenerations /\ self.limit \in Nat
      /\ self.template \in Templates /\ self.tag \in UserTags \cup {NoTag}
  <2>1. CASE self = NoSpec
    BY <1>1, <2>1, KnativeAssumption DEF KnativeAssumption, NoSpec
  <2>2. ASSUME NEW choice \in Choices, NEW gen \in 0 .. MaxGenerations, self = AsSpec(choice, gen)
        PROVE  /\ self.gen \in 0 .. MaxGenerations /\ self.limit \in Nat
               /\ self.template \in Templates /\ self.tag \in UserTags \cup {NoTag}
    <3>1. choice \in [template : Templates, tag : UserTags \cup {NoTag}, limit : Nat]
      BY KnativeAssumption DEF KnativeAssumption
    <3>. QED
      BY <2>2, <3>1 DEF AsSpec
  <2>. QED
    BY <2>1, <2>2 DEF Specs
<1>3. Hash[count][self.template] \in Versions \ UserTags
  BY <1>2, KnativeAssumption DEF KnativeAssumption
<1>4. NoTag \notin UserTags /\ UserTags \subseteq Versions
  BY KnativeAssumption DEF KnativeAssumption
<1>. QED
  BY <1>2, <1>3, <1>4 DEF TagFor

LEMMA RecordTypes ==
  /\ SomeTemplate \in Templates
  /\ NoSpec \in Specs
  /\ Absent \in Configurations
  /\ NoUsage \in [known : SUBSET Ids, latest : SUBSET Ids, busy : SUBSET Ids]
  /\ NoSweep \in [view : [Versions -> Configurations], todo : SUBSET Versions,
                  at : Versions \cup {NoVersion}, historic : Nat, held : BOOLEAN]
  /\ Idle \in [pc : Steps, self : Specs, tag : Versions \cup {NoVersion}, mode : Modes,
               id : Ids \cup {NoId}, current : BOOLEAN, action : Actions]
<1>1. SomeTemplate \in Templates
  BY KnativeAssumption DEF KnativeAssumption, SomeTemplate
<1>2. NoSpec \in Specs
  BY DEF Specs
<1>3. Absent \in Configurations
  BY <1>1, KnativeAssumption DEF KnativeAssumption, Absent, Configurations, Never, Rollouts
<1>. QED
  BY <1>1, <1>2, <1>3 DEF NoUsage, NoSweep, Idle, Steps, Modes, Actions

LEMMA ConfigFacts ==
  ASSUME NEW c \in Configurations
  PROVE  /\ Aged(c) \in Configurations
         /\ \A t \in Templates : [c EXCEPT !.template = t] \in Configurations
         /\ \A id \in Ids \cup {NoId} : [c EXCEPT !.id = id] \in Configurations
         /\ [c EXCEPT !.removeAt = Never] \in Configurations
         /\ [c EXCEPT !.removeAt = DrainDelay] \in Configurations
         /\ [c EXCEPT !.dying = TRUE] \in Configurations
         /\ [c EXCEPT !.route = TRUE] \in Configurations
         /\ \A r \in Rollouts : [c EXCEPT !.rollout = r] \in Configurations
         /\ [c EXCEPT !.rollout = "applied", !.route = FALSE] \in Configurations
<1>. USE KnativeAssumption DEF KnativeAssumption, Configurations, Never, Rollouts
<1>1. Aged(c) \in Configurations
  BY SMTT(30) DEF Aged
<1>2. /\ \A t \in Templates : [c EXCEPT !.template = t] \in Configurations
      /\ \A id \in Ids \cup {NoId} : [c EXCEPT !.id = id] \in Configurations
  OBVIOUS
<1>3. /\ [c EXCEPT !.removeAt = Never] \in Configurations
      /\ [c EXCEPT !.removeAt = DrainDelay] \in Configurations
  OBVIOUS
<1>4. /\ [c EXCEPT !.dying = TRUE] \in Configurations
      /\ [c EXCEPT !.route = TRUE] \in Configurations
  OBVIOUS
<1>5. /\ \A r \in Rollouts : [c EXCEPT !.rollout = r] \in Configurations
      /\ [c EXCEPT !.rollout = "applied", !.route = FALSE] \in Configurations
  OBVIOUS
<1>. QED
  BY <1>1, <1>2, <1>3, <1>4, <1>5

LEMMA UsageType ==
  ASSUME RestateTypeOK, NEW mode
  PROVE  UsageAnswer(mode) \in [known : SUBSET Ids, latest : SUBSET Ids, busy : SUBSET Ids]
BY DEF RestateTypeOK, UsageAnswer, LatestIds

LEMMA WalkType ==
  ASSUME KnativeTypeOK, NEW active
  PROVE  /\ Walk(active) \in [view : [Versions -> Configurations], todo : SUBSET Versions,
                              at : Versions \cup {NoVersion}, historic : Nat, held : BOOLEAN]
         /\ Walk(active).todo = {v \in CachedTags \ {active} : ~cache[v].dying}
         /\ Walk(active).at = NoVersion /\ Walk(active).historic = 0 /\ ~Walk(active).held
         /\ \A v \in Versions : Walk(active).view[v] =
              IF v \in Walk(active).todo THEN cache[v] ELSE Absent
BY RecordTypes DEF KnativeTypeOK, Walk, NoSweep, CachedTags

-----------------------------------------------------------------------------
(* Type correctness.                                                       *)

LEMMA ProcessTypeStep ==
  ASSUME ProcessTypeOK, [Next]_all
  PROVE  ProcessTypeOK'
<1>. USE DEF ProcessTypeOK, environment, startup, notes, Positions, Controllers
<1>1. ASSUME NewProcess PROVE /\ pos' \in [Controllers -> Positions] /\ asleep' = {} /\ heard' = {}
                             /\ gates' \in [Controllers -> {"Starting", "Waiting", "Ready"}]
                             /\ reporter' \in {"watching", "complained", "done"}
                             /\ terminating' \in BOOLEAN /\ sawKnative' \in BOOLEAN
                             /\ told' \in [Controllers -> {"groups", "crd", "no wait"}]
                             /\ retried' = {}
  BY <1>1 DEF NewProcess, FirstPosition, FirstReport
<1>2. CASE Exit \/ Replaced \/ Killed
  BY <1>1, <1>2 DEF Exit, Replaced, Killed
<1>3. ASSUME NEW c \in Controllers, Wait(c) PROVE ProcessTypeOK'
  <2>1. CASE GroupsListed(c)
    BY <2>1 DEF GroupsListed, MoveOn
  <2>2. CASE GroupsNotListed(c)
    <3>1. CASE c \in heard
      <4>1. /\ pos' = [pos EXCEPT ![c] = "stopped"] /\ heard' = heard \ {c}
            /\ UNCHANGED <<environment, followed, asleep, gates, reporter, terminating,
                           sawKnative, notes>>
        BY <2>2, <3>1 DEF GroupsNotListed, SleepUnlessTold, MoveOn
      <4>. QED
        BY <4>1
    <3>2. CASE c \notin heard
      BY <2>2, <3>2 DEF GroupsNotListed, SleepUnlessTold
    <3>. QED
      BY <3>1, <3>2
  <2>3. CASE CrdFound(c)
    BY <2>3 DEF CrdFound, MoveOn
  <2>4. CASE CrdMissing(c)
    <3>1. CASE c \in heard
      <4>1. /\ pos' = [pos EXCEPT ![c] = "stopped"] /\ heard' = heard \ {c}
            /\ UNCHANGED <<environment, followed, asleep, reporter, terminating,
                           sawKnative, notes>>
        BY <2>4, <3>1 DEF CrdMissing, SleepUnlessTold, MoveOn
      <4>2. gates' \in [Controllers -> {"Starting", "Waiting", "Ready"}]
        BY <2>4 DEF CrdMissing
      <4>. QED
        BY <4>1, <4>2
    <3>2. CASE c \notin heard
      BY <2>4, <3>2 DEF CrdMissing, SleepUnlessTold
    <3>. QED
      BY <3>1, <3>2
  <2>5. CASE PollAgain(c)
    BY <2>5 DEF PollAgain
  <2>6. CASE StopWaiting(c)
    BY <2>6 DEF StopWaiting, MoveOn
  <2>. QED
    BY <1>3, <2>1, <2>2, <2>3, <2>4, <2>5, <2>6 DEF Wait
<1>4. CASE Warm
  <2>1. CASE StoreFilled
    BY <2>1 DEF StoreFilled, MoveOn
  <2>2. CASE ProbeKnative
    BY <2>2 DEF ProbeKnative, MoveOn
  <2>3. CASE KnativeStoresFilled
    BY <2>3 DEF KnativeStoresFilled, MoveOn
  <2>. QED
    BY <1>4, <2>1, <2>2, <2>3 DEF Warm
<1>5. CASE Report
  BY <1>5 DEF Report, Complain, FinishReport, StopReporting
<1>6. ASSUME NEW c \in Controllers, StopRunning(c) PROVE ProcessTypeOK'
  BY <1>6 DEF StopRunning, MoveOn
<1>7. CASE Signal
  BY <1>7 DEF Signal, SigTerm, Listening, Waiting
<1>8. CASE Changes
  <2>1. CASE Surroundings
    BY <2>1 DEF Surroundings, Outage, Install, InstallOptional, ApiserverFails, ApiserverRecovers
  <2>2. CASE Outage \/ ApiserverRecovers
    BY <2>2 DEF Outage, ApiserverFails, ApiserverRecovers
  <2>. QED
    BY <1>8, <2>1, <2>2 DEF Changes
<1>9. CASE UNCHANGED process
  BY <1>9 DEF process
<1>. QED
  BY <1>2, <1>3, <1>4, <1>5, <1>6, <1>7, <1>8, <1>9, ProcessCases
  DEF ProcessMoves, Starts, Proceed

LEMMA BeginsTypes ==
  ASSUME KnativeTypeOK, PassBegins
  PROVE  KnativeTypeOK'
<1>. USE RecordTypes DEF KnativeTypeOK, object, pass, RestateTypeOK, restate
<1>1. CASE ReportCollision(sawKnative)
  BY <1>1, KnativeAssumption DEF KnativeAssumption, ReportCollision, NotReady
<1>2. CASE ApplyConfiguration(sawKnative)
  <2>1. DetermineTag(spec) \in Versions
    BY SpecFacts DEF DetermineTag
  <2>2. \A v \in Versions : Applied(v) \in Configurations
    <3>. SUFFICES ASSUME NEW v \in Versions PROVE Applied(v) \in Configurations
      OBVIOUS
    <3>1. spec.gen \in 0 .. MaxGenerations /\ spec.template \in Templates
      BY SpecFacts
    <3>2. [Absent EXCEPT !.exists = TRUE, !.template = spec.template, !.created = spec.gen]
            \in Configurations
      BY <3>1 DEF Configurations
    <3>3. ASSUME NEW r \in Rollouts
          PROVE  [cfg[v] EXCEPT !.template = spec.template, !.rollout = r] \in Configurations
      BY ZenonT(60), <3>1, <3>3 DEF Configurations
    <3>. QED
      BY ZenonT(60), <3>2, <3>3 DEF Applied, Configurations, Rollouts
  <2>3. Applied(DetermineTag(spec)).id \in Ids \cup {NoId}
    BY <2>1, <2>2 DEF Configurations
  <2>. QED
    BY ZenonT(60), <1>2, <2>1, <2>2, <2>3 DEF ApplyConfiguration, Steps
<1>3. CASE StartCleanup(sawKnative)
  <2>1. ModeFor(TRUE, Policy, FALSE) \in Modes
    BY DEF ModeFor, Modes
  <2>. QED
    BY <1>3, <2>1 DEF StartCleanup, Steps
<1>. QED
  BY <1>1, <1>2, <1>3 DEF PassBegins

LEMMA RegisterTypes ==
  ASSUME KnativeTypeOK, Register
  PROVE  KnativeTypeOK'
<1>. USE DEF KnativeTypeOK, RestateTypeOK
<1>1. PICK id \in (IF EndpointKnown THEN registered \cap IdsOf(op.tag) ELSE FreshIds(op.tag)) :
        /\ RegisterEndpoint(op.tag, id, op.action = "Promote")
        /\ strays' \in {strays, strays \cup {id}}
        /\ op' = [op EXCEPT !.id = id, !.action = "None",
                            !.pc = IF id = op.id THEN "confirm" ELSE "record"]
        /\ UNCHANGED <<object, cfg, cache, usage, sweep, readyFor>>
  BY DEF Register
<1>2. id \in Ids
  BY <1>1 DEF FreshIds, Unused, IdsOf
<1>3. op' \in [pc : Steps, self : Specs, tag : Versions \cup {NoVersion}, mode : Modes,
               id : Ids \cup {NoId}, current : BOOLEAN, action : Actions]
  BY <1>1, <1>2 DEF Steps, Actions
<1>4. RestateTypeOK'
  BY <1>1, <1>2 DEF RegisterEndpoint
<1>. QED
  BY <1>1, <1>2, <1>3, <1>4 DEF object

LEMMA GoesOnTypes ==
  ASSUME KnativeTypeOK, PassGoesOn
  PROVE  KnativeTypeOK'
<1>. USE DEF KnativeTypeOK, object, pass, RestateTypeOK, restate, Goto
<1>1. CASE UnscheduleAdopted
  BY <1>1, ConfigFacts DEF UnscheduleAdopted, Steps
<1>2. CASE ApplyRoute(sawKnative)
  BY <1>2, ConfigFacts DEF ApplyRoute, WithRoute, Steps
<1>3. CASE QueryUsage
  <2>1. PlannedAction \in Actions
    BY DEF PlannedAction, PlanRegistration, Actions
  <2>2. UsageAnswer("Rollout") \in [known : SUBSET Ids, latest : SUBSET Ids, busy : SUBSET Ids]
    BY UsageType
  <2>3. CASE PlannedAction = "AlreadyLatest"
    BY <1>3, <2>2, <2>3, WalkType DEF QueryUsage, Steps
  <2>4. CASE PlannedAction # "AlreadyLatest"
    <3>1. op' = [op EXCEPT !.pc = "register", !.action = PlannedAction]
          /\ usage' = UsageAnswer("Rollout") /\ sweep' = sweep
          /\ UNCHANGED <<restate, object, cfg, cache, readyFor, strays>>
      BY <1>3, <2>4 DEF QueryUsage
    <3>2. op' \in [pc : Steps, self : Specs, tag : Versions \cup {NoVersion}, mode : Modes,
                   id : Ids \cup {NoId}, current : BOOLEAN, action : Actions]
      BY <2>1, <3>1 DEF Steps
    <3>. QED
      BY <2>2, <3>1, <3>2
  <2>. QED
    BY <2>3, <2>4
<1>4. CASE Register
  BY <1>4, RegisterTypes
<1>5. CASE RecordId
  BY <1>5, ConfigFacts DEF RecordId, Steps
<1>6. CASE ConfirmLatest
  BY <1>6, WalkType DEF ConfirmLatest, Steps
<1>7. CASE QueryForCleanup
  BY <1>7, UsageType, WalkType DEF QueryForCleanup, Steps
<1>. QED
  BY <1>1, <1>2, <1>3, <1>4, <1>5, <1>6, <1>7 DEF PassGoesOn

LEMMA WalksTypes ==
  ASSUME KnativeTypeOK, Walks
  PROVE  KnativeTypeOK'
<1>. USE DEF KnativeTypeOK, object, pass, RestateTypeOK, restate, Goto
<1>1. \A v \in Versions : cfg[v] \in Configurations /\ sweep.view[v] \in Configurations
  OBVIOUS
<1>2. \A v \in Versions :
        /\ Visited(v) \in [view : [Versions -> Configurations], todo : SUBSET Versions,
                           at : Versions \cup {NoVersion}, historic : Nat, held : BOOLEAN]
        /\ Held(v) \in [view : [Versions -> Configurations], todo : SUBSET Versions,
                        at : Versions \cup {NoVersion}, historic : Nat, held : BOOLEAN]
  BY RecordTypes DEF Visited, Held
<1>3. ASSUME NEW v \in Versions, KeepActive(v) \/ ScheduleRemoval(v) \/ AwaitRemoval(v)
      PROVE  KnativeTypeOK'
  <2>1. [cfg[v] EXCEPT !.removeAt = Never] \in Configurations
        /\ [cfg[v] EXCEPT !.removeAt = DrainDelay] \in Configurations
    BY <1>1, ConfigFacts
  <2>2. cfg' \in [Versions -> Configurations]
    BY <1>3, <2>1 DEF KeepActive, ScheduleRemoval, AwaitRemoval
  <2>3. sweep' = Held(v) /\ UNCHANGED <<restate, object, cache, op, usage, readyFor, strays>>
    BY <1>3 DEF KeepActive, ScheduleRemoval, AwaitRemoval
  <2>. QED
    BY <1>2, <2>2, <2>3
<1>4. ASSUME NEW v \in Versions, Retain(v) PROVE KnativeTypeOK'
  BY <1>2, <1>4 DEF Retain
<1>5. ASSUME NEW v \in Versions, Deregister(v) PROVE KnativeTypeOK'
  <2>1. DeleteDeployment(Seen(v).id)
    BY <1>5 DEF Deregister
  <2>2. registered' \subseteq Ids /\ route' \in [Services -> Ids \cup {NoId, Foreign}]
    BY <2>1 DEF DeleteDeployment
  <2>3. pinned' \in [Ids -> 0 .. MaxInvocations] /\ unpinned' = unpinned
    <3>1. 0 \in 0 .. MaxInvocations
      BY RestateAssumption DEF RestateAssumption
    <3>. QED
      BY <2>1, <3>1 DEF DeleteDeployment
  <2>. QED
    BY <1>2, <1>5, <2>2, <2>3 DEF Deregister, Steps
<1>6. ASSUME NEW v \in Versions PROVE Deleted(v) \in [Versions -> Configurations]
  BY <1>1, RecordTypes, ConfigFacts DEF Deleted
<1>7. ASSUME NEW v \in Versions, DeleteUnknown(v) PROVE KnativeTypeOK'
  BY <1>2, <1>6, <1>7 DEF DeleteUnknown
<1>8. CASE DeleteDeregistered
  <2>1. cfg' \in [Versions -> Configurations]
    BY <1>1, <1>8, RecordTypes, ConfigFacts DEF DeleteDeregistered, Deleted
  <2>. QED
    BY <1>8, <2>1 DEF DeleteDeregistered, Steps
<1>. QED
  BY <1>3, <1>4, <1>5, <1>7, <1>8 DEF Walks

LEMMA EndsTypes ==
  ASSUME KnativeTypeOK, PassEnds
  PROVE  KnativeTypeOK'
<1>. USE DEF KnativeTypeOK, RestateTypeOK, restate
<1>1. WithRoute(op.tag) \in [Versions -> Configurations]
  BY ConfigFacts DEF WithRoute
<1>2. op.self.gen \in 0 .. MaxGenerations
  BY SpecFacts, KnativeAssumption DEF KnativeAssumption
<1>. QED
  BY <1>1, <1>2, EndsFacts, RecordTypes

LEMMA AroundTypes ==
  ASSUME KnativeTypeOK, World \/ Watches \/ Between \/ Stop \/ UNCHANGED all
  PROVE  KnativeTypeOK'
<1>. USE DEF KnativeTypeOK, object, pass, RestateTypeOK, restate
<1>1. /\ \A v \in Versions : cfg[v] \in Configurations /\ cache[v] \in Configurations
      /\ \A c \in [Versions -> Configurations] : Records(c) \in [Versions -> Configurations]
  BY ConfigFacts DEF Records
<1>2. CASE EditSpec
  <2>1. spec.gen \in 0 .. MaxGenerations /\ MaxGenerations \in Nat
    BY SpecFacts, KnativeAssumption DEF KnativeAssumption
  <2>2. spec.gen + 1 \in 0 .. MaxGenerations
    BY <1>2, <2>1 DEF EditSpec
  <2>3. spec' \in Specs
    BY <1>2, <2>2 DEF EditSpec, Specs
  <2>. QED
    BY <1>2, <2>3 DEF EditSpec
<1>3. CASE DeleteObject
  BY <1>3 DEF DeleteObject
<1>4. ASSUME NEW v \in Versions, RollOut(v) PROVE KnativeTypeOK'
  <2>1. PICK r \in Progress(cfg[v].rollout, cfg[v].route) : cfg' = [cfg EXCEPT ![v].rollout = r]
    BY <1>4 DEF RollOut
  <2>2. r \in Rollouts
    BY DEF Progress, Rollouts
  <2>. QED
    BY <1>1, <1>4, <2>1, <2>2, ConfigFacts DEF RollOut
<1>5. ASSUME NEW v \in Versions, Collect(v) PROVE KnativeTypeOK'
  BY <1>5, RecordTypes DEF Collect
<1>6. ASSUME NEW s \in Services, ForeignTakes(s) \/ Invoked(s) PROVE KnativeTypeOK'
  BY <1>6, RestateAssumption
  DEF RestateAssumption, ForeignTakes, ForeignRegister, Invoked, Start
<1>7. ASSUME NEW id \in Ids, Finish(id) PROVE KnativeTypeOK'
  BY <1>7, RestateAssumption DEF RestateAssumption, Finish, Complete
<1>8. CASE Tick
  BY <1>1, <1>8, ConfigFacts DEF Tick
<1>9. CASE Watches
  BY <1>1, <1>9 DEF Watches, Sync
<1>10. CASE Between
  BY <1>1, <1>10, RecordTypes DEF Between, Stores, ForgetCache
<1>11. CASE Stop
  BY <1>11, RecordTypes DEF Stop, ForgetPass, ForgetCache
<1>. QED
  BY <1>2, <1>3, <1>4, <1>5, <1>6, <1>7, <1>8, <1>9, <1>10, <1>11 DEF World, all, knative

LEMMA TypeStep ==
  ASSUME OperatorTypeOK, [Next]_all
  PROVE  OperatorTypeOK'
BY ProcessTypeStep, BeginsTypes, GoesOnTypes, WalksTypes, EndsTypes, AroundTypes, StepCases
DEF OperatorTypeOK, ByItself

LEMMA InitTypes == Init => OperatorTypeOK
<1>. SUFFICES ASSUME Init PROVE OperatorTypeOK
  OBVIOUS
<1>1. ProcessTypeOK
  BY ProcessAssumption
  DEF Init, ProcessInit, ProcessTypeOK, ProcessAssumption, FirstPosition, FirstReport, Controllers,
      Positions
<1>2. KnativeTypeOK
  <2>1. /\ op = Idle /\ usage = NoUsage /\ sweep = NoSweep /\ strays = {}
        /\ cache = [v \in Versions |-> Absent] /\ collisions \in 0 .. MaxCollisions
    BY KnativeAssumption DEF KnativeAssumption, Init, KnativeInit
  <2>2. ASSUME NoObjectYet
        PROVE  /\ RestateTypeOK /\ spec \in Specs /\ phase = "none" /\ readyFor = NotReady
               /\ cfg \in [Versions -> Configurations]
    BY <2>2, RestateAssumption, RecordTypes
    DEF RestateAssumption, NoObjectYet, RestateInit, RestateTypeOK
  <2>3. ASSUME NEW now \in Choices, NEW before \in Choices, RolledOut(now, before)
        PROVE  /\ RestateTypeOK /\ spec \in Specs /\ phase = "live" /\ readyFor = 0
               /\ cfg \in [Versions -> Configurations]
    <3>1. \A choice \in Choices :
            /\ AsSpec(choice, 0) \in Specs
            /\ TagFor(choice, 0) = TagFor(AsSpec(choice, 0), 0)
            /\ choice.template = AsSpec(choice, 0).template
      BY KnativeAssumption DEF KnativeAssumption, Specs, AsSpec, TagFor
    <3>2. \A choice \in Choices : TagFor(choice, 0) \in Versions /\ choice.template \in Templates
      BY <3>1, SpecFacts, KnativeAssumption DEF KnativeAssumption
    <3>3. \A v \in Versions : <<v, 0>> \in Ids
      BY KnativeAssumption DEF KnativeAssumption, Ids
    <3>4. ASSUME NEW choice \in Choices
          PROVE  [Absent EXCEPT !.exists = TRUE, !.template = choice.template,
                                !.id = <<TagFor(choice, 0), 0>>, !.route = TRUE,
                                !.rollout = "routed"] \in Configurations
      BY <3>2, <3>3, RecordTypes DEF Configurations, Rollouts
    <3>5. cfg \in [Versions -> Configurations]
      BY <2>3, <3>4, RecordTypes DEF RolledOut
    <3>6. RestateTypeOK
      BY <2>3, <3>2, <3>3, RestateAssumption DEF RestateAssumption, RolledOut, RestateTypeOK
    <3>. QED
      BY <2>3, <3>1, <3>5, <3>6 DEF RolledOut
  <2>4. RestateTypeOK /\ spec \in Specs /\ phase \in {"none", "live"}
        /\ readyFor \in {NotReady} \cup 0 .. MaxGenerations /\ cfg \in [Versions -> Configurations]
    BY <2>2, <2>3, KnativeAssumption DEF KnativeAssumption, Init, KnativeInit
  <2>. QED
    BY <2>1, <2>4, RecordTypes DEF KnativeTypeOK
<1>. QED
  BY <1>1, <1>2 DEF OperatorTypeOK

\* The operator's state is well typed (OperatorTypeOK), whatever the constants.
THEOREM OperatorTypesHold == Spec => []OperatorTypeOK
<1>1. Init => OperatorTypeOK
  BY InitTypes
<1>2. OperatorTypeOK /\ [Next]_all => OperatorTypeOK'
  BY TypeStep
<1>. QED
  BY <1>1, <1>2, PTL DEF Spec

-----------------------------------------------------------------------------
(* The process.                                                            *)

LEMMA NewProcessFacts ==
  ASSUME ProcessTypeOK, NewProcess
  PROVE  /\ heard' = {} /\ asleep' = {} /\ ~terminating' /\ ~sawKnative'
         /\ \A c \in Controllers :
              /\ c \in followed => gates'[c] = "Starting"
              /\ c \notin followed => pos'[c] \notin {"groups", "crd"}
         /\ pos'["RestateDeployment"] \in {"crd", "probing"}
         /\ reporter' = FirstReport
<1>1. \A c \in Controllers : c \notin followed => FirstPosition(c) \notin {"groups", "crd"}
  BY DEF FirstPosition
<1>2. FirstPosition("RestateDeployment") \in {"crd", "probing"}
  BY DEF FirstPosition
<1>3. "RestateDeployment" \in Controllers
  BY DEF Controllers
<1>. QED
  BY <1>1, <1>2, <1>3 DEF NewProcess

LEMMA GatesStep ==
  ASSUME ProcessTypeOK, GatesTell, [Next]_all
  PROVE  GatesTell'
<1>. USE DEF ProcessTypeOK, GatesTell, Waiting
<1>1. CASE Exit \/ Replaced \/ Killed
  BY <1>1, NewProcessFacts DEF Exit, Replaced, Killed
<1>2. ASSUME NEW c \in Controllers, GroupsListed(c) PROVE GatesTell'
  BY <1>2 DEF GroupsListed, MoveOn
<1>3. ASSUME NEW c \in Controllers, CrdFound(c) PROVE GatesTell'
  BY <1>3 DEF CrdFound, MoveOn
<1>4. ASSUME NEW c \in Controllers, CrdMissing(c) PROVE GatesTell'
  BY <1>4 DEF CrdMissing, Polls, SleepUnlessTold, MoveOn
<1>5. ASSUME NEW c \in Controllers, StopWaiting(c) \/ StopRunning(c) PROVE GatesTell'
  BY <1>5 DEF StopWaiting, StopRunning, MoveOn
<1>6. CASE Warm
  <2>1. CASE StoreFilled
    BY <2>1 DEF StoreFilled, MoveOn
  <2>2. CASE ProbeKnative
    BY <2>2 DEF ProbeKnative
  <2>3. CASE KnativeStoresFilled
    BY <2>3 DEF KnativeStoresFilled, MoveOn
  <2>. QED
    BY <1>6, <2>1, <2>2, <2>3 DEF Warm
<1>7. ASSUME UNCHANGED <<pos, gates>> PROVE GatesTell'
  BY <1>7
<1>8. CASE Report \/ Signal \/ Changes
  BY <1>7, <1>8
  DEF Report, Complain, FinishReport, StopReporting, Signal, SigTerm, Changes, Surroundings,
      Outage, Install, InstallOptional, ApiserverFails, ApiserverRecovers, startup
<1>9. ASSUME NEW c \in Controllers, GroupsNotListed(c) \/ PollAgain(c) PROVE GatesTell'
  BY <1>7, <1>9 DEF GroupsNotListed, SleepUnlessTold, MoveOn, PollAgain
<1>10. CASE UNCHANGED process
  BY <1>7, <1>10 DEF process, startup
<1>. QED
  BY <1>1, <1>2, <1>3, <1>4, <1>5, <1>6, <1>8, <1>9, <1>10, ProcessCases
  DEF ProcessMoves, Starts, Proceed, Wait

LEMMA FollowedStays ==
  ASSUME [Next]_all
  PROVE  followed' = followed
BY ProcessCases
DEF ProcessMoves, Starts, Proceed, Wait, Warm, Report, Signal, Changes, Surroundings, Outage, Exit,
    Replaced, Killed, GroupsListed, GroupsNotListed, CrdFound, CrdMissing, PollAgain, StopWaiting,
    StoreFilled, ProbeKnative, KnativeStoresFilled, StopRunning, Complain, FinishReport,
    StopReporting, SigTerm, Install, InstallOptional, ApiserverFails, ApiserverRecovers, process

\* Who ends the reporter.
LEMMA ReporterMoves ==
  ASSUME [Next]_all
  PROVE  \/ reporter' = reporter
         \/ reporter # "done" /\ (Complain \/ FinishReport \/ StopReporting)
         \/ NewProcess /\ followed' = followed
<1>1. ASSUME NEW c \in Controllers, Wait(c) \/ StopRunning(c) PROVE reporter' = reporter
  BY <1>1 DEF Wait, GroupsListed, GroupsNotListed, CrdFound, CrdMissing, PollAgain, StopWaiting,
    StopRunning
<1>2. CASE Warm \/ Signal \/ Changes
  BY <1>2 DEF Warm, StoreFilled, ProbeKnative, KnativeStoresFilled, Signal, SigTerm, Changes,
    Surroundings, Outage, Install, InstallOptional, ApiserverFails, ApiserverRecovers
<1>3. CASE Report
  BY <1>3 DEF Report, Complain, FinishReport, StopReporting
<1>4. CASE Exit \/ Replaced \/ Killed
  BY <1>4 DEF Exit, Replaced, Killed
<1>. QED
  BY <1>1, <1>2, <1>3, <1>4, ProcessCases DEF ProcessMoves, Starts, Proceed, process

LEMMA ReporterStep ==
  ASSUME ReporterRests, [Next]_all
  PROVE  ReporterRests'
BY ReporterMoves, FollowedStays DEF ReporterRests, NewProcess, FirstReport

LEMMA AllClearStep ==
  ASSUME ProcessTypeOK, GatesTell, ReporterRests, [Next]_all, "reporter" \notin heard,
         reporter # "done", reporter' = "done", NEW c \in Controllers
  PROVE  pos[c] \notin {"groups", "crd"}
<1>1. CASE FinishReport
  BY <1>1 DEF FinishReport, AllReady, GatesTell, Waiting
<1>2. CASE Complain \/ StopReporting
  BY <1>2 DEF Complain, StopReporting
<1>3. CASE NewProcess
  BY <1>3, NewProcessFacts DEF FirstReport, ReporterRests
<1>. QED
  BY <1>1, <1>2, <1>3, ReporterMoves

\* What a wait was told and did, as it goes on: nobody returns to the API groups.
SignalKept == SignalStopsWait /\ \A c \in Controllers : told[c] = "crd" => pos[c] # "groups"

\* Where a controller may go in a step of its wait, and what it knows then.
LEMMA WaitMoves ==
  ASSUME ProcessTypeOK, NEW d \in Controllers, Wait(d)
  PROVE  /\ \A c \in Controllers \ {d} :
              /\ pos'[c] = pos[c]
              /\ c \in heard' <=> c \in heard
              /\ c \in asleep' <=> c \in asleep
              /\ c \in retried' <=> c \in retried
         /\ told' = told
         /\ \/ pos[d] = "groups" /\ pos'[d] = "crd"
            \/ pos'[d] \notin {"groups", "crd"}
            \/ pos'[d] = pos[d] /\ d \notin heard /\ d \notin heard' /\ retried' = retried
            \/ pos'[d] = pos[d] /\ heard' = heard /\ d \notin asleep'
<1>. USE DEF ProcessTypeOK
<1>1. CASE GroupsListed(d)
  BY <1>1 DEF GroupsListed, Polls, MoveOn, notes
<1>2. CASE GroupsNotListed(d)
  BY <1>2 DEF GroupsNotListed, SleepUnlessTold, MoveOn, notes
<1>3. CASE CrdFound(d)
  BY <1>3 DEF CrdFound, MoveOn, notes
<1>4. CASE CrdMissing(d)
  <2>1. CASE d \in heard
    <3>1. /\ pos' = [pos EXCEPT ![d] = "stopped"] /\ heard' = heard \ {d}
          /\ UNCHANGED <<asleep, told, retried>>
      BY <1>4, <2>1 DEF CrdMissing, SleepUnlessTold, MoveOn, notes
    <3>. QED
      BY <3>1
  <2>2. CASE d \notin heard
    BY <1>4, <2>2 DEF CrdMissing, SleepUnlessTold, notes
  <2>. QED
    BY <2>1, <2>2
<1>5. CASE PollAgain(d)
  BY <1>5 DEF PollAgain
<1>6. CASE StopWaiting(d)
  BY <1>6 DEF StopWaiting, MoveOn, notes
<1>. QED
  BY <1>1, <1>2, <1>3, <1>4, <1>5, <1>6 DEF Wait

LEMMA SignalStep ==
  ASSUME ProcessTypeOK, SignalKept, [Next]_all
  PROVE  SignalKept'
<1>. USE DEF ProcessTypeOK, SignalKept, SignalStopsWait
<1>1. CASE Exit \/ Replaced \/ Killed
  <2>1. NewProcess
    BY <1>1 DEF Exit, Replaced, Killed
  <2>2. \A c \in Controllers : told'[c] = "no wait" /\ pos'[c] # "no wait"
    BY <2>1 DEF NewProcess, FirstPosition
  <2>. QED
    BY <2>2
<1>2. ASSUME NEW d \in Controllers, Wait(d) PROVE SignalKept'
  <2>. SUFFICES ASSUME NEW c \in Controllers
                PROVE  /\ pos'[c] = told'[c] => c \in heard' /\ ~(c \in retried' /\ c \in asleep')
                       /\ told'[c] = "crd" => pos'[c] # "groups"
    OBVIOUS
  <2>1. told' = told /\ told[c] \in {"groups", "crd", "no wait"} /\ pos[d] \in {"groups", "crd"}
    BY <1>2, WaitMoves
    DEF Wait, GroupsListed, GroupsNotListed, CrdFound, CrdMissing, PollAgain, StopWaiting, Polls,
        Waiting
  <2>2. CASE c = d
    <3>1. CASE pos[d] = "groups" /\ pos'[d] = "crd"
      BY <2>1, <2>2, <3>1
    <3>2. CASE pos'[d] \notin {"groups", "crd"}
      <4>1. pos'[d] # "no wait"
        BY ProcessTypeStep DEF Positions
      <4>. QED
        BY <2>1, <2>2, <3>2, <4>1
    <3>3. CASE pos'[d] = pos[d] /\ d \notin heard /\ d \notin heard' /\ retried' = retried
      BY <2>1, <2>2, <3>3
    <3>4. CASE pos'[d] = pos[d] /\ heard' = heard /\ d \notin asleep'
      BY <2>1, <2>2, <3>4
    <3>. QED
      BY <1>2, <3>1, <3>2, <3>3, <3>4, WaitMoves
  <2>3. CASE c # d
    BY <1>2, <2>1, <2>3, WaitMoves
  <2>. QED
    BY <2>2, <2>3
<1>3. ASSUME NEW d \in Controllers, StopRunning(d) PROVE SignalKept'
  BY <1>3 DEF StopRunning, MoveOn, notes
<1>4. CASE Warm
  <2>1. /\ told' = told /\ retried' = retried /\ asleep' = asleep
        /\ \A c \in Controllers :
             \/ pos'[c] = pos[c] /\ (c \in heard' <=> c \in heard)
             \/ pos'[c] \notin {"groups", "crd", "no wait"}
    <3>1. CASE StoreFilled
      BY <3>1 DEF StoreFilled, MoveOn, notes
    <3>2. CASE ProbeKnative
      BY <3>2 DEF ProbeKnative, notes
    <3>3. CASE KnativeStoresFilled
      BY <3>3 DEF KnativeStoresFilled, notes
    <3>. QED
      BY <1>4, <3>1, <3>2, <3>3 DEF Warm
  <2>. QED
    BY <2>1
<1>5. CASE Signal
  <2>1. /\ pos' = pos /\ retried' = {} /\ heard' = heard \cup Listening
        /\ told' = [c \in Controllers |-> IF Waiting(c) THEN pos[c] ELSE "no wait"]
    BY <1>5 DEF Signal, SigTerm
  <2>. QED
    BY <2>1 DEF Listening, Waiting
<1>6. CASE Report \/ Changes
  BY <1>6
  DEF Report, Complain, FinishReport, StopReporting, Changes, Surroundings, Outage, Install,
      InstallOptional, ApiserverFails, ApiserverRecovers, startup, notes
<1>7. CASE UNCHANGED process
  BY <1>7 DEF process, startup, notes
<1>. QED
  BY <1>1, <1>2, <1>3, <1>4, <1>5, <1>6, <1>7, ProcessCases DEF ProcessMoves, Starts, Proceed

\* The reporter's all-clear is true (AllClearIsTrue, report_pending_crds).
THEOREM AllClearHolds == Spec => AllClearIsTrue
<1>1. Init => GatesTell /\ ReporterRests
  <2>1. \A c \in Controllers : c \notin followed => FirstPosition(c) \notin {"groups", "crd"}
    BY DEF FirstPosition
  <2>. QED
    BY <2>1 DEF Init, ProcessInit, GatesTell, ReporterRests, Waiting, FirstReport
<1>2. ProcessTypeOK /\ (GatesTell /\ ReporterRests) /\ [Next]_all => (GatesTell /\ ReporterRests)'
  BY GatesStep, ReporterStep
<1>3. OperatorTypeOK => ProcessTypeOK
  BY DEF OperatorTypeOK
<1>4. ProcessTypeOK /\ (GatesTell /\ ReporterRests) /\ [Next]_all
        => [reporter # "done" /\ reporter' = "done" /\ "reporter" \notin heard =>
              \A c \in Controllers : pos[c] \notin {"groups", "crd"}]_process
  BY AllClearStep
<1>. QED
  BY <1>1, <1>2, <1>3, <1>4, OperatorTypesHold, PTL DEF Spec, AllClearIsTrue

\* A controller told to stop during a wait is still in that wait only while it knows, and
\* after one more poll at the most (SignalStopsWait, ShutdownSignals, the selects of
\* wait_for_api_groups and wait_for_crd).
THEOREM SignalStopsWaitHolds == Spec => []SignalStopsWait
<1>1. Init => SignalKept
  BY DEF Init, ProcessInit, FirstPosition, SignalKept, SignalStopsWait
<1>2. ProcessTypeOK /\ SignalKept /\ [Next]_all => SignalKept'
  BY SignalStep
<1>3. OperatorTypeOK => ProcessTypeOK
  BY DEF OperatorTypeOK
<1>4. SignalKept => SignalStopsWait
  BY DEF SignalKept
<1>. QED
  BY <1>1, <1>2, <1>3, <1>4, OperatorTypesHold, PTL DEF Spec

-----------------------------------------------------------------------------
(* What each kind of step leaves alone.                                    *)

LEMMA BeginsFacts ==
  ASSUME PassBegins
  PROVE  /\ At("idle") /\ (LagBetweenPasses \/ (sawKnative => CaughtUp))
         /\ UNCHANGED <<restate, spec, phase, cache, usage, sweep, strays>>
         /\ \/ ReportCollision(sawKnative) /\ phase = "live" /\ readyFor' = NotReady
               /\ UNCHANGED <<cfg, op>>
            \/ /\ ApplyConfiguration(sawKnative) /\ phase = "live"
               /\ ~Collides(spec, op'.tag)
               /\ op'.mode = "Rollout" /\ op'.self = spec /\ op'.tag = DetermineTag(spec)
               /\ op'.id = Applied(op'.tag).id
               /\ cfg' = [cfg EXCEPT ![op'.tag] = Applied(op'.tag)]
               /\ op'.pc = (IF Applied(op'.tag).removeAt = Never THEN "route" ELSE "unschedule")
               /\ UNCHANGED <<collisions, readyFor>>
            \/ /\ StartCleanup(sawKnative) /\ phase = "deleting"
               /\ op'.pc = "drainQuery" /\ op'.self = spec /\ op'.tag = NoVersion
               /\ op'.id = NoId /\ IsDeleting(op'.mode)
               /\ UNCHANGED <<collisions, cfg, readyFor>>
<1>. USE DEF Begins, At, object, pass
<1>1. CASE ReportCollision(sawKnative)
  BY <1>1 DEF ReportCollision
<1>2. CASE ApplyConfiguration(sawKnative)
  BY <1>2 DEF ApplyConfiguration, Idle
<1>3. CASE StartCleanup(sawKnative)
  <2>1. ModeFor(TRUE, Policy, FALSE) # "Rollout"
    BY DEF ModeFor
  <2>. QED
    BY <1>3, <2>1 DEF StartCleanup, Idle, IsDeleting
<1>. QED
  BY <1>1, <1>2, <1>3 DEF PassBegins

LEMMA RegisterFacts ==
  ASSUME KnativeTypeOK, Register
  PROVE  /\ At("register") /\ Reachable
         /\ UNCHANGED <<object, cfg, cache, usage, sweep, readyFor>>
         /\ op'.self = op.self /\ op'.tag = op.tag /\ op'.mode = op.mode
         /\ op'.id \in IdsOf(op.tag)
         /\ op'.id \in registered \/ (registered \cap IdsOf(op.tag) = {} /\ op'.id \in Unused(op.tag))
         /\ RegisterEndpoint(op.tag, op'.id, op.action = "Promote")
         /\ strays' = (IF cfg[op.tag].exists /\ ~cfg[op.tag].dying THEN strays ELSE strays \cup {op'.id})
         /\ op'.pc = (IF op'.id = op.id THEN "confirm" ELSE "record")
<1>. USE DEF KnativeTypeOK, RestateTypeOK
<1>. DEFINE pool == IF EndpointKnown THEN registered \cap IdsOf(op.tag) ELSE FreshIds(op.tag)
<1>1. PICK id \in pool :
        /\ RegisterEndpoint(op.tag, id, op.action = "Promote")
        /\ strays' = IF cfg[op.tag].exists /\ ~cfg[op.tag].dying THEN strays ELSE strays \cup {id}
        /\ op' = [op EXCEPT !.id = id, !.action = "None",
                            !.pc = IF id = op.id THEN "confirm" ELSE "record"]
        /\ UNCHANGED <<object, cfg, cache, usage, sweep, readyFor>>
  BY DEF Register
<1>2. /\ id \in IdsOf(op.tag)
      /\ id \in registered \/ (registered \cap IdsOf(op.tag) = {} /\ id \in Unused(op.tag))
  BY <1>1 DEF FreshIds, Unused, EndpointKnown
<1>3. op'.id = id /\ op'.self = op.self /\ op'.tag = op.tag /\ op'.mode = op.mode
      /\ op'.pc = (IF id = op.id THEN "confirm" ELSE "record")
  BY <1>1
<1>. QED
  BY <1>1, <1>2, <1>3 DEF Register

LEMMA GoesOnFacts ==
  ASSUME KnativeTypeOK, PassGoesOn
  PROVE  /\ ~At("idle") /\ ~At("item") /\ ~At("delete")
         /\ UNCHANGED <<object, cache, readyFor>>
         /\ op'.self = op.self /\ op'.tag = op.tag /\ op'.mode = op.mode
         /\ Register \/ (op'.id = op.id /\ UNCHANGED <<restate, strays>>)
         /\ \/ At("unschedule") /\ op'.pc = "route" /\ UnscheduleAdopted
            \/ At("route") /\ op'.pc = "query" /\ ApplyRoute(sawKnative)
            \/ At("query") /\ op'.pc \in {"register", "item"} /\ QueryUsage
            \/ At("register") /\ op'.pc \in {"confirm", "record"} /\ Register
            \/ At("record") /\ op'.pc = "confirm" /\ RecordId
            \/ At("confirm") /\ op'.pc = "item" /\ ConfirmLatest
            \/ At("drainQuery") /\ op'.pc = "item" /\ QueryForCleanup
         /\ \/ cfg' = cfg
            \/ UnscheduleAdopted /\ cfg' = [cfg EXCEPT ![op.tag].removeAt = Never]
            \/ ApplyRoute(sawKnative) /\ cfg' = WithRoute(op.tag)
            \/ RecordId /\ cfg' = [cfg EXCEPT ![op.tag].id = op.id]
<1>. USE DEF At, Goto, object, KnativeTypeOK
<1>1. CASE UnscheduleAdopted \/ ApplyRoute(sawKnative) \/ RecordId
  BY <1>1 DEF UnscheduleAdopted, ApplyRoute, RecordId
<1>2. CASE QueryUsage
  BY ZenonT(60), <1>2 DEF QueryUsage
<1>3. CASE Register
  BY <1>3, RegisterFacts DEF Register
<1>4. CASE ConfirmLatest \/ QueryForCleanup
  BY <1>4 DEF ConfirmLatest, QueryForCleanup
<1>. QED
  BY <1>1, <1>2, <1>3, <1>4 DEF PassGoesOn

LEMMA WalksFacts ==
  ASSUME KnativeTypeOK, Walks
  PROVE  /\ op.pc \in Walking /\ op'.pc \in Walking
         /\ UNCHANGED <<object, cache, usage, readyFor, strays>>
         /\ op'.self = op.self /\ op'.tag = op.tag /\ op'.mode = op.mode /\ op'.id = op.id
         /\ \/ UNCHANGED restate
            \/ \E v \in Versions : Deregister(v)
<1>. USE DEF At, Goto, object, KnativeTypeOK, Walking
<1>1. ASSUME NEW v \in Versions, KeepActive(v) \/ ScheduleRemoval(v) \/ AwaitRemoval(v)
      PROVE  At("item") /\ op' = op /\ UNCHANGED <<restate, object, cache, usage, readyFor, strays>>
  BY <1>1 DEF KeepActive, ScheduleRemoval, AwaitRemoval, Drained, IsNext
<1>2. ASSUME NEW v \in Versions, Retain(v) \/ DeleteUnknown(v)
      PROVE  At("item") /\ op' = op /\ UNCHANGED <<restate, object, cache, usage, readyFor, strays>>
  BY <1>2 DEF Retain, DeleteUnknown, Expires, Removable, IsNext
<1>3. ASSUME NEW v \in Versions, Deregister(v)
      PROVE  /\ At("item") /\ op' = [op EXCEPT !.pc = "delete"]
             /\ UNCHANGED <<object, cache, usage, readyFor, strays>>
  BY <1>3 DEF Deregister, Expires, Removable, IsNext
<1>4. CASE DeleteDeregistered
  BY <1>4 DEF DeleteDeregistered
<1>. QED
  BY <1>1, <1>2, <1>3, <1>4 DEF Walks

LEMMA AroundFacts ==
  ASSUME World \/ Watches
  PROVE  /\ UNCHANGED <<collisions, pass, strays>>
         /\ \/ UNCHANGED <<spec, phase, readyFor>>
            \/ EditSpec /\ spec'.gen = spec.gen + 1
               /\ UNCHANGED <<restate, phase, cfg, cache, readyFor>>
            \/ /\ DeleteObject /\ phase = "live" /\ phase' = "deleting" /\ readyFor' = NotReady
               /\ UNCHANGED <<restate, spec, cfg, cache>>
         /\ registered' = registered
         /\ \/ UNCHANGED cache
            \/ Tick
            \/ Watches /\ cache' = Records(cfg) /\ cfg' = cfg
         /\ \/ UNCHANGED cfg
            \/ Tick
            \/ \E v \in Versions : RollOut(v) \/ Collect(v)
<1>. USE DEF object, restate
<1>1. CASE EditSpec \/ DeleteObject
  BY <1>1 DEF EditSpec, DeleteObject, AsSpec
<1>2. ASSUME NEW v \in Versions, RollOut(v) \/ Collect(v)
      PROVE  UNCHANGED <<restate, object, cache, pass, readyFor, strays>>
  BY <1>2 DEF RollOut, Collect
<1>3. ASSUME NEW s \in Services, ForeignTakes(s) \/ Invoked(s)
      PROVE  UNCHANGED <<registered, object, cfg, cache, pass, readyFor, strays>>
  BY <1>3 DEF ForeignTakes, ForeignRegister, Invoked, Start
<1>4. ASSUME NEW id \in Ids, Finish(id)
      PROVE  UNCHANGED <<registered, object, cfg, cache, pass, readyFor, strays>>
  BY <1>4 DEF Finish, Complete
<1>5. CASE Tick
  BY <1>5 DEF Tick
<1>6. CASE Watches
  BY <1>6 DEF Watches, Sync
<1>. QED
  BY <1>1, <1>2, <1>3, <1>4, <1>5, <1>6 DEF World

\* An object is there from the start or not at all.
LEMMA ObjectStays ==
  ASSUME KnativeTypeOK, PassFits, [Next]_all
  PROVE  /\ NoObject' <=> NoObject
         /\ ~At("idle") => phase' # "gone" \/ op' = Idle
<1>. USE DEF NoObject, object, At
<1>1. CASE Between
  BY <1>1 DEF Between, PassFits
<1>2. CASE Stop
  BY <1>2 DEF Stop, ForgetPass
<1>3. CASE PassEnds
  BY <1>3, EndsFacts DEF PassFits, ReleaseFinalizer
<1>4. CASE PassBegins \/ PassGoesOn \/ Walks
  BY <1>4, BeginsFacts, GoesOnFacts, WalksFacts DEF PassFits
<1>5. CASE World \/ Watches
  BY <1>5, AroundFacts DEF PassFits
<1>6. CASE UNCHANGED all
  BY <1>6 DEF all, knative, PassFits
<1>. QED
  BY <1>1, <1>2, <1>3, <1>4, <1>5, <1>6, StepCases DEF ByItself

-----------------------------------------------------------------------------
(* What the process lends the passes.                                      *)

LEMMA UndisturbingStep ==
  ASSUME OperatorTypeOK, PassFits, Undisturbing, [Next]_all
  PROVE  Undisturbing'
<1>. SUFFICES ASSUME ~NoObject
              PROVE  followed' = {} /\ heard' = {} /\ ~terminating'
                     /\ \A c \in Controllers : ~Waiting(c)'
  BY ObjectStays DEF OperatorTypeOK, Undisturbing
<1>0. /\ followed' = {} /\ heard = {} /\ ~terminating
      /\ \A c \in Controllers : pos[c] \notin {"groups", "crd"}
  BY FollowedStays DEF Undisturbing, Waiting
<1>. USE <1>0 DEF Waiting
<1>1. CASE Exit \/ Replaced \/ Killed
  BY <1>1, NewProcessFacts DEF Exit, Replaced, Killed, OperatorTypeOK
<1>2. ASSUME NEW c \in Controllers PROVE ~Wait(c) /\ ~StopRunning(c)
  BY DEF Wait, GroupsListed, GroupsNotListed, CrdFound, CrdMissing, PollAgain, StopWaiting, Polls,
    StopRunning
<1>3. CASE Warm
  <2>1. CASE StoreFilled
    BY <2>1 DEF StoreFilled, MoveOn, OperatorTypeOK, ProcessTypeOK
  <2>2. CASE ProbeKnative
    BY <2>2 DEF ProbeKnative, OperatorTypeOK, ProcessTypeOK
  <2>3. CASE KnativeStoresFilled
    BY <2>3 DEF KnativeStoresFilled, OperatorTypeOK, ProcessTypeOK
  <2>. QED
    BY <1>3, <2>1, <2>2, <2>3 DEF Warm
<1>4. CASE Report
  BY <1>4 DEF Report, Complain, FinishReport, StopReporting, startup
<1>5. ~Signal
  BY DEF Signal
<1>6. CASE Changes
  BY <1>6 DEF Changes, Surroundings, Outage, ApiserverFails, ApiserverRecovers, startup
<1>7. CASE UNCHANGED process
  BY <1>7 DEF process, startup
<1>. QED
  BY <1>1, <1>2, <1>3, <1>4, <1>5, <1>6, <1>7, ProcessCases DEF ProcessMoves, Starts, Proceed

\* Where the deployment controller may go in a step, and what it takes for Knative
\* being installed.
LEMMA DeploymentMoves ==
  ASSUME ProcessTypeOK, [Next]_all
  PROVE  LET here == pos["RestateDeployment"]
             there == pos'["RestateDeployment"]
         IN  \/ there = here /\ sawKnative' = sawKnative
             \/ Stop /\ NewProcess /\ followed' = followed
             \/ here \in {"groups", "crd"} /\ there \in {"crd", "warming", "stopped"}
                /\ sawKnative' = sawKnative
             \/ here = "warming" /\ there = "probing" /\ sawKnative' = sawKnative
             \/ ProbeKnative /\ here = "probing"
                /\ there = IF sawKnative' THEN "warmingKnative" ELSE "running"
             \/ here = "warmingKnative" /\ there = "running" /\ sawKnative' = sawKnative
             \/ here = "running" /\ there = "stopped" /\ sawKnative' = sawKnative
                /\ "RestateDeployment" \in heard
<1>0. "RestateDeployment" \in Controllers
  BY DEF Controllers
<1>. USE <1>0 DEF ProcessTypeOK
<1>1. CASE Stop
  BY <1>1 DEF Stop, Exit, Replaced, Kill, Killed
<1>2. ASSUME NEW c \in Controllers, GroupsListed(c) \/ CrdFound(c) \/ StopWaiting(c)
      PROVE  \/ pos'["RestateDeployment"] = pos["RestateDeployment"] /\ sawKnative' = sawKnative
             \/ /\ pos["RestateDeployment"] \in {"groups", "crd"}
                /\ pos'["RestateDeployment"] \in {"crd", "warming", "stopped"}
                /\ sawKnative' = sawKnative
  <2>1. CASE GroupsListed(c)
    BY <2>1 DEF GroupsListed, MoveOn, Polls, Waiting
  <2>2. CASE CrdFound(c)
    BY <2>2 DEF CrdFound, MoveOn
  <2>3. CASE StopWaiting(c)
    BY <2>3 DEF StopWaiting, MoveOn, Waiting
  <2>. QED
    BY <1>2, <2>1, <2>2, <2>3
<1>3. ASSUME NEW c \in Controllers, GroupsNotListed(c) \/ CrdMissing(c) \/ PollAgain(c)
      PROVE  \/ pos'["RestateDeployment"] = pos["RestateDeployment"] /\ sawKnative' = sawKnative
             \/ /\ pos["RestateDeployment"] \in {"groups", "crd"}
                /\ pos'["RestateDeployment"] \in {"crd", "warming", "stopped"}
                /\ sawKnative' = sawKnative
  <2>1. CASE GroupsNotListed(c) \/ CrdMissing(c)
    <3>1. pos[c] \in {"groups", "crd"} /\ sawKnative' = sawKnative /\ SleepUnlessTold(c)
      BY <2>1 DEF GroupsNotListed, CrdMissing, Polls, Waiting
    <3>2. pos' = pos \/ pos' = [pos EXCEPT ![c] = "stopped"]
      BY <3>1, Zenon DEF SleepUnlessTold, MoveOn
    <3>3. CASE pos' = pos
      BY <3>1, <3>3
    <3>4. CASE pos' = [pos EXCEPT ![c] = "stopped"]
      BY <3>1, <3>4
    <3>. QED
      BY <3>2, <3>3, <3>4
  <2>2. CASE PollAgain(c)
    BY <2>2 DEF PollAgain
  <2>. QED
    BY <1>3, <2>1, <2>2
<1>4. ASSUME NEW c \in Controllers, StopRunning(c)
      PROVE  \/ pos'["RestateDeployment"] = pos["RestateDeployment"] /\ sawKnative' = sawKnative
             \/ /\ pos["RestateDeployment"] = "running" /\ pos'["RestateDeployment"] = "stopped"
                /\ sawKnative' = sawKnative /\ "RestateDeployment" \in heard
  BY <1>4 DEF StopRunning, MoveOn
<1>5. CASE StoreFilled
  BY <1>5 DEF StoreFilled, MoveOn
<1>6. CASE ProbeKnative
  BY <1>6 DEF ProbeKnative
<1>7. CASE KnativeStoresFilled
  BY <1>7 DEF KnativeStoresFilled
<1>8. CASE Report \/ Signal \/ Changes
  BY <1>8
  DEF Report, Complain, FinishReport, StopReporting, Signal, SigTerm, Changes, Surroundings,
      Outage, Install, InstallOptional, ApiserverFails, ApiserverRecovers, startup
<1>9. CASE UNCHANGED process
  BY <1>9 DEF process, startup
<1>. QED
  BY <1>1, <1>2, <1>3, <1>4, <1>5, <1>6, <1>7, <1>8, <1>9, ProcessCases
  DEF ProcessMoves, Starts, Proceed, Wait, Warm

LEMMA StoresStep ==
  ASSUME OperatorTypeOK, StoresMatch, [Next]_all
  PROVE  StoresMatch'
<1>. DEFINE here == pos["RestateDeployment"]
            there == pos'["RestateDeployment"]
<1>0. ProcessTypeOK /\ KnativeTypeOK
  BY DEF OperatorTypeOK
<1>1. ASSUME ForgetCache PROVE CachedTags' = {}
  BY <1>1 DEF ForgetCache, CachedTags, Absent
<1>2. ASSUME UNCHANGED cache PROVE CachedTags' = CachedTags
  BY <1>2 DEF CachedTags
<1>3. CASE Stop
  <2>1. CachedTags' = {}
    BY <1>1, <1>3 DEF Stop
  <2>2. NewProcess
    BY <1>3 DEF Stop, Exit, Replaced, Kill, Killed
  <2>. QED
    BY <1>0, <2>1, <2>2, NewProcessFacts DEF StoresMatch
<1>4. CASE Between
  <2>1. CASE there \notin {"running", "stopped"}
    <3>1. CachedTags' = {}
      BY <1>1, <1>4, <2>1 DEF Between, Stores
    <3>2. there = "warmingKnative" => sawKnative'
      BY <1>0, <2>1, DeploymentMoves, NewProcessFacts DEF StoresMatch
    <3>. QED
      BY <2>1, <3>1, <3>2 DEF StoresMatch
  <2>2. CASE there \in {"running", "stopped"} /\ here = "warmingKnative"
    <3>1. sawKnative'
      BY <1>0, <2>2, DeploymentMoves, NewProcessFacts DEF StoresMatch
    <3>. QED
      BY <2>2, <3>1 DEF StoresMatch
  <2>3. CASE there \in {"running", "stopped"} /\ here # "warmingKnative"
    <3>1. CachedTags' = CachedTags
      BY <1>2, <1>4, <2>3 DEF Between, Stores
    <3>2. ~sawKnative' => CachedTags = {}
      BY <1>0, <2>3, DeploymentMoves, NewProcessFacts DEF StoresMatch
    <3>. QED
      BY <2>3, <3>1, <3>2 DEF StoresMatch
  <2>. QED
    BY <2>1, <2>2, <2>3
<1>5. ASSUME ByItself PROVE StoresMatch'
  <2>1. pos' = pos /\ sawKnative' = sawKnative
    BY <1>5 DEF ByItself, process, startup
  <2>2. CASE UNCHANGED cache
    BY <1>2, <2>1, <2>2 DEF StoresMatch
  <2>3. CASE Tick
    <3>1. CachedTags' = CachedTags
      BY <2>3, <1>0 DEF Tick, Aged, CachedTags, KnativeTypeOK, Configurations
    <3>. QED
      BY <2>1, <3>1 DEF StoresMatch
  <2>4. CASE Watches
    BY <2>1, <2>4 DEF Watches, Running, StoresMatch
  <2>. QED
    BY <1>0, <1>5, <2>2, <2>3, <2>4, BeginsFacts, GoesOnFacts, WalksFacts, EndsFacts, AroundFacts
    DEF ByItself
<1>6. CASE UNCHANGED all
  BY <1>2, <1>6 DEF all, knative, process, startup, StoresMatch
<1>. QED
  BY <1>3, <1>4, <1>5, <1>6, StepCases

-----------------------------------------------------------------------------
(* What may become of a Configuration in a step.                           *)

Deletes(v) == DeleteUnknown(v) \/ (DeleteDeregistered /\ v = sweep.at)

LEMMA ConfigMoves ==
  ASSUME KnativeTypeOK, [Next]_all, NEW v \in Versions
  PROVE  \/ cfg'[v] = cfg[v]
         \/ PassBegins /\ ApplyConfiguration(sawKnative) /\ v = op'.tag /\ cfg'[v] = Applied(v)
         \/ cfg'[v] = Absent /\ (Collect(v) \/ Deletes(v))
         \/ cfg'[v] = [cfg[v] EXCEPT !.dying = TRUE] /\ cfg[v].exists /\ Deletes(v)
         \/ /\ cfg'[v] = [cfg[v] EXCEPT !.removeAt = Never] /\ cfg[v].exists
            /\ (UnscheduleAdopted /\ v = op.tag) \/ KeepActive(v)
         \/ cfg'[v] = [cfg[v] EXCEPT !.removeAt = DrainDelay] /\ cfg[v].exists /\ ScheduleRemoval(v)
         \/ cfg'[v] = [cfg[v] EXCEPT !.route = TRUE] /\ cfg[v].exists /\ At("route") /\ v = op.tag
         \/ cfg'[v] = [cfg[v] EXCEPT !.id = op.id] /\ cfg[v].exists /\ RecordId /\ v = op.tag
         \/ /\ RollOut(v) /\ cfg[v].rollout # "routed"
            /\ \E r \in Rollouts : cfg'[v] = [cfg[v] EXCEPT !.rollout = r]
         \/ Tick /\ cfg'[v] = Aged(cfg[v])
<1>. USE DEF KnativeTypeOK
<1>1. CASE UNCHANGED cfg
  BY <1>1
<1>2. CASE PassBegins
  BY <1>1, <1>2, BeginsFacts
<1>3. CASE PassGoesOn
  <2>1. ASSUME UnscheduleAdopted
        PROVE  cfg'[v] = cfg[v] \/ (cfg'[v] = [cfg[v] EXCEPT !.removeAt = Never] /\ cfg[v].exists
                                    /\ UnscheduleAdopted /\ v = op.tag)
    BY <2>1 DEF UnscheduleAdopted
  <2>2. ASSUME ApplyRoute(sawKnative)
        PROVE  cfg'[v] = cfg[v] \/ (cfg'[v] = [cfg[v] EXCEPT !.route = TRUE] /\ cfg[v].exists
                                    /\ At("route") /\ v = op.tag)
    BY <2>2 DEF ApplyRoute, WithRoute
  <2>3. ASSUME RecordId
        PROVE  cfg'[v] = cfg[v] \/ (cfg'[v] = [cfg[v] EXCEPT !.id = op.id] /\ cfg[v].exists
                                    /\ RecordId /\ v = op.tag)
    BY <2>3 DEF RecordId
  <2>. QED
    BY <1>1, <1>3, <2>1, <2>2, <2>3, GoesOnFacts
<1>4. ASSUME NEW w \in Versions, KeepActive(w) \/ ScheduleRemoval(w)
      PROVE  \/ cfg'[v] = cfg[v]
             \/ cfg'[v] = [cfg[v] EXCEPT !.removeAt = Never] /\ cfg[v].exists /\ KeepActive(v)
             \/ cfg'[v] = [cfg[v] EXCEPT !.removeAt = DrainDelay] /\ cfg[v].exists /\ ScheduleRemoval(v)
  BY <1>4 DEF KeepActive, ScheduleRemoval
<1>5. ASSUME NEW w \in Versions, DeleteUnknown(w)
      PROVE  \/ cfg'[v] = cfg[v]
             \/ cfg'[v] = Absent /\ DeleteUnknown(v)
             \/ cfg'[v] = [cfg[v] EXCEPT !.dying = TRUE] /\ cfg[v].exists /\ DeleteUnknown(v)
  BY <1>5 DEF DeleteUnknown, Deleted
<1>6. CASE DeleteDeregistered
  BY <1>6 DEF DeleteDeregistered, Deleted, Deletes
<1>7. CASE Walks
  <2>1. ASSUME NEW w \in Versions, AwaitRemoval(w) \/ Retain(w) \/ Deregister(w) PROVE UNCHANGED cfg
    BY <2>1 DEF AwaitRemoval, Retain, Deregister
  <2>. QED
    BY <1>1, <1>4, <1>5, <1>6, <1>7, <2>1 DEF Walks, Deletes
<1>8. CASE PassEnds
  <2>1. CASE RolloutNotReady(sawKnative)
    BY <2>1 DEF RolloutNotReady, WithRoute
  <2>2. CASE ~RolloutNotReady(sawKnative)
    BY <1>1, <1>8, <2>2
    DEF PassEnds, ReportConflict, DiscoveryFails, ReportNotLatest, FinishPass, WriteToMissing,
        AwaitDrain, ReleaseFinalizer, PassFails
  <2>. QED
    BY <2>1, <2>2
<1>9. ASSUME NEW w \in Versions, RollOut(w) \/ Collect(w)
      PROVE  \/ cfg'[v] = cfg[v]
             \/ cfg'[v] = Absent /\ Collect(v)
             \/ /\ RollOut(v) /\ cfg[v].rollout # "routed"
                /\ \E r \in Rollouts : cfg'[v] = [cfg[v] EXCEPT !.rollout = r]
  <2>1. CASE Collect(w)
    BY <2>1 DEF Collect
  <2>2. CASE RollOut(w)
    <3>1. PICK r \in Progress(cfg[w].rollout, cfg[w].route) : cfg' = [cfg EXCEPT ![w].rollout = r]
      BY <2>2 DEF RollOut
    <3>2. r \in Rollouts /\ cfg[w].rollout # "routed"
      BY <3>1 DEF Progress, Rollouts
    <3>. QED
      BY <2>2, <3>1, <3>2
  <2>. QED
    BY <1>9, <2>1, <2>2
<1>10. ASSUME Tick PROVE cfg'[v] = Aged(cfg[v])
  BY <1>10 DEF Tick
<1>11. CASE World \/ Watches
  BY <1>1, <1>9, <1>10, <1>11, AroundFacts
<1>12. CASE Between \/ Stop \/ UNCHANGED all
  BY <1>1, <1>12 DEF Between, Stop, all, knative
<1>. QED
  BY <1>2, <1>3, <1>7, <1>8, <1>11, <1>12, StepCases DEF ByItself

LEMMA ConfigFields ==
  ASSUME KnativeTypeOK, [Next]_all, NEW v \in Versions, cfg'[v].exists
  PROVE  \/ PassBegins /\ ApplyConfiguration(sawKnative) /\ v = op'.tag /\ cfg'[v] = Applied(v)
         \/ /\ cfg[v].exists
            /\ cfg'[v].template = cfg[v].template
            /\ cfg'[v].id = cfg[v].id \/ (RecordId /\ v = op.tag /\ cfg'[v].id = op.id)
            /\ cfg'[v].dying = cfg[v].dying \/ (cfg'[v].dying /\ Deletes(v))
            /\ cfg[v].rollout = "routed" => cfg'[v].rollout = "routed"
            /\ \/ cfg'[v].removeAt = cfg[v].removeAt
               \/ cfg'[v].removeAt = Never
               \/ ScheduleRemoval(v) \/ (Tick /\ cfg[v].removeAt > 0)
<1>1. cfg[v] \in Configurations /\ ~Absent.exists
  BY DEF KnativeTypeOK, Absent
<1>2. ASSUME Tick, cfg'[v] = Aged(cfg[v])
      PROVE  /\ cfg[v].exists /\ cfg'[v].template = cfg[v].template /\ cfg'[v].id = cfg[v].id
             /\ cfg'[v].dying = cfg[v].dying /\ cfg'[v].rollout = cfg[v].rollout
             /\ cfg'[v].removeAt = cfg[v].removeAt \/ cfg[v].removeAt > 0
  BY <1>1, <1>2 DEF Aged, Configurations
<1>3. ASSUME \E r \in Rollouts : cfg'[v] = [cfg[v] EXCEPT !.rollout = r]
      PROVE  /\ cfg[v].exists /\ cfg'[v].template = cfg[v].template /\ cfg'[v].id = cfg[v].id
             /\ cfg'[v].dying = cfg[v].dying /\ cfg'[v].removeAt = cfg[v].removeAt
  BY <1>1, <1>3 DEF Configurations
<1>4. ASSUME cfg'[v] = [cfg[v] EXCEPT !.dying = TRUE]
      PROVE  /\ cfg'[v].template = cfg[v].template /\ cfg'[v].id = cfg[v].id /\ cfg'[v].dying
             /\ cfg'[v].rollout = cfg[v].rollout /\ cfg'[v].removeAt = cfg[v].removeAt
  BY <1>1, <1>4 DEF Configurations
<1>5. ASSUME NEW time, cfg'[v] = [cfg[v] EXCEPT !.removeAt = time]
      PROVE  /\ cfg'[v].template = cfg[v].template /\ cfg'[v].id = cfg[v].id
             /\ cfg'[v].dying = cfg[v].dying /\ cfg'[v].rollout = cfg[v].rollout
             /\ cfg'[v].removeAt = time
  BY <1>1, <1>5 DEF Configurations
<1>6. ASSUME cfg'[v] = [cfg[v] EXCEPT !.route = TRUE]
      PROVE  /\ cfg'[v].template = cfg[v].template /\ cfg'[v].id = cfg[v].id
             /\ cfg'[v].dying = cfg[v].dying /\ cfg'[v].rollout = cfg[v].rollout
             /\ cfg'[v].removeAt = cfg[v].removeAt
  BY <1>1, <1>6 DEF Configurations
<1>7. ASSUME cfg'[v] = [cfg[v] EXCEPT !.id = op.id]
      PROVE  /\ cfg'[v].template = cfg[v].template /\ cfg'[v].id = op.id
             /\ cfg'[v].dying = cfg[v].dying /\ cfg'[v].rollout = cfg[v].rollout
             /\ cfg'[v].removeAt = cfg[v].removeAt
  BY <1>1, <1>7 DEF Configurations
<1>. QED
  BY ZenonT(60), <1>1, <1>2, <1>3, <1>4, <1>5, <1>6, <1>7, ConfigMoves

-----------------------------------------------------------------------------
(* How the object and a pass move.                                         *)

LEMMA PassCases ==
  ASSUME KnativeTypeOK, [Next]_all
  PROVE  \/ UNCHANGED <<op, sweep, usage>>
         \/ op' = Idle /\ usage' = NoUsage /\ sweep' = NoSweep
         \/ PassBegins /\ Running /\ UNCHANGED process
         \/ PassGoesOn /\ UNCHANGED process
         \/ Walks /\ UNCHANGED process
<1>1. CASE Between
  BY <1>1 DEF Between, pass
<1>2. CASE Stop
  BY <1>2 DEF Stop, ForgetPass
<1>3. CASE PassEnds
  BY <1>3, EndsFacts
<1>4. CASE World \/ Watches
  BY <1>4, AroundFacts DEF pass
<1>. QED
  BY <1>1, <1>2, <1>3, <1>4, StepCases DEF ByItself, PassBegins, all, knative, pass

LEMMA ObjectMoves ==
  ASSUME KnativeTypeOK, [Next]_all
  PROVE  /\ \/ spec' = spec
            \/ /\ EditSpec /\ spec'.gen = spec.gen + 1 /\ phase = "live"
               /\ UNCHANGED <<restate, phase, collisions, cfg, cache, op, usage, sweep, readyFor>>
         /\ \/ phase' = phase
            \/ DeleteObject /\ phase = "live" /\ phase' = "deleting" /\ readyFor' = NotReady
            \/ ReleaseFinalizer /\ phase' = "gone" /\ op' = Idle
         /\ \/ readyFor' = NotReady
            \/ readyFor' = readyFor
            \/ FinishPass /\ readyFor' = op.self.gen /\ op' = Idle /\ cfg' = cfg
               /\ UNCHANGED <<restate, spec>>
         /\ \/ collisions' = collisions
            \/ At("idle") /\ op' = op /\ readyFor' = NotReady
<1>. USE DEF object
<1>1. CASE Between \/ Stop \/ UNCHANGED all
  BY <1>1 DEF Between, Stop, all, knative
<1>2. CASE PassBegins
  BY <1>2, BeginsFacts
<1>3. CASE PassGoesOn \/ Walks
  BY <1>3, GoesOnFacts, WalksFacts
<1>4. CASE PassEnds
  BY <1>4, EndsFacts DEF ReleaseFinalizer, IsDeleting
<1>5. CASE World \/ Watches
  <2>1. EditSpec => phase = "live"
    BY DEF EditSpec
  <2>. QED
    BY <1>5, <2>1, AroundFacts DEF pass
<1>. QED
  BY <1>1, <1>2, <1>3, <1>4, <1>5, StepCases DEF ByItself

LEMMA PassFitsStep ==
  ASSUME OperatorTypeOK, Undisturbing, PassFits, [Next]_all
  PROVE  PassFits'
<1>0. ProcessTypeOK /\ KnativeTypeOK
  BY DEF OperatorTypeOK
<1>1. CASE op' = Idle
  BY <1>1 DEF PassFits, At, Idle, RollsOut, IsDeleting
<1>2. CASE PassBegins /\ Running /\ UNCHANGED process
  <2>1. Running'
    BY <1>2 DEF Running, process, startup
  <2>2. CASE op' = op
    BY <1>0, <1>2, <2>1, <2>2, BeginsFacts DEF PassFits, At, RollsOut, Idle, IsDeleting, NoObject
  <2>3. CASE ApplyConfiguration(sawKnative) /\ op' # op
    <3>1. phase = "live" /\ phase' = phase /\ op'.mode = "Rollout" /\ op'.self = spec
          /\ op'.tag = DetermineTag(spec) /\ op'.pc \in {"route", "unschedule"}
          /\ collisions' = collisions
      BY <2>3 DEF ApplyConfiguration, Idle, object
    <3>. QED
      BY <2>1, <3>1 DEF PassFits, At, RollsOut, IsDeleting, NoObject, DetermineTag
  <2>4. CASE StartCleanup(sawKnative) /\ op' # op
    <3>1. phase = "deleting" /\ phase' = phase /\ IsDeleting(op'.mode) /\ op'.pc = "drainQuery"
          /\ op'.tag = NoVersion
      BY <2>4 DEF StartCleanup, Idle, object, ModeFor, IsDeleting
    <3>. QED
      BY <2>1, <3>1 DEF PassFits, At, RollsOut, IsDeleting, NoObject, Walking
  <2>. QED
    BY <1>2, <2>2, <2>3, <2>4, BeginsFacts
<1>3. CASE (PassGoesOn \/ Walks) /\ UNCHANGED process
  <2>1. Running'
    BY <1>0, <1>3, GoesOnFacts, WalksFacts DEF PassFits, At, Walking, Running, process, startup
  <2>2. UNCHANGED object /\ op'.self = op.self /\ op'.tag = op.tag /\ op'.mode = op.mode
        /\ ~At("idle") /\ op'.pc # "drainQuery"
        /\ (op.pc \in {"drainQuery"} \cup Walking => op'.pc \in Walking)
    BY <1>0, <1>3, GoesOnFacts, WalksFacts DEF At, Walking
  <2>. QED
    BY <2>1, <2>2 DEF PassFits, At, RollsOut, IsDeleting, NoObject, DetermineTag, object
<1>4. CASE UNCHANGED op
  <2>1. ~At("idle") => Running'
    <3>1. CASE Stop
      BY <1>4, <3>1 DEF Stop, ForgetPass, Idle, At
    <3>2. ~At("idle") => heard = {} /\ pos["RestateDeployment"] = "running"
      BY DEF Undisturbing, PassFits, Running
    <3>. QED
      BY <1>0, <3>1, <3>2, DeploymentMoves DEF Running, ProbeKnative
  <2>2. phase' # phase => phase = "live" \/ op' = Idle
    BY <1>0, ObjectMoves
  <2>3. ~At("idle") => collisions' = collisions
    BY <1>0, ObjectMoves
  <2>4. phase' = "gone" => At("idle")
    BY <1>0, <1>1, <1>4, ObjectMoves DEF PassFits, At, Idle
  <2>5. NoObject' <=> NoObject
    BY <1>0, ObjectStays
  <2>6. IsDeleting(op.mode) => phase' = "deleting"
    BY <1>0, <1>4, <2>2, ObjectMoves DEF PassFits, Idle, IsDeleting
  <2>. QED
    BY <1>4, <2>1, <2>3, <2>4, <2>5, <2>6 DEF PassFits, At, RollsOut, IsDeleting, DetermineTag
<1>. QED
  BY <1>0, <1>1, <1>2, <1>3, <1>4, PassCases

LEMMA GenerationsStep ==
  ASSUME OperatorTypeOK, GenerationsGrow, [Next]_all
  PROVE  GenerationsGrow'
<1>0. KnativeTypeOK
  BY DEF OperatorTypeOK
<1>1. spec.gen \in Nat /\ spec'.gen \in Nat /\ op.self.gen \in Nat /\ readyFor \in Int
      /\ MaxGenerations \in Nat
  <2>1. KnativeTypeOK'
    BY TypeStep DEF OperatorTypeOK
  <2>. QED
    BY <1>0, <2>1, SpecFacts, KnativeAssumption DEF KnativeTypeOK, KnativeAssumption, NotReady
<1>2. readyFor' <= spec'.gen
  <2>1. CASE readyFor' = NotReady
    BY <1>1, <2>1 DEF NotReady
  <2>2. CASE readyFor' = readyFor
    BY <1>0, <1>1, <2>2, ObjectMoves DEF GenerationsGrow
  <2>3. CASE FinishPass /\ readyFor' = op.self.gen /\ spec' = spec
    BY <1>1, <2>3 DEF GenerationsGrow, FinishPass, At
  <2>. QED
    BY <1>0, <2>1, <2>2, <2>3, ObjectMoves
<1>3. ASSUME op' # Idle, ~At("idle")'
      PROVE  readyFor' <= op'.self.gen /\ op'.self.gen <= spec'.gen
             /\ (op'.self.gen = spec'.gen => op'.self = spec')
  <2>1. CASE op' = op \/ PassGoesOn \/ Walks
    <3>1. op'.self = op.self /\ ~At("idle")
      BY <1>0, <1>3, <2>1, GoesOnFacts, WalksFacts DEF At, Walking
    <3>2. readyFor' \in {NotReady, readyFor}
      BY <1>0, <1>3, ObjectMoves
    <3>3. spec' = spec \/ spec'.gen = spec.gen + 1
      BY <1>0, ObjectMoves
    <3>. QED
      BY <1>1, <3>1, <3>2, <3>3 DEF GenerationsGrow, NotReady
  <2>2. CASE PassBegins /\ op' # op
    <3>1. op'.self = spec /\ UNCHANGED <<spec, readyFor>>
      BY <2>2, BeginsFacts
    <3>. QED
      BY <1>1, <3>1 DEF GenerationsGrow
  <2>. QED
    BY <1>0, <1>3, <2>1, <2>2, PassCases
<1>4. op' = Idle => At("idle")'
  BY DEF At, Idle
<1>. QED
  BY <1>2, <1>3, <1>4 DEF GenerationsGrow

-----------------------------------------------------------------------------
(* Walks, the cache and ids.                                               *)

LEMMA WalkMoves ==
  ASSUME KnativeTypeOK, Walks
  PROVE  \/ /\ At("item") /\ op' = op
            /\ \E v \in sweep.todo :
                 /\ \/ KeepActive(v) \/ ScheduleRemoval(v) \/ AwaitRemoval(v) \/ Retain(v)
                    \/ DeleteUnknown(v)
                 /\ sweep'.todo = sweep.todo \ {v}
                 /\ sweep'.view = [sweep.view EXCEPT ![v] = Absent]
                 /\ sweep'.held = (sweep.held \/ KeepActive(v) \/ ScheduleRemoval(v) \/ AwaitRemoval(v))
         \/ /\ At("item") /\ op'.pc = "delete"
            /\ \E v \in sweep.todo :
                 /\ Deregister(v) /\ sweep'.todo = sweep.todo \ {v} /\ sweep'.at = v
                 /\ sweep'.view = [sweep.view EXCEPT ![v] = Absent] /\ sweep'.held = sweep.held
         \/ /\ At("delete") /\ op'.pc = "item" /\ DeleteDeregistered
            /\ UNCHANGED <<sweep.todo, sweep.view, sweep.held>>
<1>. USE DEF KnativeTypeOK
<1>1. ASSUME NEW v \in Versions, KeepActive(v) \/ ScheduleRemoval(v) \/ AwaitRemoval(v)
      PROVE  /\ At("item") /\ op' = op /\ v \in sweep.todo
             /\ sweep'.todo = sweep.todo \ {v}
             /\ sweep'.view = [sweep.view EXCEPT ![v] = Absent]
             /\ sweep'.held
  BY <1>1 DEF KeepActive, ScheduleRemoval, AwaitRemoval, Drained, IsNext, Held, Visited
<1>2. ASSUME NEW v \in Versions, Retain(v) \/ DeleteUnknown(v)
      PROVE  /\ At("item") /\ op' = op /\ v \in sweep.todo
             /\ sweep'.todo = sweep.todo \ {v}
             /\ sweep'.view = [sweep.view EXCEPT ![v] = Absent]
             /\ sweep'.held = sweep.held
             /\ ~KeepActive(v) /\ ~ScheduleRemoval(v) /\ ~AwaitRemoval(v)
  <2>1. ~Active(v) /\ (Due(v) \/ ~KnownToRestate(v))
    BY <1>2 DEF Retain, DeleteUnknown, Expires, Removable
  <2>2. ~KeepActive(v) /\ ~ScheduleRemoval(v) /\ ~AwaitRemoval(v)
    BY <2>1 DEF KeepActive, ScheduleRemoval, AwaitRemoval, Drained
  <2>. QED
    BY <1>2, <2>2 DEF Retain, DeleteUnknown, Expires, Removable, IsNext, Visited
<1>3. ASSUME NEW v \in Versions, Deregister(v)
      PROVE  /\ At("item") /\ op'.pc = "delete" /\ v \in sweep.todo
             /\ sweep'.todo = sweep.todo \ {v} /\ sweep'.at = v
             /\ sweep'.view = [sweep.view EXCEPT ![v] = Absent] /\ sweep'.held = sweep.held
  BY <1>3 DEF Deregister, Expires, Removable, IsNext, Visited, Goto
<1>4. CASE DeleteDeregistered
  BY <1>4 DEF DeleteDeregistered, Goto
<1>. QED
  BY <1>1, <1>2, <1>3, <1>4 DEF Walks

LEMMA WalkBegins ==
  ASSUME KnativeTypeOK, PassGoesOn
  PROVE  \/ sweep' = sweep /\ op'.pc \notin Walking
         \/ sweep' = Walk(op.tag) /\ op'.pc = "item" /\ usage' = UsageAnswer("Rollout") /\ QueryUsage
            /\ PlannedAction = "AlreadyLatest"
         \/ sweep' = Walk(op.tag) /\ op'.pc = "item" /\ UNCHANGED usage /\ ConfirmLatest
         \/ sweep' = Walk(NoVersion) /\ op'.pc = "item" /\ usage' = UsageAnswer(op.mode)
            /\ QueryForCleanup
<1>. USE DEF KnativeTypeOK, Walking, Goto
<1>1. CASE UnscheduleAdopted \/ ApplyRoute(sawKnative) \/ RecordId
  BY <1>1 DEF UnscheduleAdopted, ApplyRoute, RecordId
<1>2. CASE QueryUsage
  BY <1>2 DEF QueryUsage
<1>3. CASE Register
  BY <1>3, RegisterFacts
<1>4. CASE ConfirmLatest \/ QueryForCleanup
  BY <1>4 DEF ConfirmLatest, QueryForCleanup
<1>. QED
  BY <1>1, <1>2, <1>3, <1>4 DEF PassGoesOn

LEMMA ViewMoves ==
  ASSUME KnativeTypeOK, [Next]_all, NEW v \in Versions
  PROVE  sweep'.view[v] \in {sweep.view[v], cache[v], Absent}
<1>1. CASE PassGoesOn
  BY <1>1, WalkBegins, WalkType DEF KnativeTypeOK
<1>2. CASE Walks
  BY <1>2, WalkMoves DEF KnativeTypeOK
<1>3. NoSweep.view[v] = Absent
  BY DEF NoSweep
<1>. QED
  BY <1>1, <1>2, <1>3, PassCases, BeginsFacts

LEMMA CacheMoves ==
  ASSUME KnativeTypeOK, [Next]_all
  PROVE  \/ cache' = cache
         \/ cache' = Records(cfg) /\ cfg' = cfg /\ (Between \/ Watches)
         \/ cache' = [v \in Versions |-> Absent] /\ (Between \/ Stop)
         \/ Tick /\ cache' = [v \in Versions |-> Aged(cache[v])]
<1>1. CASE Between \/ Stop
  BY <1>1 DEF Between, Stop, Stores, ForgetCache
<1>2. CASE PassBegins \/ PassGoesOn \/ Walks \/ PassEnds
  BY <1>2, BeginsFacts, GoesOnFacts, WalksFacts, EndsFacts
<1>3. CASE World \/ Watches
  BY <1>3, AroundFacts DEF Tick
<1>. QED
  BY <1>1, <1>2, <1>3, StepCases DEF ByItself, all, knative

LEMMA AgedFields ==
  ASSUME NEW c \in Configurations
  PROVE  /\ Aged(c).exists = c.exists /\ Aged(c).id = c.id /\ Aged(c).dying = c.dying
         /\ Aged(c).template = c.template /\ Aged(c).created = c.created
         /\ Aged(c).rollout = c.rollout /\ Aged(c).route = c.route
BY DEF Aged, Configurations

LEMMA RecordsFields ==
  ASSUME NEW c \in [Versions -> Configurations], NEW v \in Versions
  PROVE  /\ Records(c)[v].exists = c[v].exists /\ Records(c)[v].id = c[v].id
         /\ Records(c)[v].dying = c[v].dying /\ Records(c)[v].template = c[v].template
         /\ Records(c)[v].removeAt = c[v].removeAt /\ Records(c)[v].created = c[v].created
BY DEF Records, Configurations

LEMMA IdsStep ==
  ASSUME OperatorTypeOK, IdsBelong, [Next]_all
  PROVE  IdsBelong'
<1>0. KnativeTypeOK
  BY DEF OperatorTypeOK
<1>1. ASSUME NEW v \in Versions PROVE cfg'[v].id \in IdsOf(v) \cup {NoId}
  <2>1. cfg[v].id \in IdsOf(v) \cup {NoId} /\ cfg[v] \in Configurations /\ Absent.id = NoId
    BY <1>0 DEF IdsBelong, KnativeTypeOK, Absent
  <2>2. Applied(v).id \in {cfg[v].id, NoId}
    BY <2>1 DEF Applied, Absent, Configurations
  <2>3. RecordId /\ v = op.tag => op.id \in IdsOf(v) \cup {NoId}
    BY DEF IdsBelong
  <2>4. Aged(cfg[v]).id = cfg[v].id
    BY <2>1, AgedFields
  <2>5. /\ [cfg[v] EXCEPT !.dying = TRUE].id = cfg[v].id
        /\ [cfg[v] EXCEPT !.removeAt = Never].id = cfg[v].id
        /\ [cfg[v] EXCEPT !.removeAt = DrainDelay].id = cfg[v].id
        /\ [cfg[v] EXCEPT !.route = TRUE].id = cfg[v].id
        /\ \A r \in Rollouts : [cfg[v] EXCEPT !.rollout = r].id = cfg[v].id
        /\ [cfg[v] EXCEPT !.id = op.id].id = op.id
    BY <2>1 DEF Configurations
  <2>. QED
    BY ZenonT(60), <1>0, <2>1, <2>2, <2>3, <2>4, <2>5, ConfigMoves
<1>2. ASSUME NEW v \in Versions PROVE cache'[v].id \in IdsOf(v) \cup {NoId}
  <2>1. cfg[v].id \in IdsOf(v) \cup {NoId} /\ cache[v].id \in IdsOf(v) \cup {NoId}
        /\ cache[v] \in Configurations /\ cfg \in [Versions -> Configurations] /\ Absent.id = NoId
    BY <1>0 DEF IdsBelong, KnativeTypeOK, Absent
  <2>. QED
    BY <1>0, <2>1, AgedFields, RecordsFields, CacheMoves
<1>3. ASSUME NEW v \in Versions PROVE sweep'.view[v].id \in IdsOf(v) \cup {NoId}
  BY <1>0, ViewMoves DEF IdsBelong, Absent
<1>4. op'.id \in IdsOf(op'.tag) \cup {NoId}
  <2>1. CASE op' \in {op, Idle}
    BY <2>1 DEF IdsBelong, Idle
  <2>2. CASE PassBegins /\ op' # op
    <3>1. op'.id = NoId \/ (op'.tag \in Versions /\ op'.id = cfg'[op'.tag].id)
      <4>1. ASSUME ApplyConfiguration(sawKnative) PROVE op'.tag \in Versions
        BY <1>0, <4>1, SpecFacts DEF ApplyConfiguration, Idle, DetermineTag, KnativeTypeOK
      <4>. QED
        BY <1>0, <2>2, <4>1, BeginsFacts DEF KnativeTypeOK
    <3>. QED
      BY <1>1, <3>1
  <2>3. CASE PassGoesOn \/ Walks
    BY <1>0, <2>3, GoesOnFacts, WalksFacts, RegisterFacts DEF IdsBelong
  <2>. QED
    BY <1>0, <2>1, <2>2, <2>3, PassCases
<1>. QED
  BY <1>1, <1>2, <1>3, <1>4 DEF IdsBelong

LEMMA WalksOthersStep ==
  ASSUME OperatorTypeOK, PassFits, WalksOthers, [Next]_all
  PROVE  WalksOthers'
<1>0. KnativeTypeOK /\ NoVersion \notin Versions
  BY KnativeAssumption DEF OperatorTypeOK, KnativeAssumption
<1>1. CASE UNCHANGED <<op, sweep>> \/ op'.pc \notin Walking
  BY <1>1 DEF WalksOthers, At, Walking
<1>2. CASE PassGoesOn
  <2>1. op'.pc = "item" => sweep' = Walk(op'.tag)
    <3>1. At("drainQuery") => op.tag = NoVersion
      BY DEF PassFits, RollsOut, IsDeleting, At
    <3>2. QueryForCleanup => At("drainQuery")
      BY DEF QueryForCleanup
    <3>. QED
      BY <1>0, <1>2, <3>1, <3>2, WalkBegins, GoesOnFacts DEF Walking
  <2>2. op'.tag \notin Walk(op'.tag).todo
    BY <1>0, WalkType
  <2>3. op'.pc # "delete"
    BY <1>0, <1>2, GoesOnFacts
  <2>. QED
    BY <2>1, <2>2, <2>3 DEF WalksOthers, Walking, At
<1>3. CASE Walks
  <2>1. op.tag \notin sweep.todo /\ op'.tag = op.tag /\ sweep.todo \subseteq Versions
    BY <1>0, <1>3, WalksFacts DEF WalksOthers, KnativeTypeOK
  <2>. QED
    BY <1>0, <1>3, <2>1, WalkMoves DEF WalksOthers, At, Walking
<1>4. op' = Idle => op'.pc \notin Walking
  BY DEF Idle, Walking
<1>5. PassBegins => op'.pc \notin Walking
  BY BeginsFacts DEF Walking, At
<1>. QED
  BY <1>0, <1>1, <1>2, <1>3, <1>4, <1>5, PassCases

LEMMA AdoptedStep ==
  ASSUME OperatorTypeOK, PassFits, WalksOthers, Adopted, [Next]_all
  PROVE  Adopted'
<1>0. KnativeTypeOK
  BY DEF OperatorTypeOK
<1>. SUFFICES ASSUME RollsOut', cfg'[op'.tag].exists
              PROVE  /\ cfg'[op'.tag].template = op'.self.template
                     /\ op'.pc \in {"query", "register"} => cfg'[op'.tag].rollout = "routed"
  BY DEF Adopted
<1>1. CASE PassBegins /\ op' # op
  <2>1. /\ op'.tag \in Versions /\ op'.self = spec /\ op'.pc \notin {"query", "register"}
        /\ cfg'[op'.tag] = Applied(op'.tag)
    <3>1. ~StartCleanup(sawKnative)
      BY <1>1 DEF RollsOut, StartCleanup, ModeFor, IsDeleting, Idle
    <3>2. DetermineTag(spec) \in Versions
      BY <1>0, SpecFacts DEF DetermineTag, KnativeTypeOK
    <3>. QED
      BY <1>0, <1>1, <3>1, <3>2, BeginsFacts DEF KnativeTypeOK
  <2>2. Applied(op'.tag).template = spec.template
    BY <1>0, <2>1 DEF Applied, KnativeTypeOK, Configurations, Absent
  <2>. QED
    BY <2>1, <2>2
<1>2. CASE ~(PassBegins /\ op' # op)
  <2>1. op'.tag = op.tag /\ op'.self = op.self /\ RollsOut
    BY <1>0, <1>2, PassCases, GoesOnFacts, WalksFacts DEF RollsOut, At, Idle, Walking
  <2>2. op.tag \in Versions
    BY <1>0, <2>1, SpecFacts DEF PassFits, DetermineTag, KnativeTypeOK
  <2>3. ~(PassBegins /\ ApplyConfiguration(sawKnative))
    <3>1. op' # op => ~PassBegins
      BY <1>2
    <3>2. PassBegins => At("idle")
      BY BeginsFacts
    <3>. QED
      BY <2>1, <3>2 DEF RollsOut
  <2>4. /\ cfg[op.tag].exists
        /\ cfg'[op.tag].template = cfg[op.tag].template
        /\ cfg[op.tag].rollout = "routed" => cfg'[op.tag].rollout = "routed"
    BY <1>0, <2>1, <2>2, <2>3, ConfigFields
  <2>5. ASSUME op'.pc \in {"query", "register"} PROVE cfg[op.tag].rollout = "routed"
    <3>1. CASE ApplyRoute(sawKnative)
      BY <3>1 DEF ApplyRoute, NotReadyReason
    <3>2. CASE op' = op
      BY <2>1, <2>4, <2>5, <3>2 DEF Adopted
    <3>3. CASE PassGoesOn /\ ~ApplyRoute(sawKnative)
      <4>1. op.pc \in {"query", "register"}
        BY <1>0, <2>5, <3>3, GoesOnFacts DEF At
      <4>. QED
        BY <2>1, <2>4, <4>1 DEF Adopted
    <3>. QED
      BY <1>0, <1>2, <2>1, <2>5, <3>1, <3>2, <3>3, PassCases, WalksFacts DEF Walking, Idle
  <2>. QED
    BY <2>1, <2>4, <2>5 DEF Adopted
<1>. QED
  BY <1>1, <1>2

-----------------------------------------------------------------------------
(* Deadlines and work.                                                     *)

LEMMA GenerationTypes ==
  ASSUME KnativeTypeOK
  PROVE  spec.gen \in Nat /\ op.self.gen \in Nat /\ readyFor \in Int
BY SpecFacts, KnativeAssumption DEF KnativeTypeOK, KnativeAssumption, NotReady

LEMMA ReadyMoves ==
  ASSUME OperatorTypeOK, PassFits, GenerationsGrow, [Next]_all, readyFor' = spec'.gen
  PROVE  \/ readyFor = spec.gen /\ Tag' = Tag /\ spec' = spec
         \/ /\ FinishPass /\ RollsOut /\ op.pc \in Walking /\ Tag' = op.tag
            /\ op' = Idle /\ cfg' = cfg /\ UNCHANGED restate
<1>0. KnativeTypeOK
  BY DEF OperatorTypeOK
<1>1. spec.gen \in Nat /\ spec'.gen \in Nat /\ readyFor \in Int
  <2>1. KnativeTypeOK'
    BY TypeStep DEF OperatorTypeOK
  <2>. QED
    BY <1>0, <2>1, SpecFacts, KnativeAssumption DEF KnativeTypeOK, KnativeAssumption, NotReady
<1>2. readyFor' # NotReady
  BY <1>1 DEF NotReady
<1>3. collisions' = collisions
  BY <1>0, <1>2, ObjectMoves
<1>4. CASE readyFor' = readyFor
  <2>1. spec' = spec
    BY <1>0, <1>1, <1>4, ObjectMoves DEF GenerationsGrow
  <2>. QED
    BY <1>3, <1>4, <2>1 DEF Tag, DetermineTag
<1>5. CASE FinishPass /\ readyFor' = op.self.gen /\ op' = Idle /\ cfg' = cfg /\ UNCHANGED <<restate, spec>>
  <2>1. RollsOut /\ op.pc \in Walking
    BY <1>5 DEF FinishPass, RollsOut, At, Walking
  <2>2. op.self = spec
    BY <1>5, <2>1 DEF GenerationsGrow, RollsOut
  <2>3. Tag' = op.tag
    BY <1>3, <1>5, <2>1, <2>2 DEF Tag, DetermineTag, PassFits
  <2>. QED
    BY <1>5, <2>1, <2>3
<1>. QED
  BY <1>0, <1>2, <1>4, <1>5, ObjectMoves

LEMMA DeadlineStays ==
  ASSUME KnativeTypeOK, [Next]_all, NEW v \in Versions, cfg[v].removeAt = Never, ~ScheduleRemoval(v)
  PROVE  cfg'[v].removeAt = Never
<1>1. cfg[v] \in Configurations /\ Absent.removeAt = Never
  BY DEF KnativeTypeOK, Absent
<1>2. Applied(v).removeAt = Never
  BY <1>1 DEF Applied, Absent, Configurations
<1>3. Aged(cfg[v]).removeAt = Never
  BY <1>1 DEF Aged, Configurations, Never
<1>4. /\ [cfg[v] EXCEPT !.dying = TRUE].removeAt = Never
      /\ [cfg[v] EXCEPT !.removeAt = Never].removeAt = Never
      /\ [cfg[v] EXCEPT !.route = TRUE].removeAt = Never
      /\ \A r \in Rollouts : [cfg[v] EXCEPT !.rollout = r].removeAt = Never
      /\ [cfg[v] EXCEPT !.id = op.id].removeAt = Never
  BY <1>1 DEF Configurations
<1>. QED
  BY <1>1, <1>2, <1>3, <1>4, ConfigMoves

\* The tag a rollout is about is a version, from its first step to its last.
LEMMA RolloutTag ==
  ASSUME KnativeTypeOK, PassFits, RollsOut
  PROVE  op.tag \in Versions
BY SpecFacts DEF PassFits, DetermineTag, KnativeTypeOK

\* A rollout that is under way and goes on is about the same.
LEMMA SameRollout ==
  ASSUME KnativeTypeOK, PassFits, [Next]_all, RollsOut', ~(PassBegins /\ op' # op)
  PROVE  RollsOut /\ op'.tag = op.tag /\ op'.self = op.self /\ ~PassBegins
<1>1. op'.tag = op.tag /\ op'.self = op.self /\ RollsOut
  BY PassCases, GoesOnFacts, WalksFacts DEF RollsOut, At, Idle, Walking
<1>. QED
  BY <1>1, BeginsFacts DEF RollsOut

\* A rollout that begins.
LEMMA NewRollout ==
  ASSUME KnativeTypeOK, RollsOut', PassBegins, op' # op
  PROVE  /\ ApplyConfiguration(sawKnative)
         /\ op'.tag \in Versions /\ op'.self = spec /\ op'.tag = DetermineTag(spec)
         /\ op'.pc = (IF Applied(op'.tag).removeAt = Never THEN "route" ELSE "unschedule")
         /\ cfg'[op'.tag] = Applied(op'.tag) /\ op'.id = Applied(op'.tag).id
         /\ ~Collides(spec, op'.tag)
<1>1. ~StartCleanup(sawKnative)
  BY DEF RollsOut, StartCleanup, ModeFor, IsDeleting, Idle
<1>2. DetermineTag(spec) \in Versions
  BY SpecFacts DEF DetermineTag, KnativeTypeOK
<1>. QED
  BY <1>1, <1>2, BeginsFacts DEF KnativeTypeOK

LEMMA UnscheduledStep ==
  ASSUME OperatorTypeOK, PassFits, GenerationsGrow, WalksOthers, Unscheduled, [Next]_all
  PROVE  Unscheduled'
<1>0. KnativeTypeOK
  BY DEF OperatorTypeOK
<1>1. ASSUME RollsOut', ~At("unschedule")' PROVE cfg'[op'.tag].removeAt = Never
  <2>1. CASE PassBegins /\ op' # op
    BY <1>0, <1>1, <2>1, NewRollout DEF At
  <2>2. CASE ~(PassBegins /\ op' # op)
    <3>1. op'.tag = op.tag /\ op.tag \in Versions /\ RollsOut
      BY <1>0, <1>1, <2>2, SameRollout, RolloutTag
    <3>2. CASE At("unschedule")
      <4>1. UnscheduleAdopted
        BY <1>0, <1>1, <2>2, <3>1, <3>2, PassCases, GoesOnFacts, WalksFacts
        DEF At, Walking, RollsOut, Idle
      <4>. QED
        BY <1>0, <3>1, <4>1 DEF UnscheduleAdopted, KnativeTypeOK, Configurations
    <3>3. CASE ~At("unschedule")
      <4>1. cfg[op.tag].removeAt = Never
        BY <3>1, <3>3 DEF Unscheduled
      <4>2. ~ScheduleRemoval(op.tag)
        BY DEF ScheduleRemoval, Drained, IsNext, WalksOthers, Walking, At
      <4>. QED
        BY <1>0, <3>1, <4>1, <4>2, DeadlineStays
    <3>. QED
      BY <3>2, <3>3
  <2>. QED
    BY <2>1, <2>2
<1>2. ASSUME phase' = "live", readyFor' = spec'.gen PROVE cfg'[Tag'].removeAt = Never
  <2>1. phase = "live"
    BY <1>0, <1>2, ObjectMoves
  <2>2. CASE readyFor = spec.gen /\ Tag' = Tag
    <3>1. cfg[Tag].removeAt = Never /\ Tag \in Versions
      BY <1>0, <2>1, <2>2, SpecFacts DEF Unscheduled, Tag, DetermineTag, KnativeTypeOK
    <3>2. ASSUME ScheduleRemoval(Tag) PROVE FALSE
      <4>1. At("item") /\ Tag \in sweep.todo
        BY <3>2 DEF ScheduleRemoval, Drained, IsNext
      <4>2. RollsOut
        BY <2>1, <4>1 DEF PassFits, RollsOut, At, IsDeleting
      <4>3. op.self.gen \in Nat /\ spec.gen \in Nat
        BY <1>0, GenerationTypes
      <4>4. op.self = spec
        BY <2>2, <4>2, <4>3 DEF GenerationsGrow, RollsOut
      <4>5. op.tag = Tag
        BY <4>2, <4>4 DEF PassFits, Tag
      <4>. QED
        BY <4>1, <4>5 DEF WalksOthers, Walking, At
    <3>. QED
      BY <1>0, <2>2, <3>1, <3>2, DeadlineStays
  <2>3. CASE FinishPass /\ RollsOut /\ op.pc \in Walking /\ Tag' = op.tag /\ cfg' = cfg
    BY <2>3 DEF Unscheduled, Walking, At
  <2>. QED
    BY <1>2, <2>2, <2>3, ReadyMoves
<1>. QED
  BY <1>1, <1>2 DEF Unscheduled

LEMMA NeededStays ==
  ASSUME KnativeTypeOK, [Next]_all, NEW id \in registered', Needed(id)'
  PROVE  (id \in registered /\ Needed(id)) \/ (Register /\ VersionOf(id) = op.tag)
<1>. USE DEF KnativeTypeOK, RestateTypeOK, Needed, LatestIds
<1>1. CASE UNCHANGED restate
  BY <1>1 DEF restate
<1>2. CASE Register
  <2>1. /\ registered' = registered \cup {op'.id} /\ VersionOf(op'.id) = op.tag /\ pinned' = pinned
        /\ \A s \in Services : route'[s] \in {op'.id, route[s]}
    BY <1>2, RegisterFacts DEF RegisterEndpoint, IdsOf
  <2>. QED
    BY <1>2, <2>1
<1>3. ASSUME NEW v \in Versions, Deregister(v) PROVE id \in registered /\ Needed(id)
  <2>1. DeleteDeployment(Seen(v).id)
    BY <1>3 DEF Deregister
  <2>2. id \in registered /\ id # Seen(v).id /\ id \in Ids
    BY <2>1 DEF DeleteDeployment
  <2>3. pinned'[id] = pinned[id]
    BY <2>1, <2>2 DEF DeleteDeployment
  <2>4. \A s \in Services : route'[s] = id => route[s] = id
    BY <2>1, <2>2, RestateAssumption DEF DeleteDeployment, RestateAssumption
  <2>. QED
    BY <2>2, <2>3, <2>4
<1>4. ASSUME NEW s \in Services, ForeignTakes(s) PROVE id \in registered /\ Needed(id)
  BY <1>4, RestateAssumption DEF RestateAssumption, ForeignTakes, ForeignRegister
<1>5. ASSUME NEW s \in Services, Invoked(s) PROVE id \in registered /\ Needed(id)
  BY <1>5 DEF Invoked, Start
<1>6. ASSUME NEW other \in Ids, Finish(other) PROVE id \in registered /\ Needed(id)
  BY <1>6 DEF Finish, Complete
<1>7. CASE PassGoesOn \/ Walks
  BY <1>1, <1>2, <1>3, <1>7, GoesOnFacts, WalksFacts
<1>8. CASE World \/ Watches
  <2>1. EditSpec \/ DeleteObject \/ Tick \/ Watches => UNCHANGED restate
    BY DEF EditSpec, DeleteObject, Tick, Watches, Sync
  <2>2. \A v \in Versions : RollOut(v) \/ Collect(v) => UNCHANGED restate
    BY DEF RollOut, Collect
  <2>. QED
    BY <1>1, <1>4, <1>5, <1>6, <1>8, <2>1, <2>2 DEF World
<1>9. CASE PassBegins \/ PassEnds
  BY <1>1, <1>9, BeginsFacts, EndsFacts
<1>10. CASE Between \/ Stop \/ UNCHANGED all
  BY <1>1, <1>10 DEF Between, Stop, all, knative
<1>. QED
  BY <1>7, <1>8, <1>9, <1>10, StepCases DEF ByItself

LEMMA AnswerStandsStep ==
  ASSUME OperatorTypeOK, PassFits, AnswerStands, [Next]_all
  PROVE  AnswerStands'
<1>0. KnativeTypeOK
  BY DEF OperatorTypeOK
<1>. SUFFICES ASSUME RollsOut', op'.pc \in Answered, NEW id \in registered', Needed(id)',
                     VersionOf(id) # op'.tag
              PROVE  id \in usage'.latest \cup usage'.busy
  BY DEF AnswerStands
<1>1. ~(PassBegins /\ op' # op)
  BY <1>0, NewRollout DEF Answered, Walking
<1>2. RollsOut /\ op'.tag = op.tag /\ ~PassBegins
  BY <1>0, <1>1, SameRollout
<1>3. id \in registered /\ Needed(id)
  BY <1>0, <1>2, NeededStays
<1>4. CASE QueryUsage
  BY <1>3, <1>4 DEF QueryUsage, UsageAnswer, Needed, NeedsUnpinnedCount
<1>5. CASE op.pc \in Answered /\ usage' = usage
  BY <1>2, <1>3, <1>5 DEF AnswerStands
<1>6. CASE UNCHANGED <<op, usage>>
  BY <1>5, <1>6
<1>7. CASE PassGoesOn /\ ~QueryUsage
  <2>1. op.pc # "drainQuery"
    BY <1>2 DEF PassFits, At
  <2>2. op.pc \in Answered
    BY <1>0, <1>7, <2>1, GoesOnFacts DEF Answered, Walking, At
  <2>3. usage' = usage
    BY <1>7, <2>1
    DEF PassGoesOn, UnscheduleAdopted, ApplyRoute, Register, RecordId, ConfirmLatest, QueryForCleanup, At
  <2>. QED
    BY <1>5, <2>2, <2>3
<1>8. CASE Walks
  BY <1>0, <1>5, <1>8, WalksFacts DEF Answered
<1>9. op' # Idle
  BY DEF Idle, Answered, Walking
<1>. QED
  BY <1>0, <1>2, <1>4, <1>6, <1>7, <1>8, <1>9, PassCases

-----------------------------------------------------------------------------
(* The invariant of the process and its passes.                            *)

LEMMA InitKept == Init => OperatorInvariant
<1>. SUFFICES ASSUME Init PROVE OperatorInvariant
  OBVIOUS
<1>1. OperatorTypeOK
  BY InitTypes
<1>2. ProcessKept
  <2>1. \A c \in Controllers : c \notin followed => FirstPosition(c) \notin {"groups", "crd"}
    BY DEF FirstPosition
  <2>2. FirstPosition("RestateDeployment") \in {"crd", "probing"} /\ "RestateDeployment" \in Controllers
    BY DEF FirstPosition, Controllers
  <2>3. GatesTell /\ ReporterRests /\ Undisturbing
    BY <2>1 DEF Init, ProcessInit, GatesTell, ReporterRests, Undisturbing, Waiting, FirstReport
  <2>4. CachedTags = {}
    BY DEF Init, KnativeInit, CachedTags, Absent
  <2>. QED
    BY <2>2, <2>3, <2>4 DEF ProcessKept, StoresMatch, Init, ProcessInit
<1>3. /\ op = Idle /\ sweep = NoSweep /\ cache = [v \in Versions |-> Absent] /\ collisions = 0
      /\ ~RollsOut /\ At("idle") /\ op.mode = "Rollout" /\ op.id = NoId
  BY DEF Init, KnativeInit, Idle, RollsOut, At
<1>4. PassFits
  <2>1. phase \in {"none", "live"}
    BY DEF Init, KnativeInit, NoObjectYet, RolledOut
  <2>. QED
    BY <1>3, <2>1 DEF PassFits, IsDeleting
<1>5. readyFor <= spec.gen /\ IdsBelong /\ Unscheduled
  <2>1. CASE NoObjectYet
    BY <1>3, <2>1
    DEF NoObjectYet, NotReady, NoSpec, IdsBelong, Unscheduled, Absent, NoSweep
  <2>2. ASSUME NEW now \in Choices, NEW before \in Choices, RolledOut(now, before)
        PROVE  readyFor <= spec.gen /\ IdsBelong /\ Unscheduled
    <3>1. KnativeTypeOK /\ readyFor = 0 /\ spec.gen = 0
      BY <1>1, <2>2 DEF OperatorTypeOK, RolledOut, AsSpec
    <3>2. ASSUME NEW v \in Versions PROVE cfg[v].removeAt = Never /\ cfg[v].id \in IdsOf(v) \cup {NoId}
      <4>1. <<v, 0>> \in IdsOf(v)
        BY KnativeAssumption DEF KnativeAssumption, IdsOf, Ids, VersionOf
      <4>2. /\ Absent.removeAt = Never /\ Absent.id = NoId
            /\ \A choice \in Choices :
                 LET at == [Absent EXCEPT !.exists = TRUE, !.template = choice.template,
                                          !.id = <<TagFor(choice, 0), 0>>,
                                          !.route = TRUE, !.rollout = "routed"]
                 IN  at.removeAt = Never /\ at.id = <<TagFor(choice, 0), 0>>
        BY DEF Absent
      <4>. QED
        BY <2>2, <4>1, <4>2 DEF RolledOut
    <3>3. Tag \in Versions
      BY <3>1, SpecFacts DEF Tag, DetermineTag, KnativeTypeOK
    <3>. QED
      BY <1>3, <3>1, <3>2, <3>3 DEF IdsBelong, Unscheduled, Absent, NoSweep
  <2>. QED
    BY <2>1, <2>2 DEF Init, KnativeInit
<1>. QED
  BY <1>1, <1>2, <1>3, <1>4, <1>5
  DEF OperatorInvariant, PassKept, GenerationsGrow, WalksOthers, Walking, Adopted, AnswerStands, At

LEMMA KeptStep ==
  ASSUME OperatorInvariant, [Next]_all
  PROVE  OperatorInvariant'
<1>. USE DEF OperatorInvariant, ProcessKept, PassKept
<1>1. OperatorTypeOK' /\ ProcessKept'
  BY TypeStep, GatesStep, ReporterStep, UndisturbingStep, StoresStep DEF OperatorTypeOK
<1>2. PassKept'
  BY PassFitsStep, GenerationsStep, IdsStep, WalksOthersStep, AdoptedStep, UnscheduledStep,
    AnswerStandsStep
<1>. QED
  BY <1>1, <1>2

\* The invariant of the process and its passes.
THEOREM OperatorKept == Spec => []OperatorInvariant
<1>1. Init => OperatorInvariant
  BY InitKept
<1>2. OperatorInvariant /\ [Next]_all => OperatorInvariant'
  BY KeptStep
<1>. QED
  BY <1>1, <1>2, PTL DEF Spec

\* A tag that is Ready has no deadline left from the time it was an old one
\* (ReadyTagUnscheduled, unschedule_removal).
THEOREM ReadyTagUnscheduledHolds == Spec => []ReadyTagUnscheduled
<1>1. OperatorInvariant => ReadyTagUnscheduled
  BY DEF OperatorInvariant, PassKept, Unscheduled, ReadyTagUnscheduled
<1>. QED
  BY <1>1, OperatorKept, PTL

\* Who moves a route, and where to.
LEMMA RouteMoves ==
  ASSUME KnativeTypeOK, [Next]_all, NEW s \in Services, route'[s] # route[s]
  PROVE  \/ Register /\ s \in Serves[op.tag] /\ route'[s] = op'.id
         \/ route'[s] = NoId /\ \E v \in Versions : Deregister(v) /\ route[s] = Seen(v).id
         \/ route'[s] = Foreign
<1>. USE DEF KnativeTypeOK, RestateTypeOK
<1>1. ~UNCHANGED route
  OBVIOUS
<1>2. CASE Register
  BY <1>2, RegisterFacts DEF RegisterEndpoint
<1>3. ASSUME NEW v \in Versions, Deregister(v) PROVE route'[s] = NoId /\ route[s] = Seen(v).id
  BY <1>3 DEF Deregister, DeleteDeployment
<1>4. ASSUME NEW t \in Services, ForeignTakes(t) PROVE route'[s] = Foreign
  BY <1>4 DEF ForeignTakes, ForeignRegister
<1>5. ASSUME World \/ Watches PROVE route'[s] = Foreign
  <2>1. EditSpec \/ DeleteObject \/ Tick \/ Watches => UNCHANGED route
    BY DEF EditSpec, DeleteObject, Tick, Watches, Sync, restate
  <2>2. \A v \in Versions : RollOut(v) \/ Collect(v) => UNCHANGED route
    BY DEF RollOut, Collect, restate
  <2>3. \A t \in Services : Invoked(t) => UNCHANGED route
    BY DEF Invoked, Start
  <2>4. \A id \in Ids : Finish(id) => UNCHANGED route
    BY DEF Finish, Complete
  <2>. QED
    BY <1>1, <1>4, <1>5, <2>1, <2>2, <2>3, <2>4 DEF World
<1>6. UNCHANGED restate => UNCHANGED route
  BY DEF restate
<1>7. ~Between /\ ~Stop /\ ~UNCHANGED all
  BY <1>1, <1>6 DEF Between, Stop, all, knative
<1>8. ~PassBegins /\ ~PassEnds
  BY <1>1, <1>6, BeginsFacts, EndsFacts
<1>9. CASE PassGoesOn
  BY <1>1, <1>2, <1>6, <1>9, GoesOnFacts
<1>10. CASE Walks
  BY <1>1, <1>3, <1>6, <1>10, WalksFacts
<1>. QED
  BY <1>5, <1>7, <1>8, <1>9, <1>10, StepCases DEF ByItself

LEMMA RoutesToServingStep ==
  ASSUME OperatorInvariant, [Next]_all, NEW s \in Services,
         route'[s] # route[s], route'[s] \in Ids, cfg[op.tag].exists
  PROVE  cfg[op.tag].rollout = "routed" /\ cfg[op.tag].template = op.self.template
<1>0. KnativeTypeOK /\ PassFits /\ Adopted
  BY DEF OperatorInvariant, OperatorTypeOK, PassKept
<1>1. Register
  BY <1>0, RouteMoves, RestateAssumption DEF RestateAssumption
<1>2. RollsOut /\ At("register")
  BY <1>0, <1>1, RegisterFacts DEF PassFits, RollsOut, IsDeleting, At, Walking
<1>. QED
  BY <1>0, <1>2 DEF Adopted, At

\* A new route leads to a tag whose Route serves what the pass is for
\* (RoutesToServing, check_route_ready).
THEOREM RoutesToServingHolds == Spec => RoutesToServing
<1>1. OperatorInvariant /\ [Next]_all
        => [\A s \in Services :
              route'[s] # route[s] /\ route'[s] \in Ids /\ cfg[op.tag].exists =>
                cfg[op.tag].rollout = "routed" /\ cfg[op.tag].template = op.self.template]_all
  BY RoutesToServingStep
<1>. QED
  BY <1>1, OperatorKept, PTL DEF Spec, RoutesToServing

LEMMA OneTemplateStep ==
  ASSUME OperatorInvariant, [Next]_all, LagBetweenPasses = FALSE, sawKnative,
         NEW v \in Versions \ UserTags, cfg[v].exists, cfg'[v].exists
  PROVE  cfg'[v].template = cfg[v].template
<1>0. KnativeTypeOK
  BY DEF OperatorInvariant, OperatorTypeOK
<1>1. CASE PassBegins /\ ApplyConfiguration(sawKnative) /\ v = op'.tag /\ cfg'[v] = Applied(v)
  <2>1. /\ CaughtUp /\ v = DetermineTag(spec) /\ ~Collides(spec, v)
    BY <1>1 DEF ApplyConfiguration, Begins, Idle
  <2>2. spec.tag = NoTag
    BY <1>0, <2>1, SpecFacts DEF DetermineTag, KnativeTypeOK
  <2>3. Records(cache)[v] = Records(cfg)[v]
    BY <2>1 DEF CaughtUp
  <2>4. cache[v].exists /\ cache[v].template = cfg[v].template
    BY <1>0, <2>3, RecordsFields DEF KnativeTypeOK
  <2>5. spec.template = cfg[v].template
    BY <2>1, <2>2, <2>4 DEF Collides
  <2>. QED
    BY <1>0, <1>1, <2>5 DEF Applied, KnativeTypeOK, Configurations
<1>. QED
  BY <1>0, <1>1, ConfigFields

\* A hash stands for one template, even when two hash alike, as long as passes begin
\* with a cache that has caught up (OneTemplatePerHash, the collision check).
THEOREM OneTemplateHolds ==
  ASSUME LagBetweenPasses = FALSE PROVE Spec => OneTemplatePerHash
<1>1. OperatorInvariant /\ [Next]_all
        => [sawKnative => \A v \in Versions \ UserTags :
              cfg[v].exists /\ cfg'[v].exists => cfg'[v].template = cfg[v].template]_all
  BY OneTemplateStep
<1>. QED
  BY <1>1, OperatorKept, PTL DEF Spec, OneTemplatePerHash

\* Who takes a registration away.
LEMMA RegisteredMoves ==
  ASSUME KnativeTypeOK, [Next]_all
  PROVE  \/ registered' = registered
         \/ Register /\ registered' = registered \cup {op'.id}
         \/ Walks /\ \E v \in Versions : Deregister(v) /\ registered' = registered \ {Seen(v).id}
<1>1. UNCHANGED restate => registered' = registered
  BY DEF restate
<1>2. Between \/ Stop \/ UNCHANGED all => registered' = registered
  BY <1>1 DEF Between, Stop, all, knative
<1>3. Register => registered' = registered \cup {op'.id}
  BY RegisterFacts DEF RegisterEndpoint
<1>4. \A v \in Versions : Deregister(v) => registered' = registered \ {Seen(v).id}
  BY DEF Deregister, DeleteDeployment
<1>. QED
  BY <1>1, <1>2, <1>3, <1>4, StepCases, BeginsFacts, GoesOnFacts, WalksFacts, EndsFacts, AroundFacts
  DEF ByItself

LEMMA SparesWorkStep ==
  ASSUME OperatorInvariant, [Next]_all, op.mode = "Rollout",
         NEW id \in registered \ registered'
  PROVE  ~Needed(id)
<1>0. KnativeTypeOK /\ IdsBelong /\ WalksOthers /\ AnswerStands
  BY DEF OperatorInvariant, OperatorTypeOK, PassKept
<1>1. PICK v \in Versions : Deregister(v) /\ id = Seen(v).id
  BY <1>0, RegisteredMoves
<1>2. At("item") /\ v \in sweep.todo /\ ~Active(v) /\ KnownToRestate(v)
  BY <1>1 DEF Deregister, Expires, Removable, IsNext
<1>3. RollsOut /\ op.pc \in Answered /\ v # op.tag
  BY <1>0, <1>2 DEF RollsOut, At, Answered, Walking, WalksOthers
<1>4. id \notin usage.latest \cup usage.busy
  BY <1>1, <1>2 DEF Active, IsActive
<1>5. VersionOf(id) = v
  <2>1. id \in Ids
    BY <1>0 DEF KnativeTypeOK, RestateTypeOK
  <2>. QED
    BY <1>0, <1>1, <2>1, RestateAssumption DEF IdsBelong, Seen, IdsOf, RestateAssumption
<1>. QED
  BY <1>0, <1>3, <1>4, <1>5 DEF AnswerStands

\* A rollout deregisters nothing that is needed (RolloutSparesWork,
\* cleanup_old_configurations).
THEOREM RolloutSparesWorkHolds == Spec => RolloutSparesWork
<1>1. OperatorInvariant /\ [Next]_all
        => [op.mode = "Rollout" /\ phase # "none" =>
              \A id \in registered \ registered' : ~Needed(id)]_all
  BY SparesWorkStep
<1>. QED
  BY <1>1, OperatorKept, PTL DEF Spec, RolloutSparesWork

-----------------------------------------------------------------------------
(* Routes, when versions that share a service share all of them.           *)

\* A registration that moves a route moves all of them.
LEMMA RegisterRoutes ==
  ASSUME KnativeTypeOK, Register
  PROVE  /\ op'.id \in Ids /\ VersionOf(op'.id) = op.tag
         /\ \/ route' = route
            \/ \A s \in Services : route'[s] = IF s \in Serves[op.tag] THEN op'.id ELSE route[s]
<1>1. op'.id \in Ids /\ VersionOf(op'.id) = op.tag
  BY RegisterFacts DEF IdsOf
<1>. QED
  BY <1>1, RegisterFacts DEF RegisterEndpoint, KnativeTypeOK, RestateTypeOK

LEMMA ServesType ==
  ASSUME NEW v \in Versions
  PROVE  Serves[v] \subseteq Services
BY RestateAssumption DEF RestateAssumption

LEMMA FitStep ==
  ASSUME OperatorTypeOK, RoutesFitEndpoints, [Next]_all
  PROVE  RoutesFitEndpoints'
<1>0. KnativeTypeOK /\ NoId \notin Ids /\ Foreign \notin Ids
  BY RestateAssumption DEF OperatorTypeOK, RestateAssumption
<1>. SUFFICES ASSUME NEW s \in Services, route'[s] \in Ids PROVE s \in Serves[VersionOf(route'[s])]
  BY DEF RoutesFitEndpoints
<1>1. CASE route'[s] = route[s]
  BY <1>1 DEF RoutesFitEndpoints
<1>2. CASE Register /\ s \in Serves[op.tag] /\ route'[s] = op'.id
  BY <1>0, <1>2, RegisterRoutes
<1>. QED
  BY <1>0, <1>1, <1>2, RouteMoves

LEMMA TogetherStep ==
  ASSUME SharedAlike, OperatorTypeOK, PassFits, RoutesTogether, [Next]_all
  PROVE  RoutesTogether'
<1>0. KnativeTypeOK /\ NoId \notin Ids /\ Foreign \notin Ids
  BY RestateAssumption DEF OperatorTypeOK, RestateAssumption
<1>. SUFFICES ASSUME NEW v \in Versions, NEW s \in Serves[v], NEW t \in Serves[v],
                     route'[s] \in Ids, route'[t] \in Ids
              PROVE  VersionOf(route'[s]) = VersionOf(route'[t])
  BY DEF RoutesTogether
<1>1. s \in Services /\ t \in Services
  BY ServesType
<1>2. CASE route'[s] = route[s] /\ route'[t] = route[t]
  BY <1>2 DEF RoutesTogether
<1>3. CASE Register
  <2>1. op.tag \in Versions
    BY <1>0, <1>3, RolloutTag, RegisterFacts DEF PassFits, RollsOut, IsDeleting, At, Walking
  <2>2. s \in Serves[op.tag] <=> t \in Serves[op.tag]
    BY <2>1 DEF SharedAlike
  <2>. QED
    BY <1>0, <1>1, <1>2, <1>3, <2>2, RegisterRoutes
<1>. QED
  BY <1>0, <1>1, <1>2, <1>3, RouteMoves

\* The same, after the step.
WillHaveItsServices(v) == \A s \in Serves[v] : route'[s] \in Ids => VersionOf(route'[s]) = v

LEMMA HasStays ==
  ASSUME KnativeTypeOK, [Next]_all, NEW v \in Versions, HasItsServices(v), Register => op.tag = v
  PROVE  WillHaveItsServices(v)
<1>. SUFFICES ASSUME NEW s \in Serves[v], route'[s] \in Ids PROVE VersionOf(route'[s]) = v
  BY DEF WillHaveItsServices
<1>1. s \in Services /\ NoId \notin Ids /\ Foreign \notin Ids
  BY ServesType, RestateAssumption DEF RestateAssumption
<1>2. route'[s] = route[s] => VersionOf(route'[s]) = v
  BY DEF HasItsServices
<1>. QED
  BY <1>1, <1>2, RouteMoves, RegisterRoutes

LEMMA RoutedStep ==
  ASSUME OperatorInvariant, RoutingKept, [Next]_all
  PROVE  Routed'
<1>0. /\ OperatorTypeOK /\ KnativeTypeOK /\ PassFits /\ GenerationsGrow /\ IdsBelong
      /\ RoutesFitEndpoints /\ RoutesTogether /\ Routed
  BY DEF OperatorInvariant, OperatorTypeOK, PassKept, RoutingKept
<1>1. ASSUME RollsOut', op'.pc \in Walking PROVE WillHaveItsServices(op'.tag)
  <2>1. ~(PassBegins /\ op' # op)
    BY <1>0, <1>1, NewRollout DEF Walking
  <2>2. RollsOut /\ op'.tag = op.tag /\ ~PassBegins /\ op.tag \in Versions
    BY <1>0, <1>1, <2>1, SameRollout, RolloutTag
  <2>3. ASSUME HasItsServices(op.tag) PROVE WillHaveItsServices(op'.tag)
    BY <1>0, <2>2, <2>3, HasStays
  <2>4. CASE op' = op \/ Walks
    BY <1>0, <1>1, <2>2, <2>3, <2>4, WalksFacts DEF Routed
  <2>5. CASE PassGoesOn
    <3>1. ~QueryForCleanup
      BY <2>2 DEF QueryForCleanup, PassFits, At, RollsOut, IsDeleting, Walking,
        OperatorInvariant, PassKept
    <3>2. CASE ConfirmLatest
      <4>1. \A s \in Serves[op.tag] : route[s] = op.id
        BY <3>2 DEF ConfirmLatest, Confirmed
      <4>2. op.id \in IdsOf(op.tag) \/ op.id \notin Ids
        BY <1>0, RestateAssumption DEF IdsBelong, RestateAssumption
      <4>3. HasItsServices(op.tag)
        BY <4>1, <4>2 DEF HasItsServices, IdsOf
      <4>. QED
        BY <2>3, <4>3
    <3>3. CASE QueryUsage /\ PlannedAction = "AlreadyLatest"
      <4>1. op.id \in registered /\ op.id \in LatestIds
        BY <3>3 DEF PlannedAction, PlanRegistration, UsageAnswer
      <4>2. op.id \in Ids /\ VersionOf(op.id) = op.tag
        BY <1>0, <4>1, RestateAssumption
        DEF KnativeTypeOK, RestateTypeOK, IdsBelong, IdsOf, RestateAssumption
      <4>3. PICK t \in Services : route[t] = op.id
        BY <4>1 DEF LatestIds
      <4>4. t \in Serves[op.tag]
        BY <1>0, <4>2, <4>3 DEF RoutesFitEndpoints
      <4>5. HasItsServices(op.tag)
        BY <1>0, <2>2, <4>2, <4>3, <4>4 DEF RoutesTogether, HasItsServices
      <4>. QED
        BY <2>3, <4>5
    <3>. QED
      BY <1>0, <1>1, <2>5, <3>1, <3>2, <3>3, WalkBegins
  <2>6. op' # Idle
    BY <1>1 DEF Idle, Walking
  <2>. QED
    BY <1>0, <2>2, <2>4, <2>5, <2>6, PassCases
<1>2. ASSUME readyFor' = spec'.gen PROVE WillHaveItsServices(Tag')
  <2>1. CASE readyFor = spec.gen /\ Tag' = Tag
    <3>1. HasItsServices(Tag) /\ Tag \in Versions
      BY <1>0, <2>1, SpecFacts DEF Routed, Tag, DetermineTag, KnativeTypeOK
    <3>2. ASSUME Register PROVE op.tag = Tag
      <4>1. RollsOut
        BY <1>0, <3>2, RegisterFacts DEF PassFits, RollsOut, IsDeleting, At, Walking
      <4>2. op.self.gen \in Nat /\ spec.gen \in Nat
        BY <1>0, GenerationTypes
      <4>3. op.self = spec
        BY <1>0, <2>1, <4>1, <4>2 DEF GenerationsGrow, RollsOut
      <4>. QED
        BY <1>0, <4>1, <4>3 DEF PassFits, Tag
    <3>. QED
      BY <1>0, <2>1, <3>1, <3>2, HasStays
  <2>2. CASE RollsOut /\ op.pc \in Walking /\ Tag' = op.tag /\ UNCHANGED restate
    BY <1>0, <2>2 DEF Routed, HasItsServices, WillHaveItsServices, restate
  <2>. QED
    BY <1>0, <1>2, <2>1, <2>2, ReadyMoves
<1>. QED
  BY <1>1, <1>2 DEF Routed, HasItsServices, WillHaveItsServices, Tag

LEMMA InitRouted ==
  ASSUME SharedAlike, Init
  PROVE  RoutingKept
<1>0. KnativeTypeOK /\ op = Idle /\ ~RollsOut /\ NoId \notin Ids
  BY InitTypes, RestateAssumption
  DEF OperatorTypeOK, Init, KnativeInit, RollsOut, At, Idle, RestateAssumption
<1>1. CASE NoObjectYet
  <2>1. \A v \in Versions : \A s \in Serves[v] : s \in Services
    BY ServesType
  <2>2. \A s \in Services : route[s] \notin Ids
    BY <1>0, <1>1 DEF NoObjectYet, RestateInit
  <2>3. Tag \in Versions
    BY <1>0, SpecFacts DEF Tag, DetermineTag, KnativeTypeOK
  <2>. QED
    BY <1>0, <2>1, <2>2, <2>3
    DEF RoutingKept, RoutesFitEndpoints, RoutesTogether, Routed, HasItsServices
<1>2. ASSUME NEW now \in Choices, NEW before \in Choices, RolledOut(now, before)
      PROVE  RoutingKept
  <2>. DEFINE new == TagFor(now, 0)
              old == TagFor(before, 0)
  <2>1. Tag = new /\ new \in Versions
    <3>1. Tag = new
      BY <1>2 DEF RolledOut, Init, KnativeInit, Tag, DetermineTag, AsSpec, TagFor
    <3>. QED
      BY <1>0, <3>1, SpecFacts DEF Tag, DetermineTag, KnativeTypeOK
  <2>2. old \in Versions
    <3>1. old = TagFor(AsSpec(before, 0), 0) /\ AsSpec(before, 0) \in Specs
      BY KnativeAssumption DEF KnativeAssumption, Specs, AsSpec, TagFor
    <3>. QED
      BY <3>1, SpecFacts, KnativeAssumption DEF KnativeAssumption
  <2>3. \A s \in Services : route[s] = IF s \in Serves[new] THEN <<new, 0>>
                                       ELSE IF s \in Serves[old] THEN <<old, 0>> ELSE NoId
    BY <1>2 DEF RolledOut
  <2>. HIDE DEF new, old
  <2>4. VersionOf(<<new, 0>>) = new /\ VersionOf(<<old, 0>>) = old
    BY DEF VersionOf
  <2>5. RoutesFitEndpoints
    BY <1>0, <2>3, <2>4 DEF RoutesFitEndpoints
  <2>6. RoutesTogether
    <3>. SUFFICES ASSUME NEW v \in Versions, NEW s \in Serves[v], NEW t \in Serves[v],
                         route[s] \in Ids, route[t] \in Ids
                  PROVE  VersionOf(route[s]) = VersionOf(route[t])
      BY DEF RoutesTogether
    <3>1. s \in Services /\ t \in Services
      BY ServesType
    <3>2. /\ s \in Serves[new] <=> t \in Serves[new]
          /\ s \in Serves[old] <=> t \in Serves[old]
      BY <2>1, <2>2 DEF SharedAlike
    <3>. QED
      BY <1>0, <2>3, <3>1, <3>2
  <2>7. Routed
    <3>1. \A s \in Serves[new] : route[s] = <<new, 0>>
      BY <2>1, <2>3, ServesType
    <3>. QED
      BY <1>0, <2>1, <2>4, <3>1 DEF Routed, HasItsServices
  <2>. QED
    BY <2>5, <2>6, <2>7 DEF RoutingKept
<1>. QED
  BY <1>1, <1>2 DEF Init, KnativeInit

\* Ready for the current spec means that every service of the tag that is ours is
\* routed to the tag (ReadyMeansRouted, confirm_latest), when versions that share a
\* service share all of them.
THEOREM KnativeReadyMeansRoutedHolds ==
  ASSUME SharedAlike PROVE Spec => []ReadyMeansRouted
<1>1. Init => RoutingKept
  BY InitRouted
<1>2. OperatorInvariant /\ RoutingKept /\ [Next]_all => RoutingKept'
  <2>1. OperatorInvariant => OperatorTypeOK /\ PassFits
    BY DEF OperatorInvariant, PassKept
  <2>. QED
    BY <2>1, FitStep, TogetherStep, RoutedStep DEF RoutingKept
<1>3. RoutingKept => ReadyMeansRouted
  BY DEF RoutingKept, Routed, HasItsServices, ReadyMeansRouted
<1>. QED
  BY <1>1, <1>2, <1>3, OperatorKept, PTL DEF Spec

-----------------------------------------------------------------------------
(* Records, when the list is up to date and no record is left out.         *)

\* The parts of the invariant that are used below.
LEMMA KeptParts ==
  ASSUME OperatorInvariant
  PROVE  /\ OperatorTypeOK /\ ProcessTypeOK /\ KnativeTypeOK /\ RestateTypeOK
         /\ Undisturbing /\ StoresMatch /\ PassFits /\ IdsBelong /\ WalksOthers
BY DEF OperatorInvariant, OperatorTypeOK, KnativeTypeOK, ProcessKept, PassKept

\* An owner that a step adds.
LEMMA OwnedMoves ==
  ASSUME KnativeTypeOK, [Next]_all, NEW id \in Owned'
  PROVE  \/ id \in Owned /\ \A v \in Versions : Walks /\ Deregister(v) => id # Seen(v).id
         \/ Register /\ id = op'.id /\ id \notin registered /\ Stands(op.tag)
<1>1. Between \/ Stop \/ UNCHANGED all => UNCHANGED <<registered, strays>>
  BY DEF Between, Stop, all, knative, restate
<1>2. PassBegins \/ PassEnds \/ World \/ Watches => UNCHANGED <<registered, strays>>
  BY BeginsFacts, EndsFacts, AroundFacts DEF restate
<1>3. CASE UNCHANGED <<registered, strays>>
  <2>1. ASSUME NEW v \in Versions, Deregister(v), id = Seen(v).id PROVE FALSE
    BY <2>1 DEF Deregister, DeleteDeployment, Owned
  <2>. QED
    BY <1>3, <2>1 DEF Owned
<1>4. CASE PassGoesOn
  <2>1. CASE Register
    <3>1. strays' = (IF Stands(op.tag) THEN strays ELSE strays \cup {op'.id})
          /\ registered' = registered \cup {op'.id}
      BY <2>1, RegisterFacts DEF Stands, RegisterEndpoint
    <3>2. ~Walks
      BY <2>1, RegisterFacts, WalksFacts DEF At, Walking
    <3>. QED
      BY <2>1, <3>1, <3>2 DEF Owned
  <2>2. CASE ~Register
    BY <1>3, <1>4, <2>2, GoesOnFacts DEF restate
  <2>. QED
    BY <2>1, <2>2
<1>5. CASE Walks
  <2>1. strays' = strays
    BY <1>5, WalksFacts
  <2>2. ASSUME NEW v \in Versions, Deregister(v) PROVE registered' = registered \ {Seen(v).id}
    BY <2>2 DEF Deregister, DeleteDeployment
  <2>. QED
    BY <1>3, <1>5, <2>1, <2>2, WalksFacts DEF Owned, restate
<1>. QED
  BY <1>1, <1>2, <1>3, <1>4, <1>5, StepCases DEF ByItself

\* What stands after a step stood before it, but for what the step applied.
LEMMA StandsBefore ==
  ASSUME KnativeTypeOK, [Next]_all, NEW v \in Versions, cfg'[v].exists, ~cfg'[v].dying
  PROVE  \/ Stands(v) /\ (cfg'[v].id = cfg[v].id \/ (RecordId /\ v = op.tag))
         \/ PassBegins /\ ApplyConfiguration(sawKnative) /\ v = op'.tag
BY ConfigFields DEF Stands

\* What stands before a step stands after it, but for what the step deletes.
LEMMA StandsAfter ==
  ASSUME KnativeTypeOK, [Next]_all, NEW v \in Versions, Stands(v), phase # "gone", ~Deletes(v)
  PROVE  /\ cfg'[v].exists /\ ~cfg'[v].dying
         /\ cfg'[v].id = (IF RecordId /\ v = op.tag THEN op.id ELSE cfg[v].id)
<1>1. cfg[v] \in Configurations /\ cfg[v].exists /\ ~cfg[v].dying
  BY DEF KnativeTypeOK, Stands
<1>2. /\ Applied(v).exists /\ ~Applied(v).dying /\ Applied(v).id = cfg[v].id
      /\ Aged(cfg[v]).exists /\ ~Aged(cfg[v]).dying /\ Aged(cfg[v]).id = cfg[v].id
  BY <1>1, AgedFields DEF Applied, Configurations
<1>3. ~Collect(v)
  BY <1>1 DEF Collect
<1>4. ASSUME NEW c, \/ c = [cfg[v] EXCEPT !.removeAt = Never]
                    \/ c = [cfg[v] EXCEPT !.removeAt = DrainDelay]
                    \/ c = [cfg[v] EXCEPT !.route = TRUE]
                    \/ \E r \in Rollouts : c = [cfg[v] EXCEPT !.rollout = r]
      PROVE  c.exists /\ ~c.dying /\ c.id = cfg[v].id
  BY <1>1, <1>4 DEF Configurations
<1>5. ASSUME NEW c, c = [cfg[v] EXCEPT !.id = op.id] PROVE c.exists /\ ~c.dying /\ c.id = op.id
  BY <1>1, <1>5 DEF Configurations
<1>6. RecordId /\ v = op.tag => cfg'[v] = [cfg[v] EXCEPT !.id = op.id]
  BY DEF RecordId, KnativeTypeOK
<1>. QED
  BY <1>1, <1>2, <1>3, <1>4, <1>5, <1>6, ConfigMoves

\* The process does not change under a pass.
LEMMA UnderPass ==
  ASSUME OperatorInvariant, [Next]_all, ~At("idle"), op' # Idle
  PROVE  /\ sawKnative' = sawKnative /\ pos'["RestateDeployment"] = "running"
         /\ Between => cache' = cache
<1>0. ProcessTypeOK /\ KnativeTypeOK /\ heard = {} /\ pos["RestateDeployment"] = "running"
  BY KeptParts DEF PassFits, Undisturbing, Running
<1>1. ~Stop
  BY DEF Stop, ForgetPass
<1>2. sawKnative' = sawKnative /\ pos'["RestateDeployment"] = "running"
  BY <1>0, <1>1, DeploymentMoves
<1>. QED
  BY <1>0, <1>2 DEF Between, Stores

LEMMA OneEndpointStep ==
  ASSUME OperatorInvariant, OneEndpoint, [Next]_all
  PROVE  OneEndpoint'
<1>0. KnativeTypeOK /\ RestateTypeOK
  BY KeptParts
<1>1. CASE Register
  <2>1. /\ registered' = registered \cup {op'.id} /\ VersionOf(op'.id) = op.tag
        /\ op'.id \in registered \/ registered \cap IdsOf(op.tag) = {}
    BY <1>0, <1>1, RegisterFacts DEF RegisterEndpoint, IdsOf
  <2>. QED
    BY <1>0, <2>1 DEF OneEndpoint, IdsOf, RestateTypeOK
<1>. QED
  BY <1>0, <1>1, RegisteredMoves DEF OneEndpoint

LEMMA IdAdoptedStep ==
  ASSUME OperatorInvariant, IdAdopted, [Next]_all
  PROVE  IdAdopted'
<1>0. KnativeTypeOK /\ PassFits
  BY KeptParts
<1>. DEFINE early == {"unschedule", "route", "query", "register"}
<1>1. ASSUME op'.pc \in early, cfg'[op'.tag].exists PROVE op'.id = cfg'[op'.tag].id
  <2>1. ASSUME NEW o \in {op, op'}, o.pc \in early PROVE ~(o.pc = "idle") /\ o # Idle
    BY <2>1 DEF Idle
  <2>2. CASE PassBegins /\ op' # op
    <3>1. ~StartCleanup(sawKnative)
      <4>1. StartCleanup(sawKnative) => op'.pc = "drainQuery"
        BY DEF StartCleanup, Idle
      <4>. QED
        BY <1>1, <4>1
    <3>2. DetermineTag(spec) \in Versions
      BY <1>0, SpecFacts DEF DetermineTag, KnativeTypeOK
    <3>. QED
      BY <1>0, <2>2, <3>1, <3>2, BeginsFacts DEF KnativeTypeOK
  <2>3. CASE ~(PassBegins /\ op' # op)
    <3>1. op'.id = op.id /\ op'.tag = op.tag /\ op.pc \in early /\ ~PassBegins
      BY <1>0, <1>1, <2>1, <2>3, PassCases, GoesOnFacts, WalksFacts, BeginsFacts, RegisterFacts
      DEF At, Walking
    <3>2. RollsOut /\ op.tag \in Versions
      <4>1. RollsOut
        BY <1>0, <3>1 DEF PassFits, RollsOut, IsDeleting, At, Walking
      <4>. QED
        BY <1>0, <4>1, RolloutTag
    <3>3. ~RecordId
      BY <3>1 DEF RecordId, At
    <3>. QED
      BY <1>0, <1>1, <3>1, <3>2, <3>3, ConfigFields DEF IdAdopted
  <2>. QED
    BY <2>2, <2>3
<1>2. ASSUME op'.pc = "record" PROVE op'.id \in registered'
  <2>1. CASE Register
    BY <1>0, <2>1, RegisterFacts DEF RegisterEndpoint
  <2>2. CASE op' = op
    <3>1. ~Walks
      BY <1>0, <1>2, WalksFacts, <2>2 DEF Walking
    <3>. QED
      BY <1>0, <1>2, <2>2, <3>1, RegisteredMoves DEF IdAdopted, At
  <2>3. op' = op \/ Register
    BY <1>0, <1>2, PassCases, GoesOnFacts, WalksFacts, BeginsFacts DEF At, Walking, Idle
  <2>. QED
    BY <2>1, <2>2, <2>3
<1>. QED
  BY <1>1, <1>2 DEF IdAdopted, At

\* What a walk that is not past a version has seen of it.
LEMMA OwnedSeen ==
  ASSUME OperatorInvariant, BooksKept, At("item"), NEW v \in sweep.todo, NEW id \in Owned,
         VersionOf(id) = v
  PROVE  Seen(v).id = id /\ id \in usage.known /\ v # op.tag
<1>0. PassFits /\ WalksOthers /\ Recorded /\ ListAgrees /\ AnswerCovers /\ op.pc \in Walking
  BY KeptParts DEF BooksKept, Walking, At
<1>1. Stands(v) /\ id = cfg[v].id
  BY <1>0 DEF PassFits, Recorded, NotedId, At
<1>2. v # op.tag
  BY <1>0 DEF WalksOthers
<1>. QED
  BY <1>0, <1>1, <1>2 DEF ListAgrees, AnswerCovers, Answered, Owned

\* A Configuration with a registration that has an owner is not deleted.
LEMMA OwnedNotDeleted ==
  ASSUME OperatorInvariant, BooksKept, NEW id \in Owned
  PROVE  ~Deletes(VersionOf(id))
<1>. DEFINE v == VersionOf(id)
<1>1. ASSUME DeleteUnknown(v) PROVE FALSE
  <2>1. At("item") /\ v \in sweep.todo /\ Seen(v).id \notin usage.known
    BY <1>1 DEF DeleteUnknown, Expires, Removable, IsNext, KnownToRestate
  <2>. QED
    BY <2>1, OwnedSeen
<1>2. ASSUME DeleteDeregistered, v = sweep.at PROVE FALSE
  BY <1>2 DEF DeleteDeregistered, BooksKept, DeletesUnregistered
<1>. QED
  BY <1>1, <1>2 DEF Deletes

LEMMA RecordedStep ==
  ASSUME "record" \notin FailingSteps, OperatorInvariant, BooksKept, OneEndpoint', [Next]_all,
         phase' # "gone", NEW id \in Owned'
  PROVE  LET v == VersionOf(id)
         IN  /\ cfg'[v].exists /\ ~cfg'[v].dying
             /\ id = IF op'.pc = "record" /\ v = op'.tag THEN op'.id ELSE cfg'[v].id
<1>. DEFINE v == VersionOf(id)
<1>0. KnativeTypeOK /\ RestateTypeOK /\ PassFits /\ WalksOthers /\ Recorded /\ IdAdopted
  BY KeptParts DEF BooksKept
<1>1. phase # "gone"
  BY <1>0, ObjectMoves
<1>2. v \in Versions
  BY <1>0, OwnedMoves, RegisterFacts DEF Owned, RestateTypeOK, Ids, VersionOf, IdsOf
<1>3. CASE Register
  <2>1. Stands(v) /\ ~Deletes(v) /\ cfg' = cfg
    <3>1. cfg' = cfg /\ ~Walks /\ VersionOf(op'.id) = op.tag
      BY <1>0, <1>3, RegisterFacts, WalksFacts DEF At, Walking, IdsOf
    <3>2. Stands(v)
      BY <1>0, <1>1, <3>1, OwnedMoves DEF Recorded
    <3>. QED
      BY <1>2, <3>1, <3>2 DEF Deletes, Walks
  <2>2. CASE v # op.tag
    <3>1. id \in Owned /\ id = cfg[v].id
      BY <1>0, <1>1, <1>3, <2>2, OwnedMoves, RegisterFacts DEF Recorded, NotedId, IdsOf
    <3>. QED
      BY <1>0, <1>3, <2>1, <2>2, <3>1, RegisterFacts DEF Stands
  <2>3. CASE v = op.tag
    <3>1. id = op'.id
      <4>1. op'.id \in registered' /\ VersionOf(op'.id) = v
        BY <1>0, <1>3, <2>3, RegisterFacts DEF RegisterEndpoint, IdsOf
      <4>. QED
        BY <4>1 DEF OneEndpoint, Owned
    <3>2. op'.pc # "record" => op'.id = cfg[v].id
      BY <1>0, <1>3, <2>1, <2>3, RegisterFacts DEF IdAdopted, Stands, At
    <3>. QED
      BY <1>0, <1>3, <2>1, <2>3, <3>1, <3>2, RegisterFacts DEF Stands
  <2>. QED
    BY <2>2, <2>3
<1>4. CASE ~Register
  <2>1. id \in Owned
    BY <1>0, <1>4, OwnedMoves
  <2>2. Stands(v) /\ id = NotedId(v) /\ ~Deletes(v)
    BY <1>0, <1>1, <2>1, OwnedNotDeleted DEF Recorded
  <2>3. /\ cfg'[v].exists /\ ~cfg'[v].dying
        /\ cfg'[v].id = (IF RecordId /\ v = op.tag THEN op.id ELSE cfg[v].id)
    BY <1>0, <1>1, <1>2, <2>2, StandsAfter
  <2>4. CASE At("record") /\ v = op.tag
    <3>1. op' = op \/ (RecordId /\ op'.pc = "confirm")
      <4>1. PassGoesOn => RecordId /\ op'.pc = "confirm"
        BY <1>0, <2>4, GoesOnFacts DEF At
      <4>2. ~PassBegins /\ ~Walks
        BY <1>0, <2>4, BeginsFacts, WalksFacts DEF At, Walking
      <4>3. ~PassEnds
        BY <2>2, <2>4
        DEF PassEnds, RolloutNotReady, ReportConflict, DiscoveryFails, ReportNotLatest, FinishPass,
            WriteToMissing, AwaitDrain, ReleaseFinalizer, PassFails, At, IsNext, Drained, Expires,
            Removable, Stands
      <4>4. ~Stop
        BY <2>4, KeptParts
        DEF Stop, Exit, Replaced, Kill, Refused, Polls, Undisturbing, PassFits, At
      <4>5. Between \/ World \/ Watches \/ UNCHANGED all => op' = op
        BY AroundFacts DEF Between, pass, all, knative
      <4>. QED
        BY <4>1, <4>2, <4>3, <4>4, <4>5, StepCases DEF ByItself
    <3>2. CASE op' = op
      <4>. QED
        BY <2>2, <2>3, <2>4, <3>2 DEF NotedId, At
    <3>3. CASE RecordId /\ op'.pc = "confirm"
      BY <2>2, <2>3, <2>4, <3>3 DEF NotedId
    <3>. QED
      BY <3>1, <3>2, <3>3
  <2>5. CASE ~(At("record") /\ v = op.tag)
    <3>1. ~RecordId \/ v # op.tag
      BY <2>5 DEF RecordId
    <3>2. ~(op'.pc = "record" /\ v = op'.tag)
      BY <1>0, <1>4, <2>5, PassCases, BeginsFacts, GoesOnFacts, WalksFacts DEF At, Walking, Idle
    <3>. QED
      BY <2>2, <2>3, <2>5, <3>1, <3>2 DEF NotedId
  <2>. QED
    BY <2>4, <2>5
<1>. QED
  BY <1>3, <1>4

LEMMA ListStep ==
  ASSUME LagBetweenPasses = FALSE, OperatorInvariant, ListAgrees, [Next]_all
  PROVE  ListAgrees'
<1>0. /\ KnativeTypeOK /\ PassFits /\ StoresMatch /\ NoVersion \notin Versions
      /\ cfg \in [Versions -> Configurations] /\ cache \in [Versions -> Configurations]
  BY KeptParts, KnativeAssumption DEF KnativeAssumption, KnativeTypeOK
<1>. DEFINE Listed(v) == cache[v].exists /\ ~cache[v].dying /\ cache[v].id = cfg[v].id
<1>1. ASSUME op'.pc \notin {"idle"} \cup Walking, sawKnative', NEW v \in Versions \ {op'.tag},
             cfg'[v].exists, ~cfg'[v].dying
      PROVE  cache'[v].exists /\ ~cache'[v].dying /\ cache'[v].id = cfg'[v].id
  <2>1. CASE PassBegins /\ op' # op
    <3>1. CaughtUp /\ cache' = cache /\ cfg'[v] = cfg[v]
      <4>1. At("idle") /\ op' # Idle /\ (LagBetweenPasses \/ (sawKnative => CaughtUp))
            /\ cache' = cache
        BY <1>1, <2>1, BeginsFacts DEF Idle
      <4>2. sawKnative' = sawKnative
        <5>1. ~PassGoesOn /\ ~Walks
          BY <1>0, <4>1, GoesOnFacts, WalksFacts DEF At, Walking
        <5>2. UNCHANGED process
          BY <1>0, <2>1, <4>1, <5>1, PassCases
        <5>. QED
          BY <5>2 DEF process
      <4>3. cfg'[v] = cfg[v]
        BY <1>0, <1>1, <2>1, BeginsFacts
      <4>. QED
        BY <1>1, <4>1, <4>2, <4>3
    <3>2. Records(cache)[v] = Records(cfg)[v]
      BY <3>1 DEF CaughtUp
    <3>. QED
      BY <1>0, <1>1, <3>1, <3>2, RecordsFields
  <2>2. CASE ~(PassBegins /\ op' # op)
    <3>1. /\ op.pc \notin {"idle"} \cup Walking /\ op'.tag = op.tag /\ op' # Idle /\ ~PassBegins
      BY <1>0, <1>1, <2>2, PassCases, GoesOnFacts, WalksFacts, BeginsFacts DEF At, Walking, Idle
    <3>2. sawKnative /\ (Between => cache' = cache)
      BY <1>1, <3>1, UnderPass DEF At
    <3>3. Stands(v) /\ cfg'[v].id = cfg[v].id
      BY <1>0, <1>1, <3>1, StandsBefore
    <3>4. Listed(v)
      BY <1>1, <3>1, <3>2, <3>3 DEF ListAgrees
    <3>5. CASE cache' = cache
      BY <3>3, <3>4, <3>5
    <3>6. CASE Tick /\ cache' = [w \in Versions |-> Aged(cache[w])]
      <4>1. cache'[v] = Aged(cache[v]) /\ cache[v] \in Configurations
        BY <1>0, <3>6
      <4>. QED
        BY <3>3, <3>4, <4>1, AgedFields
    <3>7. CASE cache' = Records(cfg) /\ cfg' = cfg
      BY <1>0, <1>1, <3>7, RecordsFields
    <3>8. ~Stop
      BY <3>1 DEF Stop, ForgetPass
    <3>. QED
      BY <1>0, <3>2, <3>5, <3>6, <3>7, <3>8, CacheMoves
  <2>. QED
    BY <2>1, <2>2
<1>2. ASSUME op'.pc \in Walking, NEW v \in sweep'.todo, cfg'[v].exists, ~cfg'[v].dying
      PROVE  sweep'.view[v].id = cfg'[v].id
  <2>0. v \in Versions
    <3>1. KnativeTypeOK'
      BY TypeStep DEF OperatorTypeOK, OperatorInvariant
    <3>. QED
      BY <3>1 DEF KnativeTypeOK
  <2>1. ~PassBegins \/ op' = op
    BY <1>2, BeginsFacts DEF Walking
  <2>2. ~(PassBegins /\ ApplyConfiguration(sawKnative))
    <3>1. ASSUME PassBegins, ApplyConfiguration(sawKnative) PROVE FALSE
      <4>1. op'.pc \in {"route", "unschedule"}
        BY <3>1 DEF ApplyConfiguration, Idle
      <4>. QED
        BY <1>2, <4>1 DEF Walking
    <3>. QED
      BY <3>1
  <2>3. Stands(v) /\ (cfg'[v].id = cfg[v].id \/ RecordId)
    BY <1>0, <1>2, <2>0, <2>2, StandsBefore
  <2>4. CASE PassGoesOn
    <3>1. /\ ~RecordId /\ op.pc \notin {"idle"} \cup Walking
      <4>1. op.pc \in {"query", "confirm", "drainQuery"}
        BY <1>0, <1>2, <2>4, GoesOnFacts DEF At, Walking
      <4>. QED
        BY <4>1 DEF RecordId, At, Walking
    <3>2. PICK active : sweep' = Walk(active) /\ active = op.tag
      <4>1. QueryForCleanup => op.tag = NoVersion
        BY <1>0 DEF QueryForCleanup, PassFits, RollsOut, IsDeleting, At
      <4>. QED
        BY <1>0, <1>2, <2>4, <4>1, WalkBegins
    <3>3. v \in CachedTags \ {op.tag} /\ sweep'.view[v] = cache[v]
      BY <1>0, <1>2, <2>0, <3>2, WalkType
    <3>4. sawKnative
      BY <1>0, <3>1, <3>3 DEF StoresMatch, PassFits, At, Running
    <3>. QED
      BY <2>0, <2>3, <3>1, <3>3, <3>4 DEF ListAgrees
  <2>5. CASE Walks
    <3>1. v \in sweep.todo /\ sweep'.view[v] = sweep.view[v] /\ op.pc \in Walking
      <4>1. ASSUME NEW w \in sweep.todo, sweep'.todo = sweep.todo \ {w},
                   sweep'.view = [sweep.view EXCEPT ![w] = Absent]
            PROVE  v \in sweep.todo /\ sweep'.view[v] = sweep.view[v]
        BY <1>0, <1>2, <2>0, <4>1 DEF KnativeTypeOK
      <4>2. v \in sweep.todo /\ sweep'.view[v] = sweep.view[v]
        BY <1>0, <1>2, <2>5, <4>1, WalkMoves
      <4>. QED
        BY <1>0, <2>5, <4>2, WalksFacts
    <3>2. ~RecordId
      BY <3>1 DEF RecordId, At, Walking
    <3>. QED
      BY <2>3, <3>1, <3>2 DEF ListAgrees, Seen
  <2>6. CASE UNCHANGED <<op, sweep>>
    <3>1. ~RecordId
      BY <1>2, <2>6 DEF RecordId, At, Walking
    <3>. QED
      BY <1>2, <2>3, <2>6, <3>1 DEF ListAgrees, Seen
  <2>7. op' # Idle
    BY <1>2 DEF Idle, Walking
  <2>. QED
    BY <1>0, <2>1, <2>4, <2>5, <2>6, <2>7, PassCases, BeginsFacts
<1>. QED
  BY <1>1, <1>2 DEF ListAgrees, Stands, Seen

LEMMA AnswerCoversStep ==
  ASSUME OperatorInvariant, AnswerCovers, [Next]_all
  PROVE  AnswerCovers'
<1>0. KnativeTypeOK
  BY KeptParts
<1>. SUFFICES ASSUME op'.pc \in Answered, NEW id \in registered', VersionOf(id) # op'.tag
              PROVE  id \in usage'.known
  BY DEF AnswerCovers
<1>1. ASSUME op.pc \in Answered, op'.tag = op.tag, usage' = usage PROVE id \in usage'.known
  <2>1. id \in registered
    BY <1>0, <1>1, RegisteredMoves, RegisterFacts DEF IdsOf
  <2>. QED
    BY <1>1, <2>1 DEF AnswerCovers
<1>2. CASE QueryUsage \/ QueryForCleanup
  BY <1>2 DEF QueryUsage, QueryForCleanup, UsageAnswer, restate
<1>3. CASE PassGoesOn /\ ~QueryUsage /\ ~QueryForCleanup
  <2>1. op.pc \in Answered /\ op'.tag = op.tag
    BY <1>0, <1>3, GoesOnFacts DEF Answered, Walking, At
  <2>2. usage' = usage
    BY <1>3 DEF PassGoesOn, UnscheduleAdopted, ApplyRoute, Register, RecordId, ConfirmLatest
  <2>. QED
    BY <1>1, <2>1, <2>2
<1>4. CASE Walks
  BY <1>0, <1>1, <1>4, WalksFacts DEF Answered
<1>5. CASE UNCHANGED <<op, usage>>
  BY <1>1, <1>5
<1>6. op' # Idle
  BY DEF Idle, Answered, Walking
<1>7. PassBegins => UNCHANGED <<op, usage>>
  <2>1. PassBegins => op' = op \/ op'.pc \in {"route", "unschedule", "drainQuery"}
    BY BeginsFacts
  <2>. QED
    BY <2>1, BeginsFacts DEF Answered, Walking
<1>. QED
  BY <1>0, <1>2, <1>3, <1>4, <1>5, <1>6, <1>7, PassCases

LEMMA DeletesUnregisteredStep ==
  ASSUME OperatorInvariant, BooksKept, [Next]_all
  PROVE  DeletesUnregistered'
<1>0. KnativeTypeOK
  BY KeptParts
<1>. SUFFICES ASSUME op'.pc = "delete", NEW id \in Owned' PROVE VersionOf(id) # sweep'.at
  BY DEF DeletesUnregistered, At
<1>1. CASE Walks
  <2>1. PICK v \in sweep.todo : At("item") /\ Deregister(v) /\ sweep'.at = v
    <3>1. At("item") => op.pc # "delete"
      BY DEF At
    <3>. QED
      BY <1>0, <1>1, <3>1, WalkMoves
  <2>2. v \in Versions
    BY <1>0, <2>1 DEF KnativeTypeOK
  <2>3. id \in Owned /\ id # Seen(v).id
    <3>1. ~Register
      BY <1>0, <2>1, RegisterFacts DEF At
    <3>. QED
      BY <1>0, <1>1, <2>1, <2>2, <3>1, OwnedMoves
  <2>. QED
    BY <2>1, <2>3, OwnedSeen
<1>2. CASE UNCHANGED <<op, sweep>>
  <2>1. id \in Owned
    BY <1>0, <1>2, OwnedMoves, RegisterFacts DEF At
  <2>. QED
    BY <1>2, <2>1 DEF BooksKept, DeletesUnregistered, At
<1>3. ~PassGoesOn
  BY <1>0, GoesOnFacts DEF At
<1>4. op' # Idle /\ (PassBegins => UNCHANGED <<op, sweep>>)
  BY BeginsFacts DEF Idle
<1>. QED
  BY <1>0, <1>1, <1>2, <1>3, <1>4, PassCases

LEMMA CleanupCoversStep ==
  ASSUME OperatorInvariant, BooksKept, [Next]_all
  PROVE  CleanupCovers'
<1>0. KnativeTypeOK /\ RestateTypeOK /\ PassFits /\ NoVersion \notin Versions
  BY KeptParts, KnativeAssumption DEF KnativeAssumption
<1>. SUFFICES ASSUME IsDeleting(op'.mode), op'.pc \in Walking, sawKnative', NEW id \in Owned'
              PROVE  VersionOf(id) \in sweep'.todo \/ sweep'.held
  BY DEF CleanupCovers
<1>. DEFINE v == VersionOf(id)
<1>1. op' # Idle /\ ~At("idle") /\ (PassBegins => UNCHANGED <<op, sweep>>)
  <2>1. op' # Idle /\ (PassBegins => UNCHANGED <<op, sweep>>)
    <3>1. PassBegins => op' = op \/ op'.pc \in {"route", "unschedule", "drainQuery"}
      BY BeginsFacts
    <3>. QED
      BY <3>1, BeginsFacts DEF Idle, Walking
  <2>2. ~At("idle")
    BY <1>0, <2>1, PassCases, GoesOnFacts, WalksFacts DEF At, Walking
  <2>. QED
    BY <2>1, <2>2
<1>2. sawKnative
  BY <1>1, UnderPass
<1>3. id \in Owned /\ v \in Versions
  <2>1. Register => op.pc = "register" /\ op'.mode = op.mode
    BY <1>0, RegisterFacts DEF At
  <2>2. ~Register
    BY <1>0, <2>1 DEF PassFits, Walking
  <2>. QED
    BY <1>0, <2>2, OwnedMoves DEF Owned, RestateTypeOK, Ids, VersionOf
<1>4. CASE PassGoesOn
  <2>1. At("drainQuery") /\ op.tag = NoVersion /\ sweep' = Walk(NoVersion)
    <3>1. op.mode = op'.mode
      BY <1>0, <1>4, GoesOnFacts
    <3>2. At("drainQuery") /\ op.tag = NoVersion
      BY <1>0, <1>4, <3>1, GoesOnFacts DEF PassFits, Walking, At
    <3>. QED
      BY <1>0, <1>4, <3>2, WalkBegins DEF QueryUsage, ConfirmLatest, At
  <2>2. Stands(v)
    BY <1>0, <1>3, <2>1 DEF BooksKept, Recorded, PassFits, At
  <2>3. cache[v].exists /\ ~cache[v].dying
    BY <1>0, <1>2, <1>3, <2>1, <2>2 DEF BooksKept, ListAgrees, At, Walking
  <2>. QED
    BY <1>0, <1>3, <2>1, <2>3, WalkType DEF CachedTags
<1>5. CASE Walks
  <2>1. v \in sweep.todo \/ sweep.held
    BY <1>0, <1>2, <1>3, <1>5, WalksFacts DEF BooksKept, CleanupCovers
  <2>2. ASSUME NEW w \in sweep.todo, Retain(w) PROVE FALSE
    BY <1>0, <1>5, <2>2, WalksFacts DEF Retain, RetainForRollback
  <2>3. ~DeleteUnknown(v)
    BY <1>3, OwnedNotDeleted DEF Deletes
  <2>4. ASSUME v \in sweep.todo, Deregister(v) PROVE FALSE
    <3>1. Seen(v).id = id
      BY <1>3, <2>4, OwnedSeen DEF Deregister, Expires, Removable, IsNext
    <3>2. id \notin registered'
      BY <2>4, <3>1 DEF Deregister, DeleteDeployment
    <3>. QED
      BY <3>2 DEF Owned
  <2>. QED
    BY <1>0, <1>5, <2>1, <2>2, <2>3, <2>4, WalkMoves
<1>6. CASE UNCHANGED <<op, sweep>>
  BY <1>2, <1>3, <1>6 DEF BooksKept, CleanupCovers
<1>. QED
  BY <1>0, <1>1, <1>4, <1>5, <1>6, PassCases

LEMMA InitBooks == Init => BooksKept
<1>. SUFFICES ASSUME Init PROVE BooksKept
  OBVIOUS
<1>1. op.pc = "idle" /\ op.mode = "Rollout" /\ strays = {}
  BY DEF Init, KnativeInit, Idle
<1>2. /\ \A id, other \in registered : VersionOf(id) = VersionOf(other) => id = other
      /\ \A id \in registered : Stands(VersionOf(id)) /\ id = cfg[VersionOf(id)].id
  <2>1. CASE NoObjectYet
    BY <2>1 DEF NoObjectYet, RestateInit
  <2>2. ASSUME NEW now \in Choices, NEW before \in Choices, RolledOut(now, before)
        PROVE  /\ \A id, other \in registered : VersionOf(id) = VersionOf(other) => id = other
               /\ \A id \in registered : Stands(VersionOf(id)) /\ id = cfg[VersionOf(id)].id
    <3>. DEFINE new == TagFor(now, 0)
                old == TagFor(before, 0)
                at(choice) == [Absent EXCEPT !.exists = TRUE, !.template = choice.template,
                                             !.id = <<TagFor(choice, 0), 0>>,
                                             !.route = TRUE, !.rollout = "routed"]
    <3>1. registered = {<<new, 0>>, <<old, 0>>} /\ new # old
      BY <2>2 DEF RolledOut
    <3>2. new \in Versions /\ old \in Versions
      <4>1. \A choice \in Choices : /\ AsSpec(choice, 0) \in Specs
                                    /\ TagFor(choice, 0) = TagFor(AsSpec(choice, 0), 0)
        BY KnativeAssumption DEF KnativeAssumption, Specs, AsSpec, TagFor
      <4>. QED
        BY <4>1, SpecFacts, KnativeAssumption DEF KnativeAssumption
    <3>3. cfg[new] = at(now) /\ cfg[old] = at(before)
      BY <2>2, <3>1, <3>2 DEF RolledOut
    <3>4. \A choice \in Choices : /\ at(choice).exists /\ ~at(choice).dying
                                  /\ at(choice).id = <<TagFor(choice, 0), 0>>
      BY DEF Absent
    <3>5. Stands(new) /\ cfg[new].id = <<new, 0>> /\ Stands(old) /\ cfg[old].id = <<old, 0>>
      BY <3>3, <3>4 DEF Stands
    <3>. HIDE DEF new, old
    <3>. QED
      BY <3>1, <3>5 DEF VersionOf
  <2>. QED
    BY <2>1, <2>2 DEF Init, KnativeInit
<1>. QED
  BY <1>1, <1>2
  DEF BooksKept, OneEndpoint, IdAdopted, Recorded, NotedId, Owned, ListAgrees, AnswerCovers, Answered,
      DeletesUnregistered, CleanupCovers, IsDeleting, At, Walking

LEMMA BooksStep ==
  ASSUME LagBetweenPasses = FALSE, "record" \notin FailingSteps,
         OperatorInvariant, BooksKept, [Next]_all
  PROVE  BooksKept'
<1>1. OneEndpoint' /\ IdAdopted' /\ ListAgrees' /\ AnswerCovers' /\ DeletesUnregistered' /\ CleanupCovers'
  BY OneEndpointStep, IdAdoptedStep, ListStep, AnswerCoversStep, DeletesUnregisteredStep,
    CleanupCoversStep DEF BooksKept
<1>2. Recorded'
  <2>1. ASSUME phase' # "gone", NEW id \in Owned'
        PROVE  LET v == VersionOf(id)
               IN  /\ cfg'[v].exists /\ ~cfg'[v].dying
                   /\ id = IF op'.pc = "record" /\ v = op'.tag THEN op'.id ELSE cfg'[v].id
    BY <1>1, <2>1, RecordedStep
  <2>. QED
    BY <2>1 DEF Recorded, Stands, NotedId, At
<1>. QED
  BY <1>1, <1>2 DEF BooksKept

\* A process that saw Knative lets the object go when nothing of it is registered but
\* for Configurations that were on their way out (ReleaseLeavesNothing, cleanup), as
\* long as passes begin with a cache that has caught up and none fails between a
\* registration and its record.
THEOREM ReleaseLeavesNothingHolds ==
  ASSUME LagBetweenPasses = FALSE, "record" \notin FailingSteps
  PROVE  Spec => ReleaseLeavesNothing
<1>1. Init => BooksKept
  BY InitBooks
<1>2. OperatorInvariant /\ BooksKept /\ [Next]_all => BooksKept'
  BY BooksStep
<1>3. BooksKept => [ReleaseFinalizer /\ sawKnative => registered \subseteq strays]_all
  BY DEF BooksKept, CleanupCovers, ReleaseFinalizer, Walking, Owned, At
<1>. QED
  BY <1>1, <1>2, <1>3, OperatorKept, PTL DEF Spec, ReleaseLeavesNothing
=============================================================================
