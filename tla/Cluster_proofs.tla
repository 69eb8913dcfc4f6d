---------------------------- MODULE Cluster_proofs ----------------------------
(***************************************************************************)
(* ClusterInvariant is inductive, and so the RestateCluster controller     *)
(* keeps its safety properties for every value of the constants: whatever  *)
(* specs the user moves among, however often the cluster is edited,        *)
(* suspended or deleted, and whichever calls of a pass fail or are cut     *)
(* short by a restart.                                                     *)
(***************************************************************************)
EXTENDS ClusterInvariant, TLAPS

-----------------------------------------------------------------------------
(* The constants, and the steps of the system one by one.                  *)

LEMMA SpecFacts ==
  /\ AllSpecs \subseteq Specs
  /\ Sizes \subseteq Nat /\ Templates \subseteq Nat
  /\ \A spec \in AllSpecs : spec.size \in Sizes /\ spec.tmpl \in Templates
<1>1. AllSpecs \subseteq Specs
  BY ClusterAssumption DEF ClusterAssumption, AllSpecs
<1>2. \A spec \in AllSpecs : spec.size \in Nat /\ spec.tmpl \in Nat
  BY <1>1 DEF Specs
<1>. QED
  BY <1>1, <1>2 DEF Sizes, Templates

LEMMA ScenarioFacts ==
  ASSUME NEW s \in Scenarios
  PROVE  /\ s.specs \subseteq AllSpecs /\ s.specs # {}
         /\ s.edits \in Nat /\ s.labelled \in BOOLEAN
         /\ s.fails \subseteq Calls \ {"idle", "pods"}
BY ClusterAssumption DEF ClusterAssumption, AllSpecs

LEMMA PolicyNamesAre ==
  PolicyNames = {"deny", "dns", "public", "podIdentity", "egress", "ingress", "admin", "node"}
<1>1. DOMAIN PolicyOrder = {1, 2, 3, 4, 5, 6, 7, 8}
  BY DEF PolicyOrder
<1>. QED
  BY <1>1 DEF PolicyNames, PolicyOrder

LEMMA PolicyCount == Len(PolicyOrder) = 8 /\ DOMAIN PolicyOrder = 1 .. 8
BY DEF PolicyOrder

-----------------------------------------------------------------------------
(* What the policies are made of.                                          *)

PeerLists == [set : BOOLEAN, from : SUBSET Peers]

PolicyTypes == [exists : BOOLEAN, rule : BOOLEAN, from : SUBSET Peers]

LEMMA GivenPeersType ==
  ASSUME NEW spec \in Specs
  PROVE  Unset \in PeerLists /\ GivenPeers(spec) \in PeerLists
BY DEF Specs, Peers, GivenPeers, ListOf, Unset, PeerLists

LEMMA AddPeerType ==
  ASSUME NEW list \in PeerLists, NEW peer \in Peers
  PROVE  AddPeer(list, peer) \in PeerLists /\ ListOf(list.from \cup {peer}) \in PeerLists
BY DEF AddPeer, ListOf, PeerLists

LEMMA DesiredPolicyType ==
  ASSUME NEW spec \in Specs, NEW name
  PROVE  DesiredPolicy(name, spec) \in PolicyTypes
<1>1. "self" \in Peers /\ "operator" \in Peers
  BY DEF Peers
<1>2. Unset \in PeerLists /\ GivenPeers(spec) \in PeerLists
  BY GivenPeersType
<1>3. AdminPeers(spec) \in PeerLists
  BY <1>1, <1>2, AddPeerType DEF AdminPeers
<1>4. NodePeers(spec) \in PeerLists
  BY <1>1, <1>2, AddPeerType DEF NodePeers
<1>5. \A list \in PeerLists : Policy(list) \in PolicyTypes
  BY DEF Policy, PolicyTypes, PeerLists
<1>6. Access(name, spec) \in PolicyTypes
  BY <1>2, <1>3, <1>4, <1>5 DEF Access
<1>7. NoPolicy \in PolicyTypes
  BY DEF NoPolicy, PolicyTypes
<1>. QED
  BY <1>6, <1>7 DEF DesiredPolicy

\* A pass that got through all policies has what the spec asks for, and one that was cut
\* short has that or what was there before.
LEMMA AppliedPolicies ==
  ASSUME NEW n \in 0 .. 8, NEW name \in PolicyNames
  PROVE  /\ Applied(n)[name] \in {DesiredPolicy(name, Asks), policies[name]}
         /\ n = 8 => Applied(n)[name] = DesiredPolicy(name, Asks)
<1>1. n = 8 => \E i \in 1 .. n : PolicyOrder[i] = name
  BY PolicyCount DEF PolicyNames
<1>. QED
  BY <1>1 DEF Applied

-----------------------------------------------------------------------------
(* Types.                                                                  *)

LEMMA AsksType ==
  ASSUME ClusterTypeOK
  PROVE  /\ Asks \in AllSpecs /\ Asks \in Specs /\ Asks.size \in Sizes /\ Asks.tmpl \in Templates
         /\ Asks.role \in BOOLEAN /\ Asks.tolerations \in Nat
         /\ scenario.specs \subseteq Specs
BY SpecFacts, ScenarioFacts DEF ClusterTypeOK, Objects, Asks, Specs

LEMMA ConcludeType ==
  ASSUME NEW reason \in Reasons \cup {"none"}, Conclude(reason)
  PROVE  op' \in Passes
BY DEF Conclude, Idle, Passes, Calls, Reasons, Notes, NoNote

LEMMA GotoType ==
  ASSUME op \in Passes, NEW call \in Calls, Goto(call)
  PROVE  op' \in Passes
BY DEF Goto, Passes

LEMMA IdleType == Idle \in Passes
BY DEF Idle, Passes, Calls, Notes, NoNote

LEMMA AppliedType ==
  ASSUME ClusterTypeOK, NEW n \in 0 .. 8
  PROVE  Applied(n) \in [PolicyNames -> PolicyTypes]
<1>1. \A name \in PolicyNames : policies[name] \in PolicyTypes
  BY DEF ClusterTypeOK, PolicyTypes
<1>2. \A name : DesiredPolicy(name, Asks) \in PolicyTypes
  BY AsksType, DesiredPolicyType
<1>. QED
  BY <1>1, <1>2 DEF Applied

\* A call that is cut short leaves policies and excuses.
LEMMA CutShortType ==
  ASSUME ClusterTypeOK, CutShort
  PROVE  policies' \in [PolicyNames -> PolicyTypes] /\ cut' \subseteq {"strategy", "unseen", "job"}
<1>1. cut' \subseteq {"strategy", "unseen", "job"}
  BY DEF CutShort, ClusterTypeOK
<1>2. policies \in [PolicyNames -> PolicyTypes]
  BY DEF ClusterTypeOK, PolicyTypes
<1>3. \A n \in 0 .. 7 : Applied(n) \in [PolicyNames -> PolicyTypes]
  BY AppliedType
<1>. QED
  BY <1>1, <1>2, <1>3, PolicyCount DEF CutShort

LEMMA NewObjectType ==
  ASSUME NEW spec \in AllSpecs
  PROVE  NewObject(spec) \in Objects
BY ClusterAssumption DEF ClusterAssumption, NewObject, Objects, NotReady, NoNote, Marks, Notes

LEMMA NothingType ==
  /\ NoSet \in StatefulSets /\ NoJob \in Jobs /\ NoClaim \in Claims
  /\ NoPolicy \in PolicyTypes
BY DEF NoSet, StatefulSets, NoJob, Jobs, NoClaim, Claims, Strategies, Pods, NoPolicy, PolicyTypes

LEMMA InitType == Init => ClusterTypeOK
<1> SUFFICES ASSUME Init PROVE ClusterTypeOK
  OBVIOUS
<1>1. rc \in Objects /\ seen = rc
  BY NewObjectType, ScenarioFacts DEF Init
<1>2. opened \in BOOLEAN
  BY DEF Init, LetsAllIn
<1>. QED
  BY <1>1, <1>2, IdleType, NothingType
  DEF Init, ClusterTypeOK, Strategies, Pods, PolicyTypes

\* The steps that end a pass or move it on, and change nothing else.
MovesOn ==
  \/ StartPass \/ CheckPods \/ ReadNote \/ AwaitDeletion \/ KeepStorage \/ Refused
  \/ ValidateStatus \/ RejectConfig \/ ProbePod

LEMMA MovesOnFacts ==
  ASSUME ClusterTypeOK, MovesOn
  PROVE  /\ UNCHANGED <<scenario, rc, seen, due, policies, identity, objects, cached, server, history>>
         /\ op' \in Passes
<1>. USE GotoType, ConcludeType DEF MovesOn, ClusterTypeOK
<1>1. CASE StartPass
  BY <1>1 DEF StartPass, Calls
<1>2. CASE CheckPods
  BY <1>2 DEF CheckPods, Calls, Reasons
<1>3. CASE ReadNote
  BY <1>3 DEF ReadNote, Creates, Calls, Objects, Passes
<1>4. CASE AwaitDeletion
  BY <1>4 DEF AwaitDeletion, Reasons
<1>5. CASE KeepStorage
  BY <1>5 DEF KeepStorage, Calls, Objects, Passes
<1>6. CASE Refused
  BY <1>6 DEF Refused, Reasons
<1>7. CASE ValidateStatus
  BY <1>7 DEF ValidateStatus, Reasons
<1>8. CASE RejectConfig
  BY <1>8 DEF RejectConfig, Reasons
<1>9. CASE ProbePod
  BY <1>9 DEF ProbePod, Calls, Reasons
<1>. QED
  BY <1>1, <1>2, <1>3, <1>4, <1>5, <1>6, <1>7, <1>8, <1>9

\* The steps of a pass with the cluster object, the identity and the objects.
TouchesCluster ==
  StartSuspended \/ ReleaseFinalizer \/ WriteStatus \/ NoteSuspension \/ RememberStrategy
  \/ ForgetStrategy

TouchesIdentity == Associate \/ Dissociate \/ ApplyCanary \/ DeleteJob

TouchesSet == DeleteSet \/ ApplySet \/ RecreateSet \/ OwnStrategy

Cuts == CallFails \/ Restart

Syncs == SyncCluster \/ SyncObject("ss") \/ SyncObject("claim")

World == Kubernetes \/ Cloud \/ CanaryRuns

LEMMA StepCases ==
  [Next]_vars =>
    \/ MovesOn \/ TouchesCluster \/ ReconcilePolicies \/ TouchesIdentity \/ PatchClaim
    \/ TouchesSet \/ Provision
    \/ Cuts \/ Syncs \/ User \/ World \/ UNCHANGED vars
BY DEF Next, PassStep, MovesOn, TouchesCluster, TouchesIdentity, TouchesSet, Cuts, Syncs, World

LEMMA TouchesClusterType ==
  ASSUME ClusterTypeOK, TouchesCluster
  PROVE  ClusterTypeOK'
<1>. USE DEF ClusterTypeOK
<1>1. CASE StartSuspended
  BY <1>1, GotoType DEF StartSuspended, Calls, identity, objects, history
<1>2. CASE ReleaseFinalizer
  BY <1>2 DEF ReleaseFinalizer, Objects, identity, objects, history
<1>3. CASE WriteStatus
  <2>1. rc' \in Objects
    BY ZenonT(60), <1>3 DEF WriteStatus, MarkAfter, Objects, Marks, NotReady
  <2>. QED
    BY <1>3, <2>1, IdleType DEF WriteStatus, identity, objects, history
<1>4. CASE NoteSuspension
  <2>1. rc' \in Objects
    BY <1>4 DEF NoteSuspension, Objects, Marks, NotReady
  <2>. QED
    BY <1>4, <2>1, IdleType DEF NoteSuspension, identity, objects, history
<1>5. CASE RememberStrategy
  <2>1. rc' \in Objects /\ op' \in Passes
    BY <1>5 DEF RememberStrategy, Objects, Notes, StatefulSets, Passes, Calls
  <2>. QED
    BY <1>5, <2>1 DEF RememberStrategy, identity, objects, history
<1>6. CASE ForgetStrategy
  <2>1. rc' \in Objects
    BY <1>6 DEF ForgetStrategy, Objects, Notes
  <2>. QED
    BY <1>6, <2>1, GotoType DEF ForgetStrategy, Calls, identity, objects, history
<1>. QED
  BY <1>1, <1>2, <1>3, <1>4, <1>5, <1>6 DEF TouchesCluster

LEMMA JudgeType ==
  ASSUME op \in Passes, NEW j, Judge(j)
  PROVE  op' \in Passes
<1>1. ASSUME NEW reason \in {"CanaryPending", "CanaryFailed"}, DropJob(reason)
      PROVE  op' \in Passes
  BY <1>1 DEF DropJob, Passes, Calls, Reasons
<1>. QED
  BY <1>1, ConcludeType, GotoType DEF Judge, Undecided, Calls, Reasons

LEMMA TouchesIdentityType ==
  ASSUME ClusterTypeOK, TouchesIdentity
  PROVE  ClusterTypeOK'
<1>. USE DEF ClusterTypeOK
<1>1. CASE Associate
  <2>1. op' \in Passes
    BY <1>1, ConcludeType, GotoType DEF Associate, Reasons, Calls
  <2>. QED
    BY <1>1, <2>1 DEF Associate, objects, history
<1>2. CASE Dissociate
  <2>1. op' \in Passes
    BY <1>2 DEF Dissociate, Passes, Calls
  <2>. QED
    BY <1>2, <2>1 DEF Dissociate, objects, history
<1>3. CASE ApplyCanary
  <2>1. job' \in Jobs
    BY <1>3, AsksType DEF ApplyCanary, NoJob, Jobs, Pods
  <2>2. op' \in Passes
    BY <1>3, JudgeType DEF ApplyCanary
  <2>. QED
    BY <1>3, <2>1, <2>2 DEF ApplyCanary, objects, history
<1>4. CASE DeleteJob
  <2>1. op' \in Passes
    <3>1. CASE op.then = "claims"
      <4>1. op' = [op EXCEPT !.pc = "claims", !.then = "none"]
        BY <1>4, <3>1 DEF DeleteJob
      <4>. QED
        BY <4>1 DEF Passes, Calls
    <3>2. CASE op.then # "claims"
      <4>1. Conclude(op.then) /\ op.then \in Reasons \cup {"none"}
        BY <1>4, <3>2 DEF DeleteJob, Passes
      <4>. QED
        BY <4>1, ConcludeType
    <3>. QED
      BY <3>1, <3>2
  <2>. QED
    BY <1>4, <2>1, NothingType DEF DeleteJob, Jobs, objects, history
<1>. QED
  BY <1>1, <1>2, <1>3, <1>4 DEF TouchesIdentity

LEMMA TouchesSetType ==
  ASSUME ClusterTypeOK, NoteRead, TouchesSet
  PROVE  ClusterTypeOK'
<1>. USE DEF ClusterTypeOK
<1>a. AppliedSet \in StatefulSets
  <2>. DEFINE uid == IF ss.exists THEN ss.uid ELSE ss.uid + 1
             by == IF ss.exists /\ ss.held THEN ss.strategy ELSE "RollingUpdate"
  <2>1. uid \in Nat /\ by \in Strategies
    BY DEF StatefulSets, Strategies
  <2>2. AppliedSet =
          [ss EXCEPT !.exists = TRUE, !.uid = uid, !.size = Asks.size, !.tmpl = Asks.tmpl,
                     !.role = Asks.role, !.strategy = by]
    BY DEF AppliedSet
  <2>3. Asks.size \in Sizes /\ Asks.tmpl \in Templates /\ Asks.role \in BOOLEAN
    BY AsksType
  <2>. HIDE DEF uid, by
  <2>. QED
    BY <2>1, <2>2, <2>3 DEF StatefulSets
<1>b. Answered \in Passes
  BY DEF Answered, Passes
<1>1. CASE DeleteSet
  <2>1. ss' \in StatefulSets /\ op' \in Passes
    BY <1>1, ConcludeType DEF DeleteSet, StatefulSets, Reasons
  <2>. QED
    BY <1>1, <2>1 DEF DeleteSet, identity
<1>2. CASE ApplySet
  <2>1. op' \in Passes
    BY <1>2, <1>b DEF ApplySet, Passes, Calls
  <2>. QED
    BY <1>2, <1>a, <2>1 DEF ApplySet, identity, history
<1>3. CASE RecreateSet
  <2>1. RecreatedSet \in StatefulSets
    BY ZenonT(60), <1>3, <1>a DEF RecreatedSet, RecreateSet, NoteRead, At, StatefulSets
  <2>2. op' \in Passes
    BY <1>3, <1>b DEF RecreateSet, Passes, Calls
  <2>. QED
    BY <1>3, <2>1, <2>2 DEF RecreateSet, identity
<1>4. CASE OwnStrategy
  <2>1. ss' \in StatefulSets /\ op' \in Passes
    BY <1>4, GotoType DEF OwnStrategy, StatefulSets, Calls
  <2>. QED
    BY <1>4, <2>1 DEF OwnStrategy, identity, history
<1>. QED
  BY <1>1, <1>2, <1>3, <1>4 DEF TouchesSet

LEMMA SyncsType ==
  ASSUME ClusterTypeOK, Syncs
  PROVE  ClusterTypeOK'
<1>. USE DEF ClusterTypeOK
<1>1. CASE SyncCluster
  BY <1>1 DEF SyncCluster, identity, objects, history
<1>2. Shown \in [ss : StatefulSets, claim : Claims]
  BY ZenonT(60), NothingType DEF Shown, StatefulSets, Claims
<1>3. CASE SyncObject("ss") \/ SyncObject("claim")
  <2>1. cached' \in [ss : StatefulSets, claim : Claims]
    BY <1>2, <1>3 DEF SyncObject
  <2>. QED
    BY <1>3, <2>1 DEF SyncObject, identity, objects, history
<1>. QED
  BY <1>1, <1>3 DEF Syncs

LEMMA UserType ==
  ASSUME ClusterTypeOK, User
  PROVE  ClusterTypeOK'
<1>. USE DEF ClusterTypeOK
<1>1. CASE EditSpec
  <2>1. PICK spec \in AllSpecs : rc' = [rc EXCEPT !.spec = spec, !.gen = rc.gen + 1]
    BY <1>1, ScenarioFacts DEF EditSpec
  <2>2. rc.gen + 1 \in Nat
    BY DEF Objects
  <2>3. \A gen \in Nat : [rc EXCEPT !.spec = spec, !.gen = gen] \in Objects
    BY DEF Objects
  <2>4. rc' \in Objects
    BY <2>1, <2>2, <2>3
  <2>. QED
    BY <1>1, <2>4 DEF EditSpec, identity, objects, history
<1>2. CASE Suspend
  <2>1. rc.pauses + 1 \in 0 .. MaxSuspensions
    BY <1>2, ClusterAssumption DEF ClusterAssumption, Suspend, Objects
  <2>2. rc' = [rc EXCEPT !.suspended = TRUE, !.pauses = rc.pauses + 1]
    BY <1>2 DEF Suspend
  <2>3. rc' \in Objects
    BY <2>1, <2>2 DEF Objects
  <2>. QED
    BY <1>2, <2>3 DEF Suspend, identity, objects, history
<1>3. CASE Resume
  BY ZenonT(60), <1>3 DEF Resume, Objects, identity, objects, history
<1>4. CASE DeleteObject
  BY <1>4 DEF DeleteObject, Objects, identity, objects, history
<1>5. CASE AskOnDelete
  <2>1. ss' \in StatefulSets
    BY <1>5 DEF AskOnDelete, StatefulSets, Strategies
  <2>. QED
    BY <1>5, <2>1 DEF AskOnDelete, identity, Strategies
<1>. QED
  BY <1>1, <1>2, <1>3, <1>4, <1>5 DEF User

LEMMA WorldType ==
  ASSUME ClusterTypeOK, World
  PROVE  ClusterTypeOK'
<1>. USE DEF ClusterTypeOK
<1>1. CASE Kubernetes
  <2>1. /\ ss' \in StatefulSets /\ claim' \in Claims /\ server' \in BOOLEAN
        /\ pods' \in [state : {"none", "running", "ready"}, tmpl : Templates \cup {0}]
    <3>1. CASE ManageSet /\ UNCHANGED server
      <4>1. ss.size \in Sizes \cup {0} /\ ss.tmpl \in Templates \cup {0}
        BY DEF StatefulSets
      <4>2. \/ claim' = [exists |-> TRUE, bound |-> FALSE, size |-> ss.size]
            \/ claim' = [claim EXCEPT !.bound = TRUE]
            \/ claim' = claim
        BY <3>1 DEF ManageSet
      <4>3. claim' \in Claims
        <5>1. [exists |-> TRUE, bound |-> FALSE, size |-> ss.size] \in Claims
          BY <4>1 DEF Claims
        <5>2. [claim EXCEPT !.bound = TRUE] \in Claims
          BY DEF Claims
        <5>. QED
          BY <4>2, <5>1, <5>2
      <4>4. pods' \in [state : {"none", "running", "ready"}, tmpl : Templates \cup {0}]
        BY <3>1, <4>1 DEF ManageSet
      <4>. QED
        BY <3>1, <4>3, <4>4 DEF ManageSet
    <3>2. CASE Orphaned /\ UNCHANGED server
      BY <3>2, NothingType DEF Orphaned, StatefulSets
    <3>3. CASE PodsReady
      BY <3>3 DEF PodsReady
    <3>4. CASE Roll /\ UNCHANGED server
      BY <3>4 DEF Roll, StatefulSets
    <3>. QED
      BY <1>1, <3>1, <3>2, <3>3, <3>4 DEF Kubernetes
  <2>. QED
    BY <1>1, <2>1 DEF Kubernetes, identity, history
<1>2. CASE Cloud
  BY <1>2 DEF Cloud, objects, history
<1>3. CASE CanaryRuns
  <2>1. job' \in Jobs /\ leftover' \in Pods
    BY <1>3 DEF CanaryRuns, Jobs, Pods, NewPod
  <2>. QED
    BY <1>3, <2>1 DEF CanaryRuns, objects, history
<1>. QED
  BY <1>1, <1>2, <1>3 DEF World

LEMMA CutsType ==
  ASSUME ClusterTypeOK, Cuts
  PROVE  ClusterTypeOK'
<1>. USE DEF ClusterTypeOK, PolicyTypes
<1>1. CASE CallFails
  <2>1. policies' \in [PolicyNames -> PolicyTypes] /\ cut' \subseteq {"strategy", "unseen", "job"}
    BY <1>1, CutShortType DEF CallFails
  <2>2. op' \in Passes /\ due' \in BOOLEAN
    BY <1>1, ConcludeType, IdleType DEF CallFails, Reasons
  <2>. QED
    BY <1>1, <2>1, <2>2 DEF CallFails, identity, objects
<1>2. CASE Restart
  <2>1. policies' \in [PolicyNames -> PolicyTypes] /\ cut' \subseteq {"strategy", "unseen", "job"}
    BY <1>2, CutShortType DEF Restart
  <2>. QED
    BY <1>2, <2>1, IdleType, NothingType DEF Restart, identity, objects
<1>. QED
  BY <1>1, <1>2 DEF Cuts

LEMMA TypeStep ==
  ASSUME ClusterTypeOK, NoteRead, [Next]_vars
  PROVE  ClusterTypeOK'
<1>1. CASE MovesOn
  BY <1>1, MovesOnFacts DEF ClusterTypeOK, identity, objects, history
<1>2. CASE ReconcilePolicies
  <2>1. policies' \in [PolicyNames -> PolicyTypes]
    BY <1>2, AppliedType, PolicyCount DEF ReconcilePolicies
  <2>2. op' \in Passes
    BY <1>2, GotoType DEF ReconcilePolicies, Calls, ClusterTypeOK
  <2>. QED
    BY <1>2, <2>1, <2>2
    DEF ReconcilePolicies, ClusterTypeOK, PolicyTypes, identity, objects, history
<1>3. CASE PatchClaim
  <2>1. op' \in Passes
    BY <1>3, GotoType, ConcludeType DEF PatchClaim, Calls, Reasons, ClusterTypeOK
  <2>2. claim' \in Claims
    BY <1>3, AsksType DEF PatchClaim, Claims, ClusterTypeOK
  <2>. QED
    BY <1>3, <2>1, <2>2 DEF PatchClaim, ClusterTypeOK, identity, history
<1>4. CASE Provision
  <2>1. op' \in Passes
    BY <1>4, ConcludeType DEF Provision, Reasons
  <2>. QED
    BY <1>4, <2>1 DEF Provision, ClusterTypeOK, identity, objects, history
<1>5. CASE UNCHANGED vars
  BY <1>5 DEF vars, ClusterTypeOK, identity, objects, history
<1>. QED
  BY <1>1, <1>2, <1>3, <1>4, <1>5, StepCases, TouchesClusterType, TouchesIdentityType,
     TouchesSetType, SyncsType, UserType, WorldType, CutsType

-----------------------------------------------------------------------------
(* What the groups of steps leave alone.                                   *)

LEMMA TouchesClusterFacts ==
  ASSUME ClusterTypeOK, TouchesCluster
  PROVE  /\ UNCHANGED <<scenario, seen, policies, identity, objects, cached, server, history>>
         /\ UNCHANGED <<rc.spec, rc.gen, rc.suspended>>
         /\ rc'.phase \in {rc.phase, "gone"}
<1>. USE DEF ClusterTypeOK, Objects
<1>1. CASE StartSuspended
  BY <1>1 DEF StartSuspended
<1>2. CASE ReleaseFinalizer
  BY <1>2 DEF ReleaseFinalizer
<1>3. CASE WriteStatus
  BY <1>3 DEF WriteStatus
<1>4. CASE NoteSuspension
  BY <1>4 DEF NoteSuspension
<1>5. CASE RememberStrategy
  BY <1>5 DEF RememberStrategy
<1>6. CASE ForgetStrategy
  BY <1>6 DEF ForgetStrategy
<1>. QED
  BY <1>1, <1>2, <1>3, <1>4, <1>5, <1>6 DEF TouchesCluster

LEMMA TouchesIdentityFacts ==
  ASSUME TouchesIdentity
  PROVE  UNCHANGED <<scenario, rc, seen, due, policies, injects, objects, cached, server, history>>
BY DEF TouchesIdentity, Associate, Dissociate, ApplyCanary, DeleteJob

LEMMA TouchesSetFacts ==
  ASSUME TouchesSet
  PROVE  UNCHANGED <<scenario, rc, seen, due, policies, identity, claim, pods, cached, server,
                     wanted, opened>>
BY DEF TouchesSet, DeleteSet, ApplySet, RecreateSet, OwnStrategy, history

LEMMA SyncsFacts ==
  ASSUME Syncs
  PROVE  /\ UNCHANGED <<scenario, rc, op, policies, identity, objects, server, history>>
         /\ seen' = seen \/ (At("idle") /\ seen' = rc)
BY DEF Syncs, SyncCluster, SyncObject

LEMMA CutsFacts ==
  ASSUME Cuts
  PROVE  /\ UNCHANGED <<scenario, rc, identity, objects, server, wanted, opened>>
         /\ seen' \in {seen, rc}
         /\ cut \subseteq cut'
BY DEF Cuts, CallFails, Restart, CutShort

LEMMA UserFacts ==
  ASSUME User
  PROVE  UNCHANGED <<scenario, seen, due, op, policies, identity, claim, pods, cached, server, cut>>
BY DEF User, EditSpec, Suspend, Resume, DeleteObject, AskOnDelete, objects, history

LEMMA WorldFacts ==
  ASSUME World
  PROVE  UNCHANGED <<scenario, rc, seen, due, op, policies, cached, history>>
BY DEF World, Kubernetes, Cloud, CanaryRuns

\* The steps that leave both copies of the cluster as they are.
LEMMA ClusterStays ==
  ASSUME ClusterTypeOK,
         \/ MovesOn \/ ReconcilePolicies \/ TouchesIdentity \/ PatchClaim \/ TouchesSet
         \/ Provision \/ World \/ UNCHANGED vars
  PROVE  UNCHANGED <<scenario, rc, seen>>
BY MovesOnFacts, TouchesIdentityFacts, TouchesSetFacts, WorldFacts
DEF ReconcilePolicies, PatchClaim, Provision, vars

LEMMA ScenarioStays ==
  ASSUME ClusterTypeOK, [Next]_vars
  PROVE  UNCHANGED scenario
BY StepCases, ClusterStays, TouchesClusterFacts, SyncsFacts, CutsFacts, UserFacts

LEMMA ObjectFacts ==
  ASSUME NEW o \in Objects
  PROVE  /\ o.gen \in Nat /\ o.readyFor \in Int /\ o.note \in Notes
         /\ o.spec \in AllSpecs /\ o.spec.size \in Nat
<1>1. o.spec \in AllSpecs /\ o.spec.size \in Nat
  BY SpecFacts DEF Objects
<1>2. o.readyFor \in {NotReady} \cup Nat /\ NotReady \in Int
  BY DEF Objects, NotReady
<1>3. o.gen \in Nat /\ o.note \in Notes
  BY DEF Objects
<1>. QED
  BY <1>1, <1>2, <1>3

LEMMA SeenStep ==
  ASSUME ClusterTypeOK, SeenBehind, [Next]_vars
  PROVE  SeenBehind'
<1>. USE DEF SeenBehind
<1>1. CASE UNCHANGED <<scenario, rc, seen>>
  BY <1>1
<1>2. CASE TouchesCluster
  BY <1>2, TouchesClusterFacts
<1>3. CASE Syncs \/ Cuts
  <2>1. UNCHANGED <<scenario, rc>> /\ seen' \in {seen, rc}
    BY <1>3, SyncsFacts, CutsFacts
  <2>2. rc.gen <= rc.gen /\ rc.spec.size <= rc.spec.size
    BY ObjectFacts DEF ClusterTypeOK
  <2>. QED
    BY <2>1, <2>2
<1>4. CASE User
  <2>0. UNCHANGED <<scenario, seen>>
    BY <1>4, UserFacts
  <2>1. CASE EditSpec
    <3>1. PICK spec \in scenario.specs :
            spec.size >= rc.spec.size /\ rc' = [rc EXCEPT !.spec = spec, !.gen = rc.gen + 1]
      BY <2>1 DEF EditSpec
    <3>2. rc'.spec = spec /\ rc'.gen = rc.gen + 1 /\ rc'.phase = rc.phase
      BY <3>1 DEF ClusterTypeOK, Objects
    <3>3. /\ rc.gen \in Nat /\ seen.gen \in Nat
          /\ spec.size \in Nat /\ rc.spec.size \in Nat /\ seen.spec.size \in Nat
      BY ObjectFacts, SpecFacts, ScenarioFacts DEF ClusterTypeOK
    <3>. QED
      BY <2>0, <3>1, <3>2, <3>3
  <2>2. CASE Suspend \/ Resume \/ DeleteObject \/ AskOnDelete
    <3>1. UNCHANGED <<rc.spec, rc.gen>> /\ (rc'.phase = "live" => rc.phase = "live")
      BY <2>2 DEF Suspend, Resume, DeleteObject, AskOnDelete, ClusterTypeOK, Objects
    <3>. QED
      BY <2>0, <3>1
  <2>. QED
    BY <1>4, <2>1, <2>2 DEF User
<1>. QED
  BY <1>1, <1>2, <1>3, <1>4, StepCases, ClusterStays

-----------------------------------------------------------------------------
(* The course of a pass.                                                   *)

LEMMA ConcludeFacts ==
  ASSUME NEW reason, Conclude(reason)
  PROVE  op'.pc = "status" /\ op'.then = reason
BY DEF Conclude, Idle

LEMMA GotoFacts ==
  ASSUME op \in Passes, NEW call, Goto(call)
  PROVE  op'.pc = call /\ UNCHANGED <<op.then, op.uid, op.note, op.ready>>
BY DEF Goto, Passes

\* The pass ends without having got to its end.
GivesUp == op'.pc = "status" /\ op'.then \notin {"Reconciled", "Provisioned", "claims"}

\* What the steps that only move a pass on do, one by one.
Moves ==
  \/ At("idle") /\ op'.pc = "policies"
  \/ At("pods") /\ job.pod = "token" /\ op'.pc = "claims"
  \/ /\ Decides /\ ~cached.ss.exists
     /\ op'.note = rc.note /\ op'.pc = Creates(rc.note)
  \/ /\ Decides
     /\ cached.ss.exists /\ ~cached.ss.dying /\ cached.ss.size = Asks.size
     /\ op'.pc = "apply"
  \/ At("probe") /\ ~Provisions /\ op'.pc = "status" /\ op'.then = "Reconciled"
  \/ At("probe") /\ op'.pc = "provision"
  \/ ~At("deleteJob") /\ GivesUp

LEMMA MovesOnCourse ==
  ASSUME ClusterTypeOK, MovesOn
  PROVE  Moves
<1>0. op \in Passes
  BY DEF ClusterTypeOK
<1>1. CASE StartPass
  BY <1>0, <1>1, GotoFacts DEF StartPass, PassStarts, Moves
<1>2. CASE CheckPods
  BY <1>0, <1>2, GotoFacts, ConcludeFacts DEF CheckPods, ShowsCredentials, Moves, GivesUp, At
<1>3. CASE ReadNote
  <2>1. op'.note = rc.note /\ op'.pc = Creates(rc.note)
    BY <1>0, <1>3 DEF ReadNote, Passes
  <2>. QED
    BY <1>3, <2>1 DEF ReadNote, Moves
<1>4. CASE AwaitDeletion
  BY <1>4, ConcludeFacts DEF AwaitDeletion, Decides, Moves, GivesUp, At
<1>5. CASE KeepStorage
  <2>1. op'.pc = "apply"
    BY <1>0, <1>5 DEF KeepStorage, Passes
  <2>. QED
    BY <1>5, <2>1 DEF KeepStorage, Moves
<1>6. CASE Refused
  BY <1>6, ConcludeFacts DEF Refused, Moves, GivesUp, At
<1>7. CASE ValidateStatus
  BY <1>7, ConcludeFacts DEF ValidateStatus, Moves, GivesUp, At
<1>8. CASE RejectConfig
  BY <1>8, ConcludeFacts DEF RejectConfig, Moves, GivesUp, At
<1>9. CASE ProbePod
  BY <1>0, <1>9, GotoFacts, ConcludeFacts DEF ProbePod, Moves, GivesUp, At
<1>. QED
  BY <1>1, <1>2, <1>3, <1>4, <1>5, <1>6, <1>7, <1>8, <1>9 DEF MovesOn

\* The steps that write the cluster object.
TouchesClusterCourse ==
  \/ At("idle") /\ op'.pc = "suspend"
  \/ At("idle") /\ op' = op
  \/ (At("status") \/ At("suspend")) /\ op'.pc = "idle"
  \/ /\ Decides
     /\ cached.ss.exists /\ ~cached.ss.dying /\ cached.ss.size # Asks.size
     /\ op'.pc = "delete" /\ op'.uid = cached.ss.uid /\ rc'.note = cached.ss.strategy
  \/ At("forget") /\ op'.pc = "probe"

LEMMA TouchesClusterMoves ==
  ASSUME ClusterTypeOK, TouchesCluster
  PROVE  /\ TouchesClusterCourse
         /\ RememberStrategy \/ ForgetStrategy \/ rc'.note = rc.note
<1>0. op \in Passes /\ rc \in Objects
  BY DEF ClusterTypeOK
<1>. USE DEF TouchesClusterCourse
<1>1. CASE StartSuspended
  BY <1>0, <1>1, GotoFacts DEF StartSuspended, PassStarts
<1>2. CASE ReleaseFinalizer
  BY <1>0, <1>2 DEF ReleaseFinalizer, PassStarts, Objects
<1>3. CASE WriteStatus
  BY <1>0, <1>3 DEF WriteStatus, Idle, Objects
<1>4. CASE NoteSuspension
  BY <1>0, <1>4 DEF NoteSuspension, Idle, Objects
<1>5. CASE RememberStrategy
  <2>1. op'.pc = "delete" /\ op'.uid = cached.ss.uid /\ rc'.note = cached.ss.strategy
    BY <1>0, <1>5 DEF RememberStrategy, Passes, Objects
  <2>. QED
    BY <1>5, <2>1 DEF RememberStrategy
<1>6. CASE ForgetStrategy
  BY <1>0, <1>6, GotoFacts DEF ForgetStrategy
<1>. QED
  BY <1>1, <1>2, <1>3, <1>4, <1>5, <1>6 DEF TouchesCluster

\* The steps about the cloud credentials.
TouchesIdentityCourse ==
  \/ /\ At("associate") /\ Asks.role /\ association = "synced"
     /\ op'.pc = "canary" /\ UNCHANGED <<association, job>>
  \/ /\ At("associate") /\ Asks.role /\ association # "synced"
     /\ association' = "applied" /\ UNCHANGED job /\ GivesUp
  \/ /\ At("associate") /\ ~Asks.role
     /\ op'.pc = "deleteJob" /\ op'.then = "claims"
     /\ association' = "none" /\ UNCHANGED job
  \/ /\ At("canary") /\ UNCHANGED association
     /\ \/ job'.outcome = "complete" /\ op'.pc = "claims"
        \/ op'.pc = "deleteJob" /\ op'.then \in {"CanaryPending", "CanaryFailed"}
        \/ op'.pc = "pods"
        \/ GivesUp
     /\ job' = IF job.exists THEN job
               ELSE [NoJob EXCEPT !.exists = TRUE, !.tolerations = Asks.tolerations]
  \/ /\ At("deleteJob") /\ UNCHANGED association /\ job' = NoJob
     /\ IF op.then = "claims" THEN op'.pc = "claims"
        ELSE op'.pc = "status" /\ op'.then = op.then

LEMMA JudgeMoves ==
  ASSUME op \in Passes, NEW j, Judge(j)
  PROVE  \/ j.outcome = "complete" /\ op'.pc = "claims"
         \/ op'.pc = "deleteJob" /\ op'.then \in {"CanaryPending", "CanaryFailed"}
         \/ op'.pc = "pods"
         \/ GivesUp
<1>1. ASSUME NEW reason \in {"CanaryPending", "CanaryFailed"}, DropJob(reason)
      PROVE  op'.pc = "deleteJob" /\ op'.then = reason
  BY <1>1 DEF DropJob, Passes
<1>. QED
  BY <1>1, GotoFacts, ConcludeFacts DEF Judge, Undecided, GivesUp

LEMMA TouchesIdentityMoves ==
  ASSUME ClusterTypeOK, TouchesIdentity
  PROVE  TouchesIdentityCourse
<1>0. op \in Passes
  BY DEF ClusterTypeOK
<1>. USE DEF TouchesIdentityCourse
<1>1. CASE Associate
  BY <1>0, <1>1, GotoFacts, ConcludeFacts DEF Associate, IsSynced, GivesUp, ClusterTypeOK
<1>2. CASE Dissociate
  <2>1. op'.pc = "deleteJob" /\ op'.then = "claims"
    BY <1>0, <1>2 DEF Dissociate, Passes
  <2>. QED
    BY <1>2, <2>1 DEF Dissociate
<1>3. CASE ApplyCanary
  BY <1>0, <1>3, JudgeMoves DEF ApplyCanary
<1>4. CASE DeleteJob
  <2>1. op.then = "claims" => op'.pc = "claims"
    BY <1>0, <1>4 DEF DeleteJob, Passes
  <2>2. op.then # "claims" => op'.pc = "status" /\ op'.then = op.then
    BY <1>4, ConcludeFacts DEF DeleteJob
  <2>. QED
    BY <1>4, <2>1, <2>2 DEF DeleteJob
<1>. QED
  BY <1>1, <1>2, <1>3, <1>4 DEF TouchesIdentity

\* The steps that write the StatefulSet.
LEMMA TouchesSetMoves ==
  ASSUME ClusterTypeOK, TouchesSet
  PROVE  \/ At("delete") /\ GivesUp
         \/ At("apply") /\ op'.pc \in {"probe", "forget"}
         \/ At("recreate") /\ op'.pc = "own" /\ op'.note = op.note
         \/ At("own") /\ op'.pc = "forget"
<1>0. op \in Passes
  BY DEF ClusterTypeOK
<1>1. CASE DeleteSet
  BY <1>1, ConcludeFacts DEF DeleteSet, GivesUp
<1>2. CASE ApplySet
  BY <1>0, <1>2 DEF ApplySet, Answered, Passes
<1>3. CASE RecreateSet
  BY <1>0, <1>3 DEF RecreateSet, Answered, Passes
<1>4. CASE OwnStrategy
  BY <1>0, <1>4, GotoFacts DEF OwnStrategy
<1>. QED
  BY <1>1, <1>2, <1>3, <1>4 DEF TouchesSet

LEMMA PatchMoves ==
  ASSUME ClusterTypeOK, PatchClaim
  PROVE  /\ At("claims") /\ (op'.pc = "storage" \/ GivesUp)
         /\ UNCHANGED <<scenario, rc, seen, policies, identity, ss, pods, cached, server, history>>
BY GotoFacts, ConcludeFacts DEF PatchClaim, GivesUp, ClusterTypeOK

LEMMA ProvisionMoves ==
  ASSUME Provision
  PROVE  /\ At("provision") /\ op'.pc = "status"
         /\ GivesUp \/ (op'.then = "Provisioned" /\ server')
         /\ server => server'
         /\ UNCHANGED <<scenario, rc, seen, policies, identity, objects, cached, history>>
BY ConcludeFacts DEF Provision, GivesUp

LEMMA PoliciesMoves ==
  ASSUME ClusterTypeOK, ReconcilePolicies
  PROVE  /\ At("policies") /\ op'.pc = "associate"
         /\ policies' = Applied(8)
         /\ UNCHANGED <<scenario, rc, seen, due, identity, objects, cached, server, history>>
BY GotoFacts, PolicyCount DEF ReconcilePolicies, ClusterTypeOK

LEMMA CutsMoves ==
  ASSUME Cuts
  PROVE  op'.pc = "idle" \/ (GivesUp /\ UNCHANGED <<seen, cached>>)
<1>1. Conclude("Failed") => GivesUp
  BY ConcludeFacts DEF GivesUp
<1>2. Idle.pc = "idle"
  BY DEF Idle
<1>. QED
  BY <1>1, <1>2 DEF Cuts, CallFails, Restart

\* A recreation is not overtaken by another note.
LEMMA NoteStep ==
  ASSUME ClusterTypeOK, NoteRead, [Next]_vars
  PROVE  NoteRead'
<1>. USE DEF NoteRead
<1>1. CASE MovesOn
  <2>1. UNCHANGED rc /\ rc.note \in Notes
    BY <1>1, MovesOnFacts, ObjectFacts DEF ClusterTypeOK
  <2>. QED
    BY <1>1, <2>1, MovesOnCourse DEF Moves, Creates, GivesUp, Notes, NoNote
<1>2. CASE TouchesCluster
  BY <1>2, TouchesClusterMoves DEF TouchesClusterCourse, At
<1>3. CASE ReconcilePolicies \/ PatchClaim \/ Provision
  BY <1>3, PoliciesMoves, PatchMoves, ProvisionMoves DEF GivesUp
<1>4. CASE TouchesIdentity
  BY <1>4, TouchesIdentityMoves DEF TouchesIdentityCourse, GivesUp
<1>5. CASE TouchesSet
  BY <1>5, TouchesSetMoves, TouchesSetFacts DEF GivesUp, At
<1>6. CASE Cuts
  BY <1>6, CutsMoves DEF GivesUp
<1>7. CASE Syncs \/ World \/ UNCHANGED vars
  BY <1>7, SyncsFacts, WorldFacts DEF vars
<1>8. CASE User
  <2>1. UNCHANGED <<op, rc.note>>
    BY <1>8, UserFacts
    DEF User, EditSpec, Suspend, Resume, DeleteObject, AskOnDelete, ClusterTypeOK, Objects
  <2>. QED
    BY <2>1
<1>. QED
  BY <1>1, <1>2, <1>3, <1>4, <1>5, <1>6, <1>7, <1>8, StepCases

-----------------------------------------------------------------------------
(* Network policies.                                                       *)

LEMMA PoliciesStep ==
  ASSUME ClusterTypeOK, DropsFor, PoliciesApplied, [Next]_vars
  PROVE  PoliciesApplied'
<1>. USE DEF PoliciesApplied, Covered, PastPolicies, At
<1>1. ASSUME UNCHANGED <<seen, policies, scenario>>, Covered' => Covered
      PROVE  PoliciesApplied'
  BY <1>1 DEF DesiredPolicy, Access, AdminPeers, NodePeers, OperatorLabelled, Asks
<1>2. CASE MovesOn
  <2>1. Covered' => Covered
    BY <1>2, MovesOnCourse DEF Moves, GivesUp, Decides
  <2>. QED
    BY <1>1, <1>2, <2>1, MovesOnFacts
<1>3. CASE TouchesCluster
  <2>1. Covered' => Covered
    BY <1>3, TouchesClusterMoves DEF TouchesClusterCourse, Decides
  <2>. QED
    BY <1>1, <1>3, <2>1, TouchesClusterFacts
<1>4. CASE ReconcilePolicies
  <2>1. policies' = Applied(8) /\ UNCHANGED <<seen, scenario>>
    BY <1>4, PoliciesMoves
  <2>2. \A name \in PolicyNames : policies'[name] = DesiredPolicy(name, Asks)
    BY <2>1, AppliedPolicies
  <2>. QED
    BY <2>1, <2>2
    DEF DesiredPolicy, Access, AdminPeers, NodePeers, OperatorLabelled, Asks
<1>5. CASE TouchesIdentity
  <2>1. Covered' => Covered
    BY <1>5, TouchesIdentityMoves DEF TouchesIdentityCourse, GivesUp, DropsFor
  <2>. QED
    BY <1>1, <1>5, <2>1, TouchesIdentityFacts
<1>6. CASE PatchClaim \/ Provision
  BY <1>1, <1>6, PatchMoves, ProvisionMoves DEF GivesUp
<1>7. CASE TouchesSet
  <2>1. Covered' => Covered
    BY <1>7, TouchesSetMoves DEF GivesUp
  <2>. QED
    BY <1>1, <1>7, <2>1, TouchesSetFacts
<1>8. CASE Cuts
  BY <1>8, CutsMoves DEF GivesUp
<1>9. CASE Syncs
  BY <1>9, <1>1, SyncsFacts
<1>10. CASE User \/ World \/ UNCHANGED vars
  BY <1>10, <1>1, UserFacts, WorldFacts DEF vars
<1>. QED
  BY <1>2, <1>3, <1>4, <1>5, <1>6, <1>7, <1>8, <1>9, <1>10, StepCases

\* A spec that is fenced off asks for rules that name whom they let in.
LEMMA NamedPeersOnly ==
  ASSUME NEW spec \in Specs, ~LetsAllIn(spec), NEW name
  PROVE  /\ ShutsOut(DesiredPolicy(name, spec))
         /\ name = "deny" => DesiredPolicy(name, spec).exists
<1>. DEFINE Named(list) == "stranger" \notin list.from /\ (list.set => list.from # {})
<1>1. spec.peers \in {"unset", "given"}
  BY DEF Specs, LetsAllIn
<1>2. Named(Unset) /\ Named(GivenPeers(spec))
  BY <1>1 DEF GivenPeers, Unset, ListOf
<1>3. \A list, peer : Named(list) /\ peer # "stranger" =>
        Named(AddPeer(list, peer)) /\ Named(ListOf(list.from \cup {peer}))
  BY DEF AddPeer, ListOf
<1>4. Named(AdminPeers(spec)) /\ Named(NodePeers(spec))
  BY <1>2, <1>3 DEF AdminPeers, NodePeers
<1>5. \A list : Named(list) => ShutsOut(Policy(list)) /\ Policy(list).exists
  BY DEF Policy, ShutsOut
<1>6. ShutsOut(Access(name, spec)) /\ Access(name, spec).exists
  BY <1>2, <1>4, <1>5 DEF Access
<1>7. ShutsOut(NoPolicy)
  BY DEF NoPolicy, ShutsOut
<1>. QED
  BY <1>6, <1>7 DEF DesiredPolicy, LetsAllIn

\* Every prefix of the policies keeps the pods fenced off.
LEMMA AppliedFencesOff ==
  ASSUME ClusterTypeOK, SeenBehind, FencedOff, ~opened, NEW n \in 0 .. 8
  PROVE  /\ \A name \in PolicyNames : ShutsOut(Applied(n)[name])
         /\ policies["deny"].exists \/ n = 8 => Applied(n)["deny"].exists
<1>1. Asks \in Specs /\ ~LetsAllIn(Asks)
  BY AsksType DEF FencedOff, Asks
<1>2. \A name \in PolicyNames : ShutsOut(DesiredPolicy(name, Asks)) /\ ShutsOut(policies[name])
  BY <1>1, NamedPeersOnly DEF FencedOff
<1>3. "deny" \in PolicyNames /\ DesiredPolicy("deny", Asks).exists
  BY <1>1, NamedPeersOnly, PolicyNamesAre
<1>. QED
  BY <1>2, <1>3, AppliedPolicies

\* What was asked for stays asked for, and the copies ask for nothing else.
LEMMA OpenedStep ==
  ASSUME ClusterTypeOK, FencedOff, [Next]_vars, ~opened'
  PROVE  ~opened /\ ~LetsAllIn(rc'.spec) /\ ~LetsAllIn(seen'.spec)
<1>1. ASSUME UNCHANGED <<opened, rc.spec>>, seen' \in {seen, rc}
      PROVE  ~opened /\ ~LetsAllIn(rc'.spec) /\ ~LetsAllIn(seen'.spec)
  BY <1>1 DEF FencedOff
<1>2. CASE MovesOn \/ TouchesCluster \/ TouchesIdentity \/ TouchesSet
  BY <1>1, <1>2, MovesOnFacts, TouchesClusterFacts, TouchesIdentityFacts, TouchesSetFacts
  DEF history
<1>3. CASE ReconcilePolicies \/ PatchClaim \/ Provision
  BY <1>1, <1>3, PoliciesMoves, PatchMoves, ProvisionMoves DEF history
<1>4. CASE Cuts \/ Syncs
  BY <1>1, <1>4, CutsFacts, SyncsFacts DEF history
<1>5. CASE World \/ UNCHANGED vars
  BY <1>1, <1>5, WorldFacts DEF vars, history
<1>6. CASE User
  <2>1. CASE EditSpec
    <3>1. PICK spec \in scenario.specs :
            rc' = [rc EXCEPT !.spec = spec, !.gen = @ + 1] /\ opened' = (opened \/ LetsAllIn(spec))
      BY <2>1 DEF EditSpec
    <3>2. rc'.spec = spec
      BY <3>1 DEF ClusterTypeOK, Objects
    <3>. QED
      BY <2>1, <3>1, <3>2 DEF EditSpec, FencedOff
  <2>2. CASE Suspend \/ Resume \/ DeleteObject \/ AskOnDelete
    <3>1. rc'.spec = rc.spec
      BY <2>2 DEF Suspend, Resume, DeleteObject, AskOnDelete, ClusterTypeOK, Objects
    <3>2. UNCHANGED <<opened, seen>>
      BY <2>2 DEF Suspend, Resume, DeleteObject, AskOnDelete, history
    <3>. QED
      BY <1>1, <3>1, <3>2
  <2>. QED
    BY <1>6, <2>1, <2>2 DEF User
<1>. QED
  BY <1>2, <1>3, <1>4, <1>5, <1>6, StepCases

LEMMA FencedStep ==
  ASSUME ClusterTypeOK, SeenBehind, DropsFor, FencedOff, [Next]_vars
  PROVE  FencedOff'
<1>. SUFFICES ASSUME ~opened'
     PROVE  /\ \A name \in PolicyNames : ShutsOut(policies'[name])
            /\ Covered' \/ ss'.exists \/ pods'.state # "none" => policies'["deny"].exists
  BY OpenedStep DEF FencedOff, ShutsOut, LetsAllIn
<1>a. ~opened
  BY OpenedStep
<1>. DEFINE Here == Covered \/ ss.exists \/ pods.state # "none"
<1>0. Here => policies["deny"].exists
  BY <1>a DEF FencedOff
<1>1. ASSUME UNCHANGED policies, Here' => Here
      PROVE  /\ \A name \in PolicyNames : ShutsOut(policies'[name])
             /\ Covered' \/ ss'.exists \/ pods'.state # "none" => policies'["deny"].exists
  BY <1>a, <1>0, <1>1 DEF FencedOff
<1>. USE DEF Covered, PastPolicies, At
<1>2. CASE MovesOn
  <2>1. Covered' => Covered
    BY <1>2, MovesOnCourse DEF Moves, GivesUp, Decides
  <2>. QED
    BY <1>1, <1>2, <2>1, MovesOnFacts DEF objects
<1>3. CASE TouchesCluster
  <2>1. Covered' => Covered
    BY <1>3, TouchesClusterMoves DEF TouchesClusterCourse, Decides
  <2>. QED
    BY <1>1, <1>3, <2>1, TouchesClusterFacts DEF objects
<1>4. CASE ReconcilePolicies
  <2>1. policies' = Applied(8)
    BY <1>4, PoliciesMoves
  <2>. QED
    BY <1>a, <2>1, AppliedFencesOff
<1>5. CASE TouchesIdentity
  <2>1. Covered' => Covered
    BY <1>5, TouchesIdentityMoves DEF TouchesIdentityCourse, GivesUp, DropsFor
  <2>. QED
    BY <1>1, <1>5, <2>1, TouchesIdentityFacts DEF objects
<1>6. CASE PatchClaim \/ Provision
  BY <1>1, <1>6, PatchMoves, ProvisionMoves DEF GivesUp, objects
<1>7. CASE TouchesSet
  <2>1. Covered /\ UNCHANGED <<policies, pods>>
    BY <1>7, TouchesSetMoves, TouchesSetFacts
  <2>. QED
    BY <1>1, <2>1
<1>8. CASE Cuts
  <2>1. UNCHANGED <<ss, pods>> /\ (Covered' => Covered)
    BY <1>8, CutsMoves, CutsFacts DEF GivesUp, objects
  <2>2. \/ UNCHANGED policies
        \/ \E n \in 0 .. 7 : policies' = Applied(n)
    BY <1>8, PolicyCount DEF Cuts, CallFails, Restart, CutShort
  <2>. QED
    BY <1>a, <1>0, <1>1, <2>1, <2>2, AppliedFencesOff
<1>9. CASE Syncs
  BY <1>9, <1>1, SyncsFacts DEF objects
<1>10. CASE User
  <2>1. ss'.exists => ss.exists
    BY <1>10 DEF User, EditSpec, Suspend, Resume, DeleteObject, AskOnDelete, objects
  <2>. QED
    BY <1>1, <1>10, <2>1, UserFacts
<1>11. CASE World
  <2>1. ss'.exists \/ pods'.state # "none" => ss.exists \/ pods.state # "none"
    BY <1>11
    DEF World, Kubernetes, Cloud, CanaryRuns, PodsReady, ManageSet, Orphaned, Roll, Managed,
        NoSet, objects
  <2>. QED
    BY <1>1, <1>11, <2>1, WorldFacts
<1>12. CASE UNCHANGED vars
  BY <1>1, <1>12 DEF vars, objects
<1>. QED
  BY <1>2, <1>3, <1>4, <1>5, <1>6, <1>7, <1>8, <1>9, <1>10, <1>11, <1>12, StepCases

-----------------------------------------------------------------------------
(* Credentials.                                                            *)

LEMMA DropsStep ==
  ASSUME ClusterTypeOK, DropsFor, [Next]_vars
  PROVE  DropsFor'
<1>. USE DEF DropsFor, At
<1>1. CASE MovesOn
  BY <1>1, MovesOnCourse, ObjectFacts DEF Moves, GivesUp, Creates
<1>2. CASE TouchesCluster
  BY <1>2, TouchesClusterMoves DEF TouchesClusterCourse
<1>3. CASE ReconcilePolicies \/ PatchClaim \/ Provision
  BY <1>3, PoliciesMoves, PatchMoves, ProvisionMoves DEF GivesUp
<1>4. CASE TouchesIdentity
  BY <1>4, TouchesIdentityMoves DEF TouchesIdentityCourse, GivesUp
<1>5. CASE TouchesSet
  BY <1>5, TouchesSetMoves DEF GivesUp
<1>6. CASE Cuts
  BY <1>6, CutsMoves DEF GivesUp
<1>7. CASE Syncs \/ World \/ User \/ UNCHANGED vars
  BY <1>7, SyncsFacts, WorldFacts, UserFacts DEF vars
<1>. QED
  BY <1>1, <1>2, <1>3, <1>4, <1>5, <1>6, <1>7, StepCases

LEMMA AssociatedStep ==
  ASSUME ClusterTypeOK, DropsFor, Associated, [Next]_vars
  PROVE  Associated'
<1>. USE DEF Associated, DropsFor, Clearing, PastCanary, At, Asks
<1>1. CASE MovesOn
  BY <1>1, MovesOnCourse, MovesOnFacts DEF Moves, GivesUp, Creates, Decides, identity
<1>2. CASE TouchesCluster
  BY <1>2, TouchesClusterMoves, TouchesClusterFacts DEF TouchesClusterCourse, Decides, identity
<1>3. CASE ReconcilePolicies \/ PatchClaim \/ Provision
  BY <1>3, PoliciesMoves, PatchMoves, ProvisionMoves DEF GivesUp, identity
<1>4. CASE TouchesIdentity
  BY <1>4, TouchesIdentityMoves, TouchesIdentityFacts DEF TouchesIdentityCourse, GivesUp
<1>5. CASE TouchesSet
  BY <1>5, TouchesSetMoves, TouchesSetFacts DEF GivesUp, identity
<1>6. CASE Cuts
  BY <1>6, CutsMoves DEF GivesUp
<1>7. CASE Syncs
  BY <1>7, SyncsFacts DEF identity
<1>8. CASE User
  BY <1>8, UserFacts DEF identity
<1>9. CASE World
  <2>1. UNCHANGED association \/ (association = "applied" /\ association' = "synced")
    BY <1>9 DEF World, Kubernetes, Cloud, CanaryRuns, identity
  <2>. QED
    BY <1>9, <2>1, WorldFacts
<1>10. CASE UNCHANGED vars
  BY <1>10 DEF vars, identity
<1>. QED
  BY <1>1, <1>2, <1>3, <1>4, <1>5, <1>6, <1>7, <1>8, <1>9, <1>10, StepCases

LEMMA CanaryStep ==
  ASSUME ClusterTypeOK, DropsFor, Associated, CanarySpeaks, [Next]_vars
  PROVE  CanarySpeaks'
<1>. USE DEF CanarySpeaks, Clearing, At
<1>0. injects \in BOOLEAN
  BY DEF ClusterTypeOK
<1>1. ASSUME UNCHANGED <<association, injects, job>>, cut \subseteq cut',
             Clearing => Clearing' \/ "job" \in cut'
      PROVE  CanarySpeaks'
  BY <1>1
<1>2. CASE MovesOn
  BY <1>2, <1>1, MovesOnCourse, MovesOnFacts DEF Moves, Decides, GivesUp, identity, history
<1>3. CASE TouchesCluster
  BY <1>3, <1>1, TouchesClusterMoves, TouchesClusterFacts
  DEF TouchesClusterCourse, Decides, identity, history
<1>4. CASE ReconcilePolicies \/ PatchClaim \/ Provision
  BY <1>4, <1>1, PoliciesMoves, PatchMoves, ProvisionMoves DEF GivesUp, identity, history
<1>5. CASE TouchesIdentity
  <2>0. UNCHANGED <<injects, cut, seen>>
    BY <1>5, TouchesIdentityFacts DEF history
  <2>1. CASE At("associate") /\ UNCHANGED job
    BY <1>5, <2>0, <2>1, TouchesIdentityMoves DEF TouchesIdentityCourse, GivesUp
  <2>2. CASE At("canary")
    <3>1. association = "synced" /\ UNCHANGED association
      BY <1>5, <2>2, TouchesIdentityMoves DEF TouchesIdentityCourse, Associated
    <3>2. CASE job.exists
      <4>1. UNCHANGED job
        BY <1>5, <2>2, <3>2, TouchesIdentityMoves DEF TouchesIdentityCourse
      <4>. QED
        BY <2>0, <2>2, <3>1, <4>1
    <3>3. CASE ~job.exists
      <4>1. job' = [NoJob EXCEPT !.exists = TRUE, !.tolerations = Asks.tolerations]
        BY <1>5, <2>2, <3>3, TouchesIdentityMoves DEF TouchesIdentityCourse
      <4>2. job'.exists /\ job'.pod = "none" /\ job'.outcome = "pending"
        BY <4>1 DEF NoJob
      <4>. QED
        BY <3>1, <4>2
    <3>. QED
      BY <3>2, <3>3
  <2>3. CASE job' = NoJob
    BY <2>3 DEF NoJob
  <2>. QED
    BY <1>5, <2>1, <2>2, <2>3, TouchesIdentityMoves DEF TouchesIdentityCourse
<1>6. CASE TouchesSet
  <2>1. cut \subseteq cut' /\ UNCHANGED <<association, injects, job>>
    BY <1>6, TouchesSetFacts
    DEF TouchesSet, DeleteSet, ApplySet, RecreateSet, OwnStrategy, identity, history
  <2>. QED
    BY <1>6, <1>1, <2>1, TouchesSetMoves
<1>7. CASE Cuts
  <2>1. Clearing => "job" \in cut'
    BY <1>7 DEF Cuts, CallFails, Restart, CutShort
  <2>. QED
    BY <1>1, <1>7, <2>1, CutsFacts DEF identity
<1>8. CASE Syncs
  BY <1>8, <1>1, SyncsFacts DEF identity, history
<1>9. CASE User
  BY <1>9, <1>1, UserFacts DEF identity
<1>10. CASE World
  <2>1. CASE Kubernetes
    BY <1>1, <2>1 DEF Kubernetes, identity, history
  <2>2. CASE Cloud
    BY <1>0, <2>2 DEF Cloud, NoJob, history
  <2>3. CASE CanaryRuns
    BY <2>3 DEF CanaryRuns, NewPod, history, NoJob, ClusterTypeOK, Jobs
  <2>. QED
    BY <1>10, <2>1, <2>2, <2>3 DEF World
<1>11. CASE UNCHANGED vars
  BY <1>1, <1>11 DEF vars, identity, history
<1>. QED
  BY <1>2, <1>3, <1>4, <1>5, <1>6, <1>7, <1>8, <1>9, <1>10, <1>11, StepCases

LEMMA ProvenStep ==
  ASSUME ClusterTypeOK, DropsFor, Associated, CanarySpeaks, Proven, [Next]_vars
  PROVE  Proven'
<1>. USE DEF Proven, PastCanary, At, Asks
<1>1. CASE MovesOn
  BY <1>1, MovesOnCourse, MovesOnFacts
  DEF Moves, Decides, GivesUp, CanarySpeaks, Clearing, identity, history
<1>2. CASE TouchesCluster
  BY <1>2, TouchesClusterMoves, TouchesClusterFacts
  DEF TouchesClusterCourse, Decides, identity, history
<1>3. CASE ReconcilePolicies \/ PatchClaim \/ Provision
  BY <1>3, PoliciesMoves, PatchMoves, ProvisionMoves DEF GivesUp, identity, history
<1>4. CASE TouchesIdentity
  BY <1>4, TouchesIdentityMoves, TouchesIdentityFacts
  DEF TouchesIdentityCourse, GivesUp, CanarySpeaks, Clearing, Associated, NoJob, history
<1>5. CASE TouchesSet
  <2>1. cut \subseteq cut'
    BY <1>5 DEF TouchesSet, DeleteSet, ApplySet, RecreateSet, OwnStrategy, history
  <2>. QED
    BY <1>5, <2>1, TouchesSetMoves, TouchesSetFacts DEF GivesUp, identity
<1>6. CASE Cuts
  BY <1>6, CutsMoves DEF GivesUp
<1>7. CASE Syncs
  BY <1>7, SyncsFacts DEF identity, history
<1>8. CASE User
  BY <1>8, UserFacts DEF identity
<1>9. CASE World
  <2>1. Asks.role /\ PastCanary /\ injects => injects'
    BY <1>9
    DEF World, Kubernetes, Cloud, CanaryRuns, Associated, identity, ClusterTypeOK
  <2>. QED
    BY <1>9, <2>1, WorldFacts DEF history
<1>10. CASE UNCHANGED vars
  BY <1>10 DEF vars, identity, history
<1>. QED
  BY <1>1, <1>2, <1>3, <1>4, <1>5, <1>6, <1>7, <1>8, <1>9, <1>10, StepCases

-----------------------------------------------------------------------------
(* The StatefulSet.                                                        *)

LEMMA SetFacts ==
  ASSUME ClusterTypeOK
  PROVE  /\ ss.uid \in Nat /\ ss.size \in Nat /\ cached.ss.uid \in Nat /\ cached.ss.size \in Nat
         /\ Asks.size \in Nat /\ rc.spec.size \in Nat
<1>1. Sizes \cup {0} \subseteq Nat
  BY SpecFacts
<1>2. ss \in StatefulSets /\ cached.ss \in StatefulSets
  BY DEF ClusterTypeOK
<1>3. Asks.size \in Nat /\ rc.spec.size \in Nat
  BY ObjectFacts DEF ClusterTypeOK, Asks
<1>. QED
  BY <1>1, <1>2, <1>3 DEF StatefulSets

\* An apply leaves the StatefulSet it finds the one it is, or creates another.
LEMMA AppliedSetFacts ==
  ASSUME ClusterTypeOK
  PROVE  /\ AppliedSet.exists /\ AppliedSet.dying = ss.dying /\ AppliedSet.held = ss.held
         /\ AppliedSet.uid = IF ss.exists THEN ss.uid ELSE ss.uid + 1
         /\ AppliedSet.size = Asks.size /\ AppliedSet.tmpl = Asks.tmpl
         /\ AppliedSet.role = Asks.role
         /\ AppliedSet.strategy = IF ss.exists /\ ss.held THEN ss.strategy ELSE "RollingUpdate"
<1>1. ss \in StatefulSets
  BY DEF ClusterTypeOK
<1>. QED
  BY <1>1 DEF AppliedSet, StatefulSets

LEMMA RecreatedSetFacts ==
  ASSUME ClusterTypeOK
  PROVE  /\ RecreatedSet.exists /\ RecreatedSet.dying = ss.dying
         /\ RecreatedSet.held = (ss.held /\ ss.strategy = op.note)
         /\ RecreatedSet.uid = IF ss.exists THEN ss.uid ELSE ss.uid + 1
         /\ RecreatedSet.size = Asks.size /\ RecreatedSet.tmpl = Asks.tmpl
         /\ RecreatedSet.role = Asks.role
         /\ RecreatedSet.strategy = op.note
<1>1. ss \in StatefulSets
  BY DEF ClusterTypeOK
<1>. QED
  BY <1>1 DEF RecreatedSet, AppliedSet, StatefulSets

\* What becomes of the StatefulSet, but for its strategy.
SetStays == UNCHANGED <<ss.exists, ss.uid, ss.size, ss.tmpl, ss.role, ss.dying>>

SetDeleted ==
  /\ At("delete") /\ ss.exists /\ ss.uid = op.uid
  /\ UNCHANGED <<ss.exists, ss.uid, ss.size, ss.tmpl, ss.role, ss.strategy, ss.held>>
  /\ ss'.dying

SetWritten ==
  /\ At("apply") \/ At("recreate")
  /\ Accepts
  /\ ss'.exists /\ UNCHANGED ss.dying
  /\ ss'.uid = IF ss.exists THEN ss.uid ELSE ss.uid + 1
  /\ <<ss'.size, ss'.tmpl, ss'.role>> = <<Asks.size, Asks.tmpl, Asks.role>>

SetGone == ss.dying /\ ~ss'.exists /\ ~ss'.dying /\ ~ss'.role /\ UNCHANGED ss.uid

LEMMA TouchesSetCourse ==
  ASSUME ClusterTypeOK, TouchesSet
  PROVE  \/ SetDeleted
         \/ SetWritten
         \/ SetStays /\ At("own")
<1>0. ss \in StatefulSets
  BY DEF ClusterTypeOK
<1>1. CASE DeleteSet
  BY <1>0, <1>1 DEF DeleteSet, IsSameSet, SetDeleted, StatefulSets
<1>2. CASE ApplySet
  BY <1>2, AppliedSetFacts DEF ApplySet, SetWritten
<1>3. CASE RecreateSet
  BY <1>3, RecreatedSetFacts DEF RecreateSet, SetWritten
<1>4. CASE OwnStrategy
  BY <1>0, <1>4 DEF OwnStrategy, SetStays, StatefulSets
<1>. QED
  BY <1>1, <1>2, <1>3, <1>4 DEF TouchesSet

LEMMA UserSet ==
  ASSUME ClusterTypeOK, User
  PROVE  SetStays
BY DEF User, EditSpec, Suspend, Resume, DeleteObject, AskOnDelete, SetStays, objects,
       ClusterTypeOK, StatefulSets

LEMMA WorldSet ==
  ASSUME ClusterTypeOK, World
  PROVE  UNCHANGED ss \/ SetGone
<1>1. Orphaned => SetGone
  BY DEF Orphaned, SetGone, NoSet
<1>. QED
  BY <1>1 DEF World, Kubernetes, Cloud, CanaryRuns, PodsReady, ManageSet, Roll, objects

\* Only the watch and a restart of the operator change its copies, and never to less.
LEMMA CopiesMove ==
  ASSUME ClusterTypeOK, SeenBehind, [Next]_vars
  PROVE  /\ seen'.spec.size >= seen.spec.size
         /\ \/ UNCHANGED cached.ss
            \/ cached'.ss = NoSet
            \/ cached'.ss = Shown.ss /\ UNCHANGED <<ss, seen, op>> /\ ~At("delete")
<1>0. rc.spec.size >= seen.spec.size /\ seen.spec.size >= seen.spec.size
  BY ObjectFacts DEF SeenBehind, ClusterTypeOK
<1>1. CASE UNCHANGED <<seen, cached>>
  BY <1>0, <1>1
<1>2. CASE MovesOn
  BY <1>1, <1>2, MovesOnFacts
<1>3. CASE TouchesCluster
  BY <1>1, <1>3, TouchesClusterFacts
<1>4. CASE ReconcilePolicies \/ PatchClaim \/ Provision
  BY <1>1, <1>4, PoliciesMoves, PatchMoves, ProvisionMoves
<1>5. CASE TouchesIdentity
  BY <1>1, <1>5, TouchesIdentityFacts
<1>6. CASE TouchesSet
  BY <1>1, <1>6, TouchesSetFacts
<1>7. CASE Cuts
  <2>1. seen' \in {seen, rc} /\ (UNCHANGED cached \/ cached'.ss = NoSet)
    BY <1>7 DEF Cuts, CallFails, Restart
  <2>. QED
    BY <1>0, <2>1
<1>8. CASE SyncCluster
  BY <1>0, <1>8 DEF SyncCluster
<1>9. CASE SyncObject("ss")
  BY <1>0, <1>9 DEF SyncObject, ClusterTypeOK, objects, At
<1>10. CASE SyncObject("claim")
  BY <1>0, <1>10 DEF SyncObject, ClusterTypeOK
<1>11. CASE User \/ World \/ UNCHANGED vars
  BY <1>1, <1>11, UserFacts, WorldFacts DEF vars
<1>. QED
  BY <1>2, <1>3, <1>4, <1>5, <1>6, <1>7, <1>8, <1>9, <1>10, <1>11, StepCases DEF Syncs

LEMMA SetMoves ==
  ASSUME ClusterTypeOK, [Next]_vars
  PROVE  \/ UNCHANGED ss
         \/ SetStays /\ UNCHANGED cached
         \/ (SetDeleted \/ SetWritten \/ SetGone) /\ UNCHANGED <<seen, cached>>
<1>1. CASE MovesOn
  BY <1>1, MovesOnFacts DEF objects
<1>2. CASE TouchesCluster
  BY <1>2, TouchesClusterFacts DEF objects
<1>3. CASE ReconcilePolicies \/ PatchClaim \/ Provision
  BY <1>3, PoliciesMoves, PatchMoves, ProvisionMoves DEF objects
<1>4. CASE TouchesIdentity
  BY <1>4, TouchesIdentityFacts DEF objects
<1>5. CASE TouchesSet
  BY <1>5, TouchesSetCourse, TouchesSetFacts
<1>6. CASE Cuts \/ Syncs
  BY <1>6, CutsFacts, SyncsFacts DEF objects
<1>7. CASE User
  BY <1>7, UserSet, UserFacts
<1>8. CASE World
  BY <1>8, WorldSet, WorldFacts
<1>9. CASE UNCHANGED vars
  BY <1>9 DEF vars, objects
<1>. QED
  BY <1>1, <1>2, <1>3, <1>4, <1>5, <1>6, <1>7, <1>8, <1>9, StepCases

LEMMA DeletesStep ==
  ASSUME ClusterTypeOK, SeenBehind, CachedBehind, DeletesCached, [Next]_vars
  PROVE  DeletesCached'
<1>. USE DEF DeletesCached, At, Asks
<1>1. CASE MovesOn
  BY <1>1, MovesOnCourse, MovesOnFacts DEF Moves, Creates, GivesUp
<1>2. CASE RememberStrategy
  <2>1. UNCHANGED <<cached, seen>> /\ cached.ss.exists /\ cached.ss.size # Asks.size
    BY <1>2, TouchesClusterFacts DEF RememberStrategy
  <2>2. op'.uid = cached.ss.uid /\ rc'.note = cached.ss.strategy
    BY <1>2 DEF RememberStrategy, ClusterTypeOK, Passes, Objects
  <2>. QED
    BY <2>1, <2>2, SetFacts DEF CachedBehind
<1>3. CASE TouchesCluster /\ ~RememberStrategy
  BY <1>3 , GotoFacts
  DEF TouchesCluster, StartSuspended, ReleaseFinalizer, WriteStatus, NoteSuspension,
      ForgetStrategy, PassStarts, Idle, ClusterTypeOK
<1>4. CASE ReconcilePolicies \/ PatchClaim \/ Provision
  BY <1>4, PoliciesMoves, PatchMoves, ProvisionMoves DEF GivesUp
<1>5. CASE TouchesIdentity
  BY <1>5, TouchesIdentityMoves DEF TouchesIdentityCourse, GivesUp
<1>6. CASE TouchesSet
  BY <1>6, TouchesSetMoves DEF GivesUp
<1>7. CASE Cuts
  BY <1>7, CutsMoves DEF GivesUp
<1>8. CASE Syncs
  BY <1>8, SyncsFacts DEF Syncs, SyncCluster, SyncObject
<1>9. CASE User
  <2>1. UNCHANGED rc.note
    BY <1>9 DEF User, EditSpec, Suspend, Resume, DeleteObject, AskOnDelete, ClusterTypeOK, Objects
  <2>. QED
    BY <1>9, <2>1, UserFacts
<1>10. CASE World \/ UNCHANGED vars
  BY <1>10, WorldFacts DEF vars
<1>. QED
  BY <1>1, <1>2, <1>3, <1>4, <1>5, <1>6, <1>7, <1>8, <1>9, <1>10, StepCases

LEMMA StoragesStep ==
  ASSUME ClusterTypeOK, ClusterTypeOK', SeenBehind, StoragesKept, [Next]_vars
  PROVE  SetGrows' /\ CachedBehind'
<1>. USE DEF Asks
<1>0. SetGrows /\ CachedBehind /\ DeletesCached
  BY DEF StoragesKept
<1>1. seen'.spec.size >= seen.spec.size /\ seen'.spec.size \in Nat /\ seen.spec.size \in Nat
  BY CopiesMove, ObjectFacts DEF ClusterTypeOK
<1>2. CASE UNCHANGED <<ss, cached.ss>>
  BY <1>0, <1>1, <1>2, SetFacts DEF SetGrows, CachedBehind, IsCachedSet
<1>3. CASE UNCHANGED ss /\ cached'.ss = NoSet
  BY <1>0, <1>1, <1>3, SetFacts DEF SetGrows, CachedBehind, NoSet
<1>4. CASE UNCHANGED <<ss, seen>> /\ cached'.ss = Shown.ss
  <2>1. CASE ss.exists
    <3>1. /\ cached'.ss.uid = ss.uid /\ cached'.ss.size = ss.size
      BY ZenonT(60), <1>4, <2>1 DEF Shown, ClusterTypeOK, StatefulSets
    <3>. QED
      BY <1>0, <1>4, <2>1, <3>1, SetFacts DEF SetGrows, CachedBehind, IsCachedSet
  <2>2. CASE ~ss.exists
    <3>1. ~cached'.ss.exists
      BY <1>4, <2>2 DEF Shown, NoSet
    <3>. QED
      BY <1>0, <1>4, <3>1 DEF SetGrows, CachedBehind
  <2>. QED
    BY <2>1, <2>2
<1>5. CASE SetStays /\ UNCHANGED cached
  BY <1>0, <1>1, <1>5, SetFacts DEF SetStays, SetGrows, CachedBehind, IsCachedSet
<1>6. CASE SetDeleted /\ UNCHANGED <<seen, cached>>
  <2>1. IsCachedSet /\ cached.ss.exists /\ ss.size < Asks.size
    BY <1>0, <1>6 DEF SetDeleted, DeletesCached, CachedBehind, IsCachedSet
  <2>. QED
    BY <1>0, <1>6, <2>1, SetFacts DEF SetDeleted, SetGrows, CachedBehind, IsCachedSet
<1>7. CASE SetWritten /\ UNCHANGED <<seen, cached>>
  <2>1. ~ss.dying
    BY <1>0, <1>7, SetFacts DEF SetWritten, Accepts, SetGrows
  <2>2. CASE ss.exists
    BY <1>0, <1>7, <2>1, <2>2, SetFacts
    DEF SetWritten, Accepts, SetGrows, CachedBehind, IsCachedSet
  <2>3. CASE ~ss.exists
    <3>1. cached.ss.exists => cached.ss.uid < ss'.uid /\ cached.ss.size < Asks.size
      BY <1>0, <1>7, <2>3, SetFacts DEF SetWritten, CachedBehind, IsCachedSet
    <3>. QED
      BY <1>0, <1>7, <2>1, <3>1, SetFacts DEF SetWritten, SetGrows, CachedBehind, IsCachedSet
  <2>. QED
    BY <2>2, <2>3
<1>8. CASE SetGone /\ UNCHANGED <<seen, cached>>
  BY <1>0, <1>8, SetFacts DEF SetGone, SetGrows, CachedBehind, IsCachedSet
<1>. QED
  BY <1>2, <1>3, <1>4, <1>5, <1>6, <1>7, <1>8, SetMoves, CopiesMove

LEMMA SetAppliedStep ==
  ASSUME ClusterTypeOK, DropsFor, SetGrows, SetApplied, [Next]_vars
  PROVE  SetApplied'
<1>. USE DEF SetApplied, At, Asks
<1>1. ASSUME SetStays, UNCHANGED seen,
             op'.pc \notin {"own", "forget", "probe", "provision"}
               \/ op.pc \in {"own", "forget", "probe", "provision"},
             op'.pc = "status" /\ op'.then = "Reconciled" =>
               \/ op.pc = "probe"
               \/ op.pc = "status" /\ op.then = "Reconciled"
      PROVE  SetApplied'
  BY <1>1 DEF SetStays
<1>2. CASE MovesOn
  BY <1>1, <1>2, MovesOnCourse, MovesOnFacts
  DEF Moves, Creates, GivesUp, Decides, objects, SetStays
<1>3. CASE TouchesCluster
  BY <1>1, <1>3, TouchesClusterMoves, TouchesClusterFacts
  DEF TouchesClusterCourse, objects, SetStays
<1>4. CASE ReconcilePolicies \/ PatchClaim \/ Provision
  BY <1>1, <1>4, PoliciesMoves, PatchMoves, ProvisionMoves DEF GivesUp, objects, SetStays
<1>5. CASE TouchesIdentity
  BY <1>1, <1>5, TouchesIdentityMoves, TouchesIdentityFacts
  DEF TouchesIdentityCourse, GivesUp, DropsFor, objects, SetStays
<1>6. CASE TouchesSet
  <2>1. UNCHANGED seen
    BY <1>6, TouchesSetFacts
  <2>2. CASE SetDeleted
    BY <1>6, <2>2, TouchesSetMoves DEF SetDeleted, GivesUp
  <2>3. CASE SetWritten
    <3>1. ~ss.dying
      BY <2>3, SetFacts DEF SetWritten, Accepts, SetGrows
    <3>. QED
      BY <2>1, <2>3, <3>1 DEF SetWritten
  <2>4. CASE SetStays /\ At("own")
    BY <1>6, <1>1, <2>1, <2>4, TouchesSetMoves
  <2>. QED
    BY <1>6, <2>2, <2>3, <2>4, TouchesSetCourse
<1>7. CASE Cuts
  BY <1>7, CutsMoves DEF GivesUp
<1>8. CASE Syncs
  BY <1>8, <1>1, SyncsFacts DEF objects, SetStays
<1>9. CASE User
  BY <1>9, <1>1, UserFacts, UserSet
<1>10. CASE World
  <2>1. SetGone => ~SetApplied \/ ~(\/ op.pc \in {"own", "forget", "probe", "provision"}
                                    \/ At("status") /\ op.then = "Reconciled")
    BY DEF SetGone
  <2>. QED
    BY <1>10, <1>1, <2>1, WorldFacts, WorldSet DEF SetStays
<1>11. CASE UNCHANGED vars
  BY <1>11, <1>1 DEF vars, objects, SetStays
<1>. QED
  BY <1>2, <1>3, <1>4, <1>5, <1>6, <1>7, <1>8, <1>9, <1>10, <1>11, StepCases

-----------------------------------------------------------------------------
(* The update strategy.                                                    *)

\* Who asked for a roll by hand did so before, and no excuse is forgotten.
LEMMA ByHandBefore ==
  ASSUME ClusterTypeOK, [Next]_vars, ByHand'
  PROVE  ByHand \/ AskOnDelete
<1>1. cut \subseteq cut' /\ (UNCHANGED wanted \/ AskOnDelete)
  <2>1. CASE MovesOn
    BY <2>1, MovesOnFacts DEF history
  <2>2. CASE TouchesCluster
    BY <2>2, TouchesClusterFacts DEF history
  <2>3. CASE ReconcilePolicies \/ PatchClaim \/ Provision
    BY <2>3, PoliciesMoves, PatchMoves, ProvisionMoves DEF history
  <2>4. CASE TouchesIdentity
    BY <2>4, TouchesIdentityFacts DEF history
  <2>5. CASE TouchesSet
    BY <2>5 DEF TouchesSet, DeleteSet, ApplySet, RecreateSet, OwnStrategy, history
  <2>6. CASE Cuts \/ Syncs \/ World \/ UNCHANGED vars
    BY <2>6, CutsFacts, SyncsFacts, WorldFacts DEF history, vars
  <2>7. CASE User
    BY <2>7 DEF User, EditSpec, Suspend, Resume, DeleteObject, AskOnDelete, history
  <2>. QED
    BY <2>1, <2>2, <2>3, <2>4, <2>5, <2>6, <2>7, StepCases
<1>. QED
  BY <1>1 DEF ByHand, Excused

LEMMA RefusedToOwn ==
  ASSUME MovesOn, At("own")
  PROVE  ~(ss.exists /\ ss.strategy = op.note)
BY DEF MovesOn, StartPass, CheckPods, ReadNote, AwaitDeletion, KeepStorage, Refused,
       ValidateStatus, RejectConfig, ProbePod, PassStarts, Decides, At

LEMMA RollStep ==
  ASSUME ClusterTypeOK, NoteRead, StoragesKept, SetApplied, RollKept, [Next]_vars
  PROVE  RollKept'
<1>. SUFFICES ASSUME ByHand'
     PROVE  /\ ss'.exists => ss'.strategy = "OnDelete"
            /\ Alive' => ss'.held \/ (op'.pc = "own" /\ op'.note = "OnDelete")
            /\ ~Alive' =>
                 /\ rc'.note = "OnDelete"
                 /\ cached'.ss.exists => cached'.ss.strategy = "OnDelete"
                 /\ op'.pc # "apply"
  BY DEF RollKept, At
<1>0. ss \in StatefulSets /\ rc \in Objects /\ cached.ss \in StatefulSets
  BY DEF ClusterTypeOK
<1>1. CASE AskOnDelete
  <2>1. ss' = [ss EXCEPT !.strategy = "OnDelete", !.held = TRUE] /\ ss.exists /\ ~ss.dying
    BY <1>1 DEF AskOnDelete
  <2>2. Alive' /\ ss'.strategy = "OnDelete" /\ ss'.held
    BY <1>0, <2>1 DEF Alive, StatefulSets
  <2>. QED
    BY <2>2
<1>. SUFFICES ASSUME ByHand, ~AskOnDelete
     PROVE  /\ ss'.exists => ss'.strategy = "OnDelete"
            /\ Alive' => ss'.held \/ (op'.pc = "own" /\ op'.note = "OnDelete")
            /\ ~Alive' =>
                 /\ rc'.note = "OnDelete"
                 /\ cached'.ss.exists => cached'.ss.strategy = "OnDelete"
                 /\ op'.pc # "apply"
  BY <1>1, ByHandBefore
<1>2. /\ ss.exists => ss.strategy = "OnDelete"
      /\ Alive => ss.held \/ (op.pc = "own" /\ op.note = "OnDelete")
      /\ ~Alive =>
           /\ rc.note = "OnDelete"
           /\ cached.ss.exists => cached.ss.strategy = "OnDelete"
           /\ op.pc # "apply"
  BY DEF RollKept, At
<1>3. SetGrows /\ CachedBehind /\ DeletesCached
  BY DEF StoragesKept
\* Where the StatefulSet and its copy stay, the pass has to keep to the note.
<1>4. ASSUME UNCHANGED <<ss, cached>>, rc'.note = rc.note \/ Alive, Alive \/ op'.pc # "apply",
             op.pc = "own" /\ op.note = "OnDelete" =>
               ss.held \/ (op'.pc = "own" /\ op'.note = "OnDelete")
      PROVE  /\ ss'.exists => ss'.strategy = "OnDelete"
             /\ Alive' => ss'.held \/ (op'.pc = "own" /\ op'.note = "OnDelete")
             /\ ~Alive' =>
                  /\ rc'.note = "OnDelete"
                  /\ cached'.ss.exists => cached'.ss.strategy = "OnDelete"
                  /\ op'.pc # "apply"
  BY <1>2, <1>4 DEF Alive
<1>5. CASE MovesOn
  <2>1. UNCHANGED <<rc, ss, cached>>
    BY <1>5, MovesOnFacts DEF objects
  <2>2. ASSUME ~Alive PROVE op'.pc # "apply"
    <3>1. Creates(rc.note) # "apply"
      BY <1>2, <2>2 DEF Creates, NoNote
    <3>2. ASSUME cached.ss.exists PROVE cached.ss.size # Asks.size
      BY <1>3, <2>2, <3>2, SetFacts DEF Alive, CachedBehind, IsCachedSet
    <3>. QED
      BY <1>5, <3>1, <3>2, MovesOnCourse DEF Moves, GivesUp
  <2>3. op.pc = "own" /\ op.note = "OnDelete" => ss.held
    BY <1>2, <1>5, RefusedToOwn DEF At, Alive, SetApplied
  <2>. QED
    BY <1>4, <2>1, <2>2, <2>3
<1>6. CASE RememberStrategy
  <2>1. UNCHANGED <<ss, cached>> /\ cached.ss.exists /\ op.pc # "own"
    BY <1>6, TouchesClusterFacts DEF RememberStrategy, Decides, At, objects
  <2>2. rc'.note = cached.ss.strategy /\ op'.pc = "delete"
    BY <1>6 DEF RememberStrategy, ClusterTypeOK, Objects, Passes
  <2>. QED
    BY <1>2, <2>1, <2>2 DEF Alive
<1>7. CASE TouchesCluster /\ ~RememberStrategy
  <2>1. UNCHANGED <<ss, cached>>
    BY <1>7, TouchesClusterFacts DEF objects
  <2>2. op.pc # "own" /\ (op'.pc # "apply")
    BY <1>7, TouchesClusterMoves DEF TouchesClusterCourse, At, Decides
  <2>3. rc'.note = rc.note \/ Alive
    BY <1>7, TouchesClusterMoves DEF ForgetStrategy, At, SetApplied, Alive
  <2>. QED
    BY <1>4, <2>1, <2>2, <2>3
<1>8. CASE ReconcilePolicies \/ PatchClaim \/ Provision
  BY <1>4, <1>8, PoliciesMoves, PatchMoves, ProvisionMoves DEF GivesUp, At, objects
<1>9. CASE TouchesIdentity
  BY <1>4, <1>9, TouchesIdentityMoves, TouchesIdentityFacts
  DEF TouchesIdentityCourse, GivesUp, At, objects
<1>10. CASE DeleteSet
  <2>1. ss' = [ss EXCEPT !.dying = TRUE] /\ ss.exists /\ UNCHANGED <<rc, cached>> /\ At("delete")
    BY <1>10 DEF DeleteSet, IsSameSet
  <2>2. ss.strategy = rc.note
    BY <1>10 DEF DeleteSet, ByHand, Excused
  <2>3. ss'.exists /\ ss'.dying /\ ss'.strategy = ss.strategy
    BY <1>0, <2>1 DEF StatefulSets
  <2>4. op'.pc # "apply"
    BY <1>10, ConcludeFacts DEF DeleteSet
  <2>. QED
    BY <1>2, <1>3, <2>1, <2>2, <2>3, <2>4 DEF Alive, DeletesCached
<1>11. CASE ApplySet
  <2>1. Alive /\ ss.held
    BY <1>2, <1>11 DEF ApplySet, At
  <2>2. ss' = AppliedSet
    BY <1>11 DEF ApplySet
  <2>. QED
    BY <1>2, <2>1, <2>2, AppliedSetFacts DEF Alive
<1>12. CASE RecreateSet
  <2>1. ss' = RecreatedSet /\ ~(ss.exists /\ ss.strategy # op.note) /\ op.note = rc.note
    BY <1>12 DEF RecreateSet, ByHand, Excused, NoteRead, At
  <2>2. op.note = "OnDelete"
    BY <1>2, <2>1 DEF Alive
  <2>3. ~ss.dying
    BY <1>3, <1>12, SetFacts DEF RecreateSet, Accepts, SetGrows
  <2>4. op'.pc = "own" /\ op'.note = op.note
    BY <1>12, TouchesSetMoves DEF TouchesSet, RecreateSet, At
  <2>. QED
    BY <2>1, <2>2, <2>3, <2>4, RecreatedSetFacts DEF Alive
<1>13. CASE OwnStrategy
  <2>1. ss' = [ss EXCEPT !.held = TRUE] /\ ss.exists /\ At("own")
    BY <1>13 DEF OwnStrategy
  <2>2. UNCHANGED <<ss.exists, ss.strategy, ss.dying>> /\ ss'.held
    BY <1>0, <2>1 DEF StatefulSets
  <2>. QED
    BY <1>2, <2>1, <2>2 DEF Alive, SetApplied, At
<1>14. CASE Cuts
  <2>1. UNCHANGED <<ss, rc>> /\ op'.pc \in {"idle", "status"}
    BY <1>14, CutsFacts, CutsMoves DEF GivesUp, objects
  <2>2. op.pc # "own"
    BY <1>14 DEF Cuts, CallFails, Restart, CutShort, At, ByHand, Excused
  <2>3. UNCHANGED cached.ss \/ ~cached'.ss.exists
    BY <1>14 DEF Cuts, CallFails, Restart, NoSet
  <2>. QED
    BY <1>2, <2>1, <2>2, <2>3 DEF Alive
<1>15. CASE Syncs
  <2>1. UNCHANGED <<ss, rc, op>>
    BY <1>15, SyncsFacts DEF objects
  <2>2. \/ UNCHANGED cached.ss
        \/ ~cached'.ss.exists
        \/ ss.exists /\ cached'.ss.strategy = ss.strategy
    <3>1. CASE SyncObject("ss")
      BY <1>0, <3>1 DEF SyncObject, Shown, ClusterTypeOK, StatefulSets, NoSet
    <3>2. CASE SyncCluster \/ SyncObject("claim")
      BY <3>2 DEF SyncCluster, SyncObject, ClusterTypeOK
    <3>. QED
      BY <1>15, <3>1, <3>2 DEF Syncs
  <2>. QED
    BY <1>2, <2>1, <2>2 DEF Alive
<1>16. CASE User
  <2>1. UNCHANGED <<ss, rc.note>>
    BY <1>0, <1>16 DEF User, EditSpec, Suspend, Resume, DeleteObject, objects, Objects
  <2>. QED
    BY <1>4, <1>16, <2>1, <1>2, UserFacts
<1>17. CASE World
  <2>1. UNCHANGED <<rc, op, cached>>
    BY <1>17, WorldFacts
  <2>. QED
    BY <1>2, <1>17, <2>1, WorldSet DEF SetGone, Alive
<1>18. CASE UNCHANGED vars
  BY <1>2, <1>18 DEF vars, objects, Alive
<1>. QED
  BY <1>5, <1>6, <1>7, <1>8, <1>9, <1>10, <1>11, <1>12, <1>13, <1>14, <1>15, <1>16, <1>17,
     <1>18, StepCases DEF TouchesSet

-----------------------------------------------------------------------------
(* What the status says.                                                   *)

LEMMA ServerStays ==
  ASSUME ClusterTypeOK, [Next]_vars, server
  PROVE  server'
<1>1. CASE MovesOn \/ TouchesCluster \/ ReconcilePolicies \/ PatchClaim \/ Provision
  BY <1>1, MovesOnFacts, TouchesClusterFacts, PoliciesMoves, PatchMoves, ProvisionMoves
<1>2. CASE TouchesIdentity \/ TouchesSet \/ Cuts \/ Syncs \/ User
  BY <1>2, TouchesIdentityFacts, TouchesSetFacts, CutsFacts, SyncsFacts, UserFacts
<1>3. CASE World \/ UNCHANGED vars
  BY <1>3 DEF World, Kubernetes, Cloud, CanaryRuns, PodsReady, vars
<1>. QED
  BY <1>1, <1>2, <1>3, StepCases

\* The steps that leave the status alone.
LEMMA StatusStays ==
  ASSUME ClusterTypeOK, [Next]_vars, ~WriteStatus, ~NoteSuspension
  PROVE  UNCHANGED <<rc.provisioned, rc.readyFor>>
<1>0. rc \in Objects
  BY DEF ClusterTypeOK
<1>1. CASE UNCHANGED rc
  BY <1>1
<1>2. CASE TouchesCluster
  BY <1>0, <1>2
  DEF TouchesCluster, StartSuspended, ReleaseFinalizer, RememberStrategy, ForgetStrategy, Objects
<1>3. CASE User
  BY <1>0, <1>3 DEF User, EditSpec, Suspend, Resume, DeleteObject, AskOnDelete, Objects
<1>4. CASE Syncs \/ Cuts
  BY <1>1, <1>4, SyncsFacts, CutsFacts
<1>. QED
  BY <1>1, <1>2, <1>3, <1>4, StepCases, ClusterStays

LEMMA StatusWritten ==
  ASSUME ClusterTypeOK, WriteStatus
  PROVE  /\ rc'.readyFor = IF op.then = "Reconciled" THEN seen.gen ELSE NotReady
         /\ rc'.provisioned = (seen.provisioned \/ op.then = "Provisioned")
         /\ UNCHANGED <<rc.spec, rc.gen, rc.phase, rc.suspended, seen>>
         /\ At("status") /\ op'.pc = "idle"
BY DEF WriteStatus, ClusterTypeOK, Objects, Idle

LEMMA SuspensionNoted ==
  ASSUME ClusterTypeOK, NoteSuspension
  PROVE  /\ rc'.readyFor = seen.readyFor /\ rc'.provisioned = seen.provisioned
         /\ UNCHANGED <<rc.spec, rc.gen, rc.phase, rc.suspended, seen>>
         /\ At("suspend") /\ op'.pc = "idle"
BY DEF NoteSuspension, ClusterTypeOK, Objects, Idle

\* How a pass gets to its end, and who moves the cached cluster.
LEMMA EndMoves ==
  ASSUME ClusterTypeOK, DropsFor, [Next]_vars
  PROVE  /\ seen' = seen \/ (seen' = rc /\ UNCHANGED rc /\ op'.pc = "idle")
         /\ op'.pc = "status" /\ op'.then = "Reconciled" =>
              \/ UNCHANGED op
              \/ At("probe") /\ ~Provisions
         /\ op'.pc = "status" /\ op'.then = "Provisioned" => UNCHANGED op \/ server'
<1>. USE DEF At
<1>1. CASE MovesOn
  BY <1>1, MovesOnFacts, MovesOnCourse DEF Moves, Creates, GivesUp
<1>2. CASE TouchesCluster
  BY <1>2, TouchesClusterFacts, TouchesClusterMoves DEF TouchesClusterCourse
<1>3. CASE ReconcilePolicies \/ PatchClaim \/ Provision
  BY <1>3, PoliciesMoves, PatchMoves, ProvisionMoves DEF GivesUp
<1>4. CASE TouchesIdentity
  BY <1>4, TouchesIdentityFacts, TouchesIdentityMoves DEF TouchesIdentityCourse, GivesUp, DropsFor
<1>5. CASE TouchesSet
  BY <1>5, TouchesSetFacts, TouchesSetMoves DEF GivesUp
<1>6. CASE Cuts
  BY <1>6, CutsMoves, CutsFacts DEF GivesUp
<1>7. CASE Syncs
  BY <1>7, SyncsFacts
<1>8. CASE User \/ World \/ UNCHANGED vars
  BY <1>8, UserFacts, WorldFacts DEF vars
<1>. QED
  BY <1>1, <1>2, <1>3, <1>4, <1>5, <1>6, <1>7, <1>8, StepCases

LEMMA ProvisionedStep ==
  ASSUME ClusterTypeOK, DropsFor, ProvisionedOnce, [Next]_vars
  PROVE  ProvisionedOnce'
<1>. USE DEF At, Asks
<1>1. /\ rc.provisioned \/ seen.provisioned => server
      /\ At("status") /\ op.then = "Provisioned" => server
      /\ At("status") /\ op.then = "Reconciled" /\ AutoProvision(Asks) => seen.provisioned
  BY DEF ProvisionedOnce
<1>2. rc'.provisioned => server'
  BY <1>1, StatusStays, StatusWritten, SuspensionNoted, ServerStays
<1>3. seen'.provisioned => server'
  BY <1>1, EndMoves, ServerStays
<1>4. op'.pc = "status" /\ op'.then = "Provisioned" => server'
  BY <1>1, EndMoves, ServerStays
<1>5. op'.pc = "status" /\ op'.then = "Reconciled" /\ AutoProvision(Asks)' => seen'.provisioned
  BY <1>1, EndMoves DEF Provisions, AutoProvision
<1>. QED
  BY <1>2, <1>3, <1>4, <1>5 DEF ProvisionedOnce

LEMMA WhileOnStep ==
  ASSUME ClusterTypeOK, PassesWhileOn, [Next]_vars
  PROVE  PassesWhileOn'
<1>. USE DEF PassesWhileOn, At
<1>1. CASE MovesOn
  <2>1. ASSUME At("idle") PROVE StartPass
    BY <1>1, <2>1
    DEF MovesOn, CheckPods, ReadNote, AwaitDeletion, KeepStorage, Refused, ValidateStatus,
        RejectConfig, ProbePod, Decides
  <2>2. ASSUME At("suspend") PROVE FALSE
    BY <1>1, <2>2
    DEF MovesOn, StartPass, PassStarts, CheckPods, ReadNote, AwaitDeletion, KeepStorage, Refused,
        ValidateStatus, RejectConfig, ProbePod, Decides
  <2>3. op'.pc # "suspend" /\ UNCHANGED seen
    BY <1>1, MovesOnFacts, MovesOnCourse DEF Moves, Creates, GivesUp
  <2>. QED
    BY <2>1, <2>2, <2>3 DEF StartPass
<1>2. CASE TouchesCluster
  <2>1. UNCHANGED seen
    BY <1>2, TouchesClusterFacts
  <2>2. CASE StartSuspended
    BY <2>1, <2>2, GotoFacts DEF StartSuspended, ClusterTypeOK
  <2>3. CASE ReleaseFinalizer
    BY <2>1, <2>3 DEF ReleaseFinalizer, PassStarts
  <2>4. CASE WriteStatus \/ NoteSuspension
    BY <2>4, StatusWritten, SuspensionNoted
  <2>5. CASE RememberStrategy
    <3>1. op'.pc = "delete" /\ op.pc \in {"claims", "storage"}
      BY <2>5 DEF RememberStrategy, Decides, ClusterTypeOK, Passes
    <3>. QED
      BY <2>1, <3>1
  <2>6. CASE ForgetStrategy
    BY <2>1, <2>6, GotoFacts DEF ForgetStrategy, ClusterTypeOK
  <2>. QED
    BY <1>2, <2>2, <2>3, <2>4, <2>5, <2>6 DEF TouchesCluster
<1>3. CASE ReconcilePolicies \/ PatchClaim \/ Provision
  BY <1>3, PoliciesMoves, PatchMoves, ProvisionMoves DEF GivesUp
<1>4. CASE TouchesIdentity
  BY <1>4, TouchesIdentityFacts, TouchesIdentityMoves DEF TouchesIdentityCourse, GivesUp
<1>5. CASE TouchesSet
  BY <1>5, TouchesSetFacts, TouchesSetMoves DEF GivesUp
<1>6. CASE Cuts
  <2>1. op.pc \notin {"idle", "suspend"} \/ op'.pc = "idle"
    BY <1>6, ScenarioFacts DEF Cuts, CallFails, Restart, Idle, ClusterTypeOK
  <2>. QED
    BY <1>6, <2>1, CutsMoves DEF GivesUp
<1>7. CASE Syncs
  BY <1>7, SyncsFacts
<1>8. CASE User \/ World \/ UNCHANGED vars
  BY <1>8, UserFacts, WorldFacts DEF vars
<1>. QED
  BY <1>1, <1>2, <1>3, <1>4, <1>5, <1>6, <1>7, <1>8, StepCases

LEMMA DenyFollowsFence ==
  ASSUME NEW spec \in Specs
  PROVE  spec.fenced <=> DesiredPolicy("deny", spec).exists
BY DEF Specs, DesiredPolicy, NoPolicy, Access, Policy

\* A finished pass leaves what the spec asks for.
LEMMA PassFits ==
  ASSUME ClusterTypeOK, PoliciesApplied, Associated, SetApplied, ProvisionedOnce,
         At("status"), op.then = "Reconciled"
  PROVE  Fits(Asks)
<1>1. Asks.fenced <=> policies["deny"].exists
  BY AsksType, DenyFollowsFence, PolicyNamesAre DEF PoliciesApplied, Covered
<1>. QED
  BY <1>1 DEF Fits, Associated, SetApplied, ProvisionedOnce

\* While the pass works for the same spec, nothing it does takes that back.
LEMMA FitLasts ==
  ASSUME ClusterTypeOK, StoragesKept, Fits(Asks), [Next]_vars
  PROVE  /\ ss'.exists /\ ~ss'.dying
         /\ <<ss'.size, ss'.tmpl, ss'.role>> = <<Asks.size, Asks.tmpl, Asks.role>>
         /\ Asks.fenced <=> policies'["deny"].exists
         /\ association' = IF Asks.role THEN "synced" ELSE "none"
         /\ AutoProvision(Asks) => server'
<1>. USE DEF Fits
<1>1. /\ ss'.exists /\ ~ss'.dying
      /\ <<ss'.size, ss'.tmpl, ss'.role>> = <<Asks.size, Asks.tmpl, Asks.role>>
  <2>1. CASE UNCHANGED ss \/ SetStays
    BY <2>1 DEF SetStays
  <2>2. ~SetDeleted
    <3>1. ASSUME SetDeleted PROVE ss.size < Asks.size
      BY <3>1 DEF SetDeleted, StoragesKept, DeletesCached, CachedBehind, IsCachedSet
    <3>2. ss.size = Asks.size
      OBVIOUS
    <3>. QED
      BY <3>1, <3>2, SetFacts
  <2>3. CASE SetWritten
    BY <2>3 DEF SetWritten
  <2>4. ~SetGone
    BY DEF SetGone
  <2>. QED
    BY <2>1, <2>2, <2>3, <2>4, SetMoves
<1>2. Asks.fenced <=> policies'["deny"].exists
  <2>1. UNCHANGED policies \/ \E n \in 0 .. 8 : policies' = Applied(n)
    <3>1. CASE Cuts
      BY <3>1, PolicyCount DEF Cuts, CallFails, Restart, CutShort
    <3>2. CASE ReconcilePolicies
      BY <3>2, PoliciesMoves
    <3>3. CASE MovesOn \/ TouchesCluster \/ TouchesIdentity \/ PatchClaim \/ TouchesSet \/ Provision
      BY <3>3, MovesOnFacts, TouchesClusterFacts, TouchesIdentityFacts, PatchMoves,
         TouchesSetFacts, ProvisionMoves
    <3>4. CASE Syncs \/ User \/ World \/ UNCHANGED vars
      BY <3>4, SyncsFacts, UserFacts, WorldFacts DEF vars
    <3>. QED
      BY <3>1, <3>2, <3>3, <3>4, StepCases
  <2>2. "deny" \in PolicyNames /\ (Asks.fenced <=> DesiredPolicy("deny", Asks).exists)
    BY AsksType, DenyFollowsFence, PolicyNamesAre
  <2>3. \A n \in 0 .. 8 : Applied(n)["deny"] \in {DesiredPolicy("deny", Asks), policies["deny"]}
    BY <2>2, AppliedPolicies
  <2>. QED
    BY <2>1, <2>2, <2>3
<1>3. association' = IF Asks.role THEN "synced" ELSE "none"
  <2>1. CASE TouchesIdentity
    BY <2>1, TouchesIdentityMoves DEF TouchesIdentityCourse
  <2>2. CASE World
    BY <2>2 DEF World, Kubernetes, Cloud, CanaryRuns, identity
  <2>3. CASE MovesOn \/ TouchesCluster \/ ReconcilePolicies \/ PatchClaim \/ TouchesSet \/ Provision
    BY <2>3, MovesOnFacts, TouchesClusterFacts, PoliciesMoves, PatchMoves, TouchesSetFacts,
       ProvisionMoves DEF identity
  <2>4. CASE Cuts \/ Syncs \/ User \/ UNCHANGED vars
    BY <2>4, CutsFacts, SyncsFacts, UserFacts DEF vars, identity
  <2>. QED
    BY <2>1, <2>2, <2>3, <2>4, StepCases
<1>4. AutoProvision(Asks) => server'
  BY ServerStays
<1>. QED
  BY <1>1, <1>2, <1>3, <1>4

\* What a step does to the cluster's spec, generation and phase.
LEMMA ClusterMoves ==
  ASSUME ClusterTypeOK, [Next]_vars
  PROVE  /\ UNCHANGED <<rc.spec, rc.gen>> \/ (rc'.gen = rc.gen + 1 /\ UNCHANGED <<seen, op>>)
         /\ rc'.phase = "live" => rc.phase = "live"
<1>0. rc \in Objects
  BY DEF ClusterTypeOK
<1>1. CASE UNCHANGED rc
  BY <1>1
<1>2. CASE TouchesCluster
  BY <1>2, TouchesClusterFacts
<1>3. CASE User
  <2>1. CASE EditSpec
    BY <1>0, <1>3, <2>1, UserFacts DEF EditSpec, Objects
  <2>2. CASE Suspend \/ Resume \/ DeleteObject \/ AskOnDelete
    BY <1>0, <2>2 DEF Suspend, Resume, DeleteObject, AskOnDelete, Objects
  <2>. QED
    BY <1>3, <2>1, <2>2 DEF User
<1>4. CASE Syncs \/ Cuts
  BY <1>1, <1>4, SyncsFacts, CutsFacts
<1>. QED
  BY <1>1, <1>2, <1>3, <1>4, StepCases, ClusterStays

LEMMA ReadyStep ==
  ASSUME ClusterTypeOK, SeenBehind, DropsFor, PoliciesApplied, Associated, StoragesKept,
         SetApplied, ProvisionedOnce, PassesWhileOn, ReadyHolds, [Next]_vars
  PROVE  ReadyHolds'
<1>. USE DEF Asks
<1>0. /\ rc.gen \in Nat /\ seen.gen \in Nat /\ rc.readyFor \in Int /\ seen.readyFor \in Int
      /\ seen.gen <= rc.gen /\ (seen.gen = rc.gen => seen.spec = rc.spec)
  BY ObjectFacts DEF ClusterTypeOK, SeenBehind
<1>1. /\ rc.readyFor <= seen.gen /\ seen.readyFor <= seen.gen
      /\ seen.suspended => rc.readyFor = seen.readyFor
      /\ rc.phase = "live" /\ rc.readyFor = rc.gen => Fits(rc.spec)
  BY DEF ReadyHolds
<1>2. CASE WriteStatus
  <2>1. ~seen.suspended /\ UNCHANGED seen
    BY <1>2, StatusWritten DEF PassesWhileOn, At
  <2>2. rc'.readyFor <= seen.gen
    BY <1>0, <1>2, StatusWritten DEF NotReady
  <2>3. ASSUME rc'.readyFor = rc'.gen
        PROVE  Fits(rc.spec) /\ UNCHANGED rc.spec
    <3>1. op.then = "Reconciled" /\ seen.gen = rc.gen
      BY <1>0, <1>2, <2>3, StatusWritten DEF NotReady
    <3>. QED
      BY <1>0, <1>2, <3>1, PassFits, StatusWritten
  <2>4. ASSUME Fits(rc.spec), UNCHANGED rc.spec PROVE Fits(rc.spec)'
    BY <1>2, <2>4 DEF WriteStatus, Fits, objects, identity, AutoProvision
  <2>. QED
    BY <1>1, <2>1, <2>2, <2>3, <2>4 DEF ReadyHolds
<1>3. CASE ~WriteStatus
  <2>1. UNCHANGED rc.readyFor
    BY <1>1, <1>3, StatusStays, SuspensionNoted DEF PassesWhileOn, At
  <2>2. /\ rc'.readyFor <= seen'.gen /\ seen'.readyFor <= seen'.gen
        /\ seen'.suspended => rc'.readyFor = seen'.readyFor
    BY <1>0, <1>1, <2>1, EndMoves
  <2>3. ASSUME rc'.phase = "live", rc'.readyFor = rc'.gen
        PROVE  Fits(rc.spec)'
    <3>1. UNCHANGED <<rc.spec, rc.gen>> /\ rc.phase = "live" /\ rc.readyFor = rc.gen
      BY <1>0, <1>1, <2>1, <2>3, ClusterMoves
    <3>2. Fits(Asks) /\ Asks = rc.spec
      BY <1>0, <1>1, <3>1
    <3>. QED
      BY <3>1, <3>2, FitLasts DEF Fits, AutoProvision
  <2>. QED
    BY <2>2, <2>3 DEF ReadyHolds
<1>. QED
  BY <1>2, <1>3

-----------------------------------------------------------------------------
(* The invariant.                                                          *)

LEMMA InitHolds == Init => ClusterInvariant
<1> SUFFICES ASSUME Init PROVE ClusterInvariant
  OBVIOUS
<1>1. ClusterTypeOK
  BY InitType
<1>2. /\ op = Idle /\ op.pc = "idle" /\ ~ss.exists /\ ~ss.dying /\ ~cached.ss.exists
      /\ ~job.exists /\ job.pod = "none" /\ job.outcome = "pending" /\ job = NoJob
      /\ pods.state = "none" /\ wanted = "RollingUpdate"
  BY DEF Init, Idle, NoSet, NoJob
<1>3. /\ rc.spec \in scenario.specs /\ seen = rc /\ rc.gen = 0 /\ rc.readyFor = NotReady
      /\ ~rc.provisioned
  BY DEF Init, NewObject
<1>4. SeenBehind
  <2>1. rc.spec.size \in Nat
    BY <1>1, ObjectFacts DEF ClusterTypeOK
  <2>. QED
    BY <1>3, <2>1 DEF SeenBehind
<1>5. FencedOff
  <2>1. opened = LetsAllIn(rc.spec) /\ seen = rc
    BY DEF Init
  <2>2. \A name \in PolicyNames : ShutsOut(policies[name])
    BY DEF Init, ShutsOut, NoPolicy
  <2>. QED
    BY <1>2, <2>1, <2>2 DEF FencedOff, Covered, PastPolicies, At
<1>6. CanarySpeaks
  BY <1>2 DEF CanarySpeaks
<1>7. StoragesKept
  BY <1>2 DEF StoragesKept, SetGrows, CachedBehind, DeletesCached, At
<1>8. RollKept
  BY <1>2 DEF RollKept, ByHand
<1>9. ReadyHolds
  BY <1>3 DEF ReadyHolds, NotReady
<1>10. NoteRead /\ PoliciesApplied /\ DropsFor /\ Associated /\ Proven /\ SetApplied
  BY <1>2
  DEF NoteRead, PoliciesApplied, Covered, PastPolicies, DropsFor, Associated, Clearing, PastCanary,
      Proven, SetApplied, At
<1>11. ProvisionedOnce /\ PassesWhileOn
  BY <1>2, <1>3 DEF ProvisionedOnce, PassesWhileOn, At
<1>. QED
  BY <1>1, <1>4, <1>5, <1>6, <1>7, <1>8, <1>9, <1>10, <1>11 DEF ClusterInvariant

LEMMA StepHolds == ClusterInvariant /\ [Next]_vars => ClusterInvariant'
<1> SUFFICES ASSUME ClusterInvariant, [Next]_vars PROVE ClusterInvariant'
  OBVIOUS
<1>. USE DEF ClusterInvariant
<1>1. ClusterTypeOK'
  BY TypeStep
<1>2. SeenBehind' /\ NoteRead'
  BY SeenStep, NoteStep
<1>3. PoliciesApplied' /\ FencedOff'
  BY PoliciesStep, FencedStep
<1>4. DropsFor' /\ Associated' /\ CanarySpeaks' /\ Proven'
  BY DropsStep, AssociatedStep, CanaryStep, ProvenStep
<1>5. StoragesKept'
  BY <1>1, StoragesStep, DeletesStep DEF StoragesKept
<1>6. SetApplied' /\ RollKept'
  BY SetAppliedStep, RollStep DEF StoragesKept
<1>7. ProvisionedOnce' /\ PassesWhileOn' /\ ReadyHolds'
  BY ProvisionedStep, WhileOnStep, ReadyStep
<1>. QED
  BY <1>1, <1>2, <1>3, <1>4, <1>5, <1>6, <1>7

\* Whatever the user does and wherever a pass stops, what a pass relies on holds: at each
\* call of it, of the objects and of the copies it works with.
THEOREM ClusterHolds == Spec => []ClusterInvariant
<1>1. Init => ClusterInvariant
  BY InitHolds
<1>2. ClusterInvariant /\ [Next]_vars => ClusterInvariant'
  BY StepHolds
<1>. QED
  BY <1>1, <1>2, PTL DEF Spec

\* The variables of the RestateCluster controller stay within their types; in particular a
\* StatefulSet never gets a strategy that nobody noted (recreate_stateful_set).
THEOREM ClusterTypesHold == Spec => []ClusterTypeOK
BY ClusterHolds, PTL DEF ClusterInvariant

-----------------------------------------------------------------------------
(* What follows from it.                                                   *)

\* The ports of a cluster whose policies are applied.
LEMMA PortPolicies ==
  ASSUME ClusterTypeOK, PoliciesApplied, PastPolicies
  PROVE  /\ Asks.fenced =>
              /\ Isolated
              /\ policies["ingress"] = Policy(GivenPeers(Asks))
              /\ policies["admin"] = Policy(AdminPeers(Asks))
              /\ policies["node"] = Policy(NodePeers(Asks))
         /\ ~Asks.fenced => ~Isolated
<1>1. \A name \in PolicyNames : policies[name] = DesiredPolicy(name, Asks)
  BY DEF PoliciesApplied, Covered
<1>2. {"deny", "ingress", "admin", "node"} \subseteq PolicyNames
  BY PolicyNamesAre
<1>3. CASE Asks.fenced
  <2>1. /\ policies["deny"] = Policy(Unset)
        /\ policies["ingress"] = Policy(GivenPeers(Asks))
        /\ policies["admin"] = Policy(AdminPeers(Asks))
        /\ policies["node"] = Policy(NodePeers(Asks))
    BY <1>1, <1>2, <1>3 DEF DesiredPolicy, Access
  <2>. QED
    BY <1>3, <2>1 DEF Isolated, Policy
<1>4. CASE ~Asks.fenced
  <2>1. \A name \in {"deny", "ingress", "admin", "node"} : policies[name] = NoPolicy
    BY <1>1, <1>2, <1>4 DEF DesiredPolicy
  <2>. QED
    BY <1>4, <2>1 DEF Isolated, NoPolicy
<1>. QED
  BY <1>3, <1>4

LEMMA FitFollows == ClusterInvariant => PoliciesFit
<1> SUFFICES ASSUME ClusterTypeOK, PoliciesApplied, PastPolicies
    PROVE  /\ Reaches("self", "node") \/ OpenToOperatorOnly
           /\ AutoProvision(Asks) /\ OperatorLabelled => Reaches("operator", "node")
           /\ Asks.admin /\ OperatorLabelled => Reaches("operator", "admin")
           /\ \A port \in {"ingress", "admin", "node"} :
                /\ Asks.peers = "given" => Reaches("given", port)
                /\ Reaches("stranger", port) <=>
                     \/ ~Asks.fenced
                     \/ Asks.peers = "empty" /\ ~(port = "node" /\ OpenToOperatorOnly)
  BY DEF ClusterInvariant, PoliciesFit
<1>. DEFINE LetsIn(list, source) == list.set /\ (list.from = {} \/ source \in list.from)
<1>1. CASE ~Asks.fenced
  BY <1>1, PortPolicies DEF Reaches
<1>2. CASE Asks.fenced
  <2>1. /\ \A source : Reaches(source, "ingress") <=> LetsIn(GivenPeers(Asks), source)
        /\ \A source : Reaches(source, "admin") <=> LetsIn(AdminPeers(Asks), source)
        /\ \A source : Reaches(source, "node") <=> LetsIn(NodePeers(Asks), source)
    BY <1>2, PortPolicies DEF Reaches, Policy
  <2>2. Asks.peers \in {"unset", "empty", "given"}
    BY AsksType DEF Specs
  <2>3. CASE Asks.peers = "unset"
    BY <1>2, <2>1, <2>3
    DEF GivenPeers, AdminPeers, NodePeers, AddPeer, ListOf, Unset, OpenToOperatorOnly
  <2>4. CASE Asks.peers = "given"
    BY <1>2, <2>1, <2>4
    DEF GivenPeers, AdminPeers, NodePeers, AddPeer, ListOf, Unset, OpenToOperatorOnly
  <2>5. CASE Asks.peers = "empty"
    BY <1>2, <2>1, <2>5
    DEF GivenPeers, AdminPeers, NodePeers, AddPeer, ListOf, Unset, OpenToOperatorOnly
  <2>. QED
    BY <2>2, <2>3, <2>4, <2>5
<1>. QED
  BY <1>1, <1>2

\* Once a pass has got through the network policies they let in whom the spec asks for and
\* nobody else, whatever lists of peers the user gives (network_policies.rs).
THEOREM PoliciesFitHolds == Spec => []PoliciesFit
BY ClusterHolds, FitFollows, PTL

LEMMA FenceFollows == ClusterInvariant => NoStrangers
<1> SUFFICES ASSUME ClusterInvariant, ~opened, pods.state # "none",
                    NEW port \in {"ingress", "admin", "node"}
    PROVE  ~Reaches("stranger", port)
  BY DEF NoStrangers
<1>1. port \in PolicyNames
  BY PolicyNamesAre
<1>. QED
  BY <1>1 DEF ClusterInvariant, FencedOff, ShutsOut, Reaches, Isolated

\* Until the user asks for a cluster that everybody reaches, its pods are never ones a
\* stranger reaches, wherever the operator stops among the policies and however often the
\* spec changes (reconcile_network_policies).
THEOREM NoStrangersHolds == Spec => []NoStrangers
BY ClusterHolds, FenceFollows, PTL

LEMMA ProofFollows ==
  ASSUME ClusterInvariant, [Next]_vars, ss'.role, ~ss.role \/ ss'.uid # ss.uid
  PROVE  injects \/ "job" \in cut
<1>1. SetWritten
  BY SetMoves DEF ClusterInvariant, SetStays, SetDeleted, SetGone
<1>. QED
  BY <1>1 DEF ClusterInvariant, SetWritten, Proven, PastCanary, At

\* Pods are told of a role only when new pods get its credentials, unless a pass was stopped
\* before it deleted the Job of an association that is gone: whatever the clouds, the
\* tolerations and the edits (check_pia and check_workload_identity).
THEOREM CanaryProvesHolds == Spec => CanaryProves
<1>1. ClusterInvariant /\ [Next]_vars =>
        [ss'.role /\ (~ss.role \/ ss'.uid # ss.uid) => injects \/ "job" \in cut]_vars
  BY ProofFollows
<1>. QED
  BY <1>1, ClusterHolds, PTL DEF Spec, CanaryProves

LEMMA RollFollows ==
  ASSUME ClusterInvariant, [Next]_vars, pods.state # "none", pods'.tmpl # pods.tmpl
  PROVE  wanted = "RollingUpdate" \/ cut \cap {"strategy", "unseen"} # {}
<1>0. ClusterTypeOK
  BY DEF ClusterInvariant
<1>1. UNCHANGED pods \/ World
  <2>1. CASE MovesOn \/ TouchesCluster \/ ReconcilePolicies \/ PatchClaim \/ Provision
    BY <1>0, <2>1, MovesOnFacts, TouchesClusterFacts, PoliciesMoves, PatchMoves, ProvisionMoves
    DEF objects
  <2>2. CASE TouchesIdentity \/ TouchesSet \/ Cuts \/ Syncs \/ User \/ UNCHANGED vars
    BY <2>2, TouchesIdentityFacts, TouchesSetFacts, CutsFacts, SyncsFacts, UserFacts
    DEF objects, vars
  <2>. QED
    BY <2>1, <2>2, StepCases
<1>2. Roll
  BY <1>0, <1>1
  DEF World, Kubernetes, Cloud, CanaryRuns, PodsReady, ManageSet, Orphaned, objects, ClusterTypeOK
<1>. QED
  BY <1>2 DEF ClusterInvariant, ClusterTypeOK, RollKept, ByHand, Excused, Roll, Managed, Strategies

\* A roll by hand stays one through recreations of the StatefulSet, but for a strategy lost
\* when a recreation was cut short or worked with an old copy (recreate_stateful_set).
THEOREM RollsAsAskedHolds == Spec => RollsAsAsked
<1>1. ClusterInvariant /\ [Next]_vars =>
        [pods.state # "none" /\ pods'.tmpl # pods.tmpl =>
           wanted = "RollingUpdate" \/ cut \cap {"strategy", "unseen"} # {}]_vars
  BY RollFollows
<1>. QED
  BY <1>1, ClusterHolds, PTL DEF Spec, RollsAsAsked

LEMMA ReadyFollows == ClusterInvariant => ReadyMeansFit
<1> SUFFICES ASSUME ClusterInvariant, rc.phase = "live", rc.readyFor = rc.gen
    PROVE  /\ ss.exists
           /\ <<ss.size, ss.tmpl, ss.role>> = <<rc.spec.size, rc.spec.tmpl, rc.spec.role>>
           /\ rc.spec.fenced <=> policies["deny"].exists
           /\ rc.spec.role <=> association = "synced"
           /\ AutoProvision(rc.spec) => server
  BY DEF ReadyMeansFit
<1>1. Fits(rc.spec)
  BY DEF ClusterInvariant, ReadyHolds
<1>2. rc.spec.role \in BOOLEAN
  BY AsksType, SpecFacts, ObjectFacts DEF ClusterInvariant, ClusterTypeOK, Specs
<1>. QED
  BY <1>1, <1>2 DEF Fits

\* Ready=True for the spec as it is means that the policies, the credentials, the StatefulSet
\* and the provisioning are what it asks for: also when another pass is under way, and when
\* the status was written from a copy taken before the last edit or a suspension.
THEOREM ReadyMeansFitHolds == Spec => []ReadyMeansFit
BY ClusterHolds, ReadyFollows, PTL
=============================================================================
