---------------------------- MODULE RestateCluster ----------------------------
(***************************************************************************)
(* The RestateCluster controller: one cluster object, the network policies *)
(* around its pods, the canary that proves their cloud credentials, its    *)
(* StatefulSet with the volume claims, and the call that provisions it.    *)
(*                                                                         *)
(* An action is one awaited call of a pass with the code that follows it.  *)
(* The objects whose content decides nothing (Namespace, ServiceAccount,   *)
(* ConfigMap, Services, PodDisruptionBudget, the signing key's             *)
(* SecretProviderClass, the SecurityGroupPolicy) are left out.             *)
(*                                                                         *)
(* A behaviour stays in one scenario: the specs its user moves among, and  *)
(* what else the user does.  A pass works with the cluster as the cache    *)
(* showed it when it began, so that cache only moves between passes.       *)
(***************************************************************************)
EXTENDS Integers, Sequences

CONSTANTS
  Scenarios,        \* bound: what a behaviour's user does and which calls fail
  MaxSuspensions    \* bound: times the user suspends

\* tmpl stands for what rolls the pods: image, env, annotations.
Specs ==
  [size : Nat, tmpl : Nat, provision : {"off", "on", "misconfigured"},
   provider : {"aws", "gcp"}, role : BOOLEAN, tolerations : Nat,
   fenced : BOOLEAN, peers : {"unset", "empty", "given"}, admin : BOOLEAN]

Calls == {"idle", "suspend", "policies", "associate", "canary", "pods", "deleteJob",
          "claims", "storage", "delete", "apply", "recreate", "own", "forget",
          "probe", "provision", "status"}

ASSUME ClusterAssumption ==
  /\ \A s \in Scenarios :
       /\ s.specs # {} /\ s.specs \subseteq Specs
       /\ s.edits \in Nat /\ s.labelled \in BOOLEAN
       /\ s.acts \subseteq {"suspend", "delete", "roll"}
       /\ s.fails \subseteq Calls \ {"idle", "pods"}
  /\ MaxSuspensions \in Nat

VARIABLES
  scenario,    \* what the user of this behaviour does, and what fails
  rc,          \* the RestateCluster in the API server
  seen,        \* the operator's cache of it, and what a pass works with
  due,         \* a watch or a timer asks for a pass
  op,          \* the pass: position, answers
  policies,    \* the NetworkPolicies
  association, \* PodIdentityAssociation or IAMPolicyMember: "none", "applied", "synced"
  injects,     \* new pods get the credentials
  job,         \* the canary Job and its newest pod
  leftover,    \* the pod a deleted Job left behind: "none", "bare", "token"
  ss,          \* the StatefulSet
  claim,       \* the volume claim: bound, size
  cached,      \* the operator's caches of both
  pods,        \* Restate's pods: "none", "running", "ready", and their template
  server,      \* the cluster is provisioned
  wanted,      \* history: the update strategy the user asked for
  cut,         \* history: what was cut short or not seen
  opened       \* history: the user has asked for pods that everybody reaches

objects == <<ss, claim, pods>>
identity == <<association, injects, job, leftover>>
history == <<wanted, cut, opened>>
\* The operator knows the labels of its own pods.
OperatorLabelled == scenario.labelled

vars == <<scenario, rc, seen, due, op, policies, identity, objects, cached, server, history>>

NotReady == -1

NoNote == "none"
Strategies == {"RollingUpdate", "OnDelete"}
Marks == {"None", "Disabled", "Resuming", "Reconciling"}

Peers == {"given", "self", "operator"}
PolicyOrder == <<"deny", "dns", "public", "podIdentity", "egress", "ingress", "admin", "node">>
PolicyNames == {PolicyOrder[i] : i \in DOMAIN PolicyOrder}

\* A rule with no peers lets everybody in.
NoPolicy == [exists |-> FALSE, rule |-> FALSE, from |-> {}]

NoSet == [exists |-> FALSE, uid |-> 0, size |-> 0, tmpl |-> 0, role |-> FALSE,
          strategy |-> "RollingUpdate", held |-> FALSE, dying |-> FALSE]

NoJob == [exists |-> FALSE, tolerations |-> 0, outcome |-> "pending", pod |-> "none"]

NoClaim == [exists |-> FALSE, bound |-> FALSE, size |-> 0]

NewObject(spec) ==
  [spec |-> spec, gen |-> 0, note |-> NoNote, suspended |-> FALSE, pauses |-> 0,
   phase |-> "live", readyFor |-> NotReady, provisioned |-> FALSE, mark |-> "None"]

Idle == [pc |-> "idle", then |-> "none", uid |-> 0, note |-> NoNote, ready |-> FALSE]

Pods == {"none", "bare", "token"}

AllSpecs == UNION {s.specs : s \in Scenarios}

Sizes == {spec.size : spec \in AllSpecs}
Templates == {spec.tmpl : spec \in AllSpecs}

\* Pods without policies let everybody in, and so does an empty list of peers.
LetsAllIn(spec) == ~spec.fenced \/ spec.peers = "empty"

Notes == Strategies \cup {NoNote}

Objects ==
  [spec : AllSpecs, gen : Nat, note : Notes,
   suspended : BOOLEAN, pauses : 0 .. MaxSuspensions, phase : {"live", "deleting", "gone"},
   readyFor : {NotReady} \cup Nat, provisioned : BOOLEAN, mark : Marks]

\* What a pass comes to.
Reasons ==
  {"Reconciled", "Provisioned", "NotSynced", "CanaryPending", "CanaryFailed", "NotBound",
   "Recreating", "SetNotReady", "PodNotRunning", "ProvisioningFailed", "Failed"}

Passes ==
  [pc : Calls, then : Reasons \cup {"none", "claims"}, uid : Nat, note : Notes, ready : BOOLEAN]

Jobs ==
  [exists : BOOLEAN, tolerations : Nat, outcome : {"pending", "complete", "failed"}, pod : Pods]

StatefulSets ==
  [exists : BOOLEAN, uid : Nat, size : Sizes \cup {0}, tmpl : Templates \cup {0},
   role : BOOLEAN, strategy : Strategies, held : BOOLEAN, dying : BOOLEAN]

Claims == [exists : BOOLEAN, bound : BOOLEAN, size : Sizes \cup {0}]

ClusterTypeOK ==
  /\ scenario \in Scenarios
  /\ rc \in Objects /\ seen \in Objects
  /\ due \in BOOLEAN
  /\ op \in Passes
  /\ policies \in [PolicyNames -> [exists : BOOLEAN, rule : BOOLEAN, from : SUBSET Peers]]
  /\ association \in {"none", "applied", "synced"}
  /\ {injects, server} \subseteq BOOLEAN
  /\ job \in Jobs /\ leftover \in Pods
  /\ ss \in StatefulSets /\ claim \in Claims
  /\ cached \in [ss : StatefulSets, claim : Claims]
  /\ pods \in [state : {"none", "running", "ready"}, tmpl : Templates \cup {0}]
  /\ wanted \in Strategies
  /\ cut \subseteq {"strategy", "unseen", "job"}
  /\ opened \in BOOLEAN

Init ==
  /\ scenario \in Scenarios
  /\ \E spec \in scenario.specs : rc = NewObject(spec)
  /\ seen = rc
  /\ due = TRUE
  /\ op = Idle
  /\ policies = [name \in PolicyNames |-> NoPolicy]
  /\ association = "none" /\ injects = FALSE /\ job = NoJob /\ leftover = "none"
  /\ ss = NoSet /\ claim = NoClaim
  /\ cached = [ss |-> NoSet, claim |-> NoClaim]
  /\ pods = [state |-> "none", tmpl |-> 0]
  /\ server = FALSE
  /\ wanted = "RollingUpdate"
  /\ cut = {}
  /\ opened = LetsAllIn(rc.spec)

-----------------------------------------------------------------------------
(* The parts of a pass.                                                    *)

At(call) == op.pc = call

Asks == seen.spec

Goto(call) == op' = [op EXCEPT !.pc = call]

\* The outcome goes to the status, in a call of its own.
Conclude(reason) == op' = [Idle EXCEPT !.pc = "status", !.then = reason]

PassStarts == At("idle") /\ due

StartPass ==
  /\ PassStarts
  /\ seen.phase = "live" /\ ~seen.suspended
  /\ Goto("policies")
  /\ UNCHANGED <<scenario, rc, seen, due, policies, identity, objects, cached, server, history>>

\* state_after_reconcile: a resumed object is resuming until it is ready.
MarkAfter(previous, ready) ==
  IF previous \in {"Disabled", "Resuming"} /\ ~ready THEN "Resuming" ELSE "Reconciling"

\* What the pass does not know better is written as it was when the pass began.
WriteStatus ==
  /\ At("status")
  /\ LET ready == op.then = "Reconciled"
     IN rc' = [rc EXCEPT !.readyFor = IF ready THEN seen.gen ELSE NotReady,
                         !.provisioned = seen.provisioned \/ op.then = "Provisioned",
                         !.mark = MarkAfter(seen.mark, ready)]
  /\ op' = Idle
  /\ UNCHANGED <<scenario, seen, due, policies, identity, objects, cached, server, history>>

-----------------------------------------------------------------------------
(* Suspension and deletion: only these end without a wake-up of their own. *)

StartSuspended ==
  /\ PassStarts
  /\ seen.phase = "live" /\ seen.suspended
  /\ due' = FALSE
  /\ Goto("suspend")
  /\ UNCHANGED <<scenario, rc, seen, policies, identity, objects, cached, server, history>>

NoteSuspension ==
  /\ At("suspend")
  /\ rc' = [rc EXCEPT !.mark = "Disabled", !.readyFor = seen.readyFor,
                      !.provisioned = seen.provisioned]
  /\ op' = Idle
  /\ UNCHANGED <<scenario, seen, due, policies, identity, objects, cached, server, history>>

\* The cleanup only publishes an event; suspension does not hold it up.
ReleaseFinalizer ==
  /\ PassStarts
  /\ seen.phase = "deleting"
  /\ due' = FALSE
  /\ rc' = [rc EXCEPT !.phase = "gone"]
  /\ UNCHANGED <<scenario, seen, op, policies, identity, objects, cached, server, history>>

-----------------------------------------------------------------------------
(* Network policies.  A list of peers may be missing, which lets nobody    *)
(* in, or empty, which lets everybody in.                                  *)

Unset == [set |-> FALSE, from |-> {}]

ListOf(peers) == [set |-> TRUE, from |-> peers]

GivenPeers(spec) ==
  CASE spec.peers = "unset" -> Unset
    [] spec.peers = "empty" -> ListOf({})
    [] spec.peers = "given" -> ListOf({"given"})

\* Wrong: a list that lets everybody in is taken for one to be completed.
AddToAny(list, peer) == ListOf(list.from \cup {peer})

AddPeer(list, peer) == IF list = ListOf({}) THEN list ELSE ListOf(list.from \cup {peer})

AdminPeers(spec) ==
  IF spec.admin /\ OperatorLabelled THEN AddPeer(GivenPeers(spec), "operator")
  ELSE GivenPeers(spec)

AutoProvision(spec) == spec.provision # "off"

\* The operator is added to whatever list there is.
NodePeers(spec) ==
  LET own == AddPeer(GivenPeers(spec), "self")
  IN  IF AutoProvision(spec) /\ OperatorLabelled THEN ListOf(own.from \cup {"operator"}) ELSE own

Policy(list) == [exists |-> TRUE, rule |-> list.set, from |-> list.from]

Access(name, spec) ==
  CASE name = "ingress" -> Policy(GivenPeers(spec))
    [] name = "admin"   -> Policy(AdminPeers(spec))
    [] name = "node"    -> Policy(NodePeers(spec))
    [] OTHER            -> Policy(Unset)

DesiredPolicy(name, spec) ==
  IF ~spec.fenced \/ (name = "podIdentity" /\ ~(spec.provider = "aws" /\ spec.role))
  THEN NoPolicy ELSE Access(name, spec)

\* Wrong: the policies there are go before they are applied anew.
AppliedToNone(n) ==
  [name \in PolicyNames |->
     IF \E i \in 1 .. n : PolicyOrder[i] = name THEN DesiredPolicy(name, Asks) ELSE NoPolicy]

\* The policies after a pass that got through the first n of them.
Applied(n) ==
  [name \in PolicyNames |->
     IF \E i \in 1 .. n : PolicyOrder[i] = name THEN DesiredPolicy(name, Asks) ELSE policies[name]]

ReconcilePolicies ==
  /\ At("policies")
  /\ policies' = Applied(Len(PolicyOrder))
  /\ Goto("associate")
  /\ UNCHANGED <<scenario, rc, seen, due, identity, objects, cached, server, history>>

\* Pods no ingress policy selects take traffic from everybody.
Isolated == \E name \in {"deny", "ingress", "admin", "node"} : policies[name].exists

Reaches(source, port) ==
  \/ ~Isolated
  \/ policies[port].rule /\ (policies[port].from = {} \/ source \in policies[port].from)

-----------------------------------------------------------------------------
(* Cloud credentials: the association, and a Job whose pod shows that new  *)
(* pods get them.                                                          *)

\* Wrong: the association is there, but not set up yet.
IsApplied == association # "none"

IsSynced == association = "synced"

Associate ==
  /\ At("associate")
  /\ Asks.role
  /\ association' = IF association = "none" THEN "applied" ELSE association
  /\ IF IsSynced THEN Goto("canary") ELSE Conclude("NotSynced")
  /\ UNCHANGED <<scenario, rc, seen, due, policies, injects, job, leftover, objects, cached,
                 server, history>>

Dissociate ==
  /\ At("associate")
  /\ ~Asks.role
  /\ association' = "none"
  /\ op' = [op EXCEPT !.pc = "deleteJob", !.then = "claims"]
  /\ UNCHANGED <<scenario, rc, seen, due, policies, injects, job, leftover, objects, cached,
                 server, history>>

\* What a Job that has not ended means: only for AWS do its pods tell more.
Undecided == IF Asks.provider = "aws" THEN Goto("pods") ELSE Conclude("CanaryPending")

DropJob(reason) == op' = [op EXCEPT !.pc = "deleteJob", !.then = reason]

\* Wrong: a failed Job stays.
JudgeKeepingFailed(j) ==
  IF j.tolerations # Asks.tolerations THEN DropJob("CanaryPending")
  ELSE CASE j.outcome = "failed"   -> Conclude("CanaryFailed")
         [] j.outcome = "complete" -> Goto("claims")
         [] OTHER                  -> Undecided

\* The pod template of a Job is immutable, so other tolerations are refused.
Judge(j) ==
  IF j.tolerations # Asks.tolerations THEN DropJob("CanaryPending")
  ELSE CASE j.outcome = "failed"   -> DropJob("CanaryFailed")
         [] j.outcome = "complete" -> Goto("claims")
         [] OTHER                  -> Undecided

ApplyCanary ==
  /\ At("canary")
  /\ job' = IF job.exists THEN job
            ELSE [NoJob EXCEPT !.exists = TRUE, !.tolerations = Asks.tolerations]
  /\ Judge(job')
  /\ UNCHANGED <<scenario, rc, seen, due, policies, association, injects, leftover, objects,
                 cached, server, history>>

\* Wrong: pods are looked up by the name of the Job.
OfAnyJob(pod) == pod = "token" \/ leftover = "token"

\* Only the pods of this very Job count.
ShowsCredentials(pod) == pod = "token"

CheckPods ==
  /\ At("pods")
  /\ IF ShowsCredentials(job.pod) THEN Goto("claims") ELSE Conclude("CanaryPending")
  /\ UNCHANGED <<scenario, rc, seen, due, policies, identity, objects, cached, server, history>>

\* Its pods follow it, later.
DeleteJob ==
  /\ At("deleteJob")
  /\ job' = NoJob
  /\ leftover' = IF job.pod = "none" THEN leftover ELSE job.pod
  /\ IF op.then = "claims" THEN op' = [op EXCEPT !.pc = "claims", !.then = "none"]
     ELSE Conclude(op.then)
  /\ UNCHANGED <<scenario, rc, seen, due, policies, association, injects, objects, cached,
                 server, history>>

-----------------------------------------------------------------------------
(* Storage.  The claims are patched first; a StatefulSet with other claim  *)
(* templates is deleted, its pods orphaned, and a later pass creates it    *)
(* anew with the update strategy noted on the RestateCluster.              *)

PatchClaim ==
  /\ At("claims")
  /\ cached.claim.exists
  /\ claim' = [claim EXCEPT !.size = Asks.size]
  /\ IF claim.bound THEN Goto("storage") ELSE Conclude("NotBound")
  /\ UNCHANGED <<scenario, rc, seen, due, policies, identity, ss, pods, cached, server, history>>

Decides == At("storage") \/ (At("claims") /\ ~cached.claim.exists)

\* Wrong: a StatefulSet that is created is taken for one that is recreated.
RecreateAnyway(note) == "recreate"

Creates(note) == IF note = NoNote THEN "apply" ELSE "recreate"

\* No StatefulSet in the cache: was one deleted by an earlier pass?  The cached
\* RestateCluster may not show it yet.
ReadNote ==
  /\ Decides
  /\ ~cached.ss.exists
  /\ op' = [op EXCEPT !.note = rc.note, !.pc = Creates(rc.note)]
  /\ UNCHANGED <<scenario, rc, seen, due, policies, identity, objects, cached, server, history>>

AwaitDeletion ==
  /\ Decides
  /\ cached.ss.exists /\ cached.ss.dying
  /\ Conclude("Recreating")
  /\ UNCHANGED <<scenario, rc, seen, due, policies, identity, objects, cached, server, history>>

KeepStorage ==
  /\ Decides
  /\ cached.ss.exists /\ ~cached.ss.dying
  /\ cached.ss.size = Asks.size
  /\ op' = [op EXCEPT !.pc = "apply", !.note = seen.note]
  /\ UNCHANGED <<scenario, rc, seen, due, policies, identity, objects, cached, server, history>>

RememberStrategy ==
  /\ Decides
  /\ cached.ss.exists /\ ~cached.ss.dying
  /\ cached.ss.size # Asks.size
  /\ rc' = [rc EXCEPT !.note = cached.ss.strategy]
  /\ op' = [op EXCEPT !.pc = "delete", !.uid = cached.ss.uid]
  /\ UNCHANGED <<scenario, seen, due, policies, identity, objects, cached, server, history>>

\* The precondition of the delete: the same object, in whatever state by now.
IsSameSet == ss.exists /\ ss.uid = op.uid

DeleteSet ==
  /\ At("delete")
  /\ IsSameSet
  /\ ss' = [ss EXCEPT !.dying = TRUE]
  /\ cut' = IF ss.strategy = rc.note THEN cut ELSE cut \cup {"unseen"}
  /\ Conclude("Recreating")
  /\ UNCHANGED <<scenario, rc, seen, due, policies, identity, claim, pods, cached, server, wanted,
                 opened>>

-----------------------------------------------------------------------------
(* The StatefulSet.                                                        *)

\* Claim templates are immutable.
Accepts == ss.exists => ss.size = Asks.size

\* The StatefulSet after an apply that says nothing of the strategy: it stays when
\* another field manager holds it.
AppliedSet ==
  [ss EXCEPT !.exists = TRUE, !.uid = IF ss.exists THEN @ ELSE @ + 1, !.size = Asks.size,
             !.tmpl = Asks.tmpl, !.role = Asks.role,
             !.strategy = IF ss.exists /\ ss.held THEN @ ELSE "RollingUpdate"]

\* A new StatefulSet has no status, and the one that is there speaks of the pods it has.
Answered == [op EXCEPT !.ready = ss.exists /\ pods.state = "ready"]

ApplySet ==
  /\ At("apply")
  /\ Accepts
  /\ ss' = AppliedSet
  /\ op' = [Answered EXCEPT !.pc = IF op.note = NoNote THEN "probe" ELSE "forget"]
  /\ UNCHANGED <<scenario, rc, seen, due, policies, identity, claim, pods, cached, server, history>>

\* Wrong: the noted strategy is not applied.
RecreateByDefault == AppliedSet

RecreatedSet == [AppliedSet EXCEPT !.strategy = op.note, !.held = @ /\ ss.strategy = op.note]

RecreateSet ==
  /\ At("recreate")
  /\ Accepts
  /\ ss' = RecreatedSet
  /\ op' = [Answered EXCEPT !.pc = "own"]
  /\ cut' = IF ss.exists /\ ss.strategy # op.note THEN cut \cup {"unseen"} ELSE cut
  /\ UNCHANGED <<scenario, rc, seen, due, policies, identity, claim, pods, cached, server, wanted,
                 opened>>

\* A second field manager takes the strategy, unless it was changed meanwhile.
OwnStrategy ==
  /\ At("own")
  /\ ss.exists /\ ss.strategy = op.note
  /\ ss' = [ss EXCEPT !.held = TRUE]
  /\ Goto("forget")
  /\ UNCHANGED <<scenario, rc, seen, due, policies, identity, claim, pods, cached, server, history>>

ForgetStrategy ==
  /\ At("forget")
  /\ rc' = [rc EXCEPT !.note = NoNote]
  /\ Goto("probe")
  /\ UNCHANGED <<scenario, seen, due, policies, identity, objects, cached, server, history>>

\* A call the API server refuses.
Refused ==
  /\ \/ At("delete") /\ ~IsSameSet
     \/ (At("apply") \/ At("recreate")) /\ ~Accepts
     \/ At("own") /\ ~(ss.exists /\ ss.strategy = op.note)
  /\ Conclude("Failed")
  /\ UNCHANGED <<scenario, rc, seen, due, policies, identity, objects, cached, server, history>>

-----------------------------------------------------------------------------
(* Provisioning.                                                           *)

Provisions == AutoProvision(Asks) /\ ~seen.provisioned

\* The StatefulSet's status, as the apply answered it.
ValidateStatus ==
  /\ At("probe")
  /\ ~Provisions
  /\ Conclude(IF op.ready THEN "Reconciled" ELSE "SetNotReady")
  /\ UNCHANGED <<scenario, rc, seen, due, policies, identity, objects, cached, server, history>>

\* Restate must not be told to provision itself.
RejectConfig ==
  /\ At("probe")
  /\ Provisions /\ Asks.provision = "misconfigured"
  /\ Conclude("Failed")
  /\ UNCHANGED <<scenario, rc, seen, due, policies, identity, objects, cached, server, history>>

ProbePod ==
  /\ At("probe")
  /\ Provisions /\ Asks.provision = "on"
  /\ IF pods.state = "none" THEN Conclude("PodNotRunning") ELSE Goto("provision")
  /\ UNCHANGED <<scenario, rc, seen, due, policies, identity, objects, cached, server, history>>

\* A cluster that is provisioned already says so, which is as good.
Provision ==
  /\ At("provision")
  /\ IF Reaches("operator", "node")
     THEN server' = TRUE /\ Conclude("Provisioned")
     ELSE UNCHANGED server /\ Conclude("ProvisioningFailed")
  /\ UNCHANGED <<scenario, rc, seen, due, policies, identity, objects, cached, history>>

-----------------------------------------------------------------------------
(* Failures and restarts.                                                  *)

\* What an interrupted call leaves: of the policies, those it got to.
CutShort ==
  /\ cut' = CASE At("own")       -> cut \cup {"strategy"}
              [] At("deleteJob") -> cut \cup {"job"}
              [] OTHER           -> cut
  /\ IF At("policies") THEN \E n \in 0 .. Len(PolicyOrder) - 1 : policies' = Applied(n)
     ELSE UNCHANGED policies

\* The status says so, when that can be written.
CallFails ==
  /\ op.pc \in scenario.fails
  /\ CutShort
  /\ IF At("status") \/ At("suspend") THEN op' = Idle /\ due' = TRUE
     ELSE Conclude("Failed") /\ UNCHANGED due
  /\ UNCHANGED <<scenario, rc, seen, identity, objects, cached, server, wanted,
                 opened>>

\* Passes begin once the RestateClusters are listed; the other caches fill when
\* they do.
Restart ==
  /\ op.pc \in scenario.fails \cup {"idle"}
  /\ CutShort
  /\ op' = Idle
  /\ seen' = rc
  /\ cached' = [ss |-> NoSet, claim |-> NoClaim]
  /\ due' = TRUE
  /\ UNCHANGED <<scenario, rc, identity, objects, server, wanted, opened>>

-----------------------------------------------------------------------------
(* The watches, the user, Kubernetes, the cloud and Restate.               *)

\* Wrong: annotations are left out.
TriggersBySpec(o) == <<o.spec, o.gen, o.phase>>

\* Status changes ask for no pass: they are the operator's own.
Triggers(o) == <<o.spec, o.gen, o.note, o.suspended, o.phase>>

SyncCluster ==
  /\ At("idle")
  /\ seen # rc
  /\ seen' = rc
  /\ due' = (due \/ Triggers(seen) # Triggers(rc))
  /\ UNCHANGED <<scenario, rc, op, policies, identity, objects, cached, server, history>>

Shown == [ss    |-> IF ss.exists THEN [ss EXCEPT !.tmpl = 0, !.role = FALSE, !.held = FALSE]
                    ELSE NoSet,
          claim |-> [NoClaim EXCEPT !.exists = claim.exists]]

\* Only these calls read the other caches, each fed by a watch of its own.
SyncObject(kind) ==
  /\ op.pc \in {"idle", "claims", "storage"}
  /\ cached[kind] # Shown[kind]
  /\ cached' = [cached EXCEPT ![kind] = Shown[kind]]
  /\ due' = TRUE
  /\ UNCHANGED <<scenario, rc, seen, op, policies, identity, objects, server, history>>

\* Storage never shrinks.
EditSpec ==
  /\ rc.phase = "live"
  /\ rc.gen < scenario.edits
  /\ \E spec \in scenario.specs \ {rc.spec} :
       /\ spec.size >= rc.spec.size
       /\ rc' = [rc EXCEPT !.spec = spec, !.gen = @ + 1]
       /\ opened' = (opened \/ LetsAllIn(spec))
  /\ UNCHANGED <<scenario, seen, due, op, policies, identity, objects, cached, server, wanted, cut>>

Suspend ==
  /\ "suspend" \in scenario.acts
  /\ rc.phase = "live"
  /\ ~rc.suspended
  /\ rc.pauses < MaxSuspensions
  /\ rc' = [rc EXCEPT !.suspended = TRUE, !.pauses = @ + 1]
  /\ UNCHANGED <<scenario, seen, due, op, policies, identity, objects, cached, server, history>>

Resume ==
  /\ rc.suspended
  /\ rc' = [rc EXCEPT !.suspended = FALSE]
  /\ UNCHANGED <<scenario, seen, due, op, policies, identity, objects, cached, server, history>>

DeleteObject ==
  /\ "delete" \in scenario.acts
  /\ rc.phase = "live"
  /\ rc' = [rc EXCEPT !.phase = "deleting"]
  /\ UNCHANGED <<scenario, seen, due, op, policies, identity, objects, cached, server, history>>

\* The user wants to roll the pods by hand.
AskOnDelete ==
  /\ "roll" \in scenario.acts
  /\ wanted = "RollingUpdate"
  /\ ss.exists /\ ~ss.dying
  /\ ss' = [ss EXCEPT !.strategy = "OnDelete", !.held = TRUE]
  /\ wanted' = "OnDelete"
  /\ UNCHANGED <<scenario, rc, seen, due, op, policies, identity, claim, pods, cached, server, cut,
                 opened>>

Managed == ss.exists /\ ~ss.dying

\* The StatefulSet controller and the volumes.
ManageSet ==
  \/ /\ Managed /\ ~claim.exists
     /\ claim' = [exists |-> TRUE, bound |-> FALSE, size |-> ss.size]
     /\ UNCHANGED <<ss, pods>>
  \/ /\ claim.exists /\ ~claim.bound
     /\ claim' = [claim EXCEPT !.bound = TRUE]
     /\ UNCHANGED <<ss, pods>>
  \/ /\ Managed /\ claim.bound /\ pods.state = "none"
     /\ pods' = [state |-> "running", tmpl |-> ss.tmpl]
     /\ UNCHANGED <<ss, claim>>

\* A deleted StatefulSet goes once its pods are orphaned.
Orphaned ==
  /\ ss.dying
  /\ ss' = [NoSet EXCEPT !.uid = ss.uid]
  /\ UNCHANGED <<claim, pods>>

\* A pod becomes ready when the cluster is provisioned, which it does itself unless
\* it is told that the operator does.
PodsReady ==
  /\ pods.state = "running"
  /\ server \/ rc.spec.provision # "on"
  /\ server' = TRUE
  /\ pods' = [pods EXCEPT !.state = "ready"]
  /\ UNCHANGED <<ss, claim>>

Roll ==
  /\ Managed
  /\ pods.state # "none" /\ pods.tmpl # ss.tmpl
  /\ ss.strategy = "RollingUpdate"
  /\ pods' = [state |-> "running", tmpl |-> ss.tmpl]
  /\ UNCHANGED <<ss, claim>>

Kubernetes ==
  /\ \/ PodsReady
     \/ (ManageSet \/ Orphaned \/ Roll) /\ UNCHANGED server
  /\ UNCHANGED <<scenario, rc, seen, due, op, policies, identity, cached, history>>

\* The association is set up, and new pods get its credentials some time later.
Cloud ==
  /\ \/ /\ association = "applied"
        /\ association' = "synced"
        /\ UNCHANGED injects
     \/ /\ injects # (association = "synced")
        /\ association # "applied"
        /\ injects' = (association = "synced")
        /\ UNCHANGED association
  /\ UNCHANGED <<scenario, rc, seen, due, op, policies, job, leftover, objects, cached, server,
                 history>>

NewPod == IF injects THEN "token" ELSE "bare"

\* A Job ends with its first pod that has credentials, or when a retry has none.
CanaryRuns ==
  /\ \/ /\ job.exists /\ job.outcome = "pending" /\ job.pod # "token"
        /\ job' = [job EXCEPT !.pod = NewPod]
        /\ UNCHANGED leftover
     \/ /\ job.pod # "none" /\ job.outcome = "pending"
        /\ job' = [job EXCEPT !.outcome = IF job.pod = "token" THEN "complete" ELSE "failed"]
        /\ UNCHANGED leftover
     \/ /\ leftover # "none"
        /\ leftover' = "none"
        /\ UNCHANGED job
  /\ UNCHANGED <<scenario, rc, seen, due, op, policies, association, injects, objects, cached,
                 server, history>>

-----------------------------------------------------------------------------
PassStep ==
  \/ StartPass \/ WriteStatus \/ StartSuspended \/ NoteSuspension \/ ReleaseFinalizer
  \/ ReconcilePolicies \/ Associate \/ Dissociate \/ ApplyCanary \/ CheckPods \/ DeleteJob
  \/ PatchClaim \/ ReadNote \/ AwaitDeletion \/ KeepStorage \/ RememberStrategy \/ DeleteSet
  \/ ApplySet \/ RecreateSet \/ OwnStrategy \/ ForgetStrategy \/ Refused
  \/ ValidateStatus \/ RejectConfig \/ ProbePod \/ Provision

User == EditSpec \/ Suspend \/ Resume \/ DeleteObject \/ AskOnDelete

Next ==
  \/ PassStep \/ CallFails \/ Restart
  \/ SyncCluster \/ SyncObject("ss") \/ SyncObject("claim")
  \/ User
  \/ Kubernetes \/ Cloud \/ CanaryRuns

Spec == Init /\ [][Next]_vars

\* A watch delivers however busy the passes are; the model only lets it deliver
\* where that makes a difference.
Fairness ==
  /\ WF_vars(PassStep)
  /\ SF_vars(SyncCluster)
  /\ SF_vars(SyncObject("ss")) /\ SF_vars(SyncObject("claim"))
  /\ WF_vars(Kubernetes) /\ WF_vars(Cloud) /\ WF_vars(CanaryRuns)

FairSpec == Spec /\ Fairness

-----------------------------------------------------------------------------
(* Safety.                                                                 *)

PastPolicies == op.pc \notin {"idle", "suspend", "policies", "status"}

\* An empty list asks for an open port; the operator is added to it all the same.
OpenToOperatorOnly == Asks.peers = "empty" /\ AutoProvision(Asks) /\ OperatorLabelled

\* Once a pass has got through the network policies they let in whom the spec asks
\* for: the cluster's own nodes, the operator where it has to go, the given peers,
\* and nobody else unless the list is empty (network_policies.rs).  The node port
\* of an open cluster that the operator provisions is the exception.
PoliciesFit ==
  PastPolicies =>
    /\ Reaches("self", "node") \/ OpenToOperatorOnly
    /\ AutoProvision(Asks) /\ OperatorLabelled => Reaches("operator", "node")
    /\ Asks.admin /\ OperatorLabelled => Reaches("operator", "admin")
    /\ \A port \in {"ingress", "admin", "node"} :
         /\ Asks.peers = "given" => Reaches("given", port)
         /\ Reaches("stranger", port) <=>
              \/ ~Asks.fenced
              \/ Asks.peers = "empty" /\ ~(port = "node" /\ OpenToOperatorOnly)

\* Until the user asks for a cluster that everybody reaches, its pods are never ones
\* a stranger reaches: not before the first pass, not between two lists of peers of
\* which a failed pass applied one in part, and not while the pass works with an old
\* copy (reconcile_network_policies applies eight objects one after the other, and
\* the StatefulSet comes after them).
NoStrangers ==
  ~opened /\ pods.state # "none" =>
    \A port \in {"ingress", "admin", "node"} : ~Reaches("stranger", port)

\* The pods are told of a role only when new pods get its credentials, unless a
\* pass was stopped before it deleted the Job of an association that is gone (the
\* canaries, check_pia and check_workload_identity).
CanaryProves ==
  [][ss'.role /\ (~ss.role \/ ss'.uid # ss.uid) => injects \/ "job" \in cut]_vars

\* Pods are replaced only while that is the strategy the user asked for, but for a
\* strategy that was lost when a recreation was cut short or worked with an old
\* copy (recreate_stateful_set "so an OnDelete set for a graceful roll does not
\* become the default RollingUpdate").
RollsAsAsked ==
  [][pods.state # "none" /\ pods'.tmpl # pods.tmpl =>
       wanted = "RollingUpdate" \/ cut \cap {"strategy", "unseen"} # {}]_vars

\* Ready=True written for the spec as it is: the policies, the StatefulSet and the
\* provisioning are what it asks for.
ReadyMeansFit ==
  rc.phase = "live" /\ rc.readyFor = rc.gen =>
    /\ ss.exists /\ <<ss.size, ss.tmpl, ss.role>> = <<rc.spec.size, rc.spec.tmpl, rc.spec.role>>
    /\ rc.spec.fenced <=> policies["deny"].exists
    /\ rc.spec.role <=> association = "synced"
    /\ AutoProvision(rc.spec) => server

-----------------------------------------------------------------------------
(* Liveness.                                                               *)

Undisturbed == <>[][~CallFails /\ ~Restart]_vars

\* An operator that cannot name itself in a policy does not get through to the nodes.
Provisionable(spec) ==
  \/ spec.provision = "off"
  \/ spec.provision = "on" /\ (OperatorLabelled \/ ~spec.fenced \/ spec.peers = "empty")

\* Provided calls stop failing, a cluster that can be provisioned ends up Ready on
\* volumes of the size it asks for, and stays so.
ClusterSettles ==
  Undisturbed =>
    <>[](rc.phase = "live" /\ ~rc.suspended /\ Provisionable(rc.spec) =>
           rc.readyFor = rc.gen /\ claim.size = rc.spec.size)

\* The status ends up telling a suspension, and not telling one that is over
\* (reconcile_suspended waits for a change, and the watch must deliver it).
SuspensionTold ==
  Undisturbed =>
    /\ <>[](rc.phase = "live" /\ rc.suspended) => <>[](rc.mark = "Disabled")
    /\ <>[](rc.phase = "live" /\ ~rc.suspended) => <>[](rc.mark # "Disabled")
=============================================================================
