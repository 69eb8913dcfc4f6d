--------------------------- MODULE ClusterInvariant ---------------------------
(***************************************************************************)
(* Why the RestateCluster controller keeps its promises: the properties of *)
(* RestateCluster, made inductive.  A pass works with copies, the cached   *)
(* cluster and the cached StatefulSet, and it may stop after any call; the *)
(* conjuncts say what is true of the objects at each call, and in which    *)
(* sense the copies are.                                                   *)
(***************************************************************************)
EXTENDS RestateCluster

-----------------------------------------------------------------------------
(* The copies of the cluster.                                              *)

\* The cached cluster is one the user had, at most as far as the one there is.
SeenBehind ==
  /\ {rc.spec, seen.spec} \subseteq scenario.specs
  /\ seen.gen <= rc.gen
  /\ seen.gen = rc.gen => seen.spec = rc.spec
  /\ seen.spec.size <= rc.spec.size
  /\ rc.phase = "live" => seen.phase = "live"

\* A pass that recreates the StatefulSet does so as it is noted.
NoteRead == op.pc \in {"recreate", "own"} => op.note = rc.note /\ op.note \in Strategies

-----------------------------------------------------------------------------
(* Network policies.                                                       *)

\* The calls made with the policies in place, and the end of a pass that made them.
Covered == PastPolicies \/ (At("status") /\ op.then = "Reconciled")

PoliciesApplied == Covered => \A name \in PolicyNames : policies[name] = DesiredPolicy(name, Asks)

\* A rule names whom it lets in, and the policy that isolates the pods comes first.
ShutsOut(policy) == policy.rule => policy.from # {} /\ "stranger" \notin policy.from

FencedOff ==
  ~opened =>
    /\ ~LetsAllIn(rc.spec) /\ ~LetsAllIn(seen.spec)
    /\ \A name \in PolicyNames : ShutsOut(policies[name])
    /\ Covered \/ ss.exists \/ pods.state # "none" => policies["deny"].exists

-----------------------------------------------------------------------------
(* Credentials.                                                            *)

\* The association is gone and its canary is about to go.
Clearing == At("deleteJob") /\ op.then = "claims"

PastCanary ==
  op.pc \in {"claims", "storage", "delete", "apply", "recreate", "own", "forget", "probe",
             "provision"}

DropsFor == At("deleteJob") => op.then \in {"claims", "CanaryPending", "CanaryFailed"}

\* What the spec asks for is what is associated, from the call that sees to it on.
Associated ==
  /\ At("canary") \/ At("pods") => Asks.role
  /\ Clearing => ~Asks.role
  /\ \/ op.pc \in {"canary", "pods"}
     \/ Clearing
     \/ PastCanary
     \/ At("status") /\ op.then = "Reconciled"
     => association = IF Asks.role THEN "synced" ELSE "none"

\* A canary whose pod has credentials speaks of the association there is.
CanarySpeaks ==
  /\ ~job.exists => job = NoJob
  /\ job.outcome = "complete" => job.pod = "token"
  /\ job.exists => association = "synced" \/ "job" \in cut \/ Clearing
  /\ job.pod = "token" => injects \/ "job" \in cut \/ Clearing

Proven == PastCanary /\ Asks.role => injects \/ "job" \in cut

-----------------------------------------------------------------------------
(* The StatefulSet.                                                        *)

\* Storage only grows, and only a StatefulSet with less than is asked for is deleted.
SetGrows ==
  /\ ss.exists => ss.size <= Asks.size
  /\ ss.dying => ss.exists /\ ss.size < Asks.size

IsCachedSet == ss.exists /\ ss.uid = cached.ss.uid

\* The cached StatefulSet is an earlier state of the one there is, or one that was
\* deleted for its size.
CachedBehind ==
  cached.ss.exists =>
    /\ cached.ss.uid <= ss.uid
    /\ cached.ss.size <= Asks.size
    /\ IsCachedSet => cached.ss.size = ss.size
    /\ ~IsCachedSet \/ ss.dying => cached.ss.size < Asks.size

\* The delete is for a StatefulSet in the cache, whose strategy is noted.
DeletesCached ==
  At("delete") =>
    /\ cached.ss.exists /\ op.uid = cached.ss.uid
    /\ cached.ss.size < Asks.size
    /\ rc.note = cached.ss.strategy

\* From the apply on, the StatefulSet is what the spec asks for.
SetApplied ==
  \/ op.pc \in {"own", "forget", "probe", "provision"}
  \/ At("status") /\ op.then = "Reconciled"
  => /\ ss.exists /\ ~ss.dying
     /\ <<ss.size, ss.tmpl, ss.role>> = <<Asks.size, Asks.tmpl, Asks.role>>

-----------------------------------------------------------------------------
(* The update strategy.                                                    *)

Excused == cut \cap {"strategy", "unseen"} # {}

ByHand == wanted = "OnDelete" /\ ~Excused

Alive == ss.exists /\ ~ss.dying

\* A roll by hand stays one: on the StatefulSet, and while there is none, in the note
\* that every later pass finds.
RollKept ==
  ByHand =>
    /\ ss.exists => ss.strategy = "OnDelete"
    /\ Alive => ss.held \/ (At("own") /\ op.note = "OnDelete")
    /\ ~Alive =>
         /\ rc.note = "OnDelete"
         /\ cached.ss.exists => cached.ss.strategy = "OnDelete"
         /\ ~At("apply")

-----------------------------------------------------------------------------
(* What the status says.                                                   *)

Fits(spec) ==
  /\ ss.exists /\ ~ss.dying
  /\ <<ss.size, ss.tmpl, ss.role>> = <<spec.size, spec.tmpl, spec.role>>
  /\ spec.fenced <=> policies["deny"].exists
  /\ association = IF spec.role THEN "synced" ELSE "none"
  /\ AutoProvision(spec) => server

ProvisionedOnce ==
  /\ rc.provisioned \/ seen.provisioned => server
  /\ At("status") /\ op.then = "Provisioned" => server
  /\ At("status") /\ op.then = "Reconciled" /\ AutoProvision(Asks) => seen.provisioned

\* A pass is about a suspension exactly when the cluster it began with is suspended.
PassesWhileOn == ~At("idle") => (seen.suspended <=> At("suspend"))

\* Ready is said of a generation the operator saw, and stays true of it.
ReadyHolds ==
  /\ rc.readyFor <= seen.gen /\ seen.readyFor <= seen.gen
  /\ seen.suspended => rc.readyFor = seen.readyFor
  /\ rc.phase = "live" /\ rc.readyFor = rc.gen => Fits(rc.spec)

-----------------------------------------------------------------------------
StoragesKept == SetGrows /\ CachedBehind /\ DeletesCached

ClusterInvariant ==
  /\ ClusterTypeOK
  /\ SeenBehind
  /\ NoteRead
  /\ PoliciesApplied
  /\ FencedOff
  /\ DropsFor
  /\ Associated
  /\ CanarySpeaks
  /\ Proven
  /\ StoragesKept
  /\ SetApplied
  /\ RollKept
  /\ ProvisionedOnce
  /\ PassesWhileOn
  /\ ReadyHolds
=============================================================================
