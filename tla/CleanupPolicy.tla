---------------------------- MODULE CleanupPolicy ----------------------------
(***************************************************************************)
(* The decisions the RestateDeployment controller takes from what Restate  *)
(* told it: what to do about the current version's registration, and when  *)
(* an old version may go.  They are pure functions of their arguments.     *)
(*                                                                         *)
(* A usage answer is a record of three sets of deployment ids: those       *)
(* Restate has (known), those some service points at (latest), and those   *)
(* with unfinished invocations (busy).                                     *)
(*                                                                         *)
(* Here and in the modules built on this one, a definition under "Wrong:"  *)
(* is used by nothing: put in the place of the definition after it, it     *)
(* makes the bug its comment names, which a property must then find.       *)
(***************************************************************************)
EXTENDS Integers

Modes == {"Rollout", "Deleting", "ForceDeleting"}

\* deletePolicy: force; drain with onTimeout: force; drain with onTimeout: hold.
Policies == {"force", "drainForce", "drainHold"}

Actions == {"None", "Register", "Promote", "AlreadyLatest", "Conflict"}

HpaPlans == {"Ensure", "RemoveAndRestore", "Skip"}

\* Wrong: the drain deadline changes nothing.
ModeForWithoutDeadline(deleting, policy, drainOver) ==
  IF ~deleting THEN "Rollout"
  ELSE IF policy = "force" THEN "ForceDeleting" ELSE "Deleting"

\* drainOver: the drain deadline is not after now.
ModeFor(deleting, policy, drainOver) ==
  IF ~deleting THEN "Rollout"
  ELSE IF policy = "force" \/ (policy = "drainForce" /\ drainOver)
       THEN "ForceDeleting"
       ELSE "Deleting"

IsDeleting(mode) == mode # "Rollout"

SkipsDrainDelay(mode) == mode = "ForceDeleting"

NeedsUnpinnedCount(mode) == mode = "Deleting"

\* Wrong: only being a service's endpoint counts.
IsActiveAsEndpoint(mode, id, usage) ==
  mode # "ForceDeleting" /\ id \in usage.latest

\* Wrong: being registered counts.
IsActiveWhileKnown(mode, id, usage) ==
  mode # "ForceDeleting" /\ id \in usage.known

IsActive(mode, id, usage) ==
  CASE mode = "ForceDeleting" -> FALSE
    [] mode = "Deleting"      -> id \in usage.busy
    [] mode = "Rollout"       -> id \in usage.latest \cup usage.busy

\* Wrong: one too many.
RetainOneMore(mode, historicCount, limit) ==
  ~IsDeleting(mode) /\ historicCount <= limit

\* Wrong: deletions keep a history as well.
RetainAlways(mode, historicCount, limit) == historicCount < limit

RetainForRollback(mode, historicCount, limit) ==
  ~IsDeleting(mode) /\ historicCount < limit

PlanActiveVersionHpa(autoscaling, deleting) ==
  IF deleting THEN "Skip"
  ELSE IF autoscaling THEN "Ensure"
  ELSE "RemoveAndRestore"

\* Wrong: a version that still runs invocations needs nothing done.
PlanByActivity(recorded, usage, owned) ==
  IF recorded \notin usage.known THEN "Register"
  ELSE IF recorded \in usage.latest \cup usage.busy THEN "AlreadyLatest"
  ELSE IF (owned \ {recorded}) \cap usage.known \cap usage.latest # {} THEN "Promote"
  ELSE "Conflict"

\* Wrong: an id Restate has lost is taken for one it superseded.
PlanWithoutKnown(recorded, usage, owned) ==
  IF recorded \in usage.latest THEN "AlreadyLatest"
  ELSE IF (owned \ {recorded}) \cap usage.latest # {} THEN "Promote"
  ELSE IF owned = {} THEN "Register" ELSE "Conflict"

\* Wrong: a version is taken for the latest as long as Restate knows it.
PlanOnceKnown(recorded, usage, owned) ==
  IF recorded \in usage.known THEN "AlreadyLatest" ELSE "Register"

\* recorded: the id annotated on the current version, or one Restate cannot
\* know; owned: the ids annotated on every version of this object.
PlanRegistration(recorded, usage, owned) ==
  IF recorded \notin usage.known THEN "Register"
  ELSE IF recorded \in usage.latest THEN "AlreadyLatest"
  ELSE IF (owned \ {recorded}) \cap usage.known \cap usage.latest # {} THEN "Promote"
  ELSE "Conflict"
=============================================================================
