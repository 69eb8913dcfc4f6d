--------------------------- MODULE HistoryInvariant ---------------------------
(***************************************************************************)
(* Why a rollout retires old versions the way it says it does: the history *)
(* stays bounded and keeps the newest versions, nothing is scaled down     *)
(* before its drain delay is over, and what is scaled down has no          *)
(* autoscaler left.  HistoryBounded, RetainsNewest, DrainDelayRespected,   *)
(* StoppedHasNoHpa and ConflictMeansForeign, made inductive.               *)
(*                                                                         *)
(* A rollout that began before the object was deleted goes on after it, so *)
(* the conjuncts are about rollouts, whatever has become of the object.    *)
(***************************************************************************)
EXTENDS RoutingInvariant, DrainHistory

RollsOut == op.mode = "Rollout" /\ ~At("idle")

\* No cleanup pass has touched the versions yet.
InCharge == phase = "live" \/ RollsOut

BeforeAnswer == {"adopt", "unschedule", "publish", "routing", "query"}

Stopping == op.pc \in {"deregister", "delete"}

-----------------------------------------------------------------------------
(* What Restate needs is scaled up, and the pass knows what that is.       *)

AsksAboutServing ==
  RollsOut /\ op.pc \in BeforeAnswer =>
    \A v \in Versions \ {Target} : InUse(v) => rs[v].up

\* No deployment of another version is needed that the answer did not report.
AnswerStands ==
  RollsOut /\ op.pc \in Answered =>
    \A id \in registered \ IdsOf(Target) : Needed(id) => id \in usage.latest \cup usage.busy

\* Restate needed the version when it was asked.
Vital(v) == rs[v].id \in usage.known \cap (usage.latest \cup usage.busy)

VitalUp ==
  /\ RollsOut /\ op.pc \in Answered =>
       \A v \in Versions \ {Target} : Vital(v) => rs[v].up
  /\ RollsOut /\ At("keep") => rs[sweep.at].up

\* The version the pass is about is up, and soon no longer due to be removed.
TargetStays ==
  /\ RollsOut /\ op.pc \in Adopted => rs[Target].up
  /\ RollsOut /\ op.pc \in Adopted \ {"unschedule"} => rs[Target].removeAt = Never

\* A version scaled to zero while Restate has it was due, and stays due.
StoppedWasDue ==
  InCharge =>
    \A v \in Versions :
      rs[v].exists /\ ~rs[v].up /\ rs[v].id \in registered => rs[v].removeAt = 0

\* So was one that Restate had when it was asked.
KnownStoppedDue ==
  RollsOut /\ op.pc \in Answered =>
    \A v \in Versions \ {Target} :
      rs[v].exists /\ ~rs[v].up /\ rs[v].id \in usage.known => rs[v].removeAt = 0

ServesHold == AsksAboutServing /\ AnswerStands /\ VitalUp /\ TargetStays
              /\ StoppedWasDue /\ KnownStoppedDue

-----------------------------------------------------------------------------
(* The list of old versions, in the cache and then in the walk's copy.     *)

ListExact ==
  RollsOut /\ op.pc \in BeforeAnswer \cup (Answered \ Walking) =>
    \A v \in Versions \ {Target} : cache[v] = rs[v]

\* What the walk has yet to come to is as it was listed, only older.
ViewFits ==
  /\ RollsOut /\ op.pc \in Walking =>
       \A v \in sweep.todo :
         /\ rs[v].exists
         /\ Seen(v).up = rs[v].up /\ Seen(v).created = rs[v].created
         /\ Seen(v).removeAt = 0 => rs[v].removeAt = 0
         /\ ~Seen(v).up /\ KnownToRestate(v) => Seen(v).removeAt = 0
  /\ At("item") => sweep.at = NoVersion
  /\ RollsOut /\ Stopping => rs[sweep.at].exists /\ ~rs[sweep.at].up

ListHoldsUp == ListExact /\ ViewFits

-----------------------------------------------------------------------------
(* The history.                                                            *)

\* The versions kept for a rollback so far.
Kept == {v \in Versions \ (sweep.todo \cup {Target, sweep.at}) : rs[v].exists /\ ~rs[v].up}

HistoryCounted ==
  RollsOut /\ op.pc \in Walking =>
    /\ IsFiniteSet(Kept)
    /\ Cardinality(Kept) = sweep.historic
    /\ sweep.historic <= HistoryLimit
    /\ Stopping => sweep.historic = HistoryLimit

\* No two versions are of one generation.
CreatedApart ==
  /\ \A v, w \in Versions :
       rs[v].exists /\ rs[w].exists /\ rs[v].created = rs[w].created => v = w
  /\ \A v \in Versions :
       rs[v].exists =>
         /\ rs[v].created <= spec.gen
         /\ rs[v].created = spec.gen => v = spec.template
         /\ ~At("idle") /\ rs[v].created = op.self.gen => v = Target

\* Those kept are newer than those still to come, and the one going is in between.
KeptAreNewer ==
  RollsOut /\ op.pc \in Walking =>
    /\ \A w \in Kept : \A v \in sweep.todo : rs[v].created < rs[w].created
    /\ Stopping =>
         /\ \A w \in Kept : rs[sweep.at].created < rs[w].created
         /\ \A v \in sweep.todo : rs[v].created < rs[sweep.at].created

HistoryKept == HistoryCounted /\ CreatedApart /\ KeptAreNewer

-----------------------------------------------------------------------------
(* Autoscalers, while the watch on them has been listed.                   *)

HpasSeen ==
  /\ RollsOut /\ op.pc \in BeforeAnswer \cup (Answered \ Walking) => hpa \subseteq hpaCache
  /\ RollsOut /\ op.pc \in Walking => sweep.todo \cap hpa \subseteq hpaCache
  /\ RollsOut /\ Stopping => sweep.at \notin hpa

ScaledUpOnly == InCharge => \A v \in hpa : rs[v].up

HpasKept == HpasSeen /\ ScaledUpOnly

-----------------------------------------------------------------------------
(* The drain delay.                                                        *)

FreeTypeOK == free \in [Versions -> 0 .. DrainDelay]

\* Nothing is scheduled to go while in use, or too early.
ScheduledIsFree ==
  InCharge =>
    \A v \in Versions :
      rs[v].removeAt # Never /\ rs[v].id \in registered =>
        ~Needed(rs[v].id) /\ free[v] + rs[v].removeAt >= DrainDelay

\* Garbage collection finds no version that Restate still has under its id.
NothingRecordedLeft ==
  /\ IsDeleting(op.mode) /\ op.pc \in Walking =>
       \A v \in Versions :
         rs[v].id \in registered =>
           \/ v \in sweep.todo
           \/ Stopping /\ v = sweep.at
           \/ sweep.blocked \/ sweep.pending
  /\ At("release") \/ phase = "gone" => \A v \in Versions : rs[v].id \notin registered
  /\ rc = "absent" => registered = {}

DrainKept == FreeTypeOK /\ ScheduledIsFree /\ NothingRecordedLeft

-----------------------------------------------------------------------------
(* Alone with its Restate, the object holds the services it registered.    *)

HoldsItsServices ==
  InCharge =>
    \A id \in registered : \A s \in Serves[VersionOf(id)] : route[s] # NoId
=============================================================================
