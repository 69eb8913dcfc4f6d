------------------------ MODULE RegistrationInvariant ------------------------
(***************************************************************************)
(* Why a drain finishes old work, why no registration is orphaned, and why *)
(* the controller keeps its contract: DrainFinishesOldWork,                *)
(* NothingOrphaned and KeepsContract, made inductive.                      *)
(*                                                                         *)
(* PassInOrder is what no environment can upset.  DrainCovers needs the    *)
(* object's deployments to be nobody else's business.  BooksKept says that *)
(* every registration is in the operator's books, as the id annotated on a *)
(* ReplicaSet or as the one about to be annotated, and that a pass which   *)
(* takes versions down comes past every one it answers for.                *)
(***************************************************************************)
EXTENDS RolloutInvariant

-----------------------------------------------------------------------------
(* What holds in any environment.                                          *)

CleanupOnly == {"getCluster", "drainQuery", "release"}

\* Cleanup passes run on a deleted object, and nothing runs once it is released.
PassFitsPhase ==
  /\ phase = "gone" => At("idle")
  /\ IsDeleting(op.mode) => phase = "deleting"
  /\ op.pc \in CleanupOnly => IsDeleting(op.mode)
  /\ IsDeleting(op.mode) => op.pc \in CleanupOnly \cup {"sweep"} \cup Walking

\* What is not there has no annotation.
BlankWhenAbsent ==
  \A v \in Versions : /\ ~rs[v].exists => rs[v].id = NoId
                      /\ ~cache[v].exists => cache[v].id = NoId

\* The versions a pass looks after as old ones.
IsOld(v) == IsDeleting(op.mode) \/ v # Target

WalksOld ==
  /\ op.pc \in Walking =>
       /\ sweep.at \notin sweep.todo
       /\ \A v \in sweep.todo : IsOld(v)
  /\ op.pc \in {"keep", "deregister", "delete"} => sweep.at \in Versions /\ IsOld(sweep.at)

TargetExists == ~IsDeleting(op.mode) /\ op.pc \in Adopted => rs[Target].exists

\* Until it has a new one to record, a rollout works with the id that is annotated.
IdAdopted ==
  /\ At("adopt") => op.id = NoId
  /\ op.pc \in {"unschedule", "publish", "routing", "query", "validate", "register"} =>
       op.id = rs[Target].id

\* Restate keeps work and routes for registered deployments only.
WorkIsRegistered ==
  /\ \A id \in Ids : pinned[id] > 0 => id \in registered
  /\ \A s \in Services : route[s] \in Ids => route[s] \in registered

DeregistersIdle ==
  At("deregister") => KnownToRestate(sweep.at) /\ ~Active(sweep.at)

PassInOrder ==
  /\ ReplyGiven /\ IdsBelong
  /\ PassFitsPhase /\ BlankWhenAbsent /\ WalksOld /\ TargetExists
  /\ IdAdopted
  /\ WorkIsRegistered /\ DeregistersIdle

-----------------------------------------------------------------------------
(* Without other users of the same Restate.                                *)

\* Work the answer did not report was pinned since, to a version in use.
DrainCovers ==
  op.mode = "Deleting" /\ op.pc \in Answered =>
    \A id \in Ids : pinned[id] > 0 => id \in usage.busy \cup LatestIds

-----------------------------------------------------------------------------
(* With caches that have caught up and no lost registration.               *)

\* The id of v the operator has written down, or is about to.
NotedId(v) == IF At("record") /\ v = Target THEN op.reply ELSE rs[v].id

Recorded == \A id \in registered : id = NotedId(VersionOf(id))

BeforeWalk == (Adopted \ Walking) \cup {"adopt", "getCluster", "drainQuery"}

\* The cache, and then the list copied from it, shows the ids that are annotated.
ListAgrees ==
  /\ op.pc \in BeforeWalk => \A v \in Versions : IsOld(v) => cache[v].id = rs[v].id
  /\ op.pc \in Walking => \A v \in sweep.todo : Seen(v).id = rs[v].id
  /\ op.pc \in {"deregister", "delete"} => Seen(sweep.at).id = rs[sweep.at].id

\* Whatever is registered for an old version was in the answer.
AnswerCovers ==
  op.pc \in Answered =>
    \A id \in registered : IsOld(VersionOf(id)) => id \in usage.known

\* A ReplicaSet is only deleted with nothing registered for it.
DeletesUnregistered == At("delete") => rs[sweep.at].id \notin registered

\* A cleanup pass still has every registration ahead of it, or knows that it is
\* not the last pass.
CleanupCovers ==
  IsDeleting(op.mode) /\ op.pc \in Walking =>
    \A id \in registered :
      \/ VersionOf(id) \in sweep.todo
      \/ At("deregister") /\ VersionOf(id) = sweep.at
      \/ sweep.blocked \/ sweep.pending

NothingLeft == At("release") \/ phase = "gone" \/ rc = "absent" => registered = {}

BooksKept ==
  /\ Recorded /\ ListAgrees /\ AnswerCovers /\ DeletesUnregistered
  /\ CleanupCovers /\ NothingLeft

RegistrationsKept == PassInOrder /\ DrainCovers /\ BooksKept
=============================================================================
