--------------------------- MODULE RolloutInvariant ---------------------------
(***************************************************************************)
(* Why a rollout keeps the versions Restate needs: RecordedServingUp, made *)
(* inductive.  What a pass decides rests on two snapshots, Restate's       *)
(* answer to the usage query and the cache's list of old ReplicaSets; the  *)
(* conjuncts say in which sense each of them is still true when the pass   *)
(* acts on it, whatever users, Kubernetes and Restate did in between.      *)
(***************************************************************************)
EXTENDS RestateDeployment

Walking == {"item", "keep", "deregister", "delete"}

Answered == {"validate", "register", "record", "confirm", "sweep"} \cup Walking

Adopted == {"unschedule", "publish", "routing", "query"} \cup Answered

\* Past the call to POST /deployments the pass has an id of its version's endpoint.
ReplyGiven == op.pc \in {"record", "confirm"} => op.reply \in IdsOf(Target)

\* A version is only ever annotated with an id of its own endpoint.
IdsBelong == \A v \in Versions : rs[v].id \in IdsOf(v) \cup {NoId}

\* A live object is never in a cleanup pass.
LiveRollsOut ==
  op.mode = "Rollout" /\ op.pc \notin {"getCluster", "drainQuery", "release"}

\* The version a pass is about exists and is scaled up from its first call on.
TargetUp == op.pc \in Adopted => rs[Target].exists /\ rs[Target].up

\* Restate needs no other version's deployment that the answer did not report.
AnswerHolds ==
  op.pc \in Answered =>
    \A id \in registered \ IdsOf(Target) :
      id \in usage.known /\ (Needed(id) => id \in usage.latest \cup usage.busy)

\* The ids of the other versions are the ones the cache has until the walk copies
\* them, and then the ones it copied for the versions it has not come to.
ListHolds ==
  /\ op.pc \in (Adopted \ Walking) \cup {"adopt"} =>
       \A v \in Versions \ {Target} : cache[v].id = rs[v].id
  /\ op.pc \in Walking =>
       /\ sweep.at \notin sweep.todo \cup {Target}
       /\ \A v \in sweep.todo : v # Target /\ sweep.view[v].id = rs[v].id

\* All of it: what has to hold while the object is live, and at all times.
SafeWhileLive == LiveRollsOut /\ TargetUp /\ AnswerHolds /\ ListHolds

RolloutSafe ==
  /\ ReplyGiven
  /\ IdsBelong
  /\ phase = "live" => SafeWhileLive
  /\ RecordedServingUp
=============================================================================
