-------------------------- MODULE OperatorInvariant --------------------------
(***************************************************************************)
(* Why the process and the passes in Knative mode keep their promises: the *)
(* safety properties of OperatorProcess and Operator, made inductive.      *)
(*                                                                         *)
(* The first part is about the process and what it lends the passes, the   *)
(* second about a pass and the object; both hold in any environment.  The  *)
(* third, that every registration is recorded, needs passes that begin     *)
(* with a cache that has caught up, and that do not fail between the       *)
(* registration and its record.                                            *)
(***************************************************************************)
EXTENDS Operator

-----------------------------------------------------------------------------
(* The process.                                                            *)

GatesTell == \A c \in Controllers : gates[c] = "Ready" => ~Waiting(c)

ReporterRests == followed = {} => reporter = "done"

\* A process with an object waits for no CRD, and is told to stop by nobody.
Undisturbing ==
  ~NoObject =>
    /\ followed = {} /\ heard = {} /\ ~terminating
    /\ \A c \in Controllers : ~Waiting(c)

\* The stores are filled by a process that saw Knative, and by no other.
StoresMatch ==
  /\ pos["RestateDeployment"] = "warmingKnative" => sawKnative
  /\ pos["RestateDeployment"] \notin {"running", "stopped"} \/ ~sawKnative => CachedTags = {}

ProcessKept == GatesTell /\ ReporterRests /\ Undisturbing /\ StoresMatch

-----------------------------------------------------------------------------
(* A pass.                                                                 *)

RollsOut == op.mode = "Rollout" /\ ~At("idle")

Walking == {"item", "delete"}

Answered == {"register", "record", "confirm"} \cup Walking

PassFits ==
  /\ ~At("idle") => ~NoObject /\ Running
  /\ phase = "gone" => At("idle")
  /\ IsDeleting(op.mode) =>
       phase = "deleting" /\ op.tag = NoVersion /\ op.pc \in {"drainQuery"} \cup Walking
  /\ RollsOut => op.tag = DetermineTag(op.self) /\ ~At("drainQuery")

\* What is reported, and what a pass works on, is not newer than the spec.
GenerationsGrow ==
  /\ readyFor <= spec.gen
  /\ ~At("idle") => /\ readyFor <= op.self.gen /\ op.self.gen <= spec.gen
                    /\ op.self.gen = spec.gen => op.self = spec

\* Ids stay with their endpoint, wherever they are written down.
IdsBelong ==
  /\ \A v \in Versions :
       {cfg[v].id, cache[v].id, sweep.view[v].id} \subseteq IdsOf(v) \cup {NoId}
  /\ op.id \in IdsOf(op.tag) \cup {NoId}

\* A walk comes to no version twice, and not to the one the pass is about.
WalksOthers ==
  op.pc \in Walking =>
    /\ op.tag \notin sweep.todo
    /\ At("delete") => sweep.at \in Versions \ {op.tag} /\ sweep.at \notin sweep.todo

\* The Configuration as the pass made it, while nobody has collected it.
Adopted ==
  RollsOut /\ cfg[op.tag].exists =>
    /\ cfg[op.tag].template = op.self.template
    /\ op.pc \in {"query", "register"} => cfg[op.tag].rollout = "routed"

-----------------------------------------------------------------------------
(* Deadlines, routes and work.                                             *)

Unscheduled ==
  /\ RollsOut /\ ~At("unschedule") => cfg[op.tag].removeAt = Never
  /\ phase = "live" /\ readyFor = spec.gen => cfg[Tag].removeAt = Never

\* Versions that share a service share all of them (see plan_registration).
SharedAlike ==
  \A v, w \in Versions : Serves[v] \cap Serves[w] # {} => Serves[v] = Serves[w]

\* No version of the object but v has one of v's services.
HasItsServices(v) == \A s \in Serves[v] : route[s] \in Ids => VersionOf(route[s]) = v

RoutesFitEndpoints ==
  \A s \in Services : route[s] \in Ids => s \in Serves[VersionOf(route[s])]

RoutesTogether ==
  \A v \in Versions : \A s, t \in Serves[v] :
    route[s] \in Ids /\ route[t] \in Ids => VersionOf(route[s]) = VersionOf(route[t])

Routed ==
  /\ RollsOut /\ op.pc \in Walking => HasItsServices(op.tag)
  /\ readyFor = spec.gen => HasItsServices(Tag)

RoutingKept == RoutesFitEndpoints /\ RoutesTogether /\ Routed

\* No deployment of another version is needed that the answer did not report.
AnswerStands ==
  RollsOut /\ op.pc \in Answered =>
    \A id \in registered : Needed(id) /\ VersionOf(id) # op.tag => id \in usage.latest \cup usage.busy

-----------------------------------------------------------------------------
(* Records.                                                                *)

OneEndpoint ==
  \A id, other \in registered : VersionOf(id) = VersionOf(other) => id = other

IdAdopted ==
  /\ op.pc \in {"unschedule", "route", "query", "register"} /\ cfg[op.tag].exists =>
       op.id = cfg[op.tag].id
  /\ At("record") => op.id \in registered

\* The registrations that have an owner.
Owned == registered \ strays

NotedId(v) == IF At("record") /\ v = op.tag THEN op.id ELSE cfg[v].id

\* There to stay.
Stands(v) == cfg[v].exists /\ ~cfg[v].dying

Recorded ==
  phase # "gone" => \A id \in Owned : Stands(VersionOf(id)) /\ id = NotedId(VersionOf(id))

ListAgrees ==
  /\ op.pc \notin {"idle"} \cup Walking /\ sawKnative =>
       \A v \in Versions \ {op.tag} :
         Stands(v) => cache[v].exists /\ ~cache[v].dying /\ cache[v].id = cfg[v].id
  /\ op.pc \in Walking => \A v \in sweep.todo : Stands(v) => Seen(v).id = cfg[v].id

AnswerCovers ==
  op.pc \in Answered => \A id \in registered : VersionOf(id) # op.tag => id \in usage.known

\* A Configuration is only deleted when its registration is gone.
DeletesUnregistered == At("delete") => \A id \in Owned : VersionOf(id) # sweep.at

\* A cleanup pass still has every registration ahead of it, or knows that it is not
\* the last pass.
CleanupCovers ==
  IsDeleting(op.mode) /\ op.pc \in Walking /\ sawKnative =>
    \A id \in Owned : VersionOf(id) \in sweep.todo \/ sweep.held

BooksKept ==
  /\ OneEndpoint /\ IdAdopted /\ Recorded /\ ListAgrees /\ AnswerCovers
  /\ DeletesUnregistered /\ CleanupCovers

-----------------------------------------------------------------------------
PassKept ==
  PassFits /\ GenerationsGrow /\ IdsBelong /\ WalksOthers /\ Adopted /\ Unscheduled /\ AnswerStands

OperatorInvariant == OperatorTypeOK /\ ProcessKept /\ PassKept
=============================================================================
