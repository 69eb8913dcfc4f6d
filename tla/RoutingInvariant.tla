--------------------------- MODULE RoutingInvariant ---------------------------
(***************************************************************************)
(* Why Ready=True means that new work lands on the version the spec asks   *)
(* for: ReadyMeansRouted, made inductive.  A pass concludes it from an     *)
(* answer it got earlier, for the generation it began with, and says so    *)
(* when it ends.  Meanwhile others may take services away from the object, *)
(* and users may edit it, but only a pass moves a service to a version.    *)
(***************************************************************************)
EXTENDS RegistrationInvariant

\* Versions that share a service share all of them: Restate's answer is per
\* deployment, so a version that is latest for one of its services and superseded
\* for another reads as latest (plan_registration).
SharedAlike ==
  \A v, w \in Versions : Serves[v] \cap Serves[w] # {} => Serves[v] = Serves[w]

\* No version of the object but v has one of v's services.
HasItsServices(v) == \A s \in Serves[v] : route[s] \in Ids => VersionOf(route[s]) = v

RoutesFitEndpoints ==
  \A s \in Services : route[s] \in Ids => s \in Serves[VersionOf(route[s])]

RoutesTogether ==
  \A v \in Versions : \A s, t \in Serves[v] :
    route[s] \in Ids /\ route[t] \in Ids => VersionOf(route[s]) = VersionOf(route[t])

\* What is reported, and what a pass works on, is not newer than the spec.
GenerationsGrow ==
  /\ status.gen <= spec.gen
  /\ ~At("idle") => /\ status.gen <= op.self.gen /\ op.self.gen <= spec.gen
                    /\ op.self.gen = spec.gen => Target = spec.template

\* What the pass is going to report.
OutcomeHolds ==
  op.pc \in {"sweep"} \cup Walking /\ ~IsDeleting(op.mode) /\ op.outcome = "Deployed" =>
    HasItsServices(Target)

StatusHolds ==
  status.reason = "Deployed" /\ status.gen = spec.gen => HasItsServices(spec.template)

RoutingKept ==
  /\ RoutesFitEndpoints /\ RoutesTogether /\ GenerationsGrow
  /\ OutcomeHolds /\ StatusHolds

-----------------------------------------------------------------------------
(* Why a conflict that was reported is left alone, as YieldsToForeign says.*)

ConflictReported == status = [reason |-> "ForeignDeployment", gen |-> spec.gen]

\* Until the pass has a new id, the cache has the one that is annotated.
OwnIdCached ==
  op.pc \in {"adopt", "unschedule", "publish", "routing", "query"} /\ ~IsDeleting(op.mode) =>
    cache[Target].id = rs[Target].id

\* No other version has a service to be promoted away from.
NoOtherLatest ==
  ConflictReported =>
    \A v \in Versions \ {spec.template} : rs[v].id \notin LatestIds

PromotesNothing ==
  ConflictReported /\ op.pc \in {"validate", "register"} => op.action # "Promote"

\* Only the report itself says so.
OutcomeIsOwn == op.outcome # "ForeignDeployment"

ConflictKept == OwnIdCached /\ NoOtherLatest /\ PromotesNothing /\ OutcomeIsOwn
=============================================================================
