---------------------------- MODULE RestateAdmin ----------------------------
(***************************************************************************)
(* The Restate server as the operator sees it through the admin API.  This *)
(* code is outside the repository: every definition here is modelled from  *)
(* how the RestateDeployment controller uses the API (POST /query,         *)
(* GET /services, POST /deployments, DELETE /deployments/{id}).            *)
(*                                                                         *)
(* A deployment is an endpoint Restate has discovered.  The operator gives *)
(* every version an endpoint of its own, so a deployment id is the version *)
(* whose endpoint it is together with an incarnation: an endpoint keeps    *)
(* its id for as long as it stays registered and gets a new one after it   *)
(* was deregistered.                                                       *)
(***************************************************************************)
EXTENDS Integers, FiniteSets

CONSTANTS
  Versions,        \* pod templates the object may be given, one endpoint each
  Services,        \* Restate services
  Serves,          \* Serves[v]: the services discovered at version v's endpoint
  Incarnations,    \* how often one endpoint can be registered anew
  MaxInvocations,  \* bound: unfinished invocations per service and per deployment
  NoId,            \* no deployment id
  Foreign          \* a deployment registered by someone else

Ids == Versions \X Incarnations

ASSUME RestateAssumption ==
  /\ Serves \in [Versions -> SUBSET Services]
  /\ Incarnations \subseteq Nat
  /\ MaxInvocations \in Nat
  /\ NoId \notin Ids
  /\ Foreign \notin Ids
  /\ Foreign # NoId

VARIABLES
  registered,  \* sys_deployment: the ids Restate holds for our endpoints
  route,       \* sys_service.deployment_id: where new invocations of a service go
  pinned,      \* unfinished invocations bound to a deployment
  unpinned     \* unfinished invocations of a service bound to no deployment yet

restate == <<registered, route, pinned, unpinned>>

RestateTypeOK ==
  /\ registered \subseteq Ids
  /\ route \in [Services -> Ids \cup {NoId, Foreign}]
  /\ pinned \in [Ids -> 0 .. MaxInvocations]
  /\ unpinned \in [Services -> 0 .. MaxInvocations]

RestateInit ==
  /\ registered = {}
  /\ route = [s \in Services |-> NoId]
  /\ pinned = [id \in Ids |-> 0]
  /\ unpinned = [s \in Services |-> 0]

VersionOf(id) == id[1]

IdsOf(v) == {id \in Ids : VersionOf(id) = v}

LatestIds == {id \in registered : \E s \in Services : route[s] = id}

UnpinnedAt(id) == \E s \in Services : route[s] = id /\ unpinned[s] > 0

\* A rollout needs a deployment that takes new invocations or still holds some.
Needed(id) == id \in LatestIds \/ pinned[id] > 0

-----------------------------------------------------------------------------
(* Effects of the operator's calls.                                        *)

\* POST /deployments.  A new endpoint becomes the latest of its services; an
\* endpoint Restate knows keeps its id, and moves nothing unless forced.
RegisterEndpoint(v, id, force) ==
  /\ registered' = registered \cup {id}
  /\ route' = [s \in Services |->
                 IF s \in Serves[v] /\ (force \/ id \notin registered)
                 THEN id ELSE route[s]]
  /\ UNCHANGED <<pinned, unpinned>>

\* DELETE /deployments/{id}?force=true.  What was pinned to it is abandoned.
DeleteDeployment(id) ==
  /\ registered' = registered \ {id}
  /\ route' = [s \in Services |-> IF route[s] = id THEN NoId ELSE route[s]]
  /\ pinned' = [pinned EXCEPT ![id] = 0]
  /\ UNCHANGED unpinned

-----------------------------------------------------------------------------
(* What happens in Restate without the operator.                           *)

Invoke(s) ==
  /\ route[s] # NoId
  /\ unpinned[s] < MaxInvocations
  /\ unpinned' = [unpinned EXCEPT ![s] = @ + 1]
  /\ UNCHANGED <<registered, route, pinned>>

\* The invocation starts: it is bound to the deployment its service points at.
Pin(s) ==
  /\ unpinned[s] > 0
  /\ route[s] \in Ids
  /\ pinned[route[s]] < MaxInvocations
  /\ unpinned' = [unpinned EXCEPT ![s] = @ - 1]
  /\ pinned' = [pinned EXCEPT ![route[s]] = @ + 1]
  /\ UNCHANGED <<registered, route>>

Complete(id) ==
  /\ pinned[id] > 0
  /\ pinned' = [pinned EXCEPT ![id] = @ - 1]
  /\ UNCHANGED <<registered, route, unpinned>>

\* A scheduled invocation is cancelled, or runs on somebody else's deployment.
Unqueue(s) ==
  /\ unpinned[s] > 0
  /\ unpinned' = [unpinned EXCEPT ![s] = @ - 1]
  /\ UNCHANGED <<registered, route, pinned>>

\* Somebody else registers an endpoint for the service.
ForeignRegister(s) ==
  /\ route[s] # Foreign
  /\ route' = [route EXCEPT ![s] = Foreign]
  /\ UNCHANGED <<registered, pinned, unpinned>>

\* The server and its data are deleted.
RestateWiped ==
  /\ registered' = {}
  /\ route' = [s \in Services |-> NoId]
  /\ pinned' = [id \in Ids |-> 0]
  /\ unpinned' = [s \in Services |-> 0]

\* An administrator deregisters one of our deployments.
OutOfBandDelete(id) ==
  /\ id \in registered
  /\ DeleteDeployment(id)
=============================================================================
