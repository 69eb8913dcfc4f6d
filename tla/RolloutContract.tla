--------------------------- MODULE RolloutContract ---------------------------
(***************************************************************************)
(* What the RestateDeployment controller promises about one object,        *)
(* without passes, caches or drain delays: while the object is in use, a   *)
(* version goes down only once Restate needs none of its registrations, a  *)
(* registration is deleted only once Restate does not need it, and a       *)
(* service only ever moves to a version whose pods answered discovery.     *)
(* Once the object is being deleted, versions come down under the terms of *)
(* the delete policy, which are not part of this contract.                 *)
(***************************************************************************)
EXTENDS RestateAdmin

VARIABLES
  up,        \* versions that have pods to serve with
  answering, \* versions whose pods are ready
  inUse      \* the object is not being deleted

contractVars == <<restate, up, answering, inUse>>

CInit ==
  /\ RestateInit
  /\ up = {}
  /\ answering = {}
  /\ inUse = TRUE

Start(v) ==
  /\ up' = up \cup {v}
  /\ UNCHANGED <<restate, answering, inUse>>

Answer(v) ==
  /\ v \in up
  /\ answering' = answering \cup {v}
  /\ UNCHANGED <<restate, up, inUse>>

Falter(v) ==
  /\ answering' = answering \ {v}
  /\ UNCHANGED <<restate, up, inUse>>

\* An endpoint holds one id at a time.
Publish(v) ==
  /\ \E id \in IdsOf(v), force \in BOOLEAN :
       /\ registered \cap IdsOf(v) \subseteq {id}
       /\ v \in answering \/ (id \in registered /\ ~force)
       /\ RegisterEndpoint(v, id, force)
  /\ UNCHANGED <<up, answering, inUse>>

Free(v) == \A id \in registered \cap IdsOf(v) : ~Needed(id)

Stop(v) ==
  /\ inUse => Free(v)
  /\ up' = up \ {v}
  /\ answering' \in {answering, answering \ {v}}
  /\ UNCHANGED <<restate, inUse>>

Forget(id) ==
  /\ inUse => ~Needed(id)
  /\ DeleteDeployment(id)
  /\ UNCHANGED <<up, answering, inUse>>

Retire ==
  /\ inUse
  /\ inUse' = FALSE
  /\ UNCHANGED <<restate, up, answering>>

Vanish ==
  /\ ~inUse
  /\ up' = {}
  /\ answering' = {}
  /\ UNCHANGED <<restate, inUse>>

Serve ==
  /\ \/ \E s \in Services : Invoke(s) \/ Pin(s) \/ Unqueue(s)
     \/ \E id \in Ids : Complete(id)
  /\ UNCHANGED <<up, answering, inUse>>

\* The server is deleted with everything it knew.
Lose ==
  /\ RestateWiped
  /\ UNCHANGED <<up, answering, inUse>>

CNext ==
  \/ \E v \in Versions : Start(v) \/ Answer(v) \/ Falter(v) \/ Publish(v) \/ Stop(v)
  \/ \E id \in Ids : Forget(id)
  \/ Retire \/ Vanish \/ Serve \/ Lose

Contract == CInit /\ [][CNext]_contractVars
=============================================================================
