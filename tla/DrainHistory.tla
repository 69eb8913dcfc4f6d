---------------------------- MODULE DrainHistory ----------------------------
(***************************************************************************)
(* RestateDeployment with a history variable that no pass reads: for how   *)
(* many ticks, up to the drain delay, each version has been free of work   *)
(* and of traffic under the id recorded for it.                            *)
(***************************************************************************)
EXTENDS RestateDeployment

VARIABLE free

historyVars == <<vars, free>>

InUse(v) == rs[v].id \in registered /\ Needed(rs[v].id)

HistoryInit == Init /\ free = [v \in Versions |-> 0]

Settle == free' = [v \in Versions |-> IF InUse(v)' THEN 0 ELSE free[v]]

Elapse == free' = [v \in Versions |->
                     IF InUse(v) \/ free[v] = DrainDelay THEN free[v] ELSE free[v] + 1]

HistoryNext == (Move /\ Settle) \/ (Tick /\ Elapse)

HistorySpec == HistoryInit /\ [][HistoryNext]_historyVars

\* A rollout scales down a registered version only after drainDelaySeconds without
\* traffic or work on it, however often it was superseded, rolled back to, edited
\* away or interrupted meanwhile (remove-version-at, unschedule_version_removal).
DrainDelayRespected ==
  [][op.mode = "Rollout" =>
       \A v \in Versions :
         rs[v].up /\ ~rs'[v].up /\ rs[v].id \in registered => free[v] = DrainDelay]_historyVars
=============================================================================
