--------------------------- MODULE OperatorProcess ---------------------------
(***************************************************************************)
(* One operator process from start to stop: three controllers that wait    *)
(* for their CRDs independently, the readiness gates /ready serves, the    *)
(* reporter of missing CRDs, the termination signal, and the optional APIs *)
(* that are looked up once (Pod Identity, Knative).                        *)
(*                                                                         *)
(* The cluster controller reads the API groups first; the deployment       *)
(* controller fills its ReplicaSet store, probes for Knative, and fills    *)
(* the Knative stores when the probe saw it.                               *)
(***************************************************************************)
EXTENDS Integers

CONSTANTS
  WantsPodIdentity, \* --aws-pod-identity-association-cluster is set
  Followed          \* bound: controllers a behaviour follows through their start

Controllers == {"RestateCluster", "RestateCloudEnvironment", "RestateDeployment"}

ASSUME ProcessAssumption ==
  /\ WantsPodIdentity \in BOOLEAN
  /\ Followed \subseteq Controllers

VARIABLES
  crds,       \* controllers whose CRD is established
  optional,   \* optional API groups that are served: "PodIdentity", "Knative"
  apiserver,  \* "up", "unreachable" (or 429, 5xx), "denies" (401, 403)
  followed,   \* controllers followed from the start; the others have their CRD
  pos,        \* where every controller is
  asleep,     \* controllers in the select between two polls
  heard,      \* controllers whose signal listener holds a signal
  gates,      \* what /ready is served from
  reporter,   \* report_pending_crds: "watching", "complained", "done"
  terminating,\* the process was sent SIGTERM
  sawKnative, \* what the process takes for Knative being installed
  told,       \* history: the wait every controller was in at SIGTERM
  retried     \* history: controllers that polled again although they had heard it

environment == <<crds, optional, apiserver>>
notes == <<told, retried>>
startup == <<pos, asleep, heard, gates, notes>>
process == <<environment, followed, startup, reporter, terminating, sawKnative>>

Positions == {"groups", "crd", "warming", "probing", "warmingKnative",
              "running", "stopped"}

ProcessTypeOK ==
  /\ crds \subseteq Controllers
  /\ optional \subseteq {"PodIdentity", "Knative"}
  /\ apiserver \in {"up", "unreachable", "denies"}
  /\ followed \subseteq Controllers
  /\ pos \in [Controllers -> Positions]
  /\ asleep \subseteq Controllers
  /\ heard \subseteq Controllers \cup {"reporter"}
  /\ gates \in [Controllers -> {"Starting", "Waiting", "Ready"}]
  /\ reporter \in {"watching", "complained", "done"}
  /\ terminating \in BOOLEAN
  /\ sawKnative \in BOOLEAN
  /\ told \in [Controllers -> {"groups", "crd", "no wait"}]
  /\ retried \subseteq Controllers

FirstPosition(c) ==
  IF c \in followed
  THEN IF c = "RestateCluster" THEN "groups" ELSE "crd"
  ELSE IF c = "RestateDeployment" THEN "probing" ELSE "running"

FirstReport == IF followed = {} THEN "done" ELSE "watching"

\* A process before any controller has been polled.
NewProcess ==
  /\ pos' = [c \in Controllers |-> FirstPosition(c)]
  /\ asleep' = {}
  /\ heard' = {}
  /\ gates' = [c \in Controllers |-> IF c \in followed THEN "Starting" ELSE "Ready"]
  /\ reporter' = FirstReport
  /\ terminating' = FALSE
  /\ sawKnative' = FALSE
  /\ told' = [c \in Controllers |-> "no wait"]
  /\ retried' = {}

ProcessInit ==
  /\ apiserver = "up"
  /\ followed \in {Followed, {}}
  /\ pos = [c \in Controllers |-> FirstPosition(c)]
  /\ asleep = {}
  /\ heard = {}
  /\ gates = [c \in Controllers |-> IF c \in followed THEN "Starting" ELSE "Ready"]
  /\ reporter = FirstReport
  /\ terminating = FALSE
  /\ sawKnative = FALSE
  /\ told = [c \in Controllers |-> "no wait"]
  /\ retried = {}

-----------------------------------------------------------------------------
(* Waiting for the API groups and for a CRD.                               *)

Waiting(c) == pos[c] \in {"groups", "crd"}

Polls(c) == Waiting(c) /\ c \notin asleep

\* is_retryable_discovery_error: anything but a refusal is worth another poll.
Retryable == apiserver = "unreachable"

\* A wait that ends takes its listener, and what it heard, with it.
MoveOn(c, position) ==
  /\ pos' = [pos EXCEPT ![c] = position]
  /\ heard' = heard \ {c}

\* The listener lasts for the whole wait, and the select hears at once a signal that
\* came while the poll was under way: its sleep has just begun.
SleepUnlessTold(c) ==
  IF c \in heard THEN MoveOn(c, "stopped") /\ UNCHANGED asleep
  ELSE asleep' = asleep \cup {c} /\ UNCHANGED <<pos, heard>>

GroupsListed(c) ==
  /\ Polls(c) /\ pos[c] = "groups"
  /\ apiserver = "up"
  /\ WantsPodIdentity => "PodIdentity" \in optional
  /\ MoveOn(c, "crd")
  /\ UNCHANGED <<environment, followed, asleep, gates, reporter, terminating, sawKnative, notes>>

GroupsNotListed(c) ==
  /\ Polls(c) /\ pos[c] = "groups"
  /\ Retryable
  /\ SleepUnlessTold(c)
  /\ UNCHANGED <<environment, followed, gates, reporter, terminating, sawKnative, notes>>

\* Wrong: nobody marks the gate.
CrdFoundUnmarked(c) ==
  /\ Polls(c) /\ pos[c] = "crd"
  /\ apiserver = "up"
  /\ c \in crds
  /\ MoveOn(c, IF c = "RestateDeployment" THEN "warming" ELSE "running")
  /\ UNCHANGED <<environment, followed, asleep, gates, reporter, terminating, sawKnative, notes>>

\* The gate is marked before the deployment controller has filled its stores.
CrdFound(c) ==
  /\ Polls(c) /\ pos[c] = "crd"
  /\ apiserver = "up"
  /\ c \in crds
  /\ MoveOn(c, IF c = "RestateDeployment" THEN "warming" ELSE "running")
  /\ gates' = [gates EXCEPT ![c] = "Ready"]
  /\ UNCHANGED <<environment, followed, asleep, reporter, terminating, sawKnative, notes>>

\* Wrong: every poll starts a new listener.
CrdMissingDeaf(c) ==
  /\ Polls(c) /\ pos[c] = "crd"
  /\ Retryable \/ (apiserver = "up" /\ c \notin crds)
  /\ gates' = [gates EXCEPT ![c] = "Waiting"]
  /\ asleep' = asleep \cup {c}
  /\ heard' = heard \ {c}
  /\ UNCHANGED <<environment, followed, pos, reporter, terminating, sawKnative, notes>>

CrdMissing(c) ==
  /\ Polls(c) /\ pos[c] = "crd"
  /\ Retryable \/ (apiserver = "up" /\ c \notin crds)
  /\ gates' = [gates EXCEPT ![c] = "Waiting"]
  /\ SleepUnlessTold(c)
  /\ UNCHANGED <<environment, followed, reporter, terminating, sawKnative, notes>>

\* The select is not biased: when its sleep is over and the signal is there, it takes
\* either.
PollAgain(c) ==
  /\ Waiting(c) /\ c \in asleep
  /\ asleep' = asleep \ {c}
  /\ retried' = IF c \in heard THEN retried \cup {c} ELSE retried
  /\ UNCHANGED <<environment, followed, pos, heard, gates, reporter, terminating, sawKnative, told>>

StopWaiting(c) ==
  /\ Waiting(c) /\ c \in asleep \cap heard
  /\ MoveOn(c, "stopped")
  /\ asleep' = asleep \ {c}
  /\ UNCHANGED <<environment, followed, gates, reporter, terminating, sawKnative, notes>>

-----------------------------------------------------------------------------
(* The deployment controller's stores, and running.                        *)

\* The controller is built once the ReplicaSets are listed; its own signal
\* handler is installed then.
StoreFilled ==
  /\ pos["RestateDeployment"] = "warming"
  /\ apiserver = "up"
  /\ MoveOn("RestateDeployment", "probing")
  /\ UNCHANGED <<environment, followed, asleep, gates, reporter, terminating, sawKnative, notes>>

\* One request; a failure counts as "not installed".
ProbeKnative ==
  /\ pos["RestateDeployment"] = "probing"
  /\ sawKnative' = (apiserver = "up" /\ "Knative" \in optional)
  /\ pos' = [pos EXCEPT !["RestateDeployment"] =
                IF sawKnative' THEN "warmingKnative" ELSE "running"]
  /\ UNCHANGED <<environment, followed, asleep, heard, gates, reporter, terminating, notes>>

KnativeStoresFilled ==
  /\ pos["RestateDeployment"] = "warmingKnative"
  /\ apiserver = "up"
  /\ pos' = [pos EXCEPT !["RestateDeployment"] = "running"]
  /\ UNCHANGED <<environment, followed, asleep, heard, gates, reporter, terminating, sawKnative, notes>>

\* shutdown_on_signal.
StopRunning(c) ==
  /\ pos[c] = "running"
  /\ c \in heard
  /\ MoveOn(c, "stopped")
  /\ UNCHANGED <<environment, followed, asleep, gates, reporter, terminating, sawKnative, notes>>

-----------------------------------------------------------------------------
(* The reporter.  Its events are best effort: that they arrive is not part *)
(* of the model.                                                           *)

Pending == {c \in Controllers : gates[c] = "Waiting"}

AllReady == \A c \in Controllers : gates[c] = "Ready"

Complain ==
  /\ reporter # "done"
  /\ Pending # {}
  /\ reporter' = "complained"
  /\ UNCHANGED <<environment, followed, startup, terminating, sawKnative>>

\* Wrong: nobody waiting is taken for everybody running.
FinishReportEarly ==
  /\ reporter # "done"
  /\ Pending = {}
  /\ reporter' = "done"
  /\ UNCHANGED <<environment, followed, startup, terminating, sawKnative>>

FinishReport ==
  /\ reporter # "done"
  /\ Pending = {} /\ AllReady
  /\ reporter' = "done"
  /\ UNCHANGED <<environment, followed, startup, terminating, sawKnative>>

StopReporting ==
  /\ reporter # "done"
  /\ "reporter" \in heard
  /\ reporter' = "done"
  /\ UNCHANGED <<environment, followed, startup, terminating, sawKnative>>

-----------------------------------------------------------------------------
(* The ends of a process, and its surroundings.                            *)

\* Who has a listener when the signal arrives: not a controller that lists
\* ReplicaSets.
Listening == {c \in Controllers : pos[c] \notin {"warming", "stopped"}}
             \cup (IF reporter = "done" THEN {} ELSE {"reporter"})

SigTerm ==
  /\ ~terminating
  /\ terminating' = TRUE
  /\ heard' = heard \cup Listening
  /\ told' = [c \in Controllers |-> IF Waiting(c) THEN pos[c] ELSE "no wait"]
  /\ retried' = {}
  /\ UNCHANGED <<environment, followed, pos, asleep, gates, reporter, sawKnative>>

\* What only a human can change exits, and the kubelet starts the next process.
Refused(c) ==
  /\ Polls(c)
  /\ \/ apiserver = "denies"
     \/ /\ pos[c] = "groups" /\ apiserver = "up"
        /\ WantsPodIdentity /\ "PodIdentity" \notin optional

Exit ==
  /\ \E c \in Controllers : Refused(c)
  /\ NewProcess
  /\ UNCHANGED <<environment, followed>>

\* main joins the controllers, the reporter and the server.
AllStopped == reporter = "done" /\ \A c \in Controllers : pos[c] = "stopped"

\* Everything stopped, or the grace period ran out, and a new pod takes over.
Replaced ==
  /\ terminating
  /\ NewProcess
  /\ UNCHANGED <<environment, followed>>

Killed ==
  /\ NewProcess
  /\ UNCHANGED <<environment, followed>>

Install(c) ==
  /\ c \notin crds
  /\ crds' = crds \cup {c}
  /\ UNCHANGED <<optional, apiserver, followed, startup, reporter, terminating, sawKnative>>

InstallOptional(group) ==
  /\ group \notin optional
  /\ optional' = optional \cup {group}
  /\ UNCHANGED <<crds, apiserver, followed, startup, reporter, terminating, sawKnative>>

ApiserverFails(how) ==
  /\ apiserver = "up"
  /\ apiserver' = how
  /\ UNCHANGED <<crds, optional, followed, startup, reporter, terminating, sawKnative>>

ApiserverRecovers ==
  /\ apiserver # "up"
  /\ apiserver' = "up"
  /\ UNCHANGED <<crds, optional, followed, startup, reporter, terminating, sawKnative>>

-----------------------------------------------------------------------------
Wait(c) ==
  \/ GroupsListed(c) \/ GroupsNotListed(c)
  \/ CrdFound(c) \/ CrdMissing(c) \/ PollAgain(c) \/ StopWaiting(c)

Warm == StoreFilled \/ ProbeKnative \/ KnativeStoresFilled

Report == Complain \/ FinishReport \/ StopReporting

Outage == \E how \in {"unreachable", "denies"} : ApiserverFails(how)

Surroundings ==
  \/ \E c \in Controllers : Install(c)
  \/ \E group \in {"PodIdentity", "Knative"} : InstallOptional(group)
  \/ Outage \/ ApiserverRecovers

-----------------------------------------------------------------------------
\* The reporter of missing CRDs gives its all-clear and stops looking only when
\* every controller has its CRD: it may look at a moment when none has complained
\* yet (report_pending_crds).
AllClearIsTrue ==
  [][reporter # "done" /\ reporter' = "done" /\ "reporter" \notin heard =>
       \A c \in Controllers : pos[c] \notin {"groups", "crd"}]_process

\* A controller told to stop during a wait is still in that wait only while it knows of
\* the signal, and after one more poll at the most: the signal may come during a poll,
\* or just as the sleep ends and lose against it, but not lose twice, for the listener
\* outlives the polls (ShutdownSignals, "registered once").  A poll that succeeds after
\* the signal ends the wait and loses the signal with it.
SignalStopsWait ==
  \A c \in Controllers : pos[c] = told[c] =>
    c \in heard /\ ~(c \in retried /\ c \in asleep)

\* Once the CRDs are installed every controller gets to run, in this process or
\* the next, whatever the apiserver went through before.
AllInstalled == crds = Controllers /\ (WantsPodIdentity => "PodIdentity" \in optional)

EventuallyRuns ==
  <>[](AllInstalled /\ ~terminating /\ apiserver = "up") =>
    <>[](\A c \in Controllers : pos[c] = "running" /\ gates[c] = "Ready")
=============================================================================
