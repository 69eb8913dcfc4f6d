----------------------------- MODULE RetryTiming -----------------------------
(***************************************************************************)
(* When a RestateDeployment gets its next pass.  One object, one version   *)
(* it has superseded, and a clock: passes take time, Restate's admin API   *)
(* goes down and comes back, invocations end, the object is deleted.  The  *)
(* controller keeps no timers of its own: what a pass asks for on its way  *)
(* out is all there is, and the deletion timestamp, the Ready condition    *)
(* and the version's remove-version-at are all it can go by.               *)
(***************************************************************************)
EXTENDS Integers, CleanupPolicy

CONSTANTS
  Second, Floor, Ceiling, \* one second, 30 of them, 5 minutes
  Recheck,                \* the fixed wait of a pass that is not Ready
  DrainPoll,              \* how soon a drain is looked at again: 10 s
  DrainDelay,             \* spec.restate.drainDelaySeconds
  DrainTimeout,           \* drain.timeoutSeconds
  Policy,                 \* the delete policy
  Taken,                  \* collision counts from here on give a name nobody has
  Watched,                \* bound: a change may bring a pass at any time
  PassTime,               \* bound: the longest pass
  MaxFailures,            \* bound: outages of Restate and failed passes
  LiveTime,               \* bound: the user deletes the object by then
  Horizon                 \* bound: the clock stops here

ASSUME TimingAssumption ==
  /\ {Second, Floor, Ceiling, Recheck, DrainPoll} \subseteq Nat \ {0}
  /\ Second <= Floor /\ Floor <= Ceiling
  /\ Second <= Recheck /\ Second <= DrainPoll /\ DrainPoll <= Ceiling
  /\ {DrainDelay, DrainTimeout, PassTime, MaxFailures, LiveTime, Horizon, Taken}
       \subseteq Nat
  /\ Policy \in Policies
  /\ Watched \in BOOLEAN

VARIABLES
  now,       \* the clock
  wake,      \* when the next pass is due
  started,   \* when the running pass began, or Never
  sees,      \* what Restate answered the running pass, and the mode taken after that
  phase,     \* "live", "deleting", "gone"
  deletedAt, \* the deletion timestamp
  ready,     \* the Ready condition: its status, whether an admin call failed, since when
  due,       \* remove-version-at, Never, or Removed
  collisions,\* status.collisionCount
  known,     \* the count the cached object shows
  work,      \* the superseded version has unfinished invocations
  up,        \* Restate answers
  failures,  \* outages and failed passes so far
  clearedAt, \* history: since when nothing keeps a drain from ending
  failed     \* history: a pass of the deletion failed

clock == <<now, wake, started, sees>>
counts == <<collisions, known>>
object == <<phase, deletedAt, ready, due, counts>>
vars == <<clock, object, work, up, failures, clearedAt, failed>>

Never == -1
Removed == -2

Running == started # Never

NoAnswer == [answered |-> FALSE, mode |-> "Rollout", work |-> FALSE, up |-> FALSE]

TimingTypeOK ==
  /\ now \in Nat /\ wake \in Nat
  /\ started \in Nat \cup {Never}
  /\ sees \in [answered : BOOLEAN, mode : Modes, work : BOOLEAN, up : BOOLEAN]
  /\ phase \in {"live", "deleting", "gone"}
  /\ deletedAt \in Nat \cup {Never}
  /\ ready \in [status : {"Unknown", "False", "True"}, admin : BOOLEAN, since : Nat]
  /\ due \in Nat \cup {Never, Removed}
  /\ {collisions, known} \subseteq 0 .. Taken
  /\ work \in BOOLEAN /\ up \in BOOLEAN /\ failed \in BOOLEAN
  /\ failures \in Nat /\ clearedAt \in Nat

Larger(a, b) == IF a >= b THEN a ELSE b
Smaller(a, b) == IF a <= b THEN a ELSE b

\* Wrong: half of the time waited.
BackoffByHalf(waited) == Smaller(Ceiling, Larger(Floor, waited \div 2))

Backoff(waited) == Smaller(Ceiling, Larger(Floor, waited \div 4))

\* Up to a fifth more.
Jitter(interval) == interval .. interval + interval \div 5

\* A pass reckons from when it began.
FailingFor == IF ready.admin THEN started - ready.since ELSE 0

BlockedFor == now - deletedAt

Deadline == deletedAt + DrainTimeout

\* Wrong: a deadline that has passed is none.
DeadlineAhead == IF Deadline >= now THEN Deadline - now ELSE Never

\* Past it, a drain that may be forced is due at once, one that holds has nothing to
\* wake up for.
UntilDeadline ==
  IF Deadline >= now THEN Deadline - now
  ELSE IF Policy = "drainForce" THEN 0 ELSE Never

\* Wrong: no floor.
Unfloored(wait) == wait

AtLeastASecond(wait) == Larger(Second, wait)

CappedBy(until, wait) == IF until = Never THEN wait ELSE Smaller(wait, AtLeastASecond(until))

BlockedRequeue == CappedBy(UntilDeadline, Backoff(BlockedFor))

\* Whole seconds only; a deadline counts if it forces.
HeldRequeue(removal) ==
  LET wait == AtLeastASecond(((removal - now) \div Second) * Second)
  IN  IF Policy = "drainForce" THEN CappedBy(UntilDeadline, wait) ELSE wait

\* Reckoned from the beginning of the pass; a removal that is due already is due at once.
HealthyRequeue(removal, poll) ==
  IF removal = Never THEN poll ELSE Smaller(Larger(0, removal - started), poll)

Init ==
  /\ now = 0 /\ wake = 0 /\ started = Never /\ sees = NoAnswer
  /\ phase = "live" /\ deletedAt = Never
  /\ ready = [status |-> "Unknown", admin |-> FALSE, since |-> 0]
  /\ due = Never /\ collisions = 0 /\ known = 0
  /\ work = TRUE /\ up = TRUE /\ failures = 0 /\ clearedAt = 0 /\ failed = FALSE

-----------------------------------------------------------------------------
(* Passes.                                                                 *)

DrainOver == phase = "deleting" /\ Deadline <= now

\* By its timer, or because something changed.
StartPass ==
  /\ ~Running
  /\ phase # "gone"
  /\ now >= wake \/ Watched
  /\ started' = now
  /\ UNCHANGED <<now, wake, sees, object, work, up, failures, clearedAt, failed>>

\* The usage query has its answer, or fails; the mode is taken after it.
Answer ==
  /\ Running /\ ~sees.answered
  /\ sees' = [answered |-> TRUE, mode |-> ModeFor(phase = "deleting", Policy, DrainOver),
              work |-> work, up |-> up]
  /\ UNCHANGED <<now, wake, started, object, work, up, failures, clearedAt, failed>>

Ends == Running /\ sees.answered /\ started' = Never /\ sees' = NoAnswer

\* The condition's time moves with its status only.  The rest of the status is the
\* pass's copy, the count with it.
Report(status, admin, count) ==
  /\ collisions' = count
  /\ UNCHANGED known
  /\ ready' = [status |-> status, admin |-> admin,
               since |-> IF ready.status = status THEN ready.since ELSE started]

\* The name the hash gives is another version's.  The pass stops before it asks
\* Restate, counts the collision and wants to be back at once; a copy that does not show
\* the count yet gives it the same name again.
HashCollision ==
  /\ Running /\ ~sees.answered
  /\ phase = "live" /\ known < Taken
  /\ started' = Never
  /\ wake' = now
  /\ Report("False", FALSE, known + 1)
  /\ UNCHANGED <<now, sees, phase, deletedAt, due, work, up, failures, clearedAt, failed>>

\* The query, or a later call of the pass.  The cleanup of a deletion leaves the
\* condition alone.
AdminFailure ==
  /\ Ends
  /\ ~sees.up \/ ~up
  /\ IF IsDeleting(sees.mode)
     THEN /\ \E wait \in Jitter(Backoff(BlockedFor)) : wake' = now + wait
          /\ failed' = TRUE
          /\ UNCHANGED <<ready, counts>>
     ELSE /\ \E wait \in Jitter(Backoff(FailingFor)) : wake' = now + wait
          /\ Report("False", TRUE, known)
          /\ UNCHANGED failed
  /\ UNCHANGED <<now, phase, deletedAt, due, work, up, failures, clearedAt>>

\* A failure that does not back off.
OtherFailure ==
  /\ Ends
  /\ failures < MaxFailures
  /\ failures' = failures + 1
  /\ \E wait \in Jitter(Backoff(0)) : wake' = now + wait
  /\ clearedAt' = now
  /\ IF IsDeleting(sees.mode) THEN failed' = TRUE /\ UNCHANGED <<ready, counts>>
     ELSE Report("Unknown", FALSE, known) /\ UNCHANGED failed
  /\ UNCHANGED <<now, phase, deletedAt, due, work, up>>

\* The removal time the sweep leaves: it waits for the invocations, sets the time,
\* and removes the version when it has come.
Swept ==
  IF sees.work \/ due = Removed THEN due
  ELSE IF due = Never THEN now + DrainDelay
  ELSE IF due <= now THEN Removed ELSE due

\* The sweep runs although the new version is not ready, but nobody is told the
\* removal time; a pass that waits for the cluster does not get there.
NotReadyYet ==
  /\ Ends
  /\ sees.up /\ ~IsDeleting(sees.mode)
  /\ wake' = now + Recheck
  /\ due' \in {due, Swept}
  /\ Report("False", FALSE, known)
  /\ UNCHANGED <<now, phase, deletedAt, work, up, failures, clearedAt, failed>>

\* Versions that drain without a removal time are looked at again soon.
NextRemoval(removal) ==
  IF removal >= 0 THEN removal ELSE IF sees.work THEN now + DrainPoll ELSE Never

Healthy ==
  /\ Ends
  /\ sees.up /\ ~IsDeleting(sees.mode)
  /\ due' = Swept
  /\ \E poll \in Jitter(Ceiling) : wake' = now + HealthyRequeue(NextRemoval(due'), poll)
  /\ Report("True", FALSE, known)
  /\ UNCHANGED <<now, phase, deletedAt, work, up, failures, clearedAt, failed>>

Blocked ==
  /\ Ends
  /\ sees.up /\ sees.mode = "Deleting" /\ sees.work
  /\ wake' = now + BlockedRequeue
  /\ UNCHANGED <<now, object, work, up, failures, clearedAt, failed>>

Held ==
  /\ Ends
  /\ sees.up /\ sees.mode = "Deleting" /\ ~sees.work
  /\ Swept # Removed
  /\ due' = Swept
  /\ wake' = now + HeldRequeue(due')
  /\ UNCHANGED <<now, phase, deletedAt, ready, counts, work, up, failures, clearedAt, failed>>

Release ==
  /\ Ends
  /\ sees.up
  /\ \/ sees.mode = "ForceDeleting"
     \/ sees.mode = "Deleting" /\ ~sees.work /\ Swept = Removed
  /\ phase' = "gone"
  /\ UNCHANGED <<now, wake, deletedAt, ready, due, counts, work, up, failures, clearedAt, failed>>

-----------------------------------------------------------------------------
(* The clock, Restate, the user.                                           *)

\* The clock waits for a pass that is due, and for one that has had its time.
Tick ==
  /\ now < Horizon
  /\ phase # "gone"
  /\ IF Running THEN now < started + PassTime ELSE now < wake
  /\ now' = now + 1
  /\ UNCHANGED <<wake, started, sees, object, work, up, failures, clearedAt, failed>>

WorkEnds ==
  /\ work
  /\ work' = FALSE
  /\ clearedAt' = now
  /\ UNCHANGED <<clock, object, up, failures, failed>>

Outage ==
  /\ up /\ failures < MaxFailures
  /\ up' = FALSE
  /\ failures' = failures + 1
  /\ UNCHANGED <<clock, object, work, clearedAt, failed>>

Recovery ==
  /\ ~up
  /\ up' = TRUE
  /\ clearedAt' = now
  /\ UNCHANGED <<clock, object, work, failures, failed>>

\* A change during a pass gets a pass after it.
Delete ==
  /\ phase = "live" /\ ~Running /\ now <= LiveTime
  /\ phase' = "deleting"
  /\ deletedAt' = now /\ wake' = now /\ clearedAt' = now
  /\ UNCHANGED <<now, started, sees, ready, due, counts, work, up, failures, failed>>

\* The watch shows the status to the next pass, but brings none: it is filtered for
\* changes of the spec and the metadata.
SeeCount ==
  /\ ~Running
  /\ known # collisions
  /\ known' = collisions
  /\ UNCHANGED <<clock, phase, deletedAt, ready, due, collisions, work, up, failures,
                 clearedAt, failed>>

Next ==
  \/ Tick
  \/ StartPass \/ HashCollision \/ Answer
  \/ AdminFailure \/ OtherFailure \/ NotReadyYet \/ Healthy \/ Blocked \/ Held \/ Release
  \/ WorkEnds \/ Outage \/ Recovery \/ Delete \/ SeeCount

Spec == Init /\ [][Next]_vars

-----------------------------------------------------------------------------
(* Safety.                                                                 *)

\* A drain that may be forced, and whose passes did not fail, is over a second and
\* two passes after its deadline, whether it waits for invocations or for the drain
\* delay, and also when the deadline comes while a pass runs (until_drain_deadline,
\* blocked_deletion_requeue, cleanup).
ForcedInTime ==
  phase = "deleting" /\ Policy = "drainForce" /\ ~failed =>
    now <= Deadline + Second + 2 * PassTime

\* The wait that was promised for the time waited so far: a quarter of it, between
\* the floor and the ceiling, and a fifth more for the jitter.
Promised(waited) ==
  LET wait == IF waited \div 4 <= Floor THEN Floor
              ELSE IF waited \div 4 >= Ceiling THEN Ceiling ELSE waited \div 4
  IN  wait + wait \div 5

\* Once the invocations of a drain have ended and Restate answers, a pass notices
\* within a quarter of the time the deletion has taken (backoff), and schedules the
\* removal.
NoticedInTime ==
  phase = "deleting" /\ ~work /\ up /\ due = Never =>
    now <= clearedAt + Promised((clearedAt + PassTime) - deletedAt) + 2 * PassTime

\* A pass asks for another within a second in two cases only.  To remove a version
\* whose time comes sooner, and then not before that time: a removal missed by the pass
\* that looked for it would be asked for again at once.  And after a hash collision,
\* which must leave a count above the one it hashed with, or the passes would go round
\* the same name for good; there are no more such counts than names that are taken
\* (reconcile_status, healthy_requeue_after, blocked_deletion_requeue, cleanup).
NoSpin ==
  [][Running /\ started' = Never /\ phase' # "gone" =>
       \/ wake' >= now + Second
       \/ due' >= 0 /\ wake' >= due'
       \/ phase = "live" /\ known < collisions' /\ collisions' <= Taken]_vars
=============================================================================
