-------------------------- MODULE RetryTiming_proofs --------------------------
(***************************************************************************)
(* The waits RetryTiming checks hold for every length of the intervals,    *)
(* the deadline, the passes and the horizon.                               *)
(***************************************************************************)
EXTENDS RetryTiming, TLAPS

-----------------------------------------------------------------------------
(* The inductive invariant.                                                *)

\* Times lie where the clock has been or is to come; a pass keeps to its time, and an
\* idle object to its timer; the mode tells a deletion; nothing that has work is to be
\* removed.
Timed ==
  /\ ready.since <= now /\ clearedAt <= now
  /\ phase = "deleting" => deletedAt \in Nat /\ deletedAt <= now /\ deletedAt <= clearedAt
  /\ sees.answered => Running
  /\ Running => phase # "gone" /\ started <= now /\ now <= started + PassTime
  /\ Running => ready.since <= started
  /\ ~Running /\ phase # "gone" => now <= wake
  /\ sees.answered => (IsDeleting(sees.mode) <=> phase = "deleting")
  /\ work \/ sees.work => due = Never
  /\ sees.answered /\ work => sees.work

\* A pass of a drain that may be forced starts soon after the deadline, and one that
\* did not force was started before it.
ForcedSoon ==
  phase = "deleting" /\ Policy = "drainForce" /\ ~failed =>
    /\ ~Running => wake <= Deadline + Second + PassTime
    /\ Running => started <= Deadline + Second + PassTime
    /\ sees.answered /\ sees.mode = "Deleting" => started < Deadline

\* What a pass was told and is no longer so has changed since it began.
Outdated ==
  sees.answered /\ ((sees.work /\ ~work) \/ (~sees.up /\ up)) => started <= clearedAt

\* The latest moment a pass notices a drain that is free to end since then.
Latest(free) == free + PassTime + Promised((free + PassTime) - deletedAt)

\* The next pass of a drain is never further away than promised for now, nor, once the
\* drain is free to end, for the time it became free.
NoticedSoon ==
  phase = "deleting" /\ due = Never =>
    /\ ~Running => wake <= now + Promised(now - deletedAt)
    /\ ~work /\ up =>
         /\ ~Running => wake <= Latest(clearedAt)
         /\ Running => started <= Latest(clearedAt)

TimingInv == TimingTypeOK /\ Timed /\ ForcedSoon /\ Outdated /\ NoticedSoon

-----------------------------------------------------------------------------
(* The intervals.                                                          *)

LEMMA JitterBounds ==
  ASSUME NEW interval \in Nat, NEW wait \in Jitter(interval)
  PROVE  wait \in Nat /\ interval <= wait /\ wait <= interval + interval \div 5
BY DEF Jitter

LEMMA BackoffBounds ==
  ASSUME NEW waited \in Nat
  PROVE  /\ Backoff(waited) \in Nat
         /\ Second <= Backoff(waited)
         /\ Promised(waited) = Backoff(waited) + Backoff(waited) \div 5
BY TimingAssumption DEF TimingAssumption, Backoff, Promised, Smaller, Larger

LEMMA PromisedGrows ==
  ASSUME NEW a \in Nat, NEW b \in Nat, a <= b
  PROVE  Promised(a) \in Nat /\ Promised(b) \in Nat /\ Promised(a) <= Promised(b)
BY TimingAssumption DEF TimingAssumption, Promised

\* A wait with jitter is one the backoff promises.
LEMMA BackoffJitter ==
  ASSUME NEW waited \in Nat, NEW wait \in Jitter(Backoff(waited))
  PROVE  wait \in Nat /\ Second <= wait /\ wait <= Promised(waited)
BY BackoffBounds, JitterBounds, TimingAssumption DEF TimingAssumption

LEMMA CappedBounds ==
  ASSUME NEW until \in Nat \cup {Never}, NEW wait \in Nat, Second <= wait
  PROVE  /\ CappedBy(until, wait) \in Nat
         /\ Second <= CappedBy(until, wait) /\ CappedBy(until, wait) <= wait
         /\ until # Never => CappedBy(until, wait) <= Second \/ CappedBy(until, wait) <= until
BY TimingAssumption DEF TimingAssumption, CappedBy, Smaller, Larger, AtLeastASecond, Never

LEMMA DeadlineType ==
  ASSUME TimingTypeOK, Timed, phase = "deleting"
  PROVE  /\ Deadline \in Nat
         /\ UntilDeadline \in Nat \cup {Never}
         /\ Policy = "drainForce" =>
              /\ UntilDeadline \in Nat /\ UntilDeadline # Never
              /\ UntilDeadline = 0 \/ now + UntilDeadline = Deadline
BY TimingAssumption DEF TimingAssumption, TimingTypeOK, Timed, Deadline, UntilDeadline, Never

LEMMA BlockedWait ==
  ASSUME TimingTypeOK, Timed, phase = "deleting"
  PROVE  /\ BlockedRequeue \in Nat /\ Second <= BlockedRequeue
         /\ BlockedRequeue <= Promised(now - deletedAt)
         /\ Policy = "drainForce" => BlockedRequeue <= Second \/ now + BlockedRequeue <= Deadline
<1>1. BlockedFor \in Nat /\ BlockedFor = now - deletedAt
  BY DEF TimingTypeOK, Timed, BlockedFor
<1>2. /\ Backoff(BlockedFor) \in Nat /\ Second <= Backoff(BlockedFor)
      /\ Backoff(BlockedFor) <= Promised(BlockedFor)
  BY <1>1, BackoffBounds
<1>3. /\ BlockedRequeue \in Nat /\ Second <= BlockedRequeue
      /\ BlockedRequeue <= Backoff(BlockedFor)
      /\ UntilDeadline # Never => BlockedRequeue <= Second \/ BlockedRequeue <= UntilDeadline
  BY <1>2, CappedBounds, DeadlineType DEF BlockedRequeue
<1>4. Promised(BlockedFor) \in Nat /\ now \in Nat
  BY <1>1, PromisedGrows DEF TimingTypeOK
<1>5. /\ Deadline \in Nat
      /\ Policy = "drainForce" =>
           /\ UntilDeadline \in Nat /\ UntilDeadline # Never
           /\ UntilDeadline = 0 \/ now + UntilDeadline = Deadline
  BY DeadlineType
<1>6. Second \in Nat
  BY TimingAssumption DEF TimingAssumption
<1>7. BlockedRequeue <= Promised(now - deletedAt)
  BY <1>1, <1>2, <1>3, <1>4
<1>8. Policy = "drainForce" => BlockedRequeue <= Second \/ now + BlockedRequeue <= Deadline
  BY <1>3, <1>4, <1>5, <1>6
<1>. QED
  BY <1>3, <1>7, <1>8

LEMMA HeldWait ==
  ASSUME TimingTypeOK, Timed, phase = "deleting", NEW removal \in Nat
  PROVE  /\ HeldRequeue(removal) \in Nat /\ Second <= HeldRequeue(removal)
         /\ Policy = "drainForce" =>
              HeldRequeue(removal) <= Second \/ now + HeldRequeue(removal) <= Deadline
<1>. DEFINE seconds == (removal - now) \div Second
            wait == AtLeastASecond(seconds * Second)
<1>1. seconds \in Int /\ Second \in Nat
  BY TimingAssumption DEF TimingAssumption, TimingTypeOK
<1>2. seconds * Second \in Int
  BY <1>1
<1>3. wait \in Nat /\ Second <= wait
  <2>. HIDE DEF seconds
  <2>. QED
    BY <1>1, <1>2 DEF AtLeastASecond, Larger
<1>4. /\ CappedBy(UntilDeadline, wait) \in Nat /\ Second <= CappedBy(UntilDeadline, wait)
      /\ UntilDeadline # Never => \/ CappedBy(UntilDeadline, wait) <= Second
                                 \/ CappedBy(UntilDeadline, wait) <= UntilDeadline
  BY <1>3, CappedBounds, DeadlineType
<1>5. HeldRequeue(removal) = IF Policy = "drainForce" THEN CappedBy(UntilDeadline, wait) ELSE wait
  BY DEF HeldRequeue
<1>6. now \in Nat
  BY DEF TimingTypeOK
<1>7. /\ Deadline \in Nat
      /\ Policy = "drainForce" =>
           /\ UntilDeadline \in Nat /\ UntilDeadline # Never
           /\ UntilDeadline = 0 \/ now + UntilDeadline = Deadline
  BY DeadlineType
<1>. HIDE DEF wait
<1>8. CASE Policy = "drainForce"
  <2>1. HeldRequeue(removal) = CappedBy(UntilDeadline, wait)
    BY <1>5, <1>8
  <2>. QED
    BY <1>1, <1>4, <1>6, <1>7, <1>8, <2>1
<1>9. CASE Policy # "drainForce"
  BY <1>3, <1>5, <1>9
<1>. QED
  BY <1>8, <1>9

\* A pass over a live object asks for the next one a second later, or for the moment
\* the removal is due.
LEMMA HealthyWait ==
  ASSUME TimingTypeOK, Timed, Running, NEW removal \in Nat \cup {Never},
         removal = Never \/ removal >= now, NEW poll \in Jitter(Ceiling)
  PROVE  /\ HealthyRequeue(removal, poll) \in Nat
         /\ \/ Second <= HealthyRequeue(removal, poll)
            \/ removal # Never /\ removal <= now + HealthyRequeue(removal, poll)
<1>1. poll \in Nat /\ Second <= poll
  BY JitterBounds, TimingAssumption DEF TimingAssumption
<1>2. now \in Nat /\ started \in Nat /\ started <= now
  BY DEF TimingTypeOK, Timed, Running, Never
<1>. QED
  BY <1>1, <1>2 DEF HealthyRequeue, Smaller, Larger, Never

LEMMA SweptType ==
  ASSUME TimingTypeOK
  PROVE  /\ Swept \in Nat \cup {Never, Removed}
         /\ Swept \in Nat /\ ~sees.work => Swept >= now
         /\ Swept = Never => sees.work
BY TimingAssumption DEF TimingAssumption, TimingTypeOK, Swept, Never, Removed

-----------------------------------------------------------------------------
(* What a pass leaves behind.                                              *)

Waits == AdminFailure \/ OtherFailure \/ NotReadyYet \/ Healthy \/ Blocked \/ Held

LEMMA RunningFacts ==
  ASSUME TimingInv, Ends
  PROVE  /\ now \in Nat /\ started \in Nat /\ started <= now /\ now <= started + PassTime
         /\ phase \in {"live", "deleting"}
         /\ IsDeleting(sees.mode) <=> phase = "deleting"
         /\ ready.since \in Nat /\ ready.since <= started
         /\ sees.work => due = Never
         /\ collisions \in 0 .. Taken /\ known \in 0 .. Taken
BY DEF TimingInv, TimingTypeOK, Timed, Ends, Running, Never

\* The wake-up a pass leaves: in a second, or when a removal is due.
LEMMA NextWake ==
  ASSUME TimingInv, Waits
  PROVE  /\ wake' \in Nat /\ now <= wake'
         /\ now + Second <= wake' \/ (due' \in Nat /\ due' <= wake')
<1>. Second \in Nat /\ Recheck \in Nat /\ Second <= Recheck /\ now \in Nat /\ Second <= DrainPoll
     /\ DrainPoll \in Nat
  BY TimingAssumption DEF TimingAssumption, TimingInv, TimingTypeOK
<1>. TimingTypeOK /\ Timed
  BY DEF TimingInv
<1>1. CASE AdminFailure
  <2>1. CASE IsDeleting(sees.mode)
    <3>1. BlockedFor \in Nat
      BY <1>1, <2>1, RunningFacts DEF AdminFailure, BlockedFor, Timed, TimingTypeOK
    <3>2. PICK wait \in Jitter(Backoff(BlockedFor)) : wake' = now + wait
      BY <1>1, <2>1 DEF AdminFailure
    <3>. QED
      BY <3>1, <3>2, BackoffJitter
  <2>2. CASE ~IsDeleting(sees.mode)
    <3>1. FailingFor \in Nat
      BY <1>1, RunningFacts DEF AdminFailure, FailingFor
    <3>2. PICK wait \in Jitter(Backoff(FailingFor)) : wake' = now + wait
      BY <1>1, <2>2 DEF AdminFailure
    <3>. QED
      BY <3>1, <3>2, BackoffJitter
  <2>. QED
    BY <2>1, <2>2
<1>2. CASE OtherFailure
  <2>1. PICK wait \in Jitter(Backoff(0)) : wake' = now + wait
    BY <1>2 DEF OtherFailure
  <2>. QED
    BY <2>1, BackoffJitter
<1>3. CASE NotReadyYet
  BY <1>3 DEF NotReadyYet
<1>4. CASE Healthy
  <2>1. PICK poll \in Jitter(Ceiling) : wake' = now + HealthyRequeue(NextRemoval(due'), poll)
    BY <1>4 DEF Healthy
  <2>. DEFINE removal == NextRemoval(due')
  <2>2. due' = Swept /\ Running /\ (sees.work => due' = Never)
    BY <1>4, RunningFacts DEF Healthy, Ends, Swept
  <2>3. /\ removal \in Nat \cup {Never}
        /\ removal # Never => removal = due' \/ removal = now + DrainPoll
        /\ removal = Never \/ removal >= now
    BY <2>2, SweptType DEF NextRemoval, Never, Removed
  <2>4. /\ HealthyRequeue(removal, poll) \in Nat
        /\ \/ Second <= HealthyRequeue(removal, poll)
           \/ removal # Never /\ removal <= now + HealthyRequeue(removal, poll)
    BY <2>2, <2>3, HealthyWait
  <2>. HIDE DEF removal
  <2>. QED
    BY <2>1, <2>2, <2>3, <2>4, SweptType DEF removal, Never, Removed
<1>5. CASE Blocked
  BY <1>5, BlockedWait, RunningFacts DEF Blocked, IsDeleting
<1>6. CASE Held
  BY <1>6, HeldWait, SweptType, RunningFacts DEF Held, IsDeleting
<1>. QED
  BY <1>1, <1>2, <1>3, <1>4, <1>5, <1>6 DEF Waits

-----------------------------------------------------------------------------
(* Every step keeps the invariant.                                         *)

LEMMA ReportType ==
  ASSUME TimingInv, Ends, NEW status \in {"Unknown", "False", "True"}, NEW admin \in BOOLEAN,
         Report(status, admin, known)
  PROVE  /\ ready' \in [status : {"Unknown", "False", "True"}, admin : BOOLEAN, since : Nat]
         /\ ready'.since <= now
         /\ {collisions, known}' \subseteq 0 .. Taken
BY RunningFacts DEF Report

LEMMA WaitsType ==
  ASSUME TimingInv, Waits
  PROVE  /\ Ends /\ now' = now /\ phase' = phase /\ deletedAt' = deletedAt
         /\ work' = work /\ up' = up
         /\ failures' \in Nat /\ failed' \in BOOLEAN
         /\ clearedAt' \in {clearedAt, now}
         /\ due' \in Nat \cup {Never, Removed}
         /\ work => due' = Never
         /\ ready' \in [status : {"Unknown", "False", "True"}, admin : BOOLEAN, since : Nat]
         /\ ready'.since <= now
         /\ {collisions, known}' \subseteq 0 .. Taken
<1>. /\ TimingTypeOK
     /\ Ends /\ work => sees.work /\ due = Never
  BY DEF TimingInv, Timed, Ends
<1>1. CASE AdminFailure
  <2>1. Ends /\ (UNCHANGED <<ready, counts>> \/ Report("False", TRUE, known))
    BY <1>1, Zenon DEF AdminFailure
  <2>2. /\ ready' \in [status : {"Unknown", "False", "True"}, admin : BOOLEAN, since : Nat]
        /\ ready'.since <= now
        /\ {collisions, known}' \subseteq 0 .. Taken
    <3>1. CASE UNCHANGED <<ready, counts>>
      BY <2>1, <3>1, RunningFacts DEF counts, TimingTypeOK
    <3>2. CASE Report("False", TRUE, known)
      BY <2>1, <3>2, ReportType
    <3>. QED
      BY <2>1, <3>1, <3>2
  <2>3. failed' \in BOOLEAN /\ UNCHANGED <<now, phase, deletedAt, due, work, up, failures, clearedAt>>
    BY <1>1, Zenon DEF AdminFailure, TimingTypeOK
  <2>. QED
    BY <2>1, <2>2, <2>3, RunningFacts DEF TimingTypeOK
<1>2. CASE OtherFailure
  <2>1. failures' \in Nat
    BY <1>2 DEF OtherFailure, TimingTypeOK
  <2>2. failed' \in BOOLEAN
    BY <1>2, Zenon DEF OtherFailure, TimingTypeOK
  <2>3. Ends /\ (UNCHANGED <<ready, counts>> \/ Report("Unknown", FALSE, known))
    BY <1>2, Zenon DEF OtherFailure
  <2>4. /\ ready' \in [status : {"Unknown", "False", "True"}, admin : BOOLEAN, since : Nat]
        /\ ready'.since <= now
        /\ {collisions, known}' \subseteq 0 .. Taken
    <3>1. CASE UNCHANGED <<ready, counts>>
      BY <2>3, <3>1, RunningFacts DEF counts, TimingTypeOK
    <3>2. CASE Report("Unknown", FALSE, known)
      BY <2>3, <3>2, ReportType
    <3>. QED
      BY <2>3, <3>1, <3>2
  <2>5. clearedAt' = now /\ UNCHANGED <<now, phase, deletedAt, due, work, up>>
    BY <1>2, Zenon DEF OtherFailure
  <2>. QED
    BY <2>1, <2>2, <2>3, <2>4, <2>5, RunningFacts DEF TimingTypeOK
<1>3. CASE NotReadyYet
  <2>1. Ends /\ Report("False", FALSE, known) /\ due' \in {due, Swept}
    BY <1>3 DEF NotReadyYet
  <2>2. work => due' = Never
    BY <2>1 DEF Swept
  <2>. QED
    BY <1>3, <2>1, <2>2, ReportType, SweptType DEF NotReadyYet, TimingTypeOK
<1>4. CASE Healthy
  <2>1. Ends /\ Report("True", FALSE, known) /\ due' = Swept
    BY <1>4 DEF Healthy
  <2>2. work => due' = Never
    BY <2>1 DEF Swept
  <2>. QED
    BY <1>4, <2>1, <2>2, ReportType, SweptType DEF Healthy, TimingTypeOK
<1>5. CASE Blocked
  BY <1>5, RunningFacts DEF Blocked, object, counts, TimingTypeOK, TimingInv, Timed
<1>6. CASE Held
  <2>1. Ends /\ ~sees.work /\ due' = Swept
    BY <1>6 DEF Held
  <2>. QED
    BY <1>6, <2>1, SweptType DEF Held, counts, TimingTypeOK, TimingInv, Timed
<1>. QED
  BY <1>1, <1>2, <1>3, <1>4, <1>5, <1>6 DEF Waits

\* A collision ends the pass before it asked anything, and leaves a count above the one
\* it hashed with.
LEMMA CollisionLeaves ==
  ASSUME TimingInv, HashCollision
  PROVE  /\ Running /\ started' = Never /\ ~sees.answered /\ wake' = now /\ phase = "live"
         /\ UNCHANGED <<now, sees, phase, deletedAt, due, work, up, failures, clearedAt, failed>>
         /\ collisions' \in 0 .. Taken /\ known' \in 0 .. Taken /\ known < collisions'
         /\ ready' \in [status : {"Unknown", "False", "True"}, admin : BOOLEAN, since : Nat]
         /\ ready'.since <= now
<1>1. /\ Running /\ started' = Never /\ ~sees.answered /\ wake' = now
      /\ phase = "live" /\ known < Taken /\ Report("False", FALSE, known + 1)
      /\ UNCHANGED <<now, sees, phase, deletedAt, due, work, up, failures, clearedAt, failed>>
  BY DEF HashCollision
<1>2. /\ known \in Nat /\ Taken \in Nat /\ known <= Taken
      /\ started \in Nat /\ started <= now /\ now \in Nat
      /\ ready \in [status : {"Unknown", "False", "True"}, admin : BOOLEAN, since : Nat]
      /\ ready.since <= now
  BY <1>1, TimingAssumption DEF TimingAssumption, TimingInv, TimingTypeOK, Timed, Running, Never
<1>3. collisions' = known + 1 /\ known' = known
  BY <1>1 DEF Report
<1>4. /\ ready' \in [status : {"Unknown", "False", "True"}, admin : BOOLEAN, since : Nat]
      /\ ready'.since <= now
  BY <1>1, <1>2 DEF Report
<1>. QED
  BY <1>1, <1>2, <1>3, <1>4

LEMMA NoAnswerType ==
  NoAnswer \in [answered : BOOLEAN, mode : Modes, work : BOOLEAN, up : BOOLEAN]
BY DEF NoAnswer, Modes

LEMMA TypeStep ==
  ASSUME TimingInv, [Next]_vars
  PROVE  TimingTypeOK'
<1>. TimingTypeOK
  BY DEF TimingInv
<1>1. CASE Tick
  <2>1. now' \in Nat
    BY <1>1 DEF Tick, TimingTypeOK
  <2>2. UNCHANGED <<wake, started, sees, object, work, up, failures, clearedAt, failed>>
    BY <1>1, Zenon DEF Tick
  <2>. QED
    BY <2>1, <2>2 DEF object, counts, TimingTypeOK
<1>2. CASE StartPass
  <2>1. started' = now
    BY <1>2, Zenon DEF StartPass
  <2>2. UNCHANGED <<now, wake, sees, object, work, up, failures, clearedAt, failed>>
    BY <1>2, Zenon DEF StartPass
  <2>. QED
    BY <2>1, <2>2 DEF object, counts, TimingTypeOK
<1>3. CASE Answer
  BY <1>3 DEF Answer, ModeFor, Modes, object, counts, TimingTypeOK
<1>4. CASE Waits
  <2>1. started' = Never /\ sees' = NoAnswer
    BY <1>4, WaitsType DEF Ends
  <2>. NoAnswer \in [answered : BOOLEAN, mode : Modes, work : BOOLEAN, up : BOOLEAN]
    BY NoAnswerType
  <2>2. work' \in BOOLEAN /\ up' \in BOOLEAN
    BY <1>4, WaitsType, Zenon DEF TimingTypeOK
  <2>. QED
    BY <1>4, <2>1, <2>2, WaitsType, NextWake DEF TimingTypeOK
<1>5. CASE Release
  BY <1>5 DEF Release, Ends, NoAnswer, Modes, counts, TimingTypeOK
<1>6. CASE WorkEnds
  <2>1. work' \in BOOLEAN
    BY <1>6, Zenon DEF WorkEnds
  <2>2. clearedAt' = now
    BY <1>6, Zenon DEF WorkEnds
  <2>3. UNCHANGED <<clock, object, up, failures, failed>>
    BY <1>6, Zenon DEF WorkEnds
  <2>. QED
    BY <2>1, <2>2, <2>3 DEF clock, object, counts, TimingTypeOK
<1>7. CASE Outage
  <2>1. failures' \in Nat
    BY <1>7 DEF Outage, TimingTypeOK
  <2>2. up' \in BOOLEAN
    BY <1>7, Zenon DEF Outage
  <2>3. UNCHANGED <<clock, object, work, clearedAt, failed>>
    BY <1>7, Zenon DEF Outage
  <2>. QED
    BY <2>1, <2>2, <2>3 DEF clock, object, counts, TimingTypeOK
<1>8. CASE Recovery
  <2>1. up' \in BOOLEAN
    BY <1>8, Zenon DEF Recovery
  <2>2. clearedAt' = now
    BY <1>8, Zenon DEF Recovery
  <2>3. UNCHANGED <<clock, object, work, failures, failed>>
    BY <1>8, Zenon DEF Recovery
  <2>. QED
    BY <2>1, <2>2, <2>3 DEF clock, object, counts, TimingTypeOK
<1>9. CASE Delete
  BY <1>9 DEF Delete, counts, TimingTypeOK
<1>10. CASE UNCHANGED vars
  BY <1>10 DEF vars, clock, object, counts, TimingTypeOK
<1>11. CASE HashCollision
  BY <1>11, CollisionLeaves, Zenon DEF TimingTypeOK
<1>12. CASE SeeCount
  BY <1>12 DEF SeeCount, clock, TimingTypeOK
<1>. QED
  BY <1>1, <1>2, <1>3, <1>4, <1>5, <1>6, <1>7, <1>8, <1>9, <1>10, <1>11, <1>12 DEF Next, Waits

LEMMA TimedStep ==
  ASSUME TimingInv, [Next]_vars
  PROVE  Timed'
<1>. TimingTypeOK /\ Timed
  BY DEF TimingInv
<1>. USE DEF Running, Never
<1>1. CASE Tick
  BY <1>1, TimingAssumption DEF TimingAssumption, Tick, object, TimingTypeOK, Timed
<1>2. CASE StartPass
  BY <1>2, TimingAssumption DEF TimingAssumption, StartPass, object, TimingTypeOK, Timed
<1>3. CASE Answer
  BY <1>3 DEF Answer, ModeFor, IsDeleting, object, TimingTypeOK, Timed
<1>4. CASE Waits
  BY <1>4, WaitsType, NextWake, RunningFacts DEF Ends, NoAnswer, TimingTypeOK, Timed
<1>5. CASE Release
  BY <1>5 DEF Release, Ends, NoAnswer, TimingTypeOK, Timed
<1>6. CASE WorkEnds
  BY <1>6 DEF WorkEnds, clock, object, TimingTypeOK, Timed
<1>7. CASE Outage
  BY <1>7 DEF Outage, clock, object, TimingTypeOK, Timed
<1>8. CASE Recovery
  BY <1>8 DEF Recovery, clock, object, TimingTypeOK, Timed
<1>9. CASE Delete
  BY <1>9 DEF Delete, TimingTypeOK, Timed
<1>10. CASE UNCHANGED vars
  BY <1>10 DEF vars, clock, object, Timed
<1>11. CASE HashCollision
  BY <1>11, CollisionLeaves DEF TimingTypeOK, Timed
<1>12. CASE SeeCount
  BY <1>12 DEF SeeCount, clock, Timed
<1>. QED
  BY <1>1, <1>2, <1>3, <1>4, <1>5, <1>6, <1>7, <1>8, <1>9, <1>10, <1>11, <1>12 DEF Next, Waits

LEMMA ForcedStep ==
  ASSUME TimingInv, [Next]_vars
  PROVE  ForcedSoon'
<1>. TimingTypeOK /\ Timed /\ ForcedSoon
  BY DEF TimingInv
<1>. Second \in Nat /\ PassTime \in Nat /\ DrainTimeout \in Nat
  BY TimingAssumption DEF TimingAssumption
<1>1. CASE Tick
  BY <1>1 DEF Tick, object, ForcedSoon, Deadline, Running
<1>2. CASE StartPass
  BY <1>2 DEF StartPass, object, TimingTypeOK, Timed, ForcedSoon, Deadline, Running, Never
<1>3. CASE Answer
  <2>1. sees'.mode = "Deleting" /\ Policy = "drainForce" /\ phase = "deleting" => now < Deadline
    BY <1>3 DEF Answer, ModeFor, DrainOver, Deadline, TimingTypeOK, Timed
  <2>. QED
    BY <1>3, <2>1 DEF Answer, object, TimingTypeOK, Timed, ForcedSoon, Deadline, Running, Never
<1>4. CASE Waits
  <2>. SUFFICES ASSUME phase = "deleting", Policy = "drainForce", ~failed'
                PROVE  wake' <= Deadline + Second + PassTime
    BY <1>4, WaitsType DEF ForcedSoon, Deadline, Running, Never, Ends, NoAnswer
  <2>1. IsDeleting(sees.mode) /\ Ends
    BY <1>4, WaitsType, RunningFacts
  <2>2. Blocked \/ Held
    BY <1>4, <2>1 DEF Waits, AdminFailure, OtherFailure, NotReadyYet, Healthy
  <2>3. sees.mode = "Deleting" /\ failed' = failed
    BY <2>2 DEF Blocked, Held
  <2>4. started < Deadline /\ now <= started + PassTime /\ started \in Nat /\ now \in Nat
    BY <2>1, <2>3, RunningFacts DEF ForcedSoon, Ends
  <2>5. Deadline \in Nat
    BY DeadlineType
  <2>6. CASE Blocked
    <3>1. wake' = now + BlockedRequeue
      BY <2>6 DEF Blocked
    <3>. QED
      BY <2>4, <2>5, <3>1, BlockedWait
  <2>7. CASE Held
    <3>1. wake' = now + HeldRequeue(due') /\ due' \in Nat
      BY <2>7, SweptType DEF Held
    <3>. QED
      BY <2>4, <2>5, <3>1, HeldWait
  <2>. QED
    BY <2>2, <2>6, <2>7
<1>5. CASE Release
  BY <1>5 DEF Release, ForcedSoon
<1>6. CASE WorkEnds
  BY <1>6 DEF WorkEnds, clock, object, ForcedSoon, Deadline, Running
<1>7. CASE Outage
  BY <1>7 DEF Outage, clock, object, ForcedSoon, Deadline, Running
<1>8. CASE Recovery
  BY <1>8 DEF Recovery, clock, object, ForcedSoon, Deadline, Running
<1>9. CASE Delete
  BY <1>9 DEF Delete, TimingTypeOK, Timed, ForcedSoon, Deadline, Running
<1>10. CASE UNCHANGED vars
  BY <1>10 DEF vars, clock, object, ForcedSoon, Deadline, Running
<1>11. CASE HashCollision
  BY <1>11, CollisionLeaves DEF ForcedSoon
<1>12. CASE SeeCount
  BY <1>12 DEF SeeCount, clock, ForcedSoon, Deadline, Running
<1>. QED
  BY <1>1, <1>2, <1>3, <1>4, <1>5, <1>6, <1>7, <1>8, <1>9, <1>10, <1>11, <1>12 DEF Next, Waits

LEMMA OutdatedStep ==
  ASSUME TimingInv, [Next]_vars
  PROVE  Outdated'
<1>. TimingTypeOK /\ Timed /\ Outdated
  BY DEF TimingInv
<1>1. CASE Tick
  BY <1>1 DEF Tick, Outdated
<1>2. CASE StartPass
  BY <1>2 DEF StartPass, Timed, Outdated
<1>3. CASE Answer
  BY <1>3 DEF Answer, Outdated
<1>4. CASE Waits \/ Release
  <2>1. sees' = NoAnswer
    BY <1>4, WaitsType DEF Release, Ends
  <2>. QED
    BY <2>1 DEF NoAnswer, Outdated
<1>6. CASE WorkEnds
  BY <1>6 DEF WorkEnds, clock, TimingTypeOK, Timed, Outdated
<1>7. CASE Outage
  BY <1>7 DEF Outage, clock, Outdated
<1>8. CASE Recovery
  BY <1>8 DEF Recovery, clock, TimingTypeOK, Timed, Outdated
<1>9. CASE Delete
  BY <1>9 DEF Delete, Timed, Outdated
<1>10. CASE UNCHANGED vars
  BY <1>10 DEF vars, clock, Outdated
<1>11. CASE HashCollision
  BY <1>11, CollisionLeaves DEF Outdated
<1>12. CASE SeeCount
  BY <1>12 DEF SeeCount, clock, Outdated
<1>. QED
  BY <1>1, <1>2, <1>3, <1>4, <1>6, <1>7, <1>8, <1>9, <1>10, <1>11, <1>12 DEF Next, Waits

\* A wait promised at a later moment ends later.
LEMMA PromisedLater ==
  ASSUME NEW earlier \in Nat, NEW later \in Nat, NEW from \in Nat,
         from <= earlier, earlier <= later
  PROVE  /\ Promised(earlier - from) \in Nat /\ Promised(later - from) \in Nat
         /\ earlier + Promised(earlier - from) <= later + Promised(later - from)
<1>1. earlier - from \in Nat /\ later - from \in Nat /\ earlier - from <= later - from
  OBVIOUS
<1>2. /\ Promised(earlier - from) \in Nat /\ Promised(later - from) \in Nat
      /\ Promised(earlier - from) <= Promised(later - from)
  BY <1>1, PromisedGrows
<1>. QED
  BY <1>2

\* A wait that begins no later than a pass after the drain became free is over in time.
LEMMA WaitIsLate ==
  ASSUME NEW t \in Nat, NEW free \in Nat, deletedAt \in Nat, deletedAt <= t,
         t <= free + PassTime
  PROVE  /\ Latest(free) \in Nat
         /\ Promised(t - deletedAt) \in Nat
         /\ t + Promised(t - deletedAt) <= Latest(free)
<1>. DEFINE later == free + PassTime
<1>1. later \in Nat /\ t <= later
  BY TimingAssumption DEF TimingAssumption
<1>2. Latest(free) = later + Promised(later - deletedAt)
  BY DEF Latest
<1>. HIDE DEF later
<1>3. /\ Promised(t - deletedAt) \in Nat /\ Promised(later - deletedAt) \in Nat
      /\ t + Promised(t - deletedAt) <= later + Promised(later - deletedAt)
  BY <1>1, PromisedLater
<1>. QED
  BY <1>1, <1>2, <1>3

LEMMA LatestType ==
  ASSUME TimingTypeOK, Timed, phase = "deleting"
  PROVE  /\ Latest(clearedAt) \in Nat
         /\ Promised((clearedAt + PassTime) - deletedAt) \in Nat
<1>. DEFINE waited == (clearedAt + PassTime) - deletedAt
<1>1. /\ deletedAt \in Nat /\ clearedAt \in Nat /\ deletedAt <= clearedAt
      /\ clearedAt <= clearedAt + PassTime
  BY TimingAssumption DEF TimingAssumption, TimingTypeOK, Timed
<1>2. waited \in Nat
  BY <1>1, TimingAssumption DEF TimingAssumption
<1>. HIDE DEF waited
<1>3. Promised(waited) \in Nat
  BY <1>2, PromisedGrows
<1>. QED
  BY <1>1, <1>3, WaitIsLate DEF waited

LEMMA NoticedStep ==
  ASSUME TimingInv, [Next]_vars
  PROVE  NoticedSoon'
<1>. TimingTypeOK /\ Timed /\ Outdated /\ NoticedSoon
  BY DEF TimingInv
<1>. PassTime \in Nat /\ now \in Nat
  BY TimingAssumption DEF TimingAssumption, TimingTypeOK
<1>1. CASE Tick
  <2>1. /\ now' = now + 1 /\ now' \in Nat /\ now <= now'
        /\ UNCHANGED <<wake, started, phase, deletedAt, due, work, up, clearedAt>>
    BY <1>1 DEF Tick, object
  <2>2. ASSUME phase = "deleting", due = Never, ~Running
        PROVE  wake <= now' + Promised(now' - deletedAt)
    <3>1. deletedAt \in Nat /\ deletedAt <= now /\ wake \in Nat
      BY <2>2 DEF TimingTypeOK, Timed
    <3>2. wake <= now + Promised(now - deletedAt)
      BY <2>2 DEF NoticedSoon
    <3>3. /\ Promised(now - deletedAt) \in Nat /\ Promised(now' - deletedAt) \in Nat
          /\ now + Promised(now - deletedAt) <= now' + Promised(now' - deletedAt)
      BY <2>1, <3>1, PromisedLater
    <3>. QED
      BY <2>1, <3>1, <3>2, <3>3
  <2>. QED
    BY <2>1, <2>2 DEF NoticedSoon, Running, Latest
<1>2. CASE StartPass
  <2>1. /\ ~Running /\ phase # "gone" /\ started' = now
        /\ UNCHANGED <<now, wake, phase, deletedAt, due, work, up, clearedAt>>
    BY <1>2 DEF StartPass, object
  <2>2. ASSUME phase = "deleting", due = Never, ~work, up
        PROVE  now <= Latest(clearedAt)
    <3>1. now <= wake /\ wake <= Latest(clearedAt) /\ wake \in Nat
      BY <2>1, <2>2 DEF NoticedSoon, TimingTypeOK, Timed
    <3>2. CASE now <= clearedAt + PassTime
      <4>1. /\ deletedAt \in Nat /\ deletedAt <= now /\ clearedAt \in Nat
        BY <2>2 DEF TimingTypeOK, Timed
      <4>. QED
        BY <3>2, <4>1, WaitIsLate
    <3>3. CASE clearedAt + PassTime <= now
      <4>1. /\ deletedAt \in Nat /\ clearedAt \in Nat /\ deletedAt <= clearedAt
        BY <2>2 DEF TimingTypeOK, Timed
      <4>2. Latest(clearedAt) \in Nat
        BY <4>1, WaitIsLate
      <4>. QED
        BY <3>1, <4>2
    <3>. QED
      BY <3>2, <3>3 DEF TimingTypeOK
  <2>. QED
    BY <2>1, <2>2 DEF NoticedSoon, Running, Never, TimingTypeOK, Latest
<1>3. CASE Answer
  BY <1>3 DEF Answer, object, NoticedSoon, Running, Latest
<1>4. CASE Waits
  <2>1. Ends /\ started' = Never /\ UNCHANGED <<now, phase, deletedAt, work, up>>
    BY <1>4, WaitsType, Zenon DEF Ends
  <2>2. ASSUME phase = "deleting", due' = Never
        PROVE  /\ wake' <= now + Promised(now - deletedAt)
               /\ ~work /\ up => now <= clearedAt' + PassTime
    <3>1. IsDeleting(sees.mode)
      BY <2>1, <2>2, RunningFacts
    <3>2. now <= started + PassTime /\ started \in Nat /\ sees.answered /\ clearedAt \in Nat
      BY <2>1, RunningFacts DEF Ends, TimingTypeOK
    <3>3. BlockedFor = now - deletedAt /\ BlockedFor \in Nat
      BY <2>2 DEF BlockedFor, TimingTypeOK, Timed
    <3>4. Promised(BlockedFor) \in Nat
      BY <3>3, PromisedGrows
    <3>5. CASE AdminFailure
      <4>1. PICK wait \in Jitter(Backoff(BlockedFor)) : wake' = now + wait
        BY <3>1, <3>5 DEF AdminFailure
      <4>2. wake' <= now + Promised(now - deletedAt)
        BY <3>3, <3>4, <4>1, BackoffJitter
      <4>3. (up => ~sees.up) /\ clearedAt' = clearedAt
        BY <3>5 DEF AdminFailure
      <4>. QED
        BY <3>2, <4>2, <4>3 DEF Outdated
    <3>6. CASE OtherFailure
      <4>1. PICK wait \in Jitter(Backoff(0)) : wake' = now + wait
        BY <3>6 DEF OtherFailure
      <4>2. wait \in Nat /\ wait <= Promised(0)
        BY <4>1, BackoffJitter
      <4>3. Promised(0) \in Nat /\ Promised(0) <= Promised(BlockedFor)
        BY <3>3, PromisedGrows
      <4>4. clearedAt' = now
        BY <3>6 DEF OtherFailure
      <4>. QED
        BY <3>3, <3>4, <4>1, <4>2, <4>3, <4>4
    <3>7. CASE Blocked
      <4>1. wake' = now + BlockedRequeue /\ sees.work /\ clearedAt' = clearedAt
        BY <3>7 DEF Blocked
      <4>2. ~work => started <= clearedAt
        BY <3>2, <4>1 DEF Outdated
      <4>3. BlockedRequeue \in Nat /\ BlockedRequeue <= Promised(now - deletedAt)
        BY <2>2, BlockedWait
      <4>. QED
        BY <3>2, <3>3, <3>4, <4>1, <4>2, <4>3
    <3>8. CASE Held
      BY <2>2, <3>8, SweptType DEF Held
    <3>. QED
      BY <1>4, <3>1, <3>5, <3>6, <3>7, <3>8 DEF Waits, NotReadyYet, Healthy
  <2>3. ASSUME phase = "deleting", due' = Never, ~work, up
        PROVE  wake' <= Latest(clearedAt')
    <3>1. /\ clearedAt' \in Nat /\ wake' \in Nat
          /\ deletedAt \in Nat /\ deletedAt <= now
      BY <1>4, <2>3, WaitsType, NextWake DEF TimingTypeOK, Timed
    <3>2. /\ Latest(clearedAt') \in Nat
          /\ Promised(now - deletedAt) \in Nat
          /\ now + Promised(now - deletedAt) <= Latest(clearedAt')
      BY <2>2, <2>3, <3>1, WaitIsLate
    <3>3. wake' <= now + Promised(now - deletedAt)
      BY <2>2, <2>3
    <3>. QED
      BY <3>1, <3>2, <3>3
  <2>. QED
    BY <2>1, <2>2, <2>3 DEF NoticedSoon, Running, Latest
<1>5. CASE Release
  BY <1>5 DEF Release, NoticedSoon
<1>6. CASE WorkEnds \/ Recovery
  <2>1. /\ UNCHANGED <<now, wake, started, phase, deletedAt, due>>
        /\ clearedAt' = now
    BY <1>6 DEF WorkEnds, Recovery, clock, object
  <2>2. ASSUME phase = "deleting", due = Never
        PROVE  /\ ~Running => wake <= now + Promised(now - deletedAt) /\ wake <= Latest(now)
               /\ Running => started <= Latest(now)
    <3>1. deletedAt \in Nat /\ deletedAt <= now /\ wake \in Nat /\ now <= now + PassTime
      BY <2>2 DEF TimingTypeOK, Timed
    <3>2. /\ Latest(now) \in Nat /\ Promised(now - deletedAt) \in Nat
          /\ now + Promised(now - deletedAt) <= Latest(now)
      BY <3>1, WaitIsLate
    <3>3. ~Running => wake <= now + Promised(now - deletedAt)
      BY <2>2 DEF NoticedSoon
    <3>4. Running => started \in Nat /\ started <= now
      BY DEF TimingTypeOK, Timed, Running
    <3>. QED
      BY <3>1, <3>2, <3>3, <3>4
  <2>. QED
    BY <2>1, <2>2 DEF NoticedSoon, Running, Latest
<1>7. CASE Outage
  BY <1>7 DEF Outage, clock, object, NoticedSoon, Running, Latest
<1>8. CASE Delete
  <2>1. /\ now' = now /\ wake' = now /\ deletedAt' = now /\ clearedAt' = now
        /\ ~Running /\ started' = started
    BY <1>8 DEF Delete
  <2>2. now - now = 0 /\ (now + PassTime) - now = PassTime
    OBVIOUS
  <2>3. Promised(0) \in Nat /\ Promised(PassTime) \in Nat
    BY PromisedGrows
  <2>4. now <= now + Promised(now - now) /\ now <= now + PassTime + Promised((now + PassTime) - now)
    BY <2>2, <2>3
  <2>. QED
    BY <2>1, <2>4 DEF NoticedSoon, Running, Latest
<1>9. CASE UNCHANGED vars
  BY <1>9 DEF vars, clock, object, NoticedSoon, Running, Latest
<1>10. CASE HashCollision
  BY <1>10, CollisionLeaves DEF NoticedSoon
<1>11. CASE SeeCount
  BY <1>11 DEF SeeCount, clock, NoticedSoon, Running, Latest
<1>. QED
  BY <1>1, <1>2, <1>3, <1>4, <1>5, <1>6, <1>7, <1>8, <1>9, <1>10, <1>11 DEF Next, Waits

-----------------------------------------------------------------------------
(* The theorems.                                                           *)

\* The clock, the timers and what a pass was told keep to the invariant through every
\* pass, outage and failure (retry.rs, controller.rs error_policy, cleanup.rs).
THEOREM TimingInvariant == Spec => []TimingInv
<1>1. Init => TimingInv
  <2>. SUFFICES ASSUME Init PROVE TimingInv
    OBVIOUS
  <2>1. TimingTypeOK
    <3>1. sees \in [answered : BOOLEAN, mode : Modes, work : BOOLEAN, up : BOOLEAN]
      BY NoAnswerType, Zenon DEF Init
    <3>2. ready \in [status : {"Unknown", "False", "True"}, admin : BOOLEAN, since : Nat]
      BY DEF Init
    <3>3. work \in BOOLEAN /\ up \in BOOLEAN /\ failed \in BOOLEAN
      BY Zenon DEF Init
    <3>. QED
      BY <3>1, <3>2, <3>3, TimingAssumption DEF TimingAssumption, Init, TimingTypeOK
  <2>2. ~sees.answered /\ ~sees.work
    BY DEF Init, NoAnswer
  <2>. QED
    BY <2>1, <2>2 DEF Init, TimingInv, Timed, ForcedSoon, Outdated, NoticedSoon, Running, Never
<1>2. TimingInv /\ [Next]_vars => TimingInv'
  BY TypeStep, TimedStep, ForcedStep, OutdatedStep, NoticedStep DEF TimingInv
<1>. QED
  BY <1>1, <1>2, PTL DEF Spec

\* A drain that may be forced, and whose passes did not fail, is over a second and two
\* passes after its deadline, whatever the deadline, the backoff and the length of a
\* pass (until_drain_deadline, blocked_deletion_requeue, cleanup).
THEOREM ForcedInTimeHolds == Spec => []ForcedInTime
<1>1. TimingInv => ForcedInTime
  <2>. SUFFICES ASSUME TimingInv, phase = "deleting", Policy = "drainForce", ~failed
                PROVE  now <= Deadline + Second + 2 * PassTime
    BY DEF ForcedInTime
  <2>1. TimingTypeOK /\ Timed /\ ForcedSoon
    BY DEF TimingInv
  <2>2. Second \in Nat /\ PassTime \in Nat /\ Deadline \in Nat /\ now \in Nat
    BY <2>1, DeadlineType, TimingAssumption DEF TimingAssumption, TimingTypeOK
  <2>3. CASE Running
    BY <2>1, <2>2, <2>3 DEF ForcedSoon, Timed, TimingTypeOK, Running, Never
  <2>4. CASE ~Running
    BY <2>1, <2>2, <2>4 DEF ForcedSoon, Timed, TimingTypeOK
  <2>. QED
    BY <2>3, <2>4
<1>. QED
  BY <1>1, TimingInvariant, PTL

\* Once the invocations of a drain have ended and Restate answers, a pass notices within
\* a quarter of the time the deletion has taken, whatever the floor, the ceiling and the
\* length of a pass (backoff, admin_failure_retry_after, blocked_deletion_requeue).
THEOREM NoticedInTimeHolds == Spec => []NoticedInTime
<1>1. TimingInv => NoticedInTime
  <2>. SUFFICES ASSUME TimingInv, phase = "deleting", ~work, up, due = Never
                PROVE  now <= clearedAt + Promised((clearedAt + PassTime) - deletedAt) + 2 * PassTime
    BY DEF NoticedInTime
  <2>. DEFINE promised == Promised((clearedAt + PassTime) - deletedAt)
  <2>1. TimingTypeOK /\ Timed /\ NoticedSoon
    BY DEF TimingInv
  <2>2. promised \in Nat /\ PassTime \in Nat /\ now \in Nat /\ clearedAt \in Nat
    BY <2>1, LatestType, TimingAssumption DEF TimingAssumption, TimingTypeOK
  <2>3. Latest(clearedAt) = clearedAt + PassTime + promised
    BY DEF Latest
  <2>4. now <= Latest(clearedAt) + PassTime
    <3>1. Latest(clearedAt) \in Nat
      BY <2>1, LatestType
    <3>2. CASE Running
      BY <2>1, <2>2, <3>1, <3>2 DEF NoticedSoon, Timed, TimingTypeOK, Running, Never
    <3>3. CASE ~Running
      BY <2>1, <2>2, <3>1, <3>3 DEF NoticedSoon, Timed, TimingTypeOK
    <3>. QED
      BY <3>2, <3>3
  <2>. HIDE DEF promised
  <2>5. now <= clearedAt + promised + 2 * PassTime
    BY <2>2, <2>3, <2>4
  <2>. QED
    BY <2>5 DEF promised
<1>. QED
  BY <1>1, TimingInvariant, PTL

\* A pass asks for another within a second only to remove a version whose time comes
\* sooner, and not before that time, or after a hash collision it has counted above what
\* it hashed with, whatever the intervals, the delays and the number of taken names
\* (healthy_requeue_after, blocked_deletion_requeue, the held arm of cleanup, the
\* HashCollision arms of reconcile_status).
THEOREM NoSpinHolds == Spec => NoSpin
<1>. DEFINE Calm == Running /\ started' = Never /\ phase' # "gone" =>
                      \/ wake' >= now + Second
                      \/ due' >= 0 /\ wake' >= due'
                      \/ phase = "live" /\ known < collisions' /\ collisions' <= Taken
<1>1. TimingInv /\ [Next]_vars => [Calm]_vars
  <2>. SUFFICES ASSUME TimingInv, Next, Running, started' = Never, phase' # "gone"
                PROVE  \/ wake' >= now + Second
                       \/ due' >= 0 /\ wake' >= due'
                       \/ phase = "live" /\ known < collisions' /\ collisions' <= Taken
    OBVIOUS
  <2>1. Waits \/ HashCollision
    BY DEF Next, Waits, Tick, StartPass, Answer, Release, WorkEnds, Outage, Recovery, Delete,
           SeeCount, Running, clock
  <2>2. CASE Waits
    <3>1. /\ wake' \in Nat /\ now \in Nat /\ Second \in Nat
          /\ now + Second <= wake' \/ (due' \in Nat /\ due' <= wake')
      BY <2>2, NextWake, TimingAssumption DEF TimingAssumption, TimingInv, TimingTypeOK
    <3>. QED
      BY <3>1
  <2>3. CASE HashCollision
    BY <2>3, CollisionLeaves
  <2>. QED
    BY <2>1, <2>2, <2>3
<1>. QED
  BY <1>1, TimingInvariant, PTL DEF Spec, NoSpin
=============================================================================
