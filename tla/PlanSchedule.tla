---------------------------- MODULE PlanSchedule ----------------------------
(***************************************************************************)
(* The Plan, the work queue and the processes that share them through      *)
(* PostgreSQL (postgresPlan.ts, worker.ts): Owner requests that reach the  *)
(* store through the API, and workers that advance an armed Plan when the  *)
(* job for its next stage comes due.  Every Plan transaction also stages   *)
(* the jobs its outcome calls for (the outbox), and the transaction of a   *)
(* scheduled advance settles its own job.                                  *)
(*                                                                         *)
(* A transaction locks the Plan row before any job row, so transactions on *)
(* one Plan are serial: each is one action.  Between them requests wait    *)
(* with the time they captured on arrival, leases run out, workers crash.  *)
(***************************************************************************)
EXTENDS Integers, Sequences, FiniteSets

CONSTANTS
  OwnerCommands,    \* Owner requests: [key, type], one intent per key
  ApiSkews,         \* how far the API's clock may be from the database clock
  MaxInFlight,      \* bound: Owner requests under way at a time
  MaxTime,          \* bound: requests arrive until then
  DraftTime,        \* bound: the clock stands at it until the Plan is armed
  CheckInIntervalMs, ReminderLeadMs, GracePeriodMs, MaxSafe,
  ClaimedKinds,     \* bound: the kinds of jobs that workers get to see
  Workers, MaxAttempts, LeaseMs, RetryMs, Limit, ClockSkews

VARIABLES
  lifecycle, hasRehearsed, lastCommandAt, cycle, processed, events, \* plans
  jobs, receipts,                                    \* the queue's tables
  held,                                              \* the workers
  now,                                               \* the database clock
  requests       \* key -> the `at' of the request under way, or Idle

planVars == <<lifecycle, hasRehearsed, lastCommandAt, cycle, processed, events>>
queueVars == <<jobs, receipts, held, now>>
vars == <<planVars, queueVars, requests>>

Idle == -1000
ApiKeys == {c.key : c \in OwnerCommands}
TypeOf(key) == (CHOOSE c \in OwnerCommands : c.key = key).type

\* Identifiers are digests of what they stand for, so they are modelled by it.
\* The job for the next stage of a Plan, and the key of its command, are named
\* by the cycle's start, the stage it leaves and the time it is due.
AdvanceId(startedAt, stage, dueAt) == <<"advance", startedAt, stage, dueAt>>
NoticeId(ordinal, type, at) == <<"notice", ordinal, type, at>>
IsNotice(id) == id[1] = "notice"

Timestamps == 0..MaxSafe
NoticeEvents == {"REMINDER_ENTERED", "CONCERN_ENTERED"}
NoticeIds == {"notice"} \X (Nat \ {0}) \X NoticeEvents \X Timestamps

\* The advance keys that fit the policy and the time line.
ScheduledKeys ==
  UNION {{AdvanceId(s, "on_time", s + CheckInIntervalMs - ReminderLeadMs),
          AdvanceId(s, "reminder", s + CheckInIntervalMs),
          AdvanceId(s, "overdue", s + CheckInIntervalMs + GracePeriodMs)} :
         s \in 0..(MaxSafe - CheckInIntervalMs - GracePeriodMs)}

P == INSTANCE Plan WITH Keys <- ApiKeys \cup ScheduledKeys
J == INSTANCE SafetyJobs WITH
       JobIds   <- ScheduledKeys \cup NoticeIds,
       Contents <- {"advance_plan_stage", "synthetic_notice"},
       DueTimes <- Timestamps

\* An Owner's idempotency key is never the name of a scheduled advance; both are
\* stored as digests.
ASSUME ScheduleAssumption ==
  /\ P!PolicyAssumption /\ J!QueueAssumption
  /\ ApiKeys \cap ScheduledKeys = {}
  /\ MaxInFlight \in Nat
  /\ MaxTime \in Nat /\ DraftTime \in 0..MaxTime
  /\ ApiSkews \subseteq Int /\ ClaimedKinds \subseteq {"advance", "notice"}
-----------------------------------------------------------------------------
(* createSyntheticConcernOutboxPlanner: what a Plan transaction stages.    *)

\* nextScheduleAt
NextScheduleAt(c) ==
  CASE c.stage = "on_time"  -> c.reminderAt
    [] c.stage = "reminder" -> c.dueAt
    [] c.stage = "overdue"  -> c.concernAt

\* scheduledAdvanceIntent: the one job an armed Plan short of Concern wants.
ScheduledAdvance(life, c) ==
  IF life = "armed" /\ c.stage # "concern"
    THEN {AdvanceId(c.startedAt, c.stage, NextScheduleAt(c))}
    ELSE {}

Notices(history, from) ==
  {NoticeId(i, history[i].type, history[i].at) :
     i \in {j \in (from + 1)..Len(history) : history[j].type \in NoticeEvents}}

IntentOf(id) ==
  [content |-> IF IsNotice(id) THEN "synthetic_notice" ELSE "advance_plan_stage",
   dueAt   |-> id[4]]

\* Fault: only a new cycle is scheduled, not the stages after its first.
PlanOutboxNoSchedule(history, from, life, c) ==
  Notices(history, from) \cup
  (IF c.stage = "on_time" THEN ScheduledAdvance(life, c) ELSE {})

\* Fault: the planner looks for new events one place too late.
PlanOutboxLate(history, from, life, c) ==
  ScheduledAdvance(life, c) \cup Notices(history, from + 1)

PlanOutbox(history, from, life, c) ==
  ScheduledAdvance(life, c) \cup Notices(history, from)

\* stageOutbox: identifiers that exist keep their row, in whatever state it is.
\* An identifier fixes its intent, so the conflict it guards against is out of
\* reach here.
StageOutbox(table, ids) ==
  [id \in DOMAIN table \cup ids |->
     IF id \in DOMAIN table THEN table[id]
                            ELSE J!CreatePendingJob(IntentOf(id))]

\* The outbox of the step being taken.
Staged == PlanOutbox(events', Len(events), lifecycle', cycle')
-----------------------------------------------------------------------------
Init ==
  /\ P!Init /\ lastCommandAt = 0
  /\ J!Init
  /\ requests = [k \in ApiKeys |-> Idle]

\* application.ts execute: the API reads its clock when the request arrives.
Submit(key) ==
  /\ requests[key] = Idle
  /\ now <= MaxTime
  /\ Cardinality({k \in ApiKeys : requests[k] # Idle}) < MaxInFlight
  /\ \E skew \in ApiSkews :
       /\ now + skew \in Timestamps
       /\ requests' = [requests EXCEPT ![key] = now + skew]
  /\ UNCHANGED <<planVars, queueVars>>

\* The transaction of an authenticated Owner request: PostgresPlanStore.transact
\* around applyPlanCommand.  However long it took to get here, it carries the
\* time that was captured on arrival.
Commit(key) ==
  LET at == requests[key] type == TypeOf(key)
  IN  /\ at # Idle
      /\ \/ type = "REHEARSE_PLAN" /\ P!RehearsePlan(key, at, TRUE, 1)
         \/ type = "ARM_PLAN" /\ P!ArmPlan(key, at, TRUE, TRUE, 1)
         \/ type = "PAUSE_PLAN" /\ P!PausePlan(key, at, TRUE, TRUE, 1)
         \/ type = "RESUME_PLAN" /\ P!ResumePlan(key, at, TRUE, TRUE, 1)
         \/ type = "DISABLE_PLAN" /\ P!DisablePlan(key, at, TRUE, TRUE, 1)
         \/ type = "OWNER_CHECK_IN" /\ P!OwnerCheckIn(key, at, TRUE)
      /\ jobs' = StageOutbox(jobs, Staged)
      /\ requests' = [requests EXCEPT ![key] = Idle]
      /\ UNCHANGED <<receipts, held, now>>

\* The request ends without a change: rejected, a duplicate of an accepted one,
\* rolled back or lost on the way.  The Owner may send it again.
EndWithoutChange(key) ==
  /\ requests[key] # Idle
  /\ requests' = [requests EXCEPT ![key] = Idle]
  /\ UNCHANGED <<planVars, queueVars>>

\* executeScheduledPlanTransaction, after it has locked the Plan and then the
\* job and found the lease current.

\* The job is no longer what the Plan wants next.
RetireStaleSchedule(c) ==
  /\ c.job \notin ScheduledAdvance(lifecycle, cycle)
  /\ jobs' = [jobs EXCEPT ![c.job] = J!DeadLetterJob(@, "stale_schedule")]
  /\ UNCHANGED planVars

\* Fault: the job is settled in a transaction of its own, later.
AdvanceUnsettled(c) ==
  /\ c.job \in ScheduledAdvance(lifecycle, cycle)
  /\ P!AdvanceTime(c.job, now)
  /\ jobs' = StageOutbox(jobs, Staged)

\* The Plan moves at the database's time, its next job and notice are staged
\* and this job is completed, together.  A command that is in the Plan already
\* only completes the job.
AdvancePlan(c) ==
  /\ c.job \in ScheduledAdvance(lifecycle, cycle)
  /\ IF processed[c.job] = P!PlanCommandFingerprint("ADVANCE_TIME", 0)
       THEN UNCHANGED planVars
       ELSE P!AdvanceTime(c.job, now)
  /\ jobs' = [StageOutbox(jobs, Staged) EXCEPT ![c.job] = J!CompletedJob(@)]

\* runWorkerClaim for a scheduled advance.  Whether or not the acknowledgement
\* arrives, the worker is done with the claim: after a lost one its failure
\* report finds the job settled.
AdvanceScheduled(w, c) ==
  /\ c \in held[w] /\ ~IsNotice(c.job)
  /\ J!IsCurrentLease(jobs[c.job], c.lease, now)
  /\ RetireStaleSchedule(c) \/ AdvancePlan(c)
  /\ J!Drop(w, c)
  /\ UNCHANGED <<receipts, now, requests>>

\* runWorkerClaim for a notice, and the failure report of either kind of claim,
\* which also ends one whose lease is no longer current.
RunNotice(w, c) ==
  /\ IsNotice(c.job)
  /\ J!AcceptSyntheticSink(w, c) \/ J!Complete(w, c)
  /\ UNCHANGED <<planVars, requests>>

FailClaim(w, c) == J!Fail(w, c) /\ UNCHANGED <<planVars, requests>>

ClaimDue(w) ==
  /\ J!ClaimDueAmong(w, {id \in DOMAIN jobs : id[1] \in ClaimedKinds})
  /\ UNCHANGED <<planVars, requests>>
Crash(w) == J!Crash(w) /\ UNCHANGED <<planVars, requests>>

\* Bound: after MaxTime the clock runs only while a deadline lies ahead, and a
\* draft, which has none, is armed by DraftTime.
Tick ==
  /\ now < MaxTime \/ J!DeadlineAhead
  /\ lifecycle = "draft" => now < DraftTime
  /\ now + 1 \in Timestamps
  /\ now' = now + 1
  /\ UNCHANGED <<planVars, jobs, receipts, held, requests>>

Work(w) ==
  \E c \in held[w] : AdvanceScheduled(w, c) \/ RunNotice(w, c) \/ FailClaim(w, c)

Next ==
  \/ \E key \in ApiKeys : Submit(key) \/ Commit(key) \/ EndWithoutChange(key)
  \/ \E w \in Workers : ClaimDue(w) \/ Work(w) \/ Crash(w)
  \/ Tick

Spec == Init /\ [][Next]_vars

\* The database clock runs; a worker polls on its timer and runs its claims.
\* Nothing is assumed of the Owner, nor of a claim's success.
Fairness ==
  /\ WF_vars(Tick)
  /\ \A w \in Workers : WF_vars(ClaimDue(w)) /\ WF_vars(Work(w))
FairSpec == Spec /\ Fairness
-----------------------------------------------------------------------------
(* Properties.                                                             *)

(* Type correctness; the tables' own invariants are part of it.            *)
TypeOK ==
  /\ P!TypeOK /\ J!TypeOK
  /\ requests \in [ApiKeys -> Timestamps \cup {Idle}]

RenewalEvents == {"OWNER_CHECKED_IN", "PLAN_ARMED", "PLAN_RESUMED"}

\* The Plan was paused in the very millisecond its cycle began: the pause
\* follows a renewal of the same moment.
PausedAsItBegan ==
  \E i, j \in DOMAIN events :
    /\ i < j
    /\ events[i].type \in RenewalEvents /\ events[j].type = "PLAN_PAUSED"
    /\ events[i].at = cycle.startedAt /\ events[j].at = cycle.startedAt

(* An armed Plan short of Concern has its next move in the queue: the job  *)
(* exists and is live, or it used up its attempts.  stageOutbox takes any  *)
(* existing row of that name for a staged job, whatever its state, yet the *)
(* row is never a completed one, and it is one retired as stale in a single *)
(* case: the cycle was begun, paused and begun again at one captured time, *)
(* and the job came due before the resumption was committed.               *)
ArmedPlanIsScheduled ==
  \A id \in ScheduledAdvance(lifecycle, cycle) :
    /\ id \in DOMAIN jobs
    /\ \/ jobs[id].status \in {"pending", "leased"}
       \/ /\ jobs[id].status = "dead_letter"
          /\ jobs[id].lastFailureCode # "stale_schedule"
          /\ jobs[id].attempts = MaxAttempts
       \/ /\ jobs[id].status = "dead_letter"
          /\ jobs[id].lastFailureCode = "stale_schedule"
          /\ PausedAsItBegan /\ cycle.reminderAt <= now

(* The outbox tells exactly what happened: there is a notice job for each  *)
(* Reminder and each Concern in the history and for nothing else, under    *)
(* crashes, retries and stale workers.                                     *)
OutboxMatchesHistory ==
  {id \in DOMAIN jobs : IsNotice(id)} = Notices(events, 0)

Escalations == {i \in DOMAIN events : events[i].type \in P!EscalationEvents}

(* Plan and job settle together: an advance job is completed exactly when  *)
(* its command is in the Plan, and each one that is completed moved the    *)
(* Plan by exactly one stage; none is spent on a command that found        *)
(* nothing to do.                                                          *)
AdvanceSettledWithPlan ==
  /\ \A id \in ScheduledKeys :
       processed[id] # P!NotProcessed <=>
         id \in DOMAIN jobs /\ jobs[id].status = "completed"
  /\ Cardinality(Escalations) =
       Cardinality({id \in ScheduledKeys : processed[id] # P!NotProcessed})

(* The scheduler's command is never refused: a current claim finds a Plan  *)
(* whose last accepted command is not after the database clock and whose   *)
(* stage is over, even though Owner commands carry the API's clock.        *)
CurrentClaimAdvances ==
  \A w \in Workers : \A c \in held[w] :
    (/\ ~IsNotice(c.job)
     /\ J!IsCurrentLease(jobs[c.job], c.lease, now)
     /\ c.job \in ScheduledAdvance(lifecycle, cycle)) =>
        /\ P!Acceptable(c.job, now)
        /\ P!NextTimelineTransition(cycle, now) # {}

(* The Plan and its queue are sound together, and so are their tables: the *)
(* chain of jobs never breaks, and what it did is what the Plan says.      *)
ScheduleIsSound ==
  TypeOK /\ ArmedPlanIsScheduled /\ AdvanceSettledWithPlan /\ CurrentClaimAdvances

(* A Concern is never raised on an Owner who was there: when the Plan      *)
(* enters Concern, no Check-in, arming or resumption was accepted within   *)
(* the interval and the grace period before that moment of the database    *)
(* clock, give or take the API's clock.                                    *)
NoConcernForAPresentOwner ==
  [][(cycle.stage # "concern" /\ cycle'.stage = "concern") =>
       \A i \in DOMAIN events :
         events[i].type \in RenewalEvents =>
           events[i].at + CheckInIntervalMs + GracePeriodMs <= now]_vars

(* The timeline never stops silently: time and again the Plan is not armed *)
(* (a draft, paused or disabled), or is in Concern, or its job is in       *)
(* the dead letters for someone to see; and as the Owner's requests are    *)
(* finite here, the last renewal too is followed by one of these.  Workers *)
(* may crash, claims fail and acknowledgements be lost.                    *)
SilenceIsNoticed ==
  []<>(\/ lifecycle # "armed"
       \/ cycle.stage = "concern"
       \/ \E id \in ScheduledAdvance(lifecycle, cycle) :
            id \in DOMAIN jobs /\ jobs[id].status = "dead_letter")
=============================================================================
