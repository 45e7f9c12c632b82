------------------------- MODULE PlanScheduleProofs -------------------------
(***************************************************************************)
(* Proofs about a Plan, its work queue and the processes that share them:  *)
(* an armed Plan always has its next job, a job and the Plan settle        *)
(* together, the outbox tells what happened, and no Concern is raised on   *)
(* an Owner who was there; for every policy, every set of Owner requests,  *)
(* any number of workers and attempts, and every skew between the clocks.  *)
(*                                                                         *)
(* The Plan's own invariants and the transitions of one job come from      *)
(* PlanProofs, instantiated with this module's Plan and queue.             *)
(***************************************************************************)
EXTENDS PlanSchedule, FiniteSetTheorems, TLAPS

PP == INSTANCE PlanProofs WITH
        Keys     <- ApiKeys \cup ScheduledKeys,
        JobIds   <- ScheduledKeys \cup NoticeIds,
        Contents <- {"advance_plan_stage", "synthetic_notice"},
        DueTimes <- Timestamps,
        \* The application and its store play no part here.
        Requests <- {}, RequestOf <- <<>>, Lifecycle <- {}, ScheduledIntent <- 0,
        Sessions <- {}, OwnerOf <- <<>>, PlanOwner <- 0, SessionMs <- 0,
        RecentMs <- 0, Statements <- FALSE, MaxArrivals <- 0, MaxExports <- 0,
        None <- 0, plan <- 0, commands <- 0, audit <- 0, sessions <- 0, log <- 0,
        export <- 0, snapshot <- 0, restored <- 0, clock <- 0, arrivals <- 0,
        exports <- 0

(* The numbers of the policy and of the queue.                             *)
LEMMA Numbers ==
  /\ CheckInIntervalMs \in Nat /\ ReminderLeadMs \in Nat /\ GracePeriodMs \in Nat
  /\ MaxSafe \in Nat
  /\ 0 < ReminderLeadMs /\ ReminderLeadMs < CheckInIntervalMs /\ 0 < GracePeriodMs
  /\ MaxAttempts \in Nat \ {0} /\ LeaseMs \in Nat \ {0} /\ RetryMs \in Nat \ {0}
  /\ ClockSkews \subseteq Int /\ Timestamps \subseteq Nat
BY ScheduleAssumption DEF P!PolicyAssumption, J!QueueAssumption, Timestamps

(* What the instantiated modules assume holds here.                        *)
LEMMA Assumptions == PP!P!PolicyAssumption /\ PP!QueueAssumption
BY ScheduleAssumption
   DEF P!PolicyAssumption, PP!P!PolicyAssumption, J!QueueAssumption, PP!QueueAssumption

-----------------------------------------------------------------------------
(* Two names of one thing: the Plan and the queue as PlanSchedule sees     *)
(* them, and as the modules of their proofs do.                            *)

LEMMA SamePlan ==
  /\ P!TypeOK <=> PP!P!TypeOK
  /\ P!NotProcessed = PP!P!NotProcessed /\ P!EscalationEvents = PP!P!EscalationEvents
  /\ P!Init <=> PP!P!Init
BY DEF P!TypeOK, P!Lifecycles, P!Timestamps, P!Cycles, P!Stages, P!Fingerprints,
       P!LifecycleCommands, P!NotProcessed, P!EventTypes, P!EscalationEvents,
       P!Init, P!CycleFits, P!CreateCycle, P!Event,
       PP!P!TypeOK, PP!P!Lifecycles, PP!P!Timestamps, PP!P!Cycles, PP!P!Stages, PP!P!Fingerprints,
       PP!P!LifecycleCommands, PP!P!NotProcessed, PP!P!EventTypes, PP!P!EscalationEvents,
       PP!P!Init, PP!P!CycleFits, PP!P!CreateCycle, PP!P!Event

LEMMA SameQueue ==
  /\ J!Jobs = PP!Jobs
  /\ \A job : J!ValidJob(job) <=> PP!ValidJob(job)
  /\ \A job : J!ClaimedJob(job) = PP!ClaimedJob(job)
  /\ \A job, at : J!IsDue(job, at) <=> PP!IsDue(job, at)
  /\ \A job : J!CompletedJob(job) = PP!CompletedJob(job)
  /\ \A job, at, n : J!FailedJob(job, at, n) = PP!FailedJob(job, at, n)
  /\ \A intent : J!CreatePendingJob(intent) = PP!CreatePendingJob(intent)
  /\ J!Intents = PP!Intents
BY DEF J!Jobs, J!Intents, J!Statuses, J!FailureCodes, J!ValidJob, J!NoLease, J!Forever,
       J!ClaimedJob, J!IsExhausted, J!DeadLetterJob, J!LeasedJob, J!Unleased, J!IsDue,
       J!CompletedJob, J!FailedJob, J!CreatePendingJob,
       PP!Jobs, PP!Intents, PP!Statuses, PP!FailureCodes, PP!ValidJob, PP!NoLease, PP!Forever,
       PP!ClaimedJob, PP!IsExhausted, PP!DeadLetterJob, PP!LeasedJob, PP!Unleased, PP!IsDue,
       PP!CompletedJob, PP!FailedJob, PP!CreatePendingJob

-----------------------------------------------------------------------------
(* Names of jobs.                                                          *)

LEMMA KeyFacts ==
  /\ \A id \in ScheduledKeys : ~IsNotice(id) /\ id[4] \in Timestamps /\ id[2] \in Nat
  /\ \A id \in NoticeIds : IsNotice(id) /\ id[4] \in Timestamps
<1>1. ASSUME NEW id \in ScheduledKeys
      PROVE  ~IsNotice(id) /\ id[4] \in Timestamps /\ id[2] \in Nat
  BY Numbers DEF ScheduledKeys, AdvanceId, IsNotice, Timestamps
<1>2. ASSUME NEW id \in NoticeIds PROVE IsNotice(id) /\ id[4] \in Timestamps
  BY DEF NoticeIds, IsNotice
<1> QED
  BY <1>1, <1>2

(* Every job that is named can be created.                                 *)
LEMMA NamedJobs ==
  ASSUME NEW id \in ScheduledKeys \cup NoticeIds
  PROVE  /\ J!CreatePendingJob(IntentOf(id)) \in J!Jobs
         /\ J!ValidJob(J!CreatePendingJob(IntentOf(id)))
         /\ J!CreatePendingJob(IntentOf(id)).status = "pending"
         /\ J!CreatePendingJob(IntentOf(id)).availableAt = id[4]
<1>1. IntentOf(id) \in PP!Intents /\ IntentOf(id).dueAt = id[4]
  BY KeyFacts DEF IntentOf, PP!Intents
<1>2. /\ PP!CreatePendingJob(IntentOf(id)) \in PP!Jobs
      /\ PP!ValidJob(PP!CreatePendingJob(IntentOf(id)))
      /\ PP!CreatePendingJob(IntentOf(id)).status = "pending"
  BY <1>1, Assumptions, PP!CreatePendingJobValid
<1>3. J!CreatePendingJob(IntentOf(id)).availableAt = id[4]
  BY <1>1 DEF J!CreatePendingJob
<1> QED
  BY <1>2, <1>3, SameQueue

(* The deadlines of a cycle follow from its start.                         *)
FitsPolicy(c) ==
  /\ c \in PP!P!Cycles
  /\ c.reminderAt = c.startedAt + CheckInIntervalMs - ReminderLeadMs
  /\ c.dueAt = c.startedAt + CheckInIntervalMs
  /\ c.concernAt = c.startedAt + CheckInIntervalMs + GracePeriodMs

(* The one job an armed Plan wants is named by the cycle, the stage and    *)
(* the time the stage ends.                                                *)
LEMMA Wanted ==
  ASSUME NEW life, NEW c, FitsPolicy(c), NEW id \in ScheduledAdvance(life, c)
  PROVE  /\ id \in ScheduledKeys
         /\ life = "armed" /\ c.stage \in {"on_time", "reminder", "overdue"}
         /\ id[2] = c.startedAt /\ id[3] = c.stage
         /\ id[4] = NextScheduleAt(c) /\ c.startedAt < id[4]
         /\ ScheduledAdvance(life, c) = {id}
<1>1. /\ life = "armed" /\ c.stage # "concern"
      /\ id = AdvanceId(c.startedAt, c.stage, NextScheduleAt(c))
      /\ ScheduledAdvance(life, c) = {id}
  BY DEF ScheduledAdvance
<1>2. /\ c.stage \in {"on_time", "reminder", "overdue"}
      /\ c.startedAt \in 0..MaxSafe /\ c.concernAt \in 0..MaxSafe
  BY <1>1 DEF FitsPolicy, PP!P!Cycles, PP!P!Stages, PP!P!Timestamps
<1>3. c.startedAt \in 0..(MaxSafe - CheckInIntervalMs - GracePeriodMs)
  BY <1>2, Numbers DEF FitsPolicy
<1>4. id \in ScheduledKeys
  BY <1>1, <1>2, <1>3 DEF ScheduledKeys, NextScheduleAt, FitsPolicy
<1>5. c.startedAt < NextScheduleAt(c)
  BY <1>2, Numbers DEF NextScheduleAt, FitsPolicy
<1> QED
  BY <1>1, <1>2, <1>4, <1>5 DEF AdvanceId

LEMMA PlanTypes ==
  ASSUME PP!P!TypeOK
  PROVE  cycle.startedAt \in Nat /\ cycle.concernAt \in Nat /\ lastCommandAt \in Nat
<1>1. cycle \in PP!P!Cycles /\ lastCommandAt \in PP!P!Timestamps
  BY DEF PP!P!TypeOK
<1>2. PP!P!Timestamps \subseteq Nat
  BY Numbers DEF PP!P!Timestamps, Timestamps
<1> QED
  BY <1>1, <1>2 DEF PP!P!Cycles

LEMMA NextPolicyFits ==
  ASSUME PP!P!TypeOK', PP!P!TimelineConsistent'
  PROVE  FitsPolicy(cycle')
<1>1. cycle' \in PP!P!Cycles
  BY DEF PP!P!TypeOK
<1>2. cycle'.startedAt \in Nat
  BY <1>1, Numbers DEF PP!P!Cycles, PP!P!Timestamps
<1>3. /\ cycle'.reminderAt = cycle'.startedAt + (CheckInIntervalMs - ReminderLeadMs)
      /\ cycle'.dueAt = cycle'.startedAt + CheckInIntervalMs
      /\ cycle'.concernAt = cycle'.startedAt + (CheckInIntervalMs + GracePeriodMs)
  BY DEF PP!P!TimelineConsistent, PP!P!DelayOf
<1> QED
  BY <1>1, <1>2, <1>3, Numbers DEF FitsPolicy

LEMMA PolicyFits ==
  ASSUME PP!P!TypeOK, PP!P!TimelineConsistent
  PROVE  FitsPolicy(cycle)
BY Numbers DEF PP!P!TypeOK, PP!P!Cycles, PP!P!Timestamps, PP!P!TimelineConsistent, PP!P!DelayOf,
               FitsPolicy

-----------------------------------------------------------------------------
(* The invariant.                                                          *)

(* The rows of the queue: each is the job its name stands for, can be      *)
(* read, and has not been touched before it was due.                       *)
JobsFit ==
  \A id \in DOMAIN jobs :
    /\ id \in ScheduledKeys \cup NoticeIds
    /\ jobs[id] \in J!Jobs /\ J!ValidJob(jobs[id]) /\ jobs[id].intent = IntentOf(id)
    /\ jobs[id] = J!CreatePendingJob(IntentOf(id)) \/ id[4] <= now

Rank == [on_time |-> 0, reminder |-> 1, overdue |-> 2, concern |-> 3]

(* No advance is in the queue for a stage the Plan has not reached.        *)
NoneAhead ==
  \A id \in DOMAIN jobs : ~IsNotice(id) =>
    /\ id[2] <= cycle.startedAt
    /\ id[2] = cycle.startedAt => Rank[id[3]] <= Rank[cycle.stage]

(* Only the command that began an armed Plan's cycle may carry a time      *)
(* later than the database clock.                                          *)
ClockKept ==
  lifecycle = "armed" => lastCommandAt = cycle.startedAt \/ lastCommandAt <= now

(* Every renewal of the past is no later than the current cycle's start.   *)
RenewalsArePast ==
  \A i \in DOMAIN events : events[i].type \in RenewalEvents =>
    events[i].at <= cycle.startedAt

\* The scheduled advances that took effect.
Moved == {id \in ScheduledKeys : processed[id] # P!NotProcessed}

(* A scheduled advance that took effect in this cycle left a stage that is *)
(* behind.                                                                 *)
SpentIsBehind ==
  \A id \in Moved : id[2] = cycle.startedAt => Rank[id[3]] < Rank[cycle.stage]

RenewedAt(i, at) == events[i].type \in RenewalEvents /\ events[i].at = at

(* What the history says of the cycle: a draft has scheduled nothing, an   *)
(* armed Plan's cycle was begun by a renewal, and a paused one was paused  *)
(* after its cycle had begun.                                              *)
CycleHasBegun ==
  /\ lifecycle = "draft" => \A id \in DOMAIN jobs : IsNotice(id)
  /\ lifecycle = "armed" => \E i \in DOMAIN events : RenewedAt(i, cycle.startedAt)
  /\ lifecycle = "paused" =>
       \E i, j \in DOMAIN events :
         /\ i < j /\ RenewedAt(i, cycle.startedAt)
         /\ events[j].type = "PLAN_PAUSED"
         /\ cycle.startedAt <= events[j].at /\ events[j].at <= lastCommandAt

PlanInv == PP!P!TypeOK /\ PP!P!TimelineConsistent

(* Types of the queue's tables beside the rows, and of the requests.       *)
TableTypes ==
  /\ jobs \in [DOMAIN jobs -> J!Jobs]
  /\ DOMAIN receipts \subseteq DOMAIN jobs
  /\ receipts \in [DOMAIN receipts -> {"advance_plan_stage", "synthetic_notice"}]
  /\ held \in [Workers -> SUBSET J!Claims]
  /\ \A w \in Workers : \A c \in held[w] : c.job \in DOMAIN jobs
  /\ now \in Timestamps
  /\ requests \in [ApiKeys -> Timestamps \cup {Idle}]

(* The inductive invariant.  The next job of a Plan is a new row, because  *)
(* a stage is entered once in a cycle (NoneAhead), unless a renewal came   *)
(* at the captured time of the one before it.  Then the row has not been   *)
(* completed (SpentIsBehind); and if it was retired as stale, the Plan was *)
(* paused meanwhile, at that same time (CycleHasBegun), for the accepted   *)
(* times never go back.                                                    *)
IInv ==
  /\ PlanInv /\ TableTypes /\ JobsFit /\ NoneAhead /\ ClockKept
  /\ ArmedPlanIsScheduled /\ AdvanceSettledWithPlan /\ IsFiniteSet(Moved)
  /\ OutboxMatchesHistory /\ RenewalsArePast /\ SpentIsBehind /\ CycleHasBegun

-----------------------------------------------------------------------------
(* The transitions of one job.                                             *)

(* What the queue may make of a job without the Plan.                      *)
Moves(next, job, id) ==
  /\ next \in J!Jobs /\ J!ValidJob(next) /\ next.intent = job.intent
  /\ job.status \in {"pending", "leased"}
  /\ next.status = "completed" => IsNotice(id)
  /\ next.status = "dead_letter" /\ next.lastFailureCode = "stale_schedule" =>
       id \notin ScheduledAdvance(lifecycle, cycle)

LEMMA ClaimMoves ==
  ASSUME NEW id, NEW job \in J!Jobs, J!ValidJob(job), J!IsDue(job, now), now \in Nat
  PROVE  Moves(J!ClaimedJob(job), job, id)
<1>1. /\ PP!ClaimedJob(job) \in PP!Jobs /\ PP!ValidJob(PP!ClaimedJob(job))
      /\ PP!Succeeds(PP!ClaimedJob(job), job)
      /\ PP!ClaimedJob(job).status = "leased" \/ PP!ClaimedJob(job).status = "dead_letter"
  BY SameQueue, Assumptions, PP!ClaimedJobValid
<1>2. job.status \in {"pending", "leased"}
  BY DEF J!IsDue
<1>3. J!ClaimedJob(job).status = "dead_letter" =>
        J!ClaimedJob(job).lastFailureCode = "lease_expired"
  BY DEF J!ClaimedJob, J!DeadLetterJob, J!LeasedJob, J!Unleased, J!Jobs
<1> QED
  BY <1>1, <1>2, <1>3, SameQueue DEF Moves, PP!Succeeds

LEMMA CompleteMoves ==
  ASSUME NEW id, NEW job \in J!Jobs, J!ValidJob(job), job.status = "leased"
  PROVE  /\ J!CompletedJob(job) \in J!Jobs /\ J!ValidJob(J!CompletedJob(job))
         /\ J!CompletedJob(job).intent = job.intent
         /\ J!CompletedJob(job).status = "completed"
         /\ IsNotice(id) => Moves(J!CompletedJob(job), job, id)
<1>1. /\ PP!CompletedJob(job) \in PP!Jobs /\ PP!ValidJob(PP!CompletedJob(job))
      /\ PP!Succeeds(PP!CompletedJob(job), job)
  BY SameQueue, Assumptions, PP!CompletedJobValid
<1>2. J!CompletedJob(job).status = "completed"
  BY DEF J!CompletedJob, J!Unleased, J!Jobs
<1> QED
  BY <1>1, <1>2, SameQueue DEF Moves, PP!Succeeds

LEMMA FailMoves ==
  ASSUME NEW id, NEW job \in J!Jobs, J!ValidJob(job), job.status = "leased",
         NEW retryAt \in Int
  PROVE  Moves(J!FailedJob(job, retryAt, MaxAttempts), job, id)
<1>1. /\ PP!FailedJob(job, retryAt, MaxAttempts) \in PP!Jobs
      /\ PP!ValidJob(PP!FailedJob(job, retryAt, MaxAttempts))
      /\ PP!Succeeds(PP!FailedJob(job, retryAt, MaxAttempts), job)
      /\ PP!FailedJob(job, retryAt, MaxAttempts).status # "completed"
  BY SameQueue, Assumptions, PP!FailedJobValid
<1>2. J!FailedJob(job, retryAt, MaxAttempts).lastFailureCode = "retryable"
  BY DEF J!FailedJob, J!DeadLetterJob, J!Unleased, J!Jobs
<1> QED
  BY <1>1, <1>2, SameQueue DEF Moves, PP!Succeeds

LEMMA RetireMoves ==
  ASSUME NEW id, NEW job \in J!Jobs, J!ValidJob(job), job.status = "leased",
         id \notin ScheduledAdvance(lifecycle, cycle)
  PROVE  Moves(J!DeadLetterJob(job, "stale_schedule"), job, id)
<1> PICK next : next = J!DeadLetterJob(job, "stale_schedule")
  OBVIOUS
<1>1. next \in J!Jobs
  <2>1. J!NoLease \in Nat /\ J!Forever \in Int
    BY DEF J!NoLease, J!Forever
  <2> QED
    BY <2>1 DEF J!DeadLetterJob, J!Unleased, J!Jobs, J!Statuses, J!FailureCodes
<1>2. /\ next.status = "dead_letter" /\ next.lastFailureCode = "stale_schedule"
      /\ next.intent = job.intent /\ next.attempts = job.attempts
      /\ next.leaseVersion = job.leaseVersion /\ next.leaseId = J!NoLease
  BY DEF J!DeadLetterJob, J!Unleased, J!Jobs
<1>3. J!ValidJob(next)
  BY <1>2 DEF J!ValidJob
<1> QED
  BY <1>1, <1>2, <1>3 DEF Moves

-----------------------------------------------------------------------------
(* Steps of the queue alone.                                               *)

(* Some due jobs move and no other changes.                                *)
QueueStep ==
  /\ UNCHANGED planVars
  /\ DOMAIN jobs' = DOMAIN jobs
  /\ jobs' \in [DOMAIN jobs -> J!Jobs]
  /\ \A id \in DOMAIN jobs :
       jobs'[id] = jobs[id] \/ (Moves(jobs'[id], jobs[id], id) /\ id[4] <= now)
  /\ now' \in Nat /\ now <= now'

(* A job that is leased, or due to be claimed, has come to its time.       *)
LEMMA TouchedIsDue ==
  ASSUME JobsFit, NEW id \in DOMAIN jobs,
         J!IsDue(jobs[id], now) \/ jobs[id].status = "leased"
  PROVE  id[4] <= now
<1>1. CASE jobs[id] = J!CreatePendingJob(IntentOf(id))
  <2>1. id \in ScheduledKeys \cup NoticeIds
    BY DEF JobsFit
  <2>2. jobs[id].status = "pending" /\ jobs[id].availableAt = id[4]
    BY <1>1, <2>1, NamedJobs
  <2> QED
    BY <2>2 DEF J!IsDue
<1> QED
  BY <1>1 DEF JobsFit

LEMMA OneMoves ==
  ASSUME IInv, NEW id \in DOMAIN jobs, jobs[id].status = "leased", NEW next,
         Moves(next, jobs[id], id), jobs' = [jobs EXCEPT ![id] = next],
         UNCHANGED planVars, UNCHANGED now
  PROVE  QueueStep
<1>1. id[4] <= now /\ next \in J!Jobs /\ now \in Nat /\ jobs \in [DOMAIN jobs -> J!Jobs]
  BY TouchedIsDue DEF IInv, Moves, TableTypes, Timestamps
<1> QED
  BY <1>1 DEF QueueStep

LEMMA NoneMoves ==
  ASSUME IInv, UNCHANGED planVars, UNCHANGED jobs, now' \in Nat, now <= now'
  PROVE  QueueStep
BY DEF QueueStep, IInv, TableTypes, Timestamps

LEMMA ClaimIsQueueStep ==
  ASSUME IInv, NEW w \in Workers, ClaimDue(w)
  PROVE  QueueStep
<1>1. PICK chosen \in SUBSET {j \in DOMAIN jobs : J!IsDue(jobs[j], now)} :
        jobs' = [j \in DOMAIN jobs |->
                   IF j \in chosen THEN J!ClaimedJob(jobs[j]) ELSE jobs[j]]
  BY DEF ClaimDue, J!ClaimDueAmong, J!FirstDue
<1>2. UNCHANGED planVars /\ UNCHANGED now /\ now \in Nat
  BY DEF ClaimDue, J!ClaimDueAmong, IInv, TableTypes, Timestamps
<1>3. \A id \in DOMAIN jobs : jobs[id] \in J!Jobs /\ J!ValidJob(jobs[id])
  BY DEF IInv, JobsFit
<1>4. \A id \in chosen : Moves(J!ClaimedJob(jobs[id]), jobs[id], id) /\ id[4] <= now
  BY <1>2, <1>3, ClaimMoves, TouchedIsDue DEF IInv
<1>5. \A id \in DOMAIN jobs :
        jobs'[id] = jobs[id] \/ (Moves(jobs'[id], jobs[id], id) /\ id[4] <= now)
  BY <1>1, <1>4
<1>6. \A id \in DOMAIN jobs : jobs'[id] \in J!Jobs
  BY <1>3, <1>5 DEF Moves
<1>7. jobs' \in [DOMAIN jobs -> J!Jobs]
  BY <1>1, <1>6
<1> QED
  BY <1>1, <1>2, <1>5, <1>7 DEF QueueStep

LEMMA NoticeIsQueueStep ==
  ASSUME IInv, NEW w \in Workers, NEW c \in held[w], RunNotice(w, c)
  PROVE  QueueStep
<1>1. /\ c.job \in DOMAIN jobs /\ jobs[c.job] \in J!Jobs /\ J!ValidJob(jobs[c.job])
      /\ now \in Nat
  BY DEF IInv, TableTypes, JobsFit, Timestamps
<1>2. IsNotice(c.job) /\ UNCHANGED planVars /\ UNCHANGED now
  BY DEF RunNotice, J!AcceptSyntheticSink, J!Complete
<1>3. CASE UNCHANGED jobs
  BY <1>1, <1>2, <1>3, NoneMoves
<1>4. CASE /\ jobs[c.job].status = "leased"
           /\ jobs' = [jobs EXCEPT ![c.job] = J!CompletedJob(jobs[c.job])]
  BY <1>1, <1>2, <1>4, CompleteMoves, OneMoves
<1> QED
  BY <1>3, <1>4 DEF RunNotice, J!AcceptSyntheticSink, J!Complete, J!IsCurrentLease

LEMMA FailIsQueueStep ==
  ASSUME IInv, NEW w \in Workers, NEW c \in held[w], FailClaim(w, c)
  PROVE  QueueStep
<1>1. /\ c.job \in DOMAIN jobs /\ jobs[c.job] \in J!Jobs /\ J!ValidJob(jobs[c.job])
      /\ now \in Nat
  BY DEF IInv, TableTypes, JobsFit, Timestamps
<1>2. UNCHANGED planVars /\ UNCHANGED now
  BY DEF FailClaim, J!Fail
<1>3. PICK skew \in ClockSkews :
        jobs' = IF J!IsCurrentLease(jobs[c.job], c.lease, now)
                THEN [jobs EXCEPT ![c.job] =
                        J!FailedJob(jobs[c.job], now + skew + RetryMs, MaxAttempts)]
                ELSE jobs
  BY DEF FailClaim, J!Fail
<1>4. CASE J!IsCurrentLease(jobs[c.job], c.lease, now)
  <2>1. jobs[c.job].status = "leased"
    BY <1>4 DEF J!IsCurrentLease
  <2>2. now + skew + RetryMs \in Int
    BY <1>1, Numbers
  <2> QED
    BY <1>1, <1>2, <1>3, <1>4, <2>1, <2>2, FailMoves, OneMoves
<1>5. CASE ~J!IsCurrentLease(jobs[c.job], c.lease, now)
  BY <1>1, <1>2, <1>3, <1>5, NoneMoves
<1> QED
  BY <1>4, <1>5

LEMMA RetireIsQueueStep ==
  ASSUME IInv, NEW w \in Workers, NEW c \in held[w], AdvanceScheduled(w, c),
         RetireStaleSchedule(c)
  PROVE  QueueStep
<1>1. /\ c.job \in DOMAIN jobs /\ jobs[c.job] \in J!Jobs /\ J!ValidJob(jobs[c.job])
      /\ jobs[c.job].status = "leased" /\ UNCHANGED now
      /\ c.job \notin ScheduledAdvance(lifecycle, cycle) /\ UNCHANGED planVars
      /\ jobs' = [jobs EXCEPT ![c.job] = J!DeadLetterJob(jobs[c.job], "stale_schedule")]
  BY DEF IInv, TableTypes, JobsFit, AdvanceScheduled, RetireStaleSchedule, J!IsCurrentLease
<1> QED
  BY <1>1, RetireMoves, OneMoves

(* What a step of the queue keeps.                                         *)
LEMMA QueueStepKeeps ==
  ASSUME IInv, QueueStep
  PROVE  /\ PlanInv' /\ JobsFit' /\ NoneAhead' /\ ClockKept' /\ ArmedPlanIsScheduled'
         /\ AdvanceSettledWithPlan' /\ IsFiniteSet(Moved)' /\ OutboxMatchesHistory'
         /\ RenewalsArePast' /\ SpentIsBehind' /\ CycleHasBegun'
<1> USE DEF IInv
<1>1. /\ lifecycle' = lifecycle /\ hasRehearsed' = hasRehearsed
      /\ lastCommandAt' = lastCommandAt /\ cycle' = cycle /\ processed' = processed
      /\ events' = events
      /\ DOMAIN jobs' = DOMAIN jobs /\ now \in Nat /\ now' \in Nat /\ now <= now'
  BY DEF QueueStep, planVars, TableTypes, Timestamps
<1>2. \A id \in DOMAIN jobs :
        jobs'[id] = jobs[id] \/ (Moves(jobs'[id], jobs[id], id) /\ id[4] <= now)
  BY DEF QueueStep
<1>3. \A id \in DOMAIN jobs :
        /\ id \in ScheduledKeys \cup NoticeIds /\ id[4] \in Nat
        /\ jobs[id] \in J!Jobs /\ J!ValidJob(jobs[id]) /\ jobs[id].intent = IntentOf(id)
        /\ jobs[id] = J!CreatePendingJob(IntentOf(id)) \/ id[4] <= now
  BY KeyFacts DEF JobsFit, Timestamps
<1>4. PlanInv'
  BY <1>1 DEF PlanInv, PP!P!TypeOK, PP!P!TimelineConsistent, PP!P!StageFloor
<1>5. JobsFit'
  <2> SUFFICES ASSUME NEW id \in DOMAIN jobs
               PROVE  /\ id \in ScheduledKeys \cup NoticeIds
                      /\ jobs'[id] \in J!Jobs /\ J!ValidJob(jobs'[id])
                      /\ jobs'[id].intent = IntentOf(id)
                      /\ jobs'[id] = J!CreatePendingJob(IntentOf(id)) \/ id[4] <= now'
    BY <1>1 DEF JobsFit, J!ValidJob
  <2>1. CASE jobs'[id] = jobs[id]
    BY <1>1, <1>3, <2>1
  <2>2. CASE Moves(jobs'[id], jobs[id], id) /\ id[4] <= now
    BY <1>1, <1>3, <2>2 DEF Moves
  <2> QED
    BY <1>2, <2>1, <2>2
<1>6. NoneAhead' /\ ClockKept' /\ RenewalsArePast' /\ OutboxMatchesHistory'
  <2>1. lastCommandAt \in Nat
    BY DEF PlanInv, PP!P!TypeOK, PP!P!Timestamps
  <2> QED
    BY <1>1, <2>1 DEF NoneAhead, ClockKept, RenewalsArePast, OutboxMatchesHistory, Notices
<1>7. ArmedPlanIsScheduled'
  <2>0. /\ ScheduledAdvance(lifecycle', cycle') = ScheduledAdvance(lifecycle, cycle)
        /\ PausedAsItBegan' <=> PausedAsItBegan
        /\ cycle.reminderAt <= now => cycle'.reminderAt <= now'
    <3>1. cycle.reminderAt \in Nat
      BY Numbers DEF PlanInv, PP!P!TypeOK, PP!P!Cycles, PP!P!Timestamps
    <3> QED
      BY <1>1, <3>1 DEF ScheduledAdvance, NextScheduleAt, PausedAsItBegan, RenewalEvents
  <2> SUFFICES ASSUME NEW id \in ScheduledAdvance(lifecycle, cycle)
               PROVE  /\ id \in DOMAIN jobs
                      /\ \/ jobs'[id].status \in {"pending", "leased"}
                         \/ /\ jobs'[id].status = "dead_letter"
                            /\ jobs'[id].lastFailureCode # "stale_schedule"
                            /\ jobs'[id].attempts = MaxAttempts
                         \/ /\ jobs'[id].status = "dead_letter"
                            /\ jobs'[id].lastFailureCode = "stale_schedule"
                            /\ PausedAsItBegan /\ cycle.reminderAt <= now
    BY <1>1, <2>0 DEF ArmedPlanIsScheduled
  <2>1. /\ id \in DOMAIN jobs
        /\ \/ jobs[id].status \in {"pending", "leased"}
           \/ /\ jobs[id].status = "dead_letter"
              /\ jobs[id].lastFailureCode # "stale_schedule"
              /\ jobs[id].attempts = MaxAttempts
           \/ /\ jobs[id].status = "dead_letter"
              /\ jobs[id].lastFailureCode = "stale_schedule"
              /\ PausedAsItBegan /\ cycle.reminderAt <= now
    BY DEF ArmedPlanIsScheduled
  <2>2. CASE Moves(jobs'[id], jobs[id], id)
    <3>1. ~IsNotice(id)
      BY Wanted, PolicyFits, KeyFacts DEF IInv, PlanInv
    <3>2. /\ jobs'[id] \in J!Jobs /\ J!ValidJob(jobs'[id]) /\ jobs'[id].status # "completed"
          /\ jobs'[id].status = "dead_letter" =>
               jobs'[id].lastFailureCode # "stale_schedule"
      BY <2>2, <3>1 DEF Moves
    <3>3. jobs'[id].status \in {"pending", "leased", "completed", "dead_letter"}
      BY <3>2 DEF J!Jobs, J!Statuses
    <3>4. jobs'[id].status = "dead_letter" => jobs'[id].attempts = MaxAttempts
      BY <3>2 DEF J!ValidJob
    <3> QED
      BY <2>1, <3>2, <3>3, <3>4
  <2> QED
    BY <1>2, <2>1, <2>2
<1>8. AdvanceSettledWithPlan' /\ IsFiniteSet(Moved)'
  <2>1. ASSUME NEW id \in ScheduledKeys
        PROVE  id \in DOMAIN jobs /\ jobs[id].status = "completed" <=>
                 id \in DOMAIN jobs' /\ jobs'[id].status = "completed"
    <3>1. ~IsNotice(id)
      BY KeyFacts
    <3> QED
      BY <1>1, <1>2, <3>1 DEF Moves
  <2>2. P!NotProcessed' = P!NotProcessed
    BY DEF P!NotProcessed
  <2> QED
    BY <1>1, <2>1, <2>2 DEF AdvanceSettledWithPlan, Escalations, Moved, P!EscalationEvents
<1>9. SpentIsBehind' /\ CycleHasBegun'
  BY <1>1 DEF SpentIsBehind, Moved, P!NotProcessed, CycleHasBegun, RenewedAt, RenewalEvents
<1> QED
  BY <1>4, <1>5, <1>6, <1>7, <1>8, <1>9

-----------------------------------------------------------------------------
(* The tables beside the rows.                                             *)

(* The types hold after any step that adds rows and types them.            *)
LEMMA TableStep ==
  ASSUME IInv, Next, jobs' \in [DOMAIN jobs' -> J!Jobs], DOMAIN jobs \subseteq DOMAIN jobs'
  PROVE  TableTypes'
<1>1. /\ DOMAIN receipts \subseteq DOMAIN jobs
      /\ receipts \in [DOMAIN receipts -> {"advance_plan_stage", "synthetic_notice"}]
      /\ held \in [Workers -> SUBSET J!Claims]
      /\ \A w \in Workers : \A c \in held[w] : c.job \in DOMAIN jobs
      /\ now \in Timestamps
      /\ requests \in [ApiKeys -> Timestamps \cup {Idle}]
      /\ jobs \in [DOMAIN jobs -> J!Jobs]
  BY DEF IInv, TableTypes
<1>2. now' \in Timestamps /\ requests' \in [ApiKeys -> Timestamps \cup {Idle}]
  BY <1>1 DEF Next, Submit, Commit, EndWithoutChange, ClaimDue, J!ClaimDueAmong, Work,
              AdvanceScheduled, RunNotice, J!AcceptSyntheticSink, J!Complete, FailClaim,
              J!Fail, Crash, J!Crash, Tick, queueVars
<1>3. /\ DOMAIN receipts' \subseteq DOMAIN jobs
      /\ receipts' \in [DOMAIN receipts' -> {"advance_plan_stage", "synthetic_notice"}]
  <2>1. CASE UNCHANGED receipts
    BY <1>1, <2>1
  <2>2. CASE \E w \in Workers : \E c \in held[w] : J!AcceptSyntheticSink(w, c)
    <3>0. PICK w \in Workers : \E c \in held[w] : J!AcceptSyntheticSink(w, c)
      BY <2>2
    <3>1. PICK c \in held[w] : J!AcceptSyntheticSink(w, c)
      BY <3>0
    <3> PICK digest : digest = jobs[c.job].intent.content
      OBVIOUS
    <3>2. digest \in {"advance_plan_stage", "synthetic_notice"} /\ c.job \in DOMAIN jobs
      BY <1>1 DEF J!Jobs, J!Intents
    <3>3. receipts' = [j \in DOMAIN receipts \cup {c.job} |->
                         IF j = c.job THEN digest ELSE receipts[j]]
      BY <3>1 DEF J!AcceptSyntheticSink
    <3> QED
      BY <1>1, <3>2, <3>3
  <2> QED
    BY <2>1, <2>2
       DEF Next, Submit, Commit, EndWithoutChange, ClaimDue, J!ClaimDueAmong, Work,
           AdvanceScheduled, RunNotice, J!AcceptSyntheticSink, J!Complete, FailClaim,
           J!Fail, Crash, J!Crash, Tick, queueVars
<1>4. /\ held' \in [Workers -> SUBSET J!Claims]
      /\ \A w \in Workers : \A c \in held'[w] : c.job \in DOMAIN jobs
  <2>1. CASE UNCHANGED held
    BY <1>1, <2>1
  <2>2. ASSUME NEW w \in Workers, NEW claims \in SUBSET J!Claims,
               \A c \in claims : c.job \in DOMAIN jobs,
               held' = [held EXCEPT ![w] = claims]
        PROVE  /\ held' \in [Workers -> SUBSET J!Claims]
               /\ \A v \in Workers : \A c \in held'[v] : c.job \in DOMAIN jobs
    BY <1>1, <2>2
  <2>3. CASE \E w \in Workers : J!Crash(w)
    BY <2>2, <2>3 DEF J!Crash
  <2>4. CASE \E w \in Workers : \E c \in held[w] : J!Drop(w, c)
    <3>0. PICK w \in Workers : \E c \in held[w] : J!Drop(w, c)
      BY <2>4
    <3>1. PICK c \in held[w] : J!Drop(w, c)
      BY <3>0
    <3>2. /\ held' = [held EXCEPT ![w] = held[w] \ {c}]
          /\ held[w] \ {c} \in SUBSET J!Claims
          /\ \A d \in held[w] \ {c} : d.job \in DOMAIN jobs
      BY <1>1, <3>1 DEF J!Drop
    <3> QED
      BY <2>2, <3>2
  <2>5. CASE \E w \in Workers : \E c \in held[w] : J!AcceptSyntheticSink(w, c)
    <3>0. PICK w \in Workers : \E c \in held[w] : J!AcceptSyntheticSink(w, c)
      BY <2>5
    <3>1. PICK c \in held[w] :
            held' = [held EXCEPT ![w] = (@ \ {c}) \cup {[c EXCEPT !.accepted = TRUE]}]
      BY <3>0 DEF J!AcceptSyntheticSink
    <3>2. c \in J!Claims /\ c.job \in DOMAIN jobs
      BY <1>1, <3>1
    <3>3. [c EXCEPT !.accepted = TRUE] \in J!Claims
          /\ [c EXCEPT !.accepted = TRUE].job = c.job
      BY <3>2 DEF J!Claims
    <3> PICK claims : claims = (held[w] \ {c}) \cup {[c EXCEPT !.accepted = TRUE]}
      OBVIOUS
    <3>4. /\ held' = [held EXCEPT ![w] = claims]
          /\ claims \in SUBSET J!Claims /\ \A d \in claims : d.job \in DOMAIN jobs
      BY <1>1, <3>1, <3>2, <3>3
    <3> QED
      BY <2>2, <3>4
  <2>6. CASE \E w \in Workers : ClaimDue(w)
    <3>1. PICK w \in Workers : ClaimDue(w)
      BY <2>6
    <3>2. PICK chosen \in SUBSET DOMAIN jobs :
            \/ held' = [held EXCEPT ![w] =
                          {[job |-> j, lease |-> jobs'[j].leaseId, accepted |-> FALSE] :
                             j \in {k \in chosen : jobs'[k].status = "leased"}}]
            \/ UNCHANGED held
      BY <3>1 DEF ClaimDue, J!ClaimDueAmong, J!FirstDue
    <3> PICK claims : claims =
                  {[job |-> j, lease |-> jobs'[j].leaseId, accepted |-> FALSE] :
                     j \in {k \in chosen : jobs'[k].status = "leased"}}
      OBVIOUS
    <3>3. \A id \in DOMAIN jobs : id \in ScheduledKeys \cup NoticeIds
                                  /\ jobs'[id].leaseId \in Nat
      BY DEF IInv, JobsFit, J!Jobs
    <3>4. ASSUME NEW d \in claims PROVE d \in J!Claims /\ d.job \in DOMAIN jobs
      <4>1. PICK j \in DOMAIN jobs :
              d = [job |-> j, lease |-> jobs'[j].leaseId, accepted |-> FALSE]
        OBVIOUS
      <4> QED
        BY <3>3, <4>1 DEF J!Claims
    <3> QED
      BY <2>1, <2>2, <3>2, <3>4
  <2> QED
    BY <2>1, <2>3, <2>4, <2>5, <2>6
       DEF Next, Submit, Commit, EndWithoutChange, Work,
           AdvanceScheduled, RunNotice, J!Complete, FailClaim,
           J!Fail, Crash, Tick, queueVars
<1> QED
  BY <1>1, <1>2, <1>3, <1>4 DEF TableTypes

-----------------------------------------------------------------------------
(* Steps of the Plan.                                                      *)

(* The history grows at its end, by events at one moment whose types are   *)
(* in `types'.                                                             *)
Grows(at, types) ==
  /\ events \in Seq(PP!EventRecords) /\ events' \in Seq(PP!EventRecords)
  /\ Len(events) <= Len(events')
  /\ \A i \in 1..Len(events) : events'[i] = events[i]
  /\ \A i \in (Len(events) + 1)..Len(events') :
       events'[i].at = at /\ events'[i].type \in types

EndsWith(type) == Len(events) < Len(events') /\ events'[Len(events')].type = type

LEMMA SameRecord ==
  \A key, type, revision, at, types :
    P!Record(key, type, revision, at, types) <=> PP!P!Record(key, type, revision, at, types)
BY DEF P!Record, PP!P!Record, P!PlanCommandFingerprint, PP!P!PlanCommandFingerprint,
       P!LifecycleCommands, PP!P!LifecycleCommands, P!Event, PP!P!Event

(* The Plan's commands are the same here and in the module of its proofs.  *)
LEMMA SameCommands ==
  ASSUME NEW key, NEW at
  PROVE  /\ P!RehearsePlan(key, at, TRUE, 1) => PP!P!RehearsePlan(key, at, TRUE, 1)
         /\ P!ArmPlan(key, at, TRUE, TRUE, 1) => PP!P!ArmPlan(key, at, TRUE, TRUE, 1)
         /\ P!PausePlan(key, at, TRUE, TRUE, 1) => PP!P!PausePlan(key, at, TRUE, TRUE, 1)
         /\ P!ResumePlan(key, at, TRUE, TRUE, 1) => PP!P!ResumePlan(key, at, TRUE, TRUE, 1)
         /\ P!DisablePlan(key, at, TRUE, TRUE, 1) => PP!P!DisablePlan(key, at, TRUE, TRUE, 1)
         /\ P!OwnerCheckIn(key, at, TRUE) => PP!P!OwnerCheckIn(key, at, TRUE)
         /\ P!AdvanceTime(key, at) => PP!P!AdvanceTime(key, at)
<1>1. /\ P!Acceptable(key, at) <=> PP!P!Acceptable(key, at)
      /\ P!LifecycleAllowed(key, at, TRUE, TRUE, 1) <=>
           PP!P!LifecycleAllowed(key, at, TRUE, TRUE, 1)
  BY DEF P!Acceptable, PP!P!Acceptable, P!NotProcessed, PP!P!NotProcessed,
         P!LifecycleAllowed, PP!P!LifecycleAllowed, P!PolicyRevision, PP!P!PolicyRevision
<1>2. /\ P!CycleFits(at) <=> PP!P!CycleFits(at)
      /\ P!CreateCycle(at) = PP!P!CreateCycle(at)
      /\ P!CancelledConcern = PP!P!CancelledConcern
      /\ P!PolicyRevision = PP!P!PolicyRevision
      /\ P!NextTimelineTransition(cycle, at) = PP!P!NextTimelineTransition(cycle, at)
  BY DEF P!CycleFits, PP!P!CycleFits, P!CreateCycle, PP!P!CreateCycle, P!CancelledConcern,
         PP!P!CancelledConcern, P!PolicyRevision, PP!P!PolicyRevision,
         P!NextTimelineTransition, PP!P!NextTimelineTransition,
         P!TimelineTransitions, PP!P!TimelineTransitions
<1>3. P!RehearsePlan(key, at, TRUE, 1) => PP!P!RehearsePlan(key, at, TRUE, 1)
  BY <1>1, <1>2, SameRecord DEF P!RehearsePlan, PP!P!RehearsePlan
<1>4. P!ArmPlan(key, at, TRUE, TRUE, 1) => PP!P!ArmPlan(key, at, TRUE, TRUE, 1)
  BY <1>1, <1>2, SameRecord DEF P!ArmPlan, PP!P!ArmPlan
<1>5. P!PausePlan(key, at, TRUE, TRUE, 1) => PP!P!PausePlan(key, at, TRUE, TRUE, 1)
  BY <1>1, <1>2, SameRecord DEF P!PausePlan, PP!P!PausePlan
<1>6. P!ResumePlan(key, at, TRUE, TRUE, 1) => PP!P!ResumePlan(key, at, TRUE, TRUE, 1)
  BY <1>1, <1>2, SameRecord DEF P!ResumePlan, PP!P!ResumePlan
<1>7. P!DisablePlan(key, at, TRUE, TRUE, 1) => PP!P!DisablePlan(key, at, TRUE, TRUE, 1)
  BY <1>1, <1>2, SameRecord DEF P!DisablePlan, PP!P!DisablePlan
<1>8. P!OwnerCheckIn(key, at, TRUE) => PP!P!OwnerCheckIn(key, at, TRUE)
  BY <1>1, <1>2, SameRecord DEF P!OwnerCheckIn, PP!P!OwnerCheckIn
<1>9. P!AdvanceTime(key, at) => PP!P!AdvanceTime(key, at)
  BY <1>1, <1>2, SameRecord DEF P!AdvanceTime, PP!P!AdvanceTime
<1> QED
  BY <1>3, <1>4, <1>5, <1>6, <1>7, <1>8, <1>9

(* What every command but an idle time advance writes.                     *)
LEMMA Written ==
  ASSUME PP!P!TypeOK, NEW key \in ApiKeys \cup ScheduledKeys, NEW at \in Timestamps,
         NEW name, NEW revision, NEW type \in PP!P!EventTypes, NEW types,
         types = <<type>> \/ types = P!CancelledConcern \o <<type>>,
         P!Record(key, name, revision, at, types)
  PROVE  Grows(at, {type, "CONCERN_CANCELLED"}) /\ EndsWith(type)
<1>1. PP!P!Record(key, name, revision, at, types) /\ at \in PP!P!Timestamps
  BY SameRecord DEF PP!P!Timestamps, Timestamps
<1>2. /\ types \in Seq(PP!P!EventTypes)
      /\ \A i \in 1..Len(types) : types[i] \in {type, "CONCERN_CANCELLED"}
      /\ Len(types) \in 1..2 /\ types[Len(types)] = type
  <2>1. P!CancelledConcern \o <<type>> = PP!P!CancelledConcern \o <<type>>
    BY DEF P!CancelledConcern, PP!P!CancelledConcern
  <2> PICK both : both = PP!P!CancelledConcern \o <<type>>
    OBVIOUS
  <2>2. /\ both \in Seq(PP!P!EventTypes)
        /\ IF cycle.stage = "concern"
           THEN Len(both) = 2 /\ both[1] = "CONCERN_CANCELLED" /\ both[2] = type
           ELSE both = <<type>>
    BY Assumptions, PP!Cancellation
  <2>3. <<type>> \in Seq(PP!P!EventTypes) /\ Len(<<type>>) = 1 /\ <<type>>[1] = type
    OBVIOUS
  <2>4. CASE types = <<type>>
    BY <2>3, <2>4
  <2>5. CASE types = both
    <3>1. CASE cycle.stage = "concern"
      <4>1. \A i \in 1..2 : i = 1 \/ i = 2
        OBVIOUS
      <4> QED
        BY <2>2, <2>5, <3>1, <4>1
    <3>2. CASE cycle.stage # "concern"
      BY <2>2, <2>3, <2>5, <3>2
    <3> QED
      BY <3>1, <3>2
  <2> QED
    BY <2>1, <2>4, <2>5
<1>3. /\ events \in PP!Histories /\ Len(events) \in Nat
      /\ events' \in PP!Histories /\ Len(events') = Len(events) + Len(types)
      /\ \A i \in 1..Len(events) : events'[i] = events[i]
      /\ \A i \in 1..Len(types) : events'[Len(events) + i] = PP!P!Event(types[i], at)
  BY <1>1, <1>2, Assumptions, PP!Recorded
<1>4. Len(types) \in Nat
  BY <1>2
<1>5. ASSUME NEW i \in (Len(events) + 1)..Len(events')
      PROVE  events'[i].at = at /\ events'[i].type \in {type, "CONCERN_CANCELLED"}
  <2> PICK j : j = i - Len(events)
    OBVIOUS
  <2>1. j \in 1..Len(types) /\ i = Len(events) + j
    BY <1>3, <1>4
  <2>2. events'[i] = PP!P!Event(types[j], at)
    BY <1>3, <2>1
  <2>3. events'[i].at = at /\ events'[i].type = types[j]
    BY <2>2 DEF PP!P!Event
  <2> QED
    BY <1>2, <2>1, <2>3
<1>6. EndsWith(type)
  <2> PICK n : n = Len(types)
    OBVIOUS
  <2>0. n \in 1..2 /\ n \in 1..n
    BY <1>2
  <2>1. Len(types) \in 1..Len(types) /\ Len(events) < Len(events')
    BY <1>3, <2>0
  <2>2. events'[Len(events')] = PP!P!Event(types[Len(types)], at)
    BY <1>3, <2>1
  <2>3. events'[Len(events')].type = type
    BY <1>2, <2>2 DEF PP!P!Event
  <2> QED
    BY <2>1, <2>3 DEF EndsWith
<1> QED
  BY <1>3, <1>4, <1>5, <1>6 DEF Grows, PP!Histories

(* The cycle begins anew.                                                  *)
Renewed(at) ==
  cycle'.startedAt = at /\ cycle'.stage = "on_time"
    /\ NextScheduleAt(cycle') = at + CheckInIntervalMs - ReminderLeadMs

LEMMA CreateRenews ==
  ASSUME NEW at, cycle' = P!CreateCycle(at)
  PROVE  Renewed(at)
BY DEF P!CreateCycle, NextScheduleAt, Renewed

(* Which lifecycle leads to which, and what the history says of it.        *)
Leads(type) ==
  /\ lifecycle' = "draft" => lifecycle = "draft"
  /\ lifecycle' = "armed" =>
       type \in RenewalEvents /\ lifecycle \in {"draft", "armed", "paused"}
  /\ lifecycle' = "paused" =>
       type = "PLAN_PAUSED" /\ lifecycle = "armed" /\ cycle' = cycle

(* The transaction of an Owner's request is a step of the Plan that uses   *)
(* up its own key and escalates nothing; whatever leaves the Plan armed,   *)
(* or writes a renewal, begins a new cycle, and only a pause of an armed   *)
(* Plan leaves it paused.                                                  *)
LEMMA OwnerStep ==
  ASSUME IInv, NEW key \in ApiKeys, Commit(key)
  PROVE  \E at \in Timestamps :
           /\ at >= lastCommandAt /\ lastCommandAt' = at
           /\ PP!P!Next
           /\ \A id \in ScheduledKeys : processed'[id] = processed[id]
           /\ cycle' = cycle \/ Renewed(at)
           /\ lifecycle' = "armed" => Renewed(at)
           /\ \E type \in PP!P!EventTypes \ PP!P!EscalationEvents :
                /\ Grows(at, {type, "CONCERN_CANCELLED"}) /\ EndsWith(type)
                /\ type \in RenewalEvents => Renewed(at)
                /\ Leads(type)
           /\ jobs' = StageOutbox(jobs, Staged) /\ UNCHANGED now
<1> PICK at : at = requests[key]
  OBVIOUS
<1>1. at \in Timestamps
  BY DEF Commit, IInv, TableTypes
<1>2. PP!P!TypeOK
  BY DEF IInv, PlanInv
<1> DEFINE Effect(type) ==
             /\ at >= lastCommandAt /\ lastCommandAt' = at
             /\ processed' = [processed EXCEPT ![key] = processed'[key]]
             /\ cycle' = cycle \/ Renewed(at)
             /\ lifecycle' = "armed" => Renewed(at)
             /\ type \in PP!P!EventTypes \ PP!P!EscalationEvents
             /\ Grows(at, {type, "CONCERN_CANCELLED"}) /\ EndsWith(type)
             /\ type \in RenewalEvents => Renewed(at)
             /\ Leads(type)
<1>3. {"PLAN_REHEARSED", "PLAN_ARMED", "PLAN_PAUSED", "PLAN_RESUMED", "PLAN_DISABLED",
       "OWNER_CHECKED_IN"} \subseteq PP!P!EventTypes \ PP!P!EscalationEvents
  BY DEF PP!P!EventTypes, PP!P!EscalationEvents
<1>4. \A name, revision, types : P!Record(key, name, revision, at, types) =>
        lastCommandAt' = at /\ processed' = [processed EXCEPT ![key] = processed'[key]]
  <2>1. key \in DOMAIN processed
    BY <1>2 DEF PP!P!TypeOK
  <2> QED
    BY <2>1 DEF P!Record
<1>5. \E type : Effect(type)
  <2>1. CASE P!RehearsePlan(key, at, TRUE, 1)
    <3>1. /\ P!Record(key, "REHEARSE_PLAN", 1, at, <<"PLAN_REHEARSED">>)
          /\ at >= lastCommandAt /\ cycle' = cycle /\ lifecycle' # "armed"
          /\ lifecycle' = lifecycle /\ lifecycle = "draft"
      BY <2>1 DEF P!RehearsePlan, P!Acceptable
    <3>2. "PLAN_REHEARSED" \notin RenewalEvents /\ Leads("PLAN_REHEARSED")
      BY <3>1 DEF RenewalEvents, Leads
    <3>3. Effect("PLAN_REHEARSED")
      BY <1>1, <1>2, <1>3, <1>4, <3>1, <3>2, Written
    <3> QED
      BY <3>3
  <2>2. CASE P!ArmPlan(key, at, TRUE, TRUE, 1)
    <3>1. /\ P!Record(key, "ARM_PLAN", 1, at, <<"PLAN_ARMED">>)
          /\ at >= lastCommandAt /\ Renewed(at)
          /\ lifecycle = "draft" /\ lifecycle' = "armed"
      BY <2>2, CreateRenews DEF P!ArmPlan, P!LifecycleAllowed, P!Acceptable
    <3>3. Leads("PLAN_ARMED")
      BY <3>1 DEF RenewalEvents, Leads
    <3>2. Effect("PLAN_ARMED")
      BY <1>1, <1>2, <1>3, <1>4, <3>1, <3>3, Written
    <3> QED
      BY <3>2
  <2>3. CASE P!PausePlan(key, at, TRUE, TRUE, 1)
    <3>1. /\ P!Record(key, "PAUSE_PLAN", 1, at, <<"PLAN_PAUSED">>)
          /\ at >= lastCommandAt /\ cycle' = cycle /\ lifecycle' # "armed"
          /\ lifecycle = "armed" /\ lifecycle' = "paused"
      BY <2>3 DEF P!PausePlan, P!LifecycleAllowed, P!Acceptable
    <3>2. "PLAN_PAUSED" \notin RenewalEvents /\ Leads("PLAN_PAUSED")
      BY <3>1 DEF RenewalEvents, Leads
    <3>3. Effect("PLAN_PAUSED")
      BY <1>1, <1>2, <1>3, <1>4, <3>1, <3>2, Written
    <3> QED
      BY <3>3
  <2>4. CASE P!ResumePlan(key, at, TRUE, TRUE, 1)
    <3>1. /\ P!Record(key, "RESUME_PLAN", 1, at, P!CancelledConcern \o <<"PLAN_RESUMED">>)
          /\ at >= lastCommandAt /\ Renewed(at)
          /\ lifecycle = "paused" /\ lifecycle' = "armed"
      BY <2>4, CreateRenews DEF P!ResumePlan, P!LifecycleAllowed, P!Acceptable
    <3>3. Leads("PLAN_RESUMED")
      BY <3>1 DEF RenewalEvents, Leads
    <3>2. Effect("PLAN_RESUMED")
      BY <1>1, <1>2, <1>3, <1>4, <3>1, <3>3, Written
    <3> QED
      BY <3>2
  <2>5. CASE P!DisablePlan(key, at, TRUE, TRUE, 1)
    <3>1. /\ P!Record(key, "DISABLE_PLAN", 1, at, P!CancelledConcern \o <<"PLAN_DISABLED">>)
          /\ at >= lastCommandAt /\ lifecycle' # "armed"
          /\ cycle' = cycle \/ cycle' = P!CreateCycle(at)
          /\ lifecycle' = "disabled"
      BY <2>5 DEF P!DisablePlan, P!LifecycleAllowed, P!Acceptable
    <3>2. "PLAN_DISABLED" \notin RenewalEvents /\ Leads("PLAN_DISABLED")
      BY <3>1 DEF RenewalEvents, Leads
    <3>3. Effect("PLAN_DISABLED")
      BY <1>1, <1>2, <1>3, <1>4, <3>1, <3>2, Written, CreateRenews
    <3> QED
      BY <3>3
  <2>6. CASE P!OwnerCheckIn(key, at, TRUE)
    <3>1. /\ P!Record(key, "OWNER_CHECK_IN", 0, at,
                      P!CancelledConcern \o <<"OWNER_CHECKED_IN">>)
          /\ at >= lastCommandAt /\ Renewed(at)
          /\ lifecycle = "armed" /\ lifecycle' = "armed"
      BY <2>6, CreateRenews DEF P!OwnerCheckIn, P!Acceptable
    <3>3. Leads("OWNER_CHECKED_IN")
      BY <3>1 DEF RenewalEvents, Leads
    <3>2. Effect("OWNER_CHECKED_IN")
      BY <1>1, <1>2, <1>3, <1>4, <3>1, <3>3, Written
    <3> QED
      BY <3>2
  <2> QED
    BY <2>1, <2>2, <2>3, <2>4, <2>5, <2>6 DEF Commit
<1>6. PP!P!Next
  <2>1. PP!P!OwnerCommand(key, at, TRUE, TRUE, 1)
    BY SameCommands DEF Commit, PP!P!OwnerCommand
  <2>2. 1 \in {PP!P!PolicyRevision, PP!P!PolicyRevision + 1} /\ at \in PP!P!Timestamps
    BY <1>1 DEF PP!P!PolicyRevision, PP!P!Timestamps, Timestamps
  <2> QED
    BY <2>1, <2>2 DEF PP!P!Next
<1>7. /\ jobs' = StageOutbox(jobs, Staged) /\ UNCHANGED now
      /\ \A id \in ScheduledKeys : id # key
  BY ScheduleAssumption DEF Commit
<1>8. PICK type : Effect(type)
  BY <1>5
<1>9. \A id \in ScheduledKeys : processed'[id] = processed[id]
  BY <1>2, <1>7, <1>8 DEF PP!P!TypeOK
<1> QED
  BY <1>1, <1>6, <1>7, <1>8, <1>9

-----------------------------------------------------------------------------
(* The outbox of a Plan's step.                                            *)

LEMMA HistoryTypes ==
  ASSUME NEW history \in Seq(PP!EventRecords)
  PROVE  /\ Len(history) \in Nat /\ DOMAIN history = 1..Len(history)
         /\ \A i \in 1..Len(history) : history[i].at \in Timestamps /\ history[i].at \in Nat
<1>1. \A i \in 1..Len(history) : history[i] \in PP!EventRecords
  OBVIOUS
<1> QED
  BY <1>1, Numbers DEF PP!EventRecords, PP!P!Timestamps, Timestamps

(* The notices of a history that grew are those it had and the new ones.   *)
LEMMA NoticesGrow ==
  ASSUME NEW at, NEW types, Grows(at, types)
  PROVE  /\ Notices(events', 0) = Notices(events, 0) \cup Notices(events', Len(events))
         /\ Notices(events', Len(events)) \subseteq NoticeIds
<1>1. /\ Len(events) \in Nat /\ Len(events') \in Nat /\ Len(events) <= Len(events')
      /\ \A i \in 1..Len(events) : events'[i] = events[i]
      /\ \A i \in 1..Len(events') : events'[i].at \in Timestamps
  BY HistoryTypes DEF Grows
<1>2. ASSUME NEW id \in Notices(events', 0)
      PROVE  id \in Notices(events, 0) \cup Notices(events', Len(events))
  <2>1. PICK i \in 1..Len(events') :
          /\ events'[i].type \in NoticeEvents
          /\ id = NoticeId(i, events'[i].type, events'[i].at)
    BY DEF Notices
  <2>2. CASE i <= Len(events)
    <3>1. i \in 1..Len(events) /\ i \in (0 + 1)..Len(events) /\ events'[i] = events[i]
      BY <1>1, <2>2
    <3> QED
      BY <2>1, <3>1 DEF Notices
  <2>3. CASE i > Len(events)
    <3>1. i \in (Len(events) + 1)..Len(events')
      BY <1>1, <2>3
    <3> QED
      BY <2>1, <3>1 DEF Notices
  <2> QED
    BY <1>1, <2>2, <2>3
<1>3. ASSUME NEW id \in Notices(events, 0) PROVE id \in Notices(events', 0)
  <2>1. PICK i \in 1..Len(events) :
          /\ events[i].type \in NoticeEvents
          /\ id = NoticeId(i, events[i].type, events[i].at)
    BY DEF Notices
  <2>2. i \in (0 + 1)..Len(events') /\ events'[i] = events[i]
    BY <1>1
  <2> QED
    BY <2>1, <2>2 DEF Notices
<1>4. ASSUME NEW id \in Notices(events', Len(events))
      PROVE  id \in Notices(events', 0) /\ id \in NoticeIds
  <2>1. PICK i \in (Len(events) + 1)..Len(events') :
          /\ events'[i].type \in NoticeEvents
          /\ id = NoticeId(i, events'[i].type, events'[i].at)
    BY DEF Notices
  <2>2. i \in (0 + 1)..Len(events') /\ i \in Nat \ {0} /\ events'[i].at \in Timestamps
    BY <1>1
  <2>3. id \in Notices(events', 0)
    BY <2>1, <2>2 DEF Notices
  <2> QED
    BY <2>1, <2>2, <2>3 DEF NoticeId, NoticeIds
<1> QED
  BY <1>2, <1>3, <1>4

(* The queue after the outbox of a Plan's step has been staged: every row  *)
(* is as it was or new, it is named by what it stands for, the notices are *)
(* those of the history, and no advance but the one that is wanted next    *)
(* joined.                                                                 *)
LEMMA StagedRows ==
  ASSUME IInv, FitsPolicy(cycle'), NEW at, NEW types, Grows(at, types),
         NEW table, table = StageOutbox(jobs, Staged)
  PROVE  /\ DOMAIN jobs \subseteq DOMAIN table /\ table \in [DOMAIN table -> J!Jobs]
         /\ \A id \in DOMAIN jobs : table[id] = jobs[id]
         /\ \A id \in DOMAIN table \ DOMAIN jobs :
              /\ table[id] = J!CreatePendingJob(IntentOf(id))
              /\ id \in ScheduledAdvance(lifecycle', cycle') \cup NoticeIds
         /\ ScheduledAdvance(lifecycle', cycle') \subseteq DOMAIN table
         /\ \A id \in DOMAIN table :
              /\ id \in ScheduledKeys \cup NoticeIds
              /\ table[id] \in J!Jobs /\ J!ValidJob(table[id])
              /\ table[id].intent = IntentOf(id)
              /\ table[id] = J!CreatePendingJob(IntentOf(id)) \/ id[4] <= now
         /\ {id \in DOMAIN table : IsNotice(id)} = Notices(events', 0)
<1>1. /\ Staged = ScheduledAdvance(lifecycle', cycle') \cup Notices(events', Len(events))
      /\ Notices(events', Len(events)) \subseteq NoticeIds
      /\ Notices(events', 0) = Notices(events, 0) \cup Notices(events', Len(events))
  BY NoticesGrow DEF Staged, PlanOutbox
<1>2. ScheduledAdvance(lifecycle', cycle') \subseteq ScheduledKeys
  BY Wanted
<1>3. /\ DOMAIN table = DOMAIN jobs \cup Staged
      /\ \A id \in DOMAIN jobs : table[id] = jobs[id]
      /\ \A id \in Staged \ DOMAIN jobs : table[id] = J!CreatePendingJob(IntentOf(id))
      /\ table = [id \in DOMAIN table |-> table[id]]
  <2> PICK ids : ids = Staged
    OBVIOUS
  <2>1. table = [id \in DOMAIN jobs \cup ids |->
                   IF id \in DOMAIN jobs THEN jobs[id]
                                         ELSE J!CreatePendingJob(IntentOf(id))]
    BY DEF StageOutbox
  <2> QED
    BY <2>1
<1>4. \A id \in Staged \ DOMAIN jobs :
        /\ id \in ScheduledKeys \cup NoticeIds
        /\ table[id] \in J!Jobs /\ J!ValidJob(table[id])
        /\ table[id].intent = IntentOf(id)
  <2>1. \A intent : J!CreatePendingJob(intent).intent = intent
    BY DEF J!CreatePendingJob
  <2> QED
    BY <1>1, <1>2, <1>3, <2>1, NamedJobs
<1>5. \A id \in DOMAIN jobs :
        /\ id \in ScheduledKeys \cup NoticeIds
        /\ jobs[id] \in J!Jobs /\ J!ValidJob(jobs[id]) /\ jobs[id].intent = IntentOf(id)
        /\ jobs[id] = J!CreatePendingJob(IntentOf(id)) \/ id[4] <= now
  BY DEF IInv, JobsFit
<1>6. \A id \in DOMAIN table :
        /\ id \in ScheduledKeys \cup NoticeIds
        /\ table[id] \in J!Jobs /\ J!ValidJob(table[id])
        /\ table[id].intent = IntentOf(id)
        /\ table[id] = J!CreatePendingJob(IntentOf(id)) \/ id[4] <= now
  BY <1>3, <1>4, <1>5
<1>7. table \in [DOMAIN table -> J!Jobs]
  BY <1>3, <1>6
<1>8. {id \in DOMAIN table : IsNotice(id)} = Notices(events', 0)
  <2>1. {id \in DOMAIN jobs : IsNotice(id)} = Notices(events, 0)
    BY DEF IInv, OutboxMatchesHistory
  <2>2. \A id \in Staged : IsNotice(id) <=> id \in Notices(events', Len(events))
    BY <1>1, <1>2, KeyFacts
  <2> QED
    BY <1>1, <1>3, <2>1, <2>2
<1> QED
  BY <1>1, <1>3, <1>6, <1>7, <1>8

-----------------------------------------------------------------------------
(* An Owner's step keeps the invariant.                                    *)

LEMMA OwnerStepKeeps ==
  ASSUME IInv, Next, NEW key \in ApiKeys, Commit(key)
  PROVE  IInv'
<1>1. PICK at \in Timestamps :
           /\ at >= lastCommandAt /\ lastCommandAt' = at
           /\ PP!P!Next
           /\ \A id \in ScheduledKeys : processed'[id] = processed[id]
           /\ cycle' = cycle \/ Renewed(at)
           /\ lifecycle' = "armed" => Renewed(at)
           /\ \E type \in PP!P!EventTypes \ PP!P!EscalationEvents :
                /\ Grows(at, {type, "CONCERN_CANCELLED"}) /\ EndsWith(type)
                /\ type \in RenewalEvents => Renewed(at)
                /\ Leads(type)
           /\ jobs' = StageOutbox(jobs, Staged) /\ UNCHANGED now
  BY OwnerStep
<1>2. PICK type \in PP!P!EventTypes \ PP!P!EscalationEvents :
           /\ Grows(at, {type, "CONCERN_CANCELLED"}) /\ EndsWith(type)
           /\ type \in RenewalEvents => Renewed(at)
           /\ Leads(type)
  BY <1>1
<1>3. PlanInv'
  BY <1>1, Assumptions, PP!NextTypeOK, PP!NextTimeline DEF IInv, PlanInv
<1>4. FitsPolicy(cycle') /\ FitsPolicy(cycle)
  BY <1>3, NextPolicyFits, PolicyFits DEF IInv, PlanInv
<1>5. /\ DOMAIN jobs \subseteq DOMAIN jobs' /\ jobs' \in [DOMAIN jobs' -> J!Jobs]
      /\ \A id \in DOMAIN jobs : jobs'[id] = jobs[id]
      /\ \A id \in DOMAIN jobs' \ DOMAIN jobs :
           /\ jobs'[id] = J!CreatePendingJob(IntentOf(id))
           /\ id \in ScheduledAdvance(lifecycle', cycle') \cup NoticeIds
      /\ ScheduledAdvance(lifecycle', cycle') \subseteq DOMAIN jobs'
      /\ \A id \in DOMAIN jobs' :
           /\ id \in ScheduledKeys \cup NoticeIds
           /\ jobs'[id] \in J!Jobs /\ J!ValidJob(jobs'[id])
           /\ jobs'[id].intent = IntentOf(id)
           /\ jobs'[id] = J!CreatePendingJob(IntentOf(id)) \/ id[4] <= now
      /\ {id \in DOMAIN jobs' : IsNotice(id)} = Notices(events', 0)
  BY <1>1, <1>2, <1>4, StagedRows
<1>6. TableTypes' /\ JobsFit' /\ OutboxMatchesHistory'
  BY <1>1, <1>5, TableStep DEF JobsFit, OutboxMatchesHistory
<1>7. /\ cycle.startedAt \in Nat /\ lastCommandAt \in Nat /\ at \in Nat /\ now \in Nat
      /\ cycle.startedAt <= lastCommandAt
      /\ cycle.startedAt = lastCommandAt => cycle.stage = "on_time"
      /\ cycle.stage \in {"on_time", "reminder", "overdue", "concern"}
  <2>1. /\ cycle.startedAt \in Nat /\ lastCommandAt \in Nat
        /\ cycle.stage \in {"on_time", "reminder", "overdue", "concern"}
    BY DEF IInv, PlanInv, PP!P!TypeOK, PP!P!Cycles, PP!P!Stages, PP!P!Timestamps
  <2>2. PP!P!StageFloor(cycle) <= lastCommandAt
    BY DEF IInv, PlanInv, PP!P!TimelineConsistent
  <2>3. /\ cycle.startedAt <= PP!P!StageFloor(cycle)
        /\ cycle.stage # "on_time" => cycle.startedAt < PP!P!StageFloor(cycle)
        /\ PP!P!StageFloor(cycle) \in Int
    BY <2>1, <1>4, Numbers DEF PP!P!StageFloor, FitsPolicy
  <2> QED
    BY <2>1, <2>2, <2>3, Numbers DEF IInv, TableTypes
<1>8. NoneAhead'
  <2> SUFFICES ASSUME NEW id \in DOMAIN jobs', ~IsNotice(id)
               PROVE  /\ id[2] <= cycle'.startedAt
                      /\ id[2] = cycle'.startedAt => Rank[id[3]] <= Rank[cycle'.stage]
    BY DEF NoneAhead
  <2>1. CASE id \in DOMAIN jobs
    <3>1. /\ id[2] <= cycle.startedAt
          /\ id[2] = cycle.startedAt => Rank[id[3]] <= Rank[cycle.stage]
      BY <2>1 DEF IInv, NoneAhead
    <3>2. id[2] \in Nat
      BY <1>5, KeyFacts
    <3>3. CASE cycle' = cycle
      BY <3>1, <3>3
    <3>4. CASE Renewed(at)
      <4>1. cycle'.startedAt = at /\ cycle'.stage = "on_time"
        BY <3>4 DEF Renewed
      <4>2. id[2] <= at
        BY <1>1, <1>7, <3>1, <3>2
      <4>3. ASSUME id[2] = at PROVE Rank[id[3]] <= Rank["on_time"]
        <5>1. id[2] = cycle.startedAt /\ cycle.stage = "on_time"
          BY <1>1, <1>7, <3>1, <3>2, <4>3
        <5> QED
          BY <3>1, <5>1
      <4> QED
        BY <4>1, <4>2, <4>3
    <3> QED
      BY <1>1, <3>3, <3>4
  <2>2. CASE id \notin DOMAIN jobs
    <3>1. id \in ScheduledAdvance(lifecycle', cycle')
      BY <1>5, <2>2, KeyFacts
    <3>2. /\ cycle'.stage \in {"on_time", "reminder", "overdue"} /\ id[2] \in Nat
          /\ id[2] = cycle'.startedAt /\ id[3] = cycle'.stage
      BY <1>4, <3>1, Wanted, KeyFacts
    <3>3. Rank[cycle'.stage] \in Nat
      BY <3>2 DEF Rank
    <3> QED
      BY <3>2, <3>3
  <2> QED
    BY <2>1, <2>2
<1>13. /\ Len(events) \in Nat /\ Len(events') \in Nat /\ Len(events) < Len(events')
       /\ DOMAIN events = 1..Len(events) /\ DOMAIN events' = 1..Len(events')
       /\ \A i \in 1..Len(events) : events'[i] = events[i]
       /\ events'[Len(events')].type = type /\ events'[Len(events')].at = at
  BY <1>2 DEF Grows, EndsWith
<1>14. \A id \in DOMAIN jobs : ~IsNotice(id) /\ id[2] = at =>
         cycle.startedAt = at /\ lastCommandAt = at /\ cycle.stage = "on_time"
  <2>1. \A id \in DOMAIN jobs : ~IsNotice(id) => id[2] \in Nat /\ id[2] <= cycle.startedAt
    BY <1>5, KeyFacts DEF IInv, NoneAhead
  <2> QED
    BY <1>1, <1>7, <2>1
<1>15. SpentIsBehind'
  <2>1. Moved' = Moved
    BY <1>1 DEF Moved, P!NotProcessed
  <2>2. ASSUME NEW id \in Moved, id[2] = at PROVE cycle' = cycle
    <3>1. id \in DOMAIN jobs /\ ~IsNotice(id) /\ id \in ScheduledKeys
      BY KeyFacts DEF Moved, IInv, AdvanceSettledWithPlan
    <3>2. cycle.startedAt = at /\ cycle.stage = "on_time"
      BY <1>14, <2>2, <3>1
    <3>3. Rank[id[3]] < Rank["on_time"]
      BY <2>2, <3>2 DEF IInv, SpentIsBehind
    <3>4. id[3] \in {"on_time", "reminder", "overdue"}
      BY <3>1 DEF ScheduledKeys, AdvanceId
    <3> QED
      BY <3>3, <3>4 DEF Rank
  <2>3. \A id \in Moved : id[2] = cycle'.startedAt => Rank[id[3]] < Rank[cycle'.stage]
    BY <1>1, <2>2 DEF IInv, SpentIsBehind, Renewed
  <2> QED
    BY <2>1, <2>3 DEF SpentIsBehind
<1>16. CycleHasBegun'
  <2>1. CASE lifecycle' = "draft"
    <3>1. ScheduledAdvance(lifecycle', cycle') = {} /\ lifecycle = "draft"
      BY <1>2, <2>1 DEF ScheduledAdvance, Leads
    <3>2. \A id \in DOMAIN jobs' : IsNotice(id)
      BY <1>5, <3>1, KeyFacts DEF IInv, CycleHasBegun
    <3> QED
      BY <2>1, <3>2 DEF CycleHasBegun
  <2>2. CASE lifecycle' = "armed"
    <3>1. type \in RenewalEvents /\ cycle'.startedAt = at
      BY <1>1, <1>2, <2>2 DEF Leads, Renewed
    <3>2. /\ Len(events') \in DOMAIN events' /\ events'[Len(events')].type \in RenewalEvents
          /\ events'[Len(events')].at = cycle'.startedAt
      BY <1>13, <3>1
    <3> QED
      BY <2>2, <3>2 DEF CycleHasBegun, RenewedAt, RenewalEvents
  <2>3. CASE lifecycle' = "paused"
    <3>1. type = "PLAN_PAUSED" /\ lifecycle = "armed" /\ cycle' = cycle
      BY <1>2, <2>3 DEF Leads
    <3>2. PICK i \in DOMAIN events : RenewedAt(i, cycle.startedAt)
      BY <3>1 DEF IInv, CycleHasBegun
    <3>3. /\ i \in DOMAIN events' /\ Len(events') \in DOMAIN events' /\ i < Len(events')
          /\ events'[i].type \in RenewalEvents /\ events'[i].at = cycle'.startedAt
      BY <1>13, <3>1, <3>2 DEF RenewedAt
    <3>4. /\ events'[Len(events')].type = "PLAN_PAUSED"
          /\ cycle'.startedAt <= events'[Len(events')].at
          /\ events'[Len(events')].at <= lastCommandAt'
      BY <1>1, <1>7, <1>13, <3>1
    <3> QED
      BY <2>3, <3>3, <3>4 DEF CycleHasBegun, RenewedAt, RenewalEvents
  <2> QED
    BY <2>1, <2>2, <2>3 DEF CycleHasBegun
<1>9. ClockKept' /\ ArmedPlanIsScheduled'
  <2>1. ClockKept'
    BY <1>1 DEF ClockKept, Renewed
  <2>2. ASSUME NEW id \in ScheduledAdvance(lifecycle', cycle'), id \notin DOMAIN jobs
        PROVE  id \in DOMAIN jobs' /\ jobs'[id].status = "pending"
    BY <1>4, <1>5, <2>2, Wanted, NamedJobs
  <2>3. ASSUME NEW id \in ScheduledAdvance(lifecycle', cycle'), id \in DOMAIN jobs
        PROVE  \/ jobs[id].status \in {"pending", "leased"}
               \/ /\ jobs[id].status = "dead_letter"
                  /\ jobs[id].lastFailureCode # "stale_schedule"
                  /\ jobs[id].attempts = MaxAttempts
               \/ /\ jobs[id].status = "dead_letter"
                  /\ jobs[id].lastFailureCode = "stale_schedule"
                  /\ PausedAsItBegan' /\ cycle'.reminderAt <= now
    <3>1. /\ id \in ScheduledKeys /\ ~IsNotice(id) /\ lifecycle' = "armed" /\ Renewed(at)
          /\ id[2] = at /\ id[3] = "on_time" /\ id[4] = NextScheduleAt(cycle')
          /\ ScheduledAdvance(lifecycle', cycle') = {id}
      BY <1>1, <1>4, <2>3, Wanted, KeyFacts DEF Renewed
    <3>2. /\ cycle.startedAt = at /\ lastCommandAt = at /\ cycle.stage = "on_time"
      BY <1>14, <2>3, <3>1
    <3>3. /\ cycle'.startedAt = cycle.startedAt /\ cycle'.stage = cycle.stage
          /\ cycle'.reminderAt = cycle.reminderAt
          /\ NextScheduleAt(cycle') = cycle'.reminderAt
          /\ NextScheduleAt(cycle) = cycle.reminderAt
      BY <1>4, <3>1, <3>2 DEF Renewed, FitsPolicy, NextScheduleAt
    <3>4. lifecycle \in {"armed", "paused"}
      <4>1. lifecycle # "draft"
        BY <2>3, <3>1 DEF IInv, CycleHasBegun
      <4> QED
        BY <1>2, <3>1, <4>1 DEF Leads
    <3>5. CASE lifecycle = "armed"
      <4>1. id \in ScheduledAdvance(lifecycle, cycle)
        BY <2>3, <3>1, <3>3, <3>5 DEF ScheduledAdvance
      <4>2. PausedAsItBegan => PausedAsItBegan'
        <5> SUFFICES ASSUME PausedAsItBegan PROVE PausedAsItBegan'
          OBVIOUS
        <5>1. PICK i, j \in DOMAIN events :
                /\ i < j
                /\ events[i].type \in RenewalEvents /\ events[j].type = "PLAN_PAUSED"
                /\ events[i].at = cycle.startedAt /\ events[j].at = cycle.startedAt
          BY DEF PausedAsItBegan
        <5>2. /\ i \in DOMAIN events' /\ j \in DOMAIN events'
              /\ events'[i] = events[i] /\ events'[j] = events[j]
          BY <1>13
        <5> QED
          BY <3>3, <5>1, <5>2 DEF PausedAsItBegan, RenewalEvents
      <4> QED
        BY <3>3, <4>1, <4>2 DEF IInv, ArmedPlanIsScheduled
    <3>6. CASE lifecycle = "paused"
      <4>1. /\ jobs[id] \in J!Jobs /\ J!ValidJob(jobs[id])
            /\ jobs[id] = J!CreatePendingJob(IntentOf(id)) \/ id[4] <= now
        BY <2>3 DEF IInv, JobsFit
      <4>2. jobs[id].status # "completed"
        <5>1. ASSUME id \in Moved PROVE FALSE
          <6>1. Rank["on_time"] < Rank["on_time"]
            BY <3>1, <3>2, <5>1 DEF IInv, SpentIsBehind
          <6> QED
            BY <6>1 DEF Rank
        <5> QED
          BY <2>3, <3>1, <5>1 DEF Moved, IInv, AdvanceSettledWithPlan
      <4>3. jobs[id].status \in {"pending", "leased", "dead_letter"}
        BY <4>1, <4>2 DEF J!Jobs, J!Statuses
      <4>4. jobs[id].status = "dead_letter" => cycle'.reminderAt <= now
        BY <3>1, <3>3, <4>1, NamedJobs
      <4>5. PausedAsItBegan'
        <5>1. PICK i, j \in DOMAIN events :
                /\ i < j /\ RenewedAt(i, cycle.startedAt)
                /\ events[j].type = "PLAN_PAUSED"
                /\ cycle.startedAt <= events[j].at /\ events[j].at <= lastCommandAt
          BY <3>6 DEF IInv, CycleHasBegun
        <5>2. events[j].at = cycle'.startedAt /\ events[i].at = cycle'.startedAt
              /\ events[i].type \in RenewalEvents
          <6>1. events[j].at \in Nat
            BY <1>2, <1>13, HistoryTypes DEF Grows
          <6> QED
            BY <1>7, <3>2, <3>3, <5>1, <6>1 DEF RenewedAt
        <5>3. /\ i \in DOMAIN events' /\ j \in DOMAIN events'
              /\ events'[i] = events[i] /\ events'[j] = events[j]
          BY <1>13
        <5> QED
          BY <5>1, <5>2, <5>3 DEF PausedAsItBegan, RenewalEvents
      <4> QED
        BY <4>1, <4>3, <4>4, <4>5 DEF J!ValidJob
    <3> QED
      BY <3>4, <3>5, <3>6
  <2>4. /\ \A id \in DOMAIN jobs : jobs'[id] = jobs[id]
        /\ ScheduledAdvance(lifecycle', cycle') \subseteq DOMAIN jobs' /\ now' = now
    BY <1>1, <1>5
  <2> QED
    BY <2>1, <2>2, <2>3, <2>4 DEF ArmedPlanIsScheduled
<1>10. AdvanceSettledWithPlan' /\ IsFiniteSet(Moved')
  <2>1. Moved' = Moved
    BY <1>1 DEF Moved, P!NotProcessed
  <2>2. Escalations' = Escalations
    <3>1. /\ Len(events) \in Nat /\ Len(events') \in Nat /\ Len(events) <= Len(events')
          /\ DOMAIN events = 1..Len(events) /\ DOMAIN events' = 1..Len(events')
          /\ \A i \in 1..Len(events) : events'[i] = events[i]
          /\ \A i \in (Len(events) + 1)..Len(events') :
               events'[i].type \in {type, "CONCERN_CANCELLED"}
      BY <1>2 DEF Grows
    <3>2. "CONCERN_CANCELLED" \notin PP!P!EscalationEvents /\ type \notin PP!P!EscalationEvents
          /\ P!EscalationEvents = PP!P!EscalationEvents
      BY <1>2, SamePlan DEF PP!P!EscalationEvents
    <3>3. \A i \in 1..Len(events') : i \in 1..Len(events)
                                     \/ i \in (Len(events) + 1)..Len(events')
      BY <3>1
    <3> QED
      BY <3>1, <3>2, <3>3 DEF Escalations, P!EscalationEvents
  <2>3. \A id \in ScheduledKeys :
          (id \in DOMAIN jobs' /\ jobs'[id].status = "completed")
            <=> (id \in DOMAIN jobs /\ jobs[id].status = "completed")
    <3>1. \A id \in DOMAIN jobs' \ DOMAIN jobs : jobs'[id].status = "pending"
      BY <1>5, NamedJobs
    <3> QED
      BY <1>5, <3>1
  <2>4. /\ \A id \in ScheduledKeys :
             processed[id] # P!NotProcessed <=>
               id \in DOMAIN jobs /\ jobs[id].status = "completed"
        /\ Cardinality(Escalations) = Cardinality(Moved) /\ IsFiniteSet(Moved)
    BY DEF IInv, AdvanceSettledWithPlan, Moved
  <2>5. \A id \in ScheduledKeys :
             processed'[id] # P!NotProcessed <=>
               id \in DOMAIN jobs' /\ jobs'[id].status = "completed"
    BY <1>1, <2>3, <2>4
  <2>6. Cardinality(Escalations') = Cardinality(Moved') /\ IsFiniteSet(Moved')
    BY <2>1, <2>2, <2>4
  <2> QED
    BY <2>5, <2>6 DEF AdvanceSettledWithPlan, Moved, P!NotProcessed
<1>11. RenewalsArePast'
  <2>1. /\ Len(events) \in Nat /\ Len(events') \in Nat /\ Len(events) <= Len(events')
        /\ DOMAIN events = 1..Len(events) /\ DOMAIN events' = 1..Len(events')
        /\ \A i \in 1..Len(events) : events'[i] = events[i] /\ events[i].at \in Nat
        /\ \A i \in (Len(events) + 1)..Len(events') :
             events'[i].at = at /\ events'[i].type \in {type, "CONCERN_CANCELLED"}
    BY <1>2, HistoryTypes DEF Grows
  <2>2. "CONCERN_CANCELLED" \notin RenewalEvents
    BY DEF RenewalEvents
  <2>3. cycle.startedAt <= cycle'.startedAt
    BY <1>1, <1>7 DEF Renewed
  <2>4. ASSUME NEW i \in 1..Len(events'), events'[i].type \in RenewalEvents
        PROVE  events'[i].at <= cycle'.startedAt
    <3>1. CASE i <= Len(events)
      <4>1. i \in 1..Len(events)
        BY <2>1, <3>1
      <4>2. events[i].at <= cycle.startedAt
        BY <2>1, <2>4, <4>1 DEF IInv, RenewalsArePast
      <4>3. cycle'.startedAt \in Nat
        BY <1>1, <1>7 DEF Renewed
      <4> QED
        BY <1>7, <2>1, <2>3, <4>1, <4>2, <4>3
    <3>2. CASE i > Len(events)
      <4>1. i \in (Len(events) + 1)..Len(events')
        BY <2>1, <3>2
      <4>2. type \in RenewalEvents /\ events'[i].at = at
        BY <2>1, <2>2, <2>4, <4>1
      <4> QED
        BY <1>2, <1>7, <4>2 DEF Renewed
    <3> QED
      BY <2>1, <3>1, <3>2
  <2> QED
    BY <2>1, <2>4 DEF RenewalsArePast, RenewalEvents
<1> QED
  BY <1>3, <1>6, <1>8, <1>9, <1>10, <1>11, <1>15, <1>16 DEF IInv

-----------------------------------------------------------------------------
(* A scheduled advance keeps the invariant.                                *)

(* A current claim on the job that the Plan wants finds a Plan whose stage *)
(* is over, and which has not seen the command.                            *)
LEMMA ClaimAdvances ==
  ASSUME IInv, NEW w \in Workers, NEW c \in held[w],
         J!IsCurrentLease(jobs[c.job], c.lease, now),
         c.job \in ScheduledAdvance(lifecycle, cycle)
  PROVE  /\ c.job \in DOMAIN jobs /\ c.job \in ScheduledKeys
         /\ jobs[c.job].status = "leased"
         /\ processed[c.job] = P!NotProcessed /\ lastCommandAt <= now
         /\ NextScheduleAt(cycle) <= now
         /\ P!NextTimelineTransition(cycle, now) # {}
<1>1. /\ c.job \in DOMAIN jobs /\ jobs[c.job].status = "leased"
      /\ lifecycle = "armed"
  BY DEF IInv, TableTypes, J!IsCurrentLease, ScheduledAdvance
<1>2. FitsPolicy(cycle)
  BY PolicyFits DEF IInv, PlanInv
<1>3. /\ c.job \in ScheduledKeys /\ c.job[4] = NextScheduleAt(cycle)
      /\ cycle.stage \in {"on_time", "reminder", "overdue"}
      /\ cycle.startedAt < c.job[4]
  BY <1>2, Wanted
<1>4. c.job[4] <= now
  BY <1>1, TouchedIsDue DEF IInv
<1>5. processed[c.job] = P!NotProcessed
  BY <1>1, <1>3 DEF IInv, AdvanceSettledWithPlan
<1>6. /\ cycle.startedAt \in Nat /\ lastCommandAt \in Nat /\ now \in Nat
      /\ c.job[4] \in Nat
  <2>1. PP!P!TypeOK /\ now \in Timestamps
    BY DEF IInv, PlanInv, TableTypes
  <2>2. c.job[4] \in Timestamps
    BY <1>3, KeyFacts
  <2>3. Timestamps \subseteq Nat
    BY Numbers
  <2> QED
    BY <2>1, <2>2, <2>3, PlanTypes
<1>7. lastCommandAt <= now
  BY <1>1, <1>3, <1>4, <1>6 DEF IInv, ClockKept
<1>8. P!NextTimelineTransition(cycle, now) # {}
  <2>1. \E t \in P!TimelineTransitions(cycle) :
          t.from = cycle.stage /\ t.when = NextScheduleAt(cycle)
    <3>1. CASE cycle.stage = "on_time"
      BY <3>1 DEF P!TimelineTransitions, NextScheduleAt
    <3>2. CASE cycle.stage = "reminder"
      BY <3>2 DEF P!TimelineTransitions, NextScheduleAt
    <3>3. CASE cycle.stage = "overdue"
      BY <3>3 DEF P!TimelineTransitions, NextScheduleAt
    <3> QED
      BY <1>3, <3>1, <3>2, <3>3
  <2>2. now >= NextScheduleAt(cycle)
    BY <1>3, <1>4, <1>6
  <2> QED
    BY <2>1, <2>2 DEF P!NextTimelineTransition
<1> QED
  BY <1>1, <1>3, <1>4, <1>5, <1>7, <1>8

(* The stage after a stage, one rung up.                                   *)
LEMMA OneRung ==
  ASSUME PP!P!TypeOK, NEW t \in P!NextTimelineTransition(cycle, now)
  PROVE  /\ t.to \in {"reminder", "overdue", "concern"}
         /\ t.event \in PP!P!EscalationEvents
         /\ Rank[cycle.stage] \in Nat /\ Rank[t.to] = Rank[cycle.stage] + 1
         /\ t.to = "concern" => now >= cycle.concernAt
BY DEF P!NextTimelineTransition, P!TimelineTransitions, Rank, PP!P!EscalationEvents

(* What the transaction of a scheduled advance does.                       *)
LEMMA AdvanceStep ==
  ASSUME IInv, NEW w \in Workers, NEW c \in held[w],
         J!IsCurrentLease(jobs[c.job], c.lease, now), AdvancePlan(c)
  PROVE  /\ c.job \in ScheduledAdvance(lifecycle, cycle)
         /\ PP!P!Next
         /\ \E t \in P!NextTimelineTransition(cycle, now) :
              /\ cycle' = [cycle EXCEPT !.stage = t.to]
              /\ Grows(now, {t.event, "CONCERN_CANCELLED"})
              /\ Len(events') = Len(events) + 1 /\ events'[Len(events) + 1].type = t.event
         /\ lifecycle' = lifecycle /\ lastCommandAt' = now
         /\ processed'[c.job] # P!NotProcessed
         /\ \A id \in ScheduledKeys \ {c.job} : processed'[id] = processed[id]
         /\ jobs' = [StageOutbox(jobs, Staged) EXCEPT ![c.job] = J!CompletedJob(@)]
<1>1. c.job \in ScheduledAdvance(lifecycle, cycle)
  BY DEF AdvancePlan
<1>2. /\ c.job \in ScheduledKeys /\ processed[c.job] = P!NotProcessed
      /\ P!NextTimelineTransition(cycle, now) # {} /\ lifecycle = "armed"
  BY <1>1, ClaimAdvances DEF ScheduledAdvance
<1>3. P!PlanCommandFingerprint("ADVANCE_TIME", 0) # P!NotProcessed
  BY DEF P!PlanCommandFingerprint, P!LifecycleCommands, P!NotProcessed
<1>4. P!AdvanceTime(c.job, now)
  BY <1>2, <1>3 DEF AdvancePlan
<1>5. PICK t \in P!NextTimelineTransition(cycle, now) :
        /\ cycle' = [cycle EXCEPT !.stage = t.to]
        /\ P!Record(c.job, "ADVANCE_TIME", 0, now, <<t.event>>)
        /\ lifecycle' = lifecycle
  BY <1>2, <1>4 DEF P!AdvanceTime
<1>6. PP!P!TypeOK /\ now \in Timestamps
  BY DEF IInv, PlanInv, TableTypes
<1>7. t.event \in PP!P!EventTypes
  BY <1>6, OneRung DEF PP!P!EventTypes
<1>8. Grows(now, {t.event, "CONCERN_CANCELLED"})
  BY <1>2, <1>5, <1>6, <1>7, Written
<1>9. Len(events') = Len(events) + 1 /\ events'[Len(events) + 1].type = t.event
  <2>1. PP!P!Record(c.job, "ADVANCE_TIME", 0, now, <<t.event>>) /\ now \in PP!P!Timestamps
    BY <1>5, <1>6, SameRecord DEF PP!P!Timestamps, Timestamps
  <2>2. /\ PP!OneMore(events', events, PP!P!Event(t.event, now))
    BY <1>2, <1>6, <1>7, <2>1, Assumptions, PP!RecordsOne
  <2>3. PP!P!Event(t.event, now).type = t.event
    BY DEF PP!P!Event
  <2> QED
    BY <2>2, <2>3 DEF PP!OneMore
<1>10. PP!P!Next
  <2>1. PP!P!AdvanceTime(c.job, now)
    BY <1>4, SameCommands
  <2>2. PP!P!PolicyRevision \in {PP!P!PolicyRevision, PP!P!PolicyRevision + 1}
        /\ now \in PP!P!Timestamps
    BY <1>6 DEF PP!P!Timestamps, Timestamps
  <2> QED
    BY <1>2, <2>1, <2>2 DEF PP!P!Next
<1>11. /\ lastCommandAt' = now
       /\ processed' = [processed EXCEPT ![c.job] =
                          P!PlanCommandFingerprint("ADVANCE_TIME", 0)]
  BY <1>5 DEF P!Record
<1>12. processed'[c.job] # P!NotProcessed
       /\ \A id \in ScheduledKeys \ {c.job} : processed'[id] = processed[id]
  BY <1>2, <1>3, <1>6, <1>11 DEF PP!P!TypeOK
<1> QED
  BY <1>1, <1>5, <1>8, <1>9, <1>10, <1>11, <1>12 DEF AdvancePlan

LEMMA AdvanceStepKeeps ==
  ASSUME IInv, Next, NEW w \in Workers, NEW c \in held[w],
         J!IsCurrentLease(jobs[c.job], c.lease, now), AdvancePlan(c), UNCHANGED now
  PROVE  IInv'
<1>1. /\ c.job \in ScheduledAdvance(lifecycle, cycle)
      /\ PP!P!Next
      /\ lifecycle' = lifecycle /\ lastCommandAt' = now
      /\ processed'[c.job] # P!NotProcessed
      /\ \A id \in ScheduledKeys \ {c.job} : processed'[id] = processed[id]
      /\ jobs' = [StageOutbox(jobs, Staged) EXCEPT ![c.job] = J!CompletedJob(@)]
  BY AdvanceStep
<1>2. PICK t \in P!NextTimelineTransition(cycle, now) :
        /\ cycle' = [cycle EXCEPT !.stage = t.to]
        /\ Grows(now, {t.event, "CONCERN_CANCELLED"})
        /\ Len(events') = Len(events) + 1 /\ events'[Len(events) + 1].type = t.event
  BY AdvanceStep
<1>3. /\ c.job \in DOMAIN jobs /\ c.job \in ScheduledKeys
      /\ jobs[c.job].status = "leased" /\ processed[c.job] = P!NotProcessed
      /\ NextScheduleAt(cycle) <= now
  BY <1>1, ClaimAdvances
<1>4. PlanInv'
  BY <1>1, Assumptions, PP!NextTypeOK, PP!NextTimeline DEF IInv, PlanInv
<1>5. FitsPolicy(cycle') /\ FitsPolicy(cycle) /\ PP!P!TypeOK
  BY <1>4, NextPolicyFits, PolicyFits DEF IInv, PlanInv
<1>6. /\ t.to \in {"reminder", "overdue", "concern"}
      /\ t.event \in PP!P!EscalationEvents
      /\ Rank[cycle.stage] \in Nat /\ Rank[t.to] = Rank[cycle.stage] + 1
  BY <1>5, OneRung
<1>7. cycle'.startedAt = cycle.startedAt /\ cycle'.stage = t.to
  BY <1>2, <1>5 DEF PP!P!TypeOK, PP!P!Cycles
<1> PICK table : table = StageOutbox(jobs, Staged)
  OBVIOUS
<1>8. /\ DOMAIN jobs \subseteq DOMAIN table /\ table \in [DOMAIN table -> J!Jobs]
      /\ \A id \in DOMAIN jobs : table[id] = jobs[id]
      /\ \A id \in DOMAIN table \ DOMAIN jobs :
           /\ table[id] = J!CreatePendingJob(IntentOf(id))
           /\ id \in ScheduledAdvance(lifecycle', cycle') \cup NoticeIds
      /\ ScheduledAdvance(lifecycle', cycle') \subseteq DOMAIN table
      /\ \A id \in DOMAIN table :
           /\ id \in ScheduledKeys \cup NoticeIds
           /\ table[id] \in J!Jobs /\ J!ValidJob(table[id])
           /\ table[id].intent = IntentOf(id)
           /\ table[id] = J!CreatePendingJob(IntentOf(id)) \/ id[4] <= now
      /\ {id \in DOMAIN table : IsNotice(id)} = Notices(events', 0)
  BY <1>2, <1>5, StagedRows
<1> PICK next : next = J!CompletedJob(jobs[c.job])
  OBVIOUS
<1>9. /\ next \in J!Jobs /\ J!ValidJob(next) /\ next.intent = IntentOf(c.job)
      /\ next.status = "completed"
  <2>1. /\ jobs[c.job] \in J!Jobs /\ J!ValidJob(jobs[c.job])
        /\ jobs[c.job].intent = IntentOf(c.job)
    BY <1>3 DEF IInv, JobsFit
  <2> QED
    BY <1>3, <2>1, CompleteMoves
<1>10. /\ DOMAIN jobs' = DOMAIN table /\ jobs'[c.job] = next
       /\ \A id \in DOMAIN table \ {c.job} : jobs'[id] = table[id]
       /\ jobs' \in [DOMAIN table -> J!Jobs]
  <2>1. jobs' = [table EXCEPT ![c.job] = next] /\ c.job \in DOMAIN table
    BY <1>1, <1>3, <1>8
  <2> QED
    BY <1>8, <1>9, <2>1
<1>11. c.job[4] <= now
  BY <1>3, TouchedIsDue DEF IInv
<1>12. TableTypes' /\ JobsFit' /\ OutboxMatchesHistory'
  <2>1. TableTypes'
    BY <1>8, <1>10, TableStep
  <2>2. JobsFit'
    BY <1>8, <1>9, <1>10, <1>11 DEF JobsFit
  <2>3. OutboxMatchesHistory'
    BY <1>8, <1>10 DEF OutboxMatchesHistory
  <2> QED
    BY <2>1, <2>2, <2>3
<1>13. \A id \in ScheduledAdvance(lifecycle', cycle') :
         /\ id \in ScheduledKeys /\ id[2] = cycle.startedAt /\ id[3] = t.to
         /\ id \in DOMAIN table
  BY <1>5, <1>7, <1>8, Wanted
<1>14. NoneAhead'
  <2> SUFFICES ASSUME NEW id \in DOMAIN table, ~IsNotice(id)
               PROVE  /\ id[2] <= cycle.startedAt
                      /\ id[2] = cycle.startedAt => Rank[id[3]] <= Rank[t.to]
    BY <1>7, <1>10 DEF NoneAhead
  <2>1. CASE id \in DOMAIN jobs
    <3>1. id[2] <= cycle.startedAt
      BY <2>1 DEF IInv, NoneAhead
    <3>2. ASSUME id[2] = cycle.startedAt PROVE Rank[id[3]] <= Rank[t.to]
      <4>1. Rank[id[3]] <= Rank[cycle.stage]
        BY <2>1, <3>2 DEF IInv, NoneAhead
      <4>2. Rank[id[3]] \in Nat
        <5>1. id \in ScheduledKeys
          BY <1>8, KeyFacts
        <5>2. id[3] \in {"on_time", "reminder", "overdue"}
          BY <5>1 DEF ScheduledKeys, AdvanceId
        <5> QED
          BY <5>2 DEF Rank
      <4> QED
        BY <1>6, <4>1, <4>2
    <3> QED
      BY <3>1, <3>2
  <2>2. CASE id \notin DOMAIN jobs
    <3>1. id \in ScheduledAdvance(lifecycle', cycle')
      BY <1>8, <2>2, KeyFacts
    <3>2. cycle.startedAt \in Nat
      BY <1>5, Numbers DEF FitsPolicy, PP!P!Cycles, PP!P!Timestamps
    <3>3. Rank[t.to] \in Nat
      BY <1>6
    <3> QED
      BY <1>13, <3>1, <3>2, <3>3
  <2> QED
    BY <2>1, <2>2
<1>15. ClockKept'
  <2>1. now \in Nat
    BY Numbers DEF IInv, TableTypes
  <2> QED
    BY <1>1, <2>1 DEF ClockKept
<1>16. ArmedPlanIsScheduled'
  <2>1. ASSUME NEW id \in ScheduledAdvance(lifecycle', cycle')
        PROVE  id \in DOMAIN jobs' /\ jobs'[id].status = "pending"
    <3>1. id \notin DOMAIN jobs
      <4>1. ~IsNotice(id)
        BY <1>13, <2>1, KeyFacts
      <4>2. ASSUME id \in DOMAIN jobs PROVE Rank[t.to] <= Rank[cycle.stage]
        BY <1>13, <2>1, <4>1, <4>2 DEF IInv, NoneAhead
      <4>3. ~(Rank[t.to] <= Rank[cycle.stage])
        BY <1>6
      <4> QED
        BY <4>2, <4>3
    <3>2. jobs'[id] = J!CreatePendingJob(IntentOf(id)) /\ id \in DOMAIN jobs'
      BY <1>3, <1>8, <1>10, <1>13, <2>1, <3>1
    <3> QED
      BY <1>13, <2>1, <3>2, NamedJobs
  <2> QED
    BY <2>1 DEF ArmedPlanIsScheduled
<1>17. AdvanceSettledWithPlan' /\ IsFiniteSet(Moved')
  <2>1. /\ \A id \in ScheduledKeys :
             processed[id] # P!NotProcessed <=>
               id \in DOMAIN jobs /\ jobs[id].status = "completed"
        /\ Cardinality(Escalations) = Cardinality(Moved) /\ IsFiniteSet(Moved)
    BY DEF IInv, AdvanceSettledWithPlan, Moved
  <2>2. ASSUME NEW id \in ScheduledKeys
        PROVE  processed'[id] # P!NotProcessed <=>
                 id \in DOMAIN jobs' /\ jobs'[id].status = "completed"
    <3>1. CASE id = c.job
      BY <1>1, <1>3, <1>8, <1>9, <1>10, <3>1
    <3>2. CASE id # c.job
      <4>1. processed'[id] = processed[id]
        BY <1>1, <3>2
      <4>2. \A j \in DOMAIN table \ DOMAIN jobs : table[j].status = "pending"
        BY <1>8, NamedJobs
      <4> QED
        BY <1>8, <1>10, <2>1, <3>2, <4>1, <4>2
    <3> QED
      BY <3>1, <3>2
  <2>3. Moved' = Moved \cup {c.job} /\ c.job \notin Moved
    BY <1>1, <1>3 DEF Moved, P!NotProcessed
  <2>4. /\ Escalations' = Escalations \cup {Len(events) + 1}
        /\ Len(events) + 1 \notin Escalations
        /\ Len(events) \in Nat /\ Escalations \subseteq 1..Len(events)
    <3>1. /\ Len(events) \in Nat
          /\ DOMAIN events = 1..Len(events) /\ DOMAIN events' = 1..(Len(events) + 1)
          /\ \A i \in 1..Len(events) : events'[i] = events[i]
      BY <1>2 DEF Grows
    <3>2. /\ P!EscalationEvents = PP!P!EscalationEvents
      BY SamePlan
    <3>3. 1..(Len(events) + 1) = 1..Len(events) \cup {Len(events) + 1}
      BY <3>1
    <3>4. /\ Escalations = {i \in 1..Len(events) : events[i].type \in PP!P!EscalationEvents}
          /\ Escalations' =
               {i \in 1..(Len(events) + 1) : events'[i].type \in PP!P!EscalationEvents}
      BY <3>1, <3>2 DEF Escalations, P!EscalationEvents
    <3>5. Escalations' = Escalations \cup {Len(events) + 1}
      BY <1>2, <1>6, <3>1, <3>3, <3>4
    <3> QED
      BY <3>1, <3>4, <3>5
  <2>5. IsFiniteSet(Escalations)
    <3>1. Len(events) \in Int /\ 1 \in Int
      BY <2>4
    <3>2. IsFiniteSet(1..Len(events))
      BY <3>1, FS_Interval
    <3> QED
      BY <2>4, <3>2, FS_Subset
  <2>6. /\ Cardinality(Moved') = Cardinality(Moved) + 1 /\ IsFiniteSet(Moved')
        /\ Cardinality(Escalations') = Cardinality(Escalations) + 1
    BY <2>1, <2>3, <2>4, <2>5, FS_AddElement
  <2> QED
    BY <2>1, <2>2, <2>6 DEF AdvanceSettledWithPlan, Moved, P!NotProcessed
<1>18. RenewalsArePast'
  <2>1. /\ Len(events) \in Nat
        /\ DOMAIN events = 1..Len(events) /\ DOMAIN events' = 1..(Len(events) + 1)
        /\ \A i \in 1..Len(events) : events'[i] = events[i]
    BY <1>2 DEF Grows
  <2>2. t.event \notin RenewalEvents
    BY <1>6 DEF RenewalEvents, PP!P!EscalationEvents
  <2>3. ASSUME NEW i \in 1..(Len(events) + 1), events'[i].type \in RenewalEvents
        PROVE  events'[i].at <= cycle.startedAt
    <3>1. i \in 1..Len(events)
      BY <1>2, <2>1, <2>2, <2>3
    <3> QED
      BY <2>1, <2>3, <3>1 DEF IInv, RenewalsArePast
  <2> QED
    BY <1>7, <2>1, <2>3 DEF RenewalsArePast, RenewalEvents
<1>19. SpentIsBehind'
  <2>1. Moved' \subseteq Moved \cup {c.job}
    BY <1>1 DEF Moved, P!NotProcessed
  <2>2. \A id \in ScheduledKeys : Rank[id[3]] \in Nat
    <3>1. \A id \in ScheduledKeys : id[3] \in {"on_time", "reminder", "overdue"}
      BY DEF ScheduledKeys, AdvanceId
    <3> QED
      BY <3>1 DEF Rank
  <2>3. c.job[3] = cycle.stage
    BY <1>1, <1>5, Wanted
  <2>4. ASSUME NEW id \in Moved \cup {c.job}, id[2] = cycle.startedAt
        PROVE  Rank[id[3]] < Rank[t.to]
    <3>1. CASE id \in Moved
      <4>1. Rank[id[3]] < Rank[cycle.stage] /\ id \in ScheduledKeys
        BY <2>4, <3>1 DEF IInv, SpentIsBehind, Moved
      <4> QED
        BY <1>6, <2>2, <4>1
    <3>2. CASE id = c.job
      BY <1>6, <2>3, <3>2
    <3> QED
      BY <2>4, <3>1, <3>2
  <2> QED
    BY <1>7, <2>1, <2>4 DEF SpentIsBehind
<1>20. CycleHasBegun'
  <2>1. lifecycle = "armed"
    BY <1>1 DEF ScheduledAdvance
  <2>2. PICK i \in DOMAIN events : RenewedAt(i, cycle.startedAt)
    BY <2>1 DEF IInv, CycleHasBegun
  <2>3. i \in DOMAIN events' /\ events'[i] = events[i]
    BY <1>2 DEF Grows
  <2> QED
    BY <1>1, <1>7, <2>1, <2>2, <2>3 DEF CycleHasBegun, RenewedAt, RenewalEvents
<1> QED
  BY <1>4, <1>12, <1>14, <1>15, <1>16, <1>17, <1>18, <1>19, <1>20 DEF IInv

-----------------------------------------------------------------------------
(* The invariant holds of every behaviour.                                 *)

LEMMA InitInv == Init => IInv
<1> SUFFICES ASSUME Init PROVE IInv
  OBVIOUS
<1>1. /\ P!Init /\ lastCommandAt = 0 /\ now = 0
      /\ jobs = [j \in {} |-> J!CreatePendingJob(j)] /\ receipts = [j \in {} |-> j]
      /\ held = [w \in Workers |-> {}] /\ requests = [k \in ApiKeys |-> Idle]
  BY DEF Init, J!Init
<1>2. PlanInv
  BY <1>1, SamePlan, Assumptions, PP!InitTypeOK, PP!InitTimeline DEF PlanInv
<1>3. /\ lifecycle = "draft" /\ processed = [k \in ApiKeys \cup ScheduledKeys |-> P!NotProcessed]
      /\ events = <<P!Event("PLAN_DRAFTED", 0)>>
  BY <1>1 DEF P!Init
<1>4. /\ DOMAIN events = {1} /\ Len(events) = 1 /\ events[1].type = "PLAN_DRAFTED"
      /\ DOMAIN jobs = {} /\ DOMAIN receipts = {}
  BY <1>1, <1>3 DEF P!Event
<1>5. TableTypes
  BY <1>1, <1>4, Numbers DEF TableTypes, Timestamps
<1>6. JobsFit /\ NoneAhead /\ ClockKept /\ ArmedPlanIsScheduled
  BY <1>3, <1>4 DEF JobsFit, NoneAhead, ClockKept, ArmedPlanIsScheduled, ScheduledAdvance
<1>7. AdvanceSettledWithPlan /\ IsFiniteSet(Moved)
  <2>1. \A id \in ScheduledKeys : processed[id] = P!NotProcessed
    BY <1>3
  <2>2. Escalations = {} /\ Moved = {}
    BY <1>4, <2>1 DEF Escalations, P!EscalationEvents, Moved
  <2> QED
    BY <1>4, <2>1, <2>2, FS_EmptySet DEF AdvanceSettledWithPlan, Moved
<1>8. OutboxMatchesHistory
  <2>1. \A j \in (0 + 1)..Len(events) : events[j].type \notin NoticeEvents
    <3>1. \A j \in (0 + 1)..1 : j = 1
      OBVIOUS
    <3> QED
      BY <1>4, <3>1 DEF NoticeEvents
  <2> QED
    BY <1>4, <2>1 DEF OutboxMatchesHistory, Notices
<1>9. RenewalsArePast
  BY <1>4 DEF RenewalsArePast, RenewalEvents
<1>10. SpentIsBehind /\ CycleHasBegun
  BY <1>3, <1>4 DEF SpentIsBehind, Moved, CycleHasBegun
<1> QED
  BY <1>2, <1>5, <1>6, <1>7, <1>8, <1>9, <1>10 DEF IInv

LEMMA NextInv == IInv /\ [Next]_vars => IInv'
<1>1. ASSUME IInv, Next, QueueStep PROVE IInv'
  <2>1. TableTypes'
    BY <1>1, TableStep DEF QueueStep
  <2> QED
    BY <1>1, <2>1, QueueStepKeeps DEF IInv
<1>2. ASSUME IInv, UNCHANGED vars PROVE IInv'
  <2>1. UNCHANGED planVars /\ UNCHANGED jobs /\ UNCHANGED now /\ now \in Nat
    BY <1>2, Numbers DEF vars, queueVars, IInv, TableTypes
  <2>2. QueueStep
    BY <1>2, <2>1, NoneMoves
  <2>3. TableTypes'
    BY <1>2 DEF vars, queueVars, IInv, TableTypes
  <2> QED
    BY <1>2, <2>2, <2>3, QueueStepKeeps DEF IInv
<1>3. ASSUME IInv, Next PROVE IInv'
  <2>0. now \in Nat
    BY <1>3, Numbers DEF IInv, TableTypes
  <2>1. ASSUME NEW key \in ApiKeys, Submit(key) \/ EndWithoutChange(key) PROVE IInv'
    <3>1. QueueStep
      BY <1>3, <2>0, <2>1, NoneMoves DEF Submit, EndWithoutChange, queueVars
    <3> QED
      BY <1>1, <1>3, <3>1
  <2>2. ASSUME NEW key \in ApiKeys, Commit(key) PROVE IInv'
    BY <1>3, <2>2, OwnerStepKeeps
  <2>3. ASSUME NEW w \in Workers, ClaimDue(w) PROVE IInv'
    BY <1>1, <1>3, <2>3, ClaimIsQueueStep
  <2>4. ASSUME NEW w \in Workers, NEW c \in held[w], RunNotice(w, c) \/ FailClaim(w, c)
        PROVE  IInv'
    BY <1>1, <1>3, <2>4, NoticeIsQueueStep, FailIsQueueStep
  <2>5. ASSUME NEW w \in Workers, NEW c \in held[w], AdvanceScheduled(w, c) PROVE IInv'
    <3>1. CASE RetireStaleSchedule(c)
      BY <1>1, <1>3, <2>5, <3>1, RetireIsQueueStep
    <3>2. CASE AdvancePlan(c)
      <4>1. J!IsCurrentLease(jobs[c.job], c.lease, now) /\ UNCHANGED now
        BY <2>5 DEF AdvanceScheduled
      <4> QED
        BY <1>3, <3>2, <4>1, AdvanceStepKeeps
    <3> QED
      BY <2>5, <3>1, <3>2 DEF AdvanceScheduled
  <2>6. ASSUME NEW w \in Workers, Crash(w) PROVE IInv'
    <3>1. QueueStep
      BY <1>3, <2>0, <2>6, NoneMoves DEF Crash, J!Crash
    <3> QED
      BY <1>1, <1>3, <3>1
  <2>7. CASE Tick
    <3>1. now + 1 \in Nat /\ now <= now + 1
      BY <2>0
    <3>2. QueueStep
      BY <1>3, <2>7, <3>1, NoneMoves DEF Tick
    <3> QED
      BY <1>1, <1>3, <3>2
  <2> QED
    BY <1>3, <2>1, <2>2, <2>3, <2>4, <2>5, <2>6, <2>7 DEF Next, Work
<1> QED
  BY <1>2, <1>3

LEMMA AlwaysInv == Spec => []IInv
BY InitInv, NextInv, PTL DEF Spec

-----------------------------------------------------------------------------
(* An armed Plan short of Concern has its next move in the queue, however  *)
(* long its Owner's requests were under way.  stageOutbox takes any        *)
(* existing row of the same name for the job it stages (postgresPlan.ts);  *)
(* such a row is never a completed one, and it is a retired one only if    *)
(* the Plan was paused and resumed at the time its cycle began.            *)
THEOREM AnArmedPlanIsScheduled == Spec => []ArmedPlanIsScheduled
<1>1. IInv => ArmedPlanIsScheduled
  BY DEF IInv
<1> QED
  BY <1>1, AlwaysInv, PTL

(* There is a notice job for each Reminder and each Concern in the history *)
(* and for nothing else (createSyntheticConcernOutboxPlanner).             *)
THEOREM TheOutboxMatches == Spec => []OutboxMatchesHistory
<1>1. IInv => OutboxMatchesHistory
  BY DEF IInv
<1> QED
  BY <1>1, AlwaysInv, PTL

(* The tables stay well formed, the next job is there, a scheduled advance *)
(* and the Plan settle together, and the scheduler's command is never      *)
(* refused although Owner commands carry the API's clock                   *)
(* (executeScheduledPlanTransaction).                                      *)
THEOREM TheScheduleIsSound == Spec => []ScheduleIsSound
<1>1. IInv => TypeOK
  <2> SUFFICES ASSUME IInv PROVE TypeOK
    OBVIOUS
  <2>1. P!TypeOK
    BY SamePlan DEF IInv, PlanInv
  <2>2. J!TypeOK
    <3>1. DOMAIN jobs \subseteq ScheduledKeys \cup NoticeIds
      BY DEF IInv, JobsFit
    <3>2. now \in Nat
      BY Numbers DEF IInv, TableTypes
    <3> QED
      BY <3>1, <3>2 DEF J!TypeOK, IInv, TableTypes
  <2> QED
    BY <2>1, <2>2 DEF TypeOK, IInv, TableTypes
<1>2. IInv => CurrentClaimAdvances
  <2> SUFFICES ASSUME IInv, NEW w \in Workers, NEW c \in held[w],
                      J!IsCurrentLease(jobs[c.job], c.lease, now),
                      c.job \in ScheduledAdvance(lifecycle, cycle)
               PROVE  /\ P!Acceptable(c.job, now)
                      /\ P!NextTimelineTransition(cycle, now) # {}
    BY DEF CurrentClaimAdvances
  <2>1. /\ processed[c.job] = P!NotProcessed /\ lastCommandAt <= now
        /\ P!NextTimelineTransition(cycle, now) # {}
    BY ClaimAdvances
  <2>2. lastCommandAt \in Nat /\ now \in Nat
    BY Numbers DEF IInv, PlanInv, PP!P!TypeOK, PP!P!Timestamps, TableTypes
  <2> QED
    BY <2>1, <2>2 DEF P!Acceptable
<1>3. IInv => ScheduleIsSound
  BY <1>1, <1>2 DEF ScheduleIsSound, IInv
<1> QED
  BY <1>3, AlwaysInv, PTL

(* Only a scheduled advance takes a Plan into Concern, and only once its   *)
(* cycle's last deadline has passed.                                       *)
LEMMA ConcernIsLate ==
  ASSUME IInv, [Next]_vars, cycle.stage # "concern", cycle'.stage = "concern"
  PROVE  cycle.concernAt <= now
<1>1. cycle' # cycle
  OBVIOUS
<1>2. ASSUME NEW key \in ApiKeys, Commit(key) PROVE FALSE
  <2>1. PICK at \in Timestamps : cycle' = cycle \/ Renewed(at)
    BY <1>2, OwnerStep
  <2> QED
    BY <1>1, <2>1 DEF Renewed
<1>3. PICK w \in Workers : \E c \in held[w] : AdvanceScheduled(w, c)
  BY <1>1, <1>2
     DEF vars, Next, Submit, EndWithoutChange, ClaimDue, Work, RunNotice, FailClaim, Crash,
         Tick, planVars
<1>4. PICK c \in held[w] : AdvanceScheduled(w, c)
  BY <1>3
<1>5. AdvancePlan(c) /\ J!IsCurrentLease(jobs[c.job], c.lease, now)
  BY <1>1, <1>4 DEF AdvanceScheduled, RetireStaleSchedule, planVars
<1>6. PICK t \in P!NextTimelineTransition(cycle, now) :
        cycle' = [cycle EXCEPT !.stage = t.to]
  BY <1>5, AdvanceStep
<1>7. PP!P!TypeOK
  BY DEF IInv, PlanInv
<1>8. t.to = "concern"
  BY <1>6, <1>7 DEF PP!P!TypeOK, PP!P!Cycles
<1>9. now >= cycle.concernAt /\ now \in Nat /\ cycle.concernAt \in Nat
  <2>1. now \in Timestamps /\ Timestamps \subseteq Nat
    BY Numbers DEF IInv, TableTypes
  <2> QED
    BY <1>6, <1>7, <1>8, <2>1, OneRung, PlanTypes
<1> QED
  BY <1>9

(* No Concern is raised on an Owner who was there: when the Plan enters    *)
(* it, the interval and the grace period have passed on the database clock *)
(* since every Check-in, arming and resumption (applyTimeAdvance, run by a *)
(* worker's claim).                                                        *)
THEOREM NoConcernWhilePresent == Spec => NoConcernForAPresentOwner
<1>1. IInv /\ [Next]_vars =>
        [(cycle.stage # "concern" /\ cycle'.stage = "concern") =>
           \A i \in DOMAIN events :
             events[i].type \in RenewalEvents =>
               events[i].at + CheckInIntervalMs + GracePeriodMs <= now]_vars
  <2> SUFFICES ASSUME IInv, [Next]_vars, cycle.stage # "concern", cycle'.stage = "concern",
                      NEW i \in DOMAIN events,
                      events[i].type \in RenewalEvents
               PROVE  events[i].at + CheckInIntervalMs + GracePeriodMs <= now
    OBVIOUS
  <2>1. cycle.concernAt <= now
    BY ConcernIsLate
  <2>2. events[i].at <= cycle.startedAt
    BY DEF IInv, RenewalsArePast, RenewalEvents
  <2>3. /\ events[i].at \in Nat
    <3>1. events \in Seq(PP!EventRecords)
      BY DEF IInv, PlanInv, PP!P!TypeOK, PP!EventRecords, PP!P!Timestamps
    <3> QED
      BY <3>1, HistoryTypes
  <2>4. FitsPolicy(cycle) /\ cycle.startedAt \in Nat /\ now \in Nat
    BY PolicyFits, Numbers
       DEF IInv, PlanInv, TableTypes, PP!P!TypeOK, PP!P!Cycles, PP!P!Timestamps
  <2> QED
    BY <2>1, <2>2, <2>3, <2>4, Numbers DEF FitsPolicy
<1> QED
  BY <1>1, AlwaysInv, PTL DEF Spec, NoConcernForAPresentOwner
=============================================================================
