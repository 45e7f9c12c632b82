----------------------------- MODULE PlanProofs -----------------------------
(***************************************************************************)
(* Proofs about a Plan, the application on its store, and its work queue.  *)
(*                                                                         *)
(* The durable work queue is sound, and what is settled stays settled, for *)
(* every number of jobs, workers and attempts, every lease and retry       *)
(* delay, and every skew between the clocks.                               *)
(*                                                                         *)
(* The Plan: type correctness, the inductive invariant of its timeline,    *)
(* that it implements ContinuityTimeline, what its history says of         *)
(* escalations and Concerns, and what one command may do; for every        *)
(* policy, every set of idempotency keys and a history of any length.      *)
(*                                                                         *)
(* The application: commands commit only at the word of a session that may *)
(* send them, in the order of their times, into tables that agree, and     *)
(* what is restored was once committed; for any number of requests and     *)
(* sessions, whatever the domain decides, and for exports in one step or   *)
(* in three.                                                               *)
(***************************************************************************)
EXTENDS SafetyJobs, FiniteSetTheorems, SequenceTheorems, TLAPS

CONSTANTS
  Keys, CheckInIntervalMs, ReminderLeadMs, GracePeriodMs, MaxSafe,     \* Plan
  Requests, RequestOf, Lifecycle, ScheduledIntent, Sessions, OwnerOf, PlanOwner,
  SessionMs, RecentMs, Statements, MaxTime, MaxArrivals, MaxExports,
  None                                                        \* PlanApplication

VARIABLES
  lifecycle, hasRehearsed, lastCommandAt, cycle, processed, events,    \* Plan
  plan, commands, audit, sessions, requests, log, export, snapshot, restored,
  clock, arrivals, exports                                    \* PlanApplication

P == INSTANCE Plan
A == INSTANCE PlanApplication WITH now <- clock

(***************************************************************************)
(* The durable work queue.                                                 *)
(***************************************************************************)

(* A claim is held once: the job and the number of the claim name its      *)
(* holder.                                                                 *)
ClaimsAreUnique ==
  \A v, w \in Workers : \A c \in held[v], d \in held[w] :
    c.job = d.job /\ c.lease = d.lease => v = w /\ c = d

(* The sink keeps the payload that was enqueued.                           *)
ReceiptsAreTrue == \A j \in DOMAIN receipts : receipts[j] = jobs[j].intent.content

(* The inductive invariant.  A lease could have two current holders only   *)
(* if two claims had its number: every claim takes a number above all      *)
(* those still held (ClaimsAreFenced), so they stay unique.                *)
QueueIInv ==
  /\ TypeOK /\ JobsAreValid /\ ClaimsAreUnique /\ ClaimsAreFenced
  /\ ReceiptsAreTrue /\ CompletedWasDelivered

-----------------------------------------------------------------------------
(* The transitions of one job.                                             *)

(* What no transition of a job may undo: its intent stays and the number   *)
(* of its claims never falls.                                              *)
Succeeds(next, job) ==
  next.intent = job.intent /\ next.leaseVersion >= job.leaseVersion

(* The values the transitions write.                                       *)
LEMMA WrittenValues ==
  /\ NoLease \in Nat /\ Forever \in Int
  /\ {"pending", "leased", "completed", "dead_letter"} \subseteq Statuses
  /\ {"none", "lease_expired", "retryable"} \subseteq FailureCodes
BY DEF NoLease, Forever, Statuses, FailureCodes

(* A new job can be read and claimed.                                      *)
LEMMA CreatePendingJobValid ==
  ASSUME NEW intent \in Intents
  PROVE  /\ CreatePendingJob(intent) \in Jobs
         /\ ValidJob(CreatePendingJob(intent))
         /\ CreatePendingJob(intent).status = "pending"
         /\ CreatePendingJob(intent).intent = intent
<1>1. intent.dueAt \in Int
  <2>1. intent.dueAt \in DueTimes
    BY DEF Intents
  <2>2. DueTimes \subseteq Nat
    BY QueueAssumption
  <2>3. intent.dueAt \in Nat
    BY <2>1, <2>2
  <2>4. QED
    BY <2>3
<1>2. CreatePendingJob(intent) \in Jobs
  <2>1. 0 \in Nat
    OBVIOUS
  <2>2. QED
    BY <1>1, <2>1, WrittenValues, Zenon DEF CreatePendingJob, Jobs
<1>3. ValidJob(CreatePendingJob(intent))
  BY QueueAssumption DEF CreatePendingJob, NoLease, ValidJob
<1>4. QED
  BY <1>2, <1>3 DEF CreatePendingJob

(* A job without an attempt left may be buried.                            *)
LEMMA DeadLetterJobValid ==
  ASSUME NEW job \in Jobs, ValidJob(job), job.attempts = MaxAttempts,
         NEW code \in FailureCodes
  PROVE  /\ DeadLetterJob(job, code) \in Jobs
         /\ ValidJob(DeadLetterJob(job, code))
         /\ Succeeds(DeadLetterJob(job, code), job)
         /\ DeadLetterJob(job, code).status = "dead_letter"
<1>1. DeadLetterJob(job, code) \in Jobs
  BY WrittenValues DEF DeadLetterJob, Unleased, Jobs
<1>2. DeadLetterJob(job, code).status = "dead_letter"
  BY DEF DeadLetterJob, Unleased, Jobs
<1>3. Succeeds(DeadLetterJob(job, code), job)
  BY DEF DeadLetterJob, Unleased, Jobs, Succeeds
<1>4. ValidJob(DeadLetterJob(job, code))
  BY QueueAssumption DEF DeadLetterJob, Unleased, Jobs, NoLease, ValidJob
<1>5. QED
  BY <1>1, <1>2, <1>3, <1>4

(* A claim leases a job under the next number, or buries one that has no   *)
(* attempt left.                                                           *)
LEMMA ClaimedJobValid ==
  ASSUME NEW job \in Jobs, ValidJob(job), IsDue(job, now), now \in Nat
  PROVE  /\ ClaimedJob(job) \in Jobs
         /\ ValidJob(ClaimedJob(job))
         /\ Succeeds(ClaimedJob(job), job)
         /\ \/ /\ ClaimedJob(job).status = "leased"
               /\ ClaimedJob(job).leaseVersion = job.leaseVersion + 1
               /\ ClaimedJob(job).leaseId = job.leaseVersion + 1
            \/ /\ ClaimedJob(job).status = "dead_letter"
               /\ job.status = "leased" /\ job.attempts = MaxAttempts
<1>1. CASE IsExhausted(job, MaxAttempts)
  <2>1. ClaimedJob(job) = DeadLetterJob(job, "lease_expired")
    BY <1>1 DEF ClaimedJob
  <2>2. job.status = "leased" /\ job.attempts = MaxAttempts
    BY <1>1, QueueAssumption DEF IsExhausted, ValidJob, Jobs
  <2>3. QED
    BY <2>1, <2>2, DeadLetterJobValid, WrittenValues
<1>2. CASE ~ IsExhausted(job, MaxAttempts)
  <2>1. ClaimedJob(job) = LeasedJob(job, now, LeaseMs)
    BY <1>2 DEF ClaimedJob
  <2>2. now + LeaseMs \in Int
    BY QueueAssumption
  <2>3. LeasedJob(job, now, LeaseMs) \in Jobs
    <3>1. job.attempts + 1 \in Nat /\ job.leaseVersion + 1 \in Nat
      BY DEF Jobs
    <3>2. QED
      BY <2>2, <3>1, WrittenValues DEF LeasedJob, Jobs
  <2>4. /\ LeasedJob(job, now, LeaseMs).status = "leased"
        /\ LeasedJob(job, now, LeaseMs).attempts = job.attempts + 1
        /\ LeasedJob(job, now, LeaseMs).leaseVersion = job.leaseVersion + 1
        /\ LeasedJob(job, now, LeaseMs).leaseId = job.leaseVersion + 1
        /\ LeasedJob(job, now, LeaseMs).intent = job.intent
    BY DEF LeasedJob, Jobs
  <2>5. /\ job.attempts \in Nat /\ job.leaseVersion \in Nat
        /\ job.attempts < MaxAttempts
    BY <1>2, QueueAssumption DEF Jobs, IsExhausted, IsDue, ValidJob
  <2>6. ValidJob(LeasedJob(job, now, LeaseMs))
    BY <2>4, <2>5, QueueAssumption DEF ValidJob
  <2>7. QED
    BY <2>1, <2>3, <2>4, <2>5, <2>6 DEF Succeeds
<1>3. QED
  BY <1>1, <1>2

(* Completing a leased job.                                                *)
LEMMA CompletedJobValid ==
  ASSUME NEW job \in Jobs, ValidJob(job), job.status = "leased"
  PROVE  /\ CompletedJob(job) \in Jobs
         /\ ValidJob(CompletedJob(job))
         /\ Succeeds(CompletedJob(job), job)
<1>1. CompletedJob(job) \in Jobs
  BY WrittenValues DEF CompletedJob, Unleased, Jobs
<1>2. Succeeds(CompletedJob(job), job)
  BY DEF CompletedJob, Unleased, Jobs, Succeeds
<1>3. ValidJob(CompletedJob(job))
  BY QueueAssumption DEF CompletedJob, Unleased, Jobs, NoLease, ValidJob
<1>4. QED
  BY <1>1, <1>2, <1>3

(* The failure of a leased job returns it to the queue, or buries it after *)
(* its last attempt.                                                       *)
LEMMA FailedJobValid ==
  ASSUME NEW job \in Jobs, ValidJob(job), job.status = "leased",
         NEW retryAt \in Int
  PROVE  /\ FailedJob(job, retryAt, MaxAttempts) \in Jobs
         /\ ValidJob(FailedJob(job, retryAt, MaxAttempts))
         /\ Succeeds(FailedJob(job, retryAt, MaxAttempts), job)
         /\ FailedJob(job, retryAt, MaxAttempts).status # "completed"
<1>1. CASE job.attempts >= MaxAttempts
  <2>1. FailedJob(job, retryAt, MaxAttempts) = DeadLetterJob(job, "retryable")
    BY <1>1 DEF FailedJob
  <2>2. job.attempts = MaxAttempts
    BY <1>1, QueueAssumption DEF ValidJob, Jobs
  <2>3. QED
    BY <2>1, <2>2, DeadLetterJobValid, WrittenValues
<1>2. CASE ~ (job.attempts >= MaxAttempts)
  <2> DEFINE next == [Unleased(job) EXCEPT !.status = "pending",
                                           !.availableAt = retryAt,
                                           !.lastFailureCode = "retryable"]
  <2>1. FailedJob(job, retryAt, MaxAttempts) = next
    BY <1>2 DEF FailedJob
  <2>2. next \in Jobs
    BY WrittenValues DEF Unleased, Jobs
  <2>3. /\ next.status = "pending" /\ next.attempts = job.attempts
        /\ next.leaseVersion = job.leaseVersion /\ next.leaseId = NoLease
        /\ next.intent = job.intent
    BY DEF Unleased, Jobs
  <2>4. ValidJob(next)
    BY <1>2, <2>3, QueueAssumption DEF ValidJob, Jobs
  <2>5. job.leaseVersion \in Nat
    BY DEF Jobs
  <2>6. QED
    BY <2>1, <2>2, <2>3, <2>4, <2>5 DEF Succeeds
<1>3. QED
  BY <1>1, <1>2
-----------------------------------------------------------------------------
(* What every step does to the table of jobs.                              *)

(* The rows stay readable, no job disappears or forgets its claims, and    *)
(* only a job whose payload was accepted becomes completed.                *)
JobStep ==
  /\ DOMAIN jobs \subseteq DOMAIN jobs' /\ DOMAIN jobs' \subseteq JobIds
  /\ jobs' \in [DOMAIN jobs' -> Jobs]
  /\ \A j \in DOMAIN jobs' : ValidJob(jobs'[j])
  /\ \A j \in DOMAIN jobs : Succeeds(jobs'[j], jobs[j])
  /\ \A j \in DOMAIN jobs' : jobs'[j].status = "completed" =>
       /\ j \in DOMAIN jobs
       /\ \/ jobs[j].status = "completed"
          \/ \E w \in Workers : \E c \in held[w] : c.job = j /\ c.accepted

(* A table that does not change takes part in every step.                  *)
LEMMA SameJobs ==
  ASSUME QueueIInv, UNCHANGED jobs
  PROVE  JobStep
<1>1. /\ DOMAIN jobs \subseteq JobIds /\ jobs \in [DOMAIN jobs -> Jobs]
      /\ \A j \in DOMAIN jobs : jobs[j] \in Jobs /\ ValidJob(jobs[j])
  BY DEF QueueIInv, TypeOK, JobsAreValid
<1>2. \A j \in DOMAIN jobs : jobs[j].leaseVersion \in Nat
  BY <1>1 DEF Jobs
<1>3. QED
  BY <1>1, <1>2 DEF JobStep, Succeeds

(* Storing one transition of one job.                                      *)
LEMMA OneJobChanges ==
  ASSUME QueueIInv, NEW j \in DOMAIN jobs, NEW next \in Jobs, ValidJob(next),
         Succeeds(next, jobs[j]), jobs' = [jobs EXCEPT ![j] = next],
         next.status = "completed" =>
           \E w \in Workers : \E c \in held[w] : c.job = j /\ c.accepted
  PROVE  JobStep
<1>1. /\ DOMAIN jobs \subseteq JobIds /\ jobs \in [DOMAIN jobs -> Jobs]
      /\ \A k \in DOMAIN jobs : jobs[k] \in Jobs /\ ValidJob(jobs[k])
  BY DEF QueueIInv, TypeOK, JobsAreValid
<1>2. /\ DOMAIN jobs' = DOMAIN jobs
      /\ jobs' \in [DOMAIN jobs' -> Jobs]
      /\ jobs'[j] = next
      /\ \A k \in DOMAIN jobs \ {j} : jobs'[k] = jobs[k]
  BY <1>1
<1>3. \A k \in DOMAIN jobs : jobs[k].leaseVersion \in Nat
  BY <1>1 DEF Jobs
<1>4. \A k \in DOMAIN jobs : Succeeds(jobs'[k], jobs[k])
  BY <1>2, <1>3 DEF Succeeds
<1>5. QED
  BY <1>1, <1>2, <1>4 DEF JobStep

(* Enqueueing adds a new row and leaves a known one alone.                 *)
LEMMA EnqueueJobs ==
  ASSUME QueueIInv, NEW j \in JobIds, NEW intent \in Intents, Enqueue(j, intent)
  PROVE  JobStep
<1>1. /\ DOMAIN jobs \subseteq JobIds /\ jobs \in [DOMAIN jobs -> Jobs]
      /\ \A k \in DOMAIN jobs : jobs[k] \in Jobs /\ ValidJob(jobs[k])
  BY DEF QueueIInv, TypeOK, JobsAreValid
<1>2. /\ DOMAIN jobs' = DOMAIN jobs \cup {j}
      /\ \A k \in DOMAIN jobs : jobs'[k] = jobs[k]
      /\ j \notin DOMAIN jobs => jobs'[j] = CreatePendingJob(intent)
  BY DEF Enqueue, InsertJob
<1>3. jobs' \in [DOMAIN jobs' -> Jobs]
  <2>1. \A k \in DOMAIN jobs' : jobs'[k] \in Jobs
    BY <1>1, <1>2, CreatePendingJobValid
  <2>2. jobs' = [k \in DOMAIN jobs' |-> jobs'[k]]
    BY DEF Enqueue, InsertJob
  <2>3. QED
    BY <2>1, <2>2
<1>4. \A k \in DOMAIN jobs : jobs[k].leaseVersion \in Nat
  BY <1>1 DEF Jobs
<1>5. \A k \in DOMAIN jobs : Succeeds(jobs'[k], jobs[k])
  BY <1>2, <1>4 DEF Succeeds
<1>6. \A k \in DOMAIN jobs' : ValidJob(jobs'[k])
  BY <1>1, <1>2, CreatePendingJobValid
<1>7. \A k \in DOMAIN jobs' : jobs'[k].status = "completed" => k \in DOMAIN jobs
  BY <1>2, CreatePendingJobValid
<1>8. QED
  BY <1>1, <1>2, <1>3, <1>5, <1>6, <1>7 DEF JobStep

(* A claim moves the rows it chose and no other.                           *)
LEMMA ClaimJobs ==
  ASSUME QueueIInv, NEW chosen \in SUBSET {k \in DOMAIN jobs : IsDue(jobs[k], now)},
         jobs' = [j \in DOMAIN jobs |->
                    IF j \in chosen THEN ClaimedJob(jobs[j]) ELSE jobs[j]]
  PROVE  JobStep
<1>1. /\ DOMAIN jobs \subseteq JobIds /\ jobs \in [DOMAIN jobs -> Jobs]
      /\ \A k \in DOMAIN jobs : jobs[k] \in Jobs /\ ValidJob(jobs[k])
      /\ now \in Nat
  BY DEF QueueIInv, TypeOK, JobsAreValid
<1>2. \A k \in DOMAIN jobs : jobs[k].leaseVersion \in Nat
  BY <1>1 DEF Jobs
<1>3. \A k \in chosen : /\ ClaimedJob(jobs[k]) \in Jobs
                        /\ ValidJob(ClaimedJob(jobs[k]))
                        /\ Succeeds(ClaimedJob(jobs[k]), jobs[k])
                        /\ ClaimedJob(jobs[k]).status # "completed"
  BY <1>1, ClaimedJobValid
<1>4. /\ DOMAIN jobs' = DOMAIN jobs
      /\ \A k \in chosen : jobs'[k] = ClaimedJob(jobs[k])
      /\ \A k \in DOMAIN jobs \ chosen : jobs'[k] = jobs[k]
  OBVIOUS
<1>5. \A k \in DOMAIN jobs : jobs'[k] \in Jobs /\ ValidJob(jobs'[k])
  BY <1>1, <1>3, <1>4
<1>6. jobs' \in [DOMAIN jobs' -> Jobs]
  <2>1. jobs' = [k \in DOMAIN jobs |-> jobs'[k]]
    BY <1>4
  <2>2. QED
    BY <1>4, <1>5, <2>1
<1>7. \A k \in DOMAIN jobs : Succeeds(jobs'[k], jobs[k])
  BY <1>2, <1>3, <1>4 DEF Succeeds
<1>8. QED
  BY <1>1, <1>3, <1>4, <1>5, <1>6, <1>7 DEF JobStep

(* Completing a job, or the settlement that finds its lease gone.          *)
LEMMA CompleteJobs ==
  ASSUME QueueIInv, NEW w \in Workers, NEW c \in held[w], Complete(w, c)
  PROVE  JobStep
<1>1. CASE IsCurrentLease(jobs[c.job], c.lease, now)
  <2>1. /\ c.job \in DOMAIN jobs /\ c.accepted
        /\ jobs[c.job] \in Jobs /\ ValidJob(jobs[c.job])
        /\ jobs[c.job].status = "leased"
    BY <1>1 DEF QueueIInv, TypeOK, JobsAreValid, Complete, IsCurrentLease
  <2>2. jobs' = [jobs EXCEPT ![c.job] = CompletedJob(jobs[c.job])]
    BY <1>1 DEF Complete
  <2>3. QED
    BY <2>1, <2>2, CompletedJobValid, OneJobChanges
<1>2. CASE ~ IsCurrentLease(jobs[c.job], c.lease, now)
  BY <1>2, SameJobs DEF Complete
<1>3. QED
  BY <1>1, <1>2

(* Reporting a failure, or the report that finds its lease gone.           *)
LEMMA FailJobs ==
  ASSUME QueueIInv, NEW w \in Workers, NEW c \in held[w], Fail(w, c)
  PROVE  JobStep
<1>1. CASE IsCurrentLease(jobs[c.job], c.lease, now)
  <2>1. /\ c.job \in DOMAIN jobs
        /\ jobs[c.job] \in Jobs /\ ValidJob(jobs[c.job])
        /\ jobs[c.job].status = "leased" /\ now \in Nat
    BY <1>1 DEF QueueIInv, TypeOK, JobsAreValid, IsCurrentLease
  <2>2. PICK skew \in ClockSkews :
          jobs' = [jobs EXCEPT ![c.job] =
                     FailedJob(jobs[c.job], now + skew + RetryMs, MaxAttempts)]
    BY <1>1 DEF Fail
  <2>3. now + skew + RetryMs \in Int
    BY <2>1, QueueAssumption
  <2>4. QED
    BY <2>1, <2>2, <2>3, FailedJobValid, OneJobChanges
<1>2. CASE ~ IsCurrentLease(jobs[c.job], c.lease, now)
  BY <1>2, SameJobs DEF Fail
<1>3. QED
  BY <1>1, <1>2
-----------------------------------------------------------------------------
(* The inductive invariant.                                                *)

LEMMA InitIInv == Init => QueueIInv
<1>1. SUFFICES ASSUME Init PROVE QueueIInv
  OBVIOUS
<1>2. DOMAIN jobs = {} /\ DOMAIN receipts = {}
  BY <1>1 DEF Init
<1>3. \A w \in Workers : held[w] = {}
  BY <1>1 DEF Init
<1>4. TypeOK
  BY <1>1, <1>2, <1>3 DEF Init, TypeOK
<1>5. QED
  BY <1>2, <1>3, <1>4
     DEF QueueIInv, JobsAreValid, ClaimsAreUnique, ClaimsAreFenced, ReceiptsAreTrue,
         CompletedWasDelivered

(* A step that delivers nothing and adds no claim keeps the invariant.     *)
LEMMA FewerClaims ==
  ASSUME QueueIInv, JobStep, UNCHANGED receipts, now' \in Nat,
         held' \in [Workers -> SUBSET Claims],
         \A w \in Workers : held'[w] \subseteq held[w]
  PROVE  QueueIInv'
<1>1. TypeOK'
  BY DEF QueueIInv, TypeOK, JobStep
<1>2. JobsAreValid'
  BY DEF JobStep, JobsAreValid
<1>3. ClaimsAreUnique'
  BY DEF QueueIInv, ClaimsAreUnique
<1>4. ClaimsAreFenced'
  <2>1. SUFFICES ASSUME NEW w \in Workers, NEW c \in held'[w]
        PROVE  /\ 0 < c.lease /\ c.lease <= jobs'[c.job].leaseVersion
               /\ c.accepted => c.job \in DOMAIN receipts'
    BY DEF ClaimsAreFenced
  <2>2. /\ c \in Claims /\ c.job \in DOMAIN jobs
        /\ 0 < c.lease /\ c.lease <= jobs[c.job].leaseVersion
        /\ c.accepted => c.job \in DOMAIN receipts
    BY DEF QueueIInv, TypeOK, ClaimsAreFenced
  <2>3. jobs[c.job] \in Jobs /\ jobs'[c.job] \in Jobs
    BY <2>2 DEF QueueIInv, TypeOK, JobStep
  <2>4. jobs'[c.job].leaseVersion >= jobs[c.job].leaseVersion
    BY <2>2 DEF JobStep, Succeeds
  <2>5. QED
    BY <2>2, <2>3, <2>4 DEF Claims, Jobs
<1>5. ReceiptsAreTrue'
  BY DEF QueueIInv, TypeOK, ReceiptsAreTrue, JobStep, Succeeds
<1>6. CompletedWasDelivered'
  <2>1. SUFFICES ASSUME NEW j \in DOMAIN jobs', jobs'[j].status = "completed"
        PROVE  j \in DOMAIN receipts' /\ receipts'[j] = jobs'[j].intent.content
    BY DEF CompletedWasDelivered
  <2>2. j \in DOMAIN receipts
    BY <2>1 DEF QueueIInv, JobStep, CompletedWasDelivered, ClaimsAreFenced
  <2>3. QED
    BY <1>5, <2>2 DEF ReceiptsAreTrue
<1>7. QED
  BY <1>1, <1>2, <1>3, <1>4, <1>5, <1>6 DEF QueueIInv

(* A claim whose answer arrives takes numbers above all that are held.     *)
LEMMA ClaimIInv ==
  ASSUME QueueIInv, NEW w \in Workers, ClaimDue(w)
  PROVE  QueueIInv'
<1>1. PICK chosen \in SUBSET {k \in DOMAIN jobs : IsDue(jobs[k], now)} :
        /\ jobs' = [j \in DOMAIN jobs |->
                      IF j \in chosen THEN ClaimedJob(jobs[j]) ELSE jobs[j]]
        /\ \/ held' = [held EXCEPT ![w] =
                {[job |-> j, lease |-> jobs'[j].leaseId, accepted |-> FALSE] :
                   j \in {k \in chosen : jobs'[k].status = "leased"}}]
           \/ UNCHANGED held
  BY DEF ClaimDue, ClaimDueAmong, FirstDue
<1>2. JobStep
  BY <1>1, ClaimJobs
<1>3. UNCHANGED <<receipts, now>> /\ held[w] = {}
  BY DEF ClaimDue, ClaimDueAmong
<1>4. CASE UNCHANGED held
  BY <1>2, <1>3, <1>4, FewerClaims DEF QueueIInv, TypeOK
<1>5. CASE held' = [held EXCEPT ![w] =
             {[job |-> j, lease |-> jobs'[j].leaseId, accepted |-> FALSE] :
                j \in {k \in chosen : jobs'[k].status = "leased"}}]
  <2> DEFINE taken ==
        {[job |-> j, lease |-> jobs'[j].leaseId, accepted |-> FALSE] :
           j \in {k \in chosen : jobs'[k].status = "leased"}}
  <2>1. /\ held'[w] = taken
        /\ \A v \in Workers \ {w} : held'[v] = held[v]
    BY <1>5 DEF QueueIInv, TypeOK
  <2>2. \A c \in taken :
          /\ c \in Claims /\ ~ c.accepted /\ c.job \in DOMAIN jobs
          /\ c.lease = jobs[c.job].leaseVersion + 1
          /\ c.lease = jobs'[c.job].leaseVersion
          /\ c = [job |-> c.job, lease |-> jobs'[c.job].leaseId, accepted |-> FALSE]
    <3>1. SUFFICES ASSUME NEW c \in taken
          PROVE  /\ c \in Claims /\ ~ c.accepted /\ c.job \in DOMAIN jobs
                 /\ c.lease = jobs[c.job].leaseVersion + 1
                 /\ c.lease = jobs'[c.job].leaseVersion
                 /\ c = [job |-> c.job, lease |-> jobs'[c.job].leaseId,
                         accepted |-> FALSE]
      OBVIOUS
    <3>2. PICK j \in chosen :
            /\ jobs'[j].status = "leased"
            /\ c = [job |-> j, lease |-> jobs'[j].leaseId, accepted |-> FALSE]
      OBVIOUS
    <3>3. /\ j \in DOMAIN jobs /\ j \in JobIds /\ now \in Nat
          /\ jobs[j] \in Jobs /\ ValidJob(jobs[j]) /\ IsDue(jobs[j], now)
      BY DEF QueueIInv, TypeOK, JobsAreValid
    <3>4. jobs'[j] = ClaimedJob(jobs[j])
      BY <1>1, <3>3
    <3>5. /\ jobs'[j].leaseId = jobs[j].leaseVersion + 1
          /\ jobs'[j].leaseId = jobs'[j].leaseVersion
      BY <3>2, <3>3, <3>4, ClaimedJobValid
    <3>6. jobs'[j].leaseId \in Nat
      BY <3>3, <3>4, ClaimedJobValid DEF Jobs
    <3>7. c \in Claims
      BY <3>2, <3>3, <3>6 DEF Claims
    <3>8. QED
      BY <3>2, <3>3, <3>5, <3>7
  <2>3. held' \in [Workers -> SUBSET Claims]
    BY <1>5, <2>2 DEF QueueIInv, TypeOK
  <2>4. TypeOK'
    <3>1. \A v \in Workers : \A c \in held'[v] : c.job \in DOMAIN jobs'
      BY <1>1, <2>1, <2>2 DEF QueueIInv, TypeOK
    <3>2. QED
      BY <1>2, <1>3, <2>3, <3>1 DEF QueueIInv, TypeOK, JobStep
  <2>5. JobsAreValid'
    BY <1>2 DEF JobStep, JobsAreValid
  <2>6. \A v \in Workers \ {w} : \A c \in held[v] :
          /\ c \in Claims /\ c.job \in DOMAIN jobs
          /\ 0 < c.lease /\ c.lease <= jobs[c.job].leaseVersion
          /\ c.lease <= jobs'[c.job].leaseVersion
          /\ c.accepted => c.job \in DOMAIN receipts
    <3>1. SUFFICES ASSUME NEW v \in Workers, NEW c \in held[v]
          PROVE  /\ c \in Claims /\ c.job \in DOMAIN jobs
                 /\ 0 < c.lease /\ c.lease <= jobs[c.job].leaseVersion
                 /\ c.lease <= jobs'[c.job].leaseVersion
                 /\ c.accepted => c.job \in DOMAIN receipts
      OBVIOUS
    <3>2. /\ c \in Claims /\ c.job \in DOMAIN jobs
          /\ 0 < c.lease /\ c.lease <= jobs[c.job].leaseVersion
          /\ c.accepted => c.job \in DOMAIN receipts
      BY DEF QueueIInv, TypeOK, ClaimsAreFenced
    <3>3. jobs[c.job] \in Jobs /\ jobs'[c.job] \in Jobs
      BY <1>2, <3>2 DEF QueueIInv, TypeOK, JobStep
    <3>4. jobs'[c.job].leaseVersion >= jobs[c.job].leaseVersion
      BY <1>2, <3>2 DEF JobStep, Succeeds
    <3>5. QED
      BY <3>2, <3>3, <3>4 DEF Claims, Jobs
  <2>7. ClaimsAreFenced'
    <3>1. SUFFICES ASSUME NEW v \in Workers, NEW c \in held'[v]
          PROVE  /\ 0 < c.lease /\ c.lease <= jobs'[c.job].leaseVersion
                 /\ c.accepted => c.job \in DOMAIN receipts'
      BY DEF ClaimsAreFenced
    <3>2. CASE v = w
      <4>1. /\ c \in Claims /\ ~ c.accepted /\ c.job \in DOMAIN jobs
            /\ c.lease = jobs[c.job].leaseVersion + 1
            /\ c.lease = jobs'[c.job].leaseVersion
        BY <2>1, <2>2, <3>2
      <4>2. jobs[c.job].leaseVersion \in Nat
        BY <4>1 DEF QueueIInv, TypeOK, Jobs
      <4>3. QED
        BY <4>1, <4>2
    <3>3. CASE v # w
      BY <1>3, <2>1, <2>6, <3>3
    <3>4. QED
      BY <3>2, <3>3
  <2>8. ClaimsAreUnique'
    <3>1. SUFFICES ASSUME NEW u \in Workers, NEW v \in Workers,
                          NEW c \in held'[u], NEW d \in held'[v],
                          c.job = d.job, c.lease = d.lease
          PROVE  u = v /\ c = d
      BY DEF ClaimsAreUnique
    <3>2. CASE u = w /\ v = w
      BY <2>1, <2>2, <3>1, <3>2
    <3>3. CASE u # w /\ v # w
      BY <2>1, <3>1, <3>3 DEF QueueIInv, ClaimsAreUnique
    <3>4. ASSUME NEW x \in Workers, NEW y \in Workers, NEW e \in held'[x],
                 NEW f \in held'[y], x = w, y # w, e.job = f.job, e.lease = f.lease
          PROVE  FALSE
      <4>1. e.lease = jobs[e.job].leaseVersion + 1 /\ e.job \in DOMAIN jobs
        BY <2>1, <2>2, <3>4
      <4>2. f.lease <= jobs[f.job].leaseVersion
        BY <2>1, <2>6, <3>4
      <4>3. jobs[e.job].leaseVersion \in Nat
        BY <4>1 DEF QueueIInv, TypeOK, Jobs
      <4>4. QED
        BY <3>4, <4>1, <4>2, <4>3
    <3>5. QED
      BY <3>1, <3>2, <3>3, <3>4
  <2>9. ReceiptsAreTrue'
    BY <1>2, <1>3 DEF QueueIInv, TypeOK, ReceiptsAreTrue, JobStep, Succeeds
  <2>10. CompletedWasDelivered'
    <3>1. SUFFICES ASSUME NEW j \in DOMAIN jobs', jobs'[j].status = "completed"
          PROVE  j \in DOMAIN receipts' /\ receipts'[j] = jobs'[j].intent.content
      BY DEF CompletedWasDelivered
    <3>2. j \in DOMAIN receipts
      BY <1>2, <3>1 DEF QueueIInv, JobStep, CompletedWasDelivered, ClaimsAreFenced
    <3>3. QED
      BY <1>3, <2>9, <3>2 DEF ReceiptsAreTrue
  <2>11. QED
    BY <2>4, <2>5, <2>7, <2>8, <2>9, <2>10 DEF QueueIInv
<1>6. QED
  BY <1>1, <1>4, <1>5

(* A payload the sink takes is that of the claim's job, for good.          *)
LEMMA AcceptIInv ==
  ASSUME QueueIInv, NEW w \in Workers, NEW c \in held[w], AcceptSyntheticSink(w, c)
  PROVE  QueueIInv'
<1> DEFINE e == [c EXCEPT !.accepted = TRUE]
           digest == jobs[c.job].intent.content
<1>1. /\ c \in Claims /\ c.job \in DOMAIN jobs /\ ~ c.accepted
      /\ 0 < c.lease /\ c.lease <= jobs[c.job].leaseVersion
  BY DEF QueueIInv, TypeOK, ClaimsAreFenced, AcceptSyntheticSink
<1>2. e \in Claims /\ e.job = c.job /\ e.lease = c.lease /\ e.accepted
  BY <1>1 DEF Claims
<1>3. /\ UNCHANGED <<jobs, now>>
      /\ held' = [held EXCEPT ![w] = (held[w] \ {c}) \cup {e}]
      /\ receipts' = [j \in DOMAIN receipts \cup {c.job} |->
                        IF j = c.job THEN digest ELSE receipts[j]]
  BY DEF AcceptSyntheticSink
<1>4. /\ held'[w] = (held[w] \ {c}) \cup {e}
      /\ \A v \in Workers \ {w} : held'[v] = held[v]
  BY <1>3 DEF QueueIInv, TypeOK
<1>5. digest \in Contents
  <2>1. jobs[c.job] \in Jobs
    BY <1>1 DEF QueueIInv, TypeOK
  <2>2. QED
    BY <2>1 DEF Jobs, Intents
<1>6. TypeOK'
  <2>1. receipts' \in [DOMAIN receipts' -> Contents]
    BY <1>3, <1>5 DEF QueueIInv, TypeOK
  <2>2. DOMAIN receipts' \subseteq DOMAIN jobs'
    BY <1>1, <1>3 DEF QueueIInv, TypeOK
  <2>3. held' \in [Workers -> SUBSET Claims]
    BY <1>2, <1>3 DEF QueueIInv, TypeOK
  <2>4. \A v \in Workers : \A d \in held'[v] : d.job \in DOMAIN jobs'
    BY <1>1, <1>2, <1>3, <1>4 DEF QueueIInv, TypeOK
  <2>5. QED
    BY <1>3, <2>1, <2>2, <2>3, <2>4 DEF QueueIInv, TypeOK
<1>7. JobsAreValid'
  BY <1>3 DEF QueueIInv, JobsAreValid
<1>8. ReceiptsAreTrue'
  BY <1>3 DEF QueueIInv, ReceiptsAreTrue
<1>9. ClaimsAreUnique'
  \* What is held after the step was held before it, under the same number.
  <2>1. \A v \in Workers : \A d \in held'[v] :
          \E b \in held[v] : /\ b.job = d.job /\ b.lease = d.lease
                             /\ IF b = c /\ v = w THEN d = e ELSE d = b
    <3>1. SUFFICES ASSUME NEW v \in Workers, NEW d \in held'[v]
          PROVE  \E b \in held[v] : /\ b.job = d.job /\ b.lease = d.lease
                                    /\ IF b = c /\ v = w THEN d = e ELSE d = b
      OBVIOUS
    <3>2. CASE v = w /\ d = e
      BY <1>2, <3>2
    <3>3. CASE ~ (v = w /\ d = e)
      <4>1. d \in held[v] /\ ~ (d = c /\ v = w)
        BY <1>4, <3>3
      <4>2. QED
        BY <4>1
    <3>4. QED
      BY <3>2, <3>3
  <2>2. SUFFICES ASSUME NEW u \in Workers, NEW v \in Workers,
                        NEW d \in held'[u], NEW f \in held'[v],
                        d.job = f.job, d.lease = f.lease
        PROVE  u = v /\ d = f
    BY DEF ClaimsAreUnique
  <2>3. PICK b \in held[u] : /\ b.job = d.job /\ b.lease = d.lease
                             /\ IF b = c /\ u = w THEN d = e ELSE d = b
    BY <2>1
  <2>4. PICK g \in held[v] : /\ g.job = f.job /\ g.lease = f.lease
                             /\ IF g = c /\ v = w THEN f = e ELSE f = g
    BY <2>1
  <2>5. u = v /\ b = g
    BY <2>2, <2>3, <2>4 DEF QueueIInv, ClaimsAreUnique
  <2>6. CASE b = c /\ u = w
    BY <2>3, <2>4, <2>5, <2>6
  <2>7. CASE ~ (b = c /\ u = w)
    BY <2>3, <2>4, <2>5, <2>7
  <2>8. QED
    BY <2>6, <2>7
<1>10. ClaimsAreFenced'
  BY <1>1, <1>2, <1>3, <1>4 DEF QueueIInv, ClaimsAreFenced
<1>11. CompletedWasDelivered'
  BY <1>3, <1>8 DEF QueueIInv, CompletedWasDelivered, ReceiptsAreTrue
<1>12. QED
  BY <1>6, <1>7, <1>8, <1>9, <1>10, <1>11 DEF QueueIInv

(* Every step of the queue keeps the invariant.                            *)
LEMMA NextIInv == QueueIInv /\ [Next]_vars => QueueIInv'
<1>1. SUFFICES ASSUME QueueIInv, [Next]_vars PROVE QueueIInv'
  OBVIOUS
<1>2. now \in Nat /\ held \in [Workers -> SUBSET Claims]
  BY <1>1 DEF QueueIInv, TypeOK
<1>3. CASE \E j \in JobIds, intent \in Intents : Enqueue(j, intent)
  <2>1. PICK j \in JobIds, intent \in Intents : Enqueue(j, intent)
    BY <1>3
  <2>2. JobStep
    BY <1>1, <2>1, EnqueueJobs
  <2>3. UNCHANGED <<receipts, held, now>>
    BY <2>1 DEF Enqueue
  <2>4. QED
    BY <1>1, <1>2, <2>2, <2>3, FewerClaims
<1>4. ASSUME NEW w \in Workers, ClaimDue(w) PROVE QueueIInv'
  BY <1>1, <1>4, ClaimIInv
<1>5. ASSUME NEW w \in Workers, NEW c \in held[w], AcceptSyntheticSink(w, c)
      PROVE  QueueIInv'
  BY <1>1, <1>5, AcceptIInv
<1>6. ASSUME NEW w \in Workers, NEW c \in held[w], Complete(w, c) PROVE QueueIInv'
  <2>1. JobStep
    BY <1>1, <1>6, CompleteJobs
  <2>2. UNCHANGED <<receipts, now>> /\ held' = [held EXCEPT ![w] = held[w] \ {c}]
    BY <1>6 DEF Complete, Drop
  <2>3. QED
    BY <1>1, <1>2, <2>1, <2>2, FewerClaims
<1>7. ASSUME NEW w \in Workers, NEW c \in held[w], Fail(w, c) PROVE QueueIInv'
  <2>1. JobStep
    BY <1>1, <1>7, FailJobs
  <2>2. UNCHANGED <<receipts, now>> /\ held' = [held EXCEPT ![w] = held[w] \ {c}]
    BY <1>7 DEF Fail, Drop
  <2>3. QED
    BY <1>1, <1>2, <2>1, <2>2, FewerClaims
<1>8. ASSUME NEW w \in Workers, Crash(w) PROVE QueueIInv'
  <2>1. UNCHANGED <<jobs, receipts, now>> /\ held' = [held EXCEPT ![w] = {}]
    BY <1>8 DEF Crash
  <2>2. JobStep
    BY <1>1, <2>1, SameJobs
  <2>3. QED
    BY <1>1, <1>2, <2>1, <2>2, FewerClaims
<1>9. CASE Tick \/ UNCHANGED vars
  <2>1. UNCHANGED <<jobs, receipts, held>> /\ now' \in Nat
    BY <1>2, <1>9 DEF Tick, vars
  <2>2. JobStep
    BY <1>1, <2>1, SameJobs
  <2>3. QED
    BY <1>1, <1>2, <2>1, <2>2, FewerClaims
<1>10. QED
  BY <1>1, <1>3, <1>4, <1>5, <1>6, <1>7, <1>8, <1>9 DEF Next, Work

(* The queue keeps its inductive invariant.                                *)
THEOREM QueueInvariant == Spec => []QueueIInv
<1>1. QED
  BY InitIInv, NextIInv, PTL DEF Spec

(* Of the claims held for a job, at most one could settle it.              *)
LEMMA UniqueMeansFenced == ClaimsAreUnique => OneCurrentHolder
BY DEF ClaimsAreUnique, OneCurrentHolder, IsCurrentLease

(* The queue is sound: typed, readable, with one current holder per job,   *)
(* fenced against superseded claims and true to its sink (PgSafetyJobStore *)
(* and DurableNotificationWorker), for every instance of the constants.    *)
THEOREM QueueSound == Spec => []QueueIsSound
<1>1. QueueIInv => QueueIsSound
  BY UniqueMeansFenced DEF QueueIInv, QueueIsSound
<1>2. QED
  BY <1>1, QueueInvariant, PTL
-----------------------------------------------------------------------------
(* What is settled stays settled.                                          *)

\* What a step may do to a job that is there.
SettledStep ==
  \A j \in DOMAIN jobs :
    /\ j \in DOMAIN jobs' /\ jobs'[j].intent = jobs[j].intent
    /\ jobs[j].status \in {"completed", "dead_letter"} => jobs'[j] = jobs[j]
    /\ jobs[j].status = "leased" /\ jobs[j].leaseExpiresAt <= now =>
         \/ jobs'[j] = jobs[j]
         \/ jobs'[j].status = "leased" /\ jobs'[j].leaseId > jobs[j].leaseId
         \/ jobs'[j].status = "dead_letter" /\ jobs[j].attempts = MaxAttempts

(* A claim touches only what is due, and what it buries has no attempt     *)
(* left.                                                                   *)
LEMMA ClaimSettles ==
  ASSUME QueueIInv, NEW w \in Workers, ClaimDue(w)
  PROVE  SettledStep
<1>1. PICK chosen \in SUBSET {k \in DOMAIN jobs : IsDue(jobs[k], now)} :
        jobs' = [j \in DOMAIN jobs |->
                   IF j \in chosen THEN ClaimedJob(jobs[j]) ELSE jobs[j]]
  BY DEF ClaimDue, ClaimDueAmong, FirstDue
<1>2. SUFFICES ASSUME NEW j \in chosen
      PROVE  /\ jobs'[j].intent = jobs[j].intent
             /\ jobs[j].status \notin {"completed", "dead_letter"}
             /\ jobs[j].status = "leased" =>
                  \/ jobs'[j].status = "leased" /\ jobs'[j].leaseId > jobs[j].leaseId
                  \/ jobs'[j].status = "dead_letter" /\ jobs[j].attempts = MaxAttempts
  BY <1>1 DEF SettledStep
<1>3. /\ jobs[j] \in Jobs /\ ValidJob(jobs[j]) /\ IsDue(jobs[j], now)
      /\ now \in Nat /\ jobs'[j] = ClaimedJob(jobs[j])
  BY <1>1 DEF QueueIInv, TypeOK, JobsAreValid
<1>4. jobs[j].status \notin {"completed", "dead_letter"}
  BY <1>3 DEF IsDue
<1>5. jobs[j].status = "leased" =>
        jobs[j].leaseId = jobs[j].leaseVersion /\ jobs[j].leaseVersion \in Nat
  BY <1>3 DEF ValidJob, Jobs
<1>6. QED
  BY <1>3, <1>4, <1>5, ClaimedJobValid DEF Succeeds

(* A settlement changes the one job whose lease it holds and that has not  *)
(* run out.                                                                *)
LEMMA HolderSettles ==
  ASSUME QueueIInv, NEW w \in Workers, NEW c \in held[w],
         Complete(w, c) \/ Fail(w, c)
  PROVE  SettledStep
<1>1. JobStep
  BY CompleteJobs, FailJobs
<1>2. \A j \in DOMAIN jobs : j \in DOMAIN jobs' /\ jobs'[j].intent = jobs[j].intent
  BY <1>1 DEF JobStep, Succeeds
<1>3. \A j \in DOMAIN jobs :
        jobs'[j] = jobs[j] \/ IsCurrentLease(jobs[j], c.lease, now)
  BY DEF Complete, Fail
<1>4. \A j \in DOMAIN jobs : jobs[j].leaseExpiresAt \in Int
  BY DEF QueueIInv, TypeOK, Jobs
<1>5. now \in Int
  BY DEF QueueIInv, TypeOK
<1>6. QED
  BY <1>2, <1>3, <1>4, <1>5 DEF IsCurrentLease, SettledStep

(* Every step leaves settled jobs alone, and touches a job whose lease has *)
(* run out only by claiming it again.                                      *)
LEMMA NextSettles == QueueIInv /\ [Next]_vars => SettledStep
<1>1. SUFFICES ASSUME QueueIInv, [Next]_vars PROVE SettledStep
  OBVIOUS
<1>2. CASE UNCHANGED jobs
  BY <1>2 DEF SettledStep
<1>3. ASSUME NEW j \in JobIds, NEW intent \in Intents, Enqueue(j, intent)
      PROVE  SettledStep
  BY <1>3 DEF Enqueue, InsertJob, SettledStep
<1>4. ASSUME NEW w \in Workers, ClaimDue(w) PROVE SettledStep
  BY <1>1, <1>4, ClaimSettles
<1>5. ASSUME NEW w \in Workers, NEW c \in held[w], Complete(w, c) \/ Fail(w, c)
      PROVE  SettledStep
  BY <1>1, <1>5, HolderSettles
<1>6. QED
  BY <1>1, <1>2, <1>3, <1>4, <1>5
     DEF Next, vars, Work, AcceptSyntheticSink, Crash, Tick

(* A settled job stays as it is and its intent never changes; once a lease *)
(* has run out, only a claim with a higher number, or the dead letter of a *)
(* job with no attempt left, moves the job (stageJob, claimDueTransaction, *)
(* complete and fail of PgSafetyJobStore).                                 *)
THEOREM QueueSettles == Spec => SettledForGood
<1>1. QueueIInv /\ [Next]_vars => [SettledStep]_vars
  BY NextSettles
<1>2. QED
  BY <1>1, QueueInvariant, PTL DEF Spec, SettledForGood, SettledStep

(***************************************************************************)
(* The Plan.                                                               *)
(***************************************************************************)

EventRecords == [type : P!EventTypes, at : P!Timestamps]

\* A command that takes effect, whatever its caller.
Accepted(key, at, authenticated, recently, revision) ==
  \/ P!RehearsePlan(key, at, authenticated, revision)
  \/ P!ArmPlan(key, at, authenticated, recently, revision)
  \/ P!PausePlan(key, at, authenticated, recently, revision)
  \/ P!ResumePlan(key, at, authenticated, recently, revision)
  \/ P!DisablePlan(key, at, authenticated, recently, revision)
  \/ P!OwnerCheckIn(key, at, authenticated)
  \/ P!AdvanceTime(key, at)

(* Every step is a command that takes effect, or a replay that changes     *)
(* nothing.                                                                *)
LEMMA StepCases ==
  [P!Next]_(P!vars) =>
    \/ UNCHANGED P!vars
    \/ \E key \in Keys, at \in P!Timestamps, authenticated, recently \in BOOLEAN,
         revision \in {P!PolicyRevision, P!PolicyRevision + 1} :
           Accepted(key, at, authenticated, recently, revision)
<1>1. SUFFICES ASSUME P!Next
      PROVE  \/ UNCHANGED P!vars
             \/ \E key \in Keys, at \in P!Timestamps, authenticated, recently \in BOOLEAN,
                  revision \in {P!PolicyRevision, P!PolicyRevision + 1} :
                    Accepted(key, at, authenticated, recently, revision)
  OBVIOUS
<1>2. PICK key \in Keys, at \in P!Timestamps,
           revision \in {P!PolicyRevision, P!PolicyRevision + 1} :
        \/ \E authenticated, recently \in BOOLEAN :
             P!OwnerCommand(key, at, authenticated, recently, revision)
        \/ P!AdvanceTime(key, at)
        \/ \E type \in P!LifecycleCommands \cup {"ADVANCE_TIME", "OWNER_CHECK_IN"} :
             P!Replay(key, type, revision)
  BY <1>1 DEF P!Next
<1>3. CASE \E authenticated, recently \in BOOLEAN :
             P!OwnerCommand(key, at, authenticated, recently, revision)
  BY <1>3 DEF P!OwnerCommand, Accepted
<1>4. CASE P!AdvanceTime(key, at)
  <2>1. Accepted(key, at, TRUE, TRUE, revision)
    BY <1>4 DEF Accepted
  <2>2. QED
    BY <2>1
<1>5. CASE \E type \in P!LifecycleCommands \cup {"ADVANCE_TIME", "OWNER_CHECK_IN"} :
             P!Replay(key, type, revision)
  BY <1>5 DEF P!Replay
<1>6. QED
  BY <1>2, <1>3, <1>4, <1>5

(* A cycle that fits the time line is well typed.                          *)
LEMMA CreateCycleType ==
  ASSUME P!PolicyAssumption, NEW at \in P!Timestamps, P!CycleFits(at)
  PROVE  P!CreateCycle(at) \in P!Cycles
BY DEF P!PolicyAssumption, P!CycleFits, P!CreateCycle, P!Cycles, P!Stages, P!Timestamps

(* Recording a command keeps the bookkeeping well typed.                   *)
LEMMA RecordType ==
  ASSUME P!TypeOK, NEW key \in Keys, NEW at \in P!Timestamps, NEW type, NEW revision,
         P!PlanCommandFingerprint(type, revision) \in P!Fingerprints,
         NEW types \in Seq(P!EventTypes),
         P!Record(key, type, revision, at, types)
  PROVE  /\ lastCommandAt' \in P!Timestamps
         /\ processed' \in [Keys -> P!Fingerprints]
         /\ events' \in Seq(EventRecords)
<1>1. [i \in 1..Len(types) |-> P!Event(types[i], at)] \in Seq(EventRecords)
  <2>1. \A i \in 1..Len(types) : P!Event(types[i], at) \in EventRecords
    BY DEF P!Event, EventRecords
  <2>2. QED
    BY <2>1
<1>2. events \in Seq(EventRecords)
  BY DEF P!TypeOK, EventRecords
<1>3. events' \in Seq(EventRecords)
  BY <1>1, <1>2 DEF P!Record
<1>4. QED
  BY <1>3 DEF P!Record, P!TypeOK

(* The fingerprint of every command a Plan accepts.                        *)
LEMMA FingerprintType ==
  /\ \A type \in P!LifecycleCommands :
       P!PlanCommandFingerprint(type, P!PolicyRevision) \in P!Fingerprints
  /\ P!PlanCommandFingerprint("OWNER_CHECK_IN", 0) \in P!Fingerprints
  /\ P!PlanCommandFingerprint("ADVANCE_TIME", 0) \in P!Fingerprints
BY DEF P!PlanCommandFingerprint, P!Fingerprints, P!LifecycleCommands, P!PolicyRevision

(* A cancellation followed by the command's own event.                     *)
LEMMA CancelledType ==
  ASSUME NEW type \in P!EventTypes
  PROVE  P!CancelledConcern \o <<type>> \in Seq(P!EventTypes)
<1>1. "CONCERN_CANCELLED" \in P!EventTypes
  BY DEF P!EventTypes
<1>2. P!CancelledConcern \in Seq(P!EventTypes)
  BY <1>1 DEF P!CancelledConcern
<1>3. QED
  BY <1>2

-----------------------------------------------------------------------------
(* Type correctness.                                                       *)

LEMMA InitTypeOK ==
  ASSUME P!PolicyAssumption PROVE P!Init => P!TypeOK
<1>1. SUFFICES ASSUME P!Init PROVE P!TypeOK
  OBVIOUS
<1>2. lastCommandAt \in P!Timestamps /\ P!CycleFits(lastCommandAt)
  BY <1>1 DEF P!Init
<1>3. cycle \in P!Cycles
  BY <1>1, <1>2, CreateCycleType DEF P!Init
<1>4. events \in Seq([type : P!EventTypes, at : P!Timestamps])
  BY <1>1, <1>2 DEF P!Init, P!Event, P!EventTypes
<1>5. QED
  BY <1>1, <1>2, <1>3, <1>4
     DEF P!Init, P!TypeOK, P!Lifecycles, P!Fingerprints, P!NotProcessed

LEMMA NextTypeOK ==
  ASSUME P!PolicyAssumption PROVE P!TypeOK /\ [P!Next]_(P!vars) => P!TypeOK'
<1>1. SUFFICES ASSUME P!TypeOK, [P!Next]_(P!vars) PROVE P!TypeOK'
  OBVIOUS
<1>2. CASE UNCHANGED P!vars
  BY <1>1, <1>2 DEF P!TypeOK, P!vars
<1>3. SUFFICES
        ASSUME NEW key \in Keys, NEW at \in P!Timestamps,
               NEW authenticated \in BOOLEAN, NEW recently \in BOOLEAN,
               NEW revision \in {P!PolicyRevision, P!PolicyRevision + 1},
               Accepted(key, at, authenticated, recently, revision)
        PROVE  P!TypeOK'
  BY <1>1, <1>2, StepCases
<1>4. CASE P!RehearsePlan(key, at, authenticated, revision)
  <2>1. /\ P!Record(key, "REHEARSE_PLAN", P!PolicyRevision, at, <<"PLAN_REHEARSED">>)
        /\ hasRehearsed' = TRUE /\ UNCHANGED <<lifecycle, cycle>>
    BY <1>4 DEF P!RehearsePlan
  <2>2. <<"PLAN_REHEARSED">> \in Seq(P!EventTypes)
    BY DEF P!EventTypes
  <2>3. P!PlanCommandFingerprint("REHEARSE_PLAN", P!PolicyRevision) \in P!Fingerprints
    BY FingerprintType DEF P!LifecycleCommands
  <2>4. QED
    BY <1>1, <2>1, <2>2, <2>3, RecordType DEF P!TypeOK, EventRecords
<1>5. CASE P!ArmPlan(key, at, authenticated, recently, revision)
  <2>1. /\ P!Record(key, "ARM_PLAN", P!PolicyRevision, at, <<"PLAN_ARMED">>)
        /\ P!CycleFits(at) /\ cycle' = P!CreateCycle(at)
        /\ lifecycle' = "armed" /\ UNCHANGED hasRehearsed
    BY <1>5 DEF P!ArmPlan, P!LifecycleAllowed
  <2>2. <<"PLAN_ARMED">> \in Seq(P!EventTypes)
    BY DEF P!EventTypes
  <2>3. P!PlanCommandFingerprint("ARM_PLAN", P!PolicyRevision) \in P!Fingerprints
    BY FingerprintType DEF P!LifecycleCommands
  <2>4. QED
    BY <1>1, <2>1, <2>2, <2>3, RecordType, CreateCycleType
       DEF P!TypeOK, EventRecords, P!Lifecycles
<1>6. CASE P!PausePlan(key, at, authenticated, recently, revision)
  <2>1. /\ P!Record(key, "PAUSE_PLAN", P!PolicyRevision, at, <<"PLAN_PAUSED">>)
        /\ lifecycle' = "paused" /\ UNCHANGED <<hasRehearsed, cycle>>
    BY <1>6 DEF P!PausePlan, P!LifecycleAllowed
  <2>2. <<"PLAN_PAUSED">> \in Seq(P!EventTypes)
    BY DEF P!EventTypes
  <2>3. P!PlanCommandFingerprint("PAUSE_PLAN", P!PolicyRevision) \in P!Fingerprints
    BY FingerprintType DEF P!LifecycleCommands
  <2>4. QED
    BY <1>1, <2>1, <2>2, <2>3, RecordType DEF P!TypeOK, EventRecords, P!Lifecycles
<1>7. CASE P!ResumePlan(key, at, authenticated, recently, revision)
  <2>1. /\ P!Record(key, "RESUME_PLAN", P!PolicyRevision, at,
                  P!CancelledConcern \o <<"PLAN_RESUMED">>)
        /\ P!CycleFits(at) /\ cycle' = P!CreateCycle(at)
        /\ lifecycle' = "armed" /\ UNCHANGED hasRehearsed
    BY <1>7 DEF P!ResumePlan, P!LifecycleAllowed
  <2>2. P!CancelledConcern \o <<"PLAN_RESUMED">> \in Seq(P!EventTypes)
    BY CancelledType DEF P!EventTypes
  <2>3. P!PlanCommandFingerprint("RESUME_PLAN", P!PolicyRevision) \in P!Fingerprints
    BY FingerprintType DEF P!LifecycleCommands
  <2>4. QED
    BY <1>1, <2>1, <2>2, <2>3, RecordType, CreateCycleType
       DEF P!TypeOK, EventRecords, P!Lifecycles
<1>8. CASE P!DisablePlan(key, at, authenticated, recently, revision)
  <2>1. /\ P!Record(key, "DISABLE_PLAN", P!PolicyRevision, at,
                  P!CancelledConcern \o <<"PLAN_DISABLED">>)
        /\ \/ P!CycleFits(at) /\ cycle' = P!CreateCycle(at)
           \/ UNCHANGED cycle
        /\ lifecycle' = "disabled" /\ UNCHANGED hasRehearsed
    BY <1>8 DEF P!DisablePlan, P!LifecycleAllowed
  <2>2. P!CancelledConcern \o <<"PLAN_DISABLED">> \in Seq(P!EventTypes)
    BY CancelledType DEF P!EventTypes
  <2>3. P!PlanCommandFingerprint("DISABLE_PLAN", P!PolicyRevision) \in P!Fingerprints
    BY FingerprintType DEF P!LifecycleCommands
  <2>4. QED
    BY <1>1, <2>1, <2>2, <2>3, RecordType, CreateCycleType
       DEF P!TypeOK, EventRecords, P!Lifecycles
<1>9. CASE P!OwnerCheckIn(key, at, authenticated)
  <2>1. /\ P!Record(key, "OWNER_CHECK_IN", 0, at,
                  P!CancelledConcern \o <<"OWNER_CHECKED_IN">>)
        /\ P!CycleFits(at) /\ cycle' = P!CreateCycle(at)
        /\ UNCHANGED <<lifecycle, hasRehearsed>>
    BY <1>9 DEF P!OwnerCheckIn
  <2>2. P!CancelledConcern \o <<"OWNER_CHECKED_IN">> \in Seq(P!EventTypes)
    BY CancelledType DEF P!EventTypes
  <2>3. QED
    BY <1>1, <2>1, <2>2, RecordType, CreateCycleType, FingerprintType
       DEF P!TypeOK, EventRecords
<1>10. CASE P!AdvanceTime(key, at)
  <2>1. \/ /\ P!Record(key, "ADVANCE_TIME", 0, at, <<>>)
           /\ UNCHANGED <<lifecycle, hasRehearsed, cycle>>
        \/ \E t \in P!TimelineTransitions(cycle) :
             /\ cycle' = [cycle EXCEPT !.stage = t.to]
             /\ P!Record(key, "ADVANCE_TIME", 0, at, <<t.event>>)
             /\ UNCHANGED <<lifecycle, hasRehearsed>>
    BY <1>10 DEF P!AdvanceTime, P!NextTimelineTransition
  <2>2. CASE /\ P!Record(key, "ADVANCE_TIME", 0, at, <<>>)
             /\ UNCHANGED <<lifecycle, hasRehearsed, cycle>>
    <3>1. << >> \in Seq(P!EventTypes)
      OBVIOUS
    <3>2. QED
      BY <1>1, <2>2, <3>1, RecordType, FingerprintType DEF P!TypeOK, EventRecords
  <2>3. CASE \E t \in P!TimelineTransitions(cycle) :
               /\ cycle' = [cycle EXCEPT !.stage = t.to]
               /\ P!Record(key, "ADVANCE_TIME", 0, at, <<t.event>>)
               /\ UNCHANGED <<lifecycle, hasRehearsed>>
    <3>1. PICK t \in P!TimelineTransitions(cycle) :
                 /\ cycle' = [cycle EXCEPT !.stage = t.to]
                 /\ P!Record(key, "ADVANCE_TIME", 0, at, <<t.event>>)
                 /\ UNCHANGED <<lifecycle, hasRehearsed>>
      BY <2>3
    <3>2. t.to \in P!Stages /\ t.event \in P!EventTypes
      BY DEF P!TimelineTransitions, P!Stages, P!EventTypes, P!EscalationEvents
    <3>3. <<t.event>> \in Seq(P!EventTypes)
      BY <3>2
    <3>4. cycle' \in P!Cycles
      BY <1>1, <3>1, <3>2 DEF P!TypeOK, P!Cycles
    <3>5. QED
      BY <1>1, <3>1, <3>3, <3>4, RecordType, FingerprintType DEF P!TypeOK, EventRecords
  <2>4. QED
    BY <2>1, <2>2, <2>3
<1>11. QED
  BY <1>3, <1>4, <1>5, <1>6, <1>7, <1>8, <1>9, <1>10 DEF Accepted

(* A Plan is well typed after any sequence of commands.                    *)
THEOREM TypeCorrect ==
  ASSUME P!PolicyAssumption PROVE P!Spec => []P!TypeOK
BY InitTypeOK, NextTypeOK, PTL DEF P!Spec
-----------------------------------------------------------------------------
(* The timeline.                                                           *)

LEMMA InitTimeline ==
  ASSUME P!PolicyAssumption PROVE P!Init => P!TimelineConsistent
<1>1. SUFFICES ASSUME P!Init PROVE P!TimelineConsistent
  OBVIOUS
<1>2. cycle = P!CreateCycle(lastCommandAt) /\ lastCommandAt \in Nat
  BY <1>1 DEF P!Init, P!Timestamps
<1>3. P!StageFloor(cycle) <= lastCommandAt
  BY <1>2 DEF P!CreateCycle, P!StageFloor
<1>4. /\ cycle.reminderAt = cycle.startedAt + P!DelayOf.reminder
      /\ cycle.dueAt = cycle.startedAt + P!DelayOf.overdue
      /\ cycle.concernAt = cycle.startedAt + P!DelayOf.concern
  BY <1>2 DEF P!PolicyAssumption, P!CreateCycle, P!DelayOf
<1>5. lifecycle = "draft" /\ cycle.stage = "on_time"
  BY <1>1, <1>2 DEF P!Init, P!CreateCycle
<1>6. QED
  BY <1>3, <1>4, <1>5 DEF P!TimelineConsistent

(* A cycle that was just created is consistent with the command's time.    *)
LEMMA FreshCycle ==
  ASSUME P!PolicyAssumption, NEW at \in P!Timestamps,
         cycle' = P!CreateCycle(at), lastCommandAt' = at,
         lifecycle' \in {"armed", "paused"} => hasRehearsed',
         lifecycle' # "draft"
  PROVE  P!TimelineConsistent'
<1>1. P!StageFloor(cycle)' = at /\ cycle'.startedAt = at
  BY DEF P!CreateCycle, P!StageFloor
<1>2. /\ cycle'.reminderAt = cycle'.startedAt + P!DelayOf.reminder
      /\ cycle'.dueAt = cycle'.startedAt + P!DelayOf.overdue
      /\ cycle'.concernAt = cycle'.startedAt + P!DelayOf.concern
  BY DEF P!PolicyAssumption, P!CreateCycle, P!DelayOf, P!Timestamps
<1>3. QED
  BY <1>1, <1>2 DEF P!TimelineConsistent, P!Timestamps

(* So is one that was kept, at a later command.                            *)
LEMMA KeptCycle ==
  ASSUME P!TypeOK, P!TimelineConsistent, NEW at \in P!Timestamps,
         UNCHANGED cycle, at >= lastCommandAt, lastCommandAt' = at,
         lifecycle' \in {"armed", "paused"} => hasRehearsed',
         lifecycle' = "draft" => lifecycle = "draft"
  PROVE  P!TimelineConsistent'
<1>1. P!StageFloor(cycle) \in Int
  BY DEF P!TypeOK, P!StageFloor, P!Cycles, P!Stages, P!Timestamps
<1>2. P!StageFloor(cycle)' = P!StageFloor(cycle)
  BY DEF P!StageFloor
<1>3. P!StageFloor(cycle)' <= lastCommandAt'
  BY <1>1, <1>2 DEF P!TimelineConsistent, P!TypeOK, P!Timestamps
<1>4. QED
  BY <1>3 DEF P!TimelineConsistent

LEMMA NextTimeline ==
  ASSUME P!PolicyAssumption
  PROVE  P!TypeOK /\ P!TimelineConsistent /\ [P!Next]_(P!vars) => P!TimelineConsistent'
<1>1. SUFFICES ASSUME P!TypeOK, P!TimelineConsistent, [P!Next]_(P!vars)
      PROVE  P!TimelineConsistent'
  OBVIOUS
<1>2. CASE UNCHANGED P!vars
  BY <1>1, <1>2 DEF P!TimelineConsistent, P!StageFloor, P!vars
<1>3. SUFFICES
        ASSUME NEW key \in Keys, NEW at \in P!Timestamps,
               NEW authenticated \in BOOLEAN, NEW recently \in BOOLEAN,
               NEW revision \in {P!PolicyRevision, P!PolicyRevision + 1},
               Accepted(key, at, authenticated, recently, revision)
        PROVE  P!TimelineConsistent'
  BY <1>1, <1>2, StepCases
<1>4. CASE P!RehearsePlan(key, at, authenticated, revision)
  BY <1>1, <1>4, KeptCycle DEF P!RehearsePlan, P!Acceptable, P!Record
<1>5. CASE P!ArmPlan(key, at, authenticated, recently, revision)
  BY <1>1, <1>5, FreshCycle DEF P!ArmPlan, P!Record
<1>6. CASE P!PausePlan(key, at, authenticated, recently, revision)
  BY <1>1, <1>6, KeptCycle
     DEF P!PausePlan, P!LifecycleAllowed, P!Acceptable, P!Record, P!TimelineConsistent
<1>7. CASE P!ResumePlan(key, at, authenticated, recently, revision)
  BY <1>1, <1>7, FreshCycle DEF P!ResumePlan, P!Record, P!TimelineConsistent
<1>8. CASE P!DisablePlan(key, at, authenticated, recently, revision)
  BY <1>1, <1>8, FreshCycle, KeptCycle
     DEF P!DisablePlan, P!LifecycleAllowed, P!Acceptable, P!Record
<1>9. CASE P!OwnerCheckIn(key, at, authenticated)
  BY <1>1, <1>9, FreshCycle DEF P!OwnerCheckIn, P!Record, P!TimelineConsistent
<1>10. CASE P!AdvanceTime(key, at)
  <2>1. /\ at >= lastCommandAt /\ lastCommandAt' = at
        /\ UNCHANGED <<lifecycle, hasRehearsed>>
    BY <1>10 DEF P!AdvanceTime, P!Acceptable, P!Record
  <2>2. CASE UNCHANGED cycle
    BY <1>1, <2>1, <2>2, KeptCycle DEF P!TimelineConsistent
  <2>3. CASE /\ lifecycle = "armed"
             /\ \E t \in P!NextTimelineTransition(cycle, at) :
                  cycle' = [cycle EXCEPT !.stage = t.to]
    <3>1. PICK t \in P!TimelineTransitions(cycle) :
                 /\ t.from = cycle.stage /\ at >= t.when
                 /\ cycle' = [cycle EXCEPT !.stage = t.to]
      BY <2>3 DEF P!NextTimelineTransition
    <3>2. /\ cycle'.stage = t.to /\ cycle'.startedAt = cycle.startedAt
          /\ cycle'.reminderAt = cycle.reminderAt /\ cycle'.dueAt = cycle.dueAt
          /\ cycle'.concernAt = cycle.concernAt
      BY <1>1, <3>1 DEF P!TypeOK, P!Cycles
    <3>3. P!StageFloor(cycle') = t.when
      BY <3>2 DEF P!TimelineTransitions, P!StageFloor
    <3>4. QED
      BY <1>1, <2>1, <2>3, <3>1, <3>2, <3>3 DEF P!TimelineConsistent
  <2>4. QED
    BY <1>10, <2>2, <2>3 DEF P!AdvanceTime
<1>11. QED
  BY <1>3, <1>4, <1>5, <1>6, <1>7, <1>8, <1>9, <1>10 DEF Accepted

(* The stored deadlines, the stage and the lifecycle of a Plan agree after *)
(* any sequence of commands.                                               *)
THEOREM TimelineIsConsistent ==
  ASSUME P!PolicyAssumption PROVE P!Spec => []P!TimelineConsistent
BY InitTypeOK, NextTypeOK, InitTimeline, NextTimeline, PTL DEF P!Spec
-----------------------------------------------------------------------------
(* The Plan implements ContinuityTimeline.                                 *)

LEMMA InitPromise == P!Init => P!Timeline!Init
<1>1. SUFFICES ASSUME P!Init PROVE P!Timeline!Init
  OBVIOUS
<1>2. cycle = P!CreateCycle(lastCommandAt) /\ lastCommandAt \in Nat
  BY <1>1 DEF P!Init, P!Timestamps
<1>3. cycle.stage = "on_time" /\ cycle.startedAt = lastCommandAt
  BY <1>2 DEF P!CreateCycle
<1>4. QED
  BY <1>1, <1>2, <1>3 DEF P!Init, P!Timeline!Init

(* A command that starts a new cycle renews the promise.                   *)
LEMMA RenewalRefines ==
  ASSUME NEW at \in P!Timestamps, P!TypeOK, at >= lastCommandAt,
         cycle' = P!CreateCycle(at), lastCommandAt' = at,
         lifecycle # "disabled", lifecycle' = "armed"
  PROVE  P!Timeline!Renew
<1>1. cycle'.stage = "on_time" /\ cycle'.startedAt = at
  BY DEF P!CreateCycle
<1>2. QED
  BY <1>1 DEF P!Timeline!Renew, P!Timestamps

(* Every step of the Plan is a step of the promise, or changes nothing the *)
(* promise speaks of.                                                      *)
LEMMA NextPromise ==
  ASSUME P!PolicyAssumption
  PROVE  P!TypeOK /\ P!TimelineConsistent /\ [P!Next]_(P!vars)
           => [P!Timeline!Next]_(P!Timeline!timeline)
<1>1. SUFFICES ASSUME P!TypeOK, P!TimelineConsistent, [P!Next]_(P!vars)
      PROVE  [P!Timeline!Next]_(P!Timeline!timeline)
  OBVIOUS
<1>2. CASE UNCHANGED P!vars
  BY <1>2 DEF P!vars, P!Timeline!timeline
<1>3. SUFFICES
        ASSUME NEW key \in Keys, NEW at \in P!Timestamps,
               NEW authenticated \in BOOLEAN, NEW recently \in BOOLEAN,
               NEW revision \in {P!PolicyRevision, P!PolicyRevision + 1},
               Accepted(key, at, authenticated, recently, revision)
        PROVE  P!Timeline!Next
  BY <1>1, <1>2, StepCases
<1>4. CASE P!RehearsePlan(key, at, authenticated, revision)
  BY <1>4 DEF P!RehearsePlan, P!Acceptable, P!Record, P!Timestamps,
              P!Timeline!Next, P!Timeline!Hear
<1>5. CASE P!ArmPlan(key, at, authenticated, recently, revision)
  <2>1. P!Timeline!Renew
    BY <1>1, <1>5, RenewalRefines
       DEF P!ArmPlan, P!LifecycleAllowed, P!Acceptable, P!Record
  <2>2. QED
    BY <2>1 DEF P!Timeline!Next
<1>6. CASE P!PausePlan(key, at, authenticated, recently, revision)
  BY <1>6 DEF P!PausePlan, P!LifecycleAllowed, P!Acceptable, P!Record, P!Timestamps,
              P!Timeline!Next, P!Timeline!Suspend
<1>7. CASE P!ResumePlan(key, at, authenticated, recently, revision)
  <2>1. P!Timeline!Renew
    BY <1>1, <1>7, RenewalRefines
       DEF P!ResumePlan, P!LifecycleAllowed, P!Acceptable, P!Record
  <2>2. QED
    BY <2>1 DEF P!Timeline!Next
<1>8. CASE P!DisablePlan(key, at, authenticated, recently, revision)
  <2>1. /\ lifecycle # "disabled" /\ lifecycle' = "disabled"
        /\ at >= lastCommandAt /\ lastCommandAt' = at
        /\ \/ cycle.stage = "concern" /\ cycle' = P!CreateCycle(at)
           \/ cycle.stage # "concern" /\ UNCHANGED cycle
    BY <1>8 DEF P!DisablePlan, P!LifecycleAllowed, P!Acceptable, P!Record
  <2>2. cycle' = P!CreateCycle(at) => cycle'.stage = "on_time" /\ cycle'.startedAt = at
    BY DEF P!CreateCycle
  <2>3. QED
    BY <2>1, <2>2 DEF P!Timeline!Next, P!Timeline!Retire, P!Timestamps
<1>9. CASE P!OwnerCheckIn(key, at, authenticated)
  <2>1. P!Timeline!Renew
    BY <1>1, <1>9, RenewalRefines DEF P!OwnerCheckIn, P!Acceptable, P!Record
  <2>2. QED
    BY <2>1 DEF P!Timeline!Next
<1>10. CASE P!AdvanceTime(key, at)
  <2>1. /\ at >= lastCommandAt /\ lastCommandAt' = at
        /\ UNCHANGED lifecycle
    BY <1>10 DEF P!AdvanceTime, P!Acceptable, P!Record
  <2>2. CASE UNCHANGED cycle
    BY <2>1, <2>2 DEF P!Timeline!Next, P!Timeline!Hear, P!Timestamps
  <2>3. CASE /\ lifecycle = "armed"
             /\ \E t \in P!NextTimelineTransition(cycle, at) :
                  cycle' = [cycle EXCEPT !.stage = t.to]
    <3>1. PICK t \in P!TimelineTransitions(cycle) :
                 /\ t.from = cycle.stage /\ at >= t.when
                 /\ cycle' = [cycle EXCEPT !.stage = t.to]
      BY <2>3 DEF P!NextTimelineTransition
    <3>2. cycle'.stage = t.to /\ cycle'.startedAt = cycle.startedAt
      BY <1>1, <3>1 DEF P!TypeOK, P!Cycles
    <3>3. <<cycle.stage, cycle'.stage>> \in P!Timeline!Escalation
      BY <3>1, <3>2 DEF P!TimelineTransitions, P!Timeline!Escalation
    <3>4. /\ cycle.reminderAt = cycle.startedAt + CheckInIntervalMs - ReminderLeadMs
          /\ cycle.dueAt = cycle.startedAt + CheckInIntervalMs
          /\ cycle.concernAt = cycle.startedAt + CheckInIntervalMs + GracePeriodMs
          /\ cycle.startedAt \in Nat
      BY <1>1
         DEF P!PolicyAssumption, P!TypeOK, P!Cycles, P!Timestamps, P!TimelineConsistent, P!DelayOf
    <3>5. t.when = cycle.startedAt + P!DelayOf[t.to]
      BY <3>1, <3>4 DEF P!PolicyAssumption, P!TimelineTransitions, P!DelayOf
    <3>6. lastCommandAt' >= cycle'.startedAt + P!DelayOf[cycle'.stage]
      BY <2>1, <3>1, <3>2, <3>5
    <3>7. QED
      BY <2>1, <2>3, <3>2, <3>3, <3>6
         DEF P!Timeline!Next, P!Timeline!Escalate, P!Timestamps
  <2>4. QED
    BY <1>10, <2>2, <2>3 DEF P!AdvanceTime
<1>11. QED
  BY <1>3, <1>4, <1>5, <1>6, <1>7, <1>8, <1>9, <1>10 DEF Accepted

(* For every policy, the commands of the domain keep the promise made to   *)
(* the Owner: escalation one rung at a time, only while armed, and only a  *)
(* full delay after the last renewal.                                      *)
THEOREM PlanKeepsThePromise ==
  ASSUME P!PolicyAssumption PROVE P!Spec => P!KeepsThePromise
BY InitTypeOK, NextTypeOK, InitTimeline, NextTimeline, InitPromise, NextPromise,
   PTL DEF P!Spec, P!KeepsThePromise, P!Timeline!Spec
-----------------------------------------------------------------------------
(* A disabled Plan is over.                                                *)

LEMMA DisabledStep ==
  P!TypeOK /\ [P!Next]_(P!vars) /\ lifecycle = "disabled"
    => UNCHANGED <<lifecycle, hasRehearsed, cycle, events>>
<1>1. SUFFICES ASSUME P!TypeOK, [P!Next]_(P!vars), lifecycle = "disabled"
      PROVE  UNCHANGED <<lifecycle, hasRehearsed, cycle, events>>
  OBVIOUS
<1>2. CASE UNCHANGED P!vars
  BY <1>2 DEF P!vars
<1>3. SUFFICES
        ASSUME NEW key \in Keys, NEW at \in P!Timestamps,
               NEW authenticated \in BOOLEAN, NEW recently \in BOOLEAN,
               NEW revision \in {P!PolicyRevision, P!PolicyRevision + 1},
               Accepted(key, at, authenticated, recently, revision)
        PROVE  UNCHANGED <<lifecycle, hasRehearsed, cycle, events>>
  BY <1>1, <1>2, StepCases
<1>4. P!AdvanceTime(key, at)
  BY <1>1, <1>3
     DEF Accepted, P!RehearsePlan, P!ArmPlan, P!PausePlan, P!ResumePlan, P!DisablePlan,
         P!OwnerCheckIn
<1>5. /\ P!Record(key, "ADVANCE_TIME", 0, at, <<>>)
      /\ UNCHANGED <<lifecycle, hasRehearsed, cycle>>
  BY <1>1, <1>4 DEF P!AdvanceTime
<1>6. events' = events
  <2>1. events \in Seq([type : P!EventTypes, at : P!Timestamps])
    BY <1>1 DEF P!TypeOK
  <2>2. [i \in 1..Len(<<>>) |-> P!Event(<<>>[i], at)] = <<>>
    OBVIOUS
  <2>3. QED
    BY <1>5, <2>1, <2>2 DEF P!Record
<1>7. QED
  BY <1>5, <1>6

(* Whatever is sent to a disabled Plan, for ever: its lifecycle, timeline  *)
(* and history stay as they were.                                          *)
THEOREM DisabledForGood ==
  ASSUME P!PolicyAssumption PROVE P!Spec => P!DisabledIsTerminal
<1>1. P!TypeOK /\ [P!Next]_(P!vars)
        => [lifecycle = "disabled"
              => UNCHANGED <<lifecycle, hasRehearsed, cycle, events>>]_(P!vars)
  BY DisabledStep
<1>2. QED
  BY <1>1, InitTypeOK, NextTypeOK, PTL DEF P!Spec, P!DisabledIsTerminal
-----------------------------------------------------------------------------
(* The history.  The operators of Plan that read it are restated for any   *)
(* sequence of events, so that a command that writes two events is two     *)
(* steps of the history.                                                   *)

Histories == Seq(EventRecords)

LatestIn(s, i, types) ==
  LET past == {j \in 1..(i - 1) : s[j].type \in types}
  IN  CHOOSE j \in past \cup {0} : \A k \in past : k <= j

IsLatest(s, j, i, types) ==
  LET past == {k \in 1..(i - 1) : s[k].type \in types}
  IN  j \in past \cup {0} /\ \A k \in past : k <= j

OccurrencesIn(s, type) == Cardinality({i \in DOMAIN s : s[i].type = type})

StageIn(s, i) ==
  LET j == LatestIn(s, i, P!EscalationEvents)
  IN  IF j > LatestIn(s, i, P!Renewals) THEN P!Announces[s[j].type] ELSE "on_time"

Controls == {"PLAN_ARMED", "PLAN_RESUMED", "PLAN_PAUSED", "PLAN_DISABLED"}

IsEarned(s, i) ==
  s[i].type \in P!EscalationEvents =>
    /\ StageIn(s, i) = P!Follows[s[i].type]
    /\ LatestIn(s, i, Controls) > 0
    /\ s[LatestIn(s, i, Controls)].type \in {"PLAN_ARMED", "PLAN_RESUMED"}
    /\ s[i].at >= s[LatestIn(s, i, P!Renewals)].at + P!DelayOf[P!Announces[s[i].type]]

(* Two names of one operator.                                              *)
LEMMA PlanCounts == \A S : P!Cardinality(S) = Cardinality(S)
BY DEF P!Cardinality, Cardinality

LEMMA HistoryOperators ==
  /\ \A type : P!Occurrences(type) = OccurrencesIn(events, type)
  /\ P!EscalationsAreEarned <=> \A i \in DOMAIN events : IsEarned(events, i)
BY PlanCounts
   DEF P!Occurrences, OccurrencesIn, P!EscalationsAreEarned, IsEarned, P!StageBefore, StageIn,
       P!Latest, LatestIn, Controls

(* The history t is s with one more event.                                 *)
OneMore(t, s, e) ==
  /\ Len(t) = Len(s) + 1 /\ t[Len(t)] = e
  /\ \A i \in 1..Len(s) : t[i] = s[i]

(* Every moment has a latest event of every kind, or none.  This is the    *)
(* existence of a greatest element, which each step of a behaviour hands   *)
(* on to the next.                                                         *)
LatestExists(s) ==
  \A types \in SUBSET P!EventTypes, i \in 1..(Len(s) + 1) :
    \E j \in Nat : IsLatest(s, j, i, types)

LEMMA LatestIs ==
  ASSUME NEW s \in Histories, NEW i \in Nat \ {0}, NEW types, NEW j \in Nat,
         IsLatest(s, j, i, types)
  PROVE  LatestIn(s, i, types) = j
<1> DEFINE past == {k \in 1..(i - 1) : s[k].type \in types}
<1>1. j \in past \cup {0} /\ \A k \in past : k <= j
  BY DEF IsLatest
<1>2. past \subseteq Nat \ {0}
  OBVIOUS
<1>3. LatestIn(s, i, types) = CHOOSE k \in past \cup {0} : \A l \in past : l <= k
  BY DEF LatestIn
<1> HIDE DEF past
<1>4. \A k \in past \cup {0} : (\A l \in past : l <= k) => k = j
  BY <1>1, <1>2
<1> QED
  BY <1>1, <1>3, <1>4

(* One more event leaves what was latest before, and is itself the latest  *)
(* of the kinds it has.                                                    *)
LEMMA OneMoreLatest ==
  ASSUME NEW s \in Histories, NEW t \in Histories, NEW e, OneMore(t, s, e),
         LatestExists(s)
  PROVE  /\ LatestExists(t)
         /\ \A types \in SUBSET P!EventTypes, i \in 1..(Len(s) + 1) :
              LatestIn(t, i, types) = LatestIn(s, i, types)
         /\ \A types \in SUBSET P!EventTypes :
              LatestIn(t, Len(t) + 1, types) =
                IF e.type \in types THEN Len(t) ELSE LatestIn(s, Len(s) + 1, types)
         /\ \A types \in SUBSET P!EventTypes, i \in 1..(Len(s) + 1) :
              LatestIn(s, i, types) \in 0..(i - 1)
<1>1. Len(s) \in Nat /\ Len(t) = Len(s) + 1 /\ t[Len(t)] = e
      /\ \A i \in 1..Len(s) : t[i] = s[i]
  BY DEF Histories, OneMore
<1>2. ASSUME NEW types \in SUBSET P!EventTypes, NEW i \in 1..(Len(s) + 1), NEW j \in Nat,
             IsLatest(s, j, i, types)
      PROVE  IsLatest(t, j, i, types) /\ j \in 0..(i - 1)
  BY <1>1, <1>2 DEF IsLatest
<1>3. ASSUME NEW types \in SUBSET P!EventTypes, NEW i \in 1..(Len(s) + 1)
      PROVE  \E j \in Nat : /\ IsLatest(s, j, i, types) /\ IsLatest(t, j, i, types)
                            /\ j \in 0..(i - 1)
                            /\ LatestIn(s, i, types) = j /\ LatestIn(t, i, types) = j
  <2>1. PICK j \in Nat : IsLatest(s, j, i, types)
    BY DEF LatestExists
  <2>2. IsLatest(t, j, i, types) /\ j \in 0..(i - 1)
    BY <1>2, <2>1
  <2>3. i \in Nat \ {0}
    BY <1>1
  <2> QED
    BY <2>1, <2>2, <2>3, LatestIs
<1>4. ASSUME NEW types \in SUBSET P!EventTypes
      PROVE  \E j \in Nat :
               /\ IsLatest(t, j, Len(t) + 1, types)
               /\ j = IF e.type \in types THEN Len(t) ELSE LatestIn(s, Len(s) + 1, types)
  <2>1. CASE e.type \in types
    <3>1. IsLatest(t, Len(t), Len(t) + 1, types)
      BY <1>1, <2>1 DEF IsLatest
    <3> QED
      BY <1>1, <2>1, <3>1
  <2>2. CASE e.type \notin types
    <3>1. PICK j \in Nat : /\ IsLatest(t, j, Len(s) + 1, types)
                           /\ LatestIn(s, Len(s) + 1, types) = j
      BY <1>1, <1>3
    <3>2. IsLatest(t, j, Len(t) + 1, types)
      <4>1. {k \in 1..(Len(t) + 1 - 1) : t[k].type \in types}
              = {k \in 1..(Len(s) + 1 - 1) : t[k].type \in types}
        BY <1>1, <2>2
      <4> QED
        BY <3>1, <4>1 DEF IsLatest
    <3> QED
      BY <2>2, <3>1, <3>2
  <2> QED
    BY <2>1, <2>2
<1>5. LatestExists(t)
  <2> SUFFICES ASSUME NEW types \in SUBSET P!EventTypes, NEW i \in 1..(Len(t) + 1)
               PROVE  \E j \in Nat : IsLatest(t, j, i, types)
    BY DEF LatestExists
  <2>1. CASE i \in 1..(Len(s) + 1)
    BY <1>3, <2>1
  <2>2. CASE i = Len(t) + 1
    BY <1>4, <2>2
  <2> QED
    BY <1>1, <2>1, <2>2
<1>6. ASSUME NEW types \in SUBSET P!EventTypes
      PROVE  LatestIn(t, Len(t) + 1, types) =
               IF e.type \in types THEN Len(t) ELSE LatestIn(s, Len(s) + 1, types)
  <2>1. Len(t) + 1 \in Nat \ {0}
    BY <1>1
  <2> QED
    BY <1>4, <2>1, LatestIs
<1> QED
  BY <1>3, <1>5, <1>6

(* What the history says at its end: when the Owner last took control and  *)
(* the stage since; and that the last to touch the lifecycle armed it.     *)
RenewedAt(s, at, stage) ==
  LET n == Len(s) + 1
  IN  /\ LatestIn(s, n, P!Renewals) > 0
      /\ s[LatestIn(s, n, P!Renewals)].at = at
      /\ StageIn(s, n) = stage
LeftArmed(s) ==
  LET n == Len(s) + 1
  IN  /\ LatestIn(s, n, Controls) > 0
      /\ s[LatestIn(s, n, Controls)].type \in {"PLAN_ARMED", "PLAN_RESUMED"}

(* An escalation is earned, and there was a renewal to earn it from.       *)
EarnedSince(s, i) ==
  IsEarned(s, i) /\ (s[i].type \in P!EscalationEvents => LatestIn(s, i, P!Renewals) > 0)

LEMMA KindsOfEvents ==
  /\ P!Renewals \in SUBSET P!EventTypes /\ P!EscalationEvents \in SUBSET P!EventTypes
  /\ Controls \in SUBSET P!EventTypes /\ P!Renewals \cap P!EscalationEvents = {}
BY DEF P!Renewals, P!EscalationEvents, Controls, P!EventTypes

(* The past of a moment does not change.                                   *)
LEMMA SamePast ==
  ASSUME NEW s \in Histories, NEW t \in Histories, NEW e, OneMore(t, s, e),
         LatestExists(s), NEW i \in 1..(Len(s) + 1)
  PROVE  /\ StageIn(t, i) = StageIn(s, i)
         /\ \A types \in SUBSET P!EventTypes :
              /\ LatestIn(t, i, types) = LatestIn(s, i, types)
              /\ LatestIn(s, i, types) \in 0..(i - 1)
              /\ LatestIn(s, i, types) > 0 =>
                   t[LatestIn(s, i, types)] = s[LatestIn(s, i, types)]
<1>1. Len(s) \in Nat /\ \A k \in 1..Len(s) : t[k] = s[k]
  BY DEF Histories, OneMore
<1>2. ASSUME NEW types \in SUBSET P!EventTypes
      PROVE  /\ LatestIn(t, i, types) = LatestIn(s, i, types)
             /\ LatestIn(s, i, types) \in 0..(i - 1)
             /\ LatestIn(s, i, types) > 0 =>
                  t[LatestIn(s, i, types)] = s[LatestIn(s, i, types)]
  <2>1. /\ LatestIn(t, i, types) = LatestIn(s, i, types)
        /\ LatestIn(s, i, types) \in 0..(i - 1)
    BY OneMoreLatest
  <2> QED
    BY <1>1, <2>1
<1> PICK j, r : j = LatestIn(s, i, P!EscalationEvents) /\ r = LatestIn(s, i, P!Renewals)
  OBVIOUS
<1>3. /\ LatestIn(t, i, P!EscalationEvents) = j /\ LatestIn(t, i, P!Renewals) = r
      /\ j \in Nat /\ r \in Nat /\ (j > 0 => t[j] = s[j])
  <2>1. i - 1 \in Nat
    BY <1>1
  <2> QED
    BY <1>2, <2>1, KindsOfEvents
<1>4. StageIn(t, i) = IF j > r THEN P!Announces[t[j].type] ELSE "on_time"
  BY <1>3 DEF StageIn
<1>5. StageIn(s, i) = IF j > r THEN P!Announces[s[j].type] ELSE "on_time"
  BY DEF StageIn
<1>6. j > r => j > 0
  BY <1>3
<1> QED
  BY <1>2, <1>3, <1>4, <1>5, <1>6

(* A history of earned escalations stays one if the next is earned too.    *)
LEMMA OneMoreEarned ==
  ASSUME NEW s \in Histories, NEW t \in Histories, NEW e, OneMore(t, s, e),
         LatestExists(s), \A i \in DOMAIN s : EarnedSince(s, i),
         e.type \in P!EscalationEvents =>
           /\ LeftArmed(s)
           /\ \E at : RenewedAt(s, at, P!Follows[e.type])
                      /\ e.at >= at + P!DelayOf[P!Announces[e.type]]
  PROVE  \A i \in DOMAIN t : EarnedSince(t, i)
<1> SUFFICES ASSUME NEW i \in DOMAIN t PROVE EarnedSince(t, i)
  OBVIOUS
<1>1. /\ Len(s) \in Nat /\ Len(t) = Len(s) + 1 /\ t[Len(t)] = e
      /\ \A k \in 1..Len(s) : t[k] = s[k]
      /\ DOMAIN s = 1..Len(s) /\ DOMAIN t = 1..(Len(s) + 1)
  BY DEF Histories, OneMore
<1>2. i \in 1..(Len(s) + 1)
  BY <1>1
<1>3. /\ StageIn(t, i) = StageIn(s, i)
      /\ LatestIn(t, i, Controls) = LatestIn(s, i, Controls)
      /\ LatestIn(t, i, P!Renewals) = LatestIn(s, i, P!Renewals)
      /\ LatestIn(s, i, Controls) > 0 =>
           t[LatestIn(s, i, Controls)] = s[LatestIn(s, i, Controls)]
      /\ LatestIn(s, i, P!Renewals) > 0 =>
           t[LatestIn(s, i, P!Renewals)] = s[LatestIn(s, i, P!Renewals)]
  BY <1>2, SamePast, KindsOfEvents
<1>4. CASE i \in 1..Len(s)
  <2>1. EarnedSince(s, i) /\ t[i] = s[i]
    BY <1>1, <1>4
  <2> QED
    BY <1>3, <2>1 DEF EarnedSince, IsEarned
<1>5. CASE i = Len(s) + 1
  <2>1. t[i] = e
    BY <1>1, <1>5
  <2>2. CASE e.type \notin P!EscalationEvents
    BY <2>1, <2>2 DEF EarnedSince, IsEarned
  <2>3. CASE e.type \in P!EscalationEvents
    BY <1>3, <1>5, <2>1, <2>3 DEF EarnedSince, IsEarned, LeftArmed, RenewedAt
  <2> QED
    BY <2>2, <2>3
<1> QED
  BY <1>1, <1>4, <1>5

(* What one more event makes of the end of the history.                    *)
LEMMA OneMoreEnds ==
  ASSUME NEW s \in Histories, NEW t \in Histories, NEW e, OneMore(t, s, e),
         LatestExists(s)
  PROVE  /\ e.type \in P!Renewals => RenewedAt(t, e.at, "on_time")
         /\ \A at, stage :
              RenewedAt(s, at, stage) /\ e.type \notin P!Renewals =>
                RenewedAt(t, at, IF e.type \in P!EscalationEvents THEN P!Announces[e.type]
                                 ELSE stage)
         /\ e.type \in {"PLAN_ARMED", "PLAN_RESUMED"} => LeftArmed(t)
         /\ LeftArmed(s) /\ e.type \notin Controls => LeftArmed(t)
<1>1. /\ Len(s) \in Nat /\ Len(t) = Len(s) + 1 /\ t[Len(t)] = e
      /\ \A k \in 1..Len(s) : t[k] = s[k]
  BY DEF Histories, OneMore
<1> PICK n, m : n = Len(s) + 1 /\ m = Len(t) + 1
  OBVIOUS
<1>2. n \in 1..(Len(s) + 1)
  BY <1>1
<1>3. ASSUME NEW types \in SUBSET P!EventTypes
      PROVE  /\ LatestIn(s, n, types) \in 0..Len(s)
             /\ LatestIn(t, m, types) =
                  IF e.type \in types THEN Len(t) ELSE LatestIn(s, n, types)
             /\ LatestIn(s, n, types) > 0 =>
                  t[LatestIn(s, n, types)] = s[LatestIn(s, n, types)]
  <2>1. LatestIn(t, m, types) =
          IF e.type \in types THEN Len(t) ELSE LatestIn(s, n, types)
    BY OneMoreLatest
  <2>2. /\ LatestIn(s, n, types) \in 0..(n - 1)
        /\ LatestIn(s, n, types) > 0 =>
             t[LatestIn(s, n, types)] = s[LatestIn(s, n, types)]
    BY <1>2, SamePast
  <2> QED
    BY <1>1, <2>1, <2>2
<1> PICK js, jt : js = LatestIn(s, n, P!EscalationEvents) /\ jt = LatestIn(t, m, P!EscalationEvents)
  OBVIOUS
<1> PICK rs, rt : rs = LatestIn(s, n, P!Renewals) /\ rt = LatestIn(t, m, P!Renewals)
  OBVIOUS
<1>4. /\ js \in 0..Len(s) /\ rs \in 0..Len(s)
      /\ jt = (IF e.type \in P!EscalationEvents THEN Len(t) ELSE js)
      /\ rt = (IF e.type \in P!Renewals THEN Len(t) ELSE rs)
      /\ (js > 0 => t[js] = s[js]) /\ (rs > 0 => t[rs] = s[rs])
  BY <1>3, KindsOfEvents
<1>5. /\ StageIn(s, n) = (IF js > rs THEN P!Announces[s[js].type] ELSE "on_time")
      /\ StageIn(t, m) = (IF jt > rt THEN P!Announces[t[jt].type] ELSE "on_time")
  BY DEF StageIn
<1>6. ASSUME e.type \in P!Renewals PROVE RenewedAt(t, e.at, "on_time")
  <2>1. e.type \notin P!EscalationEvents
    BY <1>6, KindsOfEvents
  <2>2. rt = Len(t) /\ jt = js /\ ~(jt > rt)
    BY <1>1, <1>4, <1>6, <2>1
  <2> QED
    BY <1>1, <1>5, <2>2 DEF RenewedAt
<1>7. ASSUME NEW at, NEW stage, RenewedAt(s, at, stage), e.type \notin P!Renewals
      PROVE  RenewedAt(t, at, IF e.type \in P!EscalationEvents THEN P!Announces[e.type]
                              ELSE stage)
  <2>1. rs > 0 /\ s[rs].at = at /\ StageIn(s, n) = stage
    BY <1>7 DEF RenewedAt
  <2>2. rt = rs /\ t[rt].at = at /\ rt > 0
    BY <1>4, <1>7, <2>1
  <2>3. CASE e.type \in P!EscalationEvents
    <3>1. StageIn(t, m) = P!Announces[e.type]
      BY <1>1, <1>4, <1>5, <2>2, <2>3
    <3> QED
      BY <2>2, <2>3, <3>1 DEF RenewedAt
  <2>4. CASE e.type \notin P!EscalationEvents
    <3>1. js > rs => js > 0
      BY <1>1, <1>4
    <3>2. StageIn(t, m) = StageIn(s, n)
      BY <1>4, <1>5, <2>2, <2>4, <3>1
    <3> QED
      BY <2>1, <2>2, <2>4, <3>2 DEF RenewedAt
  <2> QED
    BY <2>3, <2>4
<1>8. ASSUME e.type \in {"PLAN_ARMED", "PLAN_RESUMED"} PROVE LeftArmed(t)
  <2>1. e.type \in Controls
    BY <1>8 DEF Controls
  <2>2. LatestIn(t, m, Controls) = Len(t)
    BY <1>3, <2>1, KindsOfEvents
  <2> QED
    BY <1>1, <1>8, <2>2 DEF LeftArmed
<1>9. ASSUME LeftArmed(s), e.type \notin Controls PROVE LeftArmed(t)
  <2>1. /\ LatestIn(t, m, Controls) = LatestIn(s, n, Controls)
        /\ LatestIn(s, n, Controls) > 0
        /\ t[LatestIn(s, n, Controls)] = s[LatestIn(s, n, Controls)]
    BY <1>3, <1>9, KindsOfEvents DEF LeftArmed
  <2> QED
    BY <1>9, <2>1 DEF LeftArmed
<1> QED
  BY <1>6, <1>7, <1>8, <1>9

(* Counting events.                                                        *)
LEMMA OneMoreOccurs ==
  ASSUME NEW s \in Histories, NEW t \in Histories, NEW e, OneMore(t, s, e), NEW type
  PROVE  /\ OccurrencesIn(s, type) \in Nat
         /\ OccurrencesIn(t, type) =
              OccurrencesIn(s, type) + (IF e.type = type THEN 1 ELSE 0)
<1>1. /\ Len(s) \in Nat /\ Len(t) = Len(s) + 1 /\ t[Len(t)] = e
      /\ \A k \in 1..Len(s) : t[k] = s[k]
      /\ DOMAIN s = 1..Len(s) /\ DOMAIN t = 1..(Len(s) + 1)
  BY DEF Histories, OneMore
<1> DEFINE S == {i \in DOMAIN s : s[i].type = type}
           T == {i \in DOMAIN t : t[i].type = type}
<1>2. IsFiniteSet(1..Len(s))
  BY <1>1, FS_Interval
<1>3. IsFiniteSet(S) /\ Cardinality(S) \in Nat
  BY <1>1, <1>2, FS_Subset, FS_CardinalityType
<1>4. T = IF e.type = type THEN S \cup {Len(s) + 1} ELSE S
  BY <1>1
<1>5. Len(s) + 1 \notin S
  BY <1>1
<1>6. Cardinality(S \cup {Len(s) + 1}) = Cardinality(S) + 1
  BY <1>3, <1>5, FS_AddElement
<1>7. OccurrencesIn(s, type) = Cardinality(S) /\ OccurrencesIn(t, type) = Cardinality(T)
  BY DEF OccurrencesIn
<1> HIDE DEF S, T
<1> QED
  BY <1>3, <1>4, <1>6, <1>7

-----------------------------------------------------------------------------
(* The history of the Plan.                                                *)

(* A history in order: its escalations earned, and every Concern cancelled *)
(* but `open' of them.                                                     *)
InOrder(s, open) ==
  /\ s \in Histories /\ LatestExists(s)
  /\ \A i \in DOMAIN s : EarnedSince(s, i)
  /\ OccurrencesIn(s, "CONCERN_ENTERED") = OccurrencesIn(s, "CONCERN_CANCELLED") + open

OpenConcerns == IF cycle.stage = "concern" THEN 1 ELSE 0

(* The inductive invariant: the history is in order, and its end says what *)
(* the state does.  A disabled Plan's cycle may have been restarted by the *)
(* disabling, which is no renewal, so nothing is said of it.               *)
HistoryInv ==
  /\ InOrder(events, OpenConcerns)
  /\ lifecycle # "disabled" => RenewedAt(events, cycle.startedAt, cycle.stage)
  /\ lifecycle = "armed" => LeftArmed(events)
  /\ lifecycle = "disabled" => cycle.stage # "concern"

(* An event that is no escalation and opens or cancels no Concern.         *)
LEMMA PlainEvent ==
  ASSUME NEW s, NEW t, NEW e, NEW open, InOrder(s, open), t \in Histories,
         OneMore(t, s, e), e.type \notin P!EscalationEvents, e.type # "CONCERN_CANCELLED"
  PROVE  InOrder(t, open)
<1>1. s \in Histories /\ LatestExists(s) /\ \A i \in DOMAIN s : EarnedSince(s, i)
  BY DEF InOrder
<1>2. LatestExists(t) /\ \A i \in DOMAIN t : EarnedSince(t, i)
  BY <1>1, OneMoreLatest, OneMoreEarned
<1>3. e.type # "CONCERN_ENTERED"
  BY DEF P!EscalationEvents
<1>4. /\ OccurrencesIn(s, "CONCERN_ENTERED") \in Nat
      /\ OccurrencesIn(t, "CONCERN_ENTERED") = OccurrencesIn(s, "CONCERN_ENTERED")
      /\ OccurrencesIn(t, "CONCERN_CANCELLED") = OccurrencesIn(s, "CONCERN_CANCELLED")
  <2>1. \A type : /\ OccurrencesIn(s, type) \in Nat
                  /\ OccurrencesIn(t, type) =
                       OccurrencesIn(s, type) + (IF e.type = type THEN 1 ELSE 0)
    BY <1>1, OneMoreOccurs
  <2> QED
    BY <1>3, <2>1
<1> QED
  BY <1>2, <1>4 DEF InOrder

(* The cancellation of the open Concern.                                   *)
LEMMA CancellingEvent ==
  ASSUME NEW s, NEW t, NEW e, InOrder(s, 1), t \in Histories,
         OneMore(t, s, e), e.type = "CONCERN_CANCELLED"
  PROVE  InOrder(t, 0)
<1>1. s \in Histories /\ LatestExists(s) /\ \A i \in DOMAIN s : EarnedSince(s, i)
  BY DEF InOrder
<1>2. e.type \notin P!EscalationEvents
  BY DEF P!EscalationEvents
<1>3. LatestExists(t) /\ \A i \in DOMAIN t : EarnedSince(t, i)
  BY <1>1, <1>2, OneMoreLatest, OneMoreEarned
<1>4. /\ OccurrencesIn(s, "CONCERN_CANCELLED") \in Nat
      /\ OccurrencesIn(t, "CONCERN_ENTERED") = OccurrencesIn(s, "CONCERN_ENTERED")
      /\ OccurrencesIn(t, "CONCERN_CANCELLED") = OccurrencesIn(s, "CONCERN_CANCELLED") + 1
  <2>1. \A type : /\ OccurrencesIn(s, type) \in Nat
                  /\ OccurrencesIn(t, type) =
                       OccurrencesIn(s, type) + (IF e.type = type THEN 1 ELSE 0)
    BY <1>1, OneMoreOccurs
  <2> QED
    BY <2>1
<1> QED
  BY <1>3, <1>4 DEF InOrder

(* The elements of a concatenation.                                        *)
LEMMA Concatenation ==
  ASSUME NEW S, NEW s \in Seq(S), NEW u \in Seq(S)
  PROVE  /\ s \o u \in Seq(S) /\ Len(s \o u) = Len(s) + Len(u)
         /\ \A i \in 1..Len(s) : (s \o u)[i] = s[i]
         /\ \A i \in 1..Len(u) : (s \o u)[Len(s) + i] = u[i]
<1>1. Len(s \o u) = Len(s) + Len(u) /\ \A i \in 1..Len(s) : (s \o u)[i] = s[i]
  OBVIOUS
<1>2. \A i \in 1..Len(u) : (s \o u)[Len(s) + i] = u[i]
  OBVIOUS
<1> QED
  BY <1>1, <1>2

(* What a command writes to the history: one event at the end of it for    *)
(* each type it names.                                                     *)
LEMMA Recorded ==
  ASSUME P!TypeOK, NEW key \in Keys, NEW at \in P!Timestamps, NEW fingerprint, NEW revision,
         NEW types \in Seq(P!EventTypes), P!Record(key, fingerprint, revision, at, types)
  PROVE  /\ events \in Histories /\ Len(events) \in Nat
         /\ events' \in Histories /\ Len(events') = Len(events) + Len(types)
         /\ \A i \in 1..Len(events) : events'[i] = events[i]
         /\ \A i \in 1..Len(types) : events'[Len(events) + i] = P!Event(types[i], at)
<1>1. events \in Seq(EventRecords)
  BY DEF P!TypeOK, EventRecords
<1> PICK new : new = [i \in 1..Len(types) |-> P!Event(types[i], at)]
  OBVIOUS
<1>2. events' = events \o new
  BY DEF P!Record
<1>3. Len(types) \in Nat /\ \A i \in 1..Len(types) : P!Event(types[i], at) \in EventRecords
  BY DEF P!Event, EventRecords
<1>4. /\ new \in Seq(EventRecords) /\ Len(new) = Len(types)
      /\ \A i \in 1..Len(types) : new[i] = P!Event(types[i], at)
  BY <1>3
<1>5. /\ events \o new \in Seq(EventRecords)
      /\ Len(events \o new) = Len(events) + Len(new)
      /\ \A i \in 1..Len(events) : (events \o new)[i] = events[i]
      /\ \A i \in 1..Len(new) : (events \o new)[Len(events) + i] = new[i]
  <2>1. ASSUME NEW s \in Seq(EventRecords), NEW u \in Seq(EventRecords)
        PROVE  /\ s \o u \in Seq(EventRecords)
               /\ Len(s \o u) = Len(s) + Len(u)
               /\ \A i \in 1..Len(s) : (s \o u)[i] = s[i]
               /\ \A i \in 1..Len(u) : (s \o u)[Len(s) + i] = u[i]
    BY Concatenation
  <2> QED
    BY <1>1, <1>4, <2>1
<1>6. Len(events) \in Nat
  BY <1>1
<1> QED
  BY <1>1, <1>2, <1>4, <1>5, <1>6 DEF Histories

LEMMA RecordsOne ==
  ASSUME P!TypeOK, NEW key \in Keys, NEW at \in P!Timestamps, NEW fingerprint, NEW revision,
         NEW type \in P!EventTypes, P!Record(key, fingerprint, revision, at, <<type>>)
  PROVE  OneMore(events', events, P!Event(type, at)) /\ events' \in Histories
<1>1. <<type>> \in Seq(P!EventTypes) /\ Len(<<type>>) = 1 /\ <<type>>[1] = type
  OBVIOUS
<1>2. /\ events' \in Histories /\ Len(events') = Len(events) + 1
      /\ \A i \in 1..Len(events) : events'[i] = events[i]
      /\ \A i \in 1..1 : events'[Len(events) + i] = P!Event(<<type>>[i], at)
  BY <1>1, Recorded
<1> QED
  BY <1>1, <1>2 DEF OneMore

LEMMA RecordsNone ==
  ASSUME P!TypeOK, NEW key, NEW at, NEW fingerprint, NEW revision,
         P!Record(key, fingerprint, revision, at, <<>>)
  PROVE  events' = events
<1>1. events \in Seq([type : P!EventTypes, at : P!Timestamps])
  BY DEF P!TypeOK
<1>2. [i \in 1..Len(<<>>) |-> P!Event(<<>>[i], at)] = <<>>
  OBVIOUS
<1> QED
  BY <1>1, <1>2 DEF P!Record

(* What CancelledConcern puts before the event of the command.             *)
LEMMA Cancellation ==
  ASSUME NEW type \in P!EventTypes
  PROVE  LET types == P!CancelledConcern \o <<type>>
         IN  /\ types \in Seq(P!EventTypes)
             /\ IF cycle.stage = "concern"
                THEN Len(types) = 2 /\ types[1] = "CONCERN_CANCELLED" /\ types[2] = type
                ELSE types = <<type>>
<1>1. CASE cycle.stage # "concern"
  BY <1>1, CancelledType DEF P!CancelledConcern
<1>2. CASE cycle.stage = "concern"
  <2> PICK c, u : c = <<"CONCERN_CANCELLED">> /\ u = <<type>>
    OBVIOUS
  <2>1. P!CancelledConcern = c
    BY <1>2 DEF P!CancelledConcern
  <2>2. /\ c \in Seq(P!EventTypes) /\ Len(c) = 1 /\ c[1] = "CONCERN_CANCELLED"
        /\ u \in Seq(P!EventTypes) /\ Len(u) = 1 /\ u[1] = type
    BY DEF P!EventTypes
  <2>3. /\ c \o u \in Seq(P!EventTypes) /\ Len(c \o u) = Len(c) + Len(u)
        /\ \A i \in 1..Len(c) : (c \o u)[i] = c[i]
        /\ \A i \in 1..Len(u) : (c \o u)[Len(c) + i] = u[i]
    <3>1. ASSUME NEW s \in Seq(P!EventTypes), NEW v \in Seq(P!EventTypes)
          PROVE  /\ s \o v \in Seq(P!EventTypes)
                 /\ Len(s \o v) = Len(s) + Len(v)
                 /\ \A i \in 1..Len(s) : (s \o v)[i] = s[i]
                 /\ \A i \in 1..Len(v) : (s \o v)[Len(s) + i] = v[i]
      BY Concatenation
    <3> QED
      BY <2>2, <3>1
  <2>4. /\ c \o u \in Seq(P!EventTypes) /\ Len(c \o u) = 2
        /\ (c \o u)[1] = "CONCERN_CANCELLED" /\ (c \o u)[2] = type
    BY <2>2, <2>3
  <2> QED
    BY <1>2, <2>1, <2>4
<1> QED
  BY <1>1, <1>2

(* A command that ends a Concern writes its cancellation first.            *)
LEMMA RecordsCancelled ==
  ASSUME P!TypeOK, NEW key \in Keys, NEW at \in P!Timestamps, NEW fingerprint, NEW revision,
         NEW type \in P!EventTypes,
         P!Record(key, fingerprint, revision, at, P!CancelledConcern \o <<type>>)
  PROVE  /\ events' \in Histories
         /\ IF cycle.stage = "concern"
            THEN \E mid \in Histories : /\ OneMore(mid, events, P!Event("CONCERN_CANCELLED", at))
                                        /\ OneMore(events', mid, P!Event(type, at))
            ELSE OneMore(events', events, P!Event(type, at))
<1>1. CASE cycle.stage # "concern"
  <2>1. P!Record(key, fingerprint, revision, at, <<type>>)
    BY <1>1, Cancellation
  <2> QED
    BY <1>1, <2>1, RecordsOne
<1>2. CASE cycle.stage = "concern"
  <2> PICK types : types = P!CancelledConcern \o <<type>>
    OBVIOUS
  <2>1. /\ types \in Seq(P!EventTypes)
        /\ Len(types) = 2 /\ types[1] = "CONCERN_CANCELLED" /\ types[2] = type
    BY <1>2, Cancellation
  <2>2. P!Record(key, fingerprint, revision, at, types)
    OBVIOUS
  <2>3. /\ events \in Histories /\ Len(events) \in Nat
        /\ events' \in Histories /\ Len(events') = Len(events) + 2
        /\ \A i \in 1..Len(events) : events'[i] = events[i]
        /\ \A i \in 1..2 : events'[Len(events) + i] = P!Event(types[i], at)
    BY <2>1, <2>2, Recorded
  <2> PICK first : first = P!Event("CONCERN_CANCELLED", at)
    OBVIOUS
  <2>4. first \in EventRecords
    BY DEF P!Event, EventRecords, P!EventTypes
  <2> PICK mid : mid = Append(events, first)
    OBVIOUS
  <2>5. /\ mid \in Histories /\ Len(mid) = Len(events) + 1
        /\ mid[Len(events) + 1] = first
        /\ \A i \in 1..Len(events) : mid[i] = events[i]
    BY <2>3, <2>4 DEF Histories
  <2>6. /\ events'[Len(events) + 1] = first
        /\ events'[Len(events) + 2] = P!Event(type, at)
    BY <2>1, <2>3
  <2>7. OneMore(mid, events, first)
    BY <2>5 DEF OneMore
  <2>8. OneMore(events', mid, P!Event(type, at))
    BY <2>3, <2>5, <2>6 DEF OneMore
  <2> QED
    BY <1>2, <2>3, <2>5, <2>7, <2>8
<1> QED
  BY <1>1, <1>2
-----------------------------------------------------------------------------
(* The invariant of the history, step by step.                             *)

LEMMA EventFields ==
  \A type, at : P!Event(type, at).type = type /\ P!Event(type, at).at = at
BY DEF P!Event

(* Nothing has happened, and all is in order.                              *)
LEMMA EmptyHistory == InOrder(<<>>, 0)
<1>1. <<>> \in Histories /\ Len(<<>>) = 0 /\ DOMAIN <<>> = {}
  BY DEF Histories
<1>2. LatestExists(<<>>)
  <2> SUFFICES ASSUME NEW types \in SUBSET P!EventTypes, NEW i \in 1..1
               PROVE  IsLatest(<<>>, 0, i, types)
    BY <1>1 DEF LatestExists
  <2>1. i = 1 /\ 1..(i - 1) = {}
    OBVIOUS
  <2> QED
    BY <2>1 DEF IsLatest
<1>3. \A type : OccurrencesIn(<<>>, type) = 0
  <2> SUFFICES ASSUME NEW type PROVE OccurrencesIn(<<>>, type) = 0
    OBVIOUS
  <2>1. {i \in DOMAIN <<>> : <<>>[i].type = type} = {}
    BY <1>1
  <2> QED
    BY <2>1, FS_EmptySet DEF OccurrencesIn
<1> QED
  BY <1>1, <1>2, <1>3 DEF InOrder

LEMMA InitHistory == P!Init => HistoryInv
<1> SUFFICES ASSUME P!Init PROVE HistoryInv
  OBVIOUS
<1> PICK e : e = P!Event("PLAN_DRAFTED", lastCommandAt)
  OBVIOUS
<1>1. /\ events = <<e>> /\ e.type = "PLAN_DRAFTED" /\ e.at = lastCommandAt
      /\ cycle = P!CreateCycle(lastCommandAt) /\ lifecycle = "draft"
  BY EventFields DEF P!Init
<1>2. cycle.stage = "on_time" /\ cycle.startedAt = lastCommandAt
  BY <1>1 DEF P!CreateCycle
<1>3. e \in EventRecords
  BY DEF P!Init, P!Event, EventRecords, P!EventTypes
<1>4. events \in Histories /\ <<>> \in Histories /\ OneMore(events, <<>>, e)
  BY <1>1, <1>3 DEF Histories, OneMore
<1>5. e.type \in P!Renewals /\ e.type \notin P!EscalationEvents /\ e.type # "CONCERN_CANCELLED"
  BY <1>1 DEF P!Renewals, P!EscalationEvents
<1>6. InOrder(events, 0)
  BY <1>4, <1>5, EmptyHistory, PlainEvent
<1>7. RenewedAt(events, e.at, "on_time")
  <2>1. LatestExists(<<>>)
    BY EmptyHistory DEF InOrder
  <2> QED
    BY <1>4, <1>5, <2>1, OneMoreEnds
<1> QED
  BY <1>1, <1>2, <1>6, <1>7 DEF HistoryInv, OpenConcerns

(* A command that writes one event of its own.                             *)
LEMMA PlainCommand ==
  ASSUME P!TypeOK, NEW open, InOrder(events, open),
         NEW key \in Keys, NEW at \in P!Timestamps, NEW fingerprint, NEW revision,
         NEW type \in P!EventTypes \ (P!EscalationEvents \cup {"CONCERN_CANCELLED"}),
         P!Record(key, fingerprint, revision, at, <<type>>)
  PROVE  /\ InOrder(events', open)
         /\ type \in P!Renewals => RenewedAt(events', at, "on_time")
         /\ \A from, stage : RenewedAt(events, from, stage) /\ type \notin P!Renewals =>
                               RenewedAt(events', from, stage)
         /\ type \in {"PLAN_ARMED", "PLAN_RESUMED"} => LeftArmed(events')
<1> PICK e : e = P!Event(type, at)
  OBVIOUS
<1>1. e.type = type /\ e.at = at /\ e.type \notin P!EscalationEvents
      /\ e.type # "CONCERN_CANCELLED"
  BY EventFields
<1>2. OneMore(events', events, e) /\ events' \in Histories
  BY RecordsOne
<1>3. events \in Histories /\ LatestExists(events)
  BY DEF InOrder
<1>4. InOrder(events', open)
  BY <1>1, <1>2, PlainEvent
<1>5. /\ e.type \in P!Renewals => RenewedAt(events', e.at, "on_time")
      /\ \A from, stage :
           RenewedAt(events, from, stage) /\ e.type \notin P!Renewals =>
             RenewedAt(events', from, IF e.type \in P!EscalationEvents THEN P!Announces[e.type]
                                      ELSE stage)
      /\ e.type \in {"PLAN_ARMED", "PLAN_RESUMED"} => LeftArmed(events')
  BY <1>2, <1>3, OneMoreEnds
<1> QED
  BY <1>1, <1>4, <1>5

(* A command that ends the Concern there may be.                           *)
LEMMA CancellingCommand ==
  ASSUME P!TypeOK, InOrder(events, OpenConcerns),
         NEW key \in Keys, NEW at \in P!Timestamps, NEW fingerprint, NEW revision,
         NEW type \in P!EventTypes \ (P!EscalationEvents \cup {"CONCERN_CANCELLED"}),
         P!Record(key, fingerprint, revision, at, P!CancelledConcern \o <<type>>)
  PROVE  /\ InOrder(events', 0)
         /\ type \in P!Renewals => RenewedAt(events', at, "on_time")
         /\ type \in {"PLAN_ARMED", "PLAN_RESUMED"} => LeftArmed(events')
         /\ LeftArmed(events) /\ type \notin Controls => LeftArmed(events')
<1> PICK e, c : e = P!Event(type, at) /\ c = P!Event("CONCERN_CANCELLED", at)
  OBVIOUS
<1>1. /\ e.type = type /\ e.at = at /\ e.type \notin P!EscalationEvents
      /\ e.type # "CONCERN_CANCELLED" /\ c.type = "CONCERN_CANCELLED"
  BY EventFields
<1>2. /\ events' \in Histories
      /\ IF cycle.stage = "concern"
         THEN \E mid \in Histories : OneMore(mid, events, c) /\ OneMore(events', mid, e)
         ELSE OneMore(events', events, e)
  BY RecordsCancelled
<1>3. \E mid \in Histories : /\ InOrder(mid, 0) /\ OneMore(events', mid, e)
                             /\ LeftArmed(events) => LeftArmed(mid)
  <2>0. events \in Histories /\ LatestExists(events)
    BY DEF InOrder
  <2>1. CASE cycle.stage # "concern"
    BY <1>2, <2>0, <2>1 DEF OpenConcerns
  <2>2. CASE cycle.stage = "concern"
    <3>1. PICK mid \in Histories : OneMore(mid, events, c) /\ OneMore(events', mid, e)
      BY <1>2, <2>2
    <3>2. InOrder(events, 1)
      BY <2>2 DEF OpenConcerns
    <3>3. InOrder(mid, 0)
      BY <1>1, <3>1, <3>2, CancellingEvent
    <3>4. c.type \notin Controls
      BY <1>1 DEF Controls
    <3>5. LeftArmed(events) => LeftArmed(mid)
      BY <2>0, <3>1, <3>4, OneMoreEnds
    <3> QED
      BY <3>1, <3>3, <3>5
  <2> QED
    BY <2>1, <2>2
<1>4. PICK mid \in Histories : /\ InOrder(mid, 0) /\ OneMore(events', mid, e)
                               /\ LeftArmed(events) => LeftArmed(mid)
  BY <1>3
<1>5. LatestExists(mid)
  BY <1>4 DEF InOrder
<1>6. InOrder(events', 0)
  BY <1>1, <1>2, <1>4, PlainEvent
<1>7. /\ e.type \in P!Renewals => RenewedAt(events', e.at, "on_time")
      /\ e.type \in {"PLAN_ARMED", "PLAN_RESUMED"} => LeftArmed(events')
      /\ LeftArmed(mid) /\ e.type \notin Controls => LeftArmed(events')
  BY <1>2, <1>4, <1>5, OneMoreEnds
<1> QED
  BY <1>1, <1>4, <1>6, <1>7

(* An escalation that climbs one rung, after its delay, opens a Concern    *)
(* when that rung is the last.                                             *)
LEMMA EscalatingEvent ==
  ASSUME NEW s, NEW t, NEW e, NEW from, NEW stage, InOrder(s, 0), t \in Histories,
         OneMore(t, s, e), e.type \in P!EscalationEvents, LeftArmed(s),
         RenewedAt(s, from, P!Follows[e.type]),
         e.at >= from + P!DelayOf[P!Announces[e.type]]
  PROVE  /\ InOrder(t, IF e.type = "CONCERN_ENTERED" THEN 1 ELSE 0)
         /\ RenewedAt(t, from, P!Announces[e.type]) /\ LeftArmed(t)
<1>1. s \in Histories /\ LatestExists(s) /\ \A i \in DOMAIN s : EarnedSince(s, i)
  BY DEF InOrder
<1>2. \A i \in DOMAIN t : EarnedSince(t, i)
  BY <1>1, OneMoreEarned
<1>3. LatestExists(t)
  BY <1>1, OneMoreLatest
<1>4. e.type \notin P!Renewals /\ e.type \notin Controls /\ e.type # "CONCERN_CANCELLED"
  BY DEF P!EscalationEvents, P!Renewals, Controls
<1>5. \A type : /\ OccurrencesIn(s, type) \in Nat
                /\ OccurrencesIn(t, type) =
                     OccurrencesIn(s, type) + (IF e.type = type THEN 1 ELSE 0)
  BY <1>1, OneMoreOccurs
<1>6. OccurrencesIn(t, "CONCERN_ENTERED") =
        OccurrencesIn(t, "CONCERN_CANCELLED")
          + (IF e.type = "CONCERN_ENTERED" THEN 1 ELSE 0)
  <2>1. OccurrencesIn(s, "CONCERN_ENTERED") = OccurrencesIn(s, "CONCERN_CANCELLED") + 0
    BY DEF InOrder
  <2> QED
    BY <1>4, <1>5, <2>1
<1>7. RenewedAt(t, from, P!Announces[e.type]) /\ LeftArmed(t)
  BY <1>1, <1>4, OneMoreEnds
<1> QED
  BY <1>2, <1>3, <1>6, <1>7 DEF InOrder

LEMMA NextHistory ==
  P!TypeOK /\ P!TimelineConsistent /\ HistoryInv /\ [P!Next]_(P!vars) => HistoryInv'
<1> SUFFICES ASSUME P!TypeOK, P!TimelineConsistent, HistoryInv, [P!Next]_(P!vars)
             PROVE  HistoryInv'
  OBVIOUS
<1>1. CASE UNCHANGED P!vars
  BY <1>1 DEF P!vars, HistoryInv, OpenConcerns
<1>2. SUFFICES
        ASSUME NEW key \in Keys, NEW at \in P!Timestamps,
               NEW authenticated \in BOOLEAN, NEW recently \in BOOLEAN,
               NEW revision \in {P!PolicyRevision, P!PolicyRevision + 1},
               Accepted(key, at, authenticated, recently, revision)
        PROVE  HistoryInv'
  BY <1>1, StepCases
<1>3. /\ InOrder(events, OpenConcerns)
      /\ lifecycle # "disabled" => RenewedAt(events, cycle.startedAt, cycle.stage)
      /\ lifecycle = "armed" => LeftArmed(events)
      /\ lifecycle = "disabled" => cycle.stage # "concern"
      /\ cycle.stage # "concern" => InOrder(events, 0)
  BY DEF HistoryInv, OpenConcerns
<1>4. P!CreateCycle(at).stage = "on_time" /\ P!CreateCycle(at).startedAt = at
  BY DEF P!CreateCycle
<1>5. {"PLAN_REHEARSED", "PLAN_ARMED", "PLAN_PAUSED", "PLAN_RESUMED", "PLAN_DISABLED",
       "OWNER_CHECKED_IN"} \subseteq P!EventTypes \ (P!EscalationEvents \cup {"CONCERN_CANCELLED"})
  BY DEF P!EventTypes, P!EscalationEvents
<1>6. CASE P!RehearsePlan(key, at, authenticated, revision)
  <2>1. /\ P!Record(key, "REHEARSE_PLAN", revision, at, <<"PLAN_REHEARSED">>)
        /\ lifecycle = "draft" /\ UNCHANGED <<lifecycle, cycle>>
    BY <1>6 DEF P!RehearsePlan
  <2>2. "PLAN_REHEARSED" \notin P!Renewals
    BY DEF P!Renewals
  <2>3. InOrder(events', OpenConcerns)
    BY <1>3, <1>5, <2>1, PlainCommand
  <2>4. RenewedAt(events', cycle.startedAt, cycle.stage)
    BY <1>3, <1>5, <2>1, <2>2, PlainCommand
  <2> QED
    BY <2>1, <2>3, <2>4 DEF HistoryInv, OpenConcerns
<1>7. CASE P!ArmPlan(key, at, authenticated, recently, revision)
  <2>1. /\ P!Record(key, "ARM_PLAN", revision, at, <<"PLAN_ARMED">>)
        /\ lifecycle = "draft" /\ lifecycle' = "armed" /\ cycle' = P!CreateCycle(at)
    BY <1>7 DEF P!ArmPlan
  <2>2. "PLAN_ARMED" \in P!Renewals
    BY DEF P!Renewals
  <2>3. InOrder(events, 0)
    BY <1>3, <2>1 DEF P!TimelineConsistent
  <2>4. InOrder(events', 0) /\ RenewedAt(events', at, "on_time") /\ LeftArmed(events')
    BY <1>5, <2>1, <2>2, <2>3, PlainCommand
  <2> QED
    BY <1>4, <2>1, <2>4 DEF HistoryInv, OpenConcerns
<1>8. CASE P!PausePlan(key, at, authenticated, recently, revision)
  <2>1. /\ P!Record(key, "PAUSE_PLAN", revision, at, <<"PLAN_PAUSED">>)
        /\ lifecycle = "armed" /\ lifecycle' = "paused" /\ UNCHANGED cycle
    BY <1>8 DEF P!PausePlan
  <2>2. "PLAN_PAUSED" \notin P!Renewals
    BY DEF P!Renewals
  <2>3. InOrder(events', OpenConcerns)
    BY <1>3, <1>5, <2>1, PlainCommand
  <2>4. RenewedAt(events', cycle.startedAt, cycle.stage)
    BY <1>3, <1>5, <2>1, <2>2, PlainCommand
  <2> QED
    BY <2>1, <2>3, <2>4 DEF HistoryInv, OpenConcerns
<1>9. CASE P!ResumePlan(key, at, authenticated, recently, revision)
  <2>1. /\ P!Record(key, "RESUME_PLAN", revision, at, P!CancelledConcern \o <<"PLAN_RESUMED">>)
        /\ lifecycle' = "armed" /\ cycle' = P!CreateCycle(at)
    BY <1>9 DEF P!ResumePlan
  <2>2. "PLAN_RESUMED" \in P!Renewals
    BY DEF P!Renewals
  <2>3. InOrder(events', 0) /\ RenewedAt(events', at, "on_time") /\ LeftArmed(events')
    BY <1>3, <1>5, <2>1, <2>2, CancellingCommand
  <2> QED
    BY <1>4, <2>1, <2>3 DEF HistoryInv, OpenConcerns
<1>10. CASE P!DisablePlan(key, at, authenticated, recently, revision)
  <2>1. /\ P!Record(key, "DISABLE_PLAN", revision, at,
                  P!CancelledConcern \o <<"PLAN_DISABLED">>)
        /\ lifecycle' = "disabled"
        /\ \/ cycle' = P!CreateCycle(at)
           \/ cycle.stage # "concern" /\ UNCHANGED cycle
    BY <1>10 DEF P!DisablePlan
  <2>2. InOrder(events', 0)
    BY <1>3, <1>5, <2>1, CancellingCommand
  <2> QED
    BY <1>4, <2>1, <2>2 DEF HistoryInv, OpenConcerns
<1>11. CASE P!OwnerCheckIn(key, at, authenticated)
  <2>1. /\ P!Record(key, "OWNER_CHECK_IN", 0, at, P!CancelledConcern \o <<"OWNER_CHECKED_IN">>)
        /\ lifecycle = "armed" /\ lifecycle' = "armed" /\ cycle' = P!CreateCycle(at)
    BY <1>11 DEF P!OwnerCheckIn
  <2>2. "OWNER_CHECKED_IN" \in P!Renewals /\ "OWNER_CHECKED_IN" \notin Controls
    BY DEF P!Renewals, Controls
  <2>3. InOrder(events', 0) /\ RenewedAt(events', at, "on_time") /\ LeftArmed(events')
    BY <1>3, <1>5, <2>1, <2>2, CancellingCommand
  <2> QED
    BY <1>4, <2>1, <2>3 DEF HistoryInv, OpenConcerns
<1>12. CASE P!AdvanceTime(key, at)
  <2>1. UNCHANGED lifecycle
    BY <1>12 DEF P!AdvanceTime
  <2>2. CASE P!Record(key, "ADVANCE_TIME", 0, at, <<>>) /\ UNCHANGED cycle
    <3>1. events' = events
      BY <2>2, RecordsNone
    <3> QED
      BY <2>1, <2>2, <3>1 DEF HistoryInv, OpenConcerns
  <2>3. CASE /\ lifecycle = "armed"
             /\ \E t \in P!NextTimelineTransition(cycle, at) :
                  /\ cycle' = [cycle EXCEPT !.stage = t.to]
                  /\ P!Record(key, "ADVANCE_TIME", 0, at, <<t.event>>)
    <3>1. PICK t \in P!TimelineTransitions(cycle) :
                 /\ t.from = cycle.stage /\ at >= t.when
                 /\ cycle' = [cycle EXCEPT !.stage = t.to]
                 /\ P!Record(key, "ADVANCE_TIME", 0, at, <<t.event>>)
      BY <2>3 DEF P!NextTimelineTransition
    <3>2. cycle'.stage = t.to /\ cycle'.startedAt = cycle.startedAt
      BY <3>1 DEF P!TypeOK, P!Cycles
    <3>3. /\ t.event \in P!EscalationEvents /\ t.event \in P!EventTypes
          /\ P!Follows[t.event] = t.from /\ P!Announces[t.event] = t.to
          /\ t.event = "CONCERN_ENTERED" <=> t.to = "concern"
          /\ cycle.stage # "concern"
      BY <3>1 DEF P!TimelineTransitions, P!EscalationEvents, P!EventTypes, P!Follows, P!Announces
    <3>4. at >= cycle.startedAt + P!DelayOf[t.to]
      BY <3>1 DEF P!TimelineTransitions, P!DelayOf, P!TimelineConsistent
    <3> PICK e : e = P!Event(t.event, at)
      OBVIOUS
    <3>5. e.type = t.event /\ e.at = at
      BY EventFields
    <3>6. OneMore(events', events, e) /\ events' \in Histories
      BY <3>1, <3>3, RecordsOne
    <3>7. InOrder(events, 0) /\ LeftArmed(events)
          /\ RenewedAt(events, cycle.startedAt, P!Follows[e.type])
      BY <1>3, <2>3, <3>1, <3>3, <3>5
    <3>8. /\ InOrder(events', IF e.type = "CONCERN_ENTERED" THEN 1 ELSE 0)
          /\ RenewedAt(events', cycle.startedAt, P!Announces[e.type]) /\ LeftArmed(events')
      BY <3>3, <3>4, <3>5, <3>6, <3>7, EscalatingEvent
    <3> QED
      BY <2>1, <2>3, <3>2, <3>3, <3>5, <3>8 DEF HistoryInv, OpenConcerns
  <2> QED
    BY <1>12, <2>2, <2>3 DEF P!AdvanceTime
<1> QED
  BY <1>2, <1>6, <1>7, <1>8, <1>9, <1>10, <1>11, <1>12 DEF Accepted

(* After any sequence of commands the history is in order and its end      *)
(* agrees with the stored state.                                           *)
THEOREM HistoryInOrder ==
  ASSUME P!PolicyAssumption PROVE P!Spec => []HistoryInv
BY InitTypeOK, NextTypeOK, InitTimeline, NextTimeline, InitHistory, NextHistory, PTL DEF P!Spec

(* For every policy and every sequence of commands, whatever order they    *)
(* arrive in: each escalation in the history climbed one rung, while the   *)
(* Plan was armed, a full delay after the last renewal.                    *)
THEOREM EveryEscalationIsEarned ==
  ASSUME P!PolicyAssumption PROVE P!Spec => []P!EscalationsAreEarned
<1>1. HistoryInv => P!EscalationsAreEarned
  BY HistoryOperators DEF HistoryInv, InOrder, EarnedSince
<1> QED
  BY <1>1, HistoryInOrder, PTL

(* Every Concern but the current one was cancelled, exactly once, and a    *)
(* disabled Plan is in none.                                               *)
THEOREM EveryConcernIsSettled ==
  ASSUME P!PolicyAssumption PROVE P!Spec => []P!ConcernsAreSettled
<1>1. HistoryInv => P!ConcernsAreSettled
  BY HistoryOperators DEF HistoryInv, InOrder, OpenConcerns, P!ConcernsAreSettled
<1> QED
  BY <1>1, HistoryInOrder, PTL
-----------------------------------------------------------------------------
(* What one command may do.                                                *)

\* What a command leaves behind under its key.
CommandFingerprints ==
  {P!PlanCommandFingerprint(type, revision) :
     type \in P!LifecycleCommands \cup {"ADVANCE_TIME", "OWNER_CHECK_IN"},
     revision \in {0, P!PolicyRevision}}

LEMMA FingerprintsMark ==
  \A f \in CommandFingerprints : f # P!NotProcessed
BY DEF CommandFingerprints, P!PlanCommandFingerprint, P!NotProcessed, P!LifecycleCommands

(* Each command that takes effect records one or two events of its own, or *)
(* is a time advance and records at most one.                              *)
LEMMA AcceptedRecords ==
  ASSUME P!TypeOK, NEW key \in Keys, NEW at \in P!Timestamps,
         NEW authenticated \in BOOLEAN, NEW recently \in BOOLEAN,
         NEW revision \in {P!PolicyRevision, P!PolicyRevision + 1},
         Accepted(key, at, authenticated, recently, revision)
  PROVE  /\ P!Acceptable(key, at)
         /\ \E types, type, named :
              /\ types \in Seq(P!EventTypes)
              /\ P!Record(key, type, named, at, types)
              /\ P!PlanCommandFingerprint(type, named) \in CommandFingerprints
              /\ Len(types) \in 0..2
              /\ \/ \A i \in 1..Len(types) : types[i] \notin P!EscalationEvents
                 \/ Len(types) \in 0..1 /\ type = "ADVANCE_TIME" /\ named = 0
<1> DEFINE Writes(types, type, named) ==
             /\ types \in Seq(P!EventTypes)
             /\ P!Record(key, type, named, at, types)
             /\ P!PlanCommandFingerprint(type, named) \in CommandFingerprints
             /\ Len(types) \in 0..2
             /\ \/ \A i \in 1..Len(types) : types[i] \notin P!EscalationEvents
                \/ Len(types) \in 0..1 /\ type = "ADVANCE_TIME" /\ named = 0
<1>1. \A type \in P!LifecycleCommands \cup {"ADVANCE_TIME", "OWNER_CHECK_IN"} :
        \A named \in {0, P!PolicyRevision} :
          P!PlanCommandFingerprint(type, named) \in CommandFingerprints
  BY DEF CommandFingerprints
<1>2. ASSUME NEW type \in P!EventTypes \ P!EscalationEvents
      PROVE  /\ <<type>> \in Seq(P!EventTypes) /\ Len(<<type>>) \in 0..2
             /\ \A i \in 1..Len(<<type>>) : <<type>>[i] \notin P!EscalationEvents
  OBVIOUS
<1>3. ASSUME NEW type \in P!EventTypes \ P!EscalationEvents
      PROVE  LET types == P!CancelledConcern \o <<type>>
             IN  /\ types \in Seq(P!EventTypes) /\ Len(types) \in 0..2
                 /\ \A i \in 1..Len(types) : types[i] \notin P!EscalationEvents
  <2> PICK types : types = P!CancelledConcern \o <<type>>
    OBVIOUS
  <2>1. /\ types \in Seq(P!EventTypes)
        /\ IF cycle.stage = "concern"
           THEN Len(types) = 2 /\ types[1] = "CONCERN_CANCELLED" /\ types[2] = type
           ELSE types = <<type>>
    BY Cancellation
  <2>2. "CONCERN_CANCELLED" \notin P!EscalationEvents
    BY DEF P!EscalationEvents
  <2>3. CASE cycle.stage = "concern"
    <3>1. \A i \in 1..2 : i = 1 \/ i = 2
      OBVIOUS
    <3>2. /\ types \in Seq(P!EventTypes) /\ Len(types) = 2
          /\ \A i \in 1..Len(types) : types[i] \notin P!EscalationEvents
      BY <2>1, <2>2, <2>3, <3>1
    <3> QED
      BY <3>2
  <2>4. CASE cycle.stage # "concern"
    BY <1>2, <2>1, <2>4
  <2> QED
    BY <2>3, <2>4
<1>4. {"PLAN_REHEARSED", "PLAN_ARMED", "PLAN_PAUSED", "PLAN_RESUMED", "PLAN_DISABLED",
       "OWNER_CHECKED_IN"} \subseteq P!EventTypes \ P!EscalationEvents
  BY DEF P!EventTypes, P!EscalationEvents
<1>5. {"REHEARSE_PLAN", "ARM_PLAN", "PAUSE_PLAN", "RESUME_PLAN", "DISABLE_PLAN"}
        \subseteq P!LifecycleCommands
  BY DEF P!LifecycleCommands
<1>6. P!Acceptable(key, at)
  BY DEF Accepted, P!RehearsePlan, P!ArmPlan, P!PausePlan, P!ResumePlan, P!DisablePlan, P!OwnerCheckIn,
         P!AdvanceTime, P!LifecycleAllowed
<1>7. \E types, type, named : Writes(types, type, named)
  <2>1. CASE P!RehearsePlan(key, at, authenticated, revision)
    <3>1. Writes(<<"PLAN_REHEARSED">>, "REHEARSE_PLAN", P!PolicyRevision)
      BY <1>1, <1>2, <1>4, <1>5, <2>1 DEF P!RehearsePlan
    <3> QED
      BY <3>1
  <2>2. CASE P!ArmPlan(key, at, authenticated, recently, revision)
    <3>1. Writes(<<"PLAN_ARMED">>, "ARM_PLAN", P!PolicyRevision)
      BY <1>1, <1>2, <1>4, <1>5, <2>2 DEF P!ArmPlan, P!LifecycleAllowed
    <3> QED
      BY <3>1
  <2>3. CASE P!PausePlan(key, at, authenticated, recently, revision)
    <3>1. Writes(<<"PLAN_PAUSED">>, "PAUSE_PLAN", P!PolicyRevision)
      BY <1>1, <1>2, <1>4, <1>5, <2>3 DEF P!PausePlan, P!LifecycleAllowed
    <3> QED
      BY <3>1
  <2>4. CASE P!ResumePlan(key, at, authenticated, recently, revision)
    <3>1. Writes(P!CancelledConcern \o <<"PLAN_RESUMED">>, "RESUME_PLAN", P!PolicyRevision)
      BY <1>1, <1>3, <1>4, <1>5, <2>4 DEF P!ResumePlan, P!LifecycleAllowed
    <3> QED
      BY <3>1
  <2>5. CASE P!DisablePlan(key, at, authenticated, recently, revision)
    <3>1. Writes(P!CancelledConcern \o <<"PLAN_DISABLED">>, "DISABLE_PLAN", P!PolicyRevision)
      BY <1>1, <1>3, <1>4, <1>5, <2>5 DEF P!DisablePlan, P!LifecycleAllowed
    <3> QED
      BY <3>1
  <2>6. CASE P!OwnerCheckIn(key, at, authenticated)
    <3>1. Writes(P!CancelledConcern \o <<"OWNER_CHECKED_IN">>, "OWNER_CHECK_IN", 0)
      BY <1>1, <1>3, <1>4, <2>6 DEF P!OwnerCheckIn
    <3> QED
      BY <3>1
  <2>7. CASE P!AdvanceTime(key, at)
    <3>1. CASE P!Record(key, "ADVANCE_TIME", 0, at, <<>>)
      <4>1. Writes(<<>>, "ADVANCE_TIME", 0)
        BY <1>1, <3>1
      <4> QED
        BY <4>1
    <3>2. CASE \E t \in P!NextTimelineTransition(cycle, at) :
                 P!Record(key, "ADVANCE_TIME", 0, at, <<t.event>>)
      <4>1. PICK t \in P!TimelineTransitions(cycle) :
                   P!Record(key, "ADVANCE_TIME", 0, at, <<t.event>>)
        BY <3>2 DEF P!NextTimelineTransition
      <4>2. t.event \in P!EventTypes
        BY <4>1 DEF P!TimelineTransitions, P!EscalationEvents, P!EventTypes
      <4>3. <<t.event>> \in Seq(P!EventTypes) /\ Len(<<t.event>>) = 1
        BY <4>2
      <4>4. Writes(<<t.event>>, "ADVANCE_TIME", 0)
        BY <1>1, <4>1, <4>3
      <4> QED
        BY <4>4
    <3> QED
      BY <2>7, <3>1, <3>2 DEF P!AdvanceTime
  <2> QED
    BY <2>1, <2>2, <2>3, <2>4, <2>5, <2>6, <2>7 DEF Accepted
<1> QED
  BY <1>6, <1>7

LEMMA CommandSteps == P!TypeOK /\ [P!Next]_(P!vars) => [P!CommandStep]_(P!vars)
<1> SUFFICES ASSUME P!TypeOK, [P!Next]_(P!vars), ~UNCHANGED P!vars PROVE P!CommandStep
  OBVIOUS
<1>1. PICK key \in Keys, at \in P!Timestamps, authenticated \in BOOLEAN, recently \in BOOLEAN,
           revision \in {P!PolicyRevision, P!PolicyRevision + 1} :
        Accepted(key, at, authenticated, recently, revision)
  BY StepCases
<1>2. PICK types, type, named :
        /\ types \in Seq(P!EventTypes)
        /\ P!Record(key, type, named, at, types)
        /\ P!PlanCommandFingerprint(type, named) \in CommandFingerprints
        /\ Len(types) \in 0..2
        /\ \/ \A i \in 1..Len(types) : types[i] \notin P!EscalationEvents
           \/ Len(types) \in 0..1 /\ type = "ADVANCE_TIME" /\ named = 0
  BY <1>1, AcceptedRecords
<1>3. P!Acceptable(key, at)
  BY <1>1, AcceptedRecords
<1> PICK f : f = P!PlanCommandFingerprint(type, named)
  OBVIOUS
<1>4. /\ f # P!NotProcessed /\ processed[key] = P!NotProcessed
      /\ processed' = [processed EXCEPT ![key] = f]
      /\ at >= lastCommandAt /\ lastCommandAt' = at
  BY <1>2, <1>3, FingerprintsMark DEF P!Acceptable, P!Record
<1>5. P!NewKeys = {key}
  BY <1>4 DEF P!NewKeys, P!TypeOK
<1>6. Cardinality(P!NewKeys) = 1
  BY <1>5, FS_Singleton
<1>7. \A k \in P!NewKeys : processed[k] = P!NotProcessed
  BY <1>4, <1>5
<1>8. /\ events \in Seq(EventRecords) /\ Len(events) \in Nat
      /\ events' \in Seq(EventRecords) /\ Len(events') = Len(events) + Len(types)
      /\ \A i \in 1..Len(events) : events'[i] = events[i]
      /\ \A i \in 1..Len(types) : events'[Len(events) + i] = P!Event(types[i], at)
  BY <1>2, Recorded DEF Histories
<1>9. P!NewEvents = Len(types) /\ P!NewEvents \in 0..2
  BY <1>2, <1>8 DEF P!NewEvents
<1>10. SubSeq(events', 1, Len(events)) = events
  <2> PICK n : n = Len(events)
    OBVIOUS
  <2> PICK past : past = SubSeq(events', 1, n)
    OBVIOUS
  <2>1. n \in Int /\ \A i \in 1..n : events'[i] \in EventRecords
    BY <1>8
  <2>2. /\ past \in Seq(EventRecords)
        /\ Len(past) = (IF 1 <= n THEN n - 1 + 1 ELSE 0)
        /\ \A i \in 1..(n - 1 + 1) : past[i] = events'[1 + i - 1]
    BY <2>1, SubSeqProperties
  <2>3. Len(past) = n /\ \A i \in 1..n : past[i] = events'[i]
    BY <1>8, <2>2
  <2>4. past = events
    BY <1>8, <2>2, <2>3, SeqEqual
  <2> QED
    BY <2>4
<1>11. ASSUME NEW i \in (Len(events) + 1)..Len(events'), events'[i].type \in P!EscalationEvents
       PROVE  P!NewEvents = 1 /\ processed' \in
                {[processed EXCEPT ![k] = <<"ADVANCE_TIME", 0>>] : k \in Keys}
  <2> PICK j : j = i - Len(events)
    OBVIOUS
  <2>1. j \in 1..Len(types) /\ i = Len(events) + j
    BY <1>2, <1>8
  <2>2. events'[i].type = types[j]
    BY <1>8, <2>1, EventFields
  <2>3. Len(types) \in 0..1 /\ type = "ADVANCE_TIME" /\ named = 0
    BY <1>2, <1>11, <2>1, <2>2
  <2>4. f = <<"ADVANCE_TIME", 0>>
    BY <2>3 DEF P!PlanCommandFingerprint, P!LifecycleCommands
  <2>5. processed' = [processed EXCEPT ![key] = <<"ADVANCE_TIME", 0>>]
    BY <1>4, <2>4
  <2>6. P!NewEvents = 1
    BY <1>9, <2>1, <2>3
  <2> QED
    BY <2>5, <2>6
<1> QED
  BY <1>4, <1>6, <1>7, <1>9, <1>10, <1>11, PlanCounts DEF P!CommandStep, P!TypeOK

(* One command at a time, for every sequence of them: it uses up one fresh *)
(* key, never rewrites the history or moves the clock back, and announces  *)
(* at most one escalation, which only a time advance may do.               *)
THEOREM CommandsStepOnce ==
  ASSUME P!PolicyAssumption PROVE P!Spec => [][P!CommandStep]_(P!vars)
BY InitTypeOK, NextTypeOK, CommandSteps, PTL DEF P!Spec

(***************************************************************************)
(* The application and its store.                                          *)
(***************************************************************************)

(* Sequences.                                                              *)

LEMMA Appended ==
  ASSUME NEW S, NEW s \in Seq(S), NEW e \in S
  PROVE  /\ Append(s, e) \in Seq(S) /\ Len(Append(s, e)) = Len(s) + 1
         /\ Len(s) \in Nat
         /\ \A i \in 1..Len(s) : Append(s, e)[i] = s[i]
         /\ Append(s, e)[Len(s) + 1] = e
OBVIOUS

(* A sequence is a prefix when the other is as long and agrees with it.    *)
LEMMA PrefixIs ==
  ASSUME NEW S, NEW s \in Seq(S), NEW u \in Seq(S)
  PROVE  A!IsPrefix(s, u) <=> /\ Len(s) <= Len(u)
                            /\ \A i \in 1..Len(s) : s[i] = u[i]
<1>1. ASSUME Len(s) <= Len(u)
      PROVE  SubSeq(s, 1, Len(s)) = SubSeq(u, 1, Len(s))
               <=> \A i \in 1..Len(s) : s[i] = u[i]
  <2>1. /\ SubSeq(s, 1, Len(s)) = [i \in 1..Len(s) |-> s[i]]
        /\ SubSeq(u, 1, Len(s)) = [i \in 1..Len(s) |-> u[i]]
    BY <1>1
  <2> QED
    BY <2>1
<1> QED
  BY <1>1 DEF A!IsPrefix

LEMMA AppendKeepsPrefix ==
  ASSUME NEW S, NEW s \in Seq(S), NEW u \in Seq(S), NEW e \in S, A!IsPrefix(s, u)
  PROVE  A!IsPrefix(s, Append(u, e))
<1>1. Len(s) \in Nat /\ Len(u) \in Nat
  OBVIOUS
<1>2. Len(s) <= Len(u) /\ \A i \in 1..Len(s) : s[i] = u[i]
  BY PrefixIs
<1>3. Append(u, e) \in Seq(S) /\ Len(s) <= Len(Append(u, e))
  BY <1>1, <1>2, Appended
<1>4. \A i \in 1..Len(s) : s[i] = Append(u, e)[i]
  BY <1>1, <1>2, Appended
<1> QED
  BY <1>3, <1>4, PrefixIs

LEMMA PrefixOfSelf ==
  ASSUME NEW S, NEW s \in Seq(S)
  PROVE  A!IsPrefix(s, s)
BY PrefixIs

(* What a sequence is longer by than its prefix makes it up.               *)
LEMMA PrefixAndRest ==
  ASSUME NEW S, NEW s \in Seq(S), NEW u \in Seq(S), A!IsPrefix(s, u)
  PROVE  s \o SubSeq(u, Len(s) + 1, Len(u)) = u
<1>1. Len(s) \in Nat /\ Len(u) \in Nat
  OBVIOUS
<1>2. Len(s) <= Len(u) /\ \A i \in 1..Len(s) : s[i] = u[i]
  BY PrefixIs
<1> PICK rest : rest = SubSeq(u, Len(s) + 1, Len(u))
  OBVIOUS
<1>3. /\ rest \in Seq(S) /\ Len(rest) = Len(u) - Len(s)
      /\ \A i \in 1..Len(rest) : rest[i] = u[Len(s) + i]
  BY <1>1, <1>2
<1>4. /\ s \o rest \in Seq(S) /\ Len(s \o rest) = Len(u)
      /\ \A i \in 1..Len(s) : (s \o rest)[i] = s[i]
      /\ \A i \in (Len(s) + 1)..Len(u) : (s \o rest)[i] = rest[i - Len(s)]
  BY <1>1, <1>2, <1>3
<1>5. \A i \in 1..Len(u) : (s \o rest)[i] = u[i]
  <2> SUFFICES ASSUME NEW i \in 1..Len(u) PROVE (s \o rest)[i] = u[i]
    OBVIOUS
  <2>1. CASE i \in 1..Len(s)
    BY <1>2, <1>4, <2>1
  <2>2. CASE i \notin 1..Len(s)
    <3>1. /\ i \in (Len(s) + 1)..Len(u) /\ i - Len(s) \in 1..Len(rest)
          /\ Len(s) + (i - Len(s)) = i
      BY <1>1, <1>2, <1>3, <2>2
    <3>2. (s \o rest)[i] = rest[i - Len(s)]
      BY <1>4, <3>1
    <3>3. rest[i - Len(s)] = u[Len(s) + (i - Len(s))]
      BY <1>3, <3>1
    <3> QED
      BY <3>1, <3>2, <3>3
  <2> QED
    BY <2>1, <2>2
<1> PICK w : w = s \o rest
  OBVIOUS
<1>6. w \in Seq(S) /\ Len(w) = Len(u) /\ \A i \in 1..Len(u) : w[i] = u[i]
  BY <1>4, <1>5
<1> QED
  BY <1>6

LEMMA AppendToSet ==
  ASSUME NEW S, NEW s \in Seq(S), NEW e \in S
  PROVE  A!ToSet(Append(s, e)) = A!ToSet(s) \cup {e}
<1>1. /\ DOMAIN s = 1..Len(s) /\ DOMAIN Append(s, e) = 1..(Len(s) + 1) /\ Len(s) \in Nat
      /\ \A i \in 1..Len(s) : Append(s, e)[i] = s[i]
      /\ Append(s, e)[Len(s) + 1] = e
  OBVIOUS
<1>2. 1..(Len(s) + 1) = 1..Len(s) \cup {Len(s) + 1}
  BY <1>1
<1> QED
  BY <1>1, <1>2 DEF A!ToSet

-----------------------------------------------------------------------------
(* The inductive invariant.                                                *)

Verifying == [step : {"verify"}, at : Nat, session : Sessions]
Transacting ==
  [step : {"transact"}, at : Nat, session : Sessions, verifiedAt : Nat, recent : BOOLEAN]
Waking == [step : {"transact"}, at : Nat]
Answers == {"expired", "not_found", "denied", "refused", "duplicate", "conflict", "committed"}
Done == [step : {"done"}, answer : Answers]

LogRecords ==
  [request : Requests, at : Nat, session : A!SessionRecords \cup {None},
   owner : {OwnerOf[s] : s \in Sessions} \cup {None}, verifiedAt : Nat]

RequestTyped(r) ==
  \/ requests[r] = A!Idle
  \/ ~A!Scheduled(r) /\ requests[r] \in Verifying
  \/ ~A!Scheduled(r) /\ requests[r] \in Transacting
  \/ A!Scheduled(r) /\ requests[r] \in Waking
  \/ requests[r] \in Done

Types ==
  /\ plan \in A!Plans \cup {None} /\ commands \subseteq A!Entries /\ audit \in Seq(A!EventNames)
  /\ sessions \in [Sessions -> A!SessionRecords \cup {None}]
  /\ DOMAIN requests = Requests
  /\ requests = [r \in Requests |-> requests[r]]
  /\ \A r \in Requests : RequestTyped(r)
  /\ log \in Seq(LogRecords)
  /\ clock \in Nat

(* What a request captured of its session still holds when it commits: the *)
(* session was active, and if it has been revoked then only since.         *)
Captured ==
  \A r \in Requests : ~A!Scheduled(r) /\ requests[r].step = "transact" =>
    /\ requests[r].verifiedAt <= clock
    /\ sessions[requests[r].session] # None
    /\ sessions[requests[r].session].since <= requests[r].at
    /\ requests[r].at <= sessions[requests[r].session].until
    /\ \/ sessions[requests[r].session].revokedAt = None
       \/ sessions[requests[r].session].revokedAt >= requests[r].verifiedAt
    /\ requests[r].recent =>
         requests[r].at - sessions[requests[r].session].since <= RecentMs

(* The log, the Plan and the tables follow one another.                    *)
Following ==
  IF plan = None
  THEN commands = {} /\ audit = <<>> /\ log = <<>>
  ELSE /\ Len(plan.keys) = Len(log)
       /\ commands = A!ToSet(plan.keys) /\ audit = plan.events
       /\ \A i \in 1..Len(log) : log[i].at <= plan.lastAt

KeysAreUnique == \A c, d \in commands : c.key = d.key => c = d

(* A Plan that is, or was, this one.                                       *)
WasPlan(p) ==
  /\ plan # None /\ p \in A!Plans
  /\ A!IsPrefix(p.keys, plan.keys) /\ A!IsPrefix(p.events, plan.events)

Exported ==
  /\ export.step \in {"commands", "audit"} => WasPlan(export.plan)
  /\ export.step \in {"idle", "commands", "audit"}
  /\ snapshot # None => WasPlan(snapshot.plan)
  /\ restored # None => WasPlan(restored.plan) /\ A!Valid(restored)
  /\ ~Statements => export.step = "idle" /\ A!SnapshotIsConsistent

Bounds == clock \in 0..MaxTime /\ arrivals \in 0..MaxArrivals /\ exports \in 0..MaxExports

ApplicationIInv ==
  /\ Types /\ Captured /\ Following /\ KeysAreUnique /\ Exported /\ Bounds
  /\ A!CommandsWereAuthorized /\ A!TimesNeverGoBack /\ A!AnswersAreTrue

-----------------------------------------------------------------------------
LEMMA InitInvariant == A!ApplicationAssumption /\ A!Init => ApplicationIInv
<1> SUFFICES ASSUME A!ApplicationAssumption, A!Init PROVE ApplicationIInv
  OBVIOUS
<1>1. Types
  BY DEF A!Init, Types, RequestTyped, A!Idle
<1>2. Captured /\ A!AnswersAreTrue
  BY DEF A!Init, Captured, A!AnswersAreTrue, A!Idle
<1>3. Following /\ KeysAreUnique
  BY DEF A!Init, Following, KeysAreUnique
<1>4. Exported
  BY DEF A!Init, Exported, A!NoExport, A!SnapshotIsConsistent
<1>5. Bounds
  BY DEF A!Init, Bounds, A!ApplicationAssumption
<1>6. A!CommandsWereAuthorized /\ A!TimesNeverGoBack
  BY DEF A!Init, A!CommandsWereAuthorized, A!TimesNeverGoBack
<1> QED
  BY <1>1, <1>2, <1>3, <1>4, <1>5, <1>6 DEF ApplicationIInv

(* What commits nothing leaves the Plan, its tables and the log alone.     *)
CommitsNothing == UNCHANGED <<plan, commands, audit, log>>

LEMMA NothingCommitted ==
  ASSUME ApplicationIInv, CommitsNothing
  PROVE  /\ Following' /\ KeysAreUnique'
         /\ A!CommandsWereAuthorized' /\ A!TimesNeverGoBack'
BY DEF ApplicationIInv, CommitsNothing, Following, KeysAreUnique, A!CommandsWereAuthorized,
       A!TimesNeverGoBack

LEMMA NothingExported ==
  ASSUME ApplicationIInv, UNCHANGED <<plan, export, snapshot, restored>>
  PROVE  Exported'
BY DEF ApplicationIInv, Exported, WasPlan, A!SnapshotIsConsistent, A!Valid

(* One request that takes a step, at which the invariant holds of it.      *)
LEMMA RequestSteps ==
  ASSUME ApplicationIInv, NEW r \in Requests, NEW q, requests' = [requests EXCEPT ![r] = q],
         UNCHANGED sessions, clock' = clock, commands \subseteq commands',
         plan' \in A!Plans \cup {None}, commands' \subseteq A!Entries,
         audit' \in Seq(A!EventNames), log' \in Seq(LogRecords),
         \/ q = A!Idle \/ q \in Done
         \/ ~A!Scheduled(r) /\ (q \in Verifying \/ q \in Transacting)
         \/ A!Scheduled(r) /\ q \in Waking,
         ~A!Scheduled(r) /\ q.step = "transact" =>
           /\ q.verifiedAt <= clock
           /\ sessions[q.session] # None
           /\ sessions[q.session].since <= q.at
           /\ q.at <= sessions[q.session].until
           /\ \/ sessions[q.session].revokedAt = None
              \/ sessions[q.session].revokedAt >= q.verifiedAt
           /\ q.recent => q.at - sessions[q.session].since <= RecentMs,
         q.step = "done" /\ q.answer \in {"committed", "duplicate"} => A!Entry(r) \in commands'
  PROVE  Types' /\ Captured' /\ A!AnswersAreTrue'
<1>1. /\ DOMAIN requests' = Requests
      /\ requests' = [x \in Requests |-> requests'[x]]
      /\ requests'[r] = q
      /\ \A x \in Requests : x # r => requests'[x] = requests[x]
  BY DEF ApplicationIInv, Types
<1>2. \A x \in Requests : RequestTyped(x)'
  BY <1>1 DEF ApplicationIInv, Types, RequestTyped
<1>3. Types'
  BY <1>1, <1>2 DEF ApplicationIInv, Types
<1>4. Captured'
  BY <1>1 DEF ApplicationIInv, Captured
<1>5. A!AnswersAreTrue'
  BY <1>1 DEF ApplicationIInv, A!AnswersAreTrue, A!Entry, A!Fingerprint
<1> QED
  BY <1>3, <1>4, <1>5

-----------------------------------------------------------------------------
(* The steps.                                                              *)

LEMMA TickKeeps == A!ApplicationAssumption /\ ApplicationIInv /\ A!Tick => ApplicationIInv'
<1> SUFFICES ASSUME A!ApplicationAssumption, ApplicationIInv, A!Tick PROVE ApplicationIInv'
  OBVIOUS
<1>1. clock \in Nat /\ clock' \in Nat /\ clock' = clock + 1
  BY DEF ApplicationIInv, Types, A!Tick
<1>2. Types'
  BY <1>1 DEF ApplicationIInv, Types, A!Tick, RequestTyped
<1>3. \A r \in Requests : ~A!Scheduled(r) /\ requests[r].step = "transact" =>
        requests[r].verifiedAt \in Nat
  BY DEF ApplicationIInv, Types, RequestTyped, A!Idle, Verifying, Transacting, Done
<1>4. Captured'
  BY <1>1, <1>3 DEF ApplicationIInv, Captured, A!Tick
<1>5. Bounds'
  BY <1>1 DEF ApplicationIInv, Bounds, A!Tick, A!ApplicationAssumption
<1>6. A!AnswersAreTrue' /\ CommitsNothing
  BY DEF ApplicationIInv, A!AnswersAreTrue, A!Tick, A!Entry, A!Fingerprint, CommitsNothing
<1>7. Exported'
  BY NothingExported DEF A!Tick
<1> QED
  BY <1>2, <1>4, <1>5, <1>6, <1>7, NothingCommitted DEF ApplicationIInv

(* Sessions begin and are revoked while requests that use them wait.       *)
LEMMA SignInKeeps ==
  ASSUME A!ApplicationAssumption, ApplicationIInv, NEW s \in Sessions, A!SignIn(s)
  PROVE  ApplicationIInv'
<1> PICK new : new = [since |-> clock, until |-> clock + SessionMs, revokedAt |-> None]
  OBVIOUS
<1>1. new \in A!SessionRecords
  BY DEF ApplicationIInv, Types, A!ApplicationAssumption, A!SessionRecords
<1>2. sessions[s] = None /\ sessions' = [sessions EXCEPT ![s] = new] /\ A!IdentityFrame
  BY DEF A!SignIn
<1>3. Types'
  BY <1>1, <1>2 DEF ApplicationIInv, Types, RequestTyped, A!IdentityFrame
<1>4. Captured'
  BY <1>2 DEF ApplicationIInv, Types, Captured, A!IdentityFrame
<1>5. A!AnswersAreTrue' /\ CommitsNothing /\ Bounds'
  BY <1>2 DEF ApplicationIInv, A!AnswersAreTrue, A!Entry, A!Fingerprint, A!IdentityFrame, CommitsNothing, Bounds
<1>6. Exported'
  BY <1>2, NothingExported DEF A!IdentityFrame
<1> QED
  BY <1>3, <1>4, <1>5, <1>6, NothingCommitted DEF ApplicationIInv

LEMMA RevokeKeeps ==
  ASSUME A!ApplicationAssumption, ApplicationIInv, NEW s \in Sessions, A!Revoke(s)
  PROVE  ApplicationIInv'
<1> PICK new : new = [sessions[s] EXCEPT !.revokedAt = clock]
  OBVIOUS
<1>1. sessions[s] \in A!SessionRecords /\ clock \in Nat
  BY DEF ApplicationIInv, Types, A!Revoke
<1>2. /\ new \in A!SessionRecords /\ new # None
      /\ new.since = sessions[s].since /\ new.until = sessions[s].until
      /\ new.revokedAt = clock
  BY <1>1 DEF A!SessionRecords, A!ApplicationAssumption
<1>3. sessions' = [sessions EXCEPT ![s] = new] /\ A!IdentityFrame
  BY DEF A!Revoke
<1>4. Types'
  BY <1>2, <1>3 DEF ApplicationIInv, Types, RequestTyped, A!IdentityFrame
<1>5. Captured'
  <2> SUFFICES ASSUME NEW r \in Requests, ~A!Scheduled(r), requests[r].step = "transact"
               PROVE  /\ requests[r].verifiedAt <= clock
                      /\ sessions'[requests[r].session] # None
                      /\ sessions'[requests[r].session].since <= requests[r].at
                      /\ requests[r].at <= sessions'[requests[r].session].until
                      /\ \/ sessions'[requests[r].session].revokedAt = None
                         \/ sessions'[requests[r].session].revokedAt >= requests[r].verifiedAt
                      /\ requests[r].recent =>
                           requests[r].at - sessions'[requests[r].session].since <= RecentMs
    BY <1>3 DEF Captured, A!IdentityFrame
  <2>1. /\ requests[r].verifiedAt \in Nat /\ requests[r].session \in Sessions
        /\ requests[r].verifiedAt <= clock
    BY DEF ApplicationIInv, Types, RequestTyped, A!Idle, Verifying, Transacting, Done, Captured
  <2>2. CASE requests[r].session # s
    BY <1>3, <2>1, <2>2 DEF ApplicationIInv, Types, Captured
  <2>3. CASE requests[r].session = s
    <3>1. sessions'[s] = new
      BY <1>3 DEF ApplicationIInv, Types
    <3> QED
      BY <1>1, <1>2, <2>1, <2>3, <3>1 DEF ApplicationIInv, Captured
  <2> QED
    BY <2>2, <2>3
<1>6. A!AnswersAreTrue' /\ CommitsNothing /\ Bounds'
  BY <1>3 DEF ApplicationIInv, A!AnswersAreTrue, A!Entry, A!Fingerprint, A!IdentityFrame, CommitsNothing, Bounds
<1>7. Exported'
  BY <1>3, NothingExported DEF A!IdentityFrame
<1> QED
  BY <1>4, <1>5, <1>6, <1>7, NothingCommitted DEF ApplicationIInv

LEMMA ArriveKeeps ==
  ASSUME A!ApplicationAssumption, ApplicationIInv, NEW r \in Requests, A!Arrive(r)
  PROVE  ApplicationIInv'
<1>1. /\ A!RequestFrame /\ arrivals' = arrivals + 1 /\ arrivals < MaxArrivals
      /\ clock \in Nat
  BY DEF A!Arrive, ApplicationIInv, Types
<1>2. PICK q : /\ requests' = [requests EXCEPT ![r] = q]
               /\ \/ A!Scheduled(r) /\ q = [step |-> "transact", at |-> clock]
                  \/ /\ ~A!Scheduled(r)
                     /\ \E s \in Sessions : q = [step |-> "verify", at |-> clock, session |-> s]
  BY DEF A!Arrive
<1>3. \/ A!Scheduled(r) /\ q \in Waking /\ q.step = "transact"
      \/ ~A!Scheduled(r) /\ q \in Verifying /\ q.step = "verify"
  BY <1>1, <1>2 DEF Waking, Verifying
<1>4. Types' /\ Captured' /\ A!AnswersAreTrue'
  BY <1>1, <1>2, <1>3, RequestSteps DEF A!RequestFrame, ApplicationIInv, Types
<1>5. CommitsNothing /\ Exported'
  BY <1>1, NothingExported DEF A!RequestFrame, CommitsNothing
<1>6. Bounds'
  BY <1>1 DEF ApplicationIInv, Bounds, A!RequestFrame, A!ApplicationAssumption
<1> QED
  BY <1>4, <1>5, <1>6, NothingCommitted DEF ApplicationIInv

LEMMA VerifyKeeps ==
  ASSUME A!ApplicationAssumption, ApplicationIInv, NEW r \in Requests, A!Verify(r)
  PROVE  ApplicationIInv'
<1>1. A!RequestFrame /\ UNCHANGED arrivals /\ requests[r].step = "verify"
  BY DEF A!Verify
<1>2. ~A!Scheduled(r) /\ requests[r] \in Verifying
  BY <1>1 DEF ApplicationIInv, Types, RequestTyped, A!Idle, Transacting, Waking, Done
<1> PICK at, s : at = requests[r].at /\ s = requests[r].session
  OBVIOUS
<1>3. at \in Nat /\ s \in Sessions /\ clock \in Nat
  BY <1>2 DEF Verifying, ApplicationIInv, Types
<1> PICK recent : recent = (at - sessions[s].since <= RecentMs)
  OBVIOUS
<1>4. recent \in BOOLEAN
  OBVIOUS
<1> DEFINE q == IF A!Active(s, at)
                THEN [step |-> "transact", at |-> at, session |-> s,
                      verifiedAt |-> clock, recent |-> recent]
                ELSE [step |-> "done", answer |-> "expired"]
<1>5. requests' = [requests EXCEPT ![r] = q]
  BY DEF A!Verify
<1>6. CASE A!Active(s, at)
  <2>1. q = [step |-> "transact", at |-> at, session |-> s, verifiedAt |-> clock,
             recent |-> recent]
    BY <1>6
  <2> HIDE DEF q
  <2>2. q \in Transacting
    BY <1>3, <1>4, <2>1 DEF Transacting
  <2>3. /\ q.verifiedAt <= clock /\ q.step = "transact"
        /\ sessions[q.session] # None
        /\ sessions[q.session].since <= q.at /\ q.at <= sessions[q.session].until
        /\ sessions[q.session].revokedAt = None
    BY <1>3, <1>6, <2>1 DEF A!Active
  <2>4. q.at = at /\ q.session = s /\ q.recent = recent
    BY <2>1, Zenon
  <2>5. q.recent => q.at - sessions[q.session].since <= RecentMs
    BY <2>4, Zenon
  <2> QED
    BY <1>1, <1>2, <1>5, <2>2, <2>3, <2>5, RequestSteps, NothingCommitted, NothingExported
    DEF A!RequestFrame, ApplicationIInv, Types, CommitsNothing, Bounds
<1>7. CASE ~A!Active(s, at)
  <2>1. q = [step |-> "done", answer |-> "expired"]
    BY <1>7
  <2> HIDE DEF q
  <2>2. q \in Done /\ q.step = "done" /\ q.answer = "expired"
    BY <2>1 DEF Done, Answers
  <2> QED
    BY <1>1, <1>5, <2>2, RequestSteps, NothingCommitted, NothingExported
    DEF A!RequestFrame, ApplicationIInv, Types, CommitsNothing, Bounds
<1> QED
  BY <1>6, <1>7

LEMMA AbandonKeeps ==
  ASSUME A!ApplicationAssumption, ApplicationIInv, NEW r \in Requests, A!Abandon(r)
  PROVE  ApplicationIInv'
<1>1. A!RequestFrame /\ UNCHANGED arrivals /\ requests' = [requests EXCEPT ![r] = A!Idle]
  BY DEF A!Abandon
<1>2. A!Idle.step = "idle"
  BY DEF A!Idle
<1> QED
  BY <1>1, <1>2, RequestSteps, NothingCommitted, NothingExported
  DEF A!RequestFrame, ApplicationIInv, Types, CommitsNothing, Bounds

(* A duplicate is told so of a command that is on record.                  *)
LEMMA RefuseKeeps ==
  ASSUME A!ApplicationAssumption, ApplicationIInv, NEW r \in Requests, A!Refuse(r)
  PROVE  ApplicationIInv'
<1> PICK a : a = A!Refusal(r)
  OBVIOUS
<1> PICK q : q = [step |-> "done", answer |-> a]
  OBVIOUS
<1>1. A!StoreFrame /\ CommitsNothing /\ requests' = [requests EXCEPT ![r] = q]
  BY DEF A!Refuse, A!Answer, CommitsNothing
<1>2. a \in Answers /\ a # "committed" /\ (a = "duplicate" => A!Entry(r) \in commands)
  BY DEF A!Refusal, Answers
<1>3. q \in Done /\ q.step = "done" /\ q.answer = a
  BY <1>2 DEF Done
<1> QED
  BY <1>1, <1>2, <1>3, RequestSteps, NothingCommitted, NothingExported
  DEF A!StoreFrame, CommitsNothing, ApplicationIInv, Types, Bounds

-----------------------------------------------------------------------------
(* The transaction.  Only a command the Owner may send, of a key not       *)
(* processed yet, and no earlier than the last, moves the Plan and its     *)
(* tables, all by the same entry.                                          *)
LEMMA CommitWrites ==
  ASSUME A!ApplicationAssumption, ApplicationIInv, NEW r \in Requests, A!Commit(r)
  PROVE  /\ plan \in A!Plans /\ plan' \in A!Plans /\ A!Entry(r) \in A!Entries
         /\ plan'.keys = Append(plan.keys, A!Entry(r))
         /\ A!IsPrefix(plan.events, plan'.events)
         /\ plan'.lastAt = requests[r].at /\ requests[r].at >= plan.lastAt
         /\ commands' = commands \cup {A!Entry(r)}
         /\ audit' = plan'.events
         /\ \A c \in commands : c.key # A!Entry(r).key
<1>1. plan \in A!Plans /\ A!MayDecide(r) /\ requests[r].step = "transact"
  BY DEF A!Commit, A!MayDecide, ApplicationIInv, Types
<1>2. PICK next \in A!Decided(r) : A!Transition(plan, next, r) /\ A!Write(r, next)
  BY DEF A!Commit
<1>3. A!Entry(r) \in A!Entries /\ RequestOf[r].key \in A!EventNames
  BY DEF A!Entry, A!Fingerprint, A!Entries, A!EventNames
<1>4. requests[r].at \in Nat
  BY <1>1 DEF ApplicationIInv, Types, RequestTyped, A!Idle, Verifying, Transacting, Waking, Done
<1>5. plan.keys \in Seq(A!Entries) /\ plan.events \in Seq(A!EventNames) /\ plan.lastAt \in Nat
  BY <1>1 DEF A!Plans
<1>6. /\ next.keys = Append(plan.keys, A!Entry(r))
      /\ A!IsPrefix(plan.events, next.events)
      /\ next.events \in {<<>>, plan.events, Append(plan.events, RequestOf[r].key)}
      /\ next.lastAt = requests[r].at
      /\ next = [keys |-> next.keys, events |-> next.events, lastAt |-> next.lastAt]
  BY <1>2 DEF A!Decided, A!Transition
<1>7. next.keys \in Seq(A!Entries)
  BY <1>3, <1>5, <1>6, Appended
<1>8. Append(plan.events, RequestOf[r].key) \in Seq(A!EventNames) /\ <<>> \in Seq(A!EventNames)
  BY <1>3, <1>5, Appended
<1>9. next.events \in Seq(A!EventNames)
  BY <1>5, <1>6, <1>8
<1>10. next \in A!Plans
  BY <1>4, <1>6, <1>7, <1>9 DEF A!Plans
<1>11. audit = plan.events
  BY <1>1 DEF A!MayDecide, ApplicationIInv, Following
<1>12. audit' = next.events
  BY <1>2, <1>5, <1>6, <1>9, <1>11, PrefixAndRest DEF A!Write, A!NewEvents
<1>13. \A c \in commands : c.key # A!Entry(r).key
  BY <1>1 DEF A!MayDecide, A!Processed, A!Entry
<1>14. plan' = next /\ commands' = commands \cup {A!Entry(r)} /\ requests[r].at >= plan.lastAt
  BY <1>1, <1>2 DEF A!Write, A!MayDecide
<1> QED
  BY <1>1, <1>3, <1>6, <1>10, <1>12, <1>13, <1>14

(* What the log keeps of a command that commits.                           *)
LEMMA CommitLogs ==
  ASSUME A!ApplicationAssumption, ApplicationIInv, NEW r \in Requests, A!Commit(r)
  PROVE  \E c \in LogRecords :
           /\ log' = Append(log, c)
           /\ c.request = r /\ c.at = requests[r].at
           /\ ~A!Scheduled(r) =>
                /\ c.owner = PlanOwner
                /\ c.session.since <= c.at /\ c.at <= c.session.until
                /\ c.session.revokedAt = None \/ c.session.revokedAt >= c.verifiedAt
                /\ RequestOf[r].intent \in Lifecycle => c.at - c.session.since <= RecentMs
<1>1. requests[r].step = "transact" /\ A!MayDecide(r) /\ clock \in Nat
  BY DEF A!Commit, ApplicationIInv, Types
<1>2. CASE A!Scheduled(r)
  <2> PICK c : c = [request |-> r, at |-> requests[r].at, session |-> None, owner |-> None,
                    verifiedAt |-> clock]
    OBVIOUS
  <2>1. requests[r].at \in Nat
    BY <1>1, <1>2 DEF ApplicationIInv, Types, RequestTyped, A!Idle, Waking, Done
  <2>2. c \in LogRecords
    BY <1>1, <2>1 DEF LogRecords
  <2>3. log' = Append(log, c)
    BY <1>2 DEF A!Commit
  <2> QED
    BY <1>2, <2>2, <2>3
<1>3. CASE ~A!Scheduled(r)
  <2> PICK s, q : s = requests[r].session /\ q = requests[r]
    OBVIOUS
  <2>1. q \in Transacting
    BY <1>1, <1>3 DEF ApplicationIInv, Types, RequestTyped, A!Idle, Verifying, Done
  <2>2. s \in Sessions /\ q.at \in Nat /\ q.verifiedAt \in Nat
    BY <2>1 DEF Transacting
  <2>3. sessions[s] \in A!SessionRecords \cup {None} /\ sessions[s] # None
    BY <1>1, <1>3, <2>2 DEF ApplicationIInv, Types, Captured
  <2> PICK c : c = [request |-> r, at |-> q.at, session |-> sessions[s],
                    owner |-> OwnerOf[s], verifiedAt |-> q.verifiedAt]
    OBVIOUS
  <2>4. c \in LogRecords
    BY <2>2, <2>3 DEF LogRecords
  <2>5. log' = Append(log, c)
    BY <1>3 DEF A!Commit
  <2>6. OwnerOf[s] = PlanOwner /\ (RequestOf[r].intent \in Lifecycle => q.recent)
    BY <1>1, <1>3 DEF A!MayDecide, A!Authorized
  <2>7. /\ sessions[s].since <= q.at /\ q.at <= sessions[s].until
        /\ sessions[s].revokedAt = None \/ sessions[s].revokedAt >= q.verifiedAt
        /\ q.recent => q.at - sessions[s].since <= RecentMs
    BY <1>1, <1>3 DEF ApplicationIInv, Captured
  <2>8. /\ c.request = r /\ c.at = q.at /\ c.owner = OwnerOf[s]
        /\ c.session = sessions[s] /\ c.verifiedAt = q.verifiedAt
    OBVIOUS
  <2> QED
    BY <2>4, <2>5, <2>6, <2>7, <2>8
<1> QED
  BY <1>2, <1>3

(* A longer Plan still begins with what its copies begin with.             *)
LEMMA CopiesStay ==
  ASSUME NEW p, WasPlan(p), plan' \in A!Plans, None \notin A!Plans,
         plan \in A!Plans, NEW e \in A!Entries, plan'.keys = Append(plan.keys, e),
         A!IsPrefix(plan.events, plan'.events)
  PROVE  /\ plan' # None /\ p \in A!Plans
         /\ A!IsPrefix(p.keys, plan'.keys) /\ A!IsPrefix(p.events, plan'.events)
<1>1. /\ p \in A!Plans /\ A!IsPrefix(p.keys, plan.keys) /\ A!IsPrefix(p.events, plan.events)
  BY DEF WasPlan
<1>2. /\ p.keys \in Seq(A!Entries) /\ plan.keys \in Seq(A!Entries)
      /\ p.events \in Seq(A!EventNames) /\ plan.events \in Seq(A!EventNames)
      /\ plan'.events \in Seq(A!EventNames)
  BY <1>1 DEF A!Plans
<1>3. A!IsPrefix(p.keys, plan'.keys)
  BY <1>1, <1>2, AppendKeepsPrefix
<1>4. /\ Len(p.events) <= Len(plan.events) /\ Len(plan.events) <= Len(plan'.events)
      /\ \A i \in 1..Len(p.events) : p.events[i] = plan.events[i]
      /\ \A i \in 1..Len(plan.events) : plan.events[i] = plan'.events[i]
  BY <1>1, <1>2, PrefixIs
<1>5. Len(p.events) \in Nat /\ Len(plan.events) \in Nat /\ Len(plan'.events) \in Nat
  BY <1>2
<1>6. /\ Len(p.events) <= Len(plan'.events)
      /\ \A i \in 1..Len(p.events) : p.events[i] = plan'.events[i]
  BY <1>4, <1>5
<1>7. A!IsPrefix(p.events, plan'.events)
  BY <1>2, <1>6, PrefixIs
<1> QED
  BY <1>1, <1>3, <1>7

LEMMA CommitKeeps ==
  ASSUME A!ApplicationAssumption, ApplicationIInv, NEW r \in Requests, A!Commit(r)
  PROVE  ApplicationIInv'
<1> PICK e : e = A!Entry(r)
  OBVIOUS
<1>1. /\ plan \in A!Plans /\ plan' \in A!Plans /\ e \in A!Entries /\ plan # None /\ plan' # None
      /\ plan'.keys = Append(plan.keys, e) /\ A!IsPrefix(plan.events, plan'.events)
      /\ plan'.lastAt = requests[r].at /\ requests[r].at >= plan.lastAt
      /\ commands' = commands \cup {e} /\ audit' = plan'.events
      /\ \A c \in commands : c.key # e.key
  BY CommitWrites DEF A!ApplicationAssumption
<1>2. PICK c \in LogRecords :
        /\ log' = Append(log, c) /\ c.request = r /\ c.at = requests[r].at
        /\ ~A!Scheduled(r) =>
             /\ c.owner = PlanOwner
             /\ c.session.since <= c.at /\ c.at <= c.session.until
             /\ c.session.revokedAt = None \/ c.session.revokedAt >= c.verifiedAt
             /\ RequestOf[r].intent \in Lifecycle => c.at - c.session.since <= RecentMs
  BY CommitLogs
<1>3. /\ log \in Seq(LogRecords) /\ log' \in Seq(LogRecords)
      /\ Len(log) \in Nat /\ Len(log') = Len(log) + 1
      /\ \A i \in 1..Len(log) : log'[i] = log[i]
      /\ log'[Len(log) + 1] = c
  BY <1>2, Appended DEF ApplicationIInv, Types
<1>4. \A i \in 1..Len(log') : i \in 1..Len(log) \/ i = Len(log) + 1
  BY <1>3
<1>5. /\ plan.keys \in Seq(A!Entries) /\ plan.lastAt \in Nat
      /\ plan'.lastAt \in Nat /\ plan'.events \in Seq(A!EventNames)
  BY <1>1 DEF A!Plans
<1> PICK q : q = [step |-> "done", answer |-> "committed"]
  OBVIOUS
<1>6. A!StoreFrame /\ requests' = [requests EXCEPT ![r] = q]
  BY DEF A!Commit, A!Answer
<1>7. q \in Done /\ q.step = "done" /\ q.answer = "committed"
  BY DEF Done, Answers
<1>8. commands \subseteq A!Entries /\ UNCHANGED sessions /\ clock' = clock /\ clock \in Nat
  BY <1>6 DEF ApplicationIInv, Types, A!StoreFrame
<1>9. e = A!Entry(r) /\ A!Entry(r) \in commands'
  BY <1>1
<1>10. Types' /\ Captured' /\ A!AnswersAreTrue'
  BY <1>1, <1>3, <1>5, <1>6, <1>7, <1>8, <1>9, RequestSteps
<1>11. /\ Len(plan.keys) = Len(log) /\ commands = A!ToSet(plan.keys)
       /\ \A i \in 1..Len(log) : log[i].at <= plan.lastAt
  BY <1>1 DEF ApplicationIInv, Following
<1>12. \A i \in 1..Len(log) : log[i].at \in Nat
  <2>1. \A i \in 1..Len(log) : log[i] \in LogRecords
    BY <1>3
  <2> QED
    BY <2>1 DEF LogRecords
<1>13. Following'
  <2>1. Len(plan'.keys) = Len(log')
    BY <1>1, <1>3, <1>5, <1>11, Appended
  <2>2. commands' = A!ToSet(plan'.keys)
    BY <1>1, <1>5, <1>11, AppendToSet
  <2>3. \A i \in 1..Len(log') : log'[i].at <= plan'.lastAt
    BY <1>1, <1>2, <1>3, <1>4, <1>5, <1>11, <1>12
  <2> QED
    BY <1>1, <2>1, <2>2, <2>3 DEF Following
<1>14. KeysAreUnique'
  BY <1>1 DEF ApplicationIInv, KeysAreUnique
<1>15. A!CommandsWereAuthorized'
  BY <1>2, <1>3, <1>4 DEF ApplicationIInv, A!CommandsWereAuthorized
<1>16. A!TimesNeverGoBack'
  <2>1. \A i \in 1..Len(log) : log[i].at <= c.at
    BY <1>1, <1>2, <1>5, <1>11, <1>12
  <2> QED
    BY <1>3, <1>4, <2>1 DEF ApplicationIInv, A!TimesNeverGoBack
<1>17. Exported'
  <2>1. \A p : WasPlan(p) => WasPlan(p)'
    BY <1>1, CopiesStay DEF WasPlan, A!ApplicationAssumption
  <2>2. UNCHANGED <<export, snapshot, restored>>
    BY <1>6 DEF A!StoreFrame
  <2> QED
    BY <2>1, <2>2 DEF ApplicationIInv, Exported, A!Valid, A!SnapshotIsConsistent, WasPlan
<1>18. Bounds'
  BY <1>6 DEF ApplicationIInv, Bounds, A!StoreFrame
<1> QED
  BY <1>10, <1>13, <1>14, <1>15, <1>16, <1>17, <1>18 DEF ApplicationIInv

LEMMA InitializeKeeps == A!ApplicationAssumption /\ ApplicationIInv /\ A!Initialize => ApplicationIInv'
<1> SUFFICES ASSUME A!ApplicationAssumption, ApplicationIInv, A!Initialize PROVE ApplicationIInv'
  OBVIOUS
<1> PICK new : new = [keys |-> <<>>, events |-> <<"created">>, lastAt |-> clock]
  OBVIOUS
<1>1. /\ plan = None /\ plan' = new /\ audit' = <<"created">>
      /\ UNCHANGED <<commands, requests, log>> /\ A!StoreFrame
  BY DEF A!Initialize
<1>2. clock \in Nat /\ "created" \in A!EventNames
  BY DEF ApplicationIInv, Types, A!EventNames
<1>3. <<"created">> \in Seq(A!EventNames) /\ <<>> \in Seq(A!Entries)
  BY <1>2
<1>4. new \in A!Plans /\ new # None /\ new.keys = <<>> /\ new.events = <<"created">>
  <2>1. new.keys = <<>> /\ new.events = <<"created">>
    OBVIOUS
  <2>2. new \in A!Plans
    BY <1>2, <1>3, Zenon DEF A!Plans
  <2> QED
    BY <2>1, <2>2 DEF A!ApplicationAssumption
<1>5. commands = {} /\ log = <<>>
  BY <1>1 DEF ApplicationIInv, Following
<1>6. Types'
  BY <1>1, <1>3, <1>4 DEF ApplicationIInv, Types, A!StoreFrame, RequestTyped
<1>7. Captured' /\ A!AnswersAreTrue' /\ Bounds'
  BY <1>1 DEF ApplicationIInv, Captured, A!AnswersAreTrue, Bounds, A!StoreFrame, A!Entry, A!Fingerprint
<1>8. Following'
  <2>1. A!ToSet(<<>>) = {} /\ Len(<<>>) = 0
    BY DEF A!ToSet
  <2> QED
    BY <1>1, <1>4, <1>5, <2>1 DEF Following
<1>9. KeysAreUnique' /\ A!CommandsWereAuthorized' /\ A!TimesNeverGoBack'
  BY <1>1 DEF ApplicationIInv, KeysAreUnique, A!CommandsWereAuthorized, A!TimesNeverGoBack
<1>10. Exported'
  BY <1>1, <1>4 DEF ApplicationIInv, Exported, WasPlan, A!StoreFrame, A!SnapshotIsConsistent
<1> QED
  BY <1>6, <1>7, <1>8, <1>9, <1>10 DEF ApplicationIInv

-----------------------------------------------------------------------------
(* Exports and restores.  Whatever the statements of an export see, the    *)
(* Plan among it was this Plan when it was read.                           *)

LEMMA PlanWasPlan ==
  ASSUME ApplicationIInv, plan # None PROVE WasPlan(plan)
<1>1. plan \in A!Plans /\ plan.keys \in Seq(A!Entries) /\ plan.events \in Seq(A!EventNames)
  BY DEF ApplicationIInv, Types, A!Plans
<1> QED
  BY <1>1, PrefixOfSelf DEF WasPlan

LEMMA ExportsKeep ==
  ASSUME A!ApplicationAssumption, ApplicationIInv, A!ExportFrame, Exported', Bounds'
  PROVE  ApplicationIInv'
<1>1. Types' /\ Captured' /\ A!AnswersAreTrue' /\ CommitsNothing
  BY DEF ApplicationIInv, Types, RequestTyped, Captured, A!AnswersAreTrue, A!Entry, A!Fingerprint, A!ExportFrame,
         CommitsNothing
<1> QED
  BY <1>1, NothingCommitted DEF ApplicationIInv

LEMMA ExportAtOnceKeeps == A!ApplicationAssumption /\ ApplicationIInv /\ A!ExportAtOnce => ApplicationIInv'
<1> SUFFICES ASSUME A!ApplicationAssumption, ApplicationIInv, A!ExportAtOnce PROVE ApplicationIInv'
  OBVIOUS
<1>1. /\ plan # None /\ exports < MaxExports /\ exports' = exports + 1
      /\ snapshot' = A!Taken(plan, commands, audit)
      /\ UNCHANGED <<export, restored>> /\ A!ExportFrame
  BY DEF A!ExportAtOnce
<1>2. WasPlan(plan) /\ commands = A!ToSet(plan.keys) /\ audit = plan.events
  BY <1>1, PlanWasPlan DEF ApplicationIInv, Following
<1>3. snapshot'.plan = plan /\ A!Valid(snapshot')
  BY <1>1, <1>2 DEF A!Taken, A!Valid
<1>4. Exported'
  BY <1>1, <1>2, <1>3 DEF ApplicationIInv, Exported, A!ExportFrame, WasPlan, A!SnapshotIsConsistent, A!Valid
<1>5. Bounds'
  BY <1>1 DEF ApplicationIInv, Bounds, A!ExportFrame, A!ApplicationAssumption
<1> QED
  BY <1>1, <1>4, <1>5, ExportsKeep

LEMMA ExportPlansKeeps == A!ApplicationAssumption /\ ApplicationIInv /\ A!ExportPlans => ApplicationIInv'
<1> SUFFICES ASSUME A!ApplicationAssumption, ApplicationIInv, A!ExportPlans PROVE ApplicationIInv'
  OBVIOUS
<1>1. /\ Statements /\ plan # None /\ exports < MaxExports /\ exports' = exports + 1
      /\ export' = [step |-> "commands", plan |-> plan]
      /\ UNCHANGED <<snapshot, restored>> /\ A!ExportFrame
  BY DEF A!ExportPlans
<1>2. WasPlan(plan) /\ export'.step = "commands" /\ export'.plan = plan
  BY <1>1, PlanWasPlan
<1>3. Exported'
  <2>1. UNCHANGED plan
    BY <1>1 DEF A!ExportFrame
  <2> QED
    BY <1>1, <1>2, <2>1 DEF ApplicationIInv, Exported, WasPlan, A!Valid
<1>4. Bounds'
  BY <1>1 DEF ApplicationIInv, Bounds, A!ExportFrame, A!ApplicationAssumption
<1> QED
  BY <1>1, <1>3, <1>4, ExportsKeep

LEMMA ExportCommandsKeeps == A!ApplicationAssumption /\ ApplicationIInv /\ A!ExportCommands => ApplicationIInv'
<1> SUFFICES ASSUME A!ApplicationAssumption, ApplicationIInv, A!ExportCommands PROVE ApplicationIInv'
  OBVIOUS
<1>1. /\ export.step = "commands"
      /\ export' = [step |-> "audit", plan |-> export.plan, commands |-> commands]
      /\ UNCHANGED <<snapshot, restored>> /\ UNCHANGED exports /\ A!ExportFrame
  BY DEF A!ExportCommands
<1>2. export'.step = "audit" /\ export'.plan = export.plan /\ Statements /\ WasPlan(export.plan)
  BY <1>1 DEF ApplicationIInv, Exported
<1>3. Exported'
  <2>1. UNCHANGED plan
    BY <1>1 DEF A!ExportFrame
  <2> QED
    BY <1>1, <1>2, <2>1 DEF ApplicationIInv, Exported, WasPlan, A!Valid
<1>4. Bounds'
  BY <1>1 DEF ApplicationIInv, Bounds, A!ExportFrame, A!ApplicationAssumption
<1> QED
  BY <1>1, <1>3, <1>4, ExportsKeep

LEMMA ExportAuditKeeps == A!ApplicationAssumption /\ ApplicationIInv /\ A!ExportAudit => ApplicationIInv'
<1> SUFFICES ASSUME A!ApplicationAssumption, ApplicationIInv, A!ExportAudit PROVE ApplicationIInv'
  OBVIOUS
<1>1. /\ export.step = "audit"
      /\ snapshot' = A!Taken(export.plan, export.commands, audit)
      /\ export' = A!NoExport /\ UNCHANGED restored /\ UNCHANGED exports /\ A!ExportFrame
  BY DEF A!ExportAudit
<1>2. snapshot'.plan = export.plan /\ Statements /\ WasPlan(export.plan)
      /\ export'.step = "idle"
  BY <1>1 DEF ApplicationIInv, Exported, A!Taken, A!NoExport
<1>3. Exported'
  <2>1. UNCHANGED plan
    BY <1>1 DEF A!ExportFrame
  <2> QED
    BY <1>1, <1>2, <2>1 DEF ApplicationIInv, Exported, WasPlan, A!Valid
<1>4. Bounds'
  BY <1>1 DEF ApplicationIInv, Bounds, A!ExportFrame, A!ApplicationAssumption
<1> QED
  BY <1>1, <1>3, <1>4, ExportsKeep

LEMMA RestoreKeeps == A!ApplicationAssumption /\ ApplicationIInv /\ A!Restore => ApplicationIInv'
<1> SUFFICES ASSUME A!ApplicationAssumption, ApplicationIInv, A!Restore PROVE ApplicationIInv'
  OBVIOUS
<1>1. /\ snapshot # None /\ A!Valid(snapshot) /\ restored' = snapshot
      /\ UNCHANGED <<export, snapshot>> /\ UNCHANGED exports /\ A!ExportFrame
  BY DEF A!Restore
<1>2. Exported'
  <2>1. UNCHANGED plan /\ WasPlan(snapshot.plan)
    BY <1>1 DEF A!ExportFrame, ApplicationIInv, Exported
  <2> QED
    BY <1>1, <2>1 DEF ApplicationIInv, Exported, WasPlan, A!SnapshotIsConsistent, A!Valid
<1>3. Bounds'
  BY <1>1 DEF ApplicationIInv, Bounds, A!ExportFrame, A!ApplicationAssumption
<1> QED
  BY <1>1, <1>2, <1>3, ExportsKeep

LEMMA NextInvariant == A!ApplicationAssumption /\ ApplicationIInv /\ [A!Next]_(A!vars) => ApplicationIInv'
<1> SUFFICES ASSUME A!ApplicationAssumption, ApplicationIInv, [A!Next]_(A!vars) PROVE ApplicationIInv'
  OBVIOUS
<1>1. CASE UNCHANGED A!vars
  <2>1. /\ A!ExportFrame /\ exports' = exports /\ UNCHANGED <<plan, export, snapshot, restored>>
    BY <1>1 DEF A!vars, A!ExportFrame
  <2>2. Exported'
    BY <2>1, NothingExported
  <2>3. Bounds'
    BY <2>1 DEF ApplicationIInv, Bounds, A!ExportFrame
  <2> QED
    BY <2>1, <2>2, <2>3, ExportsKeep
<1>2. CASE A!Next
  BY <1>2, TickKeeps, InitializeKeeps, RestoreKeeps, ExportAtOnceKeeps, ExportPlansKeeps,
     ExportCommandsKeeps, ExportAuditKeeps, SignInKeeps, RevokeKeeps, ArriveKeeps,
     VerifyKeeps, AbandonKeeps, RefuseKeeps, CommitKeeps DEF A!Next
<1> QED
  BY <1>1, <1>2

LEMMA InductiveInvariant == ASSUME A!ApplicationAssumption PROVE A!Spec => []ApplicationIInv
<1>1. A!Init => ApplicationIInv
  BY InitInvariant
<1>2. ApplicationIInv /\ [A!Next]_(A!vars) => ApplicationIInv'
  BY NextInvariant
<1> QED
  BY <1>1, <1>2, PTL DEF A!Spec

-----------------------------------------------------------------------------
(* The theorems.                                                           *)

(* However long a request waits for the only transaction, and whatever     *)
(* happens to its session meanwhile, a command that commits was sent by    *)
(* the Plan's Owner in a session that was active when the request came, a  *)
(* lifecycle command soon after a sign-in (application.ts, execute).       *)
THEOREM CommandsAreAuthorized ==
  ASSUME A!ApplicationAssumption PROVE A!Spec => []A!CommandsWereAuthorized
<1>1. ApplicationIInv => A!CommandsWereAuthorized
  BY DEF ApplicationIInv
<1> QED
  BY <1>1, InductiveInvariant, PTL

(* The Plan, its processed commands and its audit tell one story, one key  *)
(* stands for one command, and commands commit in the order of their times *)
(* (assertPlanTransition and the store transaction).                       *)
THEOREM TheTablesAgree ==
  ASSUME A!ApplicationAssumption PROVE A!Spec => [](A!TypeOK /\ A!TablesAgree /\ A!TimesNeverGoBack)
<1>1. ApplicationIInv => A!TypeOK
  <2> SUFFICES ASSUME ApplicationIInv PROVE A!TypeOK
    OBVIOUS
  <2>1. \A r \in Requests : requests[r].step \in {"idle", "verify", "transact", "done"}
    BY DEF ApplicationIInv, Types, RequestTyped, A!Idle, Verifying, Transacting, Waking, Done
  <2>2. plan = None \/ Len(plan.keys) = Len(log)
    BY DEF ApplicationIInv, Following
  <2> QED
    BY <2>1, <2>2 DEF A!TypeOK, ApplicationIInv, KeysAreUnique, Bounds
<1>2. ApplicationIInv => A!TablesAgree
  BY DEF ApplicationIInv, Following, A!TablesAgree, A!Valid, A!Taken
<1>3. ApplicationIInv => A!TimesNeverGoBack
  BY DEF ApplicationIInv
<1> QED
  BY <1>1, <1>2, <1>3, InductiveInvariant, PTL

(* Whoever is told that a command was applied, now or as a repetition,     *)
(* sent the intent that is on record under its key.                        *)
THEOREM AnswersStayTrue ==
  ASSUME A!ApplicationAssumption PROVE A!Spec => []A!AnswersAreTrue
<1>1. ApplicationIInv => A!AnswersAreTrue
  BY DEF ApplicationIInv
<1> QED
  BY <1>1, InductiveInvariant, PTL

(* What is restored was committed, even when the statements of its export  *)
(* saw different states: such a mixture is refused (assertSnapshot).       *)
THEOREM WhatIsRestoredWasCommitted ==
  ASSUME A!ApplicationAssumption PROVE A!Spec => []A!RestoredWasCommitted
<1>1. ApplicationIInv => A!RestoredWasCommitted
  BY DEF ApplicationIInv, Exported, WasPlan, A!RestoredWasCommitted
<1> QED
  BY <1>1, InductiveInvariant, PTL

(* An export taken in one step is one committed state (the embedded        *)
(* stores); the one PostgreSQL takes statement by statement need not be.   *)
THEOREM OneStepExportsAreConsistent ==
  ASSUME A!ApplicationAssumption, ~Statements PROVE A!Spec => []A!SnapshotIsConsistent
<1>1. ApplicationIInv => A!SnapshotIsConsistent
  BY DEF ApplicationIInv, Exported
<1> QED
  BY <1>1, InductiveInvariant, PTL
=============================================================================
