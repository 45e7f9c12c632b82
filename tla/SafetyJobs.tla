----------------------------- MODULE SafetyJobs -----------------------------
(***************************************************************************)
(* The durable work queue: jobs in PostgreSQL (postgresOperations.ts), the *)
(* operations they go through, and the workers of apps/runtime that claim, *)
(* run and settle them.  A lease is fenced by the number of the claim that *)
(* granted it; every comparison with a lease uses the database clock.      *)
(*                                                                         *)
(* Each database transaction is one action.  A worker loses its process,   *)
(* its connection or the acknowledgement of a commit at any point between. *)
(* Every job here is a synthetic notice; the work of a scheduled Plan      *)
(* advance is in PlanSchedule, which uses the queue's operators.           *)
(***************************************************************************)
EXTENDS Integers, FiniteSets

CONSTANTS
  JobIds,
  Contents,      \* what an intent says besides its due time
  DueTimes,      \* due times callers ask for
  Workers,
  MaxAttempts,   \* maxAttempts of every intent
  LeaseMs, RetryMs,
  Limit,         \* jobs per claim
  ClockSkews     \* how far a worker's clock may be from the database clock

ASSUME QueueAssumption ==
  /\ MaxAttempts \in Nat \ {0} /\ LeaseMs \in Nat \ {0}
  /\ RetryMs \in Nat \ {0} /\ Limit \in Nat \ {0}
  /\ DueTimes \subseteq Nat /\ ClockSkews \subseteq Int

VARIABLES
  jobs,       \* table safety_jobs: job id -> job
  receipts,   \* table synthetic_sink_receipts: job id -> digest of the payload
  held,       \* worker -> the claims it has still to run
  now         \* the database clock

vars == <<jobs, receipts, held, now>>

Intents == [content : Contents, dueAt : DueTimes]
Statuses == {"pending", "leased", "completed", "dead_letter"}
FailureCodes == {"none", "lease_expired", "retryable", "stale_schedule"}
NoLease == 0
Forever == -1

\* leaseId is a function of the job and of the claim's number, so the number
\* stands for it; completedAt is set exactly when the status is "completed".
Jobs == [intent : Intents, status : Statuses, attempts : Nat, availableAt : Int,
         leaseId : Nat, leaseExpiresAt : Int, leaseVersion : Nat,
         lastFailureCode : FailureCodes]

\* A claim a worker holds; `accepted' once the sink has taken its payload.
Claims == [job : JobIds, lease : Nat, accepted : BOOLEAN]
-----------------------------------------------------------------------------
(* The states of one job.                                                  *)

CreatePendingJob(intent) ==
  [intent |-> intent, status |-> "pending", attempts |-> 0,
   availableAt |-> intent.dueAt, leaseId |-> NoLease,
   leaseExpiresAt |-> Forever, leaseVersion |-> 0, lastFailureCode |-> "none"]

Unleased(job) == [job EXCEPT !.leaseId = NoLease, !.leaseExpiresAt = Forever]

LeasedJob(job, at, leaseMs) ==
  [job EXCEPT !.status = "leased", !.attempts = @ + 1,
              !.leaseVersion = @ + 1, !.leaseId = job.leaseVersion + 1,
              !.leaseExpiresAt = at + leaseMs]

CompletedJob(job) == [Unleased(job) EXCEPT !.status = "completed"]

DeadLetterJob(job, code) ==
  [Unleased(job) EXCEPT !.status = "dead_letter", !.lastFailureCode = code]

FailedJob(job, retryAt, maxAttempts) ==
  IF job.attempts >= maxAttempts
    THEN DeadLetterJob(job, "retryable")
    ELSE [Unleased(job) EXCEPT !.status = "pending", !.availableAt = retryAt,
                               !.lastFailureCode = "retryable"]

\* Fault: the expiry of the lease is not compared with the clock.
IsLeaseUntilReclaimed(job, lease, at) ==
  job.status = "leased" /\ job.leaseId = lease /\ at >= 0

IsCurrentLease(job, lease, at) ==
  job.status = "leased" /\ job.leaseId = lease /\ job.leaseExpiresAt > at

\* Fault: a lease is trusted to be settled by its holder.
IsDuePending(job, at) == job.status = "pending" /\ job.availableAt <= at

IsDue(job, at) ==
  \/ job.status = "pending" /\ job.availableAt <= at
  \/ job.status = "leased" /\ job.leaseExpiresAt <= at

IsExhausted(job, maxAttempts) ==
  job.status = "leased" /\ job.attempts >= maxAttempts
-----------------------------------------------------------------------------
Init ==
  /\ jobs = [j \in {} |-> CreatePendingJob(j)]
  /\ receipts = [j \in {} |-> j]
  /\ held = [w \in Workers |-> {}]
  /\ now = 0

\* INSERT ... ON CONFLICT DO NOTHING
InsertJob(table, j, intent) ==
  [k \in DOMAIN table \cup {j} |->
     IF k \in DOMAIN table THEN table[k] ELSE CreatePendingJob(intent)]

\* stageJob: an identifier that is known must carry the same intent; with
\* another one the transaction fails and there is no step.
Enqueue(j, intent) ==
  /\ j \in DOMAIN jobs => jobs[j].intent = intent
  /\ jobs' = InsertJob(jobs, j, intent)
  /\ UNCHANGED <<receipts, held, now>>

\* The rows a claim may find locked and skip: those another worker may be
\* settling at that moment.
Contended(w) ==
  {j \in DOMAIN jobs : \E v \in Workers \ {w} : \E c \in held[v] : c.job = j}

\* ORDER BY available_at, job_id ... LIMIT: the first `Limit' of the rows; the
\* order of the identifiers, which are digests, is left open.
FirstDue(rows) ==
  {s \in SUBSET rows :
     /\ Cardinality(s) <= Limit
     /\ Cardinality(s) = Limit \/ s = rows
     /\ \A j \in s, k \in rows \ s : jobs[j].availableAt <= jobs[k].availableAt}

\* What a claim does to one selected row.
ClaimedJob(job) ==
  IF IsExhausted(job, MaxAttempts) THEN DeadLetterJob(job, "lease_expired")
                                   ELSE LeasedJob(job, now, LeaseMs)

\* claimDueTransaction: a poll starts only when the last one has run its claims
\* (`running').  Rows that only turn into dead letters count against the limit.
\* The claims reach the worker unless the acknowledgement is lost.
ClaimDueAmong(w, rows) ==
  /\ held[w] = {}
  /\ \E skipped \in SUBSET Contended(w) :
     \E chosen \in FirstDue({j \in rows : IsDue(jobs[j], now)} \ skipped) :
       /\ jobs' = [j \in DOMAIN jobs |->
                     IF j \in chosen THEN ClaimedJob(jobs[j]) ELSE jobs[j]]
       /\ \/ held' = [held EXCEPT ![w] =
                        {[job |-> j, lease |-> jobs'[j].leaseId, accepted |-> FALSE] :
                           j \in {k \in chosen : jobs'[k].status = "leased"}}]
          \/ UNCHANGED held
  /\ UNCHANGED <<receipts, now>>

ClaimDue(w) == ClaimDueAmong(w, DOMAIN jobs)

Drop(w, c) == held' = [held EXCEPT ![w] = @ \ {c}]

\* acceptSyntheticSink, a transaction of its own, which knows no leases: the
\* first payload for a job is kept, the same one again is a duplicate.
AcceptSyntheticSink(w, c) ==
  /\ c \in held[w] /\ ~c.accepted
  /\ LET digest == jobs[c.job].intent.content
     IN  /\ c.job \in DOMAIN receipts => receipts[c.job] = digest
         /\ receipts' = [j \in DOMAIN receipts \cup {c.job} |->
                           IF j = c.job THEN digest ELSE receipts[j]]
  /\ held' = [held EXCEPT ![w] = (@ \ {c}) \cup {[c EXCEPT !.accepted = TRUE]}]
  /\ UNCHANGED <<jobs, now>>

\* Fault: the worker completes first and delivers afterwards.
CompleteFirst(w, c) ==
  /\ c \in held[w]
  /\ jobs' = IF IsCurrentLease(jobs[c.job], c.lease, now)
               THEN [jobs EXCEPT ![c.job] = CompletedJob(@)] ELSE jobs
  /\ Drop(w, c)
  /\ UNCHANGED <<receipts, now>>

\* complete: without the current lease the settlement throws, and so does the
\* failure report that follows it, and the worker goes on to the next claim.
Complete(w, c) ==
  /\ c \in held[w] /\ c.accepted
  /\ jobs' = IF IsCurrentLease(jobs[c.job], c.lease, now)
               THEN [jobs EXCEPT ![c.job] = CompletedJob(@)] ELSE jobs
  /\ Drop(w, c)
  /\ UNCHANGED <<receipts, now>>

\* fail: the handler of a claim threw.  The time of the retry comes from the
\* worker's clock.
Fail(w, c) ==
  /\ c \in held[w]
  /\ \E skew \in ClockSkews :
       jobs' = IF IsCurrentLease(jobs[c.job], c.lease, now)
                 THEN [jobs EXCEPT ![c.job] =
                         FailedJob(@, now + skew + RetryMs, MaxAttempts)]
                 ELSE jobs
  /\ Drop(w, c)
  /\ UNCHANGED <<receipts, now>>

\* The process ends, or gives up the rest of a batch; its leases run out.
Crash(w) ==
  /\ held[w] # {}
  /\ held' = [held EXCEPT ![w] = {}]
  /\ UNCHANGED <<jobs, receipts, now>>

\* Bound: time only passes while some deadline lies ahead.  Without one no
\* comparison of the code could tell the difference.
DeadlineAhead ==
  \E j \in DOMAIN jobs :
    \/ jobs[j].status = "pending" /\ jobs[j].availableAt > now
    \/ jobs[j].status = "leased" /\ jobs[j].leaseExpiresAt > now
Tick ==
  /\ DeadlineAhead
  /\ now' = now + 1
  /\ UNCHANGED <<jobs, receipts, held>>

Work(w) ==
  \E c \in held[w] : AcceptSyntheticSink(w, c) \/ Complete(w, c) \/ Fail(w, c)

Next ==
  \/ \E j \in JobIds, intent \in Intents : Enqueue(j, intent)
  \/ \E w \in Workers : ClaimDue(w) \/ Work(w) \/ Crash(w)
  \/ Tick

Spec == Init /\ [][Next]_vars

\* The database clock runs, and every worker polls on its timer and runs the
\* claims it holds.
Fairness ==
  /\ WF_vars(Tick)
  /\ \A w \in Workers : WF_vars(ClaimDue(w)) /\ WF_vars(Work(w))

FairSpec == Spec /\ Fairness
-----------------------------------------------------------------------------
(* Properties.                                                             *)

(* Type correctness of the tables and of what the workers hold.            *)
TypeOK ==
  /\ DOMAIN jobs \subseteq JobIds
  /\ jobs \in [DOMAIN jobs -> Jobs]
  /\ DOMAIN receipts \subseteq DOMAIN jobs
  /\ receipts \in [DOMAIN receipts -> Contents]
  /\ held \in [Workers -> SUBSET Claims]
  /\ \A w \in Workers : \A c \in held[w] : c.job \in DOMAIN jobs
  /\ now \in Nat

(* Whatever sequence of claims, failures, expiries and crashes a job goes  *)
(* through, validateJob accepts it: otherwise the row could never be read  *)
(* or settled again.  Each claim used an attempt, attempts stay in bounds, *)
(* a pending job has one left and only a leased one has a lease.           *)
ValidJob(job) ==
  /\ job.attempts <= MaxAttempts
  /\ job.attempts = job.leaseVersion
  /\ job.status = "pending" => job.attempts < MaxAttempts
  /\ IF job.status = "leased" THEN job.leaseId = job.leaseVersion /\ job.attempts > 0
                              ELSE job.leaseId = NoLease
  /\ (job.status = "dead_letter" /\ job.lastFailureCode # "stale_schedule")
       => job.attempts = MaxAttempts
JobsAreValid == \A j \in DOMAIN jobs : ValidJob(jobs[j])

(* The fencing tuple has one holder: of all the claims workers still hold  *)
(* for a job, some of them stale, at most one worker's could settle it.    *)
OneCurrentHolder ==
  \A v, w \in Workers : \A c \in held[v], d \in held[w] :
    (/\ c.job = d.job
     /\ IsCurrentLease(jobs[c.job], c.lease, now)
     /\ IsCurrentLease(jobs[d.job], d.lease, now)) => v = w /\ c = d

(* A claim never outlives the job's own count of claims, and one that has  *)
(* been superseded can never become current again.                         *)
ClaimsAreFenced ==
  \A w \in Workers : \A c \in held[w] :
    /\ 0 < c.lease /\ c.lease <= jobs[c.job].leaseVersion
    /\ c.accepted => c.job \in DOMAIN receipts

(* At least once: a completed notice is in the sink, with the payload that *)
(* was enqueued.  Delivery and completion are separate transactions of a   *)
(* worker that may be stale by the time of the second.                     *)
CompletedWasDelivered ==
  \A j \in DOMAIN jobs : jobs[j].status = "completed" =>
    j \in DOMAIN receipts /\ receipts[j] = jobs[j].intent.content

(* The queue is sound: typed, readable, fenced and true to its sink, after *)
(* any sequence of claims, failures, expiries and crashes (PgSafetyJobStore*)
(* and DurableNotificationWorker).                                         *)
QueueIsSound ==
  /\ TypeOK /\ JobsAreValid /\ OneCurrentHolder /\ ClaimsAreFenced
  /\ CompletedWasDelivered

(* A settled job stays as it is: no retry, late worker or repeated enqueue *)
(* brings it back, and a job's intent never changes.  Only the holder of   *)
(* an unexpired lease settles or releases a job: once a lease has run out, *)
(* all that can happen is another claim, or the dead letter of a job with  *)
(* no attempt left.                                                        *)
SettledForGood ==
  [][\A j \in DOMAIN jobs :
       /\ j \in DOMAIN jobs' /\ jobs'[j].intent = jobs[j].intent
       /\ jobs[j].status \in {"completed", "dead_letter"} => jobs'[j] = jobs[j]
       /\ jobs[j].status = "leased" /\ jobs[j].leaseExpiresAt <= now =>
            \/ jobs'[j] = jobs[j]
            \/ jobs'[j].status = "leased" /\ jobs'[j].leaseId > jobs[j].leaseId
            \/ jobs'[j].status = "dead_letter" /\ jobs[j].attempts = MaxAttempts]_vars

(* Every job ends, completed or in the dead letters, however often workers *)
(* crash: a crash costs an attempt, and attempts are bounded.              *)
EveryJobEnds ==
  \A j \in JobIds :
    (j \in DOMAIN jobs) ~>
      (j \in DOMAIN jobs /\ jobs[j].status \in {"completed", "dead_letter"})
=============================================================================
