-------------------------------- MODULE Plan --------------------------------
(***************************************************************************)
(* The domain model of a continuity Plan (packages/domain/src/plan.ts): a  *)
(* pure decision function from a state and a command to the next state.    *)
(* Each command of the code is an action whose parameters are the fields   *)
(* of the command; a command that the code rejects has no step.            *)
(*                                                                         *)
(* processedCommandKeys and processedCommandFingerprints always hold the   *)
(* same keys, so they are one function `processed'.  The id of an event is *)
(* its position in `events' and its type.                                  *)
(***************************************************************************)
EXTENDS Integers, Sequences, FiniteSets

CONSTANTS
  Keys,               \* idempotency keys a caller may use
  CheckInIntervalMs,  \* the timeline policy
  ReminderLeadMs,
  GracePeriodMs,
  MaxSafe             \* Number.MAX_SAFE_INTEGER, the end of the time line

(* validatePolicy: positive durations, and a reminder strictly between the *)
(* start of a cycle and its due time.  A draft can be created.             *)
ASSUME PolicyAssumption ==
  /\ {CheckInIntervalMs, ReminderLeadMs, GracePeriodMs, MaxSafe} \subseteq Nat
  /\ 0 < ReminderLeadMs /\ ReminderLeadMs < CheckInIntervalMs
  /\ 0 < GracePeriodMs
  /\ CheckInIntervalMs + GracePeriodMs <= MaxSafe

VARIABLES
  lifecycle,       \* draft, armed, paused or disabled
  hasRehearsed,
  lastCommandAt,   \* time of the last accepted command
  cycle,           \* the current ConcernCycle
  processed,       \* key -> fingerprint of the command accepted under it
  events           \* the Plan's history, oldest first

vars == <<lifecycle, hasRehearsed, lastCommandAt, cycle, processed, events>>

Lifecycles == {"draft", "armed", "paused", "disabled"}
Stages == {"on_time", "reminder", "overdue", "concern"}
EscalationEvents == {"REMINDER_ENTERED", "OVERDUE_ENTERED", "CONCERN_ENTERED"}
EventTypes == EscalationEvents \cup
  {"PLAN_DRAFTED", "PLAN_REHEARSED", "PLAN_ARMED", "PLAN_PAUSED",
   "PLAN_RESUMED", "PLAN_DISABLED", "CONCERN_CANCELLED", "OWNER_CHECKED_IN"}
LifecycleCommands ==
  {"REHEARSE_PLAN", "ARM_PLAN", "PAUSE_PLAN", "RESUME_PLAN", "DISABLE_PLAN"}

Timestamps == 0..MaxSafe

\* policyRevision is written once, by createDraftPlan.
PolicyRevision == 1

\* Two commands mean the same exactly when their fingerprints are equal; only
\* lifecycle commands name a policy revision.
PlanCommandFingerprint(type, revision) ==
  IF type \in LifecycleCommands THEN <<type, revision>> ELSE <<type, 0>>

NotProcessed == <<"none", 0>>
Fingerprints == ((LifecycleCommands \cup {"ADVANCE_TIME", "OWNER_CHECK_IN"})
                   \X Nat) \cup {NotProcessed}
-----------------------------------------------------------------------------
(* createCycle, and the overflow that makes it throw.                      *)

\* Fault: the grace period is left out of the overflow check.
CycleFitsDue(at) == at + CheckInIntervalMs <= MaxSafe

CycleFits(at) == at + CheckInIntervalMs + GracePeriodMs <= MaxSafe

\* Fault: the grace period is not added to the due time.
CreateCycleWithoutGrace(at) ==
  [stage      |-> "on_time",
   startedAt  |-> at,
   reminderAt |-> at + CheckInIntervalMs - ReminderLeadMs,
   dueAt      |-> at + CheckInIntervalMs,
   concernAt  |-> at + CheckInIntervalMs]

CreateCycle(at) ==
  [stage      |-> "on_time",
   startedAt  |-> at,
   reminderAt |-> at + CheckInIntervalMs - ReminderLeadMs,
   dueAt      |-> at + CheckInIntervalMs,
   concernAt  |-> at + CheckInIntervalMs + GracePeriodMs]

Cycles == [stage : Stages, startedAt : Timestamps, reminderAt : Timestamps,
           dueAt : Timestamps, concernAt : Timestamps]

\* nextTimelineTransition: from each stage, the moment it ends, the stage that
\* follows and the event that says so.  Nothing follows "concern".
TimelineTransitions(c) ==
  {[from |-> "on_time",  when |-> c.reminderAt, to |-> "reminder",
    event |-> "REMINDER_ENTERED"],
   [from |-> "reminder", when |-> c.dueAt,      to |-> "overdue",
    event |-> "OVERDUE_ENTERED"],
   [from |-> "overdue",  when |-> c.concernAt,  to |-> "concern",
    event |-> "CONCERN_ENTERED"]}

NextTimelineTransition(c, at) ==
  {t \in TimelineTransitions(c) : t.from = c.stage /\ at >= t.when}
-----------------------------------------------------------------------------
Event(type, at) == [type |-> type, at |-> at]

\* createDraftPlan
Init ==
  /\ lastCommandAt \in {at \in Timestamps : CycleFits(at)}
  /\ lifecycle = "draft"
  /\ hasRehearsed = FALSE
  /\ cycle = CreateCycle(lastCommandAt)
  /\ processed = [k \in Keys |-> NotProcessed]
  /\ events = <<Event("PLAN_DRAFTED", lastCommandAt)>>

\* Fault: a command that lost the race is accepted at its own, earlier time.
AcceptableAtAnyTime(key, at) ==
  /\ processed[key] = NotProcessed
  /\ at \in Timestamps

\* applyPlanCommand: what every command passes before it is looked at.  The
\* idempotency key is examined before the time.
Acceptable(key, at) ==
  /\ processed[key] = NotProcessed
  /\ at >= lastCommandAt

\* What every accepted command leaves behind.
Record(key, type, revision, at, types) ==
  /\ lastCommandAt' = at
  /\ processed' = [processed EXCEPT ![key] =
                     PlanCommandFingerprint(type, revision)]
  /\ events' = events \o [i \in 1..Len(types) |-> Event(types[i], at)]

\* A known key with the same meaning: the state is returned as it is.
Replay(key, type, revision) ==
  /\ processed[key] = PlanCommandFingerprint(type, revision)
  /\ UNCHANGED vars

\* Fault: the cancellation is only written from the overdue stage on.
CancelledOverdue ==
  IF cycle.stage \in {"overdue", "concern"} THEN <<"CONCERN_CANCELLED">> ELSE <<>>

CancelledConcern ==
  IF cycle.stage = "concern" THEN <<"CONCERN_CANCELLED">> ELSE <<>>

RehearsePlan(key, at, authenticated, revision) ==
  /\ Acceptable(key, at)
  /\ authenticated /\ revision = PolicyRevision
  /\ lifecycle = "draft"
  /\ hasRehearsed' = TRUE
  /\ Record(key, "REHEARSE_PLAN", revision, at, <<"PLAN_REHEARSED">>)
  /\ UNCHANGED <<lifecycle, cycle>>

\* The checks that the other four lifecycle commands share.
LifecycleAllowed(key, at, authenticated, recently, revision) ==
  /\ Acceptable(key, at)
  /\ authenticated /\ revision = PolicyRevision
  /\ recently

ArmPlan(key, at, authenticated, recently, revision) ==
  /\ LifecycleAllowed(key, at, authenticated, recently, revision)
  /\ lifecycle = "draft" /\ hasRehearsed
  /\ CycleFits(at)
  /\ lifecycle' = "armed"
  /\ cycle' = CreateCycle(at)
  /\ Record(key, "ARM_PLAN", revision, at, <<"PLAN_ARMED">>)
  /\ UNCHANGED hasRehearsed

\* Fault: pausing is not limited to an armed Plan.
PauseAnyPlan(key, at, authenticated, recently, revision) ==
  /\ LifecycleAllowed(key, at, authenticated, recently, revision)
  /\ lifecycle' = "paused"
  /\ Record(key, "PAUSE_PLAN", revision, at, <<"PLAN_PAUSED">>)
  /\ UNCHANGED <<hasRehearsed, cycle>>

PausePlan(key, at, authenticated, recently, revision) ==
  /\ LifecycleAllowed(key, at, authenticated, recently, revision)
  /\ lifecycle = "armed"
  /\ lifecycle' = "paused"
  /\ Record(key, "PAUSE_PLAN", revision, at, <<"PLAN_PAUSED">>)
  /\ UNCHANGED <<hasRehearsed, cycle>>

\* Fault: resuming keeps the cycle that was suspended.
ResumeOldCycle(key, at, authenticated, recently, revision) ==
  /\ LifecycleAllowed(key, at, authenticated, recently, revision)
  /\ lifecycle = "paused"
  /\ lifecycle' = "armed"
  /\ Record(key, "RESUME_PLAN", revision, at,
            CancelledConcern \o <<"PLAN_RESUMED">>)
  /\ UNCHANGED <<hasRehearsed, cycle>>

ResumePlan(key, at, authenticated, recently, revision) ==
  /\ LifecycleAllowed(key, at, authenticated, recently, revision)
  /\ lifecycle = "paused"
  /\ CycleFits(at)
  /\ lifecycle' = "armed"
  /\ cycle' = CreateCycle(at)
  /\ Record(key, "RESUME_PLAN", revision, at,
            CancelledConcern \o <<"PLAN_RESUMED">>)
  /\ UNCHANGED hasRehearsed

DisablePlan(key, at, authenticated, recently, revision) ==
  /\ LifecycleAllowed(key, at, authenticated, recently, revision)
  /\ lifecycle # "disabled"
  /\ lifecycle' = "disabled"
  /\ \/ cycle.stage = "concern" /\ CycleFits(at) /\ cycle' = CreateCycle(at)
     \/ cycle.stage # "concern" /\ UNCHANGED cycle
  /\ Record(key, "DISABLE_PLAN", revision, at,
            CancelledConcern \o <<"PLAN_DISABLED">>)
  /\ UNCHANGED hasRehearsed

OwnerCheckIn(key, at, authenticated) ==
  /\ Acceptable(key, at)
  /\ authenticated
  /\ lifecycle = "armed"
  /\ CycleFits(at)
  /\ cycle' = CreateCycle(at)
  /\ Record(key, "OWNER_CHECK_IN", 0, at,
            CancelledConcern \o <<"OWNER_CHECKED_IN">>)
  /\ UNCHANGED <<lifecycle, hasRehearsed>>

\* applyTimeAdvance: at most one stage per command; a Plan that is not armed,
\* or whose next moment has not come, only remembers the command.
AdvanceTime(key, at) ==
  /\ Acceptable(key, at)
  /\ LET due == IF lifecycle = "armed" THEN NextTimelineTransition(cycle, at)
                                       ELSE {}
     IN \/ /\ due = {}
           /\ Record(key, "ADVANCE_TIME", 0, at, <<>>)
           /\ UNCHANGED cycle
        \/ \E t \in due :
             /\ cycle' = [cycle EXCEPT !.stage = t.to]
             /\ Record(key, "ADVANCE_TIME", 0, at, <<t.event>>)
  /\ UNCHANGED <<lifecycle, hasRehearsed>>

\* A caller's clock, session and idea of the policy revision are not in the
\* hands of the domain: they are inputs.
OwnerCommand(key, at, authenticated, recently, revision) ==
  \/ RehearsePlan(key, at, authenticated, revision)
  \/ ArmPlan(key, at, authenticated, recently, revision)
  \/ PausePlan(key, at, authenticated, recently, revision)
  \/ ResumePlan(key, at, authenticated, recently, revision)
  \/ DisablePlan(key, at, authenticated, recently, revision)
  \/ OwnerCheckIn(key, at, authenticated)

Next ==
  \E key \in Keys, at \in Timestamps, revision \in {PolicyRevision, PolicyRevision + 1} :
    \/ \E authenticated, recently \in BOOLEAN :
         OwnerCommand(key, at, authenticated, recently, revision)
    \/ AdvanceTime(key, at)
    \/ \E type \in LifecycleCommands \cup {"ADVANCE_TIME", "OWNER_CHECK_IN"} :
         Replay(key, type, revision)

Spec == Init /\ [][Next]_vars
-----------------------------------------------------------------------------
(* Properties.                                                             *)

(* Type correctness of every variable of the Plan.                         *)
TypeOK ==
  /\ lifecycle \in Lifecycles
  /\ hasRehearsed \in BOOLEAN
  /\ lastCommandAt \in Timestamps
  /\ cycle \in Cycles
  /\ processed \in [Keys -> Fingerprints]
  /\ events \in Seq([type : EventTypes, at : Timestamps])

\* The stage an escalation event announces, and the stage it must follow.
Announces == [REMINDER_ENTERED |-> "reminder", OVERDUE_ENTERED |-> "overdue",
              CONCERN_ENTERED |-> "concern"]
Follows == [REMINDER_ENTERED |-> "on_time", OVERDUE_ENTERED |-> "reminder",
            CONCERN_ENTERED |-> "overdue"]
DelayOf ==
  [reminder |-> CheckInIntervalMs - ReminderLeadMs,
   overdue  |-> CheckInIntervalMs,
   concern  |-> CheckInIntervalMs + GracePeriodMs]

\* What the history alone says of the moment before its i-th event: the
\* events that start a full interval, and the stage reached since.
Renewals == {"PLAN_DRAFTED", "PLAN_ARMED", "PLAN_RESUMED", "OWNER_CHECKED_IN"}
Latest(i, types) ==
  LET past == {j \in 1..(i - 1) : events[j].type \in types}
  IN  CHOOSE j \in past \cup {0} : \A k \in past : k <= j
StageBefore(i) ==
  LET j == Latest(i, EscalationEvents)
  IN  IF j > Latest(i, Renewals) THEN Announces[events[j].type] ELSE "on_time"

(* Every escalation in the history was earned: it climbed one rung from    *)
(* the rung the history had reached, happened while the last lifecycle     *)
(* event had left the Plan armed, and came no earlier than the full delay  *)
(* of its stage after the last arming, resumption or Check-in.  This is    *)
(* nextTimelineTransition and createCycle seen over a whole life: a cycle  *)
(* that is not restarted, a pause that lets time run or a stage that is    *)
(* skipped would each show up here several commands later.                 *)
EscalationsAreEarned ==
  \A i \in DOMAIN events : events[i].type \in EscalationEvents =>
    LET renewal == Latest(i, Renewals)
        control == Latest(i, {"PLAN_ARMED", "PLAN_RESUMED", "PLAN_PAUSED",
                              "PLAN_DISABLED"})
    IN  /\ StageBefore(i) = Follows[events[i].type]
        /\ control > 0 /\ events[control].type \in {"PLAN_ARMED", "PLAN_RESUMED"}
        /\ events[i].at >= events[renewal].at + DelayOf[Announces[events[i].type]]

Occurrences(type) == Cardinality({i \in DOMAIN events : events[i].type = type})

(* No Concern is lost and none is cancelled twice: every CONCERN_ENTERED   *)
(* has its CONCERN_CANCELLED, except the one the Plan is in now, and a     *)
(* disabled Plan is in none.  Resume, disable and Check-in each write the  *)
(* cancellation in a branch of their own.                                  *)
ConcernsAreSettled ==
  /\ Occurrences("CONCERN_ENTERED") =
       Occurrences("CONCERN_CANCELLED") + (IF cycle.stage = "concern" THEN 1 ELSE 0)
  /\ lifecycle = "disabled" => cycle.stage # "concern"

\* The moment the current stage began to be allowed.
StageFloor(c) ==
  CASE c.stage = "on_time"  -> c.startedAt
    [] c.stage = "reminder" -> c.reminderAt
    [] c.stage = "overdue"  -> c.dueAt
    [] c.stage = "concern"  -> c.concernAt

(* The stored deadlines always belong to one cycle of the policy, the Plan *)
(* is never at a stage whose moment has not been heard of, and a Plan that *)
(* ever left draft towards armed or paused was rehearsed.  The deadlines   *)
(* are stored beside the start they were computed from, and the rejection  *)
(* of earlier times is what keeps the stage behind lastCommandAt.          *)
TimelineConsistent ==
  /\ cycle.reminderAt = cycle.startedAt + DelayOf.reminder
  /\ cycle.dueAt = cycle.startedAt + DelayOf.overdue
  /\ cycle.concernAt = cycle.startedAt + DelayOf.concern
  /\ StageFloor(cycle) <= lastCommandAt
  /\ lifecycle \in {"armed", "paused"} => hasRehearsed
  /\ lifecycle = "draft" => cycle.stage = "on_time"

NewKeys == {k \in Keys : processed[k] # processed'[k]}
NewEvents == Len(events') - Len(events)

(* What one command may do: it uses up exactly one fresh key for good,     *)
(* leaves the past of the history as it was, does not move the clock back, *)
(* and announces at most one escalation, alone.  A replay therefore does   *)
(* nothing, and a late scheduler cannot push a Plan through two stages.    *)
CommandStep ==
  /\ Cardinality(NewKeys) = 1
  /\ \A k \in NewKeys : processed[k] = NotProcessed
  /\ NewEvents \in 0..2
  /\ SubSeq(events', 1, Len(events)) = events
  /\ lastCommandAt' >= lastCommandAt
  /\ \A i \in (Len(events) + 1)..Len(events') :
       events'[i].type \in EscalationEvents =>
         NewEvents = 1 /\ processed' \in
           {[processed EXCEPT ![k] = <<"ADVANCE_TIME", 0>>] : k \in Keys}

(* A disabled Plan is over: whatever arrives, it stays disabled, its       *)
(* timeline does not move and its history does not grow.                   *)
DisabledIsTerminal ==
  [][lifecycle = "disabled" => UNCHANGED <<lifecycle, hasRehearsed, cycle, events>>]_vars

(* The Plan implements the promise of ContinuityTimeline: one rung at a    *)
(* time, only while armed, a full delay after the last renewal.            *)
Timeline == INSTANCE ContinuityTimeline WITH
  Delay     <- DelayOf,
  stage     <- cycle.stage,
  renewedAt <- cycle.startedAt,
  clock     <- lastCommandAt
KeepsThePromise == Timeline!Spec
=============================================================================
