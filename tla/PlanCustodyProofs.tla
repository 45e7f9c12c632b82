------------------------- MODULE PlanCustodyProofs --------------------------
(***************************************************************************)
(* Proofs about what TLC checks in the runs plan and custody: each         *)
(* behaviour of these runs moves one part, and their properties say of     *)
(* each part what PlanProofs and CustodyProofs say of it.                  *)
(***************************************************************************)
EXTENDS MCPlan, MCCustody, TLAPS

(***************************************************************************)
(* A Plan, and the application on its stores.                              *)
(***************************************************************************)

(* The proofs about each view of the application, with its constants; what *)
(* they say of the Plan is taken from the first.                           *)
Concurring == INSTANCE PlanProofs WITH
  Requests <- {arm, again}, Sessions <- {mine}, Statements <- FALSE,
  MaxTime <- 3, MaxArrivals <- 3, MaxExports <- 0,
  RequestOf <- RequestIntents, OwnerOf <- SessionOwners, PlanOwner <- owner,
  Lifecycle <- {"ARM_PLAN:policy:1"}, ScheduledIntent <- "ADVANCE_TIME",
  SessionMs <- 2, RecentMs <- 1, clock <- now,
  JobIds <- {}, Contents <- {}, DueTimes <- {}, Workers <- {}, MaxAttempts <- 1,
  LeaseMs <- 1, RetryMs <- 1, Limit <- 1, ClockSkews <- {0},
  jobs <- {}, receipts <- {}, held <- {}                       \* no work queue

Embedding == INSTANCE PlanProofs WITH
  Requests <- {checkIn, wake}, Sessions <- {mine, theirs}, Statements <- FALSE,
  MaxTime <- 1, MaxArrivals <- 2, MaxExports <- 2,
  RequestOf <- RequestIntents, OwnerOf <- SessionOwners, PlanOwner <- owner,
  Lifecycle <- {"ARM_PLAN:policy:1"}, ScheduledIntent <- "ADVANCE_TIME",
  SessionMs <- 2, RecentMs <- 1, clock <- now,
  JobIds <- {}, Contents <- {}, DueTimes <- {}, Workers <- {}, MaxAttempts <- 1,
  LeaseMs <- 1, RetryMs <- 1, Limit <- 1, ClockSkews <- {0},
  jobs <- {}, receipts <- {}, held <- {}                       \* no work queue

Selecting == INSTANCE PlanProofs WITH
  Requests <- {checkIn, wake}, Sessions <- {mine}, Statements <- TRUE,
  MaxTime <- 1, MaxArrivals <- 2, MaxExports <- 2,
  RequestOf <- RequestIntents, OwnerOf <- SessionOwners, PlanOwner <- owner,
  Lifecycle <- {"ARM_PLAN:policy:1"}, ScheduledIntent <- "ADVANCE_TIME",
  SessionMs <- 2, RecentMs <- 1, clock <- now,
  JobIds <- {}, Contents <- {}, DueTimes <- {}, Workers <- {}, MaxAttempts <- 1,
  LeaseMs <- 1, RetryMs <- 1, Limit <- 1, ClockSkews <- {0},
  jobs <- {}, receipts <- {}, held <- {}                       \* no work queue

-----------------------------------------------------------------------------
(* Two names of one thing: what MCPlan extends and instantiates, and what  *)
(* the proofs are about.                                                   *)

LEMMA PlanAssumptions ==
  /\ Concurring!P!PolicyAssumption
  /\ Concurring!QueueAssumption /\ Embedding!QueueAssumption /\ Selecting!QueueAssumption
BY PolicyAssumption DEF PolicyAssumption, Concurring!P!PolicyAssumption,
   Concurring!QueueAssumption, Embedding!QueueAssumption, Selecting!QueueAssumption

LEMMA PlanIs ==
  /\ Init <=> Concurring!P!Init
  /\ [Next]_vars <=> [Concurring!P!Next]_(Concurring!P!vars)
<1>1. Init <=> Concurring!P!Init
  BY
   DEF Init, Concurring!P!Init, CreateCycle, Concurring!P!CreateCycle,
       CycleFits, Concurring!P!CycleFits, Event, Concurring!P!Event,
       NotProcessed, Concurring!P!NotProcessed, Timestamps,
       Concurring!P!Timestamps
<1>2. Next <=> Concurring!P!Next
  BY
   DEF Next, Concurring!P!Next, AdvanceTime, Concurring!P!AdvanceTime,
       LifecycleCommands, Concurring!P!LifecycleCommands, OwnerCommand,
       Concurring!P!OwnerCommand, PolicyRevision, Concurring!P!PolicyRevision,
       Replay, Concurring!P!Replay, Timestamps, Concurring!P!Timestamps,
       Acceptable, Concurring!P!Acceptable, NextTimelineTransition,
       Concurring!P!NextTimelineTransition, Record, Concurring!P!Record,
       ArmPlan, Concurring!P!ArmPlan, DisablePlan, Concurring!P!DisablePlan,
       OwnerCheckIn, Concurring!P!OwnerCheckIn, PausePlan,
       Concurring!P!PausePlan, RehearsePlan, Concurring!P!RehearsePlan,
       ResumePlan, Concurring!P!ResumePlan, PlanCommandFingerprint,
       Concurring!P!PlanCommandFingerprint, vars, Concurring!P!vars,
       NotProcessed, Concurring!P!NotProcessed, TimelineTransitions,
       Concurring!P!TimelineTransitions, Event, Concurring!P!Event, CreateCycle,
       Concurring!P!CreateCycle, CycleFits, Concurring!P!CycleFits,
       LifecycleAllowed, Concurring!P!LifecycleAllowed, CancelledConcern,
       Concurring!P!CancelledConcern
<1>3. UNCHANGED vars <=> UNCHANGED Concurring!P!vars
  BY DEF vars, Concurring!P!vars
<1> QED
  BY <1>1, <1>2, <1>3

LEMMA PlanMeans ==
  /\ TypeOK <=> Concurring!P!TypeOK
  /\ TimelineConsistent <=> Concurring!P!TimelineConsistent
  /\ EscalationsAreEarned <=> Concurring!P!EscalationsAreEarned
  /\ ConcernsAreSettled <=> Concurring!P!ConcernsAreSettled
  /\ CommandStep <=> Concurring!P!CommandStep
<1>1. \A S : Cardinality(S) = Concurring!P!Cardinality(S)
  BY DEF Cardinality, Concurring!P!Cardinality
<1> QED
  BY <1>1
     DEF TypeOK, Concurring!P!TypeOK, TimelineConsistent,
         Concurring!P!TimelineConsistent, EscalationsAreEarned,
         Concurring!P!EscalationsAreEarned, ConcernsAreSettled,
         Concurring!P!ConcernsAreSettled, CommandStep, Concurring!P!CommandStep,
         Cycles, Concurring!P!Cycles, EventTypes, Concurring!P!EventTypes,
         Fingerprints, Concurring!P!Fingerprints, Lifecycles,
         Concurring!P!Lifecycles, Timestamps, Concurring!P!Timestamps, DelayOf,
         Concurring!P!DelayOf, StageFloor, Concurring!P!StageFloor, Announces,
         Concurring!P!Announces, EscalationEvents, Concurring!P!EscalationEvents,
         Follows, Concurring!P!Follows, Latest, Concurring!P!Latest, Renewals,
         Concurring!P!Renewals, StageBefore, Concurring!P!StageBefore,
         Occurrences, Concurring!P!Occurrences, NewEvents, Concurring!P!NewEvents,
         NewKeys, Concurring!P!NewKeys, NotProcessed, Concurring!P!NotProcessed,
         Stages, Concurring!P!Stages, LifecycleCommands,
         Concurring!P!LifecycleCommands

LEMMA PromiseIs ==
  /\ Timeline!Init <=> Concurring!P!Timeline!Init
  /\ [Timeline!Next]_(Timeline!timeline)
       <=> [Concurring!P!Timeline!Next]_(Concurring!P!Timeline!timeline)
<1>1. DelayOf = Concurring!P!DelayOf
  BY DEF DelayOf, Concurring!P!DelayOf
<1> QED
  BY <1>1
   DEF Timeline!Init, Concurring!P!Timeline!Init, Timeline!Next, Concurring!P!Timeline!Next,
       Timeline!timeline, Concurring!P!Timeline!timeline,
       Timeline!Hear, Concurring!P!Timeline!Hear, Timeline!Renew,
       Concurring!P!Timeline!Renew, Timeline!Escalate,
       Concurring!P!Timeline!Escalate, Timeline!Suspend,
       Concurring!P!Timeline!Suspend, Timeline!Retire,
       Concurring!P!Timeline!Retire, Timeline!Escalation,
       Concurring!P!Timeline!Escalation

(* Every command TLC offers is one of the Plan's.                          *)
LEMMA CommandIsAStep == NextCommand => Next
<1>1. NextKeys \subseteq Keys /\ 0 \in Timestamps
  BY PolicyAssumption DEF NextKeys, Timestamps
<1> QED
  BY <1>1 DEF NextCommand, Next

LEMMA ConcurringIs ==
  /\ Concurrent!Init <=> Concurring!A!Init
  /\ Concurrent!Next <=> Concurring!A!Next
  /\ Concurrent!vars = Concurring!A!vars
  /\ Concurrent!ApplicationAssumption => Concurring!A!ApplicationAssumption
  /\ Concurrent!CommandsWereAuthorized <=> Concurring!A!CommandsWereAuthorized
  /\ Concurrent!AnswersAreTrue <=> Concurring!A!AnswersAreTrue
  /\ Concurrent!TypeOK <=> Concurring!A!TypeOK
  /\ Concurrent!TablesAgree <=> Concurring!A!TablesAgree
  /\ Concurrent!TimesNeverGoBack <=> Concurring!A!TimesNeverGoBack
  BY
   DEF Concurrent!Init, Concurring!A!Init, Concurrent!Next,
       Concurring!A!Next, Concurrent!vars, Concurring!A!vars,
       Concurrent!ApplicationAssumption, Concurring!A!ApplicationAssumption,
       Concurrent!CommandsWereAuthorized, Concurring!A!CommandsWereAuthorized,
       Concurrent!AnswersAreTrue, Concurring!A!AnswersAreTrue,
       Concurrent!TypeOK, Concurring!A!TypeOK, Concurrent!TablesAgree,
       Concurring!A!TablesAgree, Concurrent!TimesNeverGoBack,
       Concurring!A!TimesNeverGoBack, Concurrent!Idle, Concurring!A!Idle,
       Concurrent!NoExport, Concurring!A!NoExport, Concurrent!Abandon,
       Concurring!A!Abandon, Concurrent!Arrive, Concurring!A!Arrive,
       Concurrent!Commit, Concurring!A!Commit,
       Concurrent!ExportAtOnce, Concurring!A!ExportAtOnce,
       Concurrent!ExportAudit, Concurring!A!ExportAudit,
       Concurrent!ExportCommands, Concurring!A!ExportCommands,
       Concurrent!ExportPlans, Concurring!A!ExportPlans,
       Concurrent!Initialize, Concurring!A!Initialize,
       Concurrent!Refuse, Concurring!A!Refuse, Concurrent!Restore,
       Concurring!A!Restore, Concurrent!Revoke, Concurring!A!Revoke,
       Concurrent!SignIn, Concurring!A!SignIn, Concurrent!Tick,
       Concurring!A!Tick, Concurrent!Verify, Concurring!A!Verify,
       Concurrent!Plans, Concurring!A!Plans,
       Concurrent!SessionRecords, Concurring!A!SessionRecords,
       Concurrent!Scheduled, Concurring!A!Scheduled, Concurrent!Entry,
       Concurring!A!Entry, Concurrent!Taken, Concurring!A!Taken,
       Concurrent!Valid, Concurring!A!Valid, Concurrent!RequestFrame,
       Concurring!A!RequestFrame, Concurrent!Answer, Concurring!A!Answer,
       Concurrent!Decided, Concurring!A!Decided, Concurrent!MayDecide,
       Concurring!A!MayDecide, Concurrent!StoreFrame, Concurring!A!StoreFrame,
       Concurrent!Transition, Concurring!A!Transition,
       Concurrent!Write, Concurring!A!Write, Concurrent!ExportFrame,
       Concurring!A!ExportFrame, Concurrent!Refusal, Concurring!A!Refusal,
       Concurrent!IdentityFrame, Concurring!A!IdentityFrame,
       Concurrent!Active, Concurring!A!Active, Concurrent!Entries,
       Concurring!A!Entries, Concurrent!EventNames, Concurring!A!EventNames,
       Concurrent!Fingerprint, Concurring!A!Fingerprint,
       Concurrent!ToSet, Concurring!A!ToSet, Concurrent!Authorized,
       Concurring!A!Authorized, Concurrent!Processed, Concurring!A!Processed,
       Concurrent!IsPrefix, Concurring!A!IsPrefix,
       Concurrent!NewEvents, Concurring!A!NewEvents

LEMMA EmbeddingIs ==
  /\ Embedded!Init <=> Embedding!A!Init
  /\ Embedded!Next <=> Embedding!A!Next
  /\ Embedded!vars = Embedding!A!vars
  /\ Embedded!ApplicationAssumption => Embedding!A!ApplicationAssumption
  /\ Embedded!CommandsWereAuthorized <=> Embedding!A!CommandsWereAuthorized
  /\ Embedded!RestoredWasCommitted <=> Embedding!A!RestoredWasCommitted
  /\ Embedded!SnapshotIsConsistent <=> Embedding!A!SnapshotIsConsistent
  /\ Embedded!TimesNeverGoBack <=> Embedding!A!TimesNeverGoBack
  BY
   DEF Embedded!Init, Embedding!A!Init, Embedded!Next, Embedding!A!Next,
       Embedded!vars, Embedding!A!vars,
       Embedded!ApplicationAssumption, Embedding!A!ApplicationAssumption,
       Embedded!CommandsWereAuthorized, Embedding!A!CommandsWereAuthorized,
       Embedded!RestoredWasCommitted, Embedding!A!RestoredWasCommitted,
       Embedded!SnapshotIsConsistent, Embedding!A!SnapshotIsConsistent,
       Embedded!TimesNeverGoBack, Embedding!A!TimesNeverGoBack,
       Embedded!Idle, Embedding!A!Idle, Embedded!NoExport,
       Embedding!A!NoExport, Embedded!Abandon, Embedding!A!Abandon,
       Embedded!Arrive, Embedding!A!Arrive, Embedded!Commit,
       Embedding!A!Commit, Embedded!ExportAtOnce, Embedding!A!ExportAtOnce,
       Embedded!ExportAudit, Embedding!A!ExportAudit,
       Embedded!ExportCommands, Embedding!A!ExportCommands,
       Embedded!ExportPlans, Embedding!A!ExportPlans,
       Embedded!Initialize, Embedding!A!Initialize, Embedded!Refuse,
       Embedding!A!Refuse, Embedded!Restore, Embedding!A!Restore,
       Embedded!Revoke, Embedding!A!Revoke, Embedded!SignIn,
       Embedding!A!SignIn, Embedded!Tick, Embedding!A!Tick,
       Embedded!Verify, Embedding!A!Verify, Embedded!Plans,
       Embedding!A!Plans, Embedded!SessionRecords, Embedding!A!SessionRecords,
       Embedded!Scheduled, Embedding!A!Scheduled, Embedded!IsPrefix,
       Embedding!A!IsPrefix, Embedded!Valid, Embedding!A!Valid,
       Embedded!RequestFrame, Embedding!A!RequestFrame,
       Embedded!Answer, Embedding!A!Answer, Embedded!Decided,
       Embedding!A!Decided, Embedded!MayDecide, Embedding!A!MayDecide,
       Embedded!StoreFrame, Embedding!A!StoreFrame,
       Embedded!Transition, Embedding!A!Transition, Embedded!Write,
       Embedding!A!Write, Embedded!ExportFrame, Embedding!A!ExportFrame,
       Embedded!Taken, Embedding!A!Taken, Embedded!Refusal,
       Embedding!A!Refusal, Embedded!IdentityFrame, Embedding!A!IdentityFrame,
       Embedded!Active, Embedding!A!Active, Embedded!Entries,
       Embedding!A!Entries, Embedded!EventNames, Embedding!A!EventNames,
       Embedded!ToSet, Embedding!A!ToSet, Embedded!Entry,
       Embedding!A!Entry, Embedded!Authorized, Embedding!A!Authorized,
       Embedded!Processed, Embedding!A!Processed, Embedded!NewEvents,
       Embedding!A!NewEvents, Embedded!Fingerprint, Embedding!A!Fingerprint

LEMMA SelectingIs ==
  /\ Postgres!Init <=> Selecting!A!Init
  /\ Postgres!Next <=> Selecting!A!Next
  /\ Postgres!vars = Selecting!A!vars
  /\ Postgres!ApplicationAssumption => Selecting!A!ApplicationAssumption
  /\ Postgres!RestoredWasCommitted <=> Selecting!A!RestoredWasCommitted
  BY
   DEF Postgres!Init, Selecting!A!Init, Postgres!Next, Selecting!A!Next,
       Postgres!vars, Selecting!A!vars,
       Postgres!ApplicationAssumption, Selecting!A!ApplicationAssumption,
       Postgres!RestoredWasCommitted, Selecting!A!RestoredWasCommitted,
       Postgres!Idle, Selecting!A!Idle, Postgres!NoExport,
       Selecting!A!NoExport, Postgres!Abandon, Selecting!A!Abandon,
       Postgres!Arrive, Selecting!A!Arrive, Postgres!Commit,
       Selecting!A!Commit, Postgres!ExportAtOnce, Selecting!A!ExportAtOnce,
       Postgres!ExportAudit, Selecting!A!ExportAudit,
       Postgres!ExportCommands, Selecting!A!ExportCommands,
       Postgres!ExportPlans, Selecting!A!ExportPlans,
       Postgres!Initialize, Selecting!A!Initialize, Postgres!Refuse,
       Selecting!A!Refuse, Postgres!Restore, Selecting!A!Restore,
       Postgres!Revoke, Selecting!A!Revoke, Postgres!SignIn,
       Selecting!A!SignIn, Postgres!Tick, Selecting!A!Tick,
       Postgres!Verify, Selecting!A!Verify, Postgres!Plans,
       Selecting!A!Plans, Postgres!SessionRecords, Selecting!A!SessionRecords,
       Postgres!IsPrefix, Selecting!A!IsPrefix, Postgres!Valid,
       Selecting!A!Valid, Postgres!RequestFrame, Selecting!A!RequestFrame,
       Postgres!Scheduled, Selecting!A!Scheduled, Postgres!Answer,
       Selecting!A!Answer, Postgres!Decided, Selecting!A!Decided,
       Postgres!MayDecide, Selecting!A!MayDecide, Postgres!StoreFrame,
       Selecting!A!StoreFrame, Postgres!Transition, Selecting!A!Transition,
       Postgres!Write, Selecting!A!Write, Postgres!ExportFrame,
       Selecting!A!ExportFrame, Postgres!Taken, Selecting!A!Taken,
       Postgres!Refusal, Selecting!A!Refusal, Postgres!IdentityFrame,
       Selecting!A!IdentityFrame, Postgres!Active, Selecting!A!Active,
       Postgres!Entries, Selecting!A!Entries, Postgres!EventNames,
       Selecting!A!EventNames, Postgres!ToSet, Selecting!A!ToSet,
       Postgres!Entry, Selecting!A!Entry, Postgres!Authorized,
       Selecting!A!Authorized, Postgres!Processed, Selecting!A!Processed,
       Postgres!NewEvents, Selecting!A!NewEvents,
       Postgres!Fingerprint, Selecting!A!Fingerprint

-----------------------------------------------------------------------------
(* The theorems about the Plan, for the run's Plan.                        *)

(* Every stored Plan is well formed.                                       *)
THEOREM PlanTypeCorrect == Spec => []TypeOK
<1>1. Concurring!P!Spec => []Concurring!P!TypeOK
  BY PlanAssumptions, Concurring!TypeCorrect, PTL
<1> QED
  BY <1>1, PlanIs, PlanMeans, PTL DEF Spec, Concurring!P!Spec

(* The stored deadlines are those of one cycle of the policy, and the Plan *)
(* is at no stage whose moment has not been heard of.                      *)
THEOREM PlanTimelineIsConsistent == Spec => []TimelineConsistent
<1>1. Concurring!P!Spec => []Concurring!P!TimelineConsistent
  BY PlanAssumptions, Concurring!TimelineIsConsistent, PTL
<1> QED
  BY <1>1, PlanIs, PlanMeans, PTL DEF Spec, Concurring!P!Spec

(* The Plan keeps its promise to the Owner: escalation one rung at a time, *)
(* only while armed, and only a full delay after the last renewal.         *)
THEOREM ThePlanKeepsThePromise == Spec => KeepsThePromise
<1>1. Concurring!P!Spec => Concurring!P!KeepsThePromise
  BY PlanAssumptions, Concurring!PlanKeepsThePromise, PTL
<1> QED
  BY <1>1, PlanIs, PromiseIs, PTL
     DEF Spec, Concurring!P!Spec, KeepsThePromise, Concurring!P!KeepsThePromise,
         Timeline!Spec, Concurring!P!Timeline!Spec

(* A disabled Plan is over.                                                *)
THEOREM PlanDisabledForGood == Spec => DisabledIsTerminal
<1>1. Concurring!P!Spec => Concurring!P!DisabledIsTerminal
  BY PlanAssumptions, Concurring!DisabledForGood, PTL
<1>2. [lifecycle = "disabled" => UNCHANGED <<lifecycle, hasRehearsed, cycle, events>>]_vars
        <=> [lifecycle = "disabled" => UNCHANGED <<lifecycle, hasRehearsed, cycle, events>>]_(Concurring!P!vars)
  BY DEF vars, Concurring!P!vars
<1> QED
  BY <1>1, <1>2, PlanIs, PTL
     DEF Spec, Concurring!P!Spec, DisabledIsTerminal, Concurring!P!DisabledIsTerminal

(* Every escalation in the history was earned.                             *)
THEOREM PlanEscalationsAreEarned == Spec => []EscalationsAreEarned
<1>1. Concurring!P!Spec => []Concurring!P!EscalationsAreEarned
  BY PlanAssumptions, Concurring!EveryEscalationIsEarned, PTL
<1> QED
  BY <1>1, PlanIs, PlanMeans, PTL DEF Spec, Concurring!P!Spec

(* Every Concern but the current one was cancelled, exactly once, and a    *)
(* disabled Plan is in none.                                               *)
THEOREM PlanConcernsAreSettled == Spec => []ConcernsAreSettled
<1>1. Concurring!P!Spec => []Concurring!P!ConcernsAreSettled
  BY PlanAssumptions, Concurring!EveryConcernIsSettled, PTL
<1> QED
  BY <1>1, PlanIs, PlanMeans, PTL DEF Spec, Concurring!P!Spec

(* One command uses one fresh key, keeps the past of the history, never    *)
(* moves the Plan's clock back, and announces at most one escalation.      *)
THEOREM PlanCommandsStepOnce == Spec => [][CommandStep]_vars
<1>1. Concurring!P!Spec => [][Concurring!P!CommandStep]_(Concurring!P!vars)
  BY PlanAssumptions, Concurring!CommandsStepOnce, PTL
<1>2. [Concurring!P!CommandStep]_(Concurring!P!vars) <=> [CommandStep]_vars
  BY PlanMeans DEF vars, Concurring!P!vars
<1> QED
  BY <1>1, <1>2, PlanIs, PTL DEF Spec, Concurring!P!Spec

-----------------------------------------------------------------------------
(* A step of the run is a step of its part, and the others stand still.    *)
LEMMA PlanStarts ==
  ASSUME MCInit
  PROVE  /\ Init
         /\ part = "concurrent" => Concurring!A!Init
         /\ part = "embedded" => Embedding!A!Init
         /\ part = "postgres" => Selecting!A!Init
  BY ConcurringIs, EmbeddingIs, SelectingIs DEF MCInit

LEMMA PlanMoves ==
  ASSUME [MCNext]_allVars
  PROVE  /\ part' = part
         /\ [Next]_vars
         /\ part = "concurrent" => [Concurring!A!Next]_(Concurring!A!vars)
         /\ part = "embedded" => [Embedding!A!Next]_(Embedding!A!vars)
         /\ part = "postgres" => [Selecting!A!Next]_(Selecting!A!vars)
<1>1. UNCHANGED applicationVars
        => UNCHANGED Concurring!A!vars /\ UNCHANGED Embedding!A!vars /\ UNCHANGED Selecting!A!vars
  BY DEF applicationVars, Concurring!A!vars, Embedding!A!vars, Selecting!A!vars
<1>2. CASE UNCHANGED allVars
  BY <1>1, <1>2 DEF allVars
<1>3. CASE MCNext
  BY <1>1, <1>3, CommandIsAStep, ConcurringIs, EmbeddingIs, SelectingIs DEF MCNext
<1> QED
  BY <1>2, <1>3

-----------------------------------------------------------------------------
(* What TLC checks of small sets of requests is so: a command runs once,   *)
(* at the word of whoever may send it, whoever is told that it is done     *)
(* sent the intent on record (application.ts, execute), and a Plan takes   *)
(* one step for it or none (applyPlanCommand).                             *)
THEOREM CommandsKeepRunningOnce ==
  ASSUME Concurrent!ApplicationAssumption, Embedded!ApplicationAssumption
  PROVE  MCSpec => CommandsRunOnce
<1>1. /\ Concurring!A!ApplicationAssumption /\ Embedding!A!ApplicationAssumption
      /\ Concurring!QueueAssumption /\ Embedding!QueueAssumption
  BY ConcurringIs, EmbeddingIs, PlanAssumptions
<1>2. Spec => [][CommandStep]_vars
  BY PlanCommandsStepOnce
<1>3. Concurring!A!Spec => [](Concurring!A!CommandsWereAuthorized /\ Concurring!A!AnswersAreTrue)
  BY <1>1, Concurring!CommandsAreAuthorized, Concurring!AnswersStayTrue, PTL
<1>4. Embedding!A!Spec => []Embedding!A!CommandsWereAuthorized
  BY <1>1, Embedding!CommandsAreAuthorized, PTL
<1> DEFINE C == part = "concurrent"  E == part = "embedded"
<1>5. MCInit => /\ Init
                /\ C => Concurring!A!Init
                /\ E => Embedding!A!Init
  BY PlanStarts
<1>6. [MCNext]_allVars
        => /\ (C' <=> C) /\ (E' <=> E)
           /\ [Next]_vars
           /\ C => [Concurring!A!Next]_(Concurring!A!vars)
           /\ E => [Embedding!A!Next]_(Embedding!A!vars)
  BY <1>1, PlanMoves
<1>7. /\ C => Concurring!A!CommandsWereAuthorized /\ Concurring!A!AnswersAreTrue
      => (part = "concurrent" =>
            Concurrent!CommandsWereAuthorized /\ Concurrent!AnswersAreTrue)
  BY ConcurringIs
<1>8. (E => Embedding!A!CommandsWereAuthorized)
        => (part = "embedded" => Embedded!CommandsWereAuthorized)
  BY EmbeddingIs
<1>9. [CommandStep]_vars => [part = "plan" => CommandStep]_vars
  OBVIOUS
<1> HIDE DEF C, E
<1> QED
  BY <1>2, <1>3, <1>4, <1>5, <1>6, <1>7, <1>8, <1>9, PTL
     DEF MCSpec, CommandsRunOnce, Spec, Concurring!A!Spec, Embedding!A!Spec

(* And the three tables of a store tell one story after any interleaving   *)
(* of requests that share a key; what is restored is a state that was      *)
(* committed, whatever the export took (postgresPlan.ts, transact and      *)
(* exportSnapshot).                                                        *)
THEOREM StoresStaySound ==
  ASSUME Concurrent!ApplicationAssumption, Embedded!ApplicationAssumption,
         Postgres!ApplicationAssumption
  PROVE  MCSpec => []StoresAreSound
<1>1. /\ Concurring!A!ApplicationAssumption /\ Embedding!A!ApplicationAssumption
      /\ Selecting!A!ApplicationAssumption
      /\ Concurring!QueueAssumption /\ Embedding!QueueAssumption /\ Selecting!QueueAssumption
  BY ConcurringIs, EmbeddingIs, SelectingIs, PlanAssumptions
<1>2. Concurring!A!Spec =>
        [](Concurring!A!TypeOK /\ Concurring!A!TablesAgree /\ Concurring!A!TimesNeverGoBack)
  BY <1>1, Concurring!TheTablesAgree, PTL
<1>3. Embedding!A!Spec =>
        [](/\ Embedding!A!RestoredWasCommitted /\ Embedding!A!SnapshotIsConsistent
           /\ Embedding!A!TimesNeverGoBack)
  BY <1>1, Embedding!TheTablesAgree, Embedding!WhatIsRestoredWasCommitted,
     Embedding!OneStepExportsAreConsistent, PTL
<1>4. Selecting!A!Spec => []Selecting!A!RestoredWasCommitted
  BY <1>1, Selecting!WhatIsRestoredWasCommitted, PTL
<1> DEFINE C == part = "concurrent"  E == part = "embedded"  S == part = "postgres"
<1>5. MCInit => (C => Concurring!A!Init) /\ (E => Embedding!A!Init) /\ (S => Selecting!A!Init)
  BY PlanStarts
<1>6. [MCNext]_allVars
        => /\ (C' <=> C) /\ (E' <=> E) /\ (S' <=> S)
           /\ C => [Concurring!A!Next]_(Concurring!A!vars)
           /\ E => [Embedding!A!Next]_(Embedding!A!vars)
           /\ S => [Selecting!A!Next]_(Selecting!A!vars)
  BY PlanMoves
<1>7. /\ C => Concurring!A!TypeOK /\ Concurring!A!TablesAgree /\ Concurring!A!TimesNeverGoBack
      /\ E => /\ Embedding!A!RestoredWasCommitted /\ Embedding!A!SnapshotIsConsistent
              /\ Embedding!A!TimesNeverGoBack
      /\ S => Selecting!A!RestoredWasCommitted
      => StoresAreSound
  BY ConcurringIs, EmbeddingIs, SelectingIs DEF StoresAreSound
<1> HIDE DEF C, E, S
<1> QED
  BY <1>2, <1>3, <1>4, <1>5, <1>6, <1>7, PTL
     DEF MCSpec, Concurring!A!Spec, Embedding!A!Spec, Selecting!A!Spec
-----------------------------------------------------------------------------
(***************************************************************************)
(* Keys, backups and restored databases.                                   *)
(***************************************************************************)

CustodySpec == CustodyInit /\ [][CustodyNext]_custodyVars

(* The proofs about each part, with its constants; restores with the run's *)
(* constants are proved about beside "rotation", and with those of "locks" *)
(* and "promotions" beside "purge".                                        *)
Rotating == INSTANCE CustodyProofs WITH
  Records <- {1, 2}, Processes <- {k1}, Rotators <- {t1, t2}, Ids <- {i1},
  Rings <- <<Ring("a", 1, {1}), Ring("b", 1, {1}),
             Ring("direct", 1, {1})>>,
  Sources <- {Ring("a", 1, {1, 2}), Ring("b", 1, {1})},
  Targets <- {KeyOf("a", 2), KeyOf("b", 1)},
  FollowsProcedure <- FALSE, Retention <- {FALSE}, MaxWrites <- 2, MaxRequests <- 2,
  Keepers <- {k1, k2}, MaxBackups <- 3, MaxRetirements <- 2, PromotionIds <- Ids,
  requests <- asked

Retiring == INSTANCE CustodyProofs WITH
  Records <- {1, 2}, Processes <- {k1, k2}, Rotators <- {t1}, Ids <- {i1},
  Rings <- <<Ring("a", 1, {1}), Ring("a", 1, {1, 2}),
             Ring("a", 2, {1, 2}), Ring("a", 2, {2})>>,
  Sources <- {Ring("a", 2, {1, 2})}, Targets <- {KeyOf("a", 2)},
  FollowsProcedure <- TRUE, Retention <- {FALSE}, MaxWrites <- 3, MaxRequests <- 2,
  Keepers <- {k1, k2}, MaxBackups <- 3, MaxRetirements <- 2, PromotionIds <- Ids,
  requests <- asked

Purging == INSTANCE CustodyProofs WITH
  Records <- {1, 2}, Processes <- {k1}, Rotators <- {t1, t2}, Ids <- {i1},
  Rings <- <<Ring("a", 1, {1, 2})>>,
  Sources <- {Ring("a", 2, {1, 2})}, Targets <- {KeyOf("a", 2)},
  FollowsProcedure <- FALSE, Retention <- {TRUE, FALSE}, MaxWrites <- 2, MaxRequests <- 2,
  Keepers <- {k1, k2}, MaxBackups <- 3, MaxRetirements <- 2, PromotionIds <- Ids,
  requests <- asked,
  Migrators <- {m1, m2}, Apps <- {}, Restorers <- {}, Operators <- {o1, o2},
  Installations <- {here}

-----------------------------------------------------------------------------
(* Two names of one thing: what MCCustody instantiates, and what the proofs*)
(* are about.                                                              *)


LEMMA RotatingCounts ==
  \A S : /\ Rotation!SetToSeqs(S) = Rotating!SetToSeqs(S)
         /\ Rotation!IsFiniteSet(S) <=> Rotating!IsFiniteSet(S)
  BY
   DEF Rotation!SetToSeqs, Rotation!SetToSeq,
       Rotation!IsInjective, Rotation!Cardinality,
       Rotation!IsFiniteSet, Rotating!SetToSeqs, Rotating!SetToSeq,
       Rotating!IsInjective, Rotating!Cardinality, Rotating!IsFiniteSet

LEMMA RotatingIs ==
  /\ Rotation!Init <=> Rotating!Init
  /\ Rotation!Next <=> Rotating!Next
  /\ Rotation!vars = Rotating!vars
  BY RotatingCounts
   DEF Rotation!Skipping, Rotating!Skipping,
       Rotation!Init, Rotating!Init, Rotation!Next, Rotating!Next,
       Rotation!vars, Rotating!vars, Rotation!Free, Rotating!Free,
       Rotation!None, Rotating!None, Rotation!Settled,
       Rotating!Settled, Rotation!Abort, Rotating!Abort,
       Rotation!AbortPurge, Rotating!AbortPurge, Rotation!Advance,
       Rotating!Advance, Rotation!ChangeRing, Rotating!ChangeRing,
       Rotation!DeleteMetadata, Rotating!DeleteMetadata,
       Rotation!DetectDeadlock, Rotating!DetectDeadlock,
       Rotation!Encrypt, Rotating!Encrypt, Rotation!Expired,
       Rotating!Expired, Rotation!LoseAnswer, Rotating!LoseAnswer,
       Rotation!Purging, Rotating!Purging, Rotation!Request,
       Rotating!Request, Rotation!StartPurge, Rotating!StartPurge,
       Rotation!WriteMetadata, Rotating!WriteMetadata,
       Rotation!ghosts, Rotating!ghosts, Rotation!locks,
       Rotating!locks, Rotation!ReleaseAll, Rotating!ReleaseAll,
       Rotation!EndPurge, Rotating!EndPurge, Rotation!Answer,
       Rotating!Answer, Rotation!Commit, Rotating!Commit,
       Rotation!LockRow, Rotating!LockRow, Rotation!Rewrap,
       Rotating!Rewrap, Rotation!Select, Rotating!Select,
       Rotation!Selected, Rotating!Selected, Rotation!TakeIdLock,
       Rotating!TakeIdLock, Rotation!MayChangeRing, Rotating!MayChangeRing,
       Rotation!Deadlocked, Rotating!Deadlocked, Rotation!Envelope,
       Rotating!Envelope, Rotation!Key, Rotating!Key,
       Rotation!CommitPurge, Rotating!CommitPurge,
       Rotation!PurgeRow, Rotating!PurgeRow, Rotation!KeysOf,
       Rotating!KeysOf, Rotation!Requested, Rotating!Requested,
       Rotation!Release, Rotating!Release, Rotation!Purger,
       Rotating!Purger, Rotation!Answers, Rotating!Answers,
       Rotation!Left, Rotating!Left, Rotation!Updated,
       Rotating!Updated, Rotation!Lowest, Rotating!Lowest,
       Rotation!Read, Rotating!Read, Rotation!Rewrapped,
       Rotating!Rewrapped, Rotation!SameProvider, Rotating!SameProvider,
       Rotation!Unwraps, Rotating!Unwraps, Rotation!AllWriteUnder,
       Rotating!AllWriteUnder, Rotation!LastKey, Rotating!LastKey,
       Rotation!Candidates, Rotating!Candidates,
       Rotation!PriorOutcome, Rotating!PriorOutcome, Rotation!Waits,
       Rotating!Waits


LEMMA RetiringCounts ==
  \A S : /\ Retirement!SetToSeqs(S) = Retiring!SetToSeqs(S)
         /\ Retirement!IsFiniteSet(S) <=> Retiring!IsFiniteSet(S)
  BY
   DEF Retirement!SetToSeqs, Retirement!SetToSeq,
       Retirement!IsInjective, Retirement!Cardinality,
       Retirement!IsFiniteSet, Retiring!SetToSeqs, Retiring!SetToSeq,
       Retiring!IsInjective, Retiring!Cardinality, Retiring!IsFiniteSet

LEMMA RetiringIs ==
  /\ Retirement!Init <=> Retiring!Init
  /\ Retirement!Next <=> Retiring!Next
  /\ Retirement!vars = Retiring!vars
  BY RetiringCounts
   DEF Retirement!Skipping, Retiring!Skipping,
       Retirement!Init, Retiring!Init, Retirement!Next,
       Retiring!Next, Retirement!vars, Retiring!vars,
       Retirement!Free, Retiring!Free, Retirement!None,
       Retiring!None, Retirement!Settled, Retiring!Settled,
       Retirement!Abort, Retiring!Abort, Retirement!AbortPurge,
       Retiring!AbortPurge, Retirement!Advance, Retiring!Advance,
       Retirement!ChangeRing, Retiring!ChangeRing,
       Retirement!DeleteMetadata, Retiring!DeleteMetadata,
       Retirement!DetectDeadlock, Retiring!DetectDeadlock,
       Retirement!Encrypt, Retiring!Encrypt, Retirement!Expired,
       Retiring!Expired, Retirement!LoseAnswer, Retiring!LoseAnswer,
       Retirement!Purging, Retiring!Purging, Retirement!Request,
       Retiring!Request, Retirement!StartPurge, Retiring!StartPurge,
       Retirement!WriteMetadata, Retiring!WriteMetadata,
       Retirement!ghosts, Retiring!ghosts, Retirement!locks,
       Retiring!locks, Retirement!ReleaseAll, Retiring!ReleaseAll,
       Retirement!EndPurge, Retiring!EndPurge, Retirement!Answer,
       Retiring!Answer, Retirement!Commit, Retiring!Commit,
       Retirement!LockRow, Retiring!LockRow, Retirement!Rewrap,
       Retiring!Rewrap, Retirement!Select, Retiring!Select,
       Retirement!Selected, Retiring!Selected,
       Retirement!TakeIdLock, Retiring!TakeIdLock,
       Retirement!MayChangeRing, Retiring!MayChangeRing,
       Retirement!Deadlocked, Retiring!Deadlocked,
       Retirement!Envelope, Retiring!Envelope, Retirement!Key,
       Retiring!Key, Retirement!CommitPurge, Retiring!CommitPurge,
       Retirement!PurgeRow, Retiring!PurgeRow, Retirement!KeysOf,
       Retiring!KeysOf, Retirement!Requested, Retiring!Requested,
       Retirement!Release, Retiring!Release, Retirement!Purger,
       Retiring!Purger, Retirement!Answers, Retiring!Answers,
       Retirement!Left, Retiring!Left, Retirement!Updated,
       Retiring!Updated, Retirement!Lowest, Retiring!Lowest,
       Retirement!Read, Retiring!Read, Retirement!Rewrapped,
       Retiring!Rewrapped, Retirement!SameProvider, Retiring!SameProvider,
       Retirement!Unwraps, Retiring!Unwraps,
       Retirement!AllWriteUnder, Retiring!AllWriteUnder,
       Retirement!LastKey, Retiring!LastKey, Retirement!Candidates,
       Retiring!Candidates, Retirement!PriorOutcome, Retiring!PriorOutcome,
       Retirement!Waits, Retiring!Waits


LEMMA PurgingCounts ==
  \A S : /\ Purge!SetToSeqs(S) = Purging!SetToSeqs(S)
         /\ Purge!IsFiniteSet(S) <=> Purging!IsFiniteSet(S)
  BY
   DEF Purge!SetToSeqs, Purge!SetToSeq, Purge!IsInjective,
       Purge!Cardinality, Purge!IsFiniteSet, Purging!SetToSeqs,
       Purging!SetToSeq, Purging!IsInjective, Purging!Cardinality,
       Purging!IsFiniteSet

LEMMA PurgingIs ==
  /\ Purge!Init <=> Purging!Init
  /\ Purge!Next <=> Purging!Next
  /\ Purge!vars = Purging!vars
  BY PurgingCounts
   DEF Purge!Skipping, Purging!Skipping,
       Purge!Init, Purging!Init, Purge!Next, Purging!Next,
       Purge!vars, Purging!vars, Purge!Free, Purging!Free,
       Purge!None, Purging!None, Purge!Settled, Purging!Settled,
       Purge!Abort, Purging!Abort, Purge!AbortPurge,
       Purging!AbortPurge, Purge!Advance, Purging!Advance,
       Purge!ChangeRing, Purging!ChangeRing, Purge!DeleteMetadata,
       Purging!DeleteMetadata, Purge!DetectDeadlock, Purging!DetectDeadlock,
       Purge!Encrypt, Purging!Encrypt, Purge!Expired,
       Purging!Expired, Purge!LoseAnswer, Purging!LoseAnswer,
       Purge!Purging, Purging!Purging, Purge!Request,
       Purging!Request, Purge!StartPurge, Purging!StartPurge,
       Purge!WriteMetadata, Purging!WriteMetadata, Purge!ghosts,
       Purging!ghosts, Purge!locks, Purging!locks, Purge!ReleaseAll,
       Purging!ReleaseAll, Purge!EndPurge, Purging!EndPurge,
       Purge!Answer, Purging!Answer, Purge!Commit, Purging!Commit,
       Purge!LockRow, Purging!LockRow, Purge!Rewrap, Purging!Rewrap,
       Purge!Select, Purging!Select, Purge!Selected,
       Purging!Selected, Purge!TakeIdLock, Purging!TakeIdLock,
       Purge!MayChangeRing, Purging!MayChangeRing, Purge!Deadlocked,
       Purging!Deadlocked, Purge!Envelope, Purging!Envelope,
       Purge!Key, Purging!Key, Purge!CommitPurge,
       Purging!CommitPurge, Purge!PurgeRow, Purging!PurgeRow,
       Purge!KeysOf, Purging!KeysOf, Purge!Requested,
       Purging!Requested, Purge!Release, Purging!Release,
       Purge!Purger, Purging!Purger, Purge!Answers, Purging!Answers,
       Purge!Left, Purging!Left, Purge!Updated, Purging!Updated,
       Purge!Lowest, Purging!Lowest, Purge!Read, Purging!Read,
       Purge!Rewrapped, Purging!Rewrapped, Purge!SameProvider,
       Purging!SameProvider, Purge!Unwraps, Purging!Unwraps,
       Purge!AllWriteUnder, Purging!AllWriteUnder, Purge!LastKey,
       Purging!LastKey, Purge!Candidates, Purging!Candidates,
       Purge!PriorOutcome, Purging!PriorOutcome, Purge!Waits,
       Purging!Waits


LEMMA RotatingMeans ==
  /\ Rotation!RotationAssumption => Rotating!RotationAssumption
  /\ Rotation!TypeOK <=> Rotating!TypeOK
  /\ Rotation!NoWriteIsLost <=> Rotating!NoWriteIsLost
  /\ Rotation!AnswersAgree <=> Rotating!AnswersAgree
  /\ Rotation!RotationStep <=> Rotating!RotationStep
  BY RotatingCounts
   DEF Rotation!RotationAssumption, Rotating!RotationAssumption,
       Rotation!TypeOK, Rotating!TypeOK, Rotation!NoWriteIsLost,
       Rotating!NoWriteIsLost, Rotation!AnswersAgree, Rotating!AnswersAgree,
       Rotation!RotationStep, Rotating!RotationStep, Rotation!Range,
       Rotating!Range, Rotation!Envelopes, Rotating!Envelopes,
       Rotation!None, Rotating!None, Rotation!Purger,
       Rotating!Purger, Rotation!Moved, Rotating!Moved,
       Rotation!Keys, Rotating!Keys, Rotation!KeysOf,
       Rotating!KeysOf


LEMMA RetiringMeans ==
  /\ Retirement!RotationAssumption => Retiring!RotationAssumption
  /\ Retirement!ProcedureAssumption => Retiring!ProcedureAssumption
  /\ Retirement!TypeOK <=> Retiring!TypeOK
  /\ Retirement!NoWriteIsLost <=> Retiring!NoWriteIsLost
  /\ Retirement!EveryoneCanRead <=> Retiring!EveryoneCanRead
  BY RetiringCounts
   DEF Retirement!RotationAssumption, Retiring!RotationAssumption,
       Retirement!ProcedureAssumption, Retiring!ProcedureAssumption,
       Retirement!TypeOK, Retiring!TypeOK, Retirement!NoWriteIsLost,
       Retiring!NoWriteIsLost, Retirement!EveryoneCanRead,
       Retiring!EveryoneCanRead, Retirement!Range, Retiring!Range,
       Retirement!Key, Retiring!Key, Retirement!LastKey,
       Retiring!LastKey, Retirement!Envelopes, Retiring!Envelopes,
       Retirement!None, Retiring!None, Retirement!Purger,
       Retiring!Purger, Retirement!Decrypts, Retiring!Decrypts,
       Retirement!Keys, Retiring!Keys, Retirement!KeysOf,
       Retiring!KeysOf


LEMMA PurgingMeans ==
  /\ Purge!RotationAssumption => Purging!RotationAssumption
  /\ Purge!TypeOK <=> Purging!TypeOK
  /\ Purge!NoWriteIsLost <=> Purging!NoWriteIsLost
  /\ Purge!AnswersAgree <=> Purging!AnswersAgree
  BY PurgingCounts
   DEF Purge!RotationAssumption, Purging!RotationAssumption,
       Purge!TypeOK, Purging!TypeOK, Purge!NoWriteIsLost,
       Purging!NoWriteIsLost, Purge!AnswersAgree, Purging!AnswersAgree,
       Purge!Range, Purging!Range, Purge!Envelopes,
       Purging!Envelopes, Purge!None, Purging!None, Purge!Purger,
       Purging!Purger, Purge!Keys, Purging!Keys, Purge!KeysOf,
       Purging!KeysOf


LEMMA BackupsAre ==
  /\ Backup!Init <=> Rotating!B!Init
  /\ Backup!Next <=> Rotating!B!Next
  /\ Backup!vars = Rotating!B!vars
  /\ Backup!BackupAssumption => Rotating!B!BackupAssumption
BY
   DEF Backup!Init, Rotating!B!Init, Backup!Next, Rotating!B!Next, Backup!vars,
       Rotating!B!vars, Backup!BackupAssumption, Rotating!B!BackupAssumption,
       Backup!Free, Rotating!B!Free, Backup!Idle, Rotating!B!Idle, Backup!None,
       Rotating!B!None, Backup!ClearStale, Rotating!B!ClearStale, Backup!Crash,
       Rotating!B!Crash, Backup!Persist, Rotating!B!Persist, Backup!PersistFails,
       Rotating!B!PersistFails, Backup!ReadDocument, Rotating!B!ReadDocument,
       Backup!RemoveArtifact, Rotating!B!RemoveArtifact, Backup!Rename,
       Rotating!B!Rename, Backup!RenameFails, Rotating!B!RenameFails,
       Backup!StartBackup, Rotating!B!StartBackup, Backup!StartRetirement,
       Rotating!B!StartRetirement, Backup!TakeLock, Rotating!B!TakeLock,
       Backup!Unlock, Rotating!B!Unlock, Backup!WriteFails, Rotating!B!WriteFails,
       Backup!WriteNext, Rotating!B!WriteNext, Backup!counts, Rotating!B!counts,
       Backup!files, Rotating!B!files, Backup!ghosts, Rotating!B!ghosts,
       Backup!Stale, Rotating!B!Stale, Backup!Ends, Rotating!B!Ends,
       Backup!ValidDocument, Rotating!B!ValidDocument, Backup!Call,
       Rotating!B!Call, Backup!Manifest, Rotating!B!Manifest, Backup!MayUpdate,
       Rotating!B!MayUpdate, Backup!Updated, Rotating!B!Updated, Backup!DigestOf,
       Rotating!B!DigestOf, Backup!MayRegister, Rotating!B!MayRegister,
       Backup!MayRetire, Rotating!B!MayRetire, Backup!Registered,
       Rotating!B!Registered, Backup!Retired, Rotating!B!Retired

LEMMA BackupCounts ==
  \A S : Backup!Cardinality(S) = Rotating!B!Cardinality(S)
  BY DEF Backup!Cardinality, Rotating!B!Cardinality

LEMMA BackupsMean ==
  /\ Backup!TypeOK <=> Rotating!B!TypeOK
  /\ Backup!ChainIsLinked <=> Rotating!B!ChainIsLinked
  /\ Backup!AnswersAreTrue <=> Rotating!B!AnswersAreTrue
  /\ Backup!OneIsRestorable <=> Rotating!B!OneIsRestorable
  /\ Backup!HistoryIsKept <=> Rotating!B!HistoryIsKept
  BY BackupCounts
   DEF Backup!TypeOK, Rotating!B!TypeOK, Backup!ChainIsLinked,
       Rotating!B!ChainIsLinked, Backup!AnswersAreTrue,
       Rotating!B!AnswersAreTrue, Backup!OneIsRestorable,
       Rotating!B!OneIsRestorable, Backup!HistoryIsKept,
       Rotating!B!HistoryIsKept, Backup!Entries, Rotating!B!Entries,
       Backup!Free, Rotating!B!Free, Backup!Manifests,
       Rotating!B!Manifests, Backup!None, Rotating!B!None,
       Backup!Stale, Rotating!B!Stale, Backup!Updating,
       Rotating!B!Updating, Backup!Verifies, Rotating!B!Verifies,
       Backup!DigestOf, Rotating!B!DigestOf, Backup!ValidDocument,
       Rotating!B!ValidDocument


LEMMA RestoresCounts ==
  \A S : /\ Cardinality(S) = Rotating!R!Cardinality(S)
         /\ IsFiniteSet(S) <=> Rotating!R!IsFiniteSet(S)
         /\ Cardinality(S) = Cardinality(S)
  BY DEF Cardinality, Rotating!R!Cardinality, IsFiniteSet, Rotating!R!IsFiniteSet

LEMMA RestoresAre ==
  /\ RestoreInit <=> Rotating!R!RestoreInit
  /\ RestoreNext <=> Rotating!R!RestoreNext
  /\ restoreVars = Rotating!R!restoreVars
  /\ RestoreAssumption => Rotating!R!RestoreAssumption
<1>1. RestoreInit <=> Rotating!R!RestoreInit
  BY
   DEF RestoreInit, Rotating!R!RestoreInit, Off, Rotating!R!Off
<1>2. \A m :
        /\ StartMigrator(m) <=> Rotating!R!StartMigrator(m)
        /\ MigratorStep(m) <=> Rotating!R!MigratorStep(m)
        /\ InterruptMigrator(m) <=> Rotating!R!InterruptMigrator(m)
  BY RestoresCounts
   DEF StartMigrator, Rotating!R!StartMigrator, MigratorStep,
       Rotating!R!MigratorStep, InterruptMigrator, Rotating!R!InterruptMigrator,
       MigratorFrame, Rotating!R!MigratorFrame, Runtimes, Rotating!R!Runtimes,
       ApplyMigration, Rotating!R!ApplyMigration, CommitMigrations,
       Rotating!R!CommitMigrations, InsertRuntime, Rotating!R!InsertRuntime,
       SelectRuntime, Rotating!R!SelectRuntime, TakeMigrationLock,
       Rotating!R!TakeMigrationLock, Off, Rotating!R!Off, Modes, Rotating!R!Modes,
       Turn, Rotating!R!Turn, Applying, Rotating!R!Applying, InMigration,
       Rotating!R!InMigration
<1>3. \A p :
        /\ StartApp(p) <=> Rotating!R!StartApp(p)
        /\ StopApp(p) <=> Rotating!R!StopApp(p)
        /\ OperationsWrite(p) <=> Rotating!R!OperationsWrite(p)
        /\ IdentityWrite(p) <=> Rotating!R!IdentityWrite(p)
  BY RestoresCounts
   DEF StartApp, Rotating!R!StartApp, StopApp, Rotating!R!StopApp, OperationsWrite,
       Rotating!R!OperationsWrite, IdentityWrite, Rotating!R!IdentityWrite,
       AppFrame, Rotating!R!AppFrame, Runtimes, Rotating!R!Runtimes,
       VerifyRuntimeConfiguration, Rotating!R!VerifyRuntimeConfiguration, Off,
       Rotating!R!Off, Modes, Rotating!R!Modes
<1>4. \A r :
        /\ BeginRestore(r) <=> Rotating!R!BeginRestore(r)
        /\ CommitRestore(r) <=> Rotating!R!CommitRestore(r)
  BY RestoresCounts
   DEF BeginRestore, Rotating!R!BeginRestore, CommitRestore,
       Rotating!R!CommitRestore, Promoting, Rotating!R!Promoting, RestoreFrame,
       Rotating!R!RestoreFrame, Restoring, Rotating!R!Restoring, Off,
       Rotating!R!Off
<1>5. \A o :
        /\ Inspect(o) <=> Rotating!R!Inspect(o)
        /\ OperatorStep(o) <=> Rotating!R!OperatorStep(o)
        /\ Resend(o) <=> Rotating!R!Resend(o)
        /\ InterruptOperator(o) <=> Rotating!R!InterruptOperator(o)
  BY RestoresCounts
   DEF Inspect, Rotating!R!Inspect, OperatorStep, Rotating!R!OperatorStep, Resend,
       Rotating!R!Resend, InterruptOperator, Rotating!R!InterruptOperator,
       MayBeInspected, Rotating!R!MayBeInspected, OperatorFrame,
       Rotating!R!OperatorFrame, Restoring, Rotating!R!Restoring, AcceptReport,
       Rotating!R!AcceptReport, BeginPromotion, Rotating!R!BeginPromotion,
       CommitPromotion, Rotating!R!CommitPromotion, InspectAgain,
       Rotating!R!InspectAgain, Leave, Rotating!R!Leave, Holding,
       Rotating!R!Holding, Off, Rotating!R!Off, Passes, Rotating!R!Passes, Report,
       Rotating!R!Report, Seen, Rotating!R!Seen, InPromotion,
       Rotating!R!InPromotion
<1>6. RestoreNext <=> Rotating!R!RestoreNext
  BY <1>2, <1>3, <1>4, <1>5 DEF RestoreNext, Rotating!R!RestoreNext
<1>7. restoreVars = Rotating!R!restoreVars
  BY DEF restoreVars, Rotating!R!restoreVars
<1>8. RestoreAssumption => Rotating!R!RestoreAssumption
  BY RestoresCounts
   DEF Runtimes, Rotating!R!Runtimes, Modes, Rotating!R!Modes
<1> QED
  BY <1>1, <1>6, <1>7, <1>8

(* What the run says of a restore.                                         *)
LEMMA RestoresMean ==
  /\ RestoreTypeOK <=> Rotating!R!RestoreTypeOK
  /\ PromotedAsInspected <=> Rotating!R!PromotedAsInspected
  /\ RestoresAreWhole <=> Rotating!R!RestoresAreWhole
  /\ RestoreIsOneSnapshot <=> Rotating!R!RestoreIsOneSnapshot
  /\ AnswersAreRecorded <=> Rotating!R!AnswersAreRecorded
  /\ SchemaMovesAtOnce <=> Rotating!R!SchemaMovesAtOnce
  /\ ModeChangesByPromotion <=> Rotating!R!ModeChangesByPromotion
  /\ SafeMeansReadOnly <=> Rotating!R!SafeMeansReadOnly
BY RestoresCounts
   DEF RestoreTypeOK, Rotating!R!RestoreTypeOK, PromotedAsInspected,
       Rotating!R!PromotedAsInspected, RestoresAreWhole,
       Rotating!R!RestoresAreWhole, RestoreIsOneSnapshot,
       Rotating!R!RestoreIsOneSnapshot, AnswersAreRecorded,
       Rotating!R!AnswersAreRecorded, SchemaMovesAtOnce,
       Rotating!R!SchemaMovesAtOnce, ModeChangesByPromotion,
       Rotating!R!ModeChangesByPromotion, SafeMeansReadOnly,
       Rotating!R!SafeMeansReadOnly, InMigration, Rotating!R!InMigration,
       InPromotion, Rotating!R!InPromotion, Runtimes, Rotating!R!Runtimes,
       Promoted, Rotating!R!Promoted, Modes, Rotating!R!Modes

LEMMA LocksCounts ==
  \A S : /\ Locks!Cardinality(S) = Purging!R!Cardinality(S)
         /\ Locks!IsFiniteSet(S) <=> Purging!R!IsFiniteSet(S)
         /\ Cardinality(S) = Locks!Cardinality(S)
  BY DEF Locks!Cardinality, Purging!R!Cardinality, Locks!IsFiniteSet, Purging!R!IsFiniteSet, Cardinality

LEMMA LocksAre ==
  /\ Locks!RestoreInit <=> Purging!R!RestoreInit
  /\ Locks!RestoreNext <=> Purging!R!RestoreNext
  /\ Locks!restoreVars = Purging!R!restoreVars
  /\ Locks!RestoreAssumption => Purging!R!RestoreAssumption
<1>1. Locks!RestoreInit <=> Purging!R!RestoreInit
  BY
   DEF Locks!RestoreInit, Purging!R!RestoreInit, Locks!Off, Purging!R!Off
<1>2. \A m :
        /\ Locks!StartMigrator(m) <=> Purging!R!StartMigrator(m)
        /\ Locks!MigratorStep(m) <=> Purging!R!MigratorStep(m)
        /\ Locks!InterruptMigrator(m) <=> Purging!R!InterruptMigrator(m)
  BY LocksCounts
   DEF Locks!StartMigrator, Purging!R!StartMigrator, Locks!MigratorStep,
       Purging!R!MigratorStep, Locks!InterruptMigrator,
       Purging!R!InterruptMigrator, Locks!MigratorFrame, Purging!R!MigratorFrame,
       Locks!Runtimes, Purging!R!Runtimes, Locks!ApplyMigration,
       Purging!R!ApplyMigration, Locks!CommitMigrations,
       Purging!R!CommitMigrations, Locks!InsertRuntime, Purging!R!InsertRuntime,
       Locks!SelectRuntime, Purging!R!SelectRuntime, Locks!TakeMigrationLock,
       Purging!R!TakeMigrationLock, Locks!Off, Purging!R!Off, Locks!Modes,
       Purging!R!Modes, Locks!Turn, Purging!R!Turn, Locks!Applying,
       Purging!R!Applying, Locks!InMigration, Purging!R!InMigration
<1>3. \A p :
        /\ Locks!StartApp(p) <=> Purging!R!StartApp(p)
        /\ Locks!StopApp(p) <=> Purging!R!StopApp(p)
        /\ Locks!OperationsWrite(p) <=> Purging!R!OperationsWrite(p)
        /\ Locks!IdentityWrite(p) <=> Purging!R!IdentityWrite(p)
  BY LocksCounts
   DEF Locks!StartApp, Purging!R!StartApp, Locks!StopApp, Purging!R!StopApp,
       Locks!OperationsWrite, Purging!R!OperationsWrite, Locks!IdentityWrite,
       Purging!R!IdentityWrite, Locks!AppFrame, Purging!R!AppFrame, Locks!Runtimes,
       Purging!R!Runtimes, Locks!VerifyRuntimeConfiguration,
       Purging!R!VerifyRuntimeConfiguration, Locks!Off, Purging!R!Off, Locks!Modes,
       Purging!R!Modes
<1>4. \A r :
        /\ Locks!BeginRestore(r) <=> Purging!R!BeginRestore(r)
        /\ Locks!CommitRestore(r) <=> Purging!R!CommitRestore(r)
  BY LocksCounts
   DEF Locks!BeginRestore, Purging!R!BeginRestore, Locks!CommitRestore,
       Purging!R!CommitRestore, Locks!Promoting, Purging!R!Promoting,
       Locks!RestoreFrame, Purging!R!RestoreFrame, Locks!Restoring,
       Purging!R!Restoring, Locks!Off, Purging!R!Off
<1>5. \A o :
        /\ Locks!Inspect(o) <=> Purging!R!Inspect(o)
        /\ Locks!OperatorStep(o) <=> Purging!R!OperatorStep(o)
        /\ Locks!Resend(o) <=> Purging!R!Resend(o)
        /\ Locks!InterruptOperator(o) <=> Purging!R!InterruptOperator(o)
  BY LocksCounts
   DEF Locks!Inspect, Purging!R!Inspect, Locks!OperatorStep,
       Purging!R!OperatorStep, Locks!Resend, Purging!R!Resend,
       Locks!InterruptOperator, Purging!R!InterruptOperator, Locks!MayBeInspected,
       Purging!R!MayBeInspected, Locks!OperatorFrame, Purging!R!OperatorFrame,
       Locks!Restoring, Purging!R!Restoring, Locks!AcceptReport,
       Purging!R!AcceptReport, Locks!BeginPromotion, Purging!R!BeginPromotion,
       Locks!CommitPromotion, Purging!R!CommitPromotion, Locks!InspectAgain,
       Purging!R!InspectAgain, Locks!Leave, Purging!R!Leave, Locks!Holding,
       Purging!R!Holding, Locks!Off, Purging!R!Off, Locks!Passes, Purging!R!Passes,
       Locks!Report, Purging!R!Report, Locks!Seen, Purging!R!Seen,
       Locks!InPromotion, Purging!R!InPromotion
<1>6. Locks!RestoreNext <=> Purging!R!RestoreNext
  BY <1>2, <1>3, <1>4, <1>5 DEF Locks!RestoreNext, Purging!R!RestoreNext
<1>7. Locks!restoreVars = Purging!R!restoreVars
  BY DEF Locks!restoreVars, Purging!R!restoreVars
<1>8. Locks!RestoreAssumption => Purging!R!RestoreAssumption
  BY LocksCounts
   DEF Locks!Runtimes, Purging!R!Runtimes, Locks!Modes, Purging!R!Modes
<1> QED
  BY <1>1, <1>6, <1>7, <1>8

(* And of the database of its other parts, in which two migrators and two  *)
(* operators move, or nobody.                                              *)
LEMMA LocksMean ==
  /\ Locks!RestoreTypeOK <=> Purging!R!RestoreTypeOK
  /\ PromotedAsInspected <=> Purging!R!PromotedAsInspected
  /\ RestoresAreWhole <=> Purging!R!RestoresAreWhole
  /\ RestoreIsOneSnapshot <=> Purging!R!RestoreIsOneSnapshot
  /\ AnswersAreRecorded <=> Purging!R!AnswersAreRecorded
  /\ SchemaMovesAtOnce <=> Purging!R!SchemaMovesAtOnce
  /\ ModeChangesByPromotion <=> Purging!R!ModeChangesByPromotion
  /\ SafeMeansReadOnly <=> Purging!R!SafeMeansReadOnly
BY LocksCounts, RestoresCounts
   DEF Locks!RestoreTypeOK, Purging!R!RestoreTypeOK, Locks!InMigration,
       Purging!R!InMigration, Locks!InPromotion, Purging!R!InPromotion,
       Locks!Runtimes, Purging!R!Runtimes, Locks!Modes, Purging!R!Modes,
       PromotedAsInspected, Purging!R!PromotedAsInspected, RestoresAreWhole,
       Purging!R!RestoresAreWhole, RestoreIsOneSnapshot,
       Purging!R!RestoreIsOneSnapshot, AnswersAreRecorded,
       Purging!R!AnswersAreRecorded, SchemaMovesAtOnce,
       Purging!R!SchemaMovesAtOnce, ModeChangesByPromotion,
       Purging!R!ModeChangesByPromotion, SafeMeansReadOnly,
       Purging!R!SafeMeansReadOnly, Promoted, Purging!R!Promoted

-----------------------------------------------------------------------------
(* A step of the run is a step of its part, and the others stand still.    *)
LEMMA CustodyStarts ==
  ASSUME CustodyInit
  PROVE  /\ moving = "retirement" => Retiring!Init
         /\ moving \in {"rotation", "purge"} => Rotating!Init /\ Purging!Init
         /\ Rotating!B!Init
         /\ moving = "restore" => Rotating!R!RestoreInit
         /\ moving # "restore" => Purging!R!RestoreInit
<1>1. Rotating!Init <=> Purging!Init
  BY
   DEF Rotating!Init, Purging!Init, Rotating!Free, Purging!Free, Rotating!None,
       Purging!None, Rotating!Settled, Purging!Settled
<1> QED
  BY <1>1, RotatingIs, RetiringIs, BackupsAre, RestoresAre, LocksAre DEF CustodyInit

LEMMA CustodySteps ==
  ASSUME [CustodyNext]_custodyVars
  PROVE  /\ moving' = moving
         /\ moving = "rotation" => [Rotating!Next]_(Rotating!vars)
         /\ moving = "retirement" => [Retiring!Next]_(Retiring!vars)
         /\ moving = "purge" => [Purging!Next]_(Purging!vars)
         /\ [Rotating!B!Next]_(Rotating!B!vars)
         /\ moving = "restore" => [Rotating!R!RestoreNext]_(Rotating!R!restoreVars)
         /\ moving # "restore" => [Purging!R!RestoreNext]_(Purging!R!restoreVars)
<1>1. /\ UNCHANGED restoreVars => UNCHANGED Rotating!R!restoreVars /\ UNCHANGED Purging!R!restoreVars
      /\ UNCHANGED keyVars => UNCHANGED Rotating!vars /\ UNCHANGED Retiring!vars
                                /\ UNCHANGED Purging!vars
      /\ UNCHANGED backupVars => UNCHANGED Rotating!B!vars
  BY
   DEF restoreVars, Rotating!R!restoreVars, Purging!R!restoreVars, Rotating!vars, Retiring!vars,
       Purging!vars, Rotating!ghosts, Retiring!ghosts, Purging!ghosts,
       Rotating!locks, Retiring!locks, Purging!locks, Rotating!B!vars,
       Rotating!B!counts, Rotating!B!files, Rotating!B!ghosts, keyVars,
       backupVars
<1>2. CASE UNCHANGED custodyVars
  BY <1>1, <1>2 DEF custodyVars
<1>3. CASE CustodyNext
  BY <1>1, <1>3, RotatingIs, RetiringIs, PurgingIs, BackupsAre, RestoresAre, LocksAre
     DEF CustodyNext
<1> QED
  BY <1>2, <1>3


-----------------------------------------------------------------------------
(* What TLC checks of three small ways to rotate keys is so: no committed  *)
(* write is lost to a rotation, and who is told of one finds its report;   *)
(* while keys are handed out in order everyone can read                    *)
(* (postgresKeyRotation.ts, rotate).                                       *)
THEOREM RotationsStaySafe ==
  ASSUME Rotation!RotationAssumption, Purge!RotationAssumption,
         Retirement!RotationAssumption, Retirement!ProcedureAssumption
  PROVE  CustodySpec => []RotationsAreSafe
<1>1. /\ Rotating!RotationAssumption /\ Purging!RotationAssumption
      /\ Retiring!RotationAssumption /\ Retiring!ProcedureAssumption
  BY RotatingMeans, RetiringMeans, PurgingMeans
<1>2. Rotating!Spec => [](Rotating!TypeOK /\ Rotating!NoWriteIsLost /\ Rotating!AnswersAgree)
  BY <1>1, Rotating!TypeCorrect, Rotating!WritesAreKept, Rotating!AnswersStayTrue, PTL
<1>3. Purging!Spec => [](Purging!TypeOK /\ Purging!NoWriteIsLost /\ Purging!AnswersAgree)
  BY <1>1, Purging!TypeCorrect, Purging!WritesAreKept, Purging!AnswersStayTrue, PTL
<1>4. Retiring!Spec => [](Retiring!TypeOK /\ Retiring!NoWriteIsLost /\ Retiring!EveryoneCanRead)
  BY <1>1, Retiring!TypeCorrect, Retiring!WritesAreKept, Retiring!EveryoneReads, PTL
<1> DEFINE R == moving = "rotation"  P == moving = "purge"  T == moving = "retirement"
<1>5. CustodyInit => (R => Rotating!Init) /\ (P => Purging!Init) /\ (T => Retiring!Init)
  BY CustodyStarts
<1>6. [CustodyNext]_custodyVars
        => /\ (R' <=> R) /\ (P' <=> P) /\ (T' <=> T)
           /\ R => [Rotating!Next]_(Rotating!vars)
           /\ P => [Purging!Next]_(Purging!vars)
           /\ T => [Retiring!Next]_(Retiring!vars)
  BY CustodySteps
<1>7. /\ R => Rotating!TypeOK /\ Rotating!NoWriteIsLost /\ Rotating!AnswersAgree
      /\ P => Purging!TypeOK /\ Purging!NoWriteIsLost /\ Purging!AnswersAgree
      /\ T => Retiring!TypeOK /\ Retiring!NoWriteIsLost /\ Retiring!EveryoneCanRead
      => RotationsAreSafe
  BY RotatingMeans, RetiringMeans, PurgingMeans DEF RotationsAreSafe
<1> HIDE DEF R, P, T
<1> QED
  BY <1>2, <1>3, <1>4, <1>5, <1>6, <1>7, PTL
     DEF CustodySpec, Rotating!Spec, Purging!Spec, Retiring!Spec


(* What TLC checks of a small chain of backups and of a restored database  *)
(* is so: the chain is linked and its answers are true, and once there is  *)
(* a backup exactly one can be restored; a database holds whole snapshots, *)
(* one that was promoted all that its promotion inspected and, unless      *)
(* restores overlapped, nothing else that was restored; and what operators *)
(* are told is on record (keyCustody.ts, postgresRestore.ts,               *)
(* postgresOperations.ts).                                                 *)
THEOREM RecoveryStaysSafe ==
  ASSUME Backup!BackupAssumption, RestoreAssumption, Locks!RestoreAssumption
  PROVE  CustodySpec => []RecoveryIsSafe
<1>1. Rotating!B!BackupAssumption /\ Rotating!R!RestoreAssumption /\ Purging!R!RestoreAssumption
  BY BackupsAre, RestoresAre, LocksAre
<1>2. Rotating!B!Spec => [](/\ Rotating!B!TypeOK /\ Rotating!B!ChainIsLinked
                           /\ Rotating!B!AnswersAreTrue /\ Rotating!B!OneIsRestorable)
  BY <1>1, Rotating!BackupTypeCorrect, Rotating!TheChainIsLinked,
     Rotating!BackupAnswersStayTrue, Rotating!OneStaysRestorable, PTL
<1>3. Rotating!R!RestoreSpec => [](/\ Rotating!R!RestoreTypeOK /\ Rotating!R!PromotedAsInspected
                                  /\ Rotating!R!RestoresAreWhole
                                  /\ Rotating!R!RestoreIsOneSnapshot
                                  /\ Rotating!R!AnswersAreRecorded)
  BY <1>1, Rotating!RestoreTypesAreKept, Rotating!RestoredRowsAreAccountedFor,
     Rotating!PromotionAnswersAreRecorded, PTL
<1>4. Purging!R!RestoreSpec => [](/\ Purging!R!RestoreTypeOK /\ Purging!R!PromotedAsInspected
                                 /\ Purging!R!RestoresAreWhole
                                 /\ Purging!R!RestoreIsOneSnapshot
                                 /\ Purging!R!AnswersAreRecorded)
  BY <1>1, Purging!RestoreTypesAreKept, Purging!RestoredRowsAreAccountedFor,
     Purging!PromotionAnswersAreRecorded, PTL
<1> DEFINE R == moving = "restore"
<1>5. CustodyInit => /\ Rotating!B!Init
                     /\ R => Rotating!R!RestoreInit
                     /\ ~R => Purging!R!RestoreInit
  BY CustodyStarts
<1>6. [CustodyNext]_custodyVars
        => /\ (R' <=> R)
           /\ [Rotating!B!Next]_(Rotating!B!vars)
           /\ R => [Rotating!R!RestoreNext]_(Rotating!R!restoreVars)
           /\ ~R => [Purging!R!RestoreNext]_(Purging!R!restoreVars)
  BY CustodySteps
<1>7. /\ Rotating!B!TypeOK /\ Rotating!B!ChainIsLinked
      /\ Rotating!B!AnswersAreTrue /\ Rotating!B!OneIsRestorable
      /\ R => /\ Rotating!R!RestoreTypeOK /\ Rotating!R!PromotedAsInspected
              /\ Rotating!R!RestoresAreWhole /\ Rotating!R!RestoreIsOneSnapshot
              /\ Rotating!R!AnswersAreRecorded
      /\ ~R => /\ Purging!R!RestoreTypeOK /\ Purging!R!PromotedAsInspected
               /\ Purging!R!RestoresAreWhole /\ Purging!R!RestoreIsOneSnapshot
               /\ Purging!R!AnswersAreRecorded
      => RecoveryIsSafe
  BY BackupsMean, RestoresMean, LocksMean DEF RecoveryIsSafe
<1> HIDE DEF R
<1> QED
  BY <1>2, <1>3, <1>4, <1>5, <1>6, <1>7, PTL
     DEF CustodySpec, Rotating!B!Spec, Rotating!R!RestoreSpec, Purging!R!RestoreSpec


(* And of what a step may do: a rotation and a release's schema are one    *)
(* step for everyone else, the mode of a database changes by its promotion *)
(* alone, nobody writes to it before, and history is only added to.        *)
THEOREM ChangesStayAtomic ==
  ASSUME Rotation!RotationAssumption, Backup!BackupAssumption,
         RestoreAssumption, Locks!RestoreAssumption
  PROVE  CustodySpec => ChangesAreAtomic
<1>1. /\ Rotating!RotationAssumption /\ Rotating!B!BackupAssumption
      /\ Rotating!R!RestoreAssumption /\ Purging!R!RestoreAssumption
  BY RotatingMeans, BackupsAre, RestoresAre, LocksAre
<1>2. Rotating!Spec => [][Rotating!RotationStep]_(Rotating!vars)
  BY <1>1, Rotating!RotationIsOneStep
<1>3. Rotating!B!Spec => [][Rotating!B!HistoryIsKept]_(Rotating!B!vars)
  BY <1>1, Rotating!TheHistoryIsKept
<1>4. Rotating!R!RestoreSpec =>
        [][/\ Rotating!R!SchemaMovesAtOnce /\ Rotating!R!ModeChangesByPromotion
           /\ Rotating!R!SafeMeansReadOnly]_(Rotating!R!restoreVars)
  BY <1>1, Rotating!DatabasesChangeAtOnce, PTL
<1>5. Purging!R!RestoreSpec =>
        [][/\ Purging!R!SchemaMovesAtOnce /\ Purging!R!ModeChangesByPromotion
           /\ Purging!R!SafeMeansReadOnly]_(Purging!R!restoreVars)
  BY <1>1, Purging!DatabasesChangeAtOnce, PTL
<1> DEFINE R == moving = "restore"  K == moving = "rotation"
<1>6. CustodyInit => /\ Rotating!B!Init
                     /\ K => Rotating!Init
                     /\ R => Rotating!R!RestoreInit
                     /\ ~R => Purging!R!RestoreInit
  BY CustodyStarts
<1>7. [CustodyNext]_custodyVars
        => /\ (R' <=> R) /\ (K' <=> K)
           /\ [Rotating!B!Next]_(Rotating!B!vars)
           /\ K => [Rotating!Next]_(Rotating!vars)
           /\ R => [Rotating!R!RestoreNext]_(Rotating!R!restoreVars)
           /\ ~R => [Purging!R!RestoreNext]_(Purging!R!restoreVars)
  BY CustodySteps
<1>8. /\ [Rotating!B!HistoryIsKept]_(Rotating!B!vars)
      /\ K => [Rotating!RotationStep]_(Rotating!vars)
      /\ R => [/\ Rotating!R!SchemaMovesAtOnce /\ Rotating!R!ModeChangesByPromotion
               /\ Rotating!R!SafeMeansReadOnly]_(Rotating!R!restoreVars)
      /\ ~R => [/\ Purging!R!SchemaMovesAtOnce /\ Purging!R!ModeChangesByPromotion
                /\ Purging!R!SafeMeansReadOnly]_(Purging!R!restoreVars)
      => [/\ moving = "rotation" => Rotation!RotationStep
          /\ SchemaMovesAtOnce /\ ModeChangesByPromotion
          /\ SafeMeansReadOnly
          /\ Backup!HistoryIsKept]_custodyVars
  <2>1. [Rotating!B!HistoryIsKept]_(Rotating!B!vars) => Backup!HistoryIsKept
    <3>1. UNCHANGED inventory => Backup!HistoryIsKept
      BY DEF Backup!HistoryIsKept
    <3> QED
      BY <3>1, BackupsMean DEF Rotating!B!vars, Rotating!B!files
  <2>2. [Rotating!RotationStep]_(Rotating!vars) => Rotation!RotationStep
    <3>1. UNCHANGED <<table, reports>> => Rotation!RotationStep
      BY DEF Rotation!RotationStep, Rotation!Moved
    <3> QED
      BY <3>1, RotatingMeans DEF Rotating!vars
  <2>3. UNCHANGED <<ledger, runtime, data, promotions>>
          => /\ SchemaMovesAtOnce /\ ModeChangesByPromotion
             /\ SafeMeansReadOnly
    BY DEF SchemaMovesAtOnce, ModeChangesByPromotion, SafeMeansReadOnly
  <2> QED
    BY <2>1, <2>2, <2>3, RestoresMean, LocksMean DEF Rotating!R!restoreVars, Purging!R!restoreVars
<1> HIDE DEF R, K
<1> QED
  BY <1>2, <1>3, <1>4, <1>5, <1>6, <1>7, <1>8, PTL
     DEF CustodySpec, ChangesAreAtomic, Rotating!Spec, Rotating!B!Spec, Rotating!R!RestoreSpec, Purging!R!RestoreSpec
=============================================================================
