------------------------------- MODULE MCPlan -------------------------------
(***************************************************************************)
(* A Plan, and the application on its stores, small enough for TLC.        *)
(*                                                                         *)
(* The Plan has the shortest policy whose deadlines are distinct, and one  *)
(* idempotency key for each command that is accepted.  Keys are            *)
(* interchangeable, so fresh ones are used up in order; a replay may name  *)
(* any of them.                                                            *)
(*                                                                         *)
(* The two modules share no variable.  Their steps commute, so it is       *)
(* enough to let one move in each behaviour: `part' says which, and the    *)
(* other stays as it begins.                                               *)
(***************************************************************************)
EXTENDS Plan

CONSTANTS arm, checkIn, again, wake,          \* requests
          mine, theirs, owner, stranger,      \* sessions and principals
          None

VARIABLES part,
  plan, commands, audit, sessions, requests, log, export, snapshot, restored,
  now, arrivals, exports

applicationVars == <<plan, commands, audit, sessions, requests, log, export,
                     snapshot, restored, now, arrivals, exports>>
allVars == <<part, vars, applicationVars>>

---------------------------------------------------------------------------
Unused == {k \in Keys : processed[k] = NotProcessed}
NextKeys == {k \in Keys : k \notin Unused \/ \A j \in Unused : k <= j}

NextCommand ==
  \E key \in NextKeys, revision \in {PolicyRevision, PolicyRevision + 1} :
    \/ \E at \in Timestamps, authenticated, recently \in BOOLEAN :
         OwnerCommand(key, at, authenticated, recently, revision)
    \/ \E at \in Timestamps : AdvanceTime(key, at)
    \/ \E type \in LifecycleCommands \cup {"ADVANCE_TIME", "OWNER_CHECK_IN"} :
         Replay(key, type, revision)

---------------------------------------------------------------------------
RequestIntents ==
  [r \in {arm, checkIn, again, wake} |->
     CASE r = arm -> [key |-> "k1", intent |-> "ARM_PLAN:policy:1"]
       [] r = checkIn -> [key |-> "k2", intent |-> "OWNER_CHECK_IN"]
       [] r = again -> [key |-> "k1", intent |-> "OWNER_CHECK_IN"]
       [] r = wake -> [key |-> "k3", intent |-> "ADVANCE_TIME"]]
SessionOwners == [s \in {mine, theirs} |-> IF s = theirs THEN stranger ELSE owner]

\* Two requests with one key, repeated, in a session that ends.
Concurrent == INSTANCE PlanApplication WITH
  Requests <- {arm, again}, Sessions <- {mine}, Statements <- FALSE,
  MaxTime <- 3, MaxArrivals <- 3, MaxExports <- 0,
  RequestOf <- RequestIntents, OwnerOf <- SessionOwners, PlanOwner <- owner,
  Lifecycle <- {"ARM_PLAN:policy:1"}, ScheduledIntent <- "ADVANCE_TIME",
  SessionMs <- 2, RecentMs <- 1

\* Exports beside two commands with keys of their own, in an embedded store,
\* with somebody else's session.
Embedded == INSTANCE PlanApplication WITH
  Requests <- {checkIn, wake}, Sessions <- {mine, theirs}, Statements <- FALSE,
  MaxTime <- 1, MaxArrivals <- 2, MaxExports <- 2,
  RequestOf <- RequestIntents, OwnerOf <- SessionOwners, PlanOwner <- owner,
  Lifecycle <- {"ARM_PLAN:policy:1"}, ScheduledIntent <- "ADVANCE_TIME",
  SessionMs <- 2, RecentMs <- 1

\* The same in PostgreSQL, where an export is three statements.
Postgres == INSTANCE PlanApplication WITH
  Requests <- {checkIn, wake}, Sessions <- {mine}, Statements <- TRUE,
  MaxTime <- 1, MaxArrivals <- 2, MaxExports <- 2,
  RequestOf <- RequestIntents, OwnerOf <- SessionOwners, PlanOwner <- owner,
  Lifecycle <- {"ARM_PLAN:policy:1"}, ScheduledIntent <- "ADVANCE_TIME",
  SessionMs <- 2, RecentMs <- 1

ASSUME Concurrent!ApplicationAssumption
ASSUME Embedded!ApplicationAssumption
ASSUME Postgres!ApplicationAssumption

---------------------------------------------------------------------------
MCInit ==
  /\ Init
  /\ \/ part \in {"plan", "concurrent"} /\ Concurrent!Init
     \/ part = "embedded" /\ Embedded!Init
     \/ part = "postgres" /\ Postgres!Init

MCNext ==
  \/ part = "plan" /\ NextCommand /\ UNCHANGED <<part, applicationVars>>
  \/ part = "concurrent" /\ Concurrent!Next /\ UNCHANGED <<part, vars>>
  \/ part = "embedded" /\ Embedded!Next /\ UNCHANGED <<part, vars>>
  \/ part = "postgres" /\ Postgres!Next /\ UNCHANGED <<part, vars>>

MCSpec == MCInit /\ [][MCNext]_allVars

---------------------------------------------------------------------------
(* Requests: see PlanApplication for each of these.                        *)

\* A command runs once, and only for whoever may send it: whoever is told that
\* it is done sent the intent on record (application.ts, execute), and a Plan
\* takes one step for it or none (applyPlanCommand).
CommandsRunOnce ==
  /\ [](part = "concurrent" =>
          Concurrent!CommandsWereAuthorized /\ Concurrent!AnswersAreTrue)
  /\ [](part = "embedded" => Embedded!CommandsWereAuthorized)
  /\ [][part = "plan" => CommandStep]_vars

\* The three tables of a store tell one story after any interleaving of
\* requests that share a key (postgresPlan.ts, transact); and what is restored
\* is a state that was committed while commands ran, whatever the export took
\* (exportSnapshot, restoreSnapshot).
StoresAreSound ==
  /\ part = "concurrent" => 
       Concurrent!TypeOK /\ Concurrent!TablesAgree /\ Concurrent!TimesNeverGoBack
  /\ part = "embedded" =>
       /\ Embedded!RestoredWasCommitted /\ Embedded!SnapshotIsConsistent
       /\ Embedded!TimesNeverGoBack
  /\ part = "postgres" => Postgres!RestoredWasCommitted
=============================================================================
