--------------------------- MODULE PlanApplication ---------------------------
(***************************************************************************)
(* One Plan behind the application (application.ts) and one of its stores  *)
(* (packages/persistence, postgresPlan.ts): requests that arrive, have     *)
(* their session verified and run one store transaction, while sessions    *)
(* begin and are revoked, clients repeat what was not answered, and        *)
(* snapshots are exported and restored.                                    *)
(*                                                                         *)
(* A request captures the time and the session before the transaction and  *)
(* uses both in it.  A transaction holds the Plan row (or the only         *)
(* connection), so it is one action.  An export is one action in the       *)
(* embedded stores; in PostgreSQL it is three statements at READ COMMITTED.*)
(* The domain's decision is open here (Plan models it): it refuses, or     *)
(* returns a Plan, which the store compares with the one it holds.         *)
(***************************************************************************)
EXTENDS Integers, Sequences, FiniteSets, SequencesExt

CONSTANTS
  Requests,     \* requests clients make, and repeat
  RequestOf,    \* request -> [key, intent]
  Lifecycle,    \* the intents that need recent authentication
  ScheduledIntent, \* ADVANCE_TIME, which needs no session
  Sessions,     \* session identifiers
  OwnerOf,      \* session -> the principal it belongs to
  PlanOwner,    \* the Plan's ownerId
  SessionMs,    \* a session's time to live
  RecentMs,     \* recentAuthenticationWindowMs
  Statements,   \* do exports read statement by statement?
  MaxTime,      \* bound: the clock
  MaxArrivals,  \* bound: times requests arrive
  MaxExports,   \* bound: exports begun
  None          \* no Plan, no snapshot, not revoked

SessionRecords == [since : Nat, until : Nat, revokedAt : Nat \cup {None}]
Entries == {[key |-> RequestOf[r].key, fingerprint |-> RequestOf[r].intent] : r \in Requests}
EventNames == {"created"} \cup {RequestOf[r].key : r \in Requests}
Plans == [keys : Seq(Entries), events : Seq(EventNames), lastAt : Nat]

ApplicationAssumption ==
  /\ SessionMs \in Nat /\ RecentMs \in Nat \ {0} /\ Statements \in BOOLEAN
  /\ MaxTime \in Nat /\ MaxArrivals \in Nat
  /\ MaxExports \in Nat
  /\ None \notin SessionRecords /\ None \notin Plans

VARIABLES
  plan,       \* the plans row: keys processed in order, events, lastCommandAt
  commands,   \* processed_commands
  audit,      \* audit_events, by ordinal
  sessions,   \* session -> [since, until, revokedAt], or None
  requests,   \* request -> its step and what it captured
  log,        \* history: who sent each processed command, and when
  export,     \* the export under way
  snapshot,   \* the snapshot last exported, or None
  restored,   \* a restore-safe store: empty (None), or what was restored
  now, arrivals, exports

vars == <<plan, commands, audit, sessions, requests, log, export, snapshot,
          restored, now, arrivals, exports>>

Idle == [step |-> "idle"]
Intents == {RequestOf[r].intent : r \in Requests}
NoExport == [step |-> "idle"]

Init ==
  /\ plan = None /\ commands = {} /\ audit = <<>>
  /\ sessions = [s \in Sessions |-> None]
  /\ requests = [r \in Requests |-> Idle]
  /\ log = <<>> /\ export = NoExport /\ snapshot = None /\ restored = None
  /\ now = 0 /\ arrivals = 0 /\ exports = 0

Tick ==
  /\ now < MaxTime /\ now' = now + 1
  /\ UNCHANGED <<plan, commands, audit, sessions, requests, log, export,
                 snapshot, restored, arrivals, exports>>

---------------------------------------------------------------------------
(* The identity service, as the application sees it.                       *)

IdentityFrame == UNCHANGED <<plan, commands, audit, requests, log, export,
                             snapshot, restored, now, arrivals, exports>>

SignIn(s) ==
  /\ sessions[s] = None
  /\ sessions' = [sessions EXCEPT ![s] =
       [since |-> now, until |-> now + SessionMs, revokedAt |-> None]]
  /\ IdentityFrame

Revoke(s) ==
  /\ sessions[s] # None /\ sessions[s].revokedAt = None
  /\ sessions' = [sessions EXCEPT ![s].revokedAt = now]
  /\ IdentityFrame

Active(s, at) ==
  /\ sessions[s] # None /\ sessions[s].revokedAt = None
  /\ sessions[s].since <= at /\ at <= sessions[s].until

---------------------------------------------------------------------------
(* The application.  Only an explicit POST gets as far as Arrive.          *)

RequestFrame == UNCHANGED <<plan, commands, audit, sessions, log, export,
                            snapshot, restored, now, exports>>

Scheduled(r) == RequestOf[r].intent = ScheduledIntent

Arrive(r) ==
  /\ requests[r].step \in {"idle", "done"}
  /\ arrivals < MaxArrivals /\ arrivals' = arrivals + 1
  /\ \/ /\ Scheduled(r)
        /\ requests' = [requests EXCEPT ![r] = [step |-> "transact", at |-> now]]
     \/ /\ ~Scheduled(r)
        /\ \E s \in Sessions :
             requests' = [requests EXCEPT ![r] = [step |-> "verify", at |-> now, session |-> s]]
  /\ RequestFrame

(* Fault: a session that exists is taken for an active one.                *)
VerifyKnown(r) ==
  /\ requests[r].step = "verify"
  /\ LET q == requests[r] IN
       requests' = [requests EXCEPT ![r] =
         IF sessions[q.session] # None
         THEN [step |-> "transact", at |-> q.at, session |-> q.session,
               verifiedAt |-> now, recent |-> q.at - sessions[q.session].since <= RecentMs]
         ELSE [step |-> "done", answer |-> "expired"]]
  /\ UNCHANGED arrivals /\ RequestFrame

Verify(r) ==
  /\ requests[r].step = "verify"
  /\ LET q == requests[r] IN
       requests' = [requests EXCEPT ![r] =
         IF Active(q.session, q.at)
         THEN [step |-> "transact", at |-> q.at, session |-> q.session,
               verifiedAt |-> now, recent |-> q.at - sessions[q.session].since <= RecentMs]
         ELSE [step |-> "done", answer |-> "expired"]]
  /\ UNCHANGED arrivals /\ RequestFrame

(* The caller, or the process, goes away: nobody is answered.              *)
Abandon(r) ==
  /\ requests[r].step \in {"verify", "transact"}
  /\ requests' = [requests EXCEPT ![r] = Idle]
  /\ UNCHANGED arrivals /\ RequestFrame

(* requireOwner and requireActionAuthentication, on what was captured.     *)
Authorized(r) ==
  ~Scheduled(r) =>
    /\ OwnerOf[requests[r].session] = PlanOwner
    /\ RequestOf[r].intent \in Lifecycle => requests[r].recent

(* interactiveCommandFingerprint keeps two intents apart.                  *)
Fingerprint(r) == RequestOf[r].intent
Entry(r) == [key |-> RequestOf[r].key, fingerprint |-> Fingerprint(r)]

StoreFrame == UNCHANGED <<sessions, export, snapshot, restored, now, arrivals, exports>>
Answer(r, a) == requests' = [requests EXCEPT ![r] = [step |-> "done", answer |-> a]]
Processed(key) == {c \in commands : c.key = key}

(* What is refused changes nothing; so does a duplicate.                   *)
Refusal(r) ==
  IF plan = None THEN "not_found"
  ELSE IF ~Authorized(r) THEN "denied"
  ELSE IF Processed(RequestOf[r].key) = {} THEN "refused"
  ELSE IF Entry(r) \in commands THEN "duplicate" ELSE "conflict"

Refuse(r) ==
  /\ requests[r].step = "transact"
  /\ Answer(r, Refusal(r))
  /\ UNCHANGED <<plan, commands, audit, log>> /\ StoreFrame

(* What a decision may return: the store takes any, and checks it.         *)
Decided(r) ==
  [keys : {plan.keys, Append(plan.keys, Entry(r))},
   events : {<<>>, plan.events, Append(plan.events, RequestOf[r].key)},
   lastAt : {requests[r].at}]

(* assertPlanTransition                                                    *)
Transition(p, q, r) ==
  /\ q.keys = Append(p.keys, Entry(r))
  /\ IsPrefix(p.events, q.events)

NewEvents(next) == SubSeq(next.events, Len(plan.events) + 1, Len(next.events))

(* The state, the processed command and the new events, together.          *)
Write(r, next) ==
  /\ plan' = next
  /\ commands' = commands \cup {Entry(r)}
  /\ audit' = audit \o NewEvents(next)

MayDecide(r) ==
  /\ plan # None /\ Authorized(r) /\ Processed(RequestOf[r].key) = {}
  /\ requests[r].at >= plan.lastAt

Commit(r) ==
  /\ requests[r].step = "transact"
  /\ MayDecide(r)
  /\ \E next \in Decided(r) : Transition(plan, next, r) /\ Write(r, next)
  /\ log' = Append(log, [request |-> r, at |-> requests[r].at,
       session |-> IF Scheduled(r) THEN None ELSE sessions[requests[r].session],
       owner |-> IF Scheduled(r) THEN None ELSE OwnerOf[requests[r].session],
       verifiedAt |-> IF Scheduled(r) THEN now ELSE requests[r].verifiedAt])
  /\ Answer(r, "committed") /\ StoreFrame

(* The Plan is created once; it begins with its first event and no command.*)
Initialize ==
  /\ plan = None
  /\ plan' = [keys |-> <<>>, events |-> <<"created">>, lastAt |-> now]
  /\ audit' = <<"created">>
  /\ UNCHANGED <<commands, requests, log>> /\ StoreFrame

---------------------------------------------------------------------------
(* exportSnapshot and restoreSnapshot.                                     *)

ExportFrame == UNCHANGED <<plan, commands, audit, sessions, requests, log, now, arrivals>>

Taken(p, c, a) == [plan |-> p, commands |-> c, audit |-> a]

ExportAtOnce ==
  /\ ~Statements /\ plan # None
  /\ exports < MaxExports /\ exports' = exports + 1
  /\ snapshot' = Taken(plan, commands, audit)
  /\ UNCHANGED <<export, restored>> /\ ExportFrame

ExportPlans ==
  /\ Statements /\ plan # None /\ export.step = "idle"
  /\ exports < MaxExports /\ exports' = exports + 1
  /\ export' = [step |-> "commands", plan |-> plan]
  /\ UNCHANGED <<snapshot, restored>> /\ ExportFrame

ExportCommands ==
  /\ export.step = "commands"
  /\ export' = [step |-> "audit", plan |-> export.plan, commands |-> commands]
  /\ UNCHANGED <<snapshot, restored>> /\ UNCHANGED exports /\ ExportFrame

ExportAudit ==
  /\ export.step = "audit"
  /\ snapshot' = Taken(export.plan, export.commands, audit)
  /\ export' = NoExport
  /\ UNCHANGED restored /\ UNCHANGED exports /\ ExportFrame

(* assertSnapshot                                                          *)
Valid(x) ==
  /\ x.commands = ToSet(x.plan.keys)
  /\ x.audit = x.plan.events

(* Fault: a snapshot is restored as it is.                                 *)
RestoreUnread ==
  /\ restored = None
  /\ snapshot # None
  /\ restored' = snapshot
  /\ UNCHANGED <<export, snapshot>> /\ UNCHANGED exports /\ ExportFrame

Restore ==
  /\ restored = None
  /\ snapshot # None /\ Valid(snapshot)
  /\ restored' = snapshot
  /\ UNCHANGED <<export, snapshot>> /\ UNCHANGED exports /\ ExportFrame

Next ==
  \/ Tick \/ Initialize \/ Restore
  \/ ExportAtOnce \/ ExportPlans \/ ExportCommands \/ ExportAudit
  \/ \E s \in Sessions : SignIn(s) \/ Revoke(s)
  \/ \E r \in Requests : Arrive(r) \/ Verify(r) \/ Abandon(r) \/ Refuse(r) \/ Commit(r)

Spec == Init /\ [][Next]_vars

---------------------------------------------------------------------------
(* Every request is at a step of its own, every processed key is there     *)
(* once, and the log follows the Plan.                                     *)
TypeOK ==
  /\ \A r \in Requests : requests[r].step \in {"idle", "verify", "transact", "done"}
  /\ \A c, d \in commands : c.key = d.key => c = d
  /\ plan = None \/ Len(plan.keys) = Len(log)
  /\ now \in 0..MaxTime /\ arrivals \in 0..MaxArrivals /\ exports \in 0..MaxExports

(* A command the Owner's session sent was that Owner's, the session was    *)
(* active when it was captured and not revoked before it was verified, and *)
(* a lifecycle command came soon after a sign-in, however long the         *)
(* transaction then waited (createPlanApplication, execute).               *)
CommandsWereAuthorized ==
  \A i \in 1..Len(log) :
    LET c == log[i] IN ~Scheduled(c.request) =>
      /\ c.owner = PlanOwner
      /\ c.session.since <= c.at /\ c.at <= c.session.until
      /\ c.session.revokedAt = None \/ c.session.revokedAt >= c.verifiedAt
      /\ RequestOf[c.request].intent \in Lifecycle => c.at - c.session.since <= RecentMs

(* Commands commit in the order of the times they captured, although       *)
(* requests overtake one another between capture and transaction.          *)
TimesNeverGoBack ==
  \A i, j \in 1..Len(log) : i < j => log[i].at <= log[j].at

(* The three tables tell one story: each processed key has its row, with   *)
(* the Plan's fingerprint, and the audit is the Plan's events.             *)
TablesAgree == plan # None => Valid(Taken(plan, commands, audit))

(* One key stands for one intent: whoever is told that a command is done,  *)
(* now or as a repetition, sent the intent that is on record.              *)
AnswersAreTrue ==
  \A r \in Requests :
    requests[r].step = "done" /\ requests[r].answer \in {"committed", "duplicate"}
      => Entry(r) \in commands

(* What an export took while commands ran is one committed state: it can   *)
(* be restored ("exports a transactionally consistent snapshot during a    *)
(* write", store.contract.test.ts).                                        *)
SnapshotIsConsistent == snapshot # None => Valid(snapshot)

(* What is restored is a state that was committed, whatever the export     *)
(* took: a mixture of two states is refused.                               *)
RestoredWasCommitted ==
  restored # None =>
    /\ Valid(restored)
    /\ IsPrefix(restored.plan.keys, plan.keys)
    /\ IsPrefix(restored.plan.events, plan.events)

============================================================================
