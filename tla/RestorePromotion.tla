-------------------------- MODULE RestorePromotion --------------------------
(***************************************************************************)
(* How one PostgreSQL database becomes the live one: the migrators that    *)
(* bring its schema up to date and write its runtime configuration         *)
(* (postgres.ts), the application processes that verify it as they start,  *)
(* the snapshots restored into it while it is restore-safe                 *)
(* (postgresOperations.ts), and the operators who inspect it and promote   *)
(* it (postgresRestore.ts).  Transactions run at READ COMMITTED: what a    *)
(* transaction read may have changed when it commits, except under the two *)
(* advisory locks and the row locks the code takes.                        *)
(***************************************************************************)
EXTENDS Naturals, Sequences, FiniteSets

CONSTANTS
  Migrators, Apps, Restorers, Operators, \* processes
  Migrations,     \* the release's migrations, in order
  Installations,  \* the identities a process may be configured with
  Snapshots,      \* the sets of rows a portable snapshot may hold
  Dumps,          \* [ledger, data, promotions] a physical restore may bring
  BadRows,        \* rows no snapshot check accepts
  Ids,            \* promotion identifiers
  Written,        \* the row an application process writes
  MaxCrashes,     \* bound: interruptions of migrators and operators
  NoRuntime       \* runtime_configuration has no row

Modes == {"live", "restore_safe"}
Runtimes == [installation : Installations, mode : Modes]

(* A table has finitely many rows; an application writes rows of its own.  *)
ASSUME RestoreAssumption ==
  /\ MaxCrashes \in Nat
  /\ NoRuntime \notin Runtimes
  /\ Migrations \in Seq(STRING)
  /\ Snapshots # {}
  /\ \A s \in Snapshots : IsFiniteSet(s) /\ s \cap (BadRows \cup {Written}) = {}
  /\ \A d \in Dumps :
       /\ d.ledger \in Seq(STRING)
       /\ IsFiniteSet(d.data) /\ Written \notin d.data
       /\ IsFiniteSet(DOMAIN d.promotions) /\ DOMAIN d.promotions \subseteq Ids

VARIABLES
  ledger,      \* vidha_migrations: the names recorded, by version
  runtime,     \* the runtime_configuration row, or NoRuntime
  data,        \* the rows of the Plan, operations and identity tables
  promotions,  \* restore_promotions: identifier -> accepted report
  mig,         \* each migrator: its step and what its transaction holds
  app,         \* each application process: off, or the configuration it verified
  restorer,    \* each restoring adapter: its step and its snapshot
  op,          \* each operator: step, report, identifier, what it has read
  inspected,   \* history: the rows the promoting transaction inspected
  answers,     \* history: the answers operators received
  overlapped,  \* history: did a restore ever run beside another, or an operator?
  crashes      \* counts interruptions up to MaxCrashes

restoreVars == <<ledger, runtime, data, promotions, mig, app,
                 restorer, op, inspected, answers, overlapped, crashes>>

Off == [step |-> "off"]
Report(d) == [ledger |-> ledger, rows |-> Cardinality(d)]

(* A fresh database, or one pg_restore filled and the operator marked      *)
(* restore-safe (scripts/rehearse-backup.sh).                              *)
RestoreInit ==
  /\ \/ /\ ledger = <<>> /\ data = {} /\ runtime = NoRuntime
        /\ promotions = <<>>
     \/ \E d \in Dumps, i \in Installations :
          /\ ledger = d.ledger /\ data = d.data /\ promotions = d.promotions
          /\ runtime = [installation |-> i, mode |-> "restore_safe"]
  /\ mig = [m \in Migrators |-> Off]
  /\ app = [p \in Apps |-> Off]
  /\ restorer = [r \in Restorers |-> Off]
  /\ op = [o \in Operators |-> Off]
  /\ inspected = {} /\ answers = {} /\ overlapped = FALSE /\ crashes = 0

---------------------------------------------------------------------------
(* The migrator: applyMigrationsTransaction, then configureRuntime.        *)

MigratorFrame ==
  UNCHANGED <<data, promotions, app, restorer, op, inspected, answers, overlapped>>

StartMigrator(m) ==
  /\ mig[m].step = "off"
  /\ \E c \in Runtimes : mig' = [mig EXCEPT ![m] = [step |-> "lock", config |-> c]]
  /\ UNCHANGED <<ledger, runtime, crashes>> /\ MigratorFrame

InMigration == {m \in Migrators : mig[m].step = "apply"}

(* What the transaction holds: the ledger as it will leave it, and with it *)
(* the schema, as each migration's SQL runs beside its entry.              *)
Applying(c, n, l) == [step |-> "apply", config |-> c, next |-> n, ledger |-> l]

TakeMigrationLock(m) ==
  /\ mig[m].step = "lock" /\ InMigration = {}
  /\ mig' = [mig EXCEPT ![m] = Applying(mig[m].config, 1, ledger)]
  /\ UNCHANGED <<ledger, runtime, crashes>> /\ MigratorFrame

(* One turn of the loop: a recorded migration must be this release's; one  *)
(* that is not recorded runs its SQL and is recorded.                      *)
Turn(t) ==
  LET v == t.next IN
  IF v > Len(t.ledger)
  THEN Applying(t.config, v + 1, Append(t.ledger, Migrations[v]))
  ELSE IF t.ledger[v] = Migrations[v] THEN Applying(t.config, v + 1, t.ledger)
  ELSE Off

ApplyMigration(m) ==
  /\ mig[m].step = "apply" /\ mig[m].next <= Len(Migrations)
  /\ mig' = [mig EXCEPT ![m] = Turn(mig[m])]
  /\ UNCHANGED <<ledger, runtime, crashes>> /\ MigratorFrame

(* Fault: each migration commits on its own.                               *)
CommitEach(m) ==
  /\ mig[m].step = "apply"
  /\ ledger' = mig[m].ledger
  /\ mig' = [mig EXCEPT ![m] = IF @.next > Len(Migrations)
                               THEN [step |-> "select", config |-> @.config] ELSE @]
  /\ UNCHANGED <<runtime, crashes>> /\ MigratorFrame

CommitMigrations(m) ==
  /\ mig[m].step = "apply" /\ mig[m].next > Len(Migrations)
  /\ ledger' = mig[m].ledger
  /\ mig' = [mig EXCEPT ![m] = [step |-> "select", config |-> mig[m].config]]
  /\ UNCHANGED <<runtime, crashes>> /\ MigratorFrame

(* A row is locked and compared, and the process ends with schema_ready or *)
(* with an error; an absent row cannot be locked.                          *)
SelectRuntime(m) ==
  /\ mig[m].step = "select"
  /\ mig' = [mig EXCEPT ![m] = IF runtime = NoRuntime
                               THEN [@ EXCEPT !.step = "insert"] ELSE Off]
  /\ UNCHANGED <<ledger, runtime, crashes>> /\ MigratorFrame

(* The second of two inserts meets the primary key, and its process fails. *)
InsertRuntime(m) ==
  /\ mig[m].step = "insert"
  /\ runtime' = IF runtime = NoRuntime THEN mig[m].config ELSE runtime
  /\ mig' = [mig EXCEPT ![m] = Off]
  /\ UNCHANGED <<ledger, crashes>> /\ MigratorFrame

(* The backend is terminated, or the process dies: PostgreSQL rolls back.  *)
InterruptMigrator(m) ==
  /\ mig[m].step # "off" /\ crashes < MaxCrashes
  /\ mig' = [mig EXCEPT ![m] = Off]
  /\ crashes' = crashes + 1
  /\ UNCHANGED <<ledger, runtime>> /\ MigratorFrame

---------------------------------------------------------------------------
(* The api and worker processes.                                           *)

AppFrame == UNCHANGED <<ledger, runtime, promotions, mig, restorer, op,
                        inspected, answers, overlapped, crashes>>

VerifyRuntimeConfiguration(c) ==
  /\ runtime # NoRuntime /\ runtime = c
  /\ Len(ledger) = Len(Migrations)

StartApp(p) ==
  /\ app[p].step = "off"
  /\ \E c \in Runtimes :
       /\ VerifyRuntimeConfiguration(c)
       /\ app' = [app EXCEPT ![p] = [step |-> "up", config |-> c]]
  /\ UNCHANGED data /\ AppFrame

StopApp(p) ==
  /\ app[p].step = "up"
  /\ app' = [app EXCEPT ![p] = Off]
  /\ UNCHANGED data /\ AppFrame

(* The operations and Plan stores compare the database's mode in every     *)
(* transaction; the identity and WebAuthn stores know only the mode they   *)
(* were configured with.                                                   *)
OperationsWrite(p) ==
  /\ app[p].step = "up" /\ app[p].config.mode = "live"
  /\ runtime.mode = "live"
  /\ data' = data \cup {Written}
  /\ UNCHANGED app /\ AppFrame

IdentityWrite(p) ==
  /\ app[p].step = "up" /\ app[p].config.mode = "live"
  /\ data' = data \cup {Written}
  /\ UNCHANGED app /\ AppFrame

---------------------------------------------------------------------------
(* restoreSnapshot: an adapter in restore-safe mode fills an empty store.  *)

Restoring == {r \in Restorers : restorer[r].step # "off"}
Promoting == {o \in Operators : op[o].step # "off"}

RestoreFrame == UNCHANGED <<ledger, runtime, promotions, mig, app, op,
                            inspected, answers, crashes>>

(* The mode and the counts are read; neither is locked.                    *)
BeginRestore(r) ==
  /\ restorer[r].step = "off"
  /\ runtime # NoRuntime /\ runtime.mode = "restore_safe"
  /\ Len(ledger) = Len(Migrations)
  /\ data = {}
  /\ \E s \in Snapshots :
       restorer' = [restorer EXCEPT ![r] = [step |-> "insert", rows |-> s]]
  /\ overlapped' = (overlapped \/ Restoring # {} \/ Promoting # {})
  /\ UNCHANGED data /\ RestoreFrame

(* The rows are inserted and committed, unless one is there already.       *)
CommitRestore(r) ==
  /\ restorer[r].step = "insert"
  /\ data' = IF data \cap restorer[r].rows = {} THEN data \cup restorer[r].rows
             ELSE data
  /\ restorer' = [restorer EXCEPT ![r] = Off]
  /\ UNCHANGED overlapped /\ RestoreFrame

---------------------------------------------------------------------------
(* Inspection and promotion.                                               *)

OperatorFrame == UNCHANGED <<ledger, data, mig, app, restorer>>

(* An inspection reads the configuration and the ledger, then one table    *)
(* after the other: what is committed meanwhile it may see or not.         *)
MayBeInspected ==
  runtime # NoRuntime /\ runtime.mode = "restore_safe" /\ ledger = Migrations
Seen(o) == {d \in SUBSET data : op[o].rows \subseteq d}
Passes(d) == d \cap BadRows = {}
Holding(o, s) == [step |-> s, id |-> op[o].id, report |-> op[o].report]

(* inspectPostgresRestore; the operator chooses an identifier for the      *)
(* promotion.                                                              *)
Inspect(o) ==
  /\ op[o].step = "off" /\ MayBeInspected
  /\ \E id \in Ids : op' = [op EXCEPT ![o] = [step |-> "look", id |-> id, rows |-> data]]
  /\ overlapped' = (overlapped \/ Restoring # {})
  /\ UNCHANGED <<runtime, promotions, inspected, answers, crashes>> /\ OperatorFrame

(* The operator keeps the report and accepts it, or there is none.         *)
AcceptReport(o) ==
  /\ op[o].step = "look"
  /\ \E d \in Seen(o) :
       op' = [op EXCEPT ![o] = IF Passes(d)
                               THEN [step |-> "accepted", id |-> @.id, report |-> Report(d)]
                               ELSE Off]
  /\ UNCHANGED <<runtime, promotions, inspected, answers, overlapped, crashes>>
  /\ OperatorFrame

InPromotion == {o \in Operators : op[o].step \in {"inspect", "commit"}}

(* promotePostgresRestore takes the lock and looks the identifier up; the  *)
(* inspection of an identifier that is new begins.                         *)
BeginPromotion(o) ==
  /\ op[o].step = "accepted" /\ InPromotion = {}
  /\ LET a == op[o] IN
       IF a.id \notin DOMAIN promotions
       THEN /\ op' = [op EXCEPT ![o] =
                        IF MayBeInspected
                        THEN [step |-> "inspect", id |-> a.id, report |-> a.report, rows |-> data]
                        ELSE Holding(o, "answered")]
            /\ UNCHANGED answers
       ELSE /\ op' = [op EXCEPT ![o] = Holding(o, "answered")]
            /\ answers' = IF promotions[a.id] = a.report
                          THEN answers \cup {[id |-> a.id, report |-> a.report,
                                              duplicate |-> TRUE]}
                          ELSE answers
  /\ UNCHANGED <<runtime, promotions, inspected, overlapped, crashes>> /\ OperatorFrame

(* The database is inspected again, and the digests must agree.            *)
InspectAgain(o) ==
  /\ op[o].step = "inspect"
  /\ \E d \in Seen(o) :
       op' = [op EXCEPT ![o] = IF Passes(d) /\ Report(d) = op[o].report
                               THEN [step |-> "commit", id |-> @.id, report |-> @.report,
                                     rows |-> d]
                               ELSE Holding(o, "answered")]
  /\ UNCHANGED <<runtime, promotions, inspected, answers, overlapped, crashes>>
  /\ OperatorFrame

(* The promotion is recorded and the mode changes, in one commit; the      *)
(* update finds the row restore-safe because promotions hold the lock.     *)
CommitPromotion(o) ==
  /\ op[o].step = "commit" /\ runtime.mode = "restore_safe"
  /\ LET a == op[o] IN
       /\ promotions' = [i \in DOMAIN promotions \cup {a.id} |->
                           IF i = a.id THEN a.report ELSE promotions[i]]
       /\ runtime' = [runtime EXCEPT !.mode = "live"]
       /\ inspected' = a.rows
       /\ op' = [op EXCEPT ![o] = Holding(o, "answered")]
       /\ answers' = answers \cup {[id |-> a.id, report |-> a.report, duplicate |-> FALSE]}
  /\ UNCHANGED <<overlapped, crashes>> /\ OperatorFrame

(* The answer is lost: the operator sends the same promotion again.        *)
Resend(o) ==
  /\ op[o].step = "answered" /\ crashes < MaxCrashes
  /\ op' = [op EXCEPT ![o] = Holding(o, "accepted")]
  /\ crashes' = crashes + 1
  /\ UNCHANGED <<runtime, promotions, inspected, answers, overlapped>> /\ OperatorFrame

Leave(o) ==
  /\ op[o].step = "answered"
  /\ op' = [op EXCEPT ![o] = Off]
  /\ UNCHANGED <<runtime, promotions, inspected, answers, overlapped, crashes>>
  /\ OperatorFrame

(* The promoting process dies: its transaction is rolled back.             *)
InterruptOperator(o) ==
  /\ op[o].step \in {"inspect", "commit"} /\ crashes < MaxCrashes
  /\ op' = [op EXCEPT ![o] = Holding(o, "accepted")]
  /\ crashes' = crashes + 1
  /\ UNCHANGED <<runtime, promotions, inspected, answers, overlapped>> /\ OperatorFrame

MigratorStep(m) ==
  \/ TakeMigrationLock(m) \/ ApplyMigration(m) \/ CommitMigrations(m)
  \/ SelectRuntime(m) \/ InsertRuntime(m)

OperatorStep(o) ==
  AcceptReport(o) \/ BeginPromotion(o) \/ InspectAgain(o) \/ CommitPromotion(o) \/ Leave(o)

RestoreNext ==
  \/ \E m \in Migrators : StartMigrator(m) \/ MigratorStep(m) \/ InterruptMigrator(m)
  \/ \E p \in Apps : StartApp(p) \/ StopApp(p) \/ OperationsWrite(p) \/ IdentityWrite(p)
  \/ \E r \in Restorers : BeginRestore(r) \/ CommitRestore(r)
  \/ \E o \in Operators : Inspect(o) \/ OperatorStep(o) \/ Resend(o) \/ InterruptOperator(o)

RestoreSpec == RestoreInit /\ [][RestoreNext]_restoreVars

---------------------------------------------------------------------------
(* Every variable holds what its table or process can hold, and each       *)
(* advisory lock has at most one transaction behind it.                    *)
RestoreTypeOK ==
  /\ runtime \in Runtimes \cup {NoRuntime}
  /\ DOMAIN promotions \subseteq Ids
  /\ \A m \in Migrators : mig[m].step \in {"off", "lock", "apply", "select", "insert"}
  /\ \A p \in Apps : app[p].step \in {"off", "up"}
  /\ \A r \in Restorers : restorer[r].step \in {"off", "insert"}
  /\ \A o \in Operators : op[o].step \in {"off", "look", "accepted", "inspect", "commit", "answered"}
  /\ Cardinality(InMigration) <= 1 /\ Cardinality(InPromotion) <= 1
  /\ crashes \in 0..MaxCrashes

(* Whatever migrators start and wherever they are interrupted, a database  *)
(* has the whole schema of the release or what it had before: no process   *)
(* can meet a part of it (applyMigrationsTransaction).                     *)
SchemaMovesAtOnce == ledger' # ledger => ledger' = Migrations

(* Whoever wrote the runtime configuration first decided it: only its mode *)
(* changes afterwards, once, and only by a promotion that was recorded     *)
(* with it (configureRuntime, promotePostgresRestore).                     *)
ModeChangesByPromotion ==
  runtime # NoRuntime /\ runtime' # runtime =>
    /\ runtime' = [runtime EXCEPT !.mode = "live"]
    /\ Cardinality(DOMAIN promotions') = Cardinality(DOMAIN promotions) + 1

(* Until a restored database is promoted no application process writes to  *)
(* it, through any store, although the identity stores never look at the   *)
(* database's mode: a process configured live cannot have started there.   *)
SafeMeansReadOnly ==
  runtime # NoRuntime /\ runtime.mode = "restore_safe" /\ Written \in data'
    => Written \in data

(* A database that was promoted holds all that its promotion inspected,    *)
(* and that was coherent; where no restore ran beside another one or an    *)
(* operator, it holds nothing else that was restored.                      *)
Promoted == \E a \in answers : ~a.duplicate
PromotedAsInspected ==
  Promoted =>
    /\ inspected \subseteq data /\ inspected \cap BadRows = {}
    /\ ~overlapped => data \ {Written} = inspected

(* What promotePostgresRestore says of its database ("The restore changed  *)
(* after its invariant report was accepted." otherwise) and the research   *)
(* demands ("Inspection and invariant checks precede an explicit           *)
(* promotion"): no restored row is live that was not inspected.            *)
LiveRowsWereInspected == Promoted => data \ {Written} \subseteq inspected

(* A restore leaves a snapshot whole or not at all, whoever else restores, *)
(* promotes or writes, and never adds to what a physical restore brought;  *)
(* where restores did not overlap there is one snapshot, never two.        *)
RestoresAreWhole ==
  LET rows == data \ {Written} IN
  \/ \E ss \in SUBSET Snapshots : rows = UNION ss
  \/ \E d \in Dumps : rows = d.data
RestoreIsOneSnapshot ==
  ~overlapped => data \ {Written} \in {{}} \cup Snapshots \cup {d.data : d \in Dumps}

(* What an operator is told is on record with its report; a promotion that *)
(* was made, and not only repeated, left the database live, and one        *)
(* database is promoted once.                                              *)
AnswersAreRecorded ==
  /\ \A a \in answers : a.id \in DOMAIN promotions /\ promotions[a.id] = a.report
  /\ \A a, b \in answers : ~a.duplicate /\ ~b.duplicate => a = b
  /\ (\E a \in answers : ~a.duplicate) => runtime.mode = "live"

============================================================================
