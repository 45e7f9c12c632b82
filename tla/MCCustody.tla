------------------------------ MODULE MCCustody -------------------------------
(***************************************************************************)
(* Keys, backups and restored databases, small enough for TLC.  One        *)
(* behaviour moves one part:                                               *)
(*   "restore"     a migrator, an operator, a physical restore or two      *)
(*                 portable ones and an application (the .cfg's            *)
(*                 constants);                                             *)
(*   "locks", "promotions"  two migrators and two operators on a fresh or  *)
(*                 a restored database, whose turns are watched for the    *)
(*                 ones and for the others;                                *)
(*   "rotation"    two rotators with whatever rings and targets they are   *)
(*                 given, beside a writer;                                 *)
(*   "retirement"  two processes that are given the rings of a version     *)
(*                 change in order, beside a rotator;                      *)
(*   "purge"       two rotators beside the deletion of what has expired;   *)
(*   "backup"      two processes that back up and retire.                  *)
(***************************************************************************)
EXTENDS RestorePromotion, TLC

CONSTANTS m1, m2, o1, o2, here, there, a1, a2, b1, bad, old, id1,
          k1, k2, t1, t2, i1

VARIABLES
  moving,
  table, reports, rowLock, idLock, process, rotation, purge, latest, writes,
  asked, retirable,                                             \* KeyRotation
  inventory, next, lockFile, artifacts, caller, retirements, signed, created,
  failed                                                        \* BackupChain

keyVars == <<table, reports, rowLock, idLock, process, rotation, purge, latest,
             writes, asked, retirable>>
backupVars == <<inventory, next, lockFile, artifacts, caller, retirements, signed,
                created, failed>>
custodyVars == <<moving, restoreVars, keyVars, backupVars>>

---------------------------------------------------------------------------
MCMigrations == <<"first", "second">>
MCSnapshots == {{a1, a2}, {b1}}

\* A dump of this release with an earlier promotion on record, one of an older
\* schema, one whose ledger is another release's, one with an incoherent row.
MCDumps ==
  {[ledger |-> MCMigrations, data |-> {a1}, promotions |->
      (old :> [ledger |-> MCMigrations, rows |-> 1])],
   [ledger |-> <<"first">>, data |-> {a1, a2}, promotions |-> <<>>],
   [ledger |-> <<"first", "other">>, data |-> {a1}, promotions |-> <<>>],
   [ledger |-> MCMigrations, data |-> {a1, bad}, promotions |-> <<>>]}

Locks == INSTANCE RestorePromotion WITH
  Migrators <- {m1, m2}, Apps <- {}, Restorers <- {}, Operators <- {o1, o2},
  Installations <- {here}

Ring(provider, current, held) == [provider |-> provider, current |-> current, held |-> held]
KeyOf(provider, version) == [provider |-> provider, version |-> version]

Rotation == INSTANCE KeyRotation WITH
  Records <- {1, 2}, Processes <- {k1}, Rotators <- {t1, t2}, Ids <- {i1},
  Rings <- <<Ring("a", 1, {1}), Ring("b", 1, {1}), Ring("direct", 1, {1})>>,
  Sources <- {Ring("a", 1, {1, 2}), Ring("b", 1, {1})},
  Targets <- {KeyOf("a", 2), KeyOf("b", 1)},
  FollowsProcedure <- FALSE, Retention <- {FALSE}, MaxWrites <- 2, MaxRequests <- 2,
  requests <- asked

\* The steps of a version change in one provider.
Retirement == INSTANCE KeyRotation WITH
  Records <- {1, 2}, Processes <- {k1, k2}, Rotators <- {t1}, Ids <- {i1},
  Rings <- <<Ring("a", 1, {1}), Ring("a", 1, {1, 2}), Ring("a", 2, {1, 2}), Ring("a", 2, {2})>>,
  Sources <- {Ring("a", 2, {1, 2})}, Targets <- {KeyOf("a", 2)},
  FollowsProcedure <- TRUE, Retention <- {FALSE}, MaxWrites <- 3, MaxRequests <- 2,
  requests <- asked

Purge == INSTANCE KeyRotation WITH
  Records <- {1, 2}, Processes <- {k1}, Rotators <- {t1, t2}, Ids <- {i1},
  Rings <- <<Ring("a", 1, {1, 2})>>,
  Sources <- {Ring("a", 2, {1, 2})}, Targets <- {KeyOf("a", 2)},
  FollowsProcedure <- FALSE, Retention <- {TRUE, FALSE}, MaxWrites <- 2, MaxRequests <- 2,
  requests <- asked

Backup == INSTANCE BackupChain WITH
  Processes <- {k1, k2}, process <- caller, MaxBackups <- 3, MaxRetirements <- 2

ASSUME Rotation!RotationAssumption
ASSUME Retirement!RotationAssumption /\ Retirement!ProcedureAssumption
ASSUME Purge!RotationAssumption
ASSUME Backup!BackupAssumption

---------------------------------------------------------------------------
CustodyInit ==
  /\ \/ moving = "restore" /\ RestoreInit
     \/ moving \in {"locks", "promotions"} /\ Locks!RestoreInit
     \/ moving \in {"rotation", "retirement", "purge", "backup"} /\ Locks!RestoreInit /\ ledger = <<>>
  /\ IF moving = "retirement" THEN Retirement!Init ELSE Rotation!Init
  /\ Backup!Init

CustodyNext ==
  /\ \/ moving = "restore" /\ RestoreNext /\ UNCHANGED <<keyVars, backupVars>>
     \/ moving \in {"locks", "promotions"} /\ Locks!RestoreNext /\ UNCHANGED <<keyVars, backupVars>>
     \/ moving = "rotation" /\ Rotation!Next /\ UNCHANGED <<restoreVars, backupVars>>
     \/ moving = "retirement" /\ Retirement!Next /\ UNCHANGED <<restoreVars, backupVars>>
     \/ moving = "purge" /\ Purge!Next /\ UNCHANGED <<restoreVars, backupVars>>
     \/ moving = "backup" /\ Backup!Next /\ UNCHANGED <<restoreVars, keyVars>>
  /\ UNCHANGED moving

\* The fairness of KeyRotation, and the same of migrators and operators: each runs
\* on, and is not passed over for ever where it queues for a lock.  The part
\* never changes, so one formula serves the first process of every part, and
\* one the second.
Runs(t, m, o) ==
  /\ \/ moving = "purge" /\ Purge!DetectDeadlock(t) /\ UNCHANGED restoreVars
     \/ moving = "locks" /\ Locks!MigratorStep(m) /\ UNCHANGED keyVars
     \/ moving = "promotions" /\ Locks!OperatorStep(o) /\ UNCHANGED keyVars
  /\ UNCHANGED <<moving, backupVars>>
IsServed(t, m, o) ==
  /\ \/ moving = "purge" /\ Purge!Advance(t) /\ UNCHANGED restoreVars
     \/ moving = "locks" /\ Locks!TakeMigrationLock(m) /\ UNCHANGED keyVars
     \/ moving = "promotions" /\ Locks!BeginPromotion(o) /\ UNCHANGED keyVars
  /\ UNCHANGED <<moving, backupVars>>
CustodyFairSpec ==
  /\ CustodyInit /\ [][CustodyNext]_custodyVars
  /\ WF_custodyVars(Runs(t1, m1, o1)) /\ SF_custodyVars(IsServed(t1, m1, o1))
  /\ WF_custodyVars(Runs(t2, m2, o2)) /\ SF_custodyVars(IsServed(t2, m2, o2))
  /\ WF_keyVars(moving = "purge" /\ Purge!Purging)

---------------------------------------------------------------------------
(* What must hold; see the three modules for each of these.                *)

\* No committed write is lost to a rotation, whatever it waited for; who is
\* told of a rotation finds its report; and while keys change hands in order
\* everyone can read.
RotationsAreSafe ==
  /\ moving = "rotation" =>
       Rotation!TypeOK /\ Rotation!NoWriteIsLost /\ Rotation!AnswersAgree
  /\ moving = "purge" => Purge!TypeOK /\ Purge!NoWriteIsLost /\ Purge!AnswersAgree
  /\ moving = "retirement" =>
       Retirement!TypeOK /\ Retirement!NoWriteIsLost /\ Retirement!EveryoneCanRead

\* The chain of backups is linked, its answers are true, and once there is a
\* backup exactly one can be restored; and a database holds whole snapshots, one
\* that was promoted what its promotion inspected, nothing else unless restores
\* overlapped, and it says so to whoever asks.
RecoveryIsSafe ==
  /\ moving = "backup" =>
       /\ Backup!TypeOK /\ Backup!ChainIsLinked
       /\ Backup!AnswersAreTrue /\ Backup!OneIsRestorable
  /\ moving = "restore" => RestoreTypeOK
  /\ moving # "restore" => Locks!RestoreTypeOK
  /\ PromotedAsInspected /\ RestoresAreWhole /\ RestoreIsOneSnapshot
  /\ AnswersAreRecorded

\* Rotation is one step for everyone else, and so is the schema of a release;
\* the mode of a database changes by its promotion alone, and until then no
\* application writes to it; and history is only added to.
ChangesAreAtomic ==
  [][/\ moving = "rotation" => Rotation!RotationStep
     /\ SchemaMovesAtOnce /\ ModeChangesByPromotion /\ SafeMeansReadOnly
     /\ Backup!HistoryIsKept]_custodyVars

\* Nobody waits for a lock for ever: a rotation that deadlocks with another or
\* with the purge, a migrator and a promotion all end.  Processes of a kind are
\* alike, so one of each is enough.
Busy ==
  \/ moving = "purge" /\ rotation[t1].pc # "idle"
  \/ moving = "locks" /\ mig[m1].step # "off"
  \/ moving = "promotions" /\ op[o1].step # "off"
CustodyIsServed == Busy ~> ~Busy
=============================================================================
