# Vidha: specifications, model checking and proofs

Vidha keeps a *continuity Plan* for an Owner. While the Plan is armed, the Owner
checks in from time to time; when Check-ins stop, the Plan climbs from *on time* to
*reminder*, *overdue* and *concern*. This directory holds TLA+ specifications of the
parts of Vidha whose behaviour is hard to test: what a command may do to a Plan, what
happens when Owner requests, scheduled advances, crashing workers and expiring leases
meet in the database, who may act as the Owner and how that can change, and which
promises hold after any sequence of all of these.

The source is the reference: every definition is translated from the code named in
`PROJECT.json` (`map`), and a comment of the code or a document is only quoted where the
model shows that the two differ.

## 1. The system

| Part | Code | State it keeps | Operations |
|---|---|---|---|
| Plan domain | `packages/domain/src/plan.ts` | lifecycle, cycle with three deadlines, processed commands, history | `createDraftPlan`, `applyPlanCommand` (rehearse, arm, pause, resume, disable, Check-in, advance time) |
| Application | `packages/application/src/application.ts` | none of its own | verify a session, turn a request into a command, apply it in a Plan transaction |
| Plan store | `packages/platform/src/postgresPlan.ts`, `packages/persistence/src` | Plan rows, audit rows | `transact`, `advanceScheduled`, snapshot, restore |
| Work queue | `packages/operations/src`, `packages/platform/src/postgresOperations.ts` | job rows, sink receipts, encrypted metadata | enqueue, claim, complete, fail, dead letter |
| Worker | `apps/runtime/src/worker.ts`, `main.ts` | the claims it is running | poll, run a claim, report |
| Owner identity | `packages/identity/src/identity.ts`, `packages/platform/src/postgres.ts` | sessions, credentials, recovery, channel change, epoch and revision | authenticate, verify, execute security commands |
| WebAuthn | `packages/identity/src/webauthn.ts` | ceremonies, counters, interaction proofs | begin and finish registration and authentication |
| Import intake | `packages/documents/src/importIntake.ts`, `attachmentIntake.ts` | prepared sources, inspections, reviews | prepare, inspect, review, approve; Attachments |
| Import pipeline | `packages/documents/src/executablePipeline.ts` | runtime proofs, container numbers; directories and containers of the host | scan, convert |
| Document history | `packages/documents/src/editableDocumentHistory.ts` | versions of one document | save, plan a restore, restore |
| Key custody | `packages/operations/src/keyCustody.ts`, `packages/platform/src/postgresKeyRotation.ts` | wrapped data keys, rotation reports | write, read, delete, purge, rotate |
| Backup | `packages/operations/src/keyCustody.ts`, `packages/platform/src/fileBackupInventory.ts` | inventory, artifacts | create, inspect, retire |
| Restore and promotion | `packages/platform/src/postgresRestore.ts`, `postgresOperations.ts` | the mode of a database, promotion reports | restore, inspect, promote |
| Migrations | `packages/platform/src/postgres.ts` | schema, ledger, runtime configuration | migrate, verify at start |
| Document workspace | `apps/web/src/components/DocumentWorkspace.tsx` | drafts, undo, versions, files under review | edit, undo, redo, version, restore, import, attach |
| Rehearsal | `packages/application/src/draftRehearsal.ts`, `apps/web/src/App.tsx`, `components/Overview.tsx` | the Plan of the tab, the review, what was rehearsed | review, accept, arm, pause, resume, disable, start afresh |
| Tabs | `apps/web/src/useRehearsalPeers.ts` | what each tab knows of the others | greet, answer, beat, forget |
| Updates | `apps/web/src/components/UpdateNotice.tsx`, `sw.ts` | the waiting and the controlling worker, the receipt | ask, confirm, hand off, reload, report |

How they interact:

* An HTTP request reaches the API process (`main.ts`), is authenticated against Owner
  identity, and becomes one Plan transaction. The time of the command is read from the API's clock
  *before* the transaction waits for the Plan's row.
* Every Plan transaction stages jobs in the work queue's table in the same transaction
  (`stageOutbox`): a notice for each Reminder and Concern, and for an armed Plan the one
  job that will advance it to its next stage.
* A worker process polls the queue each second, claims a job under a lease and runs it. For an
  advance, one transaction locks the Plan and then the job, compares the job with what the
  Plan wants now, advances the Plan and settles the job. For a notice, the sink and the
  completion are two transactions.
* A sign-in is several statements that commit one by one: consuming the ceremony, comparing and
  storing the counter, issuing a proof, then an Owner identity transaction that redeems the
  proof and writes the session. Every Owner identity transaction takes one advisory lock.
* A recovery spans two tables of one transaction: the Owner's record, compared with the API's
  clock, and the recovery proofs, compared with the database's clock. A wrong proof makes the
  command fail and is recorded all the same.
* An import passes through four calls of the intake, which calls the scanner and the converter of
  the pipeline. The browser's workspace waits for each, while the Owner goes on; what it gets in the
  end becomes an editable copy or an Attachment only after the Owner has seen it.
* The rehearsal reviews the drafts that the workspace edits, and must not arm a draft other than the
  reviewed one. Another tab may hold an update or a fresh start back, through messages only.
* A restored database is filled while it is *restore-safe*, inspected, and promoted; what is
  restored comes from a Plan export, an operations export or a physical copy. A rotation of keys
  runs beside the processes that write and read under the old and the new ring.
* Server processes share nothing but PostgreSQL and the backup inventory. A worker may crash,
  be slow beyond its lease, or lose the acknowledgement of a commit.

What is hard here: races between Owner requests and scheduled advances, stale claims,
crashes between two transactions, retries and duplicates, the chain of jobs that must not
lose a link, clocks of different processes, and long sequences of legal commands.
`PROJECT.json` lists each hazard at its line (`hazards`) with the properties that would
catch it.

What makes each part correct:

* **Plan domain.** No escalation without the full delay since the last renewal and without
  being armed; one rung at a time; every Concern cancelled once; a replay changes nothing; a
  disabled Plan stays as it is; deadlines consistent with the policy.
* **Application and Plan store.** A command runs once and only at the word of a session that
  may send it; whoever is told that it is done sent the intent on record; the three tables of a
  store agree; what is restored was once committed.
* **Work queue.** One holder may settle a job; settled jobs stay settled; a completed notice
  was delivered; every job ends.
* **Plan and queue together.** An armed Plan has its next move in the queue, but for one case (section 5); an advance
  is completed exactly when it is in the Plan's history; the outbox matches the history;
  silence leads to Concern or to a visible dead letter.
* **Owner identity.** Authority changes only at the word of a recent session or at the end of a
  full cooling-off; a session that was ended never lives again; the last credential cannot be
  revoked; the pending recovery and its proofs agree.
* **Recovery proofs.** A consumed or cancelled attempt is final; guessing is slowed down over
  all attempts of the Owner; no row is ever one that restore would refuse.
* **WebAuthn.** A ceremony or a proof is used once, in time; a credential's counter never goes
  back; a clone is noticed; only the first credential is enrolled without an authentication.
* **Documents.** What is approved was prepared, found clean and seen; nothing enters the
  workspace unreviewed; every change can be undone; a history is bounded, newest first, and a
  restore keeps both the version it brings back and the one it replaces; scans and conversions
  are contained and leave nothing behind; a file operation ends.
* **Rehearsal, tabs, updates.** Only what was reviewed is accepted and only what was rehearsed is
  armed; two tabs agree on who has work to lose; a receipt tells of the handoff that happened; only
  an updated tab reloads by itself.
* **Custody and backup.** No write is lost to a rotation, and whoever follows the procedure of a
  version change can read; the backups form a chain of which one is current and restorable; a
  restored database stays inert until it is promoted, holds whole snapshots, and all that its
  promotion inspected is live.

## 2. Modules

| Module | Models | Uses |
|---|---|---|
| `ContinuityTimeline` | what a Plan promises its Owner, without commands or stored deadlines | |
| `Plan` | `plan.ts`: one action per command, its rejections as guards | `ContinuityTimeline` (refinement) |
| `PlanApplication` | `application.ts` on an embedded store or `postgresPlan.ts`: requests, sessions, keys, exports, restores | |
| `SafetyJobs` | the work queue and the worker's loop for notices | |
| `PlanSchedule` | Plan transactions with outbox, scheduled advances, requests in flight | `Plan`, `SafetyJobs` (INSTANCE) |
| `OwnerAuthority` | who may act as the Owner, and how that changes, without commands or proofs | |
| `RecoveryProofs` | the tables of recovery attempts and factors (`postgres.ts`) | |
| `OwnerIdentity` | `identity.ts` on its PostgreSQL repository: sign-in and the nine commands | `RecoveryProofs` (INSTANCE), `OwnerAuthority` (refinement) |
| `WebAuthnCeremonies` | `webauthn.ts`: requests that interleave statement by statement | |
| `DocumentHistory` | `editableDocumentHistory.ts`, and what a history promises whoever calls it | |
| `DocumentWorkspace` | `DocumentWorkspace.tsx`: every handler, and what each one awaits | `DocumentHistory` (operators, and refinement per Envelope) |
| `ImportIntake` | `importIntake.ts`, `attachmentIntake.ts`: overlapping calls | |
| `ImportIsolation` | `executablePipeline.ts`: containers, directories, the daemon | |
| `DraftRehearsal` | `draftRehearsal.ts`: the review and its acceptance, as operators | |
| `RehearsalSession` | `App.tsx`, `Overview.tsx`: one tab's rehearsal | `DraftRehearsal` |
| `RehearsalPeers` | `useRehearsalPeers.ts`: presence between tabs | |
| `UpdateHandoff` | `UpdateNotice.tsx`, the receipt and the worker | |
| `KeyRotation` | encrypted metadata and the rotation of its keys | |
| `BackupChain` | the chain of backups and the inventory's file | |
| `RestorePromotion` | migrations, restores, inspection, promotion, start of a process | |
| `PlanProofs` | TLAPS proofs about `SafetyJobs`, `Plan` and `PlanApplication` | `SafetyJobs`; `Plan`, `PlanApplication` (INSTANCE) |
| `PlanScheduleProofs` | about `PlanSchedule` | `PlanSchedule`; `PlanProofs` (INSTANCE) |
| `OwnerIdentityProofs` | about `OwnerIdentity` and `RecoveryProofs` (the table, no proofs) | `OwnerIdentity` |
| `DocumentProofs` | about `DocumentHistory` and `DocumentWorkspace` | `DocumentWorkspace`, `DocumentHistory` (INSTANCE) |
| `WebAuthnProofs` | about `WebAuthnCeremonies` | `WebAuthnCeremonies` |
| `CustodyProofs` | about `KeyRotation`, `BackupChain` and `RestorePromotion` | `KeyRotation`; `BackupChain`, `RestorePromotion` (INSTANCE) |
| `IdentityDocumentProofs` | about the runs `identity` and `documents` | `MCOwnerIdentity`, `MCDocumentWorkspace`; `OwnerIdentityProofs`, `DocumentProofs` (INSTANCE) |
| `PlanCustodyProofs` | about the runs `plan` and `custody` | `MCPlan`, `MCCustody`; `PlanProofs`, `CustodyProofs` (INSTANCE) |
| `MCPlan`, `MCPlanExport`, `MCPlanSchedule`, `MCOwnerIdentity`, `MCWebAuthnCeremonies`, `MCDocumentWorkspace`, `MCDraftRehearsal`, `MCRehearsal`, `MCCustody`, `MCImports` | instances for TLC | |

**`Plan`.** The variables are the fields of `PlanState`; `processedCommandKeys` and
`processedCommandFingerprints` always hold the same keys and are one function. A rejected
command has no step, because the code throws before anything changes. `authenticated`,
`recentlyAuthenticated` and the expected policy revision are inputs of a command.

**`PlanApplication`.** A request captures the time and the verified session, and only then asks for
the Plan's row; sessions end in between, and clients repeat what was not answered. A
transaction holds the row, or the only connection, so it is one action on the three tables. An export is
one action in the embedded stores and three statements in PostgreSQL (`Statements`). The domain's
decision is open: it refuses, or returns a Plan, and the store checks the transition
(`Plan` says which one it returns).

**`SafetyJobs`.** One action per database transaction: enqueue, claim, sink, complete, fail.
A lease identifier is derived from the job and the number of the claim, so the number stands
for it. `held` is what a worker process still has to run; `Crash` empties it, which is also what
happens to a claim whose acknowledgement is lost. Skipped rows (`SKIP LOCKED`) are those another
worker may be settling at that moment.

**`PlanSchedule`.** Transactions on one Plan are serial because each locks the Plan row
first, so each is one action; `requests` holds the time that a request captured on arrival and
that it will use when its turn comes. Job identifiers are digests in the code; here they are the
tuple that is digested.

**`RecoveryProofs`.** One Owner. Each action is one database transaction, and each takes as
`at` what the database clock told it: any of `now + skew`, so it may be ahead of the API's clock
and be stepped back between two transactions. An absent row is a missing element of the
domain of `attempts`, a NULL time is `Never`. Presenting both proofs is one action; `wrong` is the set
of those that did not match. A denied presentation commits its counters
(`DurableRecoveryProofDenied`), except where the lock it asks for would leave the safe integers:
the code throws there and the failure is rolled back with everything else.

**`OwnerIdentity`.** The variables are the fields of `OwnerIdentity` that decide anything;
credentials, sessions and processed commands are functions whose domain is what has ever been
written. Every call runs in one transaction behind the advisory lock, so each is one action.
`Execute` is what `execute` does for every command (key, revision, processed record); a
rejected command has no step, except for a denied recovery. Event logs, notices and labels
are left out. `RetryAnswer` is what a repeated command is told. The refinement mapping to
`OwnerAuthority` takes a session as live if it is neither marked nor of an older epoch: the
two ways of ending a session in the code are one in the promise.

**`WebAuthnCeremonies`.** A request is a process with its step and what it has read so far; each
action is one statement that commits by itself, and other requests may run between any two.
`Offered` lists the purposes callers use: the routes bootstrap and authenticate; registering a further
credential after a reauthentication is what the coordinator offers besides. `reenrolments` is a history variable for
one property. `Abandon` is a lost process or connection, after any statement. An assertion that
reaches the server is genuine, with whatever count its authenticator, or a clone of it, has
reached.

**`DocumentHistory`.** Versions are numbers and a document is a value; a call that throws
has no step. The operators are what the workspace calls; the module's own specification lets
anybody call them in any order.

**`DocumentWorkspace`.** One mounted workspace of one tab. A handler runs to its end before the next
event, so it is one action, and refs agree with the state. What it awaits is in `awaited` with the
values its closure holds, and ends in an action of its own, after any other events. The checks
between two awaits of one handler only return early and are made once, at the last. The Plan may be
disabled and the rehearsal replaced at any time; what was awaited then resumes with the refs of the
old workspace.

**`ImportIntake`.** The three maps are functions from the intake's number. A call that waits keeps
what it has read in `calls`; a caller may alter the array it passed, and pass copies of what it was
given that differ from it. A source identifier is the bytes it is the digest of. Two scans that end alike in
the same millisecond leave the same evidence (`Moments`). `scans` and
`approvals` are history variables.

**`ImportIsolation`.** A job is a scan or a conversion with its step; `containers` and
`directories` are on the host and outlive the process, the rest does not. A container ends by its own
`timeout`, whether or not its client was killed before. The daemon and the tools answer whatever they like,
late or never.

**`DraftRehearsal`, `RehearsalSession`.** A review is a pure function of the Plan, the contacts and the
Envelopes, and digests are their input. A click is an action, what it awaits another. A
fresh start replaces the runtime: an older one still answers, to a component that is gone.

**`RehearsalPeers`.** A message reaches the tabs open when it is posted, in order. A `Tick` is one
heartbeat period; a throttled tab may miss any number of its own. A hidden tab is in the back/forward
cache and hears nothing; a tab may be closed without a word.

**`UpdateHandoff`.** A worker is the build it carries. The browser is the environment: promises
settle late or never, `controllerchange` reaches every tab at its own time, a newer worker may replace
the one that was asked, and a page may come back from the cache. The first page may find the receipt of an earlier release, which names no
target.

**`KeyRotation`.** `table` is what is committed; a transaction that needs a row which another one has
written waits, and sees its newest version (READ COMMITTED). Rotations lock rows by record id, a purge
in the order of its scan, so they can deadlock, and PostgreSQL aborts one. A statement skips the rows that
went away after its snapshot, also when their ids are written again (`Skipping`). `FollowsProcedure` hands
the rings to the processes in the order of the procedure: add a version, write under it, rotate, drop the
old one.

**`BackupChain`.** A backup reads the inventory, signs, stores its artifact and registers itself;
each is a step, and the process may die after each. The inventory's file is replaced through
a `.next` file behind a lock file; either may be left behind, by a dead process, by a write or a rename that
fails, or by a lock file that cannot be closed or removed, and stops every update until the operator removes
it. An error at the closing tells a caller nothing (`unclear`). A manifest is its digest.

**`RestorePromotion`.** Each transaction is its reads, its locks and its commit, and what it read may have
changed by then. A migrator takes an advisory lock, runs the release's migrations in one transaction and
writes the runtime configuration in a second one. A snapshot fills a store that was empty when it looked, in a
database that was restore-safe then; any number of restores may be under way, beside inspections and
promotions. A physical restore brings its own ledger and its earlier promotions. An operator
inspects, reads the report, and promotes by its digest. An inspection is two steps: it reads one table after
the other, and may see or miss what is committed meanwhile (`Seen`). `overlapped` is a history variable: a
restore has run beside another one or an operator.

## 3. Runs

A run whose MC module has a variable `part` (or `moving`) holds several small systems that share no
variable. Their steps commute, so nothing is lost when only one of them moves in a behaviour; the variable
says which, and the others stay as they begin. Each part is an INSTANCE with the constants that its
question needs, and each property says which part it is about.

| Run | What it shows | Parts and bounds |
|---|---|---|
| `plan` | any sequence of commands keeps the history earned, Concerns settled and the promise; only authorized commands commit, once, to tables that agree, also through export and restore | the Plan: six accepted commands, policy 2/1/1, a time line that ends at 5 so that it overflows. *concurrent*: two requests with one key, three arrivals, a session of 2. *embedded*, *postgres*: two commands beside two exports |
| `jobs` | fencing, settlement, delivery; every job ends | two workers, two jobs, two attempts, batches of two, leases of 2, retries from a worker's clock 0 or 2 ahead |
| `schedule` | a Check-in racing two workers: the next job is there, Plan and jobs move together | two attempts, requests until time 1, policy 3/1/1 |
| `schedule_pause` | pause, resumption and disabling racing a worker, notices included; the next job is there; silence is noticed | one worker, one attempt, claims of one job (so an exhausted lease uses up a poll), API clock 1 ahead, time until 3 |
| `identity` | commands keep the abstract authority, the sessions' credentials and a way in; records and proofs agree; guessing is limited | *identity*: any three commands, three credentials, two sessions, two channels, time until 3, sums beyond 4 overflow. *recovery*: four commands, two attempts with different expiries. *proofs*: the store alone, two attempts, three failures, a database clock 0 or 1 ahead |
| `sign_in` | bootstrap, enrolment and sign-in in any interleaving, with a clone | *sign_in*: two requests, two ceremonies, counts 0 to 2, time until 3. *enrolment*: from an empty store, three ceremonies, two credentials, all purposes |
| `documents` | the workspace's limits, undo, versions and file reviews, answered late and in any order; file operations end | *files*: two Envelopes, two operations under way, Attachments that do not all fit. *writing*: all drafts of one Envelope, undo of 2, versions and restores. *imports*: two Envelopes, two rehearsals. *history*: four versions kept of nine |
| `rehearsal` | what is reviewed, rehearsed and armed; what tabs know of each other; an update | *session*: two runtimes, two commands, two promises. *settle*: the same with fewer drafts. *review*: one of many inputs, which then changes. *peers*: two tabs, one throttled. *update*: builds 1 to 3, two attempts, beside another tab |
| `custody` | rotations, backups, restores, migrations and promotions beside each other | *rotation*: two rotators and a writer with any rings. *retirement*: two processes that follow the procedure. *purge*: two rotators and a purge. *backup*: two processes, three backups, two retirements. *restore*: a migrator, an operator, two restorers, an application. *locks*, *promotions*: two migrators and two operators |
| `imports` | what is approved was prepared, clean and seen; runs are contained; calls and containers end | *again*: one source inspected and reviewed twice, six calls. *two*: two sources, five calls. *isolation*: a scan and a conversion, three attempts, one death. *scans*: two scans |
| `identity_retry` | *violated*: a matching retry is answered as a duplicate | as the part *identity* |
| `plan_export` | *violated*: a PostgreSQL export is one committed state | two requests, one export |

Why these bounds are enough: the policies are the shortest whose deadlines differ from each
other, so every order of command and deadline occurs. Six accepted commands reach a Concern,
its cancellation by each of the three routes and what follows. Two attempts make a retry and an
exhausted job, two workers make a stale and a current claim, and a lease shorter than the time
left makes it expire under its holder. `schedule_pause` has a single attempt, so the chain of jobs has
to survive, or show, a job that died at its first. Named bounds of the models (`MaxInFlight`, `MaxTime`,
`DraftTime`, `ClaimedKinds`, `DeadlineAhead`, `MaxFailures`, `MaxRequests`, `MaxCrashes`, ...) are
described where they are declared.

For identity, a recovery takes a cooling-off of 2 and a channel change one of 1, so that each can be
completed, cancelled and found not ready, in either order; a session lives for 2 and is recent
for 1, so that each of live, live but not recent, and timed out occurs while both are pending. A
failure threshold of 1 makes three failures show a lock, its doubling and its ceiling; the
threshold only divides the count. Overflow needs no large numbers: `MaxSafe` lies just beyond the
last clock, and every sum near it overflows. Session, credential, key, attempt and ceremony
identifiers are interchangeable, so `MCOwnerIdentity` and `MCWebAuthnCeremonies` number them
and take fresh ones in order; a behaviour that takes them in another order is a renaming of one
that does. The part *sign_in* starts from what a bootstrap leaves behind, without its consumed
ceremony.

For the workspace, two Envelopes and two operations let an answer arrive after its Envelope was left, was
edited or got another import, and a size limit of 2 lets undo bring back what no longer fits beside what is
being kept; two versions and an undo of two make every limit bite, and nine numbers let a history
overflow again and again. For the rehearsal, two promises under way are a review or an acceptance and what
overtakes it, and two runtimes a fresh start. For custody, two rotators with different rings are
enough for every overlap of two transactions, and two records for a deadlock; three backups have a
parent, a child and one retired; two migrators contend for the lock, with one death at any
boundary. For imports, two inspections and two reviews of one source are the shortest history in which
evidence can be overtaken; one death leaves a container and directories behind.

`CHECK_DEADLOCK` is left on for the queue and its composition with the Plan, where enqueues and polls
keep the system from stopping. It is off elsewhere, because the bounds stop those systems: keys, identifiers,
requests and time run out.

**Fairness.** In `jobs` and `schedule_pause` the database clock runs (`WF(Tick)`), and each
worker polls on its interval and runs the claims it holds (`WF` of `ClaimDue` and `Work`): the interval
timer of `startWorker` and the loop of `poll` do exactly that. In `documents` the awaited promises
of reading, inspecting, converting and approving settle, each with some outcome: in the browser they are
local computations and a stub of the pipeline. In `rehearsal` digests and the in-memory application
answer, and the timer of a handoff fires. In `custody` PostgreSQL serves those who queue for a lock (`SF`
of the actions that take one, because others may hold it again and again), detects deadlocks, and
a purge and the steps of a live process go on. In `imports` each wait of a job has a timer in the code
and a container ends by its own time limit. Nothing is assumed of the Owner, of a claim's success,
of the scanner, or of crashes, which are free to happen as long as their bound lasts.

**Violated runs.**

* `identity_retry` accepts two commands and then repeats the first. The code
  compares the recorded result revision with the current one (`identity.ts:472`) and answers
  `STALE_SECURITY_REVISION`; `docs/security/IDENTITY_RECOVERY_CONTRACT.md:24` says that matching
  retries return `duplicate`. Nothing is applied twice either way: a client that lost an answer
  must look at the state to learn that its command was accepted.
* `plan_export` commits a command between two of the three statements of an export
  (`postgresPlan.ts:171`). The transaction is READ COMMITTED, so the snapshot's tables disagree and
  no store accepts it: the error is noticed at the restore, when the exported state may be gone.
  `store.contract.test.ts:434` demands a consistent snapshot during a write of the other stores. The part
  *postgres* of `plan` shows that such a snapshot is never restored.

**Other disagreements.** Definitions that state what a document or a call says, that no run checks, and
that TLC refutes when they are added to the named configuration:

* `ArmsOnlySettledDrafts` (`RehearsalSession`, `MCRehearsal.cfg`): `docs/product/NEXT_PHASE_3I_SIX.md:18` says
  that the tab does not arm a Draft around an unsettled file decision. `armReviewedDraft` looks for one before it
  awaits a new review (`Overview.tsx:349`), and not after.
* `Update!ChangedWorkIsConfirmed` (`UpdateHandoff`, `MCRehearsal.cfg`):
  `docs/product/NEXT_PHASE_3G_SIX.md:10` exempts an explicitly confirmed update only from the reload guard.
  An update of an unchanged tab needs no confirmation, and work begun while it is under way is reloaded with it
  (`UpdateNotice.tsx:279`).
* `Again!ApprovedByLastInspection` (`ImportIntake`, `MCImports.cfg`): `docs/adr/0012` counts stale evidence
  among what fails closed. A second inspection that ends otherwise does not withdraw the review that the first
  one allowed (`importIntake.ts:246`).
* `LiveRowsWereInspected` (`RestorePromotion`, `MCCustody.cfg`): a restore reads the mode and an empty store without
  a lock (`postgresOperations.ts:202`); the empty database is inspected and promoted; the restore commits, and its
  rows are live although no report covers them. `postgresRestore.ts:93` refuses a database that "changed after its
  invariant report was accepted", and `docs/research/PHASE_3_PRIMARY_SOURCES.md:186` has inspection precede
  promotion. `RecoveryIsSafe` says what holds all the same: what was inspected stays, and nothing else comes where no
  restore ran beside another one or an operator, as in `scripts/rehearse-backup.sh`.
* `RestoreIsOneSnapshot` without its `~overlapped` (`RestorePromotion`, `MCCustody.cfg`): two restores both count
  an empty store (`postgresOperations.ts:203`), and rows of both snapshots stay, although the call demands empty
  tables (`postgresOperations.ts:212`). `RestoresAreWhole` says what is left of it: each is there whole or not at
  all, and none is added to a physical restore.

**Mutants.** Each property is paired in `PROJECT.json` with a plausible fault of the
code, written as an operator beside the one it changes (comments starting with "Fault"), that makes the property
fail in the same run.

## 4. Proofs

Eight modules hold theorems. Each is proved for every value of the constants that its assumption
allows: any number of keys, requests, sessions, jobs, workers, credentials, processes, records, Envelopes, files, and
any bound on what TLC counts. Where a module states its assumption with `ASSUME` the theorem needs no hypothesis;
where the module is instantiated (`Plan` and `PlanApplication` in `PlanProofs`, `BackupChain` and
`RestorePromotion` in `CustodyProofs`, `DocumentHistory`) or is run with several sets of constants (`KeyRotation`)
the assumption is the hypothesis of each theorem, and where it is a definition an `ASSUME` of `MCPlan`, `MCCustody` or `MCDocumentWorkspace` for each instance.
Every inductive invariant follows one scheme: `Init => IInv`, one lemma per action for
`IInv /\ [Next]_vars => IInv'`, and `IInv` implies what is claimed. Modules that share no variable may share a
module of proofs.

**`PlanProofs`**, the Plan (`PolicyAssumption`: what `validatePolicy` enforces).

* `TypeCorrect`: `Spec => []TypeOK`. The lemmas `CreateCycleType`, `RecordType` and `CancelledType` carry the
  parts that all commands share.
* `TimelineIsConsistent`: the inductive invariant is `TypeOK /\ TimelineConsistent`. Typing is needed
  because the stage's floor is compared with times; the conjunct about the stored deadlines is what makes the
  floor of the next stage the moment that the command was compared with.
* `PlanKeepsThePromise`: `Spec => KeepsThePromise`, the refinement of `ContinuityTimeline`. Arming, resuming and
  a Check-in map to `Renew`, pausing to `Suspend`, disabling to `Retire`, an advance to `Escalate` or `Hear`.
  It needs `TimelineConsistent`: the code compares with a stored deadline, the promise with the start
  of the cycle plus a delay.
* `DisabledForGood`: a disabled Plan keeps its lifecycle, timeline and history.
* `EveryEscalationIsEarned`, `EveryConcernIsSettled`: what the whole history says. The two properties search
  and count in it, so they are not inductive. `HistoryInv` reads the history as a walk (`InOrder`): each event is
  allowed by what stands before it, and the end of the walk is where the Plan is (the last renewal is the
  start of the cycle, the open Concern is the current one, an armed Plan's history ends armed).
* `CommandsStepOnce`: what one command may do: the part of `CommandsRunOnce` that is about `Plan`.

**`PlanProofs`**, the queue (`QueueAssumption`).

* `QueueSound`: rows stay readable, one holder at most may settle a job, superseded claims decide
  nothing, and a completed notice was delivered with the payload that was enqueued. The invariant adds that a job
  and a number name one holder (`ClaimsAreUnique`): a claim takes the next number, and none that is still held is above the
  job's (`ClaimsAreFenced`), so a holder whose claim was superseded can never again be the current one.
  `ReceiptsAreTrue` is what a repeated delivery is compared with.
* `QueueSettles`: a settled job stays as it is, and an expired lease moves only by a newer claim or to the dead
  letters.

**`PlanScheduleProofs`** (`ScheduleAssumption`).

* `AnArmedPlanIsScheduled`, `TheScheduleIsSound`, `TheOutboxMatches`, `NoConcernWhilePresent`. The steps of the
  Plan and of one job are those of `PlanProofs`, cited through INSTANCE. What the
  composition adds is in `IInv`: a row is the job that its identifier stands for, untouched before it was due
  (`JobsFit`); no advance is queued for a stage that the Plan has not reached (`NoneAhead`); only the command
  that began an armed Plan's cycle may carry a time later than the database's (`ClockKept`); a job is completed
  exactly when its command is in the Plan (`AdvanceSettledWithPlan`); no renewal is later than the start of
  the cycle (`RenewalsArePast`). The chain of jobs would break where the Plan asks for a job whose identifier is
  used up. `NoneAhead` excludes it for a cycle that begins at a new time. A cycle may begin at the captured time
  of the one before it, however late its request commits: then the row is not a completed one, because what was
  completed in that cycle is behind (`SpentIsBehind`), and if it was retired as stale the Plan was paused after the
  cycle began (`CycleHasBegun`), at that same time, because accepted times never go back. That case is real, and
  the property names it (`PausedAsItBegan`; see section 5).

**`PlanProofs`**, the application on its store (`ApplicationAssumption`).

* `CommandsAreAuthorized`, `TheTablesAgree`, `AnswersStayTrue`, `WhatIsRestoredWasCommitted`: whatever the
  domain decides, and however the waits for a row are ordered. The invariant says that what a request captured of its
  session still holds when its turn comes (`Captured`), that the processed commands, the audit and the log of
  commits follow the Plan's row (`Following`), and that what an export has read was once the Plan and that
  a restored snapshot agrees with itself (`Exported`).
* `OneStepExportsAreConsistent` assumes `~Statements`, the embedded stores; for PostgreSQL `plan_export` refutes it.

**`OwnerIdentityProofs`** (`PolicyAssumption`, `StoreAssumption`).

* `StoreIsCoherent`, `StoreTerminalIsFinal`: of the proof store alone, whatever its caller presents, cancels and
  issues, with a database clock that may be set back.
* `OwnerStaysBacked`: there is always an active credential, and no live session of a revoked one.
* `RecordsAgree`: a pending recovery and its attempt agree, in both directions: the identity's part of
  `RecordsMatchProofs`.
* `AttemptsEndForGood`: the finality of attempts inside the identity's transactions.
* `IdentityKeepsAuthority`: `Spec => KeepsAuthority`, the refinement of `OwnerAuthority`. It needs
  `DeadlinesAreThePolicys`: the code compares with a stored `readyAt` or `expiresAt`, the promise with the start of
  the recovery, of the channel change or of the session, plus the policy's delay.
* `GuessesStayLimited`, `RecoveriesStayLimited`: guesses are counted over all attempts and slowed down, by the store's
  callers and by the identity's commands. The failures are counted as a set of pairs (`Recorded`), so that one more
  failure adds one element and no sum has to be taken apart, and the bound of the locks is a recursive function
  (`Doubled`, `LockedTime`), of which only one step at a time is needed. `CountInv` says that as many failures as
  there are have left a lock that ends no earlier than the locks of that many failures in a row, each begun
  when the one before it ended (`LocksHold`); the next failure is recorded only after that.

**`WebAuthnProofs`** (`CeremonyAssumption`).

* `ClonesNoticed`: requests read a counter and write it in two statements. `CountInv` says that whoever has written
  a count, a request under way or a session, is alone in having written it, and that the credential has
  reached it; the next count to be written was verified against the one its statement compares with.
* `CeremoniesAreUsedOnce`: `CeremonyInv` says that a consumed ceremony is in the hands of one request, which may
  hold its proof, or has become a session, and never two of these, and that each clock that was read came before the end
  of what it was compared with.
* `EnrolmentAuthorized`: `EnrolInv` counts: each authentication made for an enrolment is behind one request, one
  unanswered ceremony or one credential, never behind two, and only the bootstrap's is behind none.

**`IdentityDocumentProofs`**: two runs, composed of parts that `OwnerIdentityProofs` and `DocumentProofs` speak of.

* `RecordsKeepMatching`, `GuessesKeepTheirLimit`: `RecordsMatchProofs` and `GuessesAreLimited` of the run `identity`,
  with numbers for credentials (`CredentialIds \subseteq Nat \ {0}`).
* `WorkspacesStaySound`, `VersionsStayHistories`, `EditsStayUndoable`, `ReviewsStayDecided`: `WorkspaceIsSound`,
  `HistoriesAreKept`, `ChangesCanBeUndone` and `FilesAreReviewed` of the run `documents`.

**`CustodyProofs`.** Its three modules share no variable.

* `TypeCorrect`, `WritesAreKept`, `AnswersStayTrue`, `RotationIsOneStep` (`RotationAssumption`): writers,
  deletions, a purge and rotations interleave statement by statement. `RowsAreHeld`, `DoomedAreHeld` and `IdsAreHeld` say which
  transaction holds which lock, that a rotation's rows are still as it read them, and that its id has no report;
  `Stages` what it has selected and rewrapped at each step; `Fresh` that every write has a content of its own.
* `EveryoneReads` adds `ProcedureAssumption`: rings are handed out in order, a key is written under only once
  everyone holds it, and dropped only after a rotation to the last key that began when nobody wrote under it any
  more. `Procedure` says that everyone holds the key of every record, of every writer and of every rotation's
  target, that such a rotation sees every record that is not under the last key (`CleanSeesAll`), and that none is
  left when the old key may go (`RetirableIsClean`).
* `BackupTypeCorrect`, `TheChainIsLinked`, `BackupAnswersStayTrue`, `OneStaysRestorable`, `TheHistoryIsKept`
  (`BackupAssumption`): while processes back up, retire, fail and die between any two calls. `Chain` says that a signed manifest
  continues a generation of the inventory and names it as its parent, that an entry names a signed manifest of its place,
  stored as long as the entry is retained, and that the last one is. `CallsHold` says that what the holder of the
  lock has read and checked is still the inventory, and that its `.next` file extends it; `LockIsHeld` that nobody
  else updates meanwhile, and `ManifestsAreOwn` that no two calls register one manifest, nor one already answered.
* `RestoreTypesAreKept`, `DatabasesChangeAtOnce`, `PromotionAnswersAreRecorded`
  (`RestoreAssumption`): for any number of migrators, applications, restores and promotions, interrupted at any
  statement. A migration under way carries the ledger, and with it the schema, that its commit will leave, and it
  extends the committed one while it holds the lock (`MigrationsExtend`); an application runs only on what it has verified
  (`AppsAreVerified`); one promotion at most is in its transaction, on a restore-safe database, under an
  identifier that is not on record (`PromotionIsNew`).
* `RestoredRowsAreAccountedFor`, from the same assumption and for restores that overlap in any way: `RowsAreRead` says
  that what a promotion has read is still there when it commits, and coherent; `RowsAreWhole` that the rows are
  those of whole snapshots, or of one dump and then nobody restores; `RestoresAreAlone` that, unless restores have
  overlapped, who restores is alone in an empty restore-safe database and a promotion has read all there is.

**`DocumentProofs`** (`WorkspaceAssumption`, `HistoryAssumption`).

* `HistoriesStayValid`, `RestoresKeepBoth`: of a history by itself, at any retention limit. `IsHistory` is what
  `validateHistory` accepts. The lemmas say what `SaveVersion`, `PreserveRestoreTarget` and the sort do to a list
  whose numbers fall: dropping the last leaves them falling, and the version that is brought back is one of those kept.
* `WorkspaceInvariant`: `Spec => []Inv`, one lemma per handler and per answer. `EnvelopesInv` says that what undo and
  redo can bring back fits its Envelope as well; `VersionsInv` that a reviewed restore is still one its history allows
  (every handler that makes it out of date drops it); `ReviewsInv` that the turn of a file operation, what is awaited
  and the approval under way agree, and that what belongs to an earlier rehearsal is told by its revision;
  `WorkInv` that there is no work where nothing guards it.
* `EnvelopesStaySound`, `EditsCanBeUndone`, `FilesStayReviewed`: what the run checks of the workspace, from `Inv`.
* `VersionsAreHistories`: the versions of each Envelope implement `DocumentHistory`, until a fresh rehearsal begins
  with an empty one. A restore that is planned in one handler and carried out in another is the single step of the
  history because nothing between the two leaves the plan as it was (`VersionsInv`).

**`PlanCustodyProofs`**: two runs, composed of parts that `PlanProofs` and `CustodyProofs` speak of.

* `PlanTypeCorrect`, `PlanTimelineIsConsistent`, `ThePlanKeepsThePromise`, `PlanDisabledForGood`,
  `PlanEscalationsAreEarned`, `PlanConcernsAreSettled`, `PlanCommandsStepOnce`: what `PlanProofs` proves of an
  instance of `Plan`, for the Plan of the run, still for every policy and every set of keys.
* `CommandsKeepRunningOnce`, `StoresStaySound`: `CommandsRunOnce` and `StoresAreSound` of the run `plan`.
* `RotationsStaySafe`, `RecoveryStaysSafe`, `ChangesStayAtomic`: `RotationsAreSafe`, `RecoveryIsSafe` and
  `ChangesAreAtomic` of the run `custody`, from what `CustodyProofs` says of its parts.

A property of a run that joins parts is proved in three steps: the constants that the run gives a part satisfy the
part's assumption; a step of the run is a step of one part and leaves the others alone (`...Starts`, `...Moves`); and
the part's theorem, cited through INSTANCE with those constants, says of it what the run's property says.

**Model-checked only.**

* Liveness: `EveryJobEnds`, `SilenceIsNoticed`, `FilesSettle`, `RehearsalSettles`, `CustodyIsServed`,
  `CallsAndContainersEnd`. Fairness and ENABLED are out of the prover's reach.
* The imports, the rehearsal, its tabs and updates: `ApprovalsAreBound`, `RunsAreContained`, `ReviewsAreSound`,
  `ArmedWasRehearsed`, `TabsAgree`.
* That no theorem is about a particular number: the runs show what happens at the bounds (a full history, the last
  attempt, the last number), the theorems that it does not matter where these lie.

## 5. What the models assume

* The database clock does not step backwards, except where `RecoveryProofs` lets it; the clocks of API and
  workers may differ from it by the given skews. A clock stepped back between a claim and its
  transaction could complete an advance under an expired lease (`postgresPlan.ts:441`).
* A ref of `DocumentWorkspace` is taken to agree with the state. It follows in an effect
  (`DocumentWorkspace.tsx:256`), so a handler that React runs between a commit and its passive effects would read
  the Envelopes of the render before; the model has no such handler.
* `storage.removeItem` succeeds. Where a browser lets a page write a receipt and not remove it
  (`updateHandoffReceipt.ts:125`), the receipt of a finished or abandoned update is shown once more; the code
  says that it is left without content, and `RecordsMeanHandoffs` does not hold there.
* A PostgreSQL transaction is atomic. On one Plan transactions are serial by its row lock, those of the
  Owner identity by their advisory lock; those of `KeyRotation` and `RestorePromotion` interleave.
* The keys of Owner requests and of scheduled commands never coincide (`ScheduleAssumption`): both are
  `cmd_` with a SHA-256 digest, of differently composed inputs (`application.ts:318`, `postgresPlan.ts:499`).
* There are finitely many records, and a process or rotator is not called like a mark of the models (a free or a
  stale lock, the purger, no record): `BackupAssumption`, `RotationAssumption`, `ApplicationAssumption`.
* A table and a dump have finitely many rows and promotions, the rows that applications write are none of a
  dump's or of a snapshot's, and an absent configuration is no configuration: `RestoreAssumption`.
* Normalising a title twice gives what normalising it once gives, demo drafts have titles that are accepted, and
  a file has a title and a text: `WorkspaceAssumption`.
* `ProcedureAssumption` of `KeyRotation` is the operators' procedure for a new key version, and nothing that the code
  enforces. Only `EveryoneReads` and the part *retirement* of `custody` assume it.
* There is one Owner. That a credential belongs to one Owner only, and that a failure of one Owner does
  not lock another, is not modelled.
* What the WebAuthn library verifies is genuine; secrets cannot be guessed, and two of them never
  have the same hash; a digest is its input; a signature is its signer's.
* Signed-in clients send what they like; a session's secret is known to its Owner alone.
* A migrator may be configured with any installation and mode; whichever first writes the row of a database
  decides it, so one that is configured as live and run on a restored database without a row makes it live
  without a promotion.

One hazard is listed without a property. A bootstrap whose process dies after enrolling leaves a
credential without an Owner (`identityApi.ts:254`), and nothing promises that this state is left.

Some things that look surprising are what the code does, and break no promise that its documents make:

* A request commits with the time that it captured, however long it took. A Plan that was paused in the very
  millisecond in which its cycle began, and is resumed by a request captured in that millisecond as well but committed after
  the reminder was due and its job retired as stale, asks for the identifier of that job again; `stageOutbox`
  takes the dead row for a staged one (`postgresPlan.ts:523`), and the armed Plan has no live job until the Owner
  acts. `ArmedPlanIsScheduled` names this case, and its proof shows that it is the only one.
* `initialize` stages no outbox: a Plan imported while armed has no job until the Owner acts.
* The proofs of a pending recovery may expire before it is completed, which leaves a recovery that can
  only be cancelled. A channel change that was pending survives a recovery, and still needs a recent session.
* The answer of a replaced runtime still reaches the application component (`App.tsx:388`).
* A background tab whose timers are held back is forgotten between its heartbeats; what is checked of presence
  excepts it.
* Two processes with rings of different providers can read only what their own ring wraps; the procedure is one
  provider's.
* A lock file or a `.next` file that is left behind stops backups until an operator removes it.
* A refused proof of a rootless runtime is kept until the process ends.
* A scanning daemon that reloads between its version and its verdict gives evidence of the older version.
* A restored dump may carry a promotion under an identifier that an operator uses again; the answer is then
  the recorded one or a refusal.

## 6. Not modelled, and the plan

Not modelled, and why:

* the export of the operations tables, which has the form of the Plan's (three statements) and would show the
  same, and the queue's in-memory and PGlite stores, which have the interface of the modelled one and run in one
  process;
* HTTP routing, cookies, CSRF, origins, rate limits, the browser session and the rehearsal's assets: they wrap
  the modelled calls, and what of them is state is a table of recent requests;
* navigation, the guide, downloads, focus, layout, the static site, scripts, container definitions;
* cryptography, the encryption of an archive, the WebAuthn library, the scanner and the converter beyond their
  outcomes, the walk over a converted document;
* the caches of the service worker, and what the notice says of the controller's identity after a reload;
* several Owners in one database.

Proofs still to be done: the bindings of `ImportIntake`, from preparation to approval; the reviews of
`RehearsalSession`; the containers of `ImportIsolation`.
