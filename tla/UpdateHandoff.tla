----------------------------- MODULE UpdateHandoff -----------------------------
(***************************************************************************)
(* The handoff of the open tabs to a new build (UpdateNotice.tsx,          *)
(* updateHandoffReceipt.ts, serviceWorkerIdentity.ts, sw.ts).  One worker  *)
(* controls all tabs, a newer one waits.  The Owner lets one tab update:   *)
(* it records what it expects in its own storage, asks the waiting worker  *)
(* to take over, and reloads itself when the controller has changed, which *)
(* every other tab is told of too.                                         *)
(*                                                                         *)
(* A worker is the build it carries.  The browser, its promises, timers    *)
(* and events are the environment: they come late, twice or never.         *)
(***************************************************************************)
EXTENDS Integers, FiniteSets

CONSTANTS
  Tabs,
  Active,                     \* bound: the others are only edited and reloaded
  MaxBuild, MaxAttempt        \* bounds

HandoffAssumption == Active \subseteq Tabs /\ {MaxBuild, MaxAttempt} \subseteq Nat

VARIABLES
  controller, waiting,        \* workers of the registration
  page,                       \* build of a tab's page
  work, review, action,       \* hasSessionWork, fileReviewPending, actionPending
  held,                       \* otherTabBlocksUpdate
  needRefresh,
  seen,                       \* the waiting worker as last rendered, and what it answered
  confirmationOpen,
  confirmed, updatePending, reloadRequested,      \* refs
  attempt, timer,             \* updateAttemptRef, the attempt its timer is for
  asking,                     \* attempts whose updateServiceWorker has not settled
  told,                       \* tabs still to be told of a controllerchange
  storage, receipt

session == <<work, review, action, held>>
decision == <<confirmationOpen, confirmed, updatePending, reloadRequested, attempt, timer, asking>>
notice == <<needRefresh, seen>>
workers == <<controller, waiting>>
vars == <<workers, page, session, notice, decision, told, storage, receipt>>

None == [none |-> TRUE]
NoWorker == 0
Unseen == [worker |-> NoWorker, status |-> "checking"]

\* A page of an earlier release left a record that names no target; that release
\* or this one was loaded next.
LegacyRecords == {[source |-> build] : build \in 0..1}
IsLegacy(record) == "target" \notin DOMAIN record

\* readUpdateHandoffReceipt
Outcome(record, build) ==
  IF IsLegacy(record) THEN (IF record.source = build THEN "unverified" ELSE "changed")
  ELSE IF record.target = build THEN "expected" ELSE "unexpected"
ReadReceipt(record, build) ==
  IF record = None THEN None
  ELSE [outcome |-> Outcome(record, build), record |-> record, build |-> build]

Init ==
  /\ controller = 1 /\ waiting = NoWorker
  /\ page = [t \in Tabs |-> 1]
  /\ work = [t \in Tabs |-> FALSE] /\ review = work /\ action = work /\ held = work
  /\ needRefresh = work /\ seen = [t \in Tabs |-> Unseen]
  /\ confirmationOpen = work /\ confirmed = work /\ updatePending = work
  /\ reloadRequested = work
  /\ attempt = [t \in Tabs |-> 0] /\ timer = attempt /\ asking = [t \in Tabs |-> {}]
  /\ told = {} /\ storage = [t \in Tabs |-> None]
  /\ \E record \in {None} \cup LegacyRecords :
       receipt = [t \in Tabs |-> IF t \in Active THEN ReadReceipt(record, 1) ELSE None]
-----------------------------------------------------------------------------
(* What the tab has to lose.  The dialog is modal: the page behind it is   *)
(* not changed while it is open.                                           *)

\* The effect that installs or removes the reload protection.
ProtectionEffect(t, changed, busy) ==
  confirmed' = [confirmed EXCEPT ![t] = (changed \/ busy) /\ @]

Change(t, changed, busy) ==
  /\ work' = [work EXCEPT ![t] = changed] /\ review' = [review EXCEPT ![t] = busy]
  /\ ProtectionEffect(t, changed, busy)
  /\ UNCHANGED <<workers, page, action, held, notice, confirmationOpen, updatePending,
                 reloadRequested, attempt, timer, asking, told, storage, receipt>>

Edit(t) == ~confirmationOpen[t] /\ ~work[t] /\ Change(t, TRUE, review[t])
PrepareFile(t) == ~confirmationOpen[t] /\ ~review[t] /\ Change(t, work[t], TRUE)
FilePrepared(t, changed) == review[t] /\ Change(t, work[t] \/ changed, FALSE)
FreshRehearsal(t) == action[t] /\ work[t] /\ Change(t, FALSE, FALSE)

OwnerAction(t, pending) ==
  /\ pending # action[t] /\ (pending => ~confirmationOpen[t])
  /\ action' = [action EXCEPT ![t] = pending]
  /\ UNCHANGED <<workers, page, work, review, held, notice, decision, told, storage, receipt>>

PeersChange(t) ==
  /\ held' = [held EXCEPT ![t] = ~@]
  /\ UNCHANGED <<workers, page, work, review, action, notice, decision, told, storage, receipt>>
-----------------------------------------------------------------------------
(* The waiting worker.                                                     *)

\* A worker of a newer build is installed, in the place of one that waits.
Deploy ==
  /\ waiting' \in (IF waiting = NoWorker THEN controller ELSE waiting) + 1..MaxBuild
  /\ UNCHANGED <<controller, page, session, notice, decision, told, storage, receipt>>

OfferInstalledWorker(t) ==
  /\ waiting # NoWorker /\ ~needRefresh[t]
  /\ needRefresh' = [needRefresh EXCEPT ![t] = TRUE]
  /\ seen' = [seen EXCEPT ![t] = [worker |-> waiting, status |-> "checking"]]
  /\ UNCHANGED <<workers, page, session, decision, told, storage, receipt>>

\* Any render looks who waits, and asks anew if it is another worker.
Render(t) ==
  /\ needRefresh[t] /\ seen[t].worker # waiting
  /\ seen' = [seen EXCEPT ![t] =
       [worker |-> waiting, status |-> IF waiting = NoWorker THEN "unavailable" ELSE "checking"]]
  /\ UNCHANGED <<workers, page, session, needRefresh, decision, told, storage, receipt>>

\* requestServiceWorkerIdentity: an answer, a malformed one or none in time.
WorkerIdentity(t) ==
  /\ needRefresh[t] /\ seen[t].worker # NoWorker /\ seen[t].status = "checking"
  /\ \E status \in {"identified", "unavailable"} : seen' = [seen EXCEPT ![t].status = status]
  /\ UNCHANGED <<workers, page, session, needRefresh, decision, told, storage, receipt>>

DismissNotice(t) ==
  /\ ~updatePending[t] /\ ~confirmationOpen[t] /\ (needRefresh[t] \/ receipt[t] # None)
  /\ needRefresh' = [needRefresh EXCEPT ![t] = FALSE]
  /\ receipt' = [receipt EXCEPT ![t] = None]
  /\ UNCHANGED <<workers, page, session, seen, decision, told, storage>>
-----------------------------------------------------------------------------
(* The Owner's decision.                                                   *)

\* recordUpdateHandoff
Record(t) == [source |-> page[t], target |-> seen[t].worker]

Distinct(t) ==
  seen[t].worker # NoWorker /\ seen[t].status = "identified" /\ seen[t].worker # page[t]

Begin(t) ==
  LET number == attempt[t] + 1 IN
  /\ attempt' = [attempt EXCEPT ![t] = number] /\ timer' = [timer EXCEPT ![t] = number]
  /\ confirmed' = [confirmed EXCEPT ![t] = TRUE]
  /\ reloadRequested' = [reloadRequested EXCEPT ![t] = FALSE]
  /\ updatePending' = [updatePending EXCEPT ![t] = TRUE]
  /\ asking' = [asking EXCEPT ![t] = @ \cup {number}]
  /\ storage' = [storage EXCEPT ![t] = Record(t)]

Refuse(t) ==
  /\ confirmationOpen' = [confirmationOpen EXCEPT ![t] = FALSE]
  /\ UNCHANGED <<confirmed, updatePending, reloadRequested, attempt, timer, asking, storage>>

ApplyUpdate(t) ==
  /\ ~action[t] /\ ~review[t] /\ ~updatePending[t]
  /\ \/ ~held[t] /\ Distinct(t) /\ attempt[t] < MaxAttempt /\ Begin(t)
        /\ UNCHANGED confirmationOpen
     \/ Refuse(t)                   \* held, not identified, or not recorded
  /\ UNCHANGED <<workers, page, session, notice, told, receipt>>

\* The button of the notice.
RequestUpdate(t) ==
  /\ needRefresh[t] /\ Distinct(t) /\ ~confirmationOpen[t]
  /\ ~action[t] /\ ~review[t] /\ ~updatePending[t] /\ ~held[t]
  /\ IF work[t]
     THEN /\ confirmationOpen' = [confirmationOpen EXCEPT ![t] = TRUE]
          /\ UNCHANGED <<workers, page, session, notice, confirmed, updatePending,
                         reloadRequested, attempt, timer, asking, told, storage, receipt>>
     ELSE ApplyUpdate(t)

ConfirmUpdate(t) == confirmationOpen[t] /\ ApplyUpdate(t)

KeepWorking(t) ==
  /\ confirmationOpen[t] /\ ~updatePending[t]
  /\ confirmationOpen' = [confirmationOpen EXCEPT ![t] = FALSE]
  /\ UNCHANGED <<workers, page, session, notice, confirmed, updatePending, reloadRequested,
                 attempt, timer, asking, told, storage, receipt>>
-----------------------------------------------------------------------------
(* The handoff.                                                            *)

\* restoreUpdateDecision of the current attempt
Restore(t) ==
  /\ updatePending' = [updatePending EXCEPT ![t] = FALSE]
  /\ attempt' = [attempt EXCEPT ![t] = @ + 1] /\ timer' = [timer EXCEPT ![t] = 0]
  /\ confirmed' = [confirmed EXCEPT ![t] = FALSE]
  /\ reloadRequested' = [reloadRequested EXCEPT ![t] = FALSE]
  /\ storage' = [storage EXCEPT ![t] = None]

IsCurrent(t, number) == attempt[t] = number

RestoreUpdateDecision(t, number) ==
  IF IsCurrent(t, number) THEN Restore(t)
  ELSE UNCHANGED <<updatePending, attempt, timer, confirmed, reloadRequested, storage>>

HandoffTimeout(t) ==
  /\ timer[t] # 0 /\ RestoreUpdateDecision(t, timer[t])
  /\ UNCHANGED <<workers, page, session, notice, confirmationOpen, asking, told, receipt>>

\* updateServiceWorker settles: the waiting worker, whoever that is by now,
\* takes over, or the promise is rejected.
SkipWaiting(t, number) ==
  /\ number \in asking[t] /\ asking' = [asking EXCEPT ![t] = @ \ {number}]
  /\ IF waiting = NoWorker THEN UNCHANGED <<workers, told>>
     ELSE controller' = waiting /\ waiting' = NoWorker /\ told' = Tabs
  /\ UNCHANGED <<page, session, notice, confirmationOpen, confirmed, updatePending,
                 reloadRequested, attempt, timer, storage, receipt>>

UpdateRejected(t, number) ==
  /\ number \in asking[t] /\ asking' = [asking EXCEPT ![t] = @ \ {number}]
  /\ RestoreUpdateDecision(t, number)
  /\ UNCHANGED <<workers, page, session, notice, confirmationOpen, told, receipt>>

\* pageshow: the page that was left for a reload is back.
TabReturned(t) ==
  /\ confirmed[t] /\ updatePending[t] /\ RestoreUpdateDecision(t, attempt[t])
  /\ UNCHANGED <<workers, page, session, notice, confirmationOpen, asking, told, receipt>>

ReloadsItself(t) == confirmed[t] /\ updatePending[t] /\ ~reloadRequested[t]

ControllerChange(t) ==
  /\ t \in told /\ told' = told \ {t}
  /\ reloadRequested' = [reloadRequested EXCEPT ![t] = @ \/ ReloadsItself(t)]
  /\ UNCHANGED <<workers, page, session, notice, confirmationOpen, confirmed, updatePending,
                 attempt, timer, asking, storage, receipt>>

\* protectSessionWork
Protects(t) == (work[t] \/ review[t]) /\ ~confirmed[t]

\* The page is loaded again, from what the controller has cached; its storage
\* is read and cleared, all else begins anew.
Load(t) ==
  /\ page' = [page EXCEPT ![t] = controller]
  /\ receipt' = [receipt EXCEPT ![t] = ReadReceipt(storage[t], controller)]
  /\ storage' = [storage EXCEPT ![t] = None]
  /\ work' = [work EXCEPT ![t] = FALSE] /\ review' = [review EXCEPT ![t] = FALSE]
  /\ action' = [action EXCEPT ![t] = FALSE] /\ needRefresh' = [needRefresh EXCEPT ![t] = FALSE]
  /\ seen' = [seen EXCEPT ![t] = Unseen]
  /\ confirmationOpen' = [confirmationOpen EXCEPT ![t] = FALSE]
  /\ confirmed' = [confirmed EXCEPT ![t] = FALSE]
  /\ updatePending' = [updatePending EXCEPT ![t] = FALSE]
  /\ reloadRequested' = [reloadRequested EXCEPT ![t] = FALSE]
  /\ attempt' = [attempt EXCEPT ![t] = 0] /\ timer' = [timer EXCEPT ![t] = 0]
  /\ told' = told \ {t}
  /\ UNCHANGED <<controller, waiting, held>>

\* A message already posted to the worker may arrive although its page, and with
\* it its attempt, is gone.
Messages(t) == IF asking[t] = {} THEN {} ELSE {MaxAttempt + 2}

ReloadPage(t) ==
  /\ reloadRequested[t] /\ ~Protects(t) /\ Load(t)
  /\ asking' = [asking EXCEPT ![t] = Messages(t)]

\* The Owner reloads, and agrees to lose the work where the browser asks.
OwnerReloads(t) == Load(t) /\ asking' = [asking EXCEPT ![t] = Messages(t)]

Handoff(t) ==
  \/ HandoffTimeout(t) \/ TabReturned(t) \/ ControllerChange(t) \/ ReloadPage(t)
  \/ \E number \in asking[t] : SkipWaiting(t, number) \/ UpdateRejected(t, number)

Next ==
  \/ Deploy
  \/ \E t \in Tabs : Edit(t) \/ Handoff(t) \/ OwnerReloads(t)
  \/ \E t \in Active :
       \/ PrepareFile(t) \/ FreshRehearsal(t) \/ PeersChange(t)
       \/ \E c \in BOOLEAN : FilePrepared(t, c) \/ OwnerAction(t, c)
       \/ OfferInstalledWorker(t) \/ Render(t) \/ WorkerIdentity(t) \/ DismissNotice(t)
       \/ RequestUpdate(t) \/ ConfirmUpdate(t) \/ KeepWorking(t)

Spec == Init /\ [][Next]_vars

\* The timer of the tab fires.
Fairness == \A t \in Tabs : WF_vars(HandoffTimeout(t))
-----------------------------------------------------------------------------
(* Properties.                                                             *)

TypeOK ==
  /\ controller \in 1..MaxBuild /\ waiting \in {NoWorker} \cup controller + 1..MaxBuild
  /\ \A t \in Tabs :
       /\ page[t] \in 1..controller /\ held[t] \in BOOLEAN
       /\ timer[t] \in {0, attempt[t]} /\ (updatePending[t] <=> timer[t] # 0)
       /\ confirmed[t] => updatePending[t]
       /\ reloadRequested[t] => updatePending[t]

\* Changed work and files in preparation are guarded against a reload at every
\* moment that no update of this tab is under way, however an earlier one ended.
WorkIsProtected == \A t \in Tabs : (work[t] \/ review[t]) /\ ~updatePending[t] => Protects(t)

\* There is a record to be read by the next page exactly while an update is under
\* way, so no later reload reports on one that was given up.
RecordsMeanHandoffs == \A t \in Tabs : storage[t] # None <=> updatePending[t]

\* The receipt never says "expected" of a build that is not the one that had
\* identified itself, and names two different builds, even if a newer worker took
\* the place of the one the Owner was shown; a record that names no target is
\* never taken for the proof of one.
ReceiptsAreTrue ==
  \A t \in Tabs : receipt[t] # None =>
    LET record == receipt[t].record IN
    /\ receipt[t].build = page[t]
    /\ receipt[t].outcome \in {"expected", "unexpected"} <=> ~IsLegacy(record)
    /\ ~IsLegacy(record) =>
         /\ record.source # record.target
         /\ receipt[t].outcome = "expected" <=> record.target = page[t]
    /\ receipt[t].outcome = "changed" => record.source # page[t]

\* A tab reloads by itself only while it is being updated; the controllerchange
\* that another tab caused is not enough.
OnlyUpdatedTabsReload ==
  \A t \in Tabs : ~reloadRequested[t] /\ reloadRequested'[t] => updatePending[t]

\* docs/product/NEXT_PHASE_3G_SIX.md:10 says that a "changed rehearsal installs a
\* scoped beforeunload guard; untouched state and an explicitly confirmed update
\* do not": whatever has changed is reloaded after an explicit confirmation only.
ChangedWorkIsConfirmed ==
  [][\A t \in Tabs : ReloadPage(t) /\ work[t] => confirmationOpen[t]]_vars
=============================================================================
