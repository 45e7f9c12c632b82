----------------------------- MODULE MCRehearsal ------------------------------
(***************************************************************************)
(* The rehearsal in the browser, small enough for TLC.  One behaviour      *)
(* moves one part:                                                         *)
(*   "session"  one tab's rehearsal (the .cfg's constants), whose document *)
(*              goes to a Recipient or to nobody among the contacts;       *)
(*   "settle"   the same with fewer drafts, to see that every action ends;  *)
(*   "review"   a review of one of many inputs, which then changes;        *)
(*   "peers"    what two tabs tell each other, one with throttled timers;  *)
(*   "update"   a tab that is updated to newer builds beside another.      *)
(***************************************************************************)
EXTENDS RehearsalSession

CONSTANTS t1, t2

VARIABLES
  part,
  input, reviewed, seenInput,                            \* MCDraftRehearsal
  phase, state, peers, inbox, beaten, changes,           \* RehearsalPeers
  controller, waiting, page, work, review, action, held, \* UpdateHandoff
  needRefresh, seen, confirmationOpen, confirmed, updatePending, reloadRequested,
  attempt, timer, asking, told, storage, receipt

reviewVars == <<input, reviewed, seenInput>>
peerVars == <<phase, state, peers, inbox, beaten, changes>>
updateVars == <<controller, waiting, page, work, review, action, held, needRefresh,
                seen, confirmationOpen, confirmed, updatePending, reloadRequested,
                attempt, timer, asking, told, storage, receipt>>
allVars == <<part, vars, reviewVars, peerVars, updateVars>>

---------------------------------------------------------------------------
MCLabels == {"recipient", "other", "guardian", ""}
MCTrim == [l \in MCLabels |-> l]
MCCanonical == "title" :> "title"
MCContents ==
  [document : [title : {"title"}, recipientLabel : {"recipient", "other"}],
   attachmentSourceIds : {<<>>}]
MCDemoContents ==
  << [document |-> [title |-> "title", recipientLabel |-> "recipient"],
      attachmentSourceIds |-> <<>>] >>
MCContacts ==
  << [contactId |-> "g", label |-> "guardian", role |-> "Guardian",
      status |-> "synthetic_verified"],
     [contactId |-> "r", label |-> "recipient", role |-> "Recipient",
      status |-> "synthetic_verified"] >>
MCPolicy == [checkInIntervalMs |-> 3, reminderLeadMs |-> 1, gracePeriodMs |-> 1]

Settling == INSTANCE RehearsalSession WITH
  Contents <- {content \in MCContents : content.document.recipientLabel = "recipient"}

\* Label 2 is label 1 with space around it, label 0 is space; title 0 is empty,
\* title 2 is title 1 before it is normalised.
Reviews == INSTANCE MCDraftRehearsal WITH
  Labels <- 0..3, Titles <- 0..2, Attachments <- {1, 2}, seen <- seenInput,
  Trim <- [l \in 0..3 |-> IF l = 2 THEN 1 ELSE l], Blank <- 0, Canonical <- <<1, 1>>,
  MaxContacts <- 2, MaxEnvelopes <- 2, MaxAttachments <- 2,
  MaxAttachmentsPerEnvelope <- 2, MaxInteger <- 5

Quiet == [actionPending |-> FALSE, fileReviewPending |-> FALSE, hasSessionWork |-> FALSE]
Peers == INSTANCE RehearsalPeers WITH
  Tabs <- {t1, t2}, Throttled <- {t2}, Expiry <- 1,
  States <- {Quiet, [Quiet EXCEPT !.hasSessionWork = TRUE],
             [Quiet EXCEPT !.fileReviewPending = TRUE]},
  MaxInbox <- 2, MaxChanges <- 1

Update == INSTANCE UpdateHandoff WITH
  Tabs <- {t1, t2}, Active <- {t1}, MaxBuild <- 3, MaxAttempt <- 2

ASSUME Settling!SessionAssumption
ASSUME Reviews!RehearsalAssumption
ASSUME Peers!PeersAssumption
ASSUME Update!HandoffAssumption

---------------------------------------------------------------------------
MCInit ==
  /\ part \in {"session", "settle", "review", "peers", "update"}
  /\ Init /\ Peers!Init /\ Update!Init
  /\ part # "update" => receipt[t1] = Update!None
  /\ IF part = "review" THEN Reviews!Init
     ELSE input = None /\ reviewed = None /\ seenInput = None

MCNext ==
  /\ \/ part = "session" /\ Next /\ UNCHANGED <<reviewVars, peerVars, updateVars>>
     \/ part = "settle" /\ Settling!Next /\ UNCHANGED <<reviewVars, peerVars, updateVars>>
     \/ part = "review" /\ Reviews!Next /\ UNCHANGED <<vars, peerVars, updateVars>>
     \/ part = "peers" /\ Peers!Next /\ UNCHANGED <<vars, reviewVars, updateVars>>
     \/ part = "update" /\ Update!Next /\ UNCHANGED <<vars, reviewVars, peerVars>>
  /\ UNCHANGED part

\* Digests and the in-memory application answer, and a tab's timer fires.
MCFairSpec ==
  /\ MCInit /\ [][MCNext]_allVars
  /\ \A step \in {"review", "accept", "arm", "execute"} :
       WF_vars(/\ part = "settle"
               /\ \E op \in awaiting : op.step = step /\ Settling!Settle(op))
  /\ WF_updateVars(part = "update" /\ Update!HandoffTimeout(t1))

---------------------------------------------------------------------------
(* What must hold; see the four modules for each of these.                 *)

\* What is accepted is what was reviewed, it can be carried out and its
\* timeline rises (acceptDraftRehearsalReview); only such a draft is recorded
\* as rehearsed, however it changes while its review is open.
ReviewsAreSound ==
  /\ part = "session" => TypeOK /\ RehearsedWasReady
  /\ part = "review" =>
       /\ Reviews!AcceptedAsReviewed /\ Reviews!CompletedCanBeCarriedOut
       /\ Reviews!TimelinesRise

\* Two tabs agree.  With nothing on the way between them each holds its
\* destructive actions exactly when the other has something to lose; through
\* dismissals, timeouts, a newer worker and the other tab's update, the record,
\* the protection and the receipt of an update are its own; and a tab that is
\* not being updated does not reload because the other one is.
TabsAgree ==
  /\ [](part = "peers" => Peers!TypeOK /\ Peers!PresenceAgrees)
  /\ [](part = "update" =>
          /\ Update!TypeOK /\ Update!WorkIsProtected
          /\ Update!RecordsMeanHandoffs /\ Update!ReceiptsAreTrue)
  /\ [][Update!OnlyUpdatedTabsReload]_updateVars

\* Nothing stays "being recorded", and an update that is under way ends.
RehearsalSettles ==
  /\ part = "settle" /\ inFlight # None ~> inFlight = None
  /\ part = "settle" /\ completing ~> ~completing
  /\ part = "update" /\ updatePending[t1] ~> ~updatePending[t1]
=============================================================================
