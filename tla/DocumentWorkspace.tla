-------------------------- MODULE DocumentWorkspace --------------------------
(***************************************************************************)
(* The Envelope workspace (DocumentWorkspace.tsx) of one browser tab: the  *)
(* Owner edits drafts, undoes and redoes, keeps versions, and has files    *)
(* reviewed before they become an editable copy or attachments.            *)
(*                                                                         *)
(* A handler runs to completion and its effects are flushed before the     *)
(* next event, so it is one action and the refs agree with the state.      *)
(* What a handler awaits (reading, inspecting, converting, approving) ends *)
(* in an action of its own, any number of events later; the checks between *)
(* two awaits only return early and are made once, at the last of them.    *)
(* A modal restore dialog need not stop the other handlers here, as where  *)
(* showModal is missing it does not.                                       *)
(*                                                                         *)
(* The workspace is mounted anew by a fresh rehearsal.  What was awaited   *)
(* then resumes with the refs of the old one, in which the session ended.  *)
(***************************************************************************)
EXTENDS Integers, Sequences

CONSTANTS
  Envelopes, Titles, Markdowns, Recipients,
  Canonical,          \* valid title -> normalised title
  DemoDrafts,         \* envelope -> the draft a rehearsal begins with
  Sources,            \* what a text file imports as: a title and a Markdown
  Files, Size,        \* attachments, by content, and their sizes
  MaxAttachments, MaxAttachmentTotalBytes, MaxUndoSteps,
  MaxVersions, MaxNext,       \* DocumentHistory
  MaxRequests, MaxSessions    \* bounds: file operations, rehearsals

ASSUME WorkspaceAssumption ==
  /\ DOMAIN Canonical \subseteq Titles /\ Size \in [Files -> Nat]
  /\ \A t \in DOMAIN Canonical :
       Canonical[t] \in DOMAIN Canonical /\ Canonical[Canonical[t]] = Canonical[t]
  /\ DemoDrafts \in [Envelopes -> [title : DOMAIN Canonical, recipient : Recipients,
                                   markdown : Markdowns]]
  /\ Sources \subseteq [title : Titles, markdown : Markdowns]
  /\ MaxAttachments \in Nat /\ MaxAttachmentTotalBytes \in Nat
  /\ MaxUndoSteps \in Nat \ {0} /\ MaxSessions \in Nat \ {0}

VARIABLES
  envelopes,            \* envelope -> draft, imported source, attachments
  edits,                \* envelope -> past and future snapshots
  versions,             \* envelope -> DocumentHistory
  pendingRestore,       \* the reviewed restore, or None
  pendingImports,       \* envelope -> the reviewed import, or None
  pendingAttachments,   \* envelope -> the reviewed attachments, or None
  fileOperation,        \* activeFileOperationRef
  approving,            \* approvingImportRequestRef
  awaited,              \* file operations and approvals still to resume
  requests,             \* fileOperationSequenceRef
  selected, sessionEnded, revision,
  sessionWork           \* hasSessionWork: leaving the page is to be confirmed

drafts == <<envelopes, edits, versions>>
content == <<drafts, sessionWork>>
reviews == <<pendingImports, pendingAttachments, fileOperation, approving, requests>>
workspaceVars == <<content, pendingRestore, reviews, awaited, selected, sessionEnded, revision>>

None == [none |-> TRUE]
Documents == [title : {Canonical[t] : t \in DOMAIN Canonical},
              recipient : Recipients, markdown : Markdowns]
Drafts == [title : Titles, recipient : Recipients, markdown : Markdowns]
Snapshots == [draft : Drafts, source : Sources \cup {None}, attachments : Seq(Files)]

\* createEditableDocument, which throws where the title is not valid.
HasDocument(draft) == draft.title \in DOMAIN Canonical
Document(draft) == [draft EXCEPT !.title = Canonical[@]]

\* What the history of an envelope sees of its draft; a draft that is no
\* document cannot be saved or restored over, so any will do for it.
History(e) == INSTANCE DocumentHistory WITH
  current <- IF HasDocument(envelopes[e].draft) THEN Document(envelopes[e].draft)
             ELSE CHOOSE document \in Documents : TRUE,
  history <- versions[e]
H == INSTANCE DocumentHistory WITH current <- 0, history <- 0

Bytes(attachments) ==
  LET total[n \in 0..Len(attachments)] ==
        IF n = 0 THEN 0 ELSE total[n - 1] + Size[attachments[n]]
  IN total[Len(attachments)]
FilesOf(attachments) == {attachments[i] : i \in DOMAIN attachments}

\* A demo envelope has a draft and nothing attached.
Baseline(draft) == [draft |-> draft, source |-> None, attachments |-> <<>>]

DemoEnvelopes == [e \in Envelopes |-> Baseline(DemoDrafts[e])]

NoEdits == [e \in Envelopes |-> [past |-> <<>>, future |-> <<>>]]
NoVersions == [e \in Envelopes |-> H!EmptyHistory]
NoReviews == [e \in Envelopes |-> None]

WorkspaceInit ==
  /\ envelopes = DemoEnvelopes
  /\ edits = NoEdits /\ versions = NoVersions /\ pendingRestore = None
  /\ pendingImports = NoReviews /\ pendingAttachments = NoReviews
  /\ fileOperation = None /\ approving = None /\ requests = 0
  /\ awaited = {} /\ selected \in Envelopes /\ sessionEnded = FALSE /\ revision = 1
  /\ sessionWork = FALSE
-----------------------------------------------------------------------------
(* Editing.                                                                *)

\* rejectEndedSessionMutation
Changeable == ~sessionEnded

LastOf(seq, n) == IF Len(seq) <= n THEN seq ELSE SubSeq(seq, Len(seq) - n + 1, Len(seq))

\* Fault: the snapshot is not taken.
RecordNothing(e) == [past |-> edits[e].past, future |-> <<>>]

Record(e) ==
  [past |-> LastOf(Append(edits[e].past, envelopes[e]), MaxUndoSteps),
   future |-> <<>>]

UpdateEnvelope(e, envelope) ==
  /\ Changeable
  /\ edits' = [edits EXCEPT ![e] = Record(e)]
  /\ envelopes' = [envelopes EXCEPT ![e] = envelope]
  /\ sessionWork' = TRUE

\* Typing, formatting and choosing a recipient.
EditDraft(draft) ==
  /\ UpdateEnvelope(selected, [envelopes[selected] EXCEPT !.draft = draft])
  /\ UNCHANGED <<versions, pendingRestore, reviews, awaited, selected,
                 sessionEnded, revision>>

UndoEdit ==
  LET h == edits[selected] IN
  /\ Changeable /\ h.past # <<>>
  /\ edits' = [edits EXCEPT ![selected] =
                 [past |-> SubSeq(h.past, 1, Len(h.past) - 1),
                  future |-> <<envelopes[selected]>> \o h.future]]
  /\ envelopes' = [envelopes EXCEPT ![selected] = h.past[Len(h.past)]]
  /\ UNCHANGED <<versions, pendingRestore, reviews, awaited, selected,
                 sessionEnded, revision, sessionWork>>

RedoEdit ==
  LET h == edits[selected] IN
  /\ Changeable /\ h.future # <<>>
  /\ edits' = [edits EXCEPT ![selected] =
                 [past |-> Append(h.past, envelopes[selected]),
                  future |-> Tail(h.future)]]
  /\ envelopes' = [envelopes EXCEPT ![selected] = Head(h.future)]
  /\ UNCHANGED <<versions, pendingRestore, reviews, awaited, selected,
                 sessionEnded, revision, sessionWork>>

SaveDocumentVersion ==
  LET draft == envelopes[selected].draft IN
  /\ Changeable /\ HasDocument(draft)
  /\ H!CanSave(versions[selected], Document(draft))
  /\ versions' = [versions EXCEPT
                    ![selected] = H!SaveVersion(@, Document(draft))]
  /\ sessionWork' = TRUE
  /\ UNCHANGED <<envelopes, edits, pendingRestore, reviews, awaited, selected,
                 sessionEnded, revision>>

ReviewDocumentRestore(number) ==
  LET draft == envelopes[selected].draft IN
  /\ Changeable /\ HasDocument(draft)
  /\ H!CanRestore(versions[selected], Document(draft), number)
  /\ pendingRestore' = [envelope |-> selected, document |-> Document(draft),
                        history |-> versions[selected], number |-> number]
  /\ UNCHANGED <<content, reviews, awaited, selected, sessionEnded, revision>>

\* Fault: the restore goes through whatever happened since its review.
RestoreAnyway == selected = pendingRestore.envelope

\* Whether the draft and the history are still those that were reviewed.
RestoreIsCurrent ==
  LET e == pendingRestore.envelope IN
  /\ selected = e
  /\ HasDocument(envelopes[e].draft)
  /\ Document(envelopes[e].draft) = pendingRestore.document
  /\ versions[e] = pendingRestore.history

\* The plan made at the review is a function of what was reviewed.
ConfirmDocumentRestore ==
  /\ pendingRestore # None
  /\ IF Changeable /\ RestoreIsCurrent
     THEN LET r == pendingRestore
              document == H!VersionOf(r.history, r.number).document
          IN /\ versions' = [versions EXCEPT ![r.envelope] =
                   H!RestoredHistory(r.history, r.document, r.number)]
             /\ UpdateEnvelope(r.envelope,
                  [envelopes[r.envelope] EXCEPT !.draft = document])
     ELSE UNCHANGED content
  /\ pendingRestore' = None
  /\ UNCHANGED <<reviews, awaited, selected, sessionEnded, revision>>

CancelDocumentRestore ==
  /\ pendingRestore # None /\ pendingRestore' = None
  /\ UNCHANGED <<content, reviews, awaited, selected, sessionEnded, revision>>

\* A file is attached once.
RemoveAttachment(file) ==
  LET attachments == envelopes[selected].attachments IN
  /\ \E i \in DOMAIN attachments : attachments[i] = file /\
       UpdateEnvelope(selected, [envelopes[selected] EXCEPT
                                   !.attachments = H!Without(attachments, i)])
  /\ UNCHANGED <<versions, pendingRestore, reviews, awaited, selected,
                 sessionEnded, revision>>

RestoreImportedSource ==
  LET envelope == envelopes[selected] IN
  /\ envelope.source # None /\ envelope.source.title \in DOMAIN Canonical
  /\ UpdateEnvelope(selected, [envelope EXCEPT !.draft.markdown = envelope.source.markdown])
  /\ UNCHANGED <<versions, pendingRestore, reviews, awaited, selected,
                 sessionEnded, revision>>
-----------------------------------------------------------------------------
(* Reviewing files.                                                        *)

CanBeginFileOperation ==
  /\ Changeable /\ fileOperation = None
  /\ pendingImports[selected] = None /\ pendingAttachments[selected] = None

\* Staging attachments measures them against those of the start.
BeginFileOperation(kind) ==
  /\ CanBeginFileOperation /\ requests < MaxRequests
  /\ requests' = requests + 1
  /\ fileOperation' = [kind |-> kind, envelope |-> selected,
       requestId |-> requests + 1, revision |-> revision,
       origin |-> IF kind = "attachment" THEN envelopes[selected].attachments ELSE <<>>]
  /\ awaited' = awaited \cup {fileOperation'}
  /\ UNCHANGED <<content, pendingRestore, pendingImports, pendingAttachments,
                 approving, selected, sessionEnded, revision>>

\* The refs of a workspace that was replaced say for ever that it ended.
EndedFor(awaiting) == awaiting.revision < revision \/ sessionEnded

IsCurrentFileOperation(op) ==
  /\ ~EndedFor(op)
  /\ fileOperation # None /\ fileOperation.requestId = op.requestId
  /\ fileOperation.envelope = op.envelope

Finish == fileOperation' = None

\* Fault: an operation that fails is not finished.
NotFinished == UNCHANGED fileOperation

FailedOperation == Finish

Resumed(op) == op \in awaited /\ awaited' = awaited \ {op}

\* The file was read, inspected and converted.
ImportPrepared(op, source) ==
  /\ op.kind = "import" /\ Resumed(op) /\ IsCurrentFileOperation(op)
  /\ pendingImports' = [pendingImports EXCEPT ![op.envelope] =
                          [requestId |-> op.requestId, source |-> source]]
  /\ sessionWork' = TRUE
  /\ Finish
  /\ UNCHANGED <<drafts, pendingRestore, pendingAttachments, approving, requests,
                 selected, sessionEnded, revision>>

Distinct(files) == \A i, j \in DOMAIN files : files[i] = files[j] => i = j

\* Each file that cannot be prepared, is there already, or is one too many is
\* left out with an error, so any candidates within the limits may result.
WithinLimits(origin, candidates) ==
  LET all == origin \o candidates IN
  /\ Len(all) <= MaxAttachments
  /\ Bytes(origin) + Bytes(candidates) <= MaxAttachmentTotalBytes
  /\ Distinct(candidates) /\ FilesOf(origin) \cap FilesOf(candidates) = {}

Candidates == UNION {[1..n -> Files] : n \in 1..MaxAttachments}

AttachmentsPrepared(op, candidates) ==
  /\ op.kind = "attachment" /\ Resumed(op) /\ IsCurrentFileOperation(op)
  /\ WithinLimits(op.origin, candidates)
  /\ pendingAttachments' = [pendingAttachments EXCEPT ![op.envelope] =
                              [requestId |-> op.requestId, candidates |-> candidates]]
  /\ sessionWork' = TRUE
  /\ Finish
  /\ UNCHANGED <<drafts, pendingRestore, pendingImports, approving, requests,
                 selected, sessionEnded, revision>>

\* Reading, inspection or conversion failed, or no file was fit to keep.
PreparationFailed(op) ==
  /\ op.kind # "approval" /\ Resumed(op) /\ IsCurrentFileOperation(op)
  /\ FailedOperation
  /\ UNCHANGED <<content, pendingRestore, pendingImports, pendingAttachments,
                 approving, requests, selected, sessionEnded, revision>>

PreparationDropped(op) ==
  /\ op.kind # "approval" /\ Resumed(op) /\ ~IsCurrentFileOperation(op)
  /\ UNCHANGED <<content, pendingRestore, reviews, selected, sessionEnded, revision>>

\* Fault: what was staged is kept without a second look at the envelope.
StillSelected(e, candidates) == TRUE

\* The envelope may have changed since its attachments were staged.
StillFit(e, candidates) == WithinLimits(envelopes[e].attachments, candidates)

ApprovePendingAttachments ==
  LET review == pendingAttachments[selected] IN
  /\ Changeable /\ review # None
  /\ IF StillFit(selected, review.candidates)
     THEN UpdateEnvelope(selected, [envelopes[selected] EXCEPT !.attachments =
                                      @ \o review.candidates])
     ELSE UNCHANGED <<envelopes, edits, sessionWork>>
  /\ pendingAttachments' = [pendingAttachments EXCEPT ![selected] = None]
  /\ UNCHANGED <<versions, pendingRestore, pendingImports, fileOperation, approving,
                 requests, awaited, selected, sessionEnded, revision>>

DiscardPendingAttachments ==
  /\ ~sessionEnded /\ pendingAttachments[selected] # None
  /\ pendingAttachments' = [pendingAttachments EXCEPT ![selected] = None]
  /\ UNCHANGED <<content, pendingRestore, pendingImports, fileOperation, approving,
                 requests, awaited, selected, sessionEnded, revision>>

BeginImportApproval ==
  LET review == pendingImports[selected] IN
  /\ Changeable /\ review # None /\ approving = None
  /\ approving' = [requestId |-> review.requestId]
  /\ awaited' = awaited \cup {[kind |-> "approval", envelope |-> selected,
       requestId |-> review.requestId, revision |-> revision, source |-> review.source]}
  /\ UNCHANGED <<content, pendingRestore, pendingImports, pendingAttachments,
                 fileOperation, requests, selected, sessionEnded, revision>>

\* Fault: the copy is made whatever the Owner is looking at by then.
ApprovalOfAny(op) == ~EndedFor(op)

ApprovalStands(op) == ~EndedFor(op) /\ selected = op.envelope

\* The envelope keeps the recipient it has by now.
ImportedEnvelope(e, source) ==
  [envelopes[e] EXCEPT
     !.draft.title = Canonical[source.title], !.draft.markdown = source.markdown,
     !.source = source]

ImportApproved(op) ==
  LET review == pendingImports[op.envelope] IN
  /\ op.kind = "approval" /\ Resumed(op)
  /\ IF /\ ApprovalStands(op)
        /\ review # None /\ review.requestId = op.requestId
        /\ op.source.title \in DOMAIN Canonical
     THEN /\ UpdateEnvelope(op.envelope, ImportedEnvelope(op.envelope, op.source))
          /\ pendingImports' = [pendingImports EXCEPT ![op.envelope] = None]
     ELSE UNCHANGED <<envelopes, edits, sessionWork, pendingImports>>
  /\ approving' = IF op.revision = revision /\ approving = [requestId |-> op.requestId]
                  THEN None ELSE approving
  /\ UNCHANGED <<versions, pendingRestore, pendingAttachments, fileOperation,
                 requests, selected, sessionEnded, revision>>

\* The source no longer passes; its review stays.
ImportRefused(op) ==
  /\ op.kind = "approval" /\ Resumed(op)
  /\ approving' = IF op.revision = revision /\ approving = [requestId |-> op.requestId]
                  THEN None ELSE approving
  /\ UNCHANGED <<content, pendingRestore, pendingImports, pendingAttachments,
                 fileOperation, requests, selected, sessionEnded, revision>>

\* The button is disabled while the import is being approved.
DiscardPendingImport ==
  LET review == pendingImports[selected] IN
  /\ ~sessionEnded /\ review # None
  /\ approving # [requestId |-> review.requestId]
  /\ pendingImports' = [pendingImports EXCEPT ![selected] = None]
  /\ UNCHANGED <<content, pendingRestore, pendingAttachments, fileOperation,
                 approving, requests, awaited, selected, sessionEnded, revision>>
-----------------------------------------------------------------------------
(* The rehearsal around the workspace.                                     *)

\* In the list of the workspace, which drops a pending restore.
SelectEnvelope(e) ==
  /\ selected' = e /\ pendingRestore' = None
  /\ UNCHANGED <<content, reviews, awaited, sessionEnded, revision>>

\* From the overview, which does not.
OpenEnvelope(e) ==
  /\ selected # e /\ selected' = e
  /\ UNCHANGED <<content, pendingRestore, reviews, awaited, sessionEnded, revision>>

CancelFileWork == requests' = requests + 1 /\ fileOperation' = None /\ approving' = None

\* The Plan is disabled: whatever was under way is cancelled.
EndSession ==
  /\ ~sessionEnded /\ sessionEnded' = TRUE
  /\ CancelFileWork
  /\ pendingImports' = NoReviews /\ pendingAttachments' = NoReviews
  /\ sessionWork' = TRUE
  /\ UNCHANGED <<drafts, pendingRestore, awaited, selected, revision>>

\* A fresh rehearsal, offered once the Plan is disabled.
RestartLocalRehearsal ==
  /\ sessionEnded /\ revision < MaxSessions
  /\ revision' = revision + 1 /\ sessionEnded' = FALSE
  /\ envelopes' = DemoEnvelopes /\ sessionWork' = FALSE
  /\ edits' = NoEdits /\ versions' = NoVersions /\ pendingRestore' = None
  /\ pendingImports' = NoReviews /\ pendingAttachments' = NoReviews
  /\ fileOperation' = None /\ approving' = None /\ requests' = 0
  /\ selected' \in Envelopes
  /\ UNCHANGED awaited

\* What the review before a reset names for an envelope (createSessionLossReview).
LossReasons(e) ==
  {reason \in {"document", "import-source", "attachments", "versions", "edit-history"} :
     CASE reason = "document" -> envelopes[e].draft # DemoDrafts[e]
       [] reason = "import-source" -> envelopes[e].source # None
       [] reason = "attachments" -> envelopes[e].attachments # <<>>
       [] reason = "versions" -> versions[e].versions # <<>>
       [] reason = "edit-history" ->
            Len(edits[e].past) + Len(edits[e].future) > 0}

Edit ==
  \/ \E draft \in Drafts : EditDraft(draft)
  \/ UndoEdit \/ RedoEdit \/ SaveDocumentVersion
  \/ \E number \in H!Numbers(versions[selected].versions) : ReviewDocumentRestore(number)
  \/ ConfirmDocumentRestore \/ CancelDocumentRestore
  \/ \E file \in Files : RemoveAttachment(file)
  \/ RestoreImportedSource

Settle(op) ==
  \/ \E source \in Sources : ImportPrepared(op, source)
  \/ \E candidates \in Candidates : AttachmentsPrepared(op, candidates)
  \/ PreparationFailed(op) \/ PreparationDropped(op)
  \/ ImportApproved(op) \/ ImportRefused(op)

WorkspaceNext ==
  \/ Edit
  \/ \E kind \in {"import", "attachment"} : BeginFileOperation(kind)
  \/ ApprovePendingAttachments \/ DiscardPendingAttachments
  \/ BeginImportApproval \/ DiscardPendingImport
  \/ \E op \in awaited : Settle(op)
  \/ \E e \in Envelopes : SelectEnvelope(e) \/ OpenEnvelope(e)
  \/ EndSession \/ RestartLocalRehearsal

WorkspaceSpec == WorkspaceInit /\ [][WorkspaceNext]_workspaceVars

\* Every promise settles: the scanner has a timeout, and reading, hashing and
\* converting a bounded file end.
SettleSome(kind) == \E op \in awaited : op.kind = kind /\ Settle(op)
Fairness ==
  \A kind \in {"import", "attachment", "approval"} : WF_workspaceVars(SettleSome(kind))
-----------------------------------------------------------------------------
(* Properties.                                                             *)

WorkspaceTypeOK ==
  /\ \A e \in Envelopes :
       /\ envelopes[e] \in Snapshots
       /\ edits[e].past \in Seq(Snapshots) /\ edits[e].future \in Seq(Snapshots)
       /\ pendingImports[e] = None \/ pendingImports[e].source \in Sources
       /\ pendingAttachments[e] = None \/ pendingAttachments[e].candidates \in Seq(Files)
  /\ fileOperation # None => fileOperation \in awaited
  /\ approving # None => \E op \in awaited : op.kind = "approval" /\ op.revision = revision
  /\ selected \in Envelopes /\ sessionEnded \in BOOLEAN /\ revision \in 1..MaxSessions

\* However edits, undos and redos alternate, and whichever asynchronous copy
\* lands between them, an envelope holds at most MaxUndoSteps snapshots: redo
\* does not cut the past, so nothing else bounds it.
EditsAreBounded ==
  \A e \in Envelopes : Len(edits[e].past) + Len(edits[e].future) <= MaxUndoSteps

\* Whatever replaces the content of an envelope, the Owner's or a copy that
\* arrives late, can be taken back: the content replaced is next in line.
ChangesCanBeUndone ==
  [][\A e \in DOMAIN envelopes :
       envelopes'[e] # envelopes[e] /\ revision' = revision =>
         \/ edits'[e].past # <<>> /\ edits'[e].past[Len(edits'[e].past)] = envelopes[e]
         \/ edits'[e].future # <<>> /\ Head(edits'[e].future) = envelopes[e]]_workspaceVars

\* An envelope never has too many attachments, too many bytes of them or one
\* twice, although they are staged against the envelope as it was at the start
\* and undo may bring others back before they are kept.
AttachmentsAreBounded ==
  \A e \in Envelopes :
    /\ Len(envelopes[e].attachments) <= MaxAttachments
    /\ Distinct(envelopes[e].attachments)
    /\ Bytes(envelopes[e].attachments) <= MaxAttachmentTotalBytes

\* Work that a reload would lose is guarded by a confirmation (hasSessionWork),
\* and the review that confirmation shows names every envelope it takes from.
WorkIsProtected ==
  \A e \in Envelopes :
    /\ LossReasons(e) # {} \/ pendingImports[e] # None \/ pendingAttachments[e] # None
         => sessionWork
    /\ <<envelopes[e], edits[e], versions[e]>>
         # <<DemoEnvelopes[e], NoEdits[e], NoVersions[e]>> => LossReasons(e) # {}

\* A file review is decided, not displaced: it leaves an envelope by being kept
\* or discarded, and no later file takes its place (beginFileOperation).
ReviewsAreDecided ==
  \A e \in DOMAIN envelopes :
    /\ pendingImports[e] # None => pendingImports'[e] \in {pendingImports[e], None}
    /\ pendingAttachments[e] # None =>
         pendingAttachments'[e] \in {pendingAttachments[e], None}

\* An import becomes the copy of the envelope it was reviewed for, while the
\* Owner is looking at it, and leaves the recipient as the Owner last chose.
ImportsWereReviewed ==
  \A e \in DOMAIN envelopes :
    /\ envelopes'[e].source # envelopes[e].source /\ revision' = revision
    /\ envelopes'[e] \notin {edits[e].past[i] : i \in DOMAIN edits[e].past}
                       \cup {edits[e].future[i] : i \in DOMAIN edits[e].future}
    => /\ selected = e /\ pendingImports[e] # None
       /\ pendingImports[e].source = envelopes'[e].source
       /\ envelopes'[e].draft.recipient = envelopes[e].draft.recipient

\* A disabled rehearsal stays as it ended, whatever was under way, and what it
\* awaited leaves no trace in the rehearsal that replaces it.
EndedRehearsalsStayEnded ==
  /\ sessionEnded /\ revision' = revision =>
       UNCHANGED <<content, pendingImports, pendingAttachments>>
  /\ \A op \in awaited \ awaited' : op.revision < revision =>
       UNCHANGED <<content, reviews>>

\* What the files bring is reviewed, decided and for this rehearsal only.
FilesAreReviewed ==
  [][ReviewsAreDecided /\ ImportsWereReviewed /\ EndedRehearsalsStayEnded]_workspaceVars

\* Reviews and restores keep the promises of a history, although a restore is
\* planned at its review and carried out later.
HistoryStep == \A e \in Envelopes : [History(e)!Next]_(History(e)!vars)
=============================================================================
