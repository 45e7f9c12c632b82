------------------------ MODULE MCDocumentWorkspace -------------------------
(***************************************************************************)
(* A workspace small enough for TLC.  Title 2 is title 1 before it is      *)
(* normalised, title 0 is empty.  One behaviour moves one part:            *)
(*   "files"    two envelopes, two file operations under way, attachments  *)
(*              that do not all fit (the .cfg's constants);                *)
(*   "writing"  one envelope, all drafts, undo, versions and restores;     *)
(*   "imports"  two envelopes and recipients, two rehearsals;              *)
(*   "history"  a document history alone, long enough to overflow often.   *)
(***************************************************************************)
EXTENDS DocumentWorkspace

VARIABLES moving, current, history
historyVars == <<current, history>>
documentsVars == <<moving, workspaceVars, historyVars>>

MCCanonical == [t \in Titles \ {0} |-> 1]
MCSize == [f \in Files |-> f]
\* An import is named after its file, which may have no name.
MCSources == [title : {0, 1}, markdown : {1}]
MCDemoDrafts == [e \in Envelopes |-> [title |-> 1, recipient |-> 1, markdown |-> 1]]

Writing == INSTANCE DocumentWorkspace WITH
  Envelopes <- {1}, Titles <- {1, 2}, Markdowns <- {1, 2},
  Canonical <- <<1, 1>>,
  DemoDrafts <- <<[title |-> 1, recipient |-> 1, markdown |-> 1]>>,
  Sources <- [title : {2}, markdown : {2}], Files <- {}, Size <- <<>>,
  MaxAttachments <- 0, MaxAttachmentTotalBytes <- 0, MaxUndoSteps <- 2,
  MaxVersions <- 2, MaxNext <- 4, MaxRequests <- 1, MaxSessions <- 1

Imports == INSTANCE DocumentWorkspace WITH
  Titles <- {1}, Canonical <- <<1>>, Recipients <- {1, 2},
  Sources <- [title : {1}, markdown : {1}], Files <- {}, Size <- <<>>,
  MaxAttachments <- 0, MaxAttachmentTotalBytes <- 0, MaxSessions <- 2

Deep == INSTANCE DocumentHistory WITH
  Documents <- {"a", "b", "c"}, MaxVersions <- 4, MaxNext <- 9

ASSUME Writing!WorkspaceAssumption
ASSUME Imports!WorkspaceAssumption
ASSUME H!HistoryAssumption
ASSUME Writing!H!HistoryAssumption
ASSUME Deep!HistoryAssumption

---------------------------------------------------------------------------
\* The first envelope is the one selected.
DocumentsInit ==
  /\ \/ moving \in {"files", "imports", "history"} /\ WorkspaceInit
     \/ moving = "writing" /\ Writing!WorkspaceInit
  /\ Deep!Init /\ current = "a" /\ selected = 1

DocumentsNext ==
  /\ \/ moving = "files" /\ WorkspaceNext /\ UNCHANGED historyVars
     \/ moving = "writing" /\ Writing!WorkspaceNext /\ UNCHANGED historyVars
     \/ moving = "imports" /\ Imports!WorkspaceNext /\ UNCHANGED historyVars
     \/ moving = "history" /\ Deep!Next /\ UNCHANGED workspaceVars
  /\ revision' # revision => selected' = 1
  /\ UNCHANGED moving

DocumentsFairSpec ==
  /\ DocumentsInit /\ [][DocumentsNext]_documentsVars
  /\ \A kind \in {"import", "attachment", "approval"} :
       WF_workspaceVars(moving = "files" /\ SettleSome(kind))

---------------------------------------------------------------------------
(* What must hold; see DocumentWorkspace and DocumentHistory.              *)

\* Each part keeps its type and its limits, and no history becomes one that
\* the next call would refuse (validateHistory).
WorkspaceIsSound ==
  /\ moving = "files" => WorkspaceTypeOK /\ AttachmentsAreBounded /\ WorkIsProtected
  /\ moving = "writing" =>
       Writing!WorkspaceTypeOK /\ Writing!EditsAreBounded /\ Writing!WorkIsProtected
  /\ moving = "imports" => Imports!WorkspaceTypeOK /\ WorkIsProtected
  /\ moving = "history" => Deep!TypeOK /\ Deep!HistoryIsValid

\* Every envelope's versions keep the promises of a history, although a
\* restore is planned at its review and carried out later; and a history keeps
\* what a restore replaces and what it brings back (preserveRestoreTarget).
HistoriesAreKept ==
  [][/\ moving = "writing" => Writing!HistoryStep
     /\ moving = "history" => Deep!RestoreKeepsBoth /\ Deep!NumbersAreStable]_documentsVars

\* The Owner is never left waiting: a file operation and an approval settle.
FilesSettle ==
  /\ moving = "files" /\ fileOperation # None ~> fileOperation = None
  /\ moving = "files" /\ approving # None ~> approving = None
=============================================================================
