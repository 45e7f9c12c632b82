--------------------------- MODULE DocumentHistory ---------------------------
(***************************************************************************)
(* The session history of one Editable Document                            *)
(* (editableDocumentHistory.ts): versions, newest first, at most           *)
(* MaxVersions of them.  A version is identified by its number, so the two *)
(* names the code gives it are one here; the time it was saved at is left  *)
(* out, nothing depends on it.  A call that throws changes nothing.        *)
(*                                                                         *)
(* The operators are what the workspace calls; the specification at the    *)
(* end is what a history promises whoever calls them, in whatever order.   *)
(***************************************************************************)
EXTENDS Integers, Sequences, Functions

CONSTANTS
  Documents,       \* canonical documents
  MaxVersions,     \* MAX_EDITABLE_DOCUMENT_VERSIONS
  MaxNext          \* MAX_NEXT_VERSION_NUMBER

HistoryAssumption ==
  MaxVersions \in Nat /\ MaxVersions >= 2 /\ MaxNext \in Nat \ {0}

VARIABLES current,   \* the canonical document under edit
          history    \* its history

vars == <<current, history>>

EmptyHistory == [nextVersionNumber |-> 1, versions |-> <<>>]
Versions == [versionNumber : Nat \ {0}, document : Documents]
Numbers(versions) == {versions[i].versionNumber : i \in DOMAIN versions}
Latest(h, n) == SubSeq(h, 1, IF Len(h) < n THEN Len(h) ELSE n)
Without(seq, i) == SubSeq(seq, 1, i - 1) \o SubSeq(seq, i + 1, Len(seq))

\* The versions, the greatest number first.
Sorted(versions) ==
  LET order == CHOOSE p \in Bijection(DOMAIN versions, DOMAIN versions) :
                 \A i, j \in DOMAIN versions : i < j =>
                   versions[p[i]].versionNumber >= versions[p[j]].versionNumber
  IN [i \in DOMAIN versions |-> versions[order[i]]]

\* Where a version is; a number is given out once.
Position(versions, number) ==
  CHOOSE i \in DOMAIN versions : versions[i].versionNumber = number

\* validateHistory: every call begins with it and throws if it fails.
ValidHistory(h) ==
  /\ h.nextVersionNumber \in 1..MaxNext
  /\ Len(h.versions) <= MaxVersions
  /\ IF h.versions = <<>> THEN h.nextVersionNumber = 1
     ELSE h.versions[1].versionNumber = h.nextVersionNumber - 1
  /\ \A i \in DOMAIN h.versions :
       /\ h.versions[i].versionNumber \in 1..(h.nextVersionNumber - 1)
       /\ i > 1 => h.versions[i].versionNumber < h.versions[i - 1].versionNumber
-----------------------------------------------------------------------------
MatchesLatest(h, document) ==
  h.versions # <<>> /\ h.versions[1].document = document

\* Whether a save succeeds: an unchanged draft takes no number.
CanSave(h, document) ==
  MatchesLatest(h, document) \/ h.nextVersionNumber < MaxNext

SaveVersion(h, document) ==
  IF MatchesLatest(h, document) THEN h
  ELSE [nextVersionNumber |-> h.nextVersionNumber + 1,
        versions |-> Latest(<<[versionNumber |-> h.nextVersionNumber,
                               document |-> document]>> \o h.versions, MaxVersions)]

\* Saving the draft may have pushed out the version about to be restored; it
\* then takes the place of the oldest of the others.
PreserveRestoreTarget(previous, saved, target) ==
  IF target.versionNumber \in Numbers(saved.versions) THEN saved
  ELSE LET others == Without(previous.versions,
                             Position(previous.versions, target.versionNumber))
           kept == <<saved.versions[1]>> \o Latest(others, MaxVersions - 2)
                   \o <<target>>
       IN [saved EXCEPT !.versions = Sorted(kept)]

VersionOf(h, number) == h.versions[Position(h.versions, number)]

\* planEditableDocumentRestore, for a version whose document differs.
CanRestore(h, document, number) ==
  /\ number \in Numbers(h.versions)
  /\ VersionOf(h, number).document # document
  /\ CanSave(h, document)

RestoredHistory(h, document, number) ==
  PreserveRestoreTarget(h, SaveVersion(h, document), VersionOf(h, number))
-----------------------------------------------------------------------------
Init == current \in Documents /\ history = EmptyHistory

Edit == /\ current' \in Documents
        /\ UNCHANGED history

Save == /\ CanSave(history, current)
        /\ history' = SaveVersion(history, current)
        /\ UNCHANGED current

Restore(number) ==
  /\ CanRestore(history, current, number)
  /\ current' = VersionOf(history, number).document
  /\ history' = RestoredHistory(history, current, number)

Next == Edit \/ Save \/ \E number \in Numbers(history.versions) : Restore(number)

Spec == Init /\ [][Next]_vars
-----------------------------------------------------------------------------
(* Properties.                                                             *)

TypeOK == current \in Documents /\ history.versions \in Seq(Versions)

\* Whatever was saved and restored before, the next call accepts the history
\* (validateHistory): a history never becomes one that nothing can be saved to
\* or restored from any more.
HistoryIsValid == ValidHistory(history)

\* A restore at the retention limit loses neither the draft it replaces nor
\* the version it brings back (preserveRestoreTarget).
RestoreKeepsBoth ==
  \A number \in Numbers(history.versions) : Restore(number) =>
    /\ number \in Numbers(history'.versions)
    /\ \E i \in DOMAIN history'.versions : history'.versions[i].document = current

\* A version number means one document for ever: a number that is kept keeps
\* its document, and one that appears was never given out before.
NumbersAreStable ==
  \A i \in DOMAIN history'.versions :
    LET version == history'.versions[i] IN
    \/ version.versionNumber >= history.nextVersionNumber
    \/ \E j \in DOMAIN history.versions : history.versions[j] = version
=============================================================================
