----------------------------- MODULE DraftRehearsal ----------------------------
(***************************************************************************)
(* The draft rehearsal review (draftRehearsal.ts): a pure function of the  *)
(* Plan, the contacts and the Envelopes, and its acceptance.               *)
(*                                                                         *)
(* SHA-256 is a value of its own for each input (the identity is the input *)
(* it hashes), JSON of equal values is equal.  An identifier is well       *)
(* formed; what is not dense, not a list or of another type has no place   *)
(* in a typed caller and is left out.                                      *)
(***************************************************************************)
EXTENDS Integers, Sequences, FiniteSets, SequencesExt

CONSTANTS
  Trim,               \* label -> label without the space around it
  Blank,              \* the trimmed label of nothing but space
  Canonical,          \* valid title -> normalised title
  MaxContacts, MaxEnvelopes, MaxAttachments, MaxAttachmentsPerEnvelope,
  MaxInteger          \* Number.MAX_SAFE_INTEGER

RehearsalAssumption ==
  /\ Blank \in DOMAIN Trim => Trim[Blank] = Blank
  /\ {MaxContacts, MaxEnvelopes, MaxAttachments, MaxAttachmentsPerEnvelope} \subseteq Nat

None == [none |-> TRUE]

\* snapshotPlan: what of the Plan a rehearsal is about.
PlanSnapshot(plan) ==
  [lifecycle |-> plan.lifecycle, planId |-> plan.planId, policy |-> plan.policy,
   policyRevision |-> plan.policyRevision]

ValidPlan(plan) ==
  /\ plan.lifecycle \in {"draft", "armed", "paused", "disabled"}
  /\ plan.policyRevision \in 1..MaxInteger
  /\ 0 < plan.policy.reminderLeadMs
  /\ plan.policy.reminderLeadMs < plan.policy.checkInIntervalMs
  /\ 0 < plan.policy.gracePeriodMs
  /\ plan.policy.checkInIntervalMs + plan.policy.gracePeriodMs <= MaxInteger

ContactSnapshots(contacts) ==
  [i \in DOMAIN contacts |-> [contacts[i] EXCEPT !.label = Trim[@]]]

Injective(seq) == \A i, j \in DOMAIN seq : seq[i] = seq[j] => i = j

ValidContacts(contacts) ==
  LET snapshots == ContactSnapshots(contacts) IN
  /\ Len(contacts) <= MaxContacts
  /\ \A i \in DOMAIN contacts :
       snapshots[i].label # Blank /\ contacts[i].status = "synthetic_verified"
  /\ Injective([i \in DOMAIN contacts |-> contacts[i].contactId])
  /\ Injective([i \in DOMAIN contacts |-> <<snapshots[i].role, snapshots[i].label>>])

\* createEditableDocument; None where the document is not valid.
DocumentIdentity(document) ==
  IF document.title \in DOMAIN Canonical
  THEN [document EXCEPT !.title = Canonical[@]] ELSE None

ValidEnvelopes(envelopes) ==
  /\ Len(envelopes) <= MaxEnvelopes
  /\ Injective([i \in DOMAIN envelopes |-> envelopes[i].envelopeId])
  /\ \A i \in DOMAIN envelopes :
       /\ Len(envelopes[i].attachmentSourceIds) <= MaxAttachmentsPerEnvelope
       /\ Injective(envelopes[i].attachmentSourceIds)
  /\ FoldSeq(LAMBDA e, sum : sum + Len(e.attachmentSourceIds), 0, envelopes)
       <= MaxAttachments

\* Otherwise the review throws.
Reviewable(input) ==
  ValidPlan(input.plan) /\ ValidContacts(input.contacts) /\ ValidEnvelopes(input.envelopes)

RecipientLabels(contacts) ==
  {contacts[i].label : i \in {j \in DOMAIN contacts : contacts[j].role = "Recipient"}}

ContactsReady(contacts, envelopes) ==
  /\ \E i \in DOMAIN contacts : contacts[i].role = "Guardian"
  /\ \A i \in DOMAIN envelopes :
       Trim[envelopes[i].document.recipientLabel] \in RecipientLabels(contacts)

DocumentsReady(envelopes) ==
  envelopes # <<>> /\ \A i \in DOMAIN envelopes :
    DocumentIdentity(envelopes[i].document) # None

\* createChecks: the checks that are blocked.
BlockedChecks(plan, contacts, envelopes) ==
  (IF plan.lifecycle = "draft" THEN {} ELSE {"lifecycle"})
    \cup (IF DocumentsReady(envelopes) THEN {} ELSE {"documents"})
    \cup (IF ContactsReady(contacts, envelopes) THEN {} ELSE {"contacts"})
    \cup (IF \A i \in DOMAIN envelopes : /\ envelopes[i].protectionMode = "Standard"
                                         /\ envelopes[i].releasePolicy = "Guardian attestation first"
          THEN {} ELSE {"policies"})

\* Fault: the identity is of what the Owner is shown, which counts Attachments.
ShownIdentity(input) ==
  [plan |-> PlanSnapshot(input.plan), contacts |-> ContactSnapshots(input.contacts),
   envelopes |-> [i \in DOMAIN input.envelopes |->
     [attachments |-> Len(input.envelopes[i].attachmentSourceIds),
      document |-> input.envelopes[i].document, envelopeId |-> input.envelopes[i].envelopeId]]]

ReviewIdentity(input) ==
  [plan |-> PlanSnapshot(input.plan), contacts |-> ContactSnapshots(input.contacts),
   envelopes |-> input.envelopes]

\* The moments a cycle will pass, counted from when the Plan is armed.
Timeline(policy) ==
  << [id |-> "reminder", afterMs |-> policy.checkInIntervalMs - policy.reminderLeadMs,
      stop |-> FALSE],
     [id |-> "due", afterMs |-> policy.checkInIntervalMs, stop |-> FALSE],
     [id |-> "concern", afterMs |-> policy.checkInIntervalMs + policy.gracePeriodMs,
      stop |-> TRUE] >>

\* createDraftRehearsalReview, of a reviewable input.
Review(input, reviewedAt) ==
  LET blocked == BlockedChecks(input.plan, ContactSnapshots(input.contacts), input.envelopes)
  IN [canComplete |-> blocked = {}, blocked |-> blocked,
      noticeIntents |-> [i \in DOMAIN input.contacts |->
        [contactId |-> input.contacts[i].contactId, sent |-> FALSE]],
      reviewIdentity |-> ReviewIdentity(input), reviewedAt |-> reviewedAt,
      timeline |-> Timeline(input.plan.policy)]

\* acceptDraftRehearsalReview: the review is made again, of what there is now.
Accepted(reviewed, input) ==
  /\ Reviewable(input)
  /\ Review(input, reviewed.reviewedAt) = reviewed
  /\ reviewed.canComplete
=============================================================================
