---------------------------- MODULE MCDraftRehearsal ---------------------------
(***************************************************************************)
(* A review is made of some input, the input changes while the Owner reads *)
(* it, and the review is accepted or not.                                  *)
(***************************************************************************)
EXTENDS DraftRehearsal

CONSTANTS Labels, Titles, Attachments

VARIABLES input, reviewed, seen

vars == <<input, reviewed, seen>>

\* Label 2 is label 1 with space around it, label 0 is space; title 0 is empty,
\* title 2 is title 1 before it is normalised.
MCTrim == [l \in Labels |-> IF l = 2 THEN 1 ELSE l]
MCCanonical == [t \in Titles \ {0} |-> 1]

Policies == {[checkInIntervalMs |-> i, reminderLeadMs |-> l, gracePeriodMs |-> 2]
             : i \in {2, 3, 4}, l \in {1, 2}}
Plans == [planId : {"plan"}, lifecycle : {"draft", "armed"}, policyRevision : {1, 2},
          policy : Policies, stage : {"on_time"}]
Guardian == [contactId |-> "guardian", label |-> 3, role |-> "Guardian",
             status |-> "synthetic_verified"]
Recipient(id, label) == [contactId |-> id, label |-> label, role |-> "Recipient",
                         status |-> "synthetic_verified"]
ContactLists == {<<>>, <<Guardian>>} \cup
  {<<Guardian, Recipient("a", l)>> : l \in Labels} \cup
  {<<Recipient("a", 1), Recipient(id, l)>> : id \in {"a", "b"}, l \in {1, 2}}
Envelope(id, title, label, attachments) ==
  [envelopeId |-> id, protectionMode |-> "Standard",
   releasePolicy |-> "Guardian attestation first", attachmentSourceIds |-> attachments,
   document |-> [title |-> title, recipientLabel |-> label, markdown |-> 1]]
AttachmentLists == {<<>>, <<1, 1>>, <<1, 2>>} \cup {<<a>> : a \in Attachments}
EnvelopeLists == {<<>>} \cup
  {<<Envelope(1, t, l, as)>> : t \in Titles, l \in Labels, as \in AttachmentLists} \cup
  {<<Envelope(1, 1, 1, as), Envelope(id, 1, l, <<>>)>> :
     id \in {1, 2}, l \in Labels, as \in AttachmentLists}

Base == [plan |-> CHOOSE p \in Plans : p.lifecycle = "draft" /\ ValidPlan(p)
                                       /\ p.policyRevision = 1 /\ p.policy.checkInIntervalMs = 3,
         contacts |-> <<Guardian, Recipient("a", 1)>>,
         envelopes |-> <<Envelope(1, 1, 1, <<>>)>>]

\* Base with two of its three parts replaced.
Near == {[Base EXCEPT !.plan = p, !.envelopes = e] : p \in Plans, e \in EnvelopeLists}
  \cup {[Base EXCEPT !.contacts = c, !.envelopes = e] : c \in ContactLists, e \in EnvelopeLists}

Init == input \in Near /\ reviewed = None /\ seen = None

MakeReview ==
  /\ reviewed = None /\ Reviewable(input)
  /\ reviewed' = Review(input, 1) /\ seen' = input /\ UNCHANGED input

Drift ==
  /\ reviewed # None /\ input = seen
  /\ \/ \E p \in Plans : input' = [input EXCEPT !.plan = p]
     \/ \E c \in ContactLists : input' = [input EXCEPT !.contacts = c]
     \/ \E e \in EnvelopeLists : input' = [input EXCEPT !.envelopes = e]
  /\ UNCHANGED <<reviewed, seen>>

Next == MakeReview \/ Drift
Spec == Init /\ [][Next]_vars

SameContacts(a, b) ==
  Len(a) = Len(b) /\ \A i \in DOMAIN a :
    /\ <<a[i].contactId, a[i].role, a[i].status>> = <<b[i].contactId, b[i].role, b[i].status>>
    /\ MCTrim[a[i].label] = MCTrim[b[i].label]

\* What is accepted is what was reviewed, in every part that the rehearsal is
\* about, although the Owner is shown counts and labels only: no change behind
\* an open review goes through (acceptDraftRehearsalReview).
AcceptedAsReviewed ==
  reviewed # None /\ Accepted(reviewed, input) =>
    /\ PlanSnapshot(input.plan) = PlanSnapshot(seen.plan)
    /\ SameContacts(input.contacts, seen.contacts)
    /\ input.envelopes = seen.envelopes

\* A draft that can be completed can be carried out: it is a draft, each of its
\* documents is valid, and goes to a Recipient who will have had a notice, and
\* there is a Guardian to attest.
CompletedCanBeCarriedOut ==
  reviewed # None /\ Accepted(reviewed, input) =>
    /\ input.plan.lifecycle = "draft" /\ input.envelopes # <<>>
    /\ \E i \in DOMAIN input.contacts : input.contacts[i].role = "Guardian"
    /\ \A i \in DOMAIN input.envelopes :
         LET document == input.envelopes[i].document IN
         /\ DocumentIdentity(document) # None
         /\ \E j \in DOMAIN input.contacts :
              /\ input.contacts[j].role = "Recipient"
              /\ MCTrim[input.contacts[j].label] = MCTrim[document.recipientLabel]
              /\ \E k \in DOMAIN reviewed.noticeIntents :
                   reviewed.noticeIntents[k].contactId = input.contacts[j].contactId

\* Every review shows a rising timeline that stops at Concern.
TimelinesRise ==
  reviewed # None =>
    /\ \A i \in 1..2 : reviewed.timeline[i].afterMs < reviewed.timeline[i + 1].afterMs
    /\ reviewed.timeline[1].afterMs > 0 /\ reviewed.timeline[3].afterMs <= MaxInteger
=============================================================================
