---------------------------- MODULE RehearsalSession ----------------------------
(***************************************************************************)
(* The rehearsal of one browser tab (App.tsx, Overview.tsx): the Owner     *)
(* reviews a draft, rehearses exactly what was reviewed, arms it, and may  *)
(* pause, resume, disable and start afresh, while drafts are edited and    *)
(* files are decided in the workspace next to it.                          *)
(*                                                                         *)
(* A click is one action.  What it awaits (the digest of a review, the     *)
(* application) is in `awaiting` with the values its closure holds, and    *)
(* ends in an action of its own, after any other events.  A fresh start    *)
(* mounts the overview anew: what the old one awaited still runs, against  *)
(* the old runtime, but its own state is gone.                             *)
(*                                                                         *)
(* The dialogs are not taken to keep the Owner from the rest of the page,  *)
(* as where showModal is missing they do not.                              *)
(***************************************************************************)
EXTENDS DraftRehearsal

CONSTANTS
  Contents,           \* of an Envelope: its document and its Attachments
  DemoContents,       \* sequence of the contents a rehearsal begins with
  Contacts, Policy,
  MaxSessions, MaxCommands, MaxAwaiting     \* bounds

ASSUME SessionAssumption == DemoContents \in Seq(Contents)

VARIABLES
  plans,              \* of the runtimes: lifecycle, and the keys of its commands
  session,            \* the current runtime, sessionRevision
  shown,              \* the runtime whose Plan is shown
  drafts,             \* contents of the Envelopes
  undecided,          \* Envelopes with a file being prepared or reviewed
  current,            \* currentRehearsal, its identity
  pending,            \* pendingRehearsal, the review in the dialog
  accepted,           \* acceptedRehearsalIdentity
  completing, refreshing,
  inFlight,           \* actionInFlight
  awaiting,
  sequence            \* commandSequence

planState == <<plans, session, shown>>
overview == <<current, pending, accepted, completing, refreshing>>
workspace == <<drafts, undecided>>
vars == <<planState, overview, workspace, inFlight, awaiting, sequence>>

Envelopes == DOMAIN DemoContents
PlanInput(plan) ==
  [planId |-> "plan", lifecycle |-> plan.lifecycle, policy |-> Policy, policyRevision |-> 1]

\* rehearsalInput
RehearsalInput(plan, contents) ==
  [plan |-> PlanInput(plan), contacts |-> Contacts,
   envelopes |-> [e \in Envelopes |->
     [envelopeId |-> e, protectionMode |-> "Standard",
      releasePolicy |-> "Guardian attestation first",
      document |-> contents[e].document,
      attachmentSourceIds |-> contents[e].attachmentSourceIds]]]

FreshPlan == [lifecycle |-> "draft", keys |-> {}]
Plan == plans[shown]
CurrentInput == RehearsalInput(Plan, drafts)
RehearsalKey(identity) == [rehearsal |-> identity]
RehearsedIn(plan) == {key.rehearsal : key \in {k \in plan.keys : "rehearsal" \in DOMAIN k}}
HasRehearsed(plan) == RehearsedIn(plan) # {}

Init ==
  /\ plans = <<FreshPlan>> /\ session = 1 /\ shown = 1
  /\ drafts = DemoContents /\ undecided = {}
  /\ current = None /\ pending = None /\ accepted = None
  /\ completing = FALSE /\ refreshing = TRUE
  /\ inFlight = None /\ awaiting = {} /\ sequence = 0

Await(op) == Cardinality(awaiting) < MaxAwaiting /\ awaiting' = awaiting \cup {op}
Resumed(op) == op \in awaiting /\ awaiting' = awaiting \ {op}
-----------------------------------------------------------------------------
(* The draft and its review.                                               *)

\* The workspace changes an Envelope, or settles a file with or without one.
EditDraft(e, content) ==
  /\ Plan.lifecycle # "disabled"
  /\ drafts' = [drafts EXCEPT ![e] = content] /\ refreshing' = TRUE
  /\ \/ undecided' = undecided
     \/ e \in undecided /\ undecided' = undecided \ {e}
  /\ UNCHANGED <<planState, current, pending, accepted, completing, inFlight,
                 awaiting, sequence>>

ChooseFile(e) ==
  /\ Plan.lifecycle # "disabled" /\ e \notin undecided
  /\ undecided' = undecided \cup {e}
  /\ UNCHANGED <<planState, overview, drafts, inFlight, awaiting, sequence>>

\* The effect that follows every change of the draft; an answer that is late
\* is ignored.
RefreshReview ==
  /\ refreshing /\ Plan.lifecycle = "draft" /\ refreshing' = FALSE
  /\ current' = IF Reviewable(CurrentInput) THEN ReviewIdentity(CurrentInput) ELSE None
  /\ UNCHANGED <<planState, pending, accepted, completing, workspace, inFlight,
                 awaiting, sequence>>

RehearsalIsCurrent ==
  HasRehearsed(Plan) /\ accepted # None /\ current = accepted

ReviewDraftRehearsal ==
  /\ Plan.lifecycle = "draft" /\ ~RehearsalIsCurrent
  /\ inFlight = None /\ undecided = {}
  /\ Await([step |-> "review", session |-> session, input |-> CurrentInput])
  /\ UNCHANGED <<planState, overview, workspace, inFlight, sequence>>

ReviewReady(op) ==
  /\ op.step = "review" /\ Resumed(op)
  /\ IF op.session = session /\ Reviewable(op.input)
     THEN pending' = Review(op.input, 0) /\ current' = ReviewIdentity(op.input)
     ELSE UNCHANGED <<pending, current>>
  /\ UNCHANGED <<planState, accepted, completing, refreshing, workspace, inFlight,
                 sequence>>

KeepDraft ==
  /\ pending # None /\ ~completing /\ pending' = None
  /\ UNCHANGED <<planState, current, accepted, completing, refreshing, workspace,
                 inFlight, awaiting, sequence>>

CanComplete == pending # None /\ pending.canComplete /\ ~completing

CompleteDraftRehearsal ==
  /\ CanComplete
  /\ IF undecided # {}
     THEN pending' = None /\ UNCHANGED <<completing, awaiting>>
     ELSE /\ Await([step |-> "accept", session |-> session, reviewed |-> pending,
                    input |-> CurrentInput])
          /\ completing' = TRUE /\ UNCHANGED pending
  /\ UNCHANGED <<planState, current, accepted, refreshing, workspace, inFlight, sequence>>

\* The dialog closes, with an issue: nothing was recorded.
CompletionFailed(of) ==
  IF of = session THEN pending' = None /\ completing' = FALSE
                  ELSE UNCHANGED <<pending, completing>>
-----------------------------------------------------------------------------
(* Owner actions, one at a time.                                           *)

\* runOwnerAction when nothing is in flight.
Run(op, action, of, identity) ==
  LET key == IF action = "rehearse" THEN RehearsalKey(identity)
                                    ELSE [action |-> action, number |-> sequence + 1]
      execution == [step |-> "execute", action |-> action, session |-> of, key |-> key,
                    identity |-> identity, then |-> {[session |-> of, identity |-> identity]}]
  IN /\ inFlight = None
     /\ inFlight' = execution /\ awaiting' = (awaiting \ op) \cup {execution}
     /\ sequence' = IF action \in {"rehearse", "restart"} THEN sequence ELSE sequence + 1

\* runOwnerAction while the same action is in flight: its promise is shared.
Join(op, action, identity) ==
  LET joined == [inFlight EXCEPT !.then =
                   @ \cup {[session |-> op.session, identity |-> identity]}]
  IN /\ inFlight # None /\ inFlight.action = action
     /\ inFlight' = joined /\ awaiting' = (awaiting \ {op, inFlight}) \cup {joined}
     /\ UNCHANGED sequence

\* Fault: the dialog is not told of a rehearsal that was refused.
LeftCompleting(of) == UNCHANGED <<pending, completing>>

Refused(of) == CompletionFailed(of)

\* acceptDraftRehearsalReview is answered, and the rehearsal is to be recorded.
AcceptReady(op) ==
  LET identity == op.reviewed.reviewIdentity IN
  /\ op.step = "accept" /\ op \in awaiting
  /\ IF Accepted(op.reviewed, op.input) /\ (inFlight = None \/ inFlight.action = "rehearse")
     THEN /\ Run({op}, "rehearse", op.session, identity) \/ Join(op, "rehearse", identity)
          /\ UNCHANGED <<pending, completing>>
     ELSE Resumed(op) /\ Refused(op.session) /\ UNCHANGED <<inFlight, sequence>>
  /\ UNCHANGED <<planState, current, accepted, refreshing, workspace>>

ArmReviewedDraft ==
  /\ Plan.lifecycle = "draft" /\ RehearsalIsCurrent
  /\ inFlight = None /\ undecided = {}
  /\ Await([step |-> "arm", session |-> session, input |-> CurrentInput,
            accepted |-> accepted])
  /\ UNCHANGED <<planState, overview, workspace, inFlight, sequence>>

\* Fault: the button, shown for a draft that was rehearsed, is believed.
ArmAsShown(op) == op.accepted # None

\* The draft of the click is reviewed once more before it is armed.
ArmStands(op) == ReviewIdentity(op.input) = op.accepted

ArmReady(op) ==
  /\ op.step = "arm" /\ op \in awaiting
  /\ IF ArmStands(op)
     THEN /\ \/ Run({op}, "arm", op.session, ReviewIdentity(op.input))
             \/ Join(op, "arm", ReviewIdentity(op.input))
             \/ /\ inFlight # None /\ inFlight.action # "arm"
                /\ Resumed(op) /\ UNCHANGED <<inFlight, sequence>>
          /\ UNCHANGED current
     ELSE /\ Resumed(op)
          /\ current' = IF op.session = session THEN ReviewIdentity(op.input) ELSE current
          /\ UNCHANGED <<inFlight, sequence>>
  /\ UNCHANGED <<planState, pending, accepted, completing, refreshing, workspace>>

Allowed(action, lifecycle) ==
  CASE action \in {"rehearse", "arm"} -> lifecycle = "draft"
    [] action \in {"check-in", "advance", "pause"} -> lifecycle = "armed"
    [] action = "resume" -> lifecycle = "paused"
    [] action = "disable" -> lifecycle # "disabled"
    [] action = "restart" -> lifecycle = "disabled"

\* The other buttons: what they ask for runs at once.
OwnerAction(action) ==
  /\ Allowed(action, Plan.lifecycle) /\ sequence < MaxCommands
  /\ Run({}, action, session, None)
  /\ UNCHANGED <<planState, overview, workspace>>

\* The domain model: a key it knows replays, otherwise the lifecycle decides.
Executes(plan, op) ==
  \/ op.key \in plan.keys
  \/ Allowed(op.action, plan.lifecycle) /\ (op.action = "arm" => HasRehearsed(plan))

PlanAfter(plan, op) ==
  IF op.key \in plan.keys THEN plan
  ELSE [lifecycle |-> CASE op.action \in {"arm", "resume"} -> "armed"
                        [] op.action = "pause" -> "paused"
                        [] op.action = "disable" -> "disabled"
                        [] OTHER -> plan.lifecycle,
        keys |-> plan.keys \cup {op.key}]

\* The Plan that comes back is shown, whichever runtime it came from.
Executed(op) ==
  /\ op.step = "execute" /\ op.action # "restart" /\ Resumed(op)
  /\ Executes(plans[op.session], op)
  /\ plans' = [plans EXCEPT ![op.session] = PlanAfter(@, op)]
  /\ shown' = op.session /\ inFlight' = None /\ refreshing' = TRUE
  /\ undecided' = IF plans'[shown'].lifecycle = "disabled" THEN {} ELSE undecided
  /\ LET here == {t \in op.then : t.session = session} IN
     IF op.action = "rehearse" /\ here # {}
     THEN /\ \E t \in here : accepted' = t.identity
          /\ pending' = None /\ completing' = FALSE
     ELSE UNCHANGED <<accepted, pending, completing>>
  /\ UNCHANGED <<session, current, drafts, sequence>>

ExecutionRefused(op) ==
  /\ op.step = "execute" /\ op.action # "restart" /\ Resumed(op)
  /\ ~Executes(plans[op.session], op)
  /\ inFlight' = None
  /\ IF op.action = "rehearse" /\ \E t \in op.then : t.session = session
     THEN Refused(session) ELSE UNCHANGED <<pending, completing>>
  /\ UNCHANGED <<planState, current, accepted, refreshing, workspace, sequence>>

\* restartLocalRehearsal, once the fresh runtime is ready.
Restarted(op) ==
  /\ op.step = "execute" /\ op.action = "restart" /\ Resumed(op)
  /\ session < MaxSessions
  /\ plans' = Append(plans, FreshPlan) /\ session' = session + 1 /\ shown' = session'
  /\ drafts' = DemoContents /\ undecided' = {} /\ inFlight' = None
  /\ current' = None /\ pending' = None /\ accepted' = None
  /\ completing' = FALSE /\ refreshing' = TRUE /\ sequence' = 0

Settle(op) ==
  \/ ReviewReady(op) \/ AcceptReady(op) \/ ArmReady(op)
  \/ Executed(op) \/ ExecutionRefused(op) \/ Restarted(op)

OwnerActions == {"check-in", "advance", "pause", "resume", "disable", "restart"}

Next ==
  \/ \E e \in Envelopes, content \in Contents : EditDraft(e, content)
  \/ \E e \in Envelopes : ChooseFile(e)
  \/ RefreshReview \/ ReviewDraftRehearsal \/ KeepDraft \/ CompleteDraftRehearsal
  \/ ArmReviewedDraft
  \/ \E action \in OwnerActions :
       (action = "restart" => session < MaxSessions) /\ OwnerAction(action)
  \/ \E op \in awaiting : Settle(op)

Spec == Init /\ [][Next]_vars

\* A digest and the in-memory application always answer.
Fairness ==
  \A step \in {"review", "accept", "arm", "execute"} :
    WF_vars(\E op \in awaiting : op.step = step /\ Settle(op))
-----------------------------------------------------------------------------
(* Properties.                                                             *)

TypeOK ==
  /\ \A s \in DOMAIN plans :
       plans[s].lifecycle \in {"draft", "armed", "paused", "disabled"}
  /\ session = Len(plans) /\ shown \in DOMAIN plans /\ session <= MaxSessions
  /\ drafts \in [Envelopes -> Contents] /\ undecided \subseteq Envelopes
  /\ inFlight # None => inFlight \in awaiting
  /\ \A op \in awaiting : op.step = "execute" => op = inFlight
  /\ completing => \E op \in awaiting :
       \/ op.step = "accept" /\ op.session = session
       \/ op.step = "execute" /\ \E t \in op.then : t.session = session

\* A draft is armed as it was at a click, and as it was then it had been
\* reviewed and its rehearsal recorded, with this very Plan: no edit before the
\* click, and no review that was answered late, slips in (armReviewedDraft).
ArmedWasRehearsed ==
  [][\A s \in DOMAIN plans :
       plans[s].lifecycle = "draft" /\ plans'[s].lifecycle = "armed" =>
         \E op \in awaiting \ awaiting' :
           /\ op.action = "arm" /\ op.session = s
           /\ op.identity \in RehearsedIn(plans[s])]_vars

\* Only a draft that can be carried out is recorded as rehearsed, however it
\* changes while the review is open: every document is valid and goes to a
\* Recipient, and there is a Guardian (completeDraftRehearsal).
RehearsedWasReady ==
  \A s \in DOMAIN plans : \A identity \in RehearsedIn(plans[s]) :
    /\ identity.plan.lifecycle = "draft" /\ identity.envelopes # <<>>
    /\ \E c \in ToSet(identity.contacts) : c.role = "Guardian"
    /\ \A e \in ToSet(identity.envelopes) :
         /\ DocumentIdentity(e.document) # None
         /\ \E c \in ToSet(identity.contacts) :
              c.role = "Recipient" /\ c.label = Trim[e.document.recipientLabel]

\* docs/product/NEXT_PHASE_3I_SIX.md:18 says of the tab that it "does not review
\* or arm a Draft around an unsettled local file decision".
ArmsOnlySettledDrafts ==
  [][plans[session].lifecycle = "draft" /\ plans'[session].lifecycle = "armed"
       => undecided = {}]_vars
=============================================================================
