------------------------- MODULE ContinuityTimeline -------------------------
(***************************************************************************)
(* What a continuity Plan promises its Owner, without commands, keys,      *)
(* events or stored deadlines.  The Plan has a lifecycle and a stage of    *)
(* escalation; `renewedAt' is the last moment at which the Owner was known *)
(* to be in control (arming, a Check-in, a resumption), and `clock' is the *)
(* latest moment the Plan has heard of.  Escalation happens one stage at a *)
(* time, only while the Plan is armed, and never before the full delay of  *)
(* the stage has passed since the renewal.                                 *)
(*                                                                         *)
(* The domain model Plan is shown to implement this specification.         *)
(***************************************************************************)
EXTENDS Naturals

CONSTANT Delay    \* stage -> time that must pass between renewal and stage

VARIABLES lifecycle, stage, renewedAt, clock

timeline == <<lifecycle, stage, renewedAt, clock>>

Stages == {"on_time", "reminder", "overdue", "concern"}

\* The ladder of escalation; "concern" is its last rung.
Escalation == {<<"on_time", "reminder">>, <<"reminder", "overdue">>,
               <<"overdue", "concern">>}

Init ==
  /\ lifecycle = "draft"
  /\ stage = "on_time"
  /\ clock \in Nat
  /\ renewedAt = clock

\* Something was heard at a later (or the same) moment that changes nothing.
Hear ==
  /\ clock' \in Nat /\ clock' >= clock
  /\ UNCHANGED <<lifecycle, stage, renewedAt>>

\* The Owner takes or keeps control: the full delay starts again.
Renew ==
  /\ lifecycle # "disabled"
  /\ clock' \in Nat /\ clock' >= clock
  /\ lifecycle' = "armed"
  /\ stage' = "on_time"
  /\ renewedAt' = clock'

\* One rung, and only when it is earned.
Escalate ==
  /\ lifecycle = "armed"
  /\ clock' \in Nat /\ clock' >= clock
  /\ <<stage, stage'>> \in Escalation
  /\ clock' >= renewedAt + Delay[stage']
  /\ UNCHANGED <<lifecycle, renewedAt>>

\* A pause freezes the timeline where it stands.
Suspend ==
  /\ lifecycle = "armed"
  /\ lifecycle' = "paused"
  /\ clock' \in Nat /\ clock' >= clock
  /\ UNCHANGED <<stage, renewedAt>>

\* The end of the Plan; an open Concern does not survive it.
Retire ==
  /\ lifecycle # "disabled"
  /\ lifecycle' = "disabled"
  /\ clock' \in Nat /\ clock' >= clock
  /\ \/ stage # "concern" /\ UNCHANGED <<stage, renewedAt>>
     \/ stage = "concern" /\ stage' = "on_time" /\ renewedAt' = clock'

Next == Hear \/ Renew \/ Escalate \/ Suspend \/ Retire

Spec == Init /\ [][Next]_timeline
=============================================================================
