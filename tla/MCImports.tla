----------------------------- MODULE MCImports -----------------------------
(***************************************************************************)
(* Imports small enough for TLC: the executable pipeline, and the intake   *)
(* in two instances.                                                       *)
(*                                                                         *)
(* The intake sees the pipeline as two calls that answer or fail, which is *)
(* how ImportIntake models them, so neither reads the other's state: one   *)
(* part moves in each behaviour and the others stay as they begin.         *)
(***************************************************************************)
EXTENDS ImportIsolation

CONSTANTS scan, rescan, convert,    \* jobs
          c1, c2,                   \* calls
          note, letter,             \* contents
          first, second, None

VARIABLES part,
  numbered, prepared, inspections, reviews, calls, held, scans, approvals, begun

intakeVars == <<numbered, prepared, inspections, reviews, calls, held, scans,
                approvals, begun>>
allVars == <<part, vars, intakeVars>>

MCRoleOf == [j \in Jobs |-> IF j = convert THEN "converter" ELSE "classifier"]

\* Two scans, which share a runtime proof and the numbers of their names.
Scans == INSTANCE ImportIsolation WITH
  Jobs <- {scan, rescan}, RoleOf <- [j \in {scan, rescan} |-> "classifier"],
  MaxAttempts <- 1

\* One source, inspected and reviewed twice.
Again == INSTANCE ImportIntake WITH
  sequence <- numbered, Calls <- {c1, c2}, Bytes <- {note, letter},
  Admissible <- {note}, Attachable <- {letter}, Texts <- {first, second},
  MaxIntakes <- 1, MaxScans <- 2, MaxCalls <- 6

\* Two sources at a time.
Two == INSTANCE ImportIntake WITH
  sequence <- numbered, Calls <- {c1, c2}, Bytes <- {note, letter},
  Admissible <- {note, letter}, Attachable <- {letter}, Texts <- {first},
  MaxIntakes <- 2, MaxScans <- 2, MaxCalls <- 5

ASSUME IsolationAssumption
ASSUME Scans!IsolationAssumption
ASSUME Again!IntakeAssumption
ASSUME Two!IntakeAssumption

---------------------------------------------------------------------------
MCInit ==
  /\ part \in {"isolation", "scans", "again", "two"}
  /\ IF part = "scans" THEN Scans!Init ELSE Init
  /\ IF part = "two" THEN Two!Init ELSE Again!Init

MCNext ==
  \/ part = "isolation" /\ Next /\ UNCHANGED <<part, intakeVars>>
  \/ part = "scans" /\ Scans!Next /\ UNCHANGED <<part, intakeVars>>
  \/ part = "again" /\ Again!Next /\ UNCHANGED <<part, vars>>
  \/ part = "two" /\ Two!Next /\ UNCHANGED <<part, vars>>

MCFairSpec ==
  /\ MCInit /\ [][MCNext]_allVars
  /\ \A j \in Jobs : WF_vars(part = "isolation" /\ Step(j))
  /\ \A r \in Roles :
       WF_vars(part = "isolation" /\ \E a \in {"rootless", "refused"} : AnswerRootless(r, a))
  /\ WF_vars(part = "isolation" /\ \E c \in containers : ContainerEnds(c))

---------------------------------------------------------------------------
\* What the Owner approves is the conversion the Owner saw of the bytes that
\* were prepared and found clean, with calls that overlap, arrays that change
\* while a call waits, and copies that lie (importIntake.ts; the parts are
\* stated in ImportIntake).
ApprovalsAreBound ==
  /\ part = "again" =>
       /\ Again!TypeOK /\ Again!ObjectsMatchTheirDigest
       /\ Again!EvidenceIsOfTheBytes /\ Again!OnlyCleanIsReviewed
       /\ Again!ApprovedIsWhatWasSeen
  /\ part = "two" =>
       /\ Two!TypeOK /\ Two!ObjectsMatchTheirDigest
       /\ Two!EvidenceIsOfTheBytes /\ Two!OnlyCleanIsReviewed
       /\ Two!ApprovedIsWhatWasSeen

\* Whichever step of a run fails, and when the process dies with containers
\* and directories behind it: no container starts before the runtime is known
\* to be rootless, what is removed is the run's own or a dead process's, an
\* answer leaves nothing behind, and no verdict is made up
\* (executablePipeline.ts; the parts are stated in ImportIsolation).
RunsAreContained ==
  /\ [](part = "isolation" => TypeOK /\ AnsweredLeavesNothing /\ VerdictsAreTheDaemons)
  /\ [](part = "scans" =>
          Scans!TypeOK /\ Scans!AnsweredLeavesNothing /\ Scans!VerdictsAreTheDaemons)
  /\ [][/\ part = "isolation" => RemovesItsOwn /\ StartsRootless
        /\ part = "scans" => Scans!RemovesItsOwn /\ Scans!StartsRootless]_vars

\* Every call is answered or dies with its process, and every container ends.
Ended(j) == part = "isolation" => jobs[j].step \in {"unbegun", "done"}
Gone(j) == part = "isolation" => ~\E c \in containers : c.job = j
CallsAndContainersEnd ==
  \A j \in Jobs : (~Ended(j) ~> Ended(j)) /\ (~Gone(j) ~> Gone(j))
=============================================================================
