---------------------------- MODULE ImportIntake ----------------------------
(***************************************************************************)
(* The import intake (packages/documents: importIntake.ts,                 *)
(* attachmentIntake.ts): prepare, inspect, review and approve, four        *)
(* asynchronous calls over three maps keyed by the intake's own number.    *)
(*                                                                         *)
(* Calls overlap, a caller may alter the object it passed while its call   *)
(* waits, and may pass a copy that differs from what it was given.  Bytes  *)
(* are model values and a source identifier is the bytes it is the digest  *)
(* of; text is what a conversion answered.  The scanner and the converter  *)
(* are open: they answer with any evidence and any text, or fail.          *)
(***************************************************************************)
EXTENDS Integers, Sequences, FiniteSets, Functions

CONSTANTS
  Calls,        \* slots for calls under way
  Bytes,        \* contents of files
  Admissible,   \* contents within the limits, UTF-8 and without active parts
  Attachable,   \* contents an Attachment may have: not empty, not too large
  Texts,        \* what conversions answer, within the limits
  MaxIntakes,   \* bound: intakes prepared
  MaxScans,     \* bound: scans answered
  MaxCalls,     \* bound: calls begun
  None          \* nothing under this number

IntakeAssumption ==
  /\ Admissible \subseteq Bytes /\ Attachable \subseteq Bytes
  /\ MaxIntakes \in Nat /\ MaxScans \in Nat /\ MaxCalls \in Nat

VARIABLES
  sequence,     \* intakeSequence
  prepared,     \* preparedSources: number -> [id, source, bytes]
  inspections,  \* number -> [bytes, scan]
  reviews,      \* number -> [bytes, scan, text]
  calls,        \* slot -> the call under way
  held,         \* the objects calls returned
  scans,        \* history: the bytes each scan read, and its verdict
  approvals,    \* history: what was approved, and the inspection of that time
  begun

vars == <<sequence, prepared, inspections, reviews, calls, held, scans,
          approvals, begun>>

Numbers == 1..MaxIntakes
Verdicts == {"clean", "malicious", "unavailable"}
Free == [step |-> "free"]
Maps == <<prepared, inspections, reviews>>

Init ==
  /\ sequence = 0 /\ begun = 0
  /\ prepared = [n \in Numbers |-> None]
  /\ inspections = [n \in Numbers |-> None]
  /\ reviews = [n \in Numbers |-> None]
  /\ calls = [c \in Calls |-> Free]
  /\ held = {} /\ scans = <<>> /\ approvals = {}

(* A call begins with a clone of what it was given.                        *)
Begin(c, step, given) ==
  /\ calls[c].step = "free"
  /\ begun < MaxCalls /\ begun' = begun + 1
  /\ calls' = [calls EXCEPT ![c] = [step |-> step, given |-> given, submitted |-> given]]

End(c) == calls' = [calls EXCEPT ![c] = Free]

(* The caller's object changes while the call waits.                       *)
Alter(c, b) ==
  /\ calls[c].step # "free" /\ calls[c].given.bytes # b
  /\ calls' = [calls EXCEPT ![c].given.bytes = b]
  /\ UNCHANGED <<sequence, Maps, held, scans, approvals, begun>>

---------------------------------------------------------------------------
(* prepare: a number, then the digest of a clone.                          *)

BeginPrepare(c, b) ==
  /\ b \in Admissible
  /\ sequence < MaxIntakes /\ sequence' = sequence + 1
  /\ Begin(c, "prepare", [id |-> sequence + 1, source |-> b, bytes |-> b])
  /\ UNCHANGED <<Maps, held, scans, approvals>>

EndPrepare(c) ==
  /\ calls[c].step = "prepare"
  /\ LET q == calls[c].submitted IN
       /\ prepared' = [prepared EXCEPT ![q.id] = q]
       /\ held' = held \cup {q}
  /\ End(c)
  /\ UNCHANGED <<sequence, inspections, reviews, scans, approvals, begun>>

(* prepareAttachmentCandidate: the digest and the bytes of one clone; the  *)
(* intake keeps nothing of it.                                             *)
BeginAttachment(c, b) ==
  /\ b \in Attachable
  /\ Begin(c, "attach", [source |-> b, bytes |-> b])
  /\ UNCHANGED <<sequence, Maps, held, scans, approvals>>

EndAttachment(c) ==
  /\ calls[c].step = "attach"
  /\ held' = held \cup {calls[c].submitted}
  /\ End(c)
  /\ UNCHANGED <<sequence, Maps, scans, approvals, begun>>

---------------------------------------------------------------------------
(* What a caller passes on: an object it was given, or a copy that differs *)
(* in its bytes, its number or its verdict.                                *)

Fields(o) == DOMAIN o
Given(kind) == {o \in held : Fields(o) = kind}
Quarantined == {"id", "source", "bytes"}
Inspected == Quarantined \cup {"scan"}
Reviewable == Inspected \cup {"text"}

Copies(o) ==
  {o} \cup {[o EXCEPT !.bytes = b] : b \in Bytes}
      \cup {[o EXCEPT !.id = n] : n \in 1..sequence}
      \cup (IF "scan" \in Fields(o) THEN {[o EXCEPT !.scan.verdict = "clean"]} ELSE {})

(* assertSourceDigest                                                      *)
DigestHolds(o) == o.source = o.bytes

(* samePreparedSource                                                      *)
SameSource(a, b) == a # None /\ a.id = b.id /\ a.source = b.source

---------------------------------------------------------------------------
(* inspect                                                                 *)

BeginInspect(c) ==
  /\ \E o \in Given(Quarantined) : \E s \in Copies(o) : Begin(c, "inspect", s)
  /\ UNCHANGED <<sequence, Maps, held, scans, approvals>>

Inspect(c) ==
  /\ calls[c].step = "inspect"
  /\ LET s == calls[c].submitted
         p == prepared[s.id] IN
       IF DigestHolds(s) /\ SameSource(p, s)
       THEN calls' = [calls EXCEPT ![c].step = "scan", ![c].submitted = p]
       ELSE End(c)
  /\ UNCHANGED <<sequence, Maps, held, scans, approvals, begun>>

(* validateScanEvidence                                                    *)
EvidenceHolds(scan, source) == scan.source = source.source /\ scan.intime

(* Scans that end alike in one millisecond leave the same evidence, that   *)
(* of the first.                                                           *)
Moments(scan) == {Len(scans) + 1} \cup {k \in DOMAIN scans : scans[k] = scan}

(* The scanner answers, in time or not, for the bytes or for others.       *)
EndInspect(c, verdict, source, intime) ==
  /\ calls[c].step = "scan"
  /\ Len(scans) < MaxScans
  /\ scans' = Append(scans, [bytes |-> source, verdict |-> verdict])
  /\ \E at \in Moments([bytes |-> source, verdict |-> verdict]) :
       LET p == calls[c].submitted
           evidence == [at |-> at, source |-> source, verdict |-> verdict, intime |-> intime] IN
       IF EvidenceHolds(evidence, p)
       THEN /\ inspections' = [inspections EXCEPT ![p.id] =
                 [id |-> p.id, source |-> p.source, bytes |-> p.bytes,
                  scan |-> evidence]]
            /\ held' = held \cup {inspections'[p.id]}
       ELSE UNCHANGED <<inspections, held>>
  /\ End(c)
  /\ UNCHANGED <<sequence, prepared, reviews, approvals, begun>>

---------------------------------------------------------------------------
(* review                                                                  *)

BeginReview(c) ==
  /\ \E o \in Given(Inspected) : \E s \in Copies(o) : Begin(c, "review", s)
  /\ UNCHANGED <<sequence, Maps, held, scans, approvals>>

MayConvert(i, s) ==
  /\ DigestHolds(s) /\ SameSource(i, s)
  /\ i.scan = s.scan /\ i.scan.verdict = "clean"

Review(c) ==
  /\ calls[c].step = "review"
  /\ LET s == calls[c].submitted
         i == inspections[s.id] IN
       IF MayConvert(i, s)
       THEN calls' = [calls EXCEPT ![c].step = "convert", ![c].submitted = i]
       ELSE End(c)
  /\ UNCHANGED <<sequence, Maps, held, scans, approvals, begun>>

(* The converter answers a text; one out of bounds is rejected (Fail).     *)
EndReview(c, text) ==
  /\ calls[c].step = "convert"
  /\ LET i == calls[c].submitted
         r == [id |-> i.id, source |-> i.source, bytes |-> i.bytes, scan |-> i.scan,
               text |-> text] IN
       /\ reviews' = [reviews EXCEPT ![i.id] = r]
       /\ held' = held \cup {r}
  /\ End(c)
  /\ UNCHANGED <<sequence, prepared, inspections, scans, approvals, begun>>

(* The scanner or the converter fails, or what it answered is out of bounds.*)
Fail(c) ==
  /\ calls[c].step \in {"scan", "convert"}
  /\ End(c)
  /\ UNCHANGED <<sequence, Maps, held, scans, approvals, begun>>

---------------------------------------------------------------------------
(* approve                                                                 *)

BeginApprove(c) ==
  /\ \E o \in Given(Reviewable) : \E s \in Copies(o) \cup {[o EXCEPT !.text = t] : t \in Texts} :
       Begin(c, "approve", s)
  /\ UNCHANGED <<sequence, Maps, held, scans, approvals>>

(* Fault: any copy of the reviewed source will do.                         *)
SameReviewedSource(r, s) == SameSource(r, s)

(* sameReview                                                              *)
SameReview(r, s) ==
  SameSource(r, s) /\ r.scan = s.scan /\ r.text = s.text

Approve(c) ==
  /\ calls[c].step = "approve"
  /\ LET s == calls[c].submitted
         r == reviews[s.id] IN
       approvals' = IF DigestHolds(s) /\ SameReview(r, s)
                    THEN approvals \cup {[copy |-> r, seen |-> s,
                                          inspection |-> inspections[s.id]]}
                    ELSE approvals
  /\ End(c)
  /\ UNCHANGED <<sequence, Maps, held, scans, begun>>

Next ==
  \E c \in Calls :
    \/ \E b \in Bytes : BeginPrepare(c, b) \/ BeginAttachment(c, b) \/ Alter(c, b)
    \/ EndPrepare(c) \/ EndAttachment(c)
    \/ BeginInspect(c) \/ Inspect(c)
    \/ \E v \in Verdicts, b \in Bytes, t \in BOOLEAN : EndInspect(c, v, b, t)
    \/ BeginReview(c) \/ Review(c) \/ Fail(c)
    \/ \E t \in Texts : EndReview(c, t)
    \/ BeginApprove(c) \/ Approve(c)

Spec == Init /\ [][Next]_vars

---------------------------------------------------------------------------
(* A number is given once, and what is kept under it carries it.           *)
TypeOK ==
  /\ sequence \in 0..MaxIntakes /\ begun \in 0..MaxCalls /\ Len(scans) <= MaxScans
  /\ \A n \in Numbers :
       /\ prepared[n] # None => prepared[n].id = n /\ n <= sequence
       /\ inspections[n] # None => prepared[n] # None /\ inspections[n].id = n
       /\ reviews[n] # None => inspections[n] # None /\ reviews[n].id = n
  /\ \A c, d \in Calls :
       calls[c].step = "prepare" /\ calls[d].step = "prepare"
         /\ calls[c].submitted.id = calls[d].submitted.id => c = d

(* Whatever a caller does to its arrays while a call waits, each object    *)
(* the intake returns has the bytes its identifier is the digest of.       *)
ObjectsMatchTheirDigest == \A o \in held : o.source = o.bytes

(* What is kept as inspected, reviewed or approved under a number is what  *)
(* was prepared under it, and the evidence is of a scan that read those    *)
(* bytes (ADR 0012: a proof binds the source digest).                      *)
EvidenceIsOfTheBytes ==
  \A o \in Range(inspections) \cup Range(reviews) \cup {a.copy : a \in approvals} :
    o # None =>
      /\ prepared[o.id] # None /\ o.bytes = prepared[o.id].bytes
      /\ scans[o.scan.at] = [bytes |-> o.bytes, verdict |-> o.scan.verdict]

(* Nothing is reviewed or approved but on a scan that found it clean, with *)
(* whatever a caller claims of the verdict, and with a second inspection   *)
(* ending while the first one's conversion runs.                           *)
OnlyCleanIsReviewed ==
  \A o \in Range(reviews) \cup {a.copy : a \in approvals} :
    o # None => scans[o.scan.at].verdict = "clean"

(* What the Owner approves is the copy the Owner saw, when another review  *)
(* of the same source has ended since (ADR 0013: approval is bound to the  *)
(* exact reviewed conversion result).                                      *)
ApprovedIsWhatWasSeen ==
  \A a \in approvals : a.copy.text = a.seen.text /\ a.copy.scan = a.seen.scan

(* An approval rests on the intake's last inspection ("stale evidence ...  *)
(* fail closed", ADR 0012).                                                *)
ApprovedByLastInspection ==
  \A a \in approvals : a.inspection.scan = a.copy.scan
=============================================================================
